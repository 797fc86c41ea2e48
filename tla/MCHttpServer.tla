---------------------------- MODULE MCHttpServer ----------------------------
(* HttpServer with a slot that is used again and again.                    *)
EXTENDS HttpServer
=============================================================================
