---------------------------- MODULE MCApWebsite -----------------------------
(* ApWebsite with a slot that is used again and again.                     *)
EXTENDS ApWebsite
=============================================================================
