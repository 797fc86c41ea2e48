---------------------------- MODULE MCFilesystem ----------------------------
(* Filesystem with one integer file and one string file.                   *)
EXTENDS Filesystem

MCInts == {-1, 7}
MCStrings == {<<>>, <<97>>, <<98, 98>>}
=============================================================================
