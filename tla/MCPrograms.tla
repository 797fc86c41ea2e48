----------------------------- MODULE MCPrograms -----------------------------
(* Programs with pages of main.cpp, one URL a prefix of two others, their  *)
(* texts in every order in memory.                                         *)
EXTENDS Programs

Path(word) == <<"/", word>>

MCProgram == <<Path("status"), Path("temp") \o <<"C">>, Path("temp") \o <<"F">>, Path("temp")>>
MCRequests == {MCProgram[k] : k \in 1 .. Len(MCProgram)} \cup {<<"/">>, Path("temp") \o <<"x">>}
=============================================================================
