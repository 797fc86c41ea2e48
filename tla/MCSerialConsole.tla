-------------------------- MODULE MCSerialConsole ---------------------------
(* SerialConsole with commands of one or two letters and a buffer of four  *)
(* bytes; lines may be two characters too long.                            *)
EXTENDS SerialConsole

MCChars == {"c", "e", "F", " "}
MCCapture == <<"c">>
MCEcho == <<"e">>
MCBootloader == <<"F">>
MCPrint == {<<"F", "e">>}
=============================================================================
