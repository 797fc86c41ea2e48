--------------------------- MODULE HttpConnection ---------------------------
(***************************************************************************)
(* What a web server owes a client, independently of how it is written: a  *)
(* connection is opened, carries whole responses one after the other, and  *)
(* is over.  A response may be cut short, but only as the last thing the   *)
(* connection ever carries.  No connection stays open for ever.            *)
(***************************************************************************)
EXTENDS Naturals, Sequences

CONSTANT Conns          \* connection slots

VARIABLES
    open,               \* the slots whose connection is open
    out                 \* slot -> the parts sent on its latest connection

vars == <<open, out>>

(* A redirect has no body.                                                 *)
Responses == {<<"redirect">>, <<"header", "body">>}

Init ==
    /\ open = {}
    /\ out = [c \in Conns |-> <<>>]

Open(c) ==
    /\ c \notin open
    /\ open' = open \cup {c}
    /\ out' = [out EXCEPT ![c] = <<>>]

(* A connection attempt is turned down; nothing is left of the last one.   *)
Refuse(c) ==
    /\ c \notin open
    /\ out' = [out EXCEPT ![c] = <<>>]
    /\ UNCHANGED open

Answer(c) ==
    /\ c \in open
    /\ \E r \in Responses : out' = [out EXCEPT ![c] = @ \o r]
    /\ UNCHANGED open

(* The connection ends, between two responses or in the middle of one.     *)
End(c) ==
    /\ c \in open
    /\ open' = open \ {c}
    /\ \E r \in Responses : \E k \in 0 .. Len(r) - 1 :
            out' = [out EXCEPT ![c] = @ \o SubSeq(r, 1, k)]

Next == \E c \in Conns : Open(c) \/ Refuse(c) \/ Answer(c) \/ End(c)

Safety == Init /\ [][Next]_vars

Spec == Safety /\ \A c \in Conns : WF_vars(End(c))

=============================================================================
