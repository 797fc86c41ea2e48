----------------------------- MODULE HtmlHelper -----------------------------
(***************************************************************************)
(* replace_newlines_with_html of ap_website/html_helper.c: one loop counts *)
(* how long the result will be, a second one writes it, and the count is   *)
(* returned; the NUL behind the result is not counted.  A step is a turn   *)
(* of a loop.  The buffer is the caller's; the function is not told its    *)
(* size.                                                                   *)
(***************************************************************************)
EXTENDS Naturals, Sequences, SequencesExt

CONSTANTS
    Chars,      \* of an input, NL among them and NUL not
    MAX_INPUT   \* bound on the length of the input

NL == "newline"
NUL == "nul"
BR == <<"<", "b", "r", ">">>

VARIABLES
    input,
    pc,             \* "count", "copy" or "done"
    i,              \* characters of the input the loop has passed
    output_length,
    dst             \* what was written

vars == <<input, pc, i, output_length, dst>>

Init ==
    /\ input \in BoundedSeq(Chars, MAX_INPUT)
    /\ pc = "count" /\ i = 0 /\ output_length = 0 /\ dst = <<>>

Width(c) == IF c = NL THEN 4 ELSE 1

Count ==
    /\ pc = "count" /\ i < Len(input)
    /\ output_length' = output_length + Width(input[i + 1])
    /\ i' = i + 1
    /\ UNCHANGED <<input, pc, dst>>

Counted ==
    /\ pc = "count" /\ i = Len(input)
    /\ pc' = "copy" /\ i' = 0
    /\ UNCHANGED <<input, output_length, dst>>

(* Fault on purpose: the newline itself is kept behind its replacement.    *)
ReplacementFault(c) == IF c = NL THEN BR \o <<c>> ELSE <<c>>
Replacement(c) == IF c = NL THEN BR ELSE <<c>>

Copy ==
    /\ pc = "copy" /\ i < Len(input)
    /\ dst' = dst \o Replacement(input[i + 1])
    /\ i' = i + 1
    /\ UNCHANGED <<input, pc, output_length>>

(* The result is terminated.                                               *)
Done ==
    /\ pc = "copy" /\ i = Len(input)
    /\ pc' = "done"
    /\ dst' = Append(dst, NUL)
    /\ UNCHANGED <<input, i, output_length>>

Next == Count \/ Counted \/ Copy \/ Done

Spec == Init /\ [][Next]_vars

-----------------------------------------------------------------------------
(* Properties.                                                             *)

(* The result is the input with every newline replaced and nothing else    *)
(* changed, and its NUL; what is returned is its strlen.  The second loop  *)
(* never writes more than the first one counted, and with the NUL exactly  *)
(* one byte more is written: "Add 1 for the null-terminator"               *)
(* (html_helper.c:14) is what a caller must size its buffer by.            *)
ReplacesNewlines ==
    /\ pc = "copy" => Len(dst) <= output_length
    /\ pc = "done" =>
        /\ dst = Append(FlattenSeq([k \in DOMAIN input |->
                            IF input[k] = NL THEN BR ELSE <<input[k]>>]), NUL)
        /\ Len(dst) = output_length + 1
        /\ \A k \in 1 .. output_length : dst[k] # NUL

=============================================================================
