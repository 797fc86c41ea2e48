------------------------------ MODULE Programs ------------------------------
(***************************************************************************)
(* The two example programs, main.cpp and main_ap.cpp, once their server   *)
(* is started: they register their pages one by one, then turn to the loop *)
(* of MainLoop for good, while requests arrive from the interrupt all the  *)
(* time (UrlCollection).                                                   *)
(***************************************************************************)
EXTENDS MainLoop, Sequences

CONSTANTS Program, Requests     \* see UrlCollection

VARIABLES server, address, url_map, next, linking, answer

Url == INSTANCE UrlCollection

(* A URL is one word, and so is the path of a request: it is read up to    *)
(* the first space.                                                        *)
OneWord(text) == text \in Seq(STRING) /\ \A i \in 1 .. Len(text) : text[i] # Url!BLANK

ASSUME TextsAssumption ==
    /\ Program \in Seq(Seq(STRING))
    /\ \A p \in 1 .. Len(Program) : OneWord(Program[p])
    /\ \A path \in Requests : OneWord(path)

Registering == next <= Len(Program)

PInit == Url!Init /\ Init

url_vars == <<server, address, url_map, next, linking, answer>>
pvars == <<vars, url_vars>>

Register == Registering /\ Url!register_url /\ UNCHANGED vars

Serve ==
    \E path \in Requests, tail \in {<<>>, Url!SPACE} :
        Url!Request(path, tail) /\ UNCHANGED vars

LoopTick == ~Registering /\ Tick /\ UNCHANGED url_vars
LoopTurn == ~Registering /\ Turn /\ UNCHANGED url_vars

PNext == Register \/ Serve \/ LoopTick \/ LoopTurn

(* The program goes on between the interrupts.                             *)
PSpec == PInit /\ [][PNext]_pvars /\ WF_pvars(Register)

-----------------------------------------------------------------------------
(* Properties; LedOnTime and LedNeverEarly are those of MainLoop.          *)

(* Only completely registered pages with which the path begins are served, *)
(* also while register_url is at work; and outside it a request for a      *)
(* registered URL is answered, by the station's server (find_exact) with   *)
(* its own page.                                                           *)
LookupRight == Url!TypeOK /\ Url!AnswerMatchesUrl /\ Url!OwnPageServed

(* All pages that main registers are reachable in the end.                 *)
EveryPageServed == Url!EveryPageServed

=============================================================================
