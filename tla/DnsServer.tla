----------------------------- MODULE DnsServer ------------------------------
(***************************************************************************)
(* The DNS server of the access point, ap_website/dnsserver/dnsserver.c:   *)
(* every name resolves to the access point itself.                         *)
(*                                                                         *)
(* A datagram is handled by one call of dns_server_process, whose loop     *)
(* walks over the labels of the first question; one step is one turn of    *)
(* that loop, and the length byte it reads is chosen when it is read (the  *)
(* text of a label decides nothing).  lwIP calls back from an interrupt    *)
(* while the program is anywhere in dns_server_init, so that function is   *)
(* three steps; the program itself never runs while a callback does.  A    *)
(* start without a deinit before it is AccessPoint's subject.              *)
(***************************************************************************)
EXTENDS Integers

CONSTANTS
    MAX_DNS_MSG_SIZE,   \* size of the buffer a datagram is copied to
    HEADER_SIZE,        \* sizeof(dns_header_t)
    MAX_LABEL,          \* longest label accepted
    MAX_QUESTION,       \* longest name accepted, as encoded
    QUESTION_TAIL,      \* type and class after the name
    ANSWER_SIZE,        \* bytes the server appends
    Lengths             \* lengths of the datagrams received

ASSUME SizesAssumption ==
    /\ {MAX_DNS_MSG_SIZE, HEADER_SIZE, MAX_LABEL, MAX_QUESTION,
            QUESTION_TAIL, ANSWER_SIZE} \subseteq Nat \ {0}
    /\ HEADER_SIZE + MAX_QUESTION + QUESTION_TAIL + ANSWER_SIZE <= MAX_DNS_MSG_SIZE
ASSUME LengthsAssumption == Lengths \subseteq Nat

VARIABLES
    udp,            \* d->udp: "null", "unbound" or "bound"
    ip,             \* d->ip: "zero" or "gw", the gateway's address
    main,           \* the program: "idle" or inside dns_server_init
    pc,             \* dns_server_process: "idle", "walk" or "named"
    len,            \* length of the datagram
    msg_len,        \* how much of it was copied
    question_ptr,   \* as an offset into the buffer
    reply           \* what the last call sent, or NoReply

vars == <<udp, ip, main, pc, len, msg_len, question_ptr, reply>>

NoReply == [sent |-> FALSE, ip |-> "zero", size |-> 0, whole |-> TRUE]

(* Length bytes; all that are too large are treated alike.                 *)
Byte == 0 .. MAX_LABEL + 1

Init ==
    /\ udp = "null"
    /\ ip = "zero"
    /\ main = "idle"
    /\ pc = "idle"
    /\ len = 0 /\ msg_len = 0 /\ question_ptr = 0
    /\ reply = NoReply

-----------------------------------------------------------------------------
(* dns_server_init: a socket that could not be made or bound ends it       *)
(* silently (a release build has no assert), with the address not set.     *)
dns_socket_new_dgram ==
    /\ main = "idle" /\ pc = "idle" /\ udp = "null"
    /\ \/ udp' = "null" /\ main' = "idle"
       \/ udp' = "unbound" /\ main' = "bind"
    /\ UNCHANGED <<ip, pc, len, msg_len, question_ptr, reply>>

dns_socket_bind ==
    /\ main = "bind" /\ pc = "idle"
    /\ \/ udp' = udp /\ main' = "idle"
       \/ udp' = "bound" /\ main' = "init"
    /\ UNCHANGED <<ip, pc, len, msg_len, question_ptr, reply>>

(* Fault on purpose: the address is not stored.                            *)
InitFault ==
    /\ main = "init" /\ pc = "idle"
    /\ main' = "idle"
    /\ UNCHANGED <<udp, ip, pc, len, msg_len, question_ptr, reply>>
dns_server_init ==
    /\ main = "init" /\ pc = "idle"
    /\ ip' = "gw"
    /\ main' = "idle"
    /\ UNCHANGED <<udp, pc, len, msg_len, question_ptr, reply>>

dns_socket_free ==
    /\ udp # "null"
    /\ udp' = "null"

dns_server_deinit ==
    /\ main = "idle" /\ pc = "idle"
    /\ dns_socket_free
    /\ UNCHANGED <<ip, main, pc, len, msg_len, question_ptr, reply>>

-----------------------------------------------------------------------------
(* Fault on purpose: the buffer is as large as the longest name.           *)
CopiedFault(n) == IF n > MAX_QUESTION THEN MAX_QUESTION ELSE n
Copied(n) == IF n > MAX_DNS_MSG_SIZE THEN MAX_DNS_MSG_SIZE ELSE n

Accepted(n, standard, question_count) ==
    Copied(n) >= HEADER_SIZE /\ standard /\ question_count >= 1

(* A datagram of n bytes; standard: its flags say query with opcode zero.  *)
dns_server_process(n, standard, question_count) ==
    /\ udp = "bound" /\ pc = "idle"
    /\ len' = n
    /\ msg_len' = Copied(n)
    /\ question_ptr' = HEADER_SIZE
    /\ pc' = IF Accepted(n, standard, question_count) THEN "walk" ELSE "idle"
    /\ reply' = NoReply
    /\ UNCHANGED <<udp, ip, main>>

(* Fault on purpose: labels are counted from the start of the question.    *)
AfterLabelFault(b) == HEADER_SIZE + 1 + b
AfterLabel(b) == question_ptr + 1 + b

WalkLabel(b) ==
    /\ pc = "walk" /\ question_ptr < msg_len
    /\ \/ b = 0 /\ pc' = "named" /\ question_ptr' = AfterLabel(0)
       \/ b \in 1 .. MAX_LABEL /\ pc' = "walk" /\ question_ptr' = AfterLabel(b)
       \/ b > MAX_LABEL /\ pc' = "idle" /\ question_ptr' = question_ptr + 1
    /\ UNCHANGED <<udp, ip, main, len, msg_len, reply>>

(* Fault on purpose: the room for the answer is forgotten.                 *)
TooLongFault == question_ptr + QUESTION_TAIL > MAX_DNS_MSG_SIZE
TooLong == question_ptr - HEADER_SIZE > MAX_QUESTION

WalkOver == pc = "named" \/ (pc = "walk" /\ question_ptr >= msg_len)

Reply ==
    [sent |-> TRUE, ip |-> ip,
     size |-> question_ptr + QUESTION_TAIL + ANSWER_SIZE,
     whole |-> pc = "named" /\ question_ptr + QUESTION_TAIL <= msg_len]

(* The pbuf or the transmission may fail; the result is ignored.           *)
dns_socket_sendto(r) == reply' \in {r, NoReply}

Answer ==
    /\ WalkOver
    /\ pc' = "idle"
    /\ IF TooLong THEN reply' = NoReply ELSE dns_socket_sendto(Reply)
    /\ UNCHANGED <<udp, ip, main, len, msg_len, question_ptr>>

Next ==
    \/ dns_socket_new_dgram
    \/ dns_socket_bind
    \/ dns_server_init
    \/ dns_server_deinit
    \/ \E n \in Lengths, standard \in BOOLEAN, count \in 0 .. 1 :
            dns_server_process(n, standard, count)
    \/ \E b \in Byte : WalkLabel(b)
    \/ Answer

Safety == Init /\ [][Next]_vars

(* A callback runs to its end.                                             *)
Spec == Safety /\ WF_vars(Answer \/ \E b \in Byte : WalkLabel(b))

-----------------------------------------------------------------------------
(* Properties.                                                             *)

(* Every variable has its type, and the walk never starts on a message too *)
(* short for a header.                                                     *)
TypeOK ==
    /\ udp \in {"null", "unbound", "bound"}
    /\ ip \in {"zero", "gw"}
    /\ main \in {"idle", "bind", "init"}
    /\ pc \in {"idle", "walk", "named"}
    /\ len \in Nat /\ msg_len \in Nat /\ question_ptr \in Nat
    /\ reply \in [sent : BOOLEAN, ip : {"zero", "gw"}, size : Nat, whole : BOOLEAN]
    /\ pc # "idle" => HEADER_SIZE <= msg_len /\ HEADER_SIZE <= question_ptr

(* The reply is built in the buffer the query was copied to and never      *)
(* grows past it, whatever the labels add up to: the limits on the         *)
(* question leave room for the answer.                                     *)
ReplyFits == reply.size <= MAX_DNS_MSG_SIZE

(* A question whose name is not too long is never lost because only the    *)
(* first MAX_DNS_MSG_SIZE bytes of a datagram are looked at: a walk that   *)
(* runs off the end of a shortened copy is refused for its length.         *)
CutOnlyIfTooLong ==
    pc = "walk" /\ question_ptr >= msg_len /\ msg_len < len => TooLong

(* The walk over the labels always comes to an end.                        *)
EveryQueryEnds == pc # "idle" ~> pc = "idle"

(* Queries may come before dns_server_init has stored the address, but     *)
(* from its return on no answer carries any other, after a failed start,   *)
(* a deinit and a new start as well.                                       *)
AddressOnceStarted ==
    [][reply' # reply /\ reply'.sent /\ main = "idle" => reply'.ip = "gw"]_vars

(* Known disagreements, refuted by TLC.                                    *)
(* "Check question length" (dnsserver.c:173): what is answered is a        *)
(* question that was received completely.                                  *)
AnswersWholeQuestion == reply.whole

(* "use our address" (dnsserver.c:200): every answer carries the address   *)
(* of the access point.                                                    *)
AnswersOwnAddress == reply.sent => reply.ip = "gw"

=============================================================================
