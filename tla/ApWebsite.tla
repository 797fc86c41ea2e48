----------------------------- MODULE ApWebsite ------------------------------
(***************************************************************************)
(* The connections of the access point's web server,                       *)
(* ap_website/picow_access_point.c.                                        *)
(*                                                                         *)
(* lwIP calls the server back for every event of a connection; a callback  *)
(* runs to completion, so one action stands for one callback with all the  *)
(* functions it calls.  Of lwIP the model keeps what the callbacks rely    *)
(* on: a pcb that is open until the server closes or aborts it or lwIP     *)
(* itself gives it up, callbacks that are called only while registered,    *)
(* data queued by tcp_write until the client acknowledges it, and tcp_write*)
(* and tcp_close, either of which may fail for want of memory.  Lengths    *)
(* count parts: a header and a body are one unit each.                     *)
(*                                                                         *)
(* The two "Too much ... data" branches are left out: the header formats   *)
(* leave 13 characters for a length, and the only result ever stored is    *)
(* the short page for "not found".                                         *)
(***************************************************************************)
EXTENDS Naturals, Sequences, FiniteSets

CONSTANTS
    Conns,          \* connection slots
    MaxAsked        \* bound on the requests answered on one connection

ASSUME MaxAskedAssumption == MaxAsked \in Nat \ {0}

VARIABLE con        \* slot -> TCP_CONNECT_STATE_T and its lwIP pcb

(* What a GET asks for: a registered page or file, something get_handler   *)
(* takes, a probe that is redirected (/connecttest.txt and the like), or a *)
(* URL nobody knows.                                                       *)
Generators == {"page", "file", "handled"}
Requests == Generators \cup {"default", "unknown"}

Header(status, of) == [part |-> "header", status |-> status, of |-> of]
Body(of) == [part |-> "body", status |-> 0, of |-> of]

NoCon ==
    [pcb |-> "none",        \* the lwIP side of the connection
     mem |-> "none",        \* the block of the connection state
     armed |-> FALSE,       \* callbacks and argument are registered
     sent_len |-> 0, header_len |-> 0, result_len |-> 0,
     headers |-> "zero",    \* what the headers buffer holds
     queued |-> 0,          \* written and not yet acknowledged
     wire |-> <<>>,         \* history: parts written
     asked |-> <<>>,        \* history: requests served
     ret |-> "ERR_OK"]      \* what the last callback returned, if anything

Init == con = [c \in Conns |-> NoCon]

Free(mem) == IF mem = "live" THEN "freed" ELSE "corrupt"

-----------------------------------------------------------------------------
(* The functions the callbacks share; each maps a connection to what the   *)
(* call makes of it.                                                       *)

(* Faults on purpose, used by nothing: the callbacks stay registered; a    *)
(* failed tcp_close is not reported as ERR_ABRT.                           *)
CloseFault(k, ok, err) ==
    [k EXCEPT !.pcb = IF ok THEN "closed" ELSE "aborted",
              !.mem = Free(@),
              !.ret = IF ok THEN err ELSE "ERR_ABRT"]
CloseReturnFault(k, ok, err) ==
    [k EXCEPT !.pcb = IF ok THEN "closed" ELSE "aborted",
              !.mem = Free(@), !.armed = FALSE, !.ret = err]

(* The callbacks are removed, the pcb is closed, or aborted if that fails  *)
(* (~ok), and the connection state is freed.                               *)
tcp_close_client_connection(k, ok, err) ==
    [k EXCEPT !.pcb = IF ok THEN "closed" ELSE "aborted",
              !.mem = Free(@),
              !.armed = FALSE,
              !.ret = IF ok THEN err ELSE "ERR_ABRT"]

(* Fault on purpose: a failed write does not end the connection.           *)
WriteFault(k, parts, n, ok) ==
    [k EXCEPT !.wire = @ \o SubSeq(parts, 1, n), !.queued = @ + n, !.ret = "ERR_OK"]

(* A run of tcp_write calls, as in ap_send_get_responce, in a generator    *)
(* built on ap_tcp_write and at the end of http_get_generate: the first n  *)
(* succeed; the first one that fails closes the connection and its error   *)
(* is handed up.                                                           *)
ap_tcp_write(k, parts, n, ok) ==
    LET w == [k EXCEPT !.wire = @ \o SubSeq(parts, 1, n), !.queued = @ + n]
    IN  IF n = Len(parts) THEN [w EXCEPT !.ret = "ERR_OK"]
                          ELSE tcp_close_client_connection(w, ok, "ERR_MEM")

(* The response of a page generator or of get_handler, built by            *)
(* ap_send_get_responce from buffers of its own: the counters of the       *)
(* connection state are not touched.                                       *)
ap_send_get_responce(r) == <<Header(200, r), Body(r)>>

(* The generators of main_ap.cpp that make a page, the five alike but for  *)
(* the text, and its file generator, which writes header and body itself.  *)
html_page == ap_send_get_responce("page")
file_html_page == <<Header(200, "file"), Body("file")>>

(* What a generator, or get_handler, writes.                               *)
Generated(r) ==
    CASE r = "page" -> html_page
      [] r = "file" -> file_html_page
      [] r = "handled" -> ap_send_get_responce(r)

(* http_get_generate fills headers and result.  A result left behind by an *)
(* earlier request is sent again, as a success.                            *)
Fill(k, r) ==
    [k EXCEPT !.headers = "response",
              !.sent_len = 0,
              !.header_len = 1,
              !.result_len = IF @ = 0 /\ r = "unknown" THEN 1 ELSE @]

(* Fault on purpose: nobody is redirected.                                 *)
PartsFault(k, r) == <<Header(404, "notfound"), Body("notfound")>>

Parts(k, r) ==
    IF k.result_len > 0 THEN <<Header(200, "notfound"), Body("notfound")>>
    ELSE IF r = "default" THEN <<Header(302, "default")>>
    ELSE <<Header(404, "notfound"), Body("notfound")>>

http_get_generate(k, r, n, ok) ==
    IF r \in Generators
    THEN ap_tcp_write(k, Generated(r), n, ok)
    ELSE ap_tcp_write(Fill(k, r), Parts(k, r), n, ok)

-----------------------------------------------------------------------------
(* The callbacks.                                                          *)

(* lwIP has a new connection, or failed to make one (ERR_VAL); calloc of   *)
(* its state may fail, and then lwIP drops the pcb by itself.              *)
tcp_server_accept(c) ==
    /\ con[c].pcb # "open"
    /\ \/ con' = [con EXCEPT ![c] =
                    [NoCon EXCEPT !.pcb = "open", !.mem = "live", !.armed = TRUE]]
       \/ \E err \in {"ERR_MEM", "ERR_VAL"} :
            con' = [con EXCEPT ![c] = [NoCon EXCEPT !.ret = err]]

(* The client's end of the connection is closed: no pbuf.                  *)
ap_tcp_server_recv_fin(c, ok) ==
    /\ con[c].armed
    /\ con' = [con EXCEPT ![c] = tcp_close_client_connection(@, ok, "ERR_OK")]

(* A segment that is empty or does not start with GET: the latter is       *)
(* copied over the headers buffer, nothing is answered.                    *)
ap_tcp_server_recv_other(c) ==
    /\ con[c].armed
    /\ \E text \in {con[c].headers, "other"} :
            con' = [con EXCEPT ![c].headers = text, ![c].ret = "ERR_OK"]

(* The request read from a segment that starts with GET.  The URL of a     *)
(* segment that ends right there ("short") is whatever the headers buffer  *)
(* held before, the last request or a response header.                     *)
RequestIn(c, segment) ==
    IF segment # "short" THEN segment
    ELSE IF con[c].headers \in Requests THEN con[c].headers ELSE "unknown"

ap_tcp_server_recv_get(c, segment, n, ok) ==
    LET r == RequestIn(c, segment)
        k == [con[c] EXCEPT !.headers = IF segment = "short" THEN @ ELSE r,
                            !.asked = Append(@, r)]
    IN  /\ con[c].armed
        /\ Len(con[c].asked) < MaxAsked
        /\ n \in 0 .. Len(IF r \in Generators THEN Generated(r) ELSE Parts(k, r))
        /\ con' = [con EXCEPT ![c] = http_get_generate(k, r, n, ok)]

(* Fault on purpose: done as soon as the header is acknowledged.           *)
AllDoneFault(k) == k.sent_len >= k.header_len
AllDone(k) == k.sent_len >= k.header_len + k.result_len

(* len parts are acknowledged.                                             *)
ap_tcp_server_sent(c, len, ok) ==
    LET k == [con[c] EXCEPT !.sent_len = @ + len, !.queued = @ - len]
    IN  /\ con[c].armed
        /\ len \in 1 .. con[c].queued
        /\ con' = [con EXCEPT ![c] =
                    IF AllDone(k) THEN tcp_close_client_connection(k, ok, "ERR_OK")
                                  ELSE [k EXCEPT !.ret = "ERR_OK"]]

(* POLL_TIME_S without an acknowledgement.                                 *)
ap_tcp_server_poll(c, ok) ==
    /\ con[c].armed
    /\ con' = [con EXCEPT ![c] = tcp_close_client_connection(@, ok, "ERR_OK")]

(* lwIP gives the connection up.  On ERR_ABRT (a timeout or lack of pcbs)  *)
(* the pcb is gone and the connection state forgotten without being freed; *)
(* on a reset the pcb is closed like any other, or aborted if that fails.  *)
(* Nothing is returned to lwIP.                                            *)
ap_tcp_server_err(c, err, ok) ==
    /\ con[c].armed
    /\ con' = [con EXCEPT ![c] =
            [IF err = "ERR_ABRT"
             THEN [con[c] EXCEPT !.pcb = "gone", !.mem = "lost", !.armed = FALSE]
             ELSE tcp_close_client_connection(con[c], ok, err) EXCEPT !.ret = "void"]]

Next ==
    \E c \in Conns :
        \/ tcp_server_accept(c)
        \/ \E ok \in BOOLEAN :
            \/ ap_tcp_server_recv_fin(c, ok)
            \/ \E segment \in Requests \cup {"short"}, n \in 0 .. 2 :
                    ap_tcp_server_recv_get(c, segment, n, ok)
            \/ \E len \in 1 .. con[c].queued : ap_tcp_server_sent(c, len, ok)
            \/ ap_tcp_server_poll(c, ok)
            \/ \E err \in {"ERR_ABRT", "ERR_RST"} : ap_tcp_server_err(c, err, ok)
        \/ ap_tcp_server_recv_other(c)

Safety == Init /\ [][Next]_con

(* lwIP's slow timer calls the poll function of every connection that      *)
(* stays registered.  An acknowledgement starts the timer again, but an    *)
(* acknowledgement that does not close the connection leaves parts queued  *)
(* behind it, so the room for queued parts bounds how often that happens.  *)
Spec == Safety /\ \A c \in Conns : WF_con(\E ok \in BOOLEAN : ap_tcp_server_poll(c, ok))

-----------------------------------------------------------------------------
(* Properties.                                                             *)

WireParts ==
    [part : {"header", "body"}, status : {0, 200, 302, 404},
     of : Requests \cup {"notfound"}]
Errors == {"ERR_OK", "ERR_MEM", "ERR_VAL", "ERR_ABRT", "ERR_RST"}

Connections ==
    [pcb : {"none", "open", "closed", "aborted", "gone"},
     mem : {"none", "live", "freed", "lost"},
     armed : BOOLEAN,
     sent_len : Nat, header_len : Nat, result_len : Nat,
     headers : Requests \cup {"zero", "other", "response"},
     queued : Nat,
     wire : Seq(WireParts),
     asked : Seq(Requests),
     ret : Errors \cup {"void"}]

(* Every connection has the shape of its C structure; in particular its    *)
(* block of memory is never freed when it is not allocated.                *)
TypeOK == con \in [Conns -> Connections]

(* lwIP never calls into a connection whose state is freed or whose pcb is *)
(* closed, no state is freed twice, and none is kept once its connection   *)
(* is closed, whichever of the calls inside a callback fails.              *)
CallbacksOwnState ==
    /\ TypeOK
    /\ \A c \in Conns :
        /\ con[c].armed <=> con[c].pcb = "open"
        /\ con[c].armed <=> con[c].mem = "live"

(* lwIP goes on using a pcb after a callback unless the callback returned  *)
(* ERR_ABRT, and must not then: a callback that has a result returns       *)
(* ERR_ABRT exactly when it aborted the pcb, even from the depth of a page *)
(* generator.  The one callback without a result is ap_tcp_server_err.     *)
AbortReported ==
    \A c \in Conns :
        con[c].ret # "void" => (con[c].ret = "ERR_ABRT" <=> con[c].pcb = "aborted")

(* What does not hold, refuted by TLC: ap_tcp_server_err may abort too.    *)
EveryAbortReported == \A c \in Conns : con[c].pcb = "aborted" => con[c].ret = "ERR_ABRT"

(* What http_get_generate should answer to r.                              *)
StatusFor(r) ==
    CASE r = "default" -> 302 [] r = "unknown" -> 404 [] OTHER -> 200

(* The header at place i of a wire is that of answer number Number.        *)
HeaderAt(wire, i) == wire[i].part = "header"
Number(wire, i) == Cardinality({j \in 1 .. i : HeaderAt(wire, j)})

(* The header h is what a request r for which nothing is left behind on    *)
(* its connection calls for.                                               *)
Fits(h, r) ==
    /\ h.status = StatusFor(r)
    /\ h.of = IF r = "unknown" THEN "notfound" ELSE r

(* Answers come in the order of the requests and each has the status and   *)
(* page its request calls for, up to and including the first "not found".  *)
AnswersMatch ==
    \A c \in Conns : \A i \in DOMAIN con[c].wire :
        LET k == con[c]
            nr == Number(k.wire, i)
        IN  HeaderAt(k.wire, i) =>
                /\ nr \in DOMAIN k.asked
                /\ (\A j \in 1 .. nr - 1 : k.asked[j] # "unknown") =>
                        Fits(k.wire[i], k.asked[nr])

(* "Send not found" (picow_access_point.c:188): a URL nobody knows gets a  *)
(* 404, whatever was asked for earlier on the same connection.             *)
UnknownIsNotFound ==
    \A c \in Conns : \A i \in DOMAIN con[c].wire :
        HeaderAt(con[c].wire, i) /\ con[c].asked[Number(con[c].wire, i)] = "unknown"
            => con[c].wire[i].status = 404

(* A step in which the connection is closed because it is "all done".      *)
ClosedAsDone(c) ==
    /\ con[c].armed /\ ~con'[c].armed
    /\ con'[c].sent_len > con[c].sent_len

(* A redirect or "not found" that is the only answer on its connection is  *)
(* acknowledged to the last part before the connection is closed as done.  *)
OwnResponseDelivered ==
    [][\A c \in Conns :
        (ClosedAsDone(c) /\ Len(con[c].asked) = 1
            /\ con[c].asked[1] \in {"default", "unknown"}) => con'[c].queued = 0]_con

(* "all done" (picow_access_point.c:108): the server closes a connection   *)
(* as done only when the client has acknowledged all that was written.     *)
DoneMeansAcknowledged ==
    [][\A c \in Conns : ClosedAsDone(c) => con'[c].queued = 0]_con

(* While a connection lives every request has its header on the wire, and  *)
(* no result is left behind before the first URL nobody knows.             *)
AllAnswered ==
    \A c \in Conns : con[c].armed =>
        LET k == con[c] IN
        /\ Number(k.wire, Len(k.wire)) = Len(k.asked)
        /\ (\A j \in DOMAIN k.asked : k.asked[j] # "unknown") => k.result_len = 0

(* The counters of ap_tcp_server_sent are right for the first answer, if   *)
(* it is one that http_get_generate makes itself.                          *)
FirstCounted ==
    \A c \in Conns : con[c].armed =>
        LET k == con[c] IN
        /\ k.asked = <<>> => k.sent_len = 0 /\ k.result_len = 0 /\ k.queued = 0
        /\ Len(k.asked) = 1 /\ k.asked[1] \in {"default", "unknown"} =>
                k.sent_len + k.queued = k.header_len + k.result_len

(* The inductive invariant behind the properties above.                    *)
IInv == CallbacksOwnState /\ AbortReported /\ AnswersMatch /\ AllAnswered /\ FirstCounted

(* The server implements HttpConnection: whole responses in sequence, a    *)
(* cut one only at the very end, and every connection ends.                *)
Http == INSTANCE HttpConnection WITH
    open <- {c \in Conns : con[c].pcb = "open"},
    out <- [c \in Conns |-> [i \in DOMAIN con[c].wire |->
        IF con[c].wire[i].status = 302 THEN "redirect" ELSE con[c].wire[i].part]]
ImplementsHttpConnection == Http!Spec

=============================================================================
