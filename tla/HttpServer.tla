----------------------------- MODULE HttpServer -----------------------------
(***************************************************************************)
(* The connections of the station-mode web server: the callbacks of        *)
(* http_server/tcp_server.c and the requests http_server/http_server.c     *)
(* answers on them.  As in ApWebsite one action is one lwIP callback with  *)
(* everything it calls, and lengths count parts.  lwIP's poll timer is in  *)
(* the model: an acknowledgement sets it back.                             *)
(***************************************************************************)
EXTENDS Naturals, Sequences

CONSTANTS
    Conns,          \* connection slots
    MaxAsked,       \* bound on the requests remembered of one connection
    POLL_INTERVAL   \* ticks of lwIP's slow timer before a poll

ASSUME MaxAskedAssumption == MaxAsked \in Nat \ {0}
ASSUME PollAssumption == POLL_INTERVAL \in Nat \ {0}

VARIABLE con        \* slot -> TCP_CONNECT_STATE_T and its lwIP pcb

(* A page sent by html_server_send_get_responce, the file download of      *)
(* main.cpp, which writes its parts itself, something get_handler takes,   *)
(* and a URL nobody knows.                                                 *)
Requests == {"page", "file", "handled", "unknown"}

Header(status) == [part |-> "header", status |-> status]
Body == [part |-> "body", status |-> 0]

NoCon ==
    [pcb |-> "none",        \* the lwIP side of the connection
     mem |-> "none",        \* the block of the connection state
     armed |-> FALSE,       \* callbacks and argument are registered
     written_len |-> 0, sent_len |-> 0,
     dont_close_on_send_finish |-> FALSE,
     queued |-> 0,          \* written and not yet acknowledged
     polltmr |-> 0,         \* ticks since the last acknowledgement
     wire |-> <<>>,         \* history: parts written
     asked |-> <<>>,        \* history: requests served
     ret |-> "ERR_OK"]      \* what the last callback returned, if anything

Init == con = [c \in Conns |-> NoCon]

Free(mem) == IF mem = "live" THEN "freed" ELSE "corrupt"

-----------------------------------------------------------------------------
(* The functions the callbacks share.                                      *)

(* Faults on purpose, used by nothing: the state is not freed; an abort is *)
(* not reported.                                                           *)
CloseFault(k, ok, err) ==
    [k EXCEPT !.pcb = IF ok THEN "closed" ELSE "aborted",
              !.armed = FALSE,
              !.ret = IF ok THEN err ELSE "ERR_ABRT"]
CloseReturnFault(k, ok, err) ==
    [k EXCEPT !.pcb = IF ok THEN "closed" ELSE "aborted",
              !.mem = Free(@), !.armed = FALSE, !.ret = err]

tcp_close_client_connection(k, ok, err) ==
    [k EXCEPT !.pcb = IF ok THEN "closed" ELSE "aborted",
              !.mem = Free(@),
              !.armed = FALSE,
              !.ret = IF ok THEN err ELSE "ERR_ABRT"]

(* One tcp_write, which fails unless w; the length is counted either way.  *)
tcp_server_send_data(k, part, w) ==
    [k EXCEPT !.written_len = @ + 1,
              !.wire = IF w THEN Append(@, part) ELSE @,
              !.queued = IF w THEN @ + 1 ELSE @]

(* Fault on purpose: the body is written first.                            *)
ResponceFault(k, w1, w2) ==
    tcp_server_send_data(tcp_server_send_data(k, Body, w1), Header(200), w2)
(* The body is written even if the header could not be.                    *)
html_server_send_get_responce(k, w1, w2) ==
    tcp_server_send_data(tcp_server_send_data(k, Header(200), w1), Body, w2)

http_send_404(k, w1, w2) ==
    tcp_server_send_data(tcp_server_send_data(k, Header(404), w1), Body, w2)

(* The generators of main.cpp that make a page, the five alike but for the *)
(* text: temp_c, temp_f, temp, create_status and create_index_html_page.   *)
html_page(k, w1, w2) == html_server_send_get_responce(k, w1, w2)

(* The file generator of main.cpp stops at the first error.                *)
file_html_page(k, w1, w2) ==
    LET h == tcp_server_send_data(k, Header(200), w1)
    IN  IF w1 THEN tcp_server_send_data(h, Body, w2) ELSE h

(* The program's own handler, if it has set one, answers like a generator. *)
get_handler(k, w1, w2) == html_server_send_get_responce(k, w1, w2)

http_get_generate(k, r, w1, w2) ==
    CASE r = "page" -> html_page(k, w1, w2)
      [] r = "file" -> file_html_page(k, w1, w2)
      [] r = "handled" -> get_handler(k, w1, w2)
      [] r = "unknown" -> http_send_404(k, w1, w2)

(* The error handle_tcp_data returns: of tcp_write for a page, ERR_ABRT    *)
(* for a "not found" although nothing was aborted.                         *)
SendError(r, w1, w2) ==
    IF w1 /\ w2 THEN "ERR_OK" ELSE IF r = "unknown" THEN "ERR_ABRT" ELSE "ERR_MEM"

-----------------------------------------------------------------------------
(* The callbacks.                                                          *)

(* lwIP has a new connection, or failed to make one (ERR_VAL); calloc of   *)
(* its state may fail, and then lwIP drops the pcb by itself.              *)
tcp_server_accept(c) ==
    /\ con[c].pcb # "open"
    /\ \/ con' = [con EXCEPT ![c] =
                    [NoCon EXCEPT !.pcb = "open", !.mem = "live", !.armed = TRUE]]
       \/ \E err \in {"ERR_MEM", "ERR_VAL"} :
            con' = [con EXCEPT ![c] = [NoCon EXCEPT !.ret = err]]

(* The client's end of the connection is closed: no pbuf.                  *)
tcp_server_recv_fin(c, ok) ==
    /\ con[c].armed
    /\ con' = [con EXCEPT ![c] = tcp_close_client_connection(@, ok, "ERR_OK")]

(* An empty segment, or one that is not a GET, is not answered.            *)
tcp_server_recv_other(c) ==
    /\ con[c].armed
    /\ con' = [con EXCEPT ![c].ret = "ERR_OK"]

(* A client may go on asking for ever.  What is answered and acknowledged  *)
(* is forgotten when MaxAsked requests are remembered, and with it the     *)
(* origin of the two counters, which the code only compares.               *)
Recent(k) ==
    IF Len(k.asked) < MaxAsked THEN k
    ELSE [k EXCEPT !.asked = <<>>, !.wire = <<>>,
                   !.written_len = @ - k.sent_len, !.sent_len = 0]

(* Fault on purpose: a failed write is not passed on to the caller.        *)
RecvFault(c, r, w1, w2, ok) ==
    /\ con[c].armed
    /\ Len(con[c].asked) < MaxAsked
    /\ con' = [con EXCEPT ![c] =
            http_get_generate([@ EXCEPT !.asked = Append(@, r), !.ret = "ERR_OK"], r, w1, w2)]

(* A segment read as a GET for r.  The stack buffer the segment is copied  *)
(* to is not cleared, so a segment shorter than the word GET may be taken  *)
(* for any request, or for none (tcp_server_recv_other).                   *)
tcp_server_recv_get(c, r, w1, w2, ok) ==
    /\ con[c].armed
    /\ Len(con[c].asked) < MaxAsked \/ con[c].queued = 0
    /\ LET k == http_get_generate([Recent(con[c]) EXCEPT !.asked = Append(@, r)], r, w1, w2)
           err == SendError(r, w1, w2)
       IN  con' = [con EXCEPT ![c] =
                    IF err = "ERR_OK" THEN [k EXCEPT !.ret = "ERR_OK"]
                    ELSE tcp_close_client_connection(k, ok, err)]

(* len parts are acknowledged; lwIP starts its poll timer again.           *)
tcp_server_sent(c, len, ok) ==
    LET k == [con[c] EXCEPT !.sent_len = @ + len, !.queued = @ - len, !.polltmr = 0]
    IN  /\ con[c].armed
        /\ len \in 1 .. con[c].queued
        /\ con' = [con EXCEPT ![c] =
                    IF k.sent_len >= k.written_len /\ k.dont_close_on_send_finish
                    THEN tcp_close_client_connection(k, ok, "ERR_OK")
                    ELSE [k EXCEPT !.ret = "ERR_OK"]]

(* External: a tick of lwIP's slow timer, not yet the one that polls.      *)
tcp_slowtmr(c) ==
    /\ con[c].armed
    /\ con[c].polltmr + 1 < POLL_INTERVAL
    /\ con' = [con EXCEPT ![c].polltmr = @ + 1]

(* Fault on purpose: a connection with nothing written is never closed.    *)
PollFault(c, ok) ==
    /\ con[c].armed
    /\ con[c].polltmr + 1 >= POLL_INTERVAL
    /\ con[c].written_len > 0
    /\ con' = [con EXCEPT ![c] = tcp_close_client_connection(@, ok, "ERR_OK")]

(* POLL_TIME_S without an acknowledgement.                                 *)
tcp_server_poll_event(c, ok) ==
    /\ con[c].armed
    /\ con[c].polltmr + 1 >= POLL_INTERVAL
    /\ con' = [con EXCEPT ![c] = tcp_close_client_connection(@, ok, "ERR_OK")]

(* lwIP gives the connection up.  On ERR_ABRT the pcb is gone already and  *)
(* nobody frees the connection state; on a reset the pcb is closed like    *)
(* any other, or aborted if that fails.  Nothing is returned to lwIP.      *)
tcp_server_err(c, err, ok) ==
    /\ con[c].armed
    /\ con' = [con EXCEPT ![c] =
            [IF err = "ERR_ABRT"
             THEN [con[c] EXCEPT !.pcb = "gone", !.mem = "lost", !.armed = FALSE]
             ELSE tcp_close_client_connection(con[c], ok, err) EXCEPT !.ret = "void"]]

Next ==
    \E c \in Conns :
        \/ tcp_server_accept(c)
        \/ \E ok \in BOOLEAN :
            \/ tcp_server_recv_fin(c, ok)
            \/ \E r \in Requests, w1, w2 \in BOOLEAN :
                    tcp_server_recv_get(c, r, w1, w2, ok)
            \/ \E len \in 1 .. con[c].queued : tcp_server_sent(c, len, ok)
            \/ tcp_server_poll_event(c, ok)
            \/ \E err \in {"ERR_ABRT", "ERR_RST"} : tcp_server_err(c, err, ok)
        \/ tcp_server_recv_other(c)
        \/ tcp_slowtmr(c)

Safety == Init /\ [][Next]_con

(* lwIP's slow timer ticks for every connection that stays registered, and *)
(* polls it unless acknowledgements keep setting it back.                  *)
Timer(c) == tcp_slowtmr(c) \/ \E ok \in BOOLEAN : tcp_server_poll_event(c, ok)

Spec == Safety /\ \A c \in Conns : WF_con(Timer(c))

-----------------------------------------------------------------------------
(* Properties.                                                             *)

Parts == [part : {"header", "body"}, status : {0, 200, 404}]
Errors == {"ERR_OK", "ERR_MEM", "ERR_VAL", "ERR_ABRT", "ERR_RST"}

Connections ==
    [pcb : {"none", "open", "closed", "aborted", "gone"},
     mem : {"none", "live", "freed", "lost"},
     armed : BOOLEAN,
     written_len : Nat, sent_len : Nat,
     dont_close_on_send_finish : BOOLEAN,
     queued : Nat,
     polltmr : 0 .. POLL_INTERVAL - 1,
     wire : Seq(Parts),
     asked : Seq(Requests),
     ret : Errors \cup {"void"}]

(* Every connection has the shape of its C structure, its block of memory  *)
(* is never freed when it is not allocated.                                *)
TypeOK == con \in [Conns -> Connections]

(* lwIP never calls into a connection whose state is freed or whose pcb is *)
(* closed, no state is freed twice, and none is kept once its connection   *)
(* is closed.                                                              *)
CallbacksOwnState ==
    /\ TypeOK
    /\ \A c \in Conns :
        /\ con[c].armed <=> con[c].pcb = "open"
        /\ con[c].armed <=> con[c].mem = "live"

(* lwIP must not touch a pcb after it was aborted inside a callback: every *)
(* abort, however deep in a callback that has a result, is reported to it  *)
(* as ERR_ABRT.  The one callback without a result is tcp_server_err.      *)
AbortReported ==
    \A c \in Conns :
        con[c].pcb = "aborted" /\ con[c].ret # "void" => con[c].ret = "ERR_ABRT"

(* The comparison tcp_server_sent makes is exact as long as a connection   *)
(* lives: all that was counted as written has been acknowledged precisely  *)
(* when nothing is queued, although failed writes are counted too.         *)
SentCountExact ==
    \A c \in Conns :
        con[c].armed =>
            (con[c].sent_len >= con[c].written_len <=> con[c].queued = 0)

StatusFor(r) == IF r = "unknown" THEN 404 ELSE 200

(* Answers come in the order of the requests, each with the status its     *)
(* request calls for, also when a connection carries several; and while    *)
(* the connection lives they are whole, header and then body, whichever    *)
(* writes failed (a body without its header is written, and with it the    *)
(* connection given up).  Answer j takes the places 2 * j - 1 and 2 * j.   *)
AnswersMatch ==
    \A c \in Conns :
        LET k == con[c] IN
        /\ \A i \in DOMAIN k.wire :
            k.wire[i].part = "header" =>
                \E j \in DOMAIN k.asked :
                    i = 2 * j - 1 /\ k.wire[i].status = StatusFor(k.asked[j])
        /\ k.armed =>
            /\ Len(k.wire) = 2 * Len(k.asked)
            /\ \A i \in DOMAIN k.asked :
                    k.wire[2 * i - 1].part = "header" /\ k.wire[2 * i] = Body

(* While a connection lives every part that was counted is acknowledged or *)
(* still queued: a failed write, counted too, ends the connection.         *)
CountKept ==
    \A c \in Conns :
        con[c].armed => con[c].written_len = con[c].sent_len + con[c].queued

(* The inductive invariant behind the properties above.                    *)
IInv == CallbacksOwnState /\ AbortReported /\ CountKept /\ AnswersMatch

(* A step that acknowledges data of a connection that goes on.             *)
Acknowledged(c) == con[c].armed /\ con'[c].armed /\ con'[c].queued < con[c].queued

(* Every connection is closed in the end, although tcp_server_sent never   *)
(* closes one, unless its client goes on acknowledging new data for ever:  *)
(* nobody holds a connection by silence, whatever was or was not answered. *)
EveryConnectionEnds ==
    \A c \in Conns : []<>(con[c].pcb # "open") \/ []<><<Acknowledged(c)>>_con

(* "Connection: close" (http_server.c:15): a connection whose response has *)
(* been acknowledged completely is closed.                                 *)
ClosedAfterResponse ==
    \A c \in Conns : con[c].armed /\ con[c].wire # <<>> => con[c].queued > 0

(* Two things that do not hold, refuted by TLC: a connection may last for  *)
(* ever, and an abort in tcp_server_err is not reported.                   *)
NoConnectionLasts == \A c \in Conns : []<>(con[c].pcb # "open")
EveryAbortReported == \A c \in Conns : con[c].pcb = "aborted" => con[c].ret = "ERR_ABRT"

(* A known disagreement, refuted by TLC.                                   *)
(* "Send the headers to the client", then "Send the body to the client"    *)
(* (http_server.c:140, 143): a body follows its header on the wire.        *)
BodyFollowsHeader ==
    \A c \in Conns : \A i \in DOMAIN con[c].wire :
        con[c].wire[i].part = "body" =>
            i > 1 /\ con[c].wire[i - 1].part = "header"

=============================================================================
