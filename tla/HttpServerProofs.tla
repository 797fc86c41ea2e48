-------------------------- MODULE HttpServerProofs --------------------------
(***************************************************************************)
(* Proofs about HttpServer, for every number of connections and requests.  *)
(*                                                                         *)
(* Callbacks touch one connection each, so the invariant is taken apart    *)
(* into what it says of one connection, and the functions the callbacks    *)
(* share are shown to keep that.                                           *)
(***************************************************************************)
EXTENDS HttpServer, TLAPS

(* What IInv says of one connection.                                       *)
Owned(k) ==
    /\ k.armed <=> k.pcb = "open"
    /\ k.armed <=> k.mem = "live"

HeadersInOrder(k) ==
    \A i \in DOMAIN k.wire :
        k.wire[i].part = "header" =>
            \E j \in DOMAIN k.asked :
                i = 2 * j - 1 /\ k.wire[i].status = StatusFor(k.asked[j])

Whole(k) ==
    /\ Len(k.wire) = 2 * Len(k.asked)
    /\ \A i \in DOMAIN k.asked :
            k.wire[2 * i - 1].part = "header" /\ k.wire[2 * i] = Body

ConInv(k) ==
    /\ k \in Connections
    /\ Owned(k)
    /\ k.pcb = "aborted" /\ k.ret # "void" => k.ret = "ERR_ABRT"
    /\ k.armed => k.written_len = k.sent_len + k.queued
    /\ HeadersInOrder(k)
    /\ k.armed => Whole(k)

(* The invariant of all connections is that of each of them.               *)
LEMMA InvOfEach ==
    IInv <=> con \in [Conns -> Connections] /\ \A c \in Conns : ConInv(con[c])
<1>1. TypeOK => \A c \in Conns : con[c] \in Connections
  BY DEF TypeOK
<1>. QED
  BY <1>1 DEF IInv, CallbacksOwnState, TypeOK, AbortReported, CountKept, AnswersMatch,
              ConInv, Owned, HeadersInOrder, Whole

(* A callback that leaves its connection right leaves all of them right.   *)
LEMMA OneConnection ==
    ASSUME IInv, NEW c \in Conns, NEW k, ConInv(k), con' = [con EXCEPT ![c] = k]
    PROVE  IInv'
<1>1. con \in [Conns -> Connections] /\ \A d \in Conns : ConInv(con[d])
  BY InvOfEach
<1>2. k \in Connections
  BY DEF ConInv
<1>3. con' \in [Conns -> Connections] /\ \A d \in Conns : con'[d] = IF d = c THEN k ELSE con[d]
  BY <1>1, <1>2
<1>4. \A d \in Conns : ConInv(con'[d])
  BY <1>1, <1>3
<1>. QED
  BY <1>3, <1>4 DEF IInv, CallbacksOwnState, TypeOK, AbortReported, CountKept,
              AnswersMatch, ConInv, Owned, HeadersInOrder, Whole

(* A slot nobody uses, and one whose connection is new.                    *)
LEMMA Fresh ==
    /\ \A err \in Errors : ConInv([NoCon EXCEPT !.ret = err])
    /\ ConInv([NoCon EXCEPT !.pcb = "open", !.mem = "live", !.armed = TRUE])
<1>1. <<>> \in Seq(Parts) /\ <<>> \in Seq(Requests) /\ Len(<<>>) = 0 /\ DOMAIN <<>> = {}
  OBVIOUS
<1>2. NoCon \in Connections
  BY <1>1, PollAssumption DEF Connections, NoCon, Errors
<1>3. ASSUME NEW err \in Errors
      PROVE  ConInv([NoCon EXCEPT !.ret = err])
  <2> DEFINE k == [NoCon EXCEPT !.ret = err]
  <2>1. k \in Connections
    BY <1>2 DEF Connections
  <2>2. k.armed = FALSE /\ k.pcb = "none" /\ k.wire = <<>> /\ k.mem = "none"
    BY DEF NoCon
  <2> HIDE DEF k
  <2>3. ConInv(k)
    BY <1>1, <2>1, <2>2 DEF ConInv, Owned, HeadersInOrder
  <2>. QED  BY <2>3 DEF k
<1>4. ConInv([NoCon EXCEPT !.pcb = "open", !.mem = "live", !.armed = TRUE])
  <2> DEFINE k == [NoCon EXCEPT !.pcb = "open", !.mem = "live", !.armed = TRUE]
  <2>1. k \in Connections
    BY <1>2 DEF Connections
  <2>2. /\ k.armed = TRUE /\ k.pcb = "open" /\ k.wire = <<>> /\ k.asked = <<>>
        /\ k.mem = "live" /\ k.written_len = 0 /\ k.sent_len = 0 /\ k.queued = 0
    BY DEF NoCon
  <2> HIDE DEF k
  <2>3. ConInv(k)
    BY <1>1, <2>1, <2>2 DEF ConInv, Owned, HeadersInOrder, Whole
  <2>. QED  BY <2>3 DEF k
<1>. QED  BY <1>3, <1>4

(* tcp_close_client_connection leaves a connection of which nothing may be *)
(* used any more, and reports an abort.                                    *)
LEMMA Closes ==
    ASSUME NEW k \in Connections, k.mem = "live", HeadersInOrder(k),
           NEW ok \in BOOLEAN, NEW err \in Errors
    PROVE  ConInv(tcp_close_client_connection(k, ok, err))
<1> DEFINE z == tcp_close_client_connection(k, ok, err)
           pcb == IF ok THEN "closed" ELSE "aborted"
           ret == IF ok THEN err ELSE "ERR_ABRT"
<1>1. z = [k EXCEPT !.pcb = pcb, !.mem = "freed", !.armed = FALSE, !.ret = ret]
  BY DEF tcp_close_client_connection, Free
<1>2. pcb \in {"closed", "aborted"} /\ ret \in Errors /\ (pcb = "aborted" => ret = "ERR_ABRT")
  BY DEF Errors
<1> HIDE DEF z, pcb, ret
<1>3. z \in Connections
  BY <1>1, <1>2 DEF Connections
<1>4. /\ z.pcb = pcb /\ z.mem = "freed" /\ z.armed = FALSE /\ z.ret = ret
      /\ z.wire = k.wire /\ z.asked = k.asked
  BY <1>1 DEF Connections
<1>5. HeadersInOrder(z)
  BY <1>4 DEF HeadersInOrder
<1>6. Owned(z)
  BY <1>2, <1>4 DEF Owned
<1>7. ConInv(z)
  BY <1>2, <1>3, <1>4, <1>5, <1>6 DEF ConInv
<1>. QED  BY <1>7 DEF z

(* One tcp_server_send_data keeps the shape of the connection.             *)
LEMMA Sends ==
    ASSUME NEW k \in Connections, NEW p \in Parts, NEW w \in BOOLEAN
    PROVE  tcp_server_send_data(k, p, w) \in Connections
<1> DEFINE written == k.written_len + 1
           wire == IF w THEN Append(k.wire, p) ELSE k.wire
           queued == IF w THEN k.queued + 1 ELSE k.queued
<1>1. written \in Nat /\ queued \in Nat /\ wire \in Seq(Parts)
  BY DEF Connections
<1>2. tcp_server_send_data(k, p, w) =
        [k EXCEPT !.written_len = written, !.wire = wire, !.queued = queued]
  BY DEF tcp_server_send_data
<1> HIDE DEF written, wire, queued
<1>3. [k EXCEPT !.written_len = written, !.wire = wire, !.queued = queued] \in Connections
  BY <1>1 DEF Connections
<1>. QED  BY <1>2, <1>3

(* n is what writing a header and a body makes of k.  Either write may     *)
(* fail (w1, w2); after a failed header the body may not even be tried.    *)
Written(k, h, w1, w2, n) ==
    /\ n \in Connections
    /\ n.pcb = k.pcb /\ n.mem = k.mem /\ n.armed = k.armed
    /\ n.sent_len = k.sent_len /\ n.asked = k.asked /\ n.ret = k.ret
    /\ w1 /\ w2 =>
        /\ n.written_len = k.written_len + 2
        /\ n.queued = k.queued + 2
        /\ n.wire = Append(Append(k.wire, h), Body)
    /\ w1 /\ ~w2 => n.wire = Append(k.wire, h)
    /\ ~w1 => n.wire = k.wire \/ n.wire = Append(k.wire, Body)

(* What any request makes of its connection.                               *)
LEMMA Generates ==
    ASSUME NEW k \in Connections, NEW r \in Requests, NEW w1 \in BOOLEAN, NEW w2 \in BOOLEAN
    PROVE  Written(k, Header(StatusFor(r)), w1, w2, http_get_generate(k, r, w1, w2))
<1> DEFINE h == Header(StatusFor(r))
           a == tcp_server_send_data(k, h, w1)
           b == tcp_server_send_data(a, Body, w2)
<1>1. h \in Parts /\ Body \in Parts
  BY DEF Header, Body, Parts, StatusFor
<1>2. http_get_generate(k, r, w1, w2) = IF r = "file" /\ ~w1 THEN a ELSE b
  <2>1. CASE r = "page"
    BY <2>1 DEF http_get_generate, html_page, html_server_send_get_responce, StatusFor
  <2>2. CASE r = "file"
    BY <2>2 DEF http_get_generate, file_html_page, StatusFor
  <2>3. CASE r = "handled"
    BY <2>3 DEF http_get_generate, get_handler, html_server_send_get_responce, StatusFor
  <2>4. CASE r = "unknown"
    BY <2>4 DEF http_get_generate, http_send_404, StatusFor
  <2>. QED  BY <2>1, <2>2, <2>3, <2>4 DEF Requests
<1> HIDE DEF h
<1>3. a \in Connections
  BY <1>1, Sends
<1>4. b \in Connections
  BY <1>1, <1>3, Sends
<1>5. /\ a.pcb = k.pcb /\ a.mem = k.mem /\ a.armed = k.armed
      /\ a.sent_len = k.sent_len /\ a.asked = k.asked /\ a.ret = k.ret
      /\ a.written_len = k.written_len + 1
      /\ a.queued = IF w1 THEN k.queued + 1 ELSE k.queued
      /\ a.wire = IF w1 THEN Append(k.wire, h) ELSE k.wire
  BY DEF Connections, tcp_server_send_data
<1> HIDE DEF a
<1>6. /\ b.pcb = a.pcb /\ b.mem = a.mem /\ b.armed = a.armed
      /\ b.sent_len = a.sent_len /\ b.asked = a.asked /\ b.ret = a.ret
      /\ b.written_len = a.written_len + 1
      /\ b.queued = IF w2 THEN a.queued + 1 ELSE a.queued
      /\ b.wire = IF w2 THEN Append(a.wire, Body) ELSE a.wire
  BY <1>3 DEF Connections, tcp_server_send_data
<1> HIDE DEF b
<1>7. k.written_len \in Nat /\ k.queued \in Nat
  BY DEF Connections
<1>8. Written(k, h, w1, w2, b)
  <2>1. /\ b.pcb = k.pcb /\ b.mem = k.mem /\ b.armed = k.armed
        /\ b.sent_len = k.sent_len /\ b.asked = k.asked /\ b.ret = k.ret
    BY <1>5, <1>6
  <2>2. ASSUME w1, w2
        PROVE  b.written_len = k.written_len + 2 /\ b.queued = k.queued + 2
    <3>1. a.queued = k.queued + 1 /\ b.queued = a.queued + 1
      BY <2>2, <1>5, <1>6
    <3>2. a.written_len = k.written_len + 1 /\ b.written_len = a.written_len + 1
      BY <1>5, <1>6
    <3>. QED  BY <3>1, <3>2, <1>7
  <2>3. w1 /\ w2 => b.wire = Append(Append(k.wire, h), Body)
    BY <1>5, <1>6
  <2>4. w1 /\ ~w2 => b.wire = Append(k.wire, h)
    BY <1>5, <1>6
  <2>5. ~w1 => b.wire = k.wire \/ b.wire = Append(k.wire, Body)
    BY <1>5, <1>6
  <2>. QED  BY <2>1, <2>2, <2>3, <2>4, <2>5, <1>4, Zenon DEF Written
<1>9. ~w1 => Written(k, h, w1, w2, a)
  BY <1>3, <1>5 DEF Written
<1>. QED  BY <1>2, <1>8, <1>9 DEF h

(* A wire after one more request, with what was written of its answer.     *)
Extends(wire, h, new) ==
    \/ new = wire
    \/ new = Append(wire, Body)
    \/ new = Append(wire, h)
    \/ new = Append(Append(wire, h), Body)

(* What Append leaves where.                                               *)
LEMMA OneMore ==
    ASSUME NEW S, NEW s \in Seq(S), NEW e \in S
    PROVE  /\ Append(s, e) \in Seq(S)
           /\ Len(Append(s, e)) = Len(s) + 1
           /\ \A m \in DOMAIN Append(s, e) :
                \/ m \in DOMAIN s /\ Append(s, e)[m] = s[m]
                \/ m = Len(s) + 1 /\ Append(s, e)[m] = e
  OBVIOUS

(* Where the parts of the new answer are: the header first, if it is there.*)
LEMMA Places ==
    ASSUME NEW wire \in Seq(Parts), NEW h \in Parts, NEW new, Extends(wire, h, new),
           NEW i \in DOMAIN new, new[i].part = "header"
    PROVE  \/ i \in DOMAIN wire /\ new[i] = wire[i]
           \/ i = Len(wire) + 1 /\ new[i] = h
<1>1. Body \in Parts /\ Body.part # "header"
  BY DEF Body, Parts
<1>2. CASE new = wire
  BY <1>2
<1>3. CASE new = Append(wire, Body)
  BY <1>1, <1>3
<1>4. CASE new = Append(wire, h)
  BY <1>4
<1>5. CASE new = Append(Append(wire, h), Body)
  <2> DEFINE v == Append(wire, h)
  <2>1. v \in Seq(Parts) /\ Len(v) = Len(wire) + 1
    BY OneMore
  <2>2. ASSUME NEW m \in DOMAIN v
        PROVE  \/ m \in DOMAIN wire /\ v[m] = wire[m]
               \/ m = Len(wire) + 1 /\ v[m] = h
    BY OneMore
  <2>3. new = Append(v, Body)
    BY <1>5
  <2> HIDE DEF v
  <2>4. i \in DOMAIN v /\ new[i] = v[i]
    BY <2>1, <2>3, <1>1
  <2>. QED  BY <2>2, <2>4
<1>. QED  BY <1>2, <1>3, <1>4, <1>5 DEF Extends

(* The header of the next answer is in its place, and a body is no header. *)
LEMMA NextHeader ==
    ASSUME NEW k \in Connections, HeadersInOrder(k), Len(k.wire) = 2 * Len(k.asked),
           NEW r \in Requests, NEW n, n.asked = Append(k.asked, r),
           Extends(k.wire, Header(StatusFor(r)), n.wire)
    PROVE  HeadersInOrder(n)
<1> DEFINE h == Header(StatusFor(r))
<1>1. h \in Parts /\ h.status = StatusFor(r)
  BY DEF Header, Parts, StatusFor
<1>2. Extends(k.wire, h, n.wire)
  OBVIOUS
<1> HIDE DEF h
<1>3. k.wire \in Seq(Parts) /\ k.asked \in Seq(Requests) /\ Len(k.asked) \in Nat
  BY DEF Connections
<1>4. /\ DOMAIN n.asked = 1 .. Len(k.asked) + 1
      /\ n.asked[Len(k.asked) + 1] = r
      /\ \A j \in DOMAIN k.asked : j \in DOMAIN n.asked /\ n.asked[j] = k.asked[j]
  BY <1>3
<1> SUFFICES ASSUME NEW i \in DOMAIN n.wire, n.wire[i].part = "header"
             PROVE  \E j \in DOMAIN n.asked :
                        i = 2 * j - 1 /\ n.wire[i].status = StatusFor(n.asked[j])
  BY DEF HeadersInOrder
<1>5. \/ i \in DOMAIN k.wire /\ n.wire[i] = k.wire[i]
      \/ i = Len(k.wire) + 1 /\ n.wire[i] = h
  <2> DEFINE wire == k.wire
             new == n.wire
  <2>1. /\ wire \in Seq(Parts) /\ h \in Parts /\ Extends(wire, h, new)
        /\ i \in DOMAIN new /\ new[i].part = "header"
    BY <1>1, <1>2, <1>3
  <2> HIDE DEF wire, new
  <2>2. \/ i \in DOMAIN wire /\ new[i] = wire[i]
        \/ i = Len(wire) + 1 /\ new[i] = h
    BY <2>1, Places
  <2>. QED  BY <2>2 DEF wire, new
<1>6. CASE i \in DOMAIN k.wire /\ n.wire[i] = k.wire[i]
  <2>1. PICK j \in DOMAIN k.asked : i = 2 * j - 1 /\ k.wire[i].status = StatusFor(k.asked[j])
    BY <1>6 DEF HeadersInOrder
  <2>2. j \in DOMAIN n.asked /\ n.asked[j] = k.asked[j]
    BY <1>4
  <2>3. n.wire[i].status = StatusFor(n.asked[j])
    BY <2>1, <2>2, <1>6
  <2>. QED  BY <2>1, <2>2, <2>3
<1>7. CASE i = Len(k.wire) + 1 /\ n.wire[i] = h
  <2> DEFINE j == Len(k.asked) + 1
  <2>1. j \in DOMAIN n.asked /\ n.asked[j] = r
    BY <1>3, <1>4
  <2>2. i = 2 * j - 1
    BY <1>7, <1>3
  <2>3. n.wire[i].status = StatusFor(n.asked[j])
    BY <1>7, <1>1, <2>1
  <2> HIDE DEF j
  <2>. QED  BY <2>1, <2>2, <2>3
<1>. QED  BY <1>5, <1>6, <1>7

(* Forgetting what is answered leaves a living connection right: both      *)
(* counters start again, their difference is what is queued.               *)
LEMMA Forgets ==
    ASSUME NEW k, ConInv(k), k.armed, k.queued = 0 \/ Len(k.asked) < MaxAsked
    PROVE  ConInv(Recent(k)) /\ Recent(k).armed
<1>1. CASE Len(k.asked) < MaxAsked
  BY <1>1 DEF Recent
<1>2. CASE ~(Len(k.asked) < MaxAsked)
  <2> DEFINE written == k.written_len - k.sent_len
             n == [k EXCEPT !.asked = <<>>, !.wire = <<>>,
                            !.written_len = written, !.sent_len = 0]
  <2>1. k \in Connections /\ Owned(k) /\ k.written_len = k.sent_len + k.queued
    BY DEF ConInv
  <2>2. k.written_len \in Nat /\ k.sent_len \in Nat /\ k.queued \in Nat
    BY <2>1 DEF Connections
  <2>3. written \in Nat /\ written = 0 + k.queued
    BY <2>1, <2>2
  <2>4. <<>> \in Seq(Parts) /\ <<>> \in Seq(Requests) /\ Len(<<>>) = 0 /\ DOMAIN <<>> = {}
    OBVIOUS
  <2>5. Recent(k) = n
    BY <1>2 DEF Recent
  <2> HIDE DEF written
  <2>6. n \in Connections
    BY <2>1, <2>3, <2>4 DEF Connections
  <2>7. /\ n.pcb = k.pcb /\ n.mem = k.mem /\ n.armed = k.armed
        /\ n.written_len = written /\ n.sent_len = 0 /\ n.queued = k.queued
        /\ n.wire = <<>> /\ n.asked = <<>>
    BY <2>1 DEF Connections
  <2> HIDE DEF n
  <2>8. HeadersInOrder(n) /\ Whole(n)
    BY <2>4, <2>7 DEF HeadersInOrder, Whole
  <2>9. n.armed /\ Owned(n) /\ n.pcb # "aborted"
    BY <2>1, <2>7 DEF Owned
  <2>10. n.written_len = n.sent_len + n.queued
    BY <2>3, <2>7
  <2>. QED  BY <2>5, <2>6, <2>8, <2>9, <2>10 DEF ConInv
<1>. QED  BY <1>1, <1>2

(* A GET, answered whole or given up: tcp_server_recv_get on its           *)
(* connection.                                                             *)
LEMMA Answers ==
    ASSUME NEW k, ConInv(k), k.armed, NEW r \in Requests,
           NEW w1 \in BOOLEAN, NEW w2 \in BOOLEAN, NEW ok \in BOOLEAN
    PROVE  LET n == http_get_generate([k EXCEPT !.asked = Append(@, r)], r, w1, w2)
               err == SendError(r, w1, w2)
           IN  ConInv(IF err = "ERR_OK" THEN [n EXCEPT !.ret = "ERR_OK"]
                      ELSE tcp_close_client_connection(n, ok, err))
<1> DEFINE h == Header(StatusFor(r))
           a == [k EXCEPT !.asked = Append(@, r)]
           n == http_get_generate(a, r, w1, w2)
           err == SendError(r, w1, w2)
           z == [n EXCEPT !.ret = "ERR_OK"]
<1>1. /\ k \in Connections /\ k.pcb = "open" /\ k.mem = "live"
      /\ k.written_len = k.sent_len + k.queued /\ HeadersInOrder(k) /\ Whole(k)
  BY DEF ConInv, Owned
<1>2. k.wire \in Seq(Parts) /\ k.asked \in Seq(Requests)
      /\ k.sent_len \in Nat /\ k.queued \in Nat /\ k.written_len \in Nat
  BY <1>1 DEF Connections
<1>3. Append(k.asked, r) \in Seq(Requests)
  BY <1>2
<1>4. /\ a \in Connections
      /\ a.pcb = k.pcb /\ a.mem = k.mem /\ a.armed = k.armed
      /\ a.wire = k.wire /\ a.asked = Append(k.asked, r)
      /\ a.written_len = k.written_len /\ a.sent_len = k.sent_len /\ a.queued = k.queued
  BY <1>1, <1>3 DEF Connections
<1> HIDE DEF a
<1>5. Written(a, h, w1, w2, n)
  BY <1>4, Generates
<1> HIDE DEF n
<1>6. n \in Connections /\ n.mem = "live" /\ n.asked = Append(k.asked, r)
  BY <1>1, <1>4, <1>5 DEF Written
<1>7. Extends(k.wire, h, n.wire)
  BY <1>4, <1>5 DEF Written, Extends
<1>8. HeadersInOrder(n)
  BY <1>1, <1>6, <1>7, NextHeader DEF Whole
<1>9. CASE w1 /\ w2
  <2>1. err = "ERR_OK"
    BY <1>9 DEF SendError
  <2>2. /\ n.written_len = k.written_len + 2 /\ n.queued = k.queued + 2
        /\ n.wire = Append(Append(k.wire, h), Body)
        /\ n.pcb = "open" /\ n.mem = "live" /\ n.armed /\ n.sent_len = k.sent_len
    BY <1>1, <1>4, <1>5, <1>9 DEF Written
  <2>3. n.written_len = n.sent_len + n.queued
    BY <2>2, <1>1, <1>2
  <2>4. Whole(n)
    <3>1. h \in Parts /\ Body \in Parts /\ h.part = "header"
      BY DEF h, Header, Body, Parts, StatusFor
    <3> DEFINE v == Append(k.wire, h)
    <3>2. v \in Seq(Parts) /\ Len(v) = Len(k.wire) + 1 /\ v[Len(k.wire) + 1] = h
          /\ \A i \in 1 .. Len(k.wire) : v[i] = k.wire[i]
      BY <3>1, <1>2
    <3> HIDE DEF v, h
    <3>3. /\ Len(n.wire) = Len(k.wire) + 2
          /\ n.wire[Len(k.wire) + 1] = h /\ n.wire[Len(k.wire) + 2] = Body
          /\ \A i \in 1 .. Len(k.wire) : n.wire[i] = k.wire[i]
      BY <3>1, <3>2, <2>2, <1>2 DEF v
    <3>4. Len(n.asked) = Len(k.asked) + 1 /\ DOMAIN n.asked = 1 .. Len(k.asked) + 1
          /\ Len(k.asked) \in Nat /\ DOMAIN k.asked = 1 .. Len(k.asked)
      BY <1>2, <1>6
    <3>5. Len(k.wire) = 2 * Len(k.asked)
      BY <1>1 DEF Whole
    <3>6. ASSUME NEW i \in 1 .. Len(k.asked)
          PROVE  n.wire[2 * i - 1].part = "header" /\ n.wire[2 * i] = Body
      <4>1. k.wire[2 * i - 1].part = "header" /\ k.wire[2 * i] = Body
        BY <1>1, <3>4 DEF Whole
      <4>2. 2 * i - 1 \in 1 .. Len(k.wire) /\ 2 * i \in 1 .. Len(k.wire)
        BY <3>4, <3>5
      <4>. QED  BY <4>1, <4>2, <3>3
    <3>7. /\ n.wire[2 * (Len(k.asked) + 1) - 1].part = "header"
          /\ n.wire[2 * (Len(k.asked) + 1)] = Body
      <4>1. 2 * (Len(k.asked) + 1) - 1 = Len(k.wire) + 1
            /\ 2 * (Len(k.asked) + 1) = Len(k.wire) + 2
        BY <3>4, <3>5
      <4>. QED  BY <3>1, <3>3, <4>1
    <3>8. Len(n.wire) = 2 * Len(n.asked)
      BY <3>3, <3>4, <3>5
    <3>9. ASSUME NEW i \in DOMAIN n.asked
          PROVE  n.wire[2 * i - 1].part = "header" /\ n.wire[2 * i] = Body
      <4>1. i \in 1 .. Len(k.asked) \/ i = Len(k.asked) + 1
        BY <3>4
      <4>. QED  BY <4>1, <3>6, <3>7
    <3>. QED  BY <3>8, <3>9 DEF Whole
  <2>5. /\ z \in Connections /\ z.ret = "ERR_OK"
        /\ z.pcb = n.pcb /\ z.mem = n.mem /\ z.armed = n.armed
        /\ z.wire = n.wire /\ z.asked = n.asked
        /\ z.written_len = n.written_len /\ z.sent_len = n.sent_len /\ z.queued = n.queued
    BY <1>6 DEF Connections, Errors
  <2> HIDE DEF z
  <2>6. HeadersInOrder(z) /\ Whole(z)
    BY <2>4, <2>5, <1>8 DEF HeadersInOrder, Whole
  <2>7. ConInv(z)
    BY <2>2, <2>3, <2>5, <2>6 DEF ConInv, Owned
  <2>. QED  BY <2>1, <2>7 DEF z, n, a
<1>10. CASE ~(w1 /\ w2)
  <2>1. err # "ERR_OK" /\ err \in Errors
    BY <1>10 DEF SendError, Errors
  <2> HIDE DEF err
  <2>2. ConInv(tcp_close_client_connection(n, ok, err))
    BY <2>1, <1>6, <1>8, Closes
  <2>. QED  BY <2>1, <2>2 DEF err, n, a
<1>. QED  BY <1>9, <1>10

-----------------------------------------------------------------------------
(* The callbacks.                                                          *)

(* Every callback of tcp_server.c keeps the invariant.                     *)
LEMMA Step == IInv /\ [Next]_con => IInv'
<1> SUFFICES ASSUME IInv, [Next]_con PROVE IInv'
  OBVIOUS
<1>1. con \in [Conns -> Connections] /\ \A c \in Conns : ConInv(con[c])
  BY InvOfEach
<1>2. ASSUME NEW c \in Conns, con[c].armed
      PROVE  /\ con[c] \in Connections /\ con[c].mem = "live" /\ con[c].pcb = "open"
             /\ HeadersInOrder(con[c]) /\ Whole(con[c])
             /\ con[c].written_len = con[c].sent_len + con[c].queued
  BY <1>1, <1>2 DEF ConInv, Owned
<1>3. ASSUME NEW c \in Conns, tcp_server_accept(c)
      PROVE  IInv'
  <2>1. CASE con' = [con EXCEPT ![c] =
                    [NoCon EXCEPT !.pcb = "open", !.mem = "live", !.armed = TRUE]]
    BY <2>1, Fresh, OneConnection
  <2>2. ASSUME NEW err \in {"ERR_MEM", "ERR_VAL"},
               con' = [con EXCEPT ![c] = [NoCon EXCEPT !.ret = err]]
        PROVE  IInv'
    <3>1. ConInv([NoCon EXCEPT !.ret = err])
      BY Fresh DEF Errors
    <3>. QED  BY <2>2, <3>1, OneConnection
  <2>. QED  BY <1>3, <2>1, <2>2 DEF tcp_server_accept
<1>4. ASSUME NEW c \in Conns, NEW ok \in BOOLEAN,
             tcp_server_recv_fin(c, ok) \/ tcp_server_poll_event(c, ok)
      PROVE  IInv'
  <2>1. con[c].armed /\ con' = [con EXCEPT ![c] =
                tcp_close_client_connection(con[c], ok, "ERR_OK")]
    BY <1>4 DEF tcp_server_recv_fin, tcp_server_poll_event
  <2>2. ConInv(tcp_close_client_connection(con[c], ok, "ERR_OK"))
    BY <2>1, <1>2, Closes DEF Errors
  <2>. QED  BY <2>1, <2>2, OneConnection
<1>5. ASSUME NEW c \in Conns, NEW ok \in BOOLEAN, NEW r \in Requests,
             NEW w1 \in BOOLEAN, NEW w2 \in BOOLEAN, tcp_server_recv_get(c, r, w1, w2, ok)
      PROVE  IInv'
  <2> DEFINE k == Recent(con[c])
             n == http_get_generate([k EXCEPT !.asked = Append(@, r)], r, w1, w2)
             err == SendError(r, w1, w2)
             z == IF err = "ERR_OK" THEN [n EXCEPT !.ret = "ERR_OK"]
                  ELSE tcp_close_client_connection(n, ok, err)
  <2>1. /\ con[c].armed /\ con' = [con EXCEPT ![c] = z]
        /\ Len(con[c].asked) < MaxAsked \/ con[c].queued = 0
    BY <1>5 DEF tcp_server_recv_get
  <2>2. ConInv(k) /\ k.armed
    BY <2>1, <1>1, Forgets
  <2> HIDE DEF k
  <2>3. ConInv(z)
    BY <2>2, Answers
  <2> HIDE DEF z
  <2>. QED  BY <2>1, <2>3, OneConnection
<1>6. ASSUME NEW c \in Conns, NEW ok \in BOOLEAN, NEW len, tcp_server_sent(c, len, ok)
      PROVE  IInv'
  <2> DEFINE k == [con[c] EXCEPT !.sent_len = @ + len, !.queued = @ - len,
                                 !.polltmr = 0]
             z == [k EXCEPT !.ret = "ERR_OK"]
  <2>1. con[c].armed /\ len \in 1 .. con[c].queued
        /\ con' = [con EXCEPT ![c] =
                IF k.sent_len >= k.written_len /\ k.dont_close_on_send_finish
                THEN tcp_close_client_connection(k, ok, "ERR_OK") ELSE z]
    BY <1>6 DEF tcp_server_sent
  <2>2. con[c].sent_len \in Nat /\ con[c].queued \in Nat
    BY <1>1 DEF Connections
  <2>3. con[c].sent_len + len \in Nat /\ con[c].queued - len \in Nat
    BY <2>1, <2>2
  <2>4. /\ k \in Connections
        /\ k.pcb = con[c].pcb /\ k.mem = con[c].mem /\ k.armed = con[c].armed
        /\ k.wire = con[c].wire /\ k.asked = con[c].asked
        /\ k.written_len = con[c].written_len
        /\ k.sent_len = con[c].sent_len + len /\ k.queued = con[c].queued - len
    <3> DEFINE sent == con[c].sent_len + len
               queued == con[c].queued - len
    <3>1. k = [con[c] EXCEPT !.sent_len = sent, !.queued = queued, !.polltmr = 0]
      OBVIOUS
    <3>2. 0 \in 0 .. POLL_INTERVAL - 1
      BY PollAssumption
    <3>3. con[c] \in Connections
      BY <1>1
    <3>4. sent \in Nat /\ queued \in Nat
      BY <2>3
    <3> HIDE DEF sent, queued, k
    <3>5. k \in Connections
      BY <3>1, <3>2, <3>3, <3>4 DEF Connections
    <3>6. /\ k.pcb = con[c].pcb /\ k.mem = con[c].mem /\ k.armed = con[c].armed
          /\ k.wire = con[c].wire /\ k.asked = con[c].asked
          /\ k.written_len = con[c].written_len
          /\ k.sent_len = sent /\ k.queued = queued
      BY <3>1, <3>3 DEF Connections
    <3>. QED  BY <3>5, <3>6 DEF sent, queued
  <2> HIDE DEF k
  <2>5. HeadersInOrder(k) /\ Whole(k)
    BY <2>1, <2>4, <1>2 DEF HeadersInOrder, Whole
  <2>6. k.written_len = k.sent_len + k.queued
    BY <2>1, <2>2, <2>4, <1>2
  <2>7. /\ z \in Connections
        /\ z.pcb = k.pcb /\ z.mem = k.mem /\ z.armed = k.armed
        /\ z.wire = k.wire /\ z.asked = k.asked /\ z.ret = "ERR_OK"
        /\ z.written_len = k.written_len /\ z.sent_len = k.sent_len /\ z.queued = k.queued
    BY <2>4 DEF Connections, Errors
  <2> HIDE DEF z
  <2>8. HeadersInOrder(z) /\ Whole(z)
    BY <2>5, <2>7 DEF HeadersInOrder, Whole
  <2>9. ConInv(z)
    BY <2>1, <2>4, <2>6, <2>7, <2>8, <1>2 DEF ConInv, Owned
  <2>10. ConInv(tcp_close_client_connection(k, ok, "ERR_OK"))
    BY <2>1, <2>4, <2>5, <1>2, Closes DEF Errors
  <2>. QED  BY <2>1, <2>9, <2>10, OneConnection
<1>7. ASSUME NEW c \in Conns, tcp_server_recv_other(c)
      PROVE  IInv'
  <2> DEFINE z == [con[c] EXCEPT !.ret = "ERR_OK"]
  <2>1. con[c].armed /\ con' = [con EXCEPT ![c] = z]
    BY <1>7 DEF tcp_server_recv_other
  <2>2. /\ z \in Connections
        /\ z.pcb = con[c].pcb /\ z.mem = con[c].mem /\ z.armed = con[c].armed
        /\ z.wire = con[c].wire /\ z.asked = con[c].asked /\ z.ret = "ERR_OK"
        /\ z.written_len = con[c].written_len /\ z.sent_len = con[c].sent_len
        /\ z.queued = con[c].queued
    BY <1>1 DEF Connections, Errors
  <2> HIDE DEF z
  <2>3. HeadersInOrder(z) /\ Whole(z)
    BY <2>1, <2>2, <1>2 DEF HeadersInOrder, Whole
  <2>4. ConInv(z)
    BY <2>1, <2>2, <2>3, <1>2 DEF ConInv, Owned
  <2>. QED  BY <2>1, <2>4, OneConnection
<1>8. ASSUME NEW c \in Conns, NEW err \in {"ERR_ABRT", "ERR_RST"}, NEW ok \in BOOLEAN,
             tcp_server_err(c, err, ok)
      PROVE  IInv'
  <2> DEFINE k == IF err = "ERR_ABRT"
                  THEN [con[c] EXCEPT !.pcb = "gone", !.mem = "lost", !.armed = FALSE]
                  ELSE tcp_close_client_connection(con[c], ok, err)
             z == [k EXCEPT !.ret = "void"]
  <2>1. con[c].armed /\ con' = [con EXCEPT ![c] = z]
    BY <1>8 DEF tcp_server_err
  <2>2. /\ k \in Connections /\ HeadersInOrder(k)
        /\ k.pcb # "open" /\ k.mem # "live" /\ k.armed = FALSE
    <3>1. CASE err = "ERR_ABRT"
      <4>1. /\ k \in Connections
            /\ k.pcb = "gone" /\ k.mem = "lost" /\ k.armed = FALSE
            /\ k.wire = con[c].wire /\ k.asked = con[c].asked
        <5>1. k = [con[c] EXCEPT !.pcb = "gone", !.mem = "lost", !.armed = FALSE]
          BY <3>1
        <5>2. con[c] \in Connections
          BY <1>1
        <5> HIDE DEF k
        <5>3. k \in Connections
          BY <5>1, <5>2 DEF Connections
        <5>. QED  BY <5>1, <5>2 DEF Connections
      <4> HIDE DEF k
      <4>. QED  BY <4>1, <2>1, <1>2 DEF HeadersInOrder
    <3>2. CASE err # "ERR_ABRT"
      <4>1. ConInv(k) /\ k = tcp_close_client_connection(con[c], ok, err)
        BY <3>2, <2>1, <1>2, Closes DEF Errors
      <4>2. k.armed = FALSE
        BY <4>1, <2>1, <1>2 DEF tcp_close_client_connection, Connections
      <4> HIDE DEF k
      <4>. QED  BY <4>1, <4>2 DEF ConInv, Owned
    <3>. QED  BY <3>1, <3>2
  <2> HIDE DEF k
  <2>3. /\ z \in Connections /\ z.ret = "void"
        /\ z.pcb = k.pcb /\ z.mem = k.mem /\ z.armed = k.armed
        /\ z.wire = k.wire /\ z.asked = k.asked
    BY <2>2 DEF Connections
  <2> HIDE DEF z
  <2>4. ConInv(z)
    BY <2>2, <2>3 DEF ConInv, Owned, HeadersInOrder
  <2>. QED  BY <2>1, <2>4, OneConnection
<1>9. ASSUME NEW c \in Conns, tcp_slowtmr(c)
      PROVE  IInv'
  <2> DEFINE t == con[c].polltmr + 1
             z == [con[c] EXCEPT !.polltmr = t]
  <2>1. con[c].armed /\ con' = [con EXCEPT ![c] = z] /\ t < POLL_INTERVAL
    BY <1>9 DEF tcp_slowtmr
  <2>2. t \in 0 .. POLL_INTERVAL - 1
    BY <2>1, <1>1, PollAssumption DEF Connections
  <2> HIDE DEF t
  <2>3. /\ z \in Connections
        /\ z.pcb = con[c].pcb /\ z.mem = con[c].mem /\ z.armed = con[c].armed
        /\ z.wire = con[c].wire /\ z.asked = con[c].asked
        /\ z.written_len = con[c].written_len /\ z.sent_len = con[c].sent_len
        /\ z.queued = con[c].queued
    BY <2>2, <1>1 DEF Connections
  <2> HIDE DEF z
  <2>4. HeadersInOrder(z) /\ Whole(z)
    BY <2>1, <2>3, <1>2 DEF HeadersInOrder, Whole
  <2>5. ConInv(z)
    BY <2>1, <2>3, <2>4, <1>2 DEF ConInv, Owned
  <2>. QED  BY <2>1, <2>5, OneConnection
<1>10. CASE UNCHANGED con
  BY <1>10 DEF IInv, CallbacksOwnState, TypeOK, AbortReported, CountKept, AnswersMatch
<1>. QED  BY <1>3, <1>4, <1>5, <1>6, <1>7, <1>8, <1>9, <1>10 DEF Next

(* Before the first callback no connection exists.                         *)
LEMMA Start == Init => IInv
<1> SUFFICES ASSUME Init PROVE IInv
  OBVIOUS
<1>1. NoCon = [NoCon EXCEPT !.ret = "ERR_OK"]
  BY DEF NoCon
<1>2. ConInv(NoCon)
  BY <1>1, Fresh DEF Errors
<1>3. NoCon \in Connections
  BY <1>2 DEF ConInv
<1>4. con \in [Conns -> Connections] /\ \A c \in Conns : con[c] = NoCon
  BY <1>3 DEF Init
<1>. QED  BY <1>2, <1>4, InvOfEach

(* The inductive invariant of the connections of tcp_server.c.             *)
THEOREM Invariance == Spec => []IInv
  BY Start, Step, PTL DEF Spec, Safety

(* No callback runs on a connection state that is freed, none is freed     *)
(* twice or kept, for every number of connections.                         *)
THEOREM OwnState == Spec => []CallbacksOwnState
<1>1. IInv => CallbacksOwnState
  BY DEF IInv
<1>. QED  BY <1>1, Invariance, PTL

(* Every abort inside a callback that has a result is reported to lwIP.    *)
THEOREM AbortsReported == Spec => []AbortReported
<1>1. IInv => AbortReported
  BY DEF IInv
<1>. QED  BY <1>1, Invariance, PTL

(* The comparison in tcp_server_sent is exact although failed writes are   *)
(* counted as written.                                                     *)
THEOREM SentExact == Spec => []SentCountExact
<1>1. IInv => SentCountExact
  <2> SUFFICES ASSUME IInv, NEW c \in Conns, con[c].armed
               PROVE  con[c].sent_len >= con[c].written_len <=> con[c].queued = 0
    BY DEF SentCountExact
  <2>1. con[c].sent_len \in Nat /\ con[c].queued \in Nat
    BY DEF IInv, CallbacksOwnState, TypeOK, Connections
  <2>2. con[c].written_len = con[c].sent_len + con[c].queued
    BY DEF IInv, CountKept
  <2>. QED  BY <2>1, <2>2
<1>. QED  BY <1>1, Invariance, PTL

(* Answers come in the order of the requests, whole while the connection   *)
(* lives, whichever writes fail.                                           *)
THEOREM Matched == Spec => []AnswersMatch
<1>1. IInv => AnswersMatch
  BY DEF IInv
<1>. QED  BY <1>1, Invariance, PTL

=============================================================================
