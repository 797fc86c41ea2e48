-------------------------- MODULE ApWebsiteProofs ---------------------------
(***************************************************************************)
(* Proofs about ApWebsite, for every number of connections and requests:   *)
(* its invariants, that its own responses are delivered before the         *)
(* connection is closed as done, and that it implements HttpConnection as  *)
(* far as safety goes.                                                     *)
(***************************************************************************)
EXTENDS ApWebsite, FiniteSetTheorems, SequenceTheorems, TLAPS

-----------------------------------------------------------------------------
(* Wires.                                                                  *)

(* What Append leaves where.                                               *)
LEMMA OneMore ==
    ASSUME NEW S, NEW s \in Seq(S), NEW e \in S
    PROVE  /\ Append(s, e) \in Seq(S)
           /\ Len(Append(s, e)) = Len(s) + 1
           /\ DOMAIN Append(s, e) = 1 .. Len(s) + 1
           /\ \A m \in 1 .. Len(s) : Append(s, e)[m] = s[m]
           /\ Append(s, e)[Len(s) + 1] = e
  OBVIOUS

(* How many parts of a response of one or two can be written.              *)
LEMMA UpTo ==
    ASSUME NEW m, m \in {1, 2}, NEW n \in 0 .. m
    PROVE  n = 0 \/ n = 1 \/ (n = 2 /\ m = 2)
  OBVIOUS

(* The headers up to a place of the wire are finitely many.                *)
LEMMA NumberType ==
    ASSUME NEW wire, NEW i \in Nat
    PROVE  /\ IsFiniteSet({j \in 1 .. i : HeaderAt(wire, j)})
           /\ Number(wire, i) \in Nat
<1>1. IsFiniteSet(1 .. i)
  BY FS_Interval
<1>2. IsFiniteSet({j \in 1 .. i : HeaderAt(wire, j)})
  BY <1>1, FS_Subset
<1>. QED  BY <1>2, FS_CardinalityType DEF Number

(* A part more on the wire leaves the numbers of the headers before it as  *)
(* they are, and a header gets the next number.                            *)
LEMMA NumberNext ==
    ASSUME NEW wire \in Seq(WireParts), NEW p \in WireParts
    PROVE  /\ \A i \in 0 .. Len(wire) : Number(Append(wire, p), i) = Number(wire, i)
           /\ Number(Append(wire, p), Len(wire) + 1) =
                Number(wire, Len(wire)) + (IF p.part = "header" THEN 1 ELSE 0)
<1> DEFINE new == Append(wire, p)
           m == Len(wire) + 1
           old == {j \in 1 .. Len(wire) : HeaderAt(wire, j)}
           all == {j \in 1 .. m : HeaderAt(new, j)}
<1>1. Len(wire) \in Nat /\ m \in Nat /\ m \notin 1 .. Len(wire)
      /\ 1 .. m = (1 .. Len(wire)) \cup {m}
  OBVIOUS
<1>2. /\ \A j \in 1 .. Len(wire) : new[j] = wire[j]
      /\ new[m] = p
  BY OneMore
<1> HIDE DEF new, m
<1>3. ASSUME NEW i \in 0 .. Len(wire)
      PROVE  Number(new, i) = Number(wire, i)
  <2>1. \A j \in 1 .. i : HeaderAt(new, j) <=> HeaderAt(wire, j)
    BY <1>1, <1>2 DEF HeaderAt
  <2>2. {j \in 1 .. i : HeaderAt(new, j)} = {j \in 1 .. i : HeaderAt(wire, j)}
    BY <2>1
  <2>. QED  BY <2>2 DEF Number
<1>4. \A j \in 1 .. Len(wire) : HeaderAt(new, j) <=> HeaderAt(wire, j)
  BY <1>2 DEF HeaderAt
<1>5. HeaderAt(new, m) <=> p.part = "header"
  BY <1>2 DEF HeaderAt
<1>6. IsFiniteSet(old) /\ m \notin old
  BY <1>1, NumberType
<1>7. CASE p.part = "header"
  <2>1. all = old \cup {m}
    BY <1>1, <1>4, <1>5, <1>7
  <2>2. Cardinality(old \cup {m}) = Cardinality(old) + 1
    BY <1>6, FS_AddElement
  <2>. QED  BY <1>3, <1>7, <2>1, <2>2 DEF Number, new, m
<1>8. CASE p.part # "header"
  <2>1. all = old
    BY <1>1, <1>4, <1>5, <1>8
  <2>2. Number(wire, Len(wire)) \in Nat
    BY <1>1, NumberType
  <2>. QED  BY <1>3, <1>8, <2>1, <2>2 DEF Number, new, m
<1>. QED  BY <1>7, <1>8

(* The parts http_get_generate or a generator writes for one request.      *)
Response(parts) ==
    \E h, b \in WireParts :
        /\ h.part = "header" /\ b.part = "body" /\ b.status # 302
        /\ \/ parts = <<h>> /\ h.status = 302
           \/ parts = <<h, b>> /\ h.status # 302

(* The wire after n parts of a response.                                   *)
LEMMA WireAfter ==
    ASSUME NEW wire \in Seq(WireParts), NEW parts, Response(parts), NEW n \in 0 .. Len(parts)
    PROVE  LET new == wire \o SubSeq(parts, 1, n) IN
           /\ new \in Seq(WireParts)
           /\ parts \in Seq(WireParts) /\ Len(parts) \in {1, 2}
           /\ parts[1] \in WireParts /\ parts[1].part = "header"
           /\ Len(parts) = 2 => parts[2] \in WireParts /\ parts[2].part = "body"
           /\ n = 0 => new = wire
           /\ n = 1 => new = Append(wire, parts[1])
           /\ n = 2 => new = Append(Append(wire, parts[1]), parts[2])
<1>1. PICK h \in WireParts, b \in WireParts :
        /\ h.part = "header" /\ b.part = "body"
        /\ parts = <<h>> \/ parts = <<h, b>>
  BY DEF Response
<1>2. /\ parts \in Seq(WireParts) /\ Len(parts) \in {1, 2}
      /\ parts[1] = h /\ (Len(parts) = 2 => parts[2] = b)
  <2>1. CASE parts = <<h>>
    BY <1>1, <2>1
  <2>2. CASE parts = <<h, b>>
    BY <1>1, <2>2
  <2>. QED  BY <1>1, <2>1, <2>2
<1> DEFINE new == wire \o SubSeq(parts, 1, n)
<1>3. CASE n = 0
  <2>1. new = wire
    BY <1>2, <1>3
  <2>. QED  BY <1>1, <1>2, <1>3, <2>1
<1>4. CASE n = 1
  <2>1. new = Append(wire, parts[1])
    BY <1>2, <1>4
  <2> HIDE DEF new
  <2>2. new \in Seq(WireParts)
    BY <1>1, <1>2, <2>1
  <2>. QED  BY <1>1, <1>2, <1>4, <2>1, <2>2 DEF new
<1>5. CASE n = 2
  <2>1. Len(parts) = 2
    BY <1>2, <1>5
  <2>2. new = Append(Append(wire, parts[1]), parts[2])
    BY <1>2, <1>5, <2>1
  <2> HIDE DEF new
  <2>3. new \in Seq(WireParts)
    BY <1>1, <1>2, <2>1, <2>2
  <2>. QED  BY <1>1, <1>2, <1>5, <2>2, <2>3 DEF new
<1>6. n = 0 \/ n = 1 \/ n = 2
  BY <1>2, UpTo
<1>. QED  BY <1>3, <1>4, <1>5, <1>6

-----------------------------------------------------------------------------
(* One connection.                                                         *)

(* What IInv says of one connection.                                       *)
Owned(k) ==
    /\ k.armed <=> k.pcb = "open"
    /\ k.armed <=> k.mem = "live"

Matched(wire, asked) ==
    \A i \in DOMAIN wire :
        HeaderAt(wire, i) =>
            /\ Number(wire, i) \in DOMAIN asked
            /\ (\A j \in 1 .. Number(wire, i) - 1 : asked[j] # "unknown") =>
                    Fits(wire[i], asked[Number(wire, i)])

Answered(k) ==
    /\ Number(k.wire, Len(k.wire)) = Len(k.asked)
    /\ (\A j \in DOMAIN k.asked : k.asked[j] # "unknown") => k.result_len = 0

Counted(k) ==
    /\ k.asked = <<>> => k.sent_len = 0 /\ k.result_len = 0 /\ k.queued = 0
    /\ Len(k.asked) = 1 /\ k.asked[1] \in {"default", "unknown"} =>
            k.sent_len + k.queued = k.header_len + k.result_len

ConInv(k) ==
    /\ k \in Connections
    /\ Owned(k)
    /\ k.ret # "void" => (k.ret = "ERR_ABRT" <=> k.pcb = "aborted")
    /\ Matched(k.wire, k.asked)
    /\ k.armed => Answered(k) /\ Counted(k)

(* The invariant of all connections is that of each of them.               *)
LEMMA InvOfEach ==
    IInv <=> con \in [Conns -> Connections] /\ \A c \in Conns : ConInv(con[c])
<1>1. TypeOK => \A c \in Conns : con[c] \in Connections
  BY DEF TypeOK
<1>. QED
  BY <1>1 DEF IInv, CallbacksOwnState, TypeOK, AbortReported, AnswersMatch, AllAnswered,
              FirstCounted, ConInv, Owned, Matched, Answered, Counted

(* A callback that leaves its connection right leaves all of them right.   *)
LEMMA OneConnection ==
    ASSUME IInv, NEW c \in Conns, NEW k, ConInv(k), con' = [con EXCEPT ![c] = k]
    PROVE  IInv'
<1>1. con \in [Conns -> Connections] /\ \A d \in Conns : ConInv(con[d])
  BY InvOfEach
<1>2. k \in Connections
  BY DEF ConInv
<1>3. con' \in [Conns -> Connections] /\ \A d \in Conns : con'[d] = IF d = c THEN k ELSE con[d]
  BY <1>1, <1>2
<1>4. \A d \in Conns : ConInv(con'[d])
  BY <1>1, <1>3
<1>. QED
  BY <1>3, <1>4 DEF IInv, CallbacksOwnState, TypeOK, AbortReported, AnswersMatch,
              AllAnswered, FirstCounted, ConInv, Owned, Matched, Answered, Counted

(* A slot nobody uses, and one whose connection is new.                    *)
LEMMA Fresh ==
    /\ \A err \in Errors \ {"ERR_ABRT"} : ConInv([NoCon EXCEPT !.ret = err])
    /\ ConInv([NoCon EXCEPT !.pcb = "open", !.mem = "live", !.armed = TRUE])
<1>1. <<>> \in Seq(WireParts) /\ <<>> \in Seq(Requests) /\ Len(<<>>) = 0 /\ DOMAIN <<>> = {}
  OBVIOUS
<1>2. Matched(<<>>, <<>>)
  BY <1>1 DEF Matched
<1>3. NoCon \in Connections
  BY <1>1 DEF Connections, NoCon, Errors
<1>4. ASSUME NEW err \in Errors \ {"ERR_ABRT"}
      PROVE  ConInv([NoCon EXCEPT !.ret = err])
  <2> DEFINE k == [NoCon EXCEPT !.ret = err]
  <2>1. k \in Connections
    BY <1>3 DEF Connections
  <2>2. /\ k.armed = FALSE /\ k.pcb = "none" /\ k.wire = <<>> /\ k.mem = "none"
        /\ k.asked = <<>> /\ k.ret = err
    BY DEF NoCon
  <2> HIDE DEF k
  <2>3. ConInv(k)
    BY <1>2, <2>1, <2>2 DEF ConInv, Owned
  <2>. QED  BY <2>3 DEF k
<1>5. ConInv([NoCon EXCEPT !.pcb = "open", !.mem = "live", !.armed = TRUE])
  <2> DEFINE k == [NoCon EXCEPT !.pcb = "open", !.mem = "live", !.armed = TRUE]
  <2>1. k \in Connections
    BY <1>3 DEF Connections
  <2>2. /\ k.armed = TRUE /\ k.pcb = "open" /\ k.wire = <<>> /\ k.asked = <<>>
        /\ k.mem = "live" /\ k.sent_len = 0 /\ k.result_len = 0 /\ k.queued = 0
        /\ k.ret = "ERR_OK"
    BY DEF NoCon
  <2> HIDE DEF k
  <2>3. Number(<<>>, 0) = 0
    <3>1. {j \in 1 .. 0 : HeaderAt(<<>>, j)} = {}
      OBVIOUS
    <3>. QED  BY <3>1, FS_EmptySet DEF Number
  <2>4. Answered(k) /\ Counted(k)
    BY <1>1, <2>2, <2>3 DEF Answered, Counted
  <2>5. ConInv(k)
    BY <1>2, <2>1, <2>2, <2>4 DEF ConInv, Owned
  <2>. QED  BY <2>5 DEF k
<1>. QED  BY <1>4, <1>5

(* tcp_close_client_connection leaves a connection of which nothing may be *)
(* used any more, and ERR_ABRT stands for an abort.                        *)
LEMMA Closes ==
    ASSUME NEW k \in Connections, k.mem = "live", Matched(k.wire, k.asked),
           NEW ok \in BOOLEAN, NEW err \in Errors, err # "ERR_ABRT"
    PROVE  ConInv(tcp_close_client_connection(k, ok, err))
<1> DEFINE z == tcp_close_client_connection(k, ok, err)
<1>1. /\ z \in Connections /\ z.armed = FALSE /\ z.mem = "freed"
      /\ z.pcb = (IF ok THEN "closed" ELSE "aborted")
      /\ z.ret = (IF ok THEN err ELSE "ERR_ABRT")
      /\ z.wire = k.wire /\ z.asked = k.asked
  BY DEF Connections, Free, Errors, tcp_close_client_connection
<1> HIDE DEF z
<1>2. ConInv(z)
  BY <1>1 DEF ConInv, Owned
<1>. QED  BY <1>2 DEF z

(* A request more does not change what the earlier ones were answered.     *)
LEMMA MatchedAsk ==
    ASSUME NEW wire \in Seq(WireParts), NEW asked \in Seq(Requests), NEW r \in Requests,
           Matched(wire, asked)
    PROVE  Matched(wire, Append(asked, r))
<1> DEFINE more == Append(asked, r)
<1>1. /\ \A j \in DOMAIN asked : j \in DOMAIN more /\ more[j] = asked[j]
      /\ DOMAIN asked = 1 .. Len(asked) /\ Len(asked) \in Nat
  BY OneMore
<1> HIDE DEF more
<1> SUFFICES ASSUME NEW i \in DOMAIN wire, HeaderAt(wire, i)
             PROVE  /\ Number(wire, i) \in DOMAIN more
                    /\ (\A j \in 1 .. Number(wire, i) - 1 : more[j] # "unknown") =>
                            Fits(wire[i], more[Number(wire, i)])
  BY DEF Matched, more
<1> DEFINE m == Number(wire, i)
<1>2. /\ m \in DOMAIN asked
      /\ (\A j \in 1 .. m - 1 : asked[j] # "unknown") => Fits(wire[i], asked[m])
  BY DEF Matched
<1> HIDE DEF m
<1>3. \A j \in 1 .. m - 1 : j \in DOMAIN asked
  BY <1>1, <1>2
<1>4. m \in DOMAIN more /\ more[m] = asked[m]
  BY <1>1, <1>2
<1>5. (\A j \in 1 .. m - 1 : more[j] # "unknown") => \A j \in 1 .. m - 1 : asked[j] # "unknown"
  BY <1>1, <1>3
<1>. QED  BY <1>2, <1>4, <1>5 DEF m

(* A part more leaves the headers before it matched; if it is a header it  *)
(* must itself match the request of its number.                            *)
LEMMA MatchedPart ==
    ASSUME NEW wire \in Seq(WireParts), NEW asked \in Seq(Requests), NEW p \in WireParts,
           Matched(wire, asked),
           p.part = "header" =>
                /\ Number(wire, Len(wire)) + 1 = Len(asked)
                /\ (\A j \in 1 .. Len(asked) - 1 : asked[j] # "unknown") =>
                        Fits(p, asked[Len(asked)])
    PROVE  Matched(Append(wire, p), asked)
<1> DEFINE new == Append(wire, p)
<1>1. /\ DOMAIN new = 1 .. Len(wire) + 1 /\ DOMAIN wire = 1 .. Len(wire)
      /\ Len(wire) \in Nat /\ Len(asked) \in Nat /\ DOMAIN asked = 1 .. Len(asked)
      /\ \A i \in 1 .. Len(wire) : new[i] = wire[i]
      /\ new[Len(wire) + 1] = p
  BY OneMore
<1>2. /\ \A i \in 0 .. Len(wire) : Number(new, i) = Number(wire, i)
      /\ Number(new, Len(wire) + 1) =
            Number(wire, Len(wire)) + (IF p.part = "header" THEN 1 ELSE 0)
  BY NumberNext
<1>3. Number(wire, Len(wire)) \in Nat
  BY <1>1, NumberType
<1> HIDE DEF new
<1> SUFFICES ASSUME NEW i \in DOMAIN new, HeaderAt(new, i)
             PROVE  /\ Number(new, i) \in DOMAIN asked
                    /\ (\A j \in 1 .. Number(new, i) - 1 : asked[j] # "unknown") =>
                            Fits(new[i], asked[Number(new, i)])
  BY DEF Matched, new
<1>4. CASE i \in 1 .. Len(wire)
  <2>1. new[i] = wire[i] /\ Number(new, i) = Number(wire, i) /\ HeaderAt(wire, i)
    BY <1>4, <1>1, <1>2 DEF HeaderAt
  <2>. QED  BY <2>1, <1>4, <1>1 DEF Matched
<1>5. CASE i = Len(wire) + 1
  <2>1. new[i] = p /\ p.part = "header"
    BY <1>5, <1>1 DEF HeaderAt
  <2>2. Number(new, i) = Len(asked)
    BY <2>1, <1>5, <1>2
  <2>3. Len(asked) \in DOMAIN asked
    BY <2>1, <1>1, <1>3
  <2>. QED  BY <2>1, <2>2, <2>3
<1>. QED  BY <1>1, <1>4, <1>5

(* What http_get_generate and the generators write is a response, and the  *)
(* one that is called for unless a result was left behind.                 *)
LEMMA WellFormed ==
    ASSUME NEW k, NEW r \in Requests, k.result_len \in Nat
    PROVE  LET parts == IF r \in Generators THEN Generated(r) ELSE Parts(k, r) IN
           /\ Response(parts)
           /\ k.result_len = 0 => Fits(parts[1], r)
           /\ k.result_len = 0 /\ r = "default" => Len(parts) = 1
           /\ k.result_len = 0 /\ r = "unknown" => Len(parts) = 2
<1> DEFINE parts == IF r \in Generators THEN Generated(r) ELSE Parts(k, r)
<1> SUFFICES /\ Response(parts)
             /\ k.result_len = 0 => Fits(parts[1], r)
             /\ k.result_len = 0 /\ r = "default" => Len(parts) = 1
             /\ k.result_len = 0 /\ r = "unknown" => Len(parts) = 2
  OBVIOUS
<1>1. CASE r \in Generators
  <2>1. parts = <<Header(200, r), Body(r)>>
    BY <1>1 DEF Generators, Generated, html_page, file_html_page, ap_send_get_responce
  <2>2. /\ Header(200, r) \in WireParts /\ Body(r) \in WireParts
        /\ Header(200, r).part = "header" /\ Body(r).part = "body"
        /\ Header(200, r).status # 302 /\ Body(r).status # 302
        /\ Fits(Header(200, r), r)
    BY <1>1 DEF Header, Body, WireParts, Requests, Generators, Fits, StatusFor
  <2>3. Response(parts)
    BY <2>1, <2>2 DEF Response
  <2>4. parts[1] = Header(200, r) /\ r # "default" /\ r # "unknown"
    BY <2>1, <1>1 DEF Generators
  <2>. QED  BY <2>2, <2>3, <2>4
<1>2. ASSUME NEW status \in {200, 404}, parts = <<Header(status, "notfound"), Body("notfound")>>
      PROVE  Response(parts) /\ parts[1] = Header(status, "notfound") /\ Len(parts) = 2
  <2>1. /\ Header(status, "notfound") \in WireParts /\ Body("notfound") \in WireParts
        /\ Header(status, "notfound").part = "header" /\ Body("notfound").part = "body"
        /\ Header(status, "notfound").status # 302 /\ Body("notfound").status # 302
    BY DEF Header, Body, WireParts
  <2> HIDE DEF parts
  <2>. QED  BY <1>2, <2>1 DEF Response
<1>3. CASE r \notin Generators /\ k.result_len > 0
  <2>1. parts = <<Header(200, "notfound"), Body("notfound")>>
    BY <1>3 DEF Parts
  <2>. QED  BY <1>2, <1>3, <2>1
<1>4. CASE r = "default" /\ k.result_len = 0
  <2>1. parts = <<Header(302, "default")>>
    BY <1>4 DEF Parts, Generators
  <2>2. /\ Header(302, "default") \in WireParts /\ Body("notfound") \in WireParts
        /\ Header(302, "default").part = "header" /\ Body("notfound").part = "body"
        /\ Header(302, "default").status = 302 /\ Body("notfound").status # 302
        /\ Fits(Header(302, "default"), "default")
    BY DEF Header, Body, WireParts, Requests, Fits, StatusFor
  <2> HIDE DEF parts
  <2>3. Response(parts)
    BY <2>1, <2>2 DEF Response
  <2>4. parts[1] = Header(302, "default") /\ Len(parts) = 1
    BY <2>1
  <2>. QED  BY <1>4, <2>2, <2>3, <2>4
<1>5. CASE r = "unknown" /\ k.result_len = 0
  <2>1. parts = <<Header(404, "notfound"), Body("notfound")>>
    BY <1>5 DEF Parts, Generators
  <2>2. Fits(Header(404, "notfound"), "unknown")
    BY DEF Header, Fits, StatusFor
  <2>3. Response(parts) /\ parts[1] = Header(404, "notfound") /\ Len(parts) = 2
    BY <1>2, <2>1
  <2> HIDE DEF parts
  <2>. QED  BY <1>5, <2>2, <2>3
<1>6. \/ r \in Generators
      \/ r \notin Generators /\ k.result_len > 0
      \/ r = "default" /\ k.result_len = 0
      \/ r = "unknown" /\ k.result_len = 0
  <2>1. r \in Generators \/ r = "default" \/ r = "unknown"
    BY DEF Requests
  <2>2. k.result_len = 0 \/ k.result_len > 0
    OBVIOUS
  <2>. QED  BY <2>1, <2>2
<1> HIDE DEF parts
<1>. QED  BY <1>1, <1>3, <1>4, <1>5, <1>6

(* Everything http_get_generate does to a connection before it writes.     *)
Prepared(a, r) == IF r \in Generators THEN a ELSE Fill(a, r)
Answer(a, r) == IF r \in Generators THEN Generated(r) ELSE Parts(a, r)

(* The connection when a request is counted and its answer not yet written.*)
LEMMA Prepares ==
    ASSUME NEW k, ConInv(k), k.armed, NEW r \in Requests, NEW a \in Connections,
           a = [k EXCEPT !.headers = a.headers, !.asked = Append(k.asked, r)]
    PROVE  LET f == Prepared(a, r) IN
           /\ f \in Connections
           /\ f.pcb = "open" /\ f.mem = "live" /\ f.armed
           /\ f.wire = k.wire /\ f.queued = k.queued /\ f.asked = Append(k.asked, r)
           /\ f.sent_len <= k.sent_len
           /\ r # "unknown" => f.result_len = k.result_len
           /\ k.asked = <<>> /\ r \in {"default", "unknown"} =>
                f.sent_len = 0 /\ f.header_len = 1
                /\ f.result_len = (IF r = "unknown" THEN 1 ELSE 0)
<1> DEFINE f == Prepared(a, r)
<1>1. k \in Connections /\ k.pcb = "open" /\ k.mem = "live"
      /\ (k.asked = <<>> => k.result_len = 0)
  BY DEF ConInv, Owned, Counted
<1>2. /\ a.pcb = "open" /\ a.mem = "live" /\ a.armed
      /\ a.wire = k.wire /\ a.queued = k.queued /\ a.asked = Append(k.asked, r)
      /\ a.sent_len = k.sent_len /\ a.result_len = k.result_len
  BY <1>1 DEF Connections
<1>3. k.sent_len \in Nat /\ k.result_len \in Nat
  BY <1>1 DEF Connections
<1>4. CASE r \in Generators
  <2>1. f = a /\ r # "default" /\ r # "unknown"
    BY <1>4 DEF Prepared, Generators
  <2> HIDE DEF f
  <2>2. f.sent_len <= k.sent_len
    BY <2>1, <1>2, <1>3
  <2>. QED  BY <2>1, <2>2, <1>2 DEF f
<1>5. CASE r \notin Generators
  <2> DEFINE res == IF a.result_len = 0 /\ r = "unknown" THEN 1 ELSE a.result_len
  <2>1. f = [a EXCEPT !.headers = "response", !.sent_len = 0, !.header_len = 1,
                      !.result_len = res]
    BY <1>5 DEF Prepared, Fill
  <2>2. res \in Nat /\ (r # "unknown" => res = k.result_len)
        /\ (k.asked = <<>> => res = IF r = "unknown" THEN 1 ELSE 0)
    BY <1>1, <1>2, <1>3
  <2> HIDE DEF f, res
  <2>3. /\ f \in Connections
        /\ f.pcb = a.pcb /\ f.mem = a.mem /\ f.armed = a.armed
        /\ f.wire = a.wire /\ f.queued = a.queued /\ f.asked = a.asked
        /\ f.sent_len = 0 /\ f.header_len = 1 /\ f.result_len = res
    BY <2>1, <2>2 DEF Connections
  <2>4. f.sent_len <= k.sent_len
    BY <2>3, <1>3
  <2>. QED  BY <2>2, <2>3, <2>4, <1>2 DEF f
<1>. QED  BY <1>4, <1>5

(* z is the connection k after n of the parts of an answer were written:   *)
(* all of them, or the connection is given up.                             *)
Served(k, parts, n, z) ==
    /\ ConInv(z)
    /\ Response(parts)
    /\ n \in 0 .. Len(parts)
    /\ z.wire = k.wire \o SubSeq(parts, 1, n)
    /\ z.armed <=> n = Len(parts)
    /\ z.sent_len <= k.sent_len

(* A GET, answered whole or given up: what ap_tcp_server_recv_get makes of *)
(* its connection.                                                         *)
LEMMA Serves ==
    ASSUME NEW k, ConInv(k), k.armed, NEW r \in Requests, NEW a \in Connections,
           a = [k EXCEPT !.headers = a.headers, !.asked = Append(k.asked, r)],
           NEW n \in 0 .. Len(Answer(a, r)), NEW ok \in BOOLEAN
    PROVE  Served(k, Answer(a, r), n, http_get_generate(a, r, n, ok))
<1> DEFINE f == Prepared(a, r)
           parts == Answer(a, r)
           wire == k.wire \o SubSeq(parts, 1, n)
           w == [f EXCEPT !.wire = wire, !.queued = f.queued + n]
           z == http_get_generate(a, r, n, ok)
           more == Append(k.asked, r)
<1>1. /\ k \in Connections /\ Matched(k.wire, k.asked) /\ Answered(k) /\ Counted(k)
  BY DEF ConInv
<1>2. /\ k.wire \in Seq(WireParts) /\ k.asked \in Seq(Requests) /\ k.queued \in Nat
      /\ k.sent_len \in Nat /\ k.result_len \in Nat
  BY <1>1 DEF Connections
<1>3. a.result_len = k.result_len
  BY <1>1 DEF Connections
<1>4. /\ f \in Connections
      /\ f.pcb = "open" /\ f.mem = "live" /\ f.armed
      /\ f.wire = k.wire /\ f.queued = k.queued /\ f.asked = more
      /\ f.sent_len <= k.sent_len
      /\ r # "unknown" => f.result_len = k.result_len
      /\ k.asked = <<>> /\ r \in {"default", "unknown"} =>
            f.sent_len = 0 /\ f.header_len = 1
            /\ f.result_len = (IF r = "unknown" THEN 1 ELSE 0)
  BY Prepares
<1>5. /\ Response(parts)
      /\ k.result_len = 0 => Fits(parts[1], r)
      /\ k.result_len = 0 /\ r = "default" => Len(parts) = 1
      /\ k.result_len = 0 /\ r = "unknown" => Len(parts) = 2
  BY <1>2, <1>3, WellFormed DEF Answer
<1>6. z = IF n = Len(parts) THEN [w EXCEPT !.ret = "ERR_OK"]
          ELSE tcp_close_client_connection(w, ok, "ERR_MEM")
  BY <1>4 DEF http_get_generate, ap_tcp_write, Prepared, Answer
<1> HIDE DEF f, parts, z
<1>7. n \in 0 .. Len(parts)
  BY DEF parts
<1>8. /\ wire \in Seq(WireParts)
      /\ parts \in Seq(WireParts) /\ Len(parts) \in {1, 2}
      /\ parts[1] \in WireParts /\ parts[1].part = "header"
      /\ Len(parts) = 2 => parts[2] \in WireParts /\ parts[2].part = "body"
      /\ n = 0 => wire = k.wire
      /\ n = 1 => wire = Append(k.wire, parts[1])
      /\ n = 2 => wire = Append(Append(k.wire, parts[1]), parts[2])
  BY <1>2, <1>5, <1>7, WireAfter
<1> HIDE DEF wire
<1>9. n = 0 \/ n = 1 \/ (n = 2 /\ Len(parts) = 2)
  BY <1>7, <1>8, UpTo
<1>10. /\ w \in Connections /\ w.mem = "live" /\ w.pcb = "open" /\ w.armed
       /\ w.wire = wire /\ w.asked = more /\ w.queued = f.queued + n
       /\ w.sent_len = f.sent_len /\ w.header_len = f.header_len
       /\ w.result_len = f.result_len
  <2>1. f.queued + n \in Nat
    BY <1>2, <1>4, <1>9
  <2>. QED  BY <2>1, <1>4, <1>8 DEF Connections
<1> HIDE DEF w
<1>11. /\ more \in Seq(Requests) /\ Len(more) = Len(k.asked) + 1
       /\ DOMAIN more = 1 .. Len(k.asked) + 1 /\ Len(k.asked) \in Nat
       /\ more[Len(more)] = r
       /\ \A j \in 1 .. Len(k.asked) : more[j] = k.asked[j]
       /\ DOMAIN k.asked = 1 .. Len(k.asked)
  BY <1>2, OneMore
<1> HIDE DEF more
<1>12. Number(k.wire, Len(k.wire)) = Len(k.asked)
       /\ ((\A j \in DOMAIN k.asked : k.asked[j] # "unknown") => k.result_len = 0)
  BY <1>1 DEF Answered
<1>13. (\A j \in 1 .. Len(more) - 1 : more[j] # "unknown") => k.result_len = 0
  <2>1. Len(more) - 1 = Len(k.asked)
    BY <1>11
  <2>. QED  BY <2>1, <1>11, <1>12
<1>14. Matched(k.wire, more)
  BY <1>1, <1>2, MatchedAsk DEF more
<1>15. Matched(Append(k.wire, parts[1]), more)
  <2>1. Number(k.wire, Len(k.wire)) + 1 = Len(more)
    BY <1>11, <1>12
  <2>2. (\A j \in 1 .. Len(more) - 1 : more[j] # "unknown") => Fits(parts[1], more[Len(more)])
    BY <1>5, <1>11, <1>13
  <2>. QED  BY <2>1, <2>2, <1>2, <1>8, <1>11, <1>14, MatchedPart
<1>16. n = 2 => Matched(wire, more)
  <2> SUFFICES ASSUME n = 2 PROVE Matched(wire, more)
    OBVIOUS
  <2> DEFINE v == Append(k.wire, parts[1])
  <2>1. v \in Seq(WireParts)
    BY <1>2, <1>8, OneMore
  <2>2. wire = Append(v, parts[2]) /\ parts[2] \in WireParts /\ parts[2].part # "header"
    BY <1>8, <1>9
  <2>3. Matched(v, more)
    BY <1>15
  <2> HIDE DEF v
  <2>4. Matched(Append(v, parts[2]), more)
    BY <2>1, <2>2, <2>3, <1>11, MatchedPart
  <2>. QED  BY <2>2, <2>4
<1>17. Matched(wire, more)
  BY <1>8, <1>9, <1>14, <1>15, <1>16
<1>18. CASE n # Len(parts)
  <2>1. z = tcp_close_client_connection(w, ok, "ERR_MEM")
    BY <1>6, <1>18
  <2>2. ConInv(z)
    BY <2>1, <1>10, <1>17, Closes DEF Errors
  <2>3. z.wire = wire /\ z.armed = FALSE /\ z.sent_len = f.sent_len
    BY <2>1, <1>10 DEF tcp_close_client_connection, Connections
  <2>. QED  BY <2>2, <2>3, <1>4, <1>5, <1>18 DEF Served, wire, parts, z
<1>19. CASE n = Len(parts)
  <2>1. z = [w EXCEPT !.ret = "ERR_OK"]
    BY <1>6, <1>19
  <2>2. /\ z \in Connections /\ z.mem = "live" /\ z.pcb = "open" /\ z.armed
        /\ z.wire = wire /\ z.asked = more /\ z.queued = f.queued + n
        /\ z.sent_len = f.sent_len /\ z.header_len = f.header_len
        /\ z.result_len = f.result_len /\ z.ret = "ERR_OK"
    BY <2>1, <1>10 DEF Connections, Errors
  <2>3. Number(wire, Len(wire)) = Len(more)
    <3> DEFINE v == Append(k.wire, parts[1])
    <3>1. v \in Seq(WireParts) /\ Len(v) = Len(k.wire) + 1
      BY <1>2, <1>8, OneMore
    <3>2. Number(v, Len(v)) = Len(more)
      <4>1. k.wire \in Seq(WireParts) /\ parts[1] \in WireParts /\ parts[1].part = "header"
        BY <1>2, <1>8
      <4>2. Number(v, Len(k.wire) + 1) =
              Number(k.wire, Len(k.wire)) + (IF parts[1].part = "header" THEN 1 ELSE 0)
        BY <4>1, NumberNext
      <4> HIDE DEF v
      <4>3. Number(v, Len(v)) = Number(k.wire, Len(k.wire)) + 1
        BY <4>1, <4>2, <3>1
      <4>. QED  BY <4>3, <1>11, <1>12
    <3>3. CASE n = 1
      BY <3>2, <3>3, <1>8
    <3>4. CASE n = 2
      <4>1. wire = Append(v, parts[2]) /\ parts[2] \in WireParts /\ parts[2].part # "header"
        BY <3>4, <1>8, <1>9
      <4> HIDE DEF v
      <4>2. Len(wire) = Len(v) + 1
        BY <4>1, <3>1, OneMore
      <4>3. Number(v, Len(v)) \in Nat
        BY <3>2, <1>11
      <4>. QED  BY <4>1, <4>2, <4>3, <3>1, <3>2, NumberNext
    <3>. QED  BY <3>3, <3>4, <1>8, <1>19
  <2>4. (\A j \in DOMAIN more : more[j] # "unknown") => f.result_len = 0
    <3> SUFFICES ASSUME \A j \in DOMAIN more : more[j] # "unknown"
                 PROVE  f.result_len = 0
      OBVIOUS
    <3>1. r # "unknown" /\ \A j \in 1 .. Len(more) - 1 : more[j] # "unknown"
      BY <1>11
    <3>. QED  BY <3>1, <1>4, <1>13
  <2>5. Answered(z)
    BY <2>2, <2>3, <2>4 DEF Answered
  <2>6. Counted(z)
    <3>1. z.asked # <<>>
      BY <2>2, <1>11
    <3>2. ASSUME Len(z.asked) = 1, z.asked[1] \in {"default", "unknown"}
          PROVE  z.sent_len + z.queued = z.header_len + z.result_len
      <4>1. k.asked = <<>> /\ r \in {"default", "unknown"}
        <5>1. Len(more) = 1 /\ more[1] \in {"default", "unknown"}
          BY <3>2, <2>2
        <5>2. Len(k.asked) = 0 /\ r \in {"default", "unknown"}
          BY <5>1, <1>11
        <5>3. k.asked \in Seq(Requests)
          BY <1>2
        <5>. QED  BY <5>2, <5>3
      <4>2. k.result_len = 0 /\ k.queued = 0
        BY <4>1, <1>1 DEF Counted
      <4>3. n = IF r = "default" THEN 1 ELSE 2
        BY <4>1, <4>2, <1>5, <1>19
      <4>. QED  BY <4>1, <4>2, <4>3, <2>2, <1>4
    <3>. QED  BY <3>1, <3>2 DEF Counted
  <2>7. ConInv(z)
    BY <2>2, <2>5, <2>6, <1>17 DEF ConInv, Owned
  <2>. QED  BY <2>2, <2>7, <1>4, <1>5, <1>19 DEF Served, wire, parts, z
<1>. QED  BY <1>18, <1>19

-----------------------------------------------------------------------------
(* The callbacks.                                                          *)

(* The connection on which a callback may run.                             *)
LEMMA Live ==
    ASSUME IInv, NEW c \in Conns, con[c].armed
    PROVE  /\ con[c] \in Connections /\ con[c].mem = "live" /\ con[c].pcb = "open"
           /\ con[c].ret # "ERR_ABRT"
           /\ ConInv(con[c]) /\ Matched(con[c].wire, con[c].asked)
           /\ Answered(con[c]) /\ Counted(con[c])
<1>1. ConInv(con[c])
  BY InvOfEach
<1>. QED  BY <1>1 DEF ConInv, Owned

(* ap_tcp_server_recv_get, on its connection and on the wire.              *)
LEMMA RecvGet ==
    ASSUME IInv, NEW c \in Conns, NEW segment \in Requests \cup {"short"},
           NEW n, NEW ok \in BOOLEAN, ap_tcp_server_recv_get(c, segment, n, ok)
    PROVE  /\ con[c].armed
           /\ \E z, parts : con' = [con EXCEPT ![c] = z] /\ Served(con[c], parts, n, z)
<1> DEFINE r == RequestIn(c, segment)
           text == IF segment = "short" THEN con[c].headers ELSE r
           a == [con[c] EXCEPT !.headers = IF segment = "short" THEN @ ELSE r,
                               !.asked = Append(@, r)]
           z == http_get_generate(a, r, n, ok)
<1>1. con[c].armed /\ n \in 0 .. Len(Answer(a, r))
  BY DEF ap_tcp_server_recv_get, Answer
<1>2. con[c] \in Connections /\ ConInv(con[c])
  BY <1>1, Live
<1>3. r \in Requests
  BY <1>2 DEF RequestIn, Requests
<1>4. a = [con[c] EXCEPT !.headers = text, !.asked = Append(con[c].asked, r)]
  OBVIOUS
<1>5. text \in Requests \cup {"zero", "other", "response"}
  BY <1>2, <1>3 DEF Connections
<1>6. Append(con[c].asked, r) \in Seq(Requests)
  BY <1>2, <1>3 DEF Connections
<1> HIDE DEF r, text, a
<1>7. a \in Connections /\ a.headers = text
  BY <1>2, <1>4, <1>5, <1>6 DEF Connections
<1>8. a = [con[c] EXCEPT !.headers = a.headers, !.asked = Append(con[c].asked, r)]
  BY <1>4, <1>7
<1>9. con' = [con EXCEPT ![c] = z]
  BY DEF ap_tcp_server_recv_get, a, r
<1>10. Served(con[c], Answer(a, r), n, z)
  BY <1>1, <1>2, <1>3, <1>7, <1>8, Serves
<1> HIDE DEF z
<1>. QED  BY <1>1, <1>9, <1>10

(* ap_tcp_server_sent, on its connection; closed as done, a connection     *)
(* whose only answer is one of the server's own has nothing queued.        *)
LEMMA Sent ==
    ASSUME IInv, NEW c \in Conns, NEW len, NEW ok \in BOOLEAN, ap_tcp_server_sent(c, len, ok)
    PROVE  \E z :
           /\ con[c].armed
           /\ con' = [con EXCEPT ![c] = z]
           /\ ConInv(z)
           /\ z.wire = con[c].wire
           /\ ~z.armed /\ Len(con[c].asked) = 1 /\ con[c].asked[1] \in {"default", "unknown"}
                => z.queued = 0
<1> DEFINE k == [con[c] EXCEPT !.sent_len = @ + len, !.queued = @ - len]
           done == AllDone(k)
           z == IF done THEN tcp_close_client_connection(k, ok, "ERR_OK")
                ELSE [k EXCEPT !.ret = "ERR_OK"]
<1>1. con[c].armed /\ len \in 1 .. con[c].queued /\ con' = [con EXCEPT ![c] = z]
  BY DEF ap_tcp_server_sent
<1>2. /\ con[c] \in Connections /\ con[c].mem = "live" /\ con[c].pcb = "open"
      /\ Matched(con[c].wire, con[c].asked) /\ Answered(con[c]) /\ Counted(con[c])
  BY <1>1, Live
<1>3. /\ con[c].sent_len \in Nat /\ con[c].queued \in Nat /\ con[c].asked \in Seq(Requests)
      /\ con[c].header_len \in Nat /\ con[c].result_len \in Nat
  BY <1>2 DEF Connections
<1>4. con[c].sent_len + len \in Nat /\ con[c].queued - len \in Nat /\ con[c].queued # 0
  BY <1>1, <1>3
<1>5. /\ k \in Connections
      /\ k.pcb = "open" /\ k.mem = "live" /\ k.armed
      /\ k.wire = con[c].wire /\ k.asked = con[c].asked
      /\ k.sent_len = con[c].sent_len + len /\ k.queued = con[c].queued - len
      /\ k.header_len = con[c].header_len /\ k.result_len = con[c].result_len
  BY <1>1, <1>2, <1>4 DEF Connections
<1> HIDE DEF k
<1>6. Len(k.asked) = 1 /\ k.asked[1] \in {"default", "unknown"} =>
        k.sent_len + k.queued = k.header_len + k.result_len
  <2> SUFFICES ASSUME Len(con[c].asked) = 1, con[c].asked[1] \in {"default", "unknown"}
               PROVE  k.sent_len + k.queued = k.header_len + k.result_len
    BY <1>5
  <2>1. con[c].sent_len + con[c].queued = con[c].header_len + con[c].result_len
    BY <1>2 DEF Counted
  <2>2. len \in Nat
    BY <1>1, <1>3
  <2>. QED  BY <2>1, <2>2, <1>3, <1>5
<1>7. k.asked # <<>>
  BY <1>2, <1>4, <1>5 DEF Counted
<1>8. CASE done
  <2>1. z = tcp_close_client_connection(k, ok, "ERR_OK")
    BY <1>8
  <2>2. ConInv(z)
    BY <2>1, <1>2, <1>5, Closes DEF Errors
  <2>3. z.wire = k.wire /\ z.queued = k.queued
    BY <2>1, <1>5 DEF tcp_close_client_connection, Connections
  <2>4. Len(k.asked) = 1 /\ k.asked[1] \in {"default", "unknown"} => k.queued = 0
    BY <1>3, <1>4, <1>5, <1>6, <1>8 DEF AllDone
  <2> HIDE DEF z
  <2>. QED  BY <2>2, <2>3, <2>4, <1>1, <1>5
<1>9. CASE ~done
  <2>1. z = [k EXCEPT !.ret = "ERR_OK"]
    BY <1>9
  <2> HIDE DEF z
  <2>2. /\ z \in Connections
        /\ z.pcb = "open" /\ z.mem = "live" /\ z.armed /\ z.ret = "ERR_OK"
        /\ z.wire = k.wire /\ z.asked = k.asked
        /\ z.sent_len = k.sent_len /\ z.queued = k.queued
        /\ z.header_len = k.header_len /\ z.result_len = k.result_len
    BY <2>1, <1>5 DEF Connections, Errors
  <2>3. Answered(z)
    BY <2>2, <1>2, <1>5 DEF Answered
  <2>4. Counted(z)
    BY <2>2, <1>6, <1>7 DEF Counted
  <2>5. Matched(z.wire, z.asked)
    BY <2>2, <1>2, <1>5
  <2>6. ConInv(z)
    BY <2>2, <2>3, <2>4, <2>5 DEF ConInv, Owned
  <2>. QED  BY <2>2, <2>6, <1>1, <1>5
<1>. QED  BY <1>8, <1>9

(* The ways a callback may change its connection c into z: a new one in an *)
(* unused slot, an answer, or neither.                                     *)
Change(c, z) ==
    \/ ~con[c].armed /\ z.wire = <<>>
    \/ con[c].armed /\ \E parts, n : Served(con[c], parts, n, z)
    \/ /\ con[c].armed
       /\ z.wire = con[c].wire
       /\ (/\ ~z.armed /\ z.sent_len > con[c].sent_len
           /\ Len(con[c].asked) = 1 /\ con[c].asked[1] \in {"default", "unknown"})
                => z.queued = 0

(* Every callback of picow_access_point.c changes one connection, in one   *)
(* of these ways, and leaves it right.                                     *)
LEMMA Callback ==
    ASSUME IInv, Next
    PROVE  \E c \in Conns : \E z :
                con' = [con EXCEPT ![c] = z] /\ ConInv(z) /\ Change(c, z)
<1> DEFINE Goal == \E c \in Conns : \E z :
                con' = [con EXCEPT ![c] = z] /\ ConInv(z) /\ Change(c, z)
<1>1. con \in [Conns -> Connections] /\ \A c \in Conns : ConInv(con[c])
  BY InvOfEach
<1>2. ASSUME NEW c \in Conns, tcp_server_accept(c)
      PROVE  Goal
  <2>1. ~con[c].armed
    BY <1>1, <1>2 DEF tcp_server_accept, ConInv, Owned
  <2>2. CASE con' = [con EXCEPT ![c] =
                    [NoCon EXCEPT !.pcb = "open", !.mem = "live", !.armed = TRUE]]
    <3> DEFINE z == [NoCon EXCEPT !.pcb = "open", !.mem = "live", !.armed = TRUE]
    <3>1. ConInv(z) /\ z.wire = <<>>
      BY Fresh DEF NoCon
    <3> HIDE DEF z
    <3>2. con' = [con EXCEPT ![c] = z]
      BY <2>2 DEF z
    <3>. QED  BY <2>1, <3>1, <3>2 DEF Change
  <2>3. ASSUME NEW err \in {"ERR_MEM", "ERR_VAL"},
               con' = [con EXCEPT ![c] = [NoCon EXCEPT !.ret = err]]
        PROVE  Goal
    <3> DEFINE z == [NoCon EXCEPT !.ret = err]
    <3>1. ConInv(z) /\ z.wire = <<>>
      BY Fresh DEF NoCon, Errors
    <3> HIDE DEF z
    <3>2. con' = [con EXCEPT ![c] = z]
      BY <2>3 DEF z
    <3>. QED  BY <2>1, <3>1, <3>2 DEF Change
  <2>. QED  BY <1>2, <2>2, <2>3 DEF tcp_server_accept
<1>3. ASSUME NEW c \in Conns, NEW ok \in BOOLEAN,
             ap_tcp_server_recv_fin(c, ok) \/ ap_tcp_server_poll(c, ok)
      PROVE  Goal
  <2> DEFINE z == tcp_close_client_connection(con[c], ok, "ERR_OK")
  <2>1. con[c].armed /\ con' = [con EXCEPT ![c] = z]
    BY <1>3 DEF ap_tcp_server_recv_fin, ap_tcp_server_poll
  <2>2. ConInv(z)
    BY <2>1, Live, Closes DEF Errors
  <2>3. con[c] \in Connections /\ con[c].sent_len \in Nat
    BY <1>1 DEF Connections
  <2>4. z.wire = con[c].wire /\ z.sent_len = con[c].sent_len
    BY <2>3 DEF tcp_close_client_connection, Connections
  <2> HIDE DEF z
  <2>5. ~(z.sent_len > con[c].sent_len)
    BY <2>3, <2>4
  <2>6. Change(c, z)
    BY <2>1, <2>4, <2>5 DEF Change
  <2>. QED  BY <2>1, <2>2, <2>6
<1>4. ASSUME NEW c \in Conns, NEW ok \in BOOLEAN, NEW segment \in Requests \cup {"short"},
             NEW n, ap_tcp_server_recv_get(c, segment, n, ok)
      PROVE  Goal
  <2>1. PICK z, parts : con' = [con EXCEPT ![c] = z] /\ Served(con[c], parts, n, z)
    BY <1>4, RecvGet
  <2>2. con[c].armed
    BY <1>4, RecvGet
  <2>3. ConInv(z) /\ Change(c, z)
    BY <2>1, <2>2 DEF Change, Served
  <2>. QED  BY <2>1, <2>3
<1>5. ASSUME NEW c \in Conns, NEW ok \in BOOLEAN, NEW len, ap_tcp_server_sent(c, len, ok)
      PROVE  Goal
  <2>1. PICK z :
           /\ con[c].armed
           /\ con' = [con EXCEPT ![c] = z]
           /\ ConInv(z)
           /\ z.wire = con[c].wire
           /\ ~z.armed /\ Len(con[c].asked) = 1 /\ con[c].asked[1] \in {"default", "unknown"}
                => z.queued = 0
    BY <1>5, Sent
  <2>2. Change(c, z)
    BY <2>1 DEF Change
  <2>. QED  BY <2>1, <2>2
<1>6. ASSUME NEW c \in Conns, ap_tcp_server_recv_other(c)
      PROVE  Goal
  <2>1. PICK text \in {con[c].headers, "other"} :
            con' = [con EXCEPT ![c].headers = text, ![c].ret = "ERR_OK"]
    BY <1>6 DEF ap_tcp_server_recv_other
  <2> DEFINE z == [con[c] EXCEPT !.headers = text, !.ret = "ERR_OK"]
  <2>2. con' = [con EXCEPT ![c] = z]
    BY <2>1, <1>1
  <2>3. con[c].armed /\ con[c] \in Connections
    BY <1>6, <1>1 DEF ap_tcp_server_recv_other
  <2>4. text \in Requests \cup {"zero", "other", "response"}
    BY <2>3 DEF Connections
  <2>5. /\ z \in Connections
        /\ z.pcb = con[c].pcb /\ z.mem = con[c].mem /\ z.armed = con[c].armed
        /\ z.wire = con[c].wire /\ z.asked = con[c].asked /\ z.ret = "ERR_OK"
        /\ z.sent_len = con[c].sent_len /\ z.queued = con[c].queued
        /\ z.header_len = con[c].header_len /\ z.result_len = con[c].result_len
    BY <2>3, <2>4 DEF Connections, Errors
  <2> HIDE DEF z
  <2>6. Answered(z) /\ Counted(z) /\ Matched(z.wire, z.asked)
    BY <2>3, <2>5, Live DEF Answered, Counted
  <2>7. ConInv(z)
    BY <2>3, <2>5, <2>6, Live DEF ConInv, Owned
  <2>8. Change(c, z)
    BY <2>3, <2>5 DEF Change
  <2>. QED  BY <2>2, <2>7, <2>8
<1>7. ASSUME NEW c \in Conns, NEW err \in {"ERR_ABRT", "ERR_RST"}, NEW ok \in BOOLEAN,
             ap_tcp_server_err(c, err, ok)
      PROVE  Goal
  <2> DEFINE k == IF err = "ERR_ABRT"
                  THEN [con[c] EXCEPT !.pcb = "gone", !.mem = "lost", !.armed = FALSE]
                  ELSE tcp_close_client_connection(con[c], ok, err)
             z == [k EXCEPT !.ret = "void"]
  <2>1. con[c].armed /\ con' = [con EXCEPT ![c] = z]
    BY <1>7 DEF ap_tcp_server_err
  <2>2. con[c] \in Connections /\ con[c].sent_len \in Nat
    BY <1>1 DEF Connections
  <2>3. /\ k \in Connections
        /\ k.pcb # "open" /\ k.mem # "live" /\ k.armed = FALSE
        /\ k.wire = con[c].wire /\ k.asked = con[c].asked /\ k.sent_len = con[c].sent_len
    <3>1. CASE err = "ERR_ABRT"
      BY <3>1, <2>2 DEF Connections
    <3>2. CASE err # "ERR_ABRT"
      <4>1. ConInv(k) /\ k = tcp_close_client_connection(con[c], ok, err)
        BY <3>2, <2>1, Live, Closes DEF Errors
      <4>2. /\ k.armed = FALSE /\ k.wire = con[c].wire /\ k.asked = con[c].asked
            /\ k.sent_len = con[c].sent_len
        BY <4>1, <2>2 DEF tcp_close_client_connection, Connections
      <4> HIDE DEF k
      <4>. QED  BY <4>1, <4>2 DEF ConInv, Owned
    <3>. QED  BY <3>1, <3>2
  <2> HIDE DEF k
  <2>4. /\ z \in Connections /\ z.ret = "void"
        /\ z.pcb = k.pcb /\ z.mem = k.mem /\ z.armed = k.armed
        /\ z.wire = k.wire /\ z.asked = k.asked /\ z.sent_len = k.sent_len
    BY <2>3 DEF Connections
  <2> HIDE DEF z
  <2>5. Matched(z.wire, z.asked)
    BY <2>1, <2>3, <2>4, Live
  <2>6. ConInv(z)
    BY <2>3, <2>4, <2>5 DEF ConInv, Owned
  <2>7. ~(z.sent_len > con[c].sent_len)
    BY <2>2, <2>3, <2>4
  <2>8. Change(c, z)
    BY <2>1, <2>3, <2>4, <2>7 DEF Change
  <2>. QED  BY <2>1, <2>6, <2>8
<1> HIDE DEF Goal
<1>8. Goal
  BY <1>2, <1>3, <1>4, <1>5, <1>6, <1>7 DEF Next
<1>. QED  BY <1>8 DEF Goal

-----------------------------------------------------------------------------
(* Invariants.                                                             *)

(* Before the first callback no connection exists.                         *)
LEMMA Start == Init => IInv
<1> SUFFICES ASSUME Init PROVE IInv
  OBVIOUS
<1>1. NoCon = [NoCon EXCEPT !.ret = "ERR_OK"]
  BY DEF NoCon
<1>2. ConInv(NoCon)
  BY <1>1, Fresh DEF Errors
<1>3. NoCon \in Connections
  BY <1>2 DEF ConInv
<1>4. con \in [Conns -> Connections] /\ \A c \in Conns : con[c] = NoCon
  BY <1>3 DEF Init
<1>. QED  BY <1>2, <1>4, InvOfEach

(* Every callback keeps the invariant.                                     *)
LEMMA Step == IInv /\ [Next]_con => IInv'
<1> SUFFICES ASSUME IInv, [Next]_con PROVE IInv'
  OBVIOUS
<1>1. CASE Next
  BY <1>1, Callback, OneConnection
<1>2. CASE UNCHANGED con
  BY <1>2 DEF IInv, CallbacksOwnState, TypeOK, AbortReported, AnswersMatch, AllAnswered,
              FirstCounted
<1>. QED  BY <1>1, <1>2

(* The inductive invariant of the access point's connections.              *)
THEOREM Invariance == Spec => []IInv
  BY Start, Step, PTL DEF Spec, Safety

(* No callback runs on a connection state that is freed, none is freed     *)
(* twice or kept, for every number of connections.                         *)
THEOREM OwnState == Spec => []CallbacksOwnState
<1>1. IInv => CallbacksOwnState
  BY DEF IInv
<1>. QED  BY <1>1, Invariance, PTL

(* A callback that has a result returns ERR_ABRT exactly when it aborted   *)
(* the pcb.                                                                *)
THEOREM AbortsReported == Spec => []AbortReported
<1>1. IInv => AbortReported
  BY DEF IInv
<1>. QED  BY <1>1, Invariance, PTL

(* Answers come in the order of the requests, right up to and including    *)
(* the first "not found".                                                  *)
THEOREM AnswersRight == Spec => []AnswersMatch
<1>1. IInv => AnswersMatch
  BY DEF IInv
<1>. QED  BY <1>1, Invariance, PTL

(* A redirect or "not found" that is the only answer of its connection is  *)
(* acknowledged whole before ap_tcp_server_sent closes it as done.         *)
THEOREM Delivered == Spec => OwnResponseDelivered
<1> DEFINE D == \A c \in Conns :
        (ClosedAsDone(c) /\ Len(con[c].asked) = 1
            /\ con[c].asked[1] \in {"default", "unknown"}) => con'[c].queued = 0
<1>1. IInv /\ [Next]_con => [D]_con
  <2> SUFFICES ASSUME IInv, Next, NEW d \in Conns, ClosedAsDone(d), Len(con[d].asked) = 1,
                      con[d].asked[1] \in {"default", "unknown"}
               PROVE  con'[d].queued = 0
    OBVIOUS
  <2>1. con \in [Conns -> Connections]
    BY InvOfEach
  <2>a. PICK c \in Conns :
            \E z : con' = [con EXCEPT ![c] = z] /\ ConInv(z) /\ Change(c, z)
    BY Callback
  <2>2. PICK z : con' = [con EXCEPT ![c] = z] /\ ConInv(z) /\ Change(c, z)
    BY <2>a
  <2>3. con[d].armed /\ ~con'[d].armed /\ con'[d].sent_len > con[d].sent_len
    BY DEF ClosedAsDone
  <2>4. CASE c # d
    BY <2>1, <2>2, <2>3, <2>4
  <2>5. CASE c = d
    <3>1. con'[d] = z
      BY <2>1, <2>2, <2>5
    <3>2. con[d].sent_len \in Nat /\ z.sent_len \in Nat
      BY <2>1, <2>2 DEF ConInv, Connections
    <3>3. ~(z.sent_len <= con[d].sent_len)
      BY <3>1, <3>2, <2>3
    <3>. QED  BY <3>1, <3>3, <2>2, <2>3, <2>5 DEF Change, Served
  <2>. QED  BY <2>4, <2>5
<1>. QED  BY <1>1, Invariance, PTL DEF Spec, Safety, OwnResponseDelivered

-----------------------------------------------------------------------------
(* Refinement.                                                             *)

(* What HttpConnection sees of one wire, and of all of them.               *)
Out(wire) ==
    [i \in DOMAIN wire |-> IF wire[i].status = 302 THEN "redirect" ELSE wire[i].part]
Opened == {c \in Conns : con[c].pcb = "open"}
Sends == [c \in Conns |-> Out(con[c].wire)]

(* An empty wire shows nothing.                                            *)
LEMMA OutEmpty == Out(<<>>) = <<>>
  BY DEF Out

(* A response is one of the abstract ones.                                 *)
LEMMA OutResponse ==
    ASSUME NEW parts, Response(parts)
    PROVE  /\ Out(parts) \in {<<"redirect">>, <<"header", "body">>}
           /\ Len(Out(parts)) = Len(parts)
<1>1. PICK h \in WireParts, b \in WireParts :
        /\ h.part = "header" /\ b.part = "body" /\ b.status # 302
        /\ \/ parts = <<h>> /\ h.status = 302
           \/ parts = <<h, b>> /\ h.status # 302
  BY DEF Response
<1>2. CASE parts = <<h>> /\ h.status = 302
  <2>1. Out(parts) = <<"redirect">>
    BY <1>2 DEF Out
  <2>. QED  BY <1>2, <2>1
<1>3. CASE parts = <<h, b>> /\ h.status # 302
  <2>1. Out(parts) = <<"header", "body">>
    BY <1>1, <1>3 DEF Out
  <2>. QED  BY <1>3, <2>1
<1>. QED  BY <1>1, <1>2, <1>3

(* Abstract parts, one for each part on the wire.                          *)
LEMMA OutType ==
    ASSUME NEW wire \in Seq(WireParts)
    PROVE  /\ Out(wire) \in Seq({"redirect", "header", "body"})
           /\ Len(Out(wire)) = Len(wire)
           /\ \A i \in 1 .. Len(wire) :
                Out(wire)[i] = IF wire[i].status = 302 THEN "redirect" ELSE wire[i].part
<1>1. \A i \in DOMAIN wire : wire[i].part \in {"header", "body"}
  <2>1. \A i \in DOMAIN wire : wire[i] \in WireParts
    OBVIOUS
  <2>. QED  BY <2>1 DEF WireParts
<1>2. DOMAIN wire = 1 .. Len(wire) /\ Len(wire) \in Nat
  OBVIOUS
<1>. QED  BY <1>1, <1>2 DEF Out

(* What is written shows as the same number of abstract parts.             *)
LEMMA OutAfter ==
    ASSUME NEW wire \in Seq(WireParts), NEW parts, Response(parts), NEW n \in 0 .. Len(parts)
    PROVE  Out(wire \o SubSeq(parts, 1, n)) = Out(wire) \o SubSeq(Out(parts), 1, n)
<1> DEFINE S == {"redirect", "header", "body"}
           F(p) == IF p.status = 302 THEN "redirect" ELSE p.part
           sub == SubSeq(parts, 1, n)
           osub == SubSeq(Out(parts), 1, n)
           owire == Out(wire)
           new == wire \o sub
           onew == owire \o osub
<1>1. parts \in Seq(WireParts) /\ Len(parts) \in Nat /\ n \in Nat /\ n <= Len(parts)
  <2>1. parts \in Seq(WireParts)
    BY WireAfter
  <2>. QED  BY <2>1
<1>2. /\ sub \in Seq(WireParts) /\ Len(sub) = n
      /\ \A i \in 1 .. n : sub[i] = parts[i]
  BY <1>1
<1>3. /\ Out(parts) \in Seq(S) /\ Len(Out(parts)) = Len(parts)
      /\ \A i \in 1 .. Len(parts) : Out(parts)[i] = F(parts[i])
  BY <1>1, OutType
<1>4. /\ osub \in Seq(S) /\ Len(osub) = n
      /\ \A i \in 1 .. n : osub[i] = Out(parts)[i]
  BY <1>1, <1>3
<1>5. /\ owire \in Seq(S) /\ Len(owire) = Len(wire)
      /\ \A i \in 1 .. Len(wire) : owire[i] = F(wire[i])
  BY OutType
<1> HIDE DEF sub, osub, owire, S, F
<1>6. /\ new \in Seq(WireParts) /\ Len(new) = Len(wire) + n
      /\ \A i \in 1 .. Len(wire) + n : new[i] =
            IF i <= Len(wire) THEN wire[i] ELSE sub[i - Len(wire)]
  BY <1>2, ConcatProperties
<1>7. /\ onew \in Seq(S) /\ Len(onew) = Len(wire) + n
      /\ \A i \in 1 .. Len(wire) + n : onew[i] =
            IF i <= Len(wire) THEN owire[i] ELSE osub[i - Len(wire)]
  <2>1. owire \in Seq(S) /\ osub \in Seq(S)
    BY <1>4, <1>5
  <2>2. /\ onew \in Seq(S) /\ Len(onew) = Len(owire) + Len(osub)
        /\ \A i \in 1 .. Len(owire) + Len(osub) : onew[i] =
                IF i <= Len(owire) THEN owire[i] ELSE osub[i - Len(owire)]
    BY <2>1, ConcatProperties
  <2> HIDE DEF onew
  <2>3. Len(owire) = Len(wire) /\ Len(osub) = n
    BY <1>4, <1>5
  <2>. QED  BY <2>2, <2>3
<1> HIDE DEF new, onew
<1>8. /\ Out(new) \in Seq(S) /\ Len(Out(new)) = Len(wire) + n
      /\ \A i \in 1 .. Len(wire) + n : Out(new)[i] = F(new[i])
  BY <1>6, OutType DEF S, F
<1>9. ASSUME NEW i \in 1 .. Len(wire) + n
      PROVE  Out(new)[i] = onew[i]
  <2>1. i \in Nat /\ Len(wire) \in Nat
    BY <1>1
  <2>2. CASE i <= Len(wire)
    <3>1. i \in 1 .. Len(wire)
      BY <2>1, <2>2
    <3>. QED  BY <3>1, <2>2, <1>5, <1>6, <1>7, <1>8
  <2>3. CASE ~(i <= Len(wire))
    <3> DEFINE j == i - Len(wire)
    <3>1. j \in 1 .. n /\ j \in 1 .. Len(parts)
      BY <2>1, <2>3, <1>1
    <3>2. new[i] = sub[j] /\ onew[i] = osub[j]
      BY <2>3, <1>6, <1>7
    <3>3. sub[j] = parts[j] /\ osub[j] = Out(parts)[j] /\ Out(parts)[j] = F(parts[j])
      BY <3>1, <1>2, <1>3, <1>4
    <3> HIDE DEF j
    <3>. QED  BY <3>2, <3>3, <1>8
  <2>. QED  BY <2>2, <2>3
<1>10. Out(new) = onew
  BY <1>7, <1>8, <1>9, SeqEqual
<1>. QED  BY <1>10 DEF new, onew, sub, osub, owire

(* Initially nothing is open and nothing was sent.                         *)
LEMMA StartsClosed == Init => Http!Init
<1> SUFFICES ASSUME Init PROVE Http!Init
  OBVIOUS
<1>1. \A c \in Conns : con[c].pcb = "none" /\ con[c].wire = <<>>
  BY DEF Init, NoCon
<1>2. Opened = {}
  BY <1>1 DEF Opened
<1>3. Sends = [c \in Conns |-> <<>>]
  BY <1>1, OutEmpty DEF Sends
<1>. QED  BY <1>2, <1>3 DEF Http!Init, Opened, Sends, Out

(* Every callback is a step of HttpConnection, or none of its business.    *)
LEMMA Simulates == IInv /\ [Next]_con => [Http!Next]_(Http!vars)
<1>1. ASSUME UNCHANGED con PROVE UNCHANGED Http!vars
  BY <1>1 DEF Http!vars
<1>2. ASSUME IInv, Next PROVE [Http!Next]_(Http!vars)
  <2>1. con \in [Conns -> Connections] /\ \A d \in Conns : ConInv(con[d])
    BY <1>2, InvOfEach
  <2>a. PICK c \in Conns :
            \E z : con' = [con EXCEPT ![c] = z] /\ ConInv(z) /\ Change(c, z)
    BY <1>2, Callback
  <2>2. PICK z : con' = [con EXCEPT ![c] = z] /\ ConInv(z) /\ Change(c, z)
    BY <2>a
  <2>3. \A d \in Conns : con'[d] = IF d = c THEN z ELSE con[d]
    BY <2>1, <2>2
  <2>4. /\ z.armed <=> z.pcb = "open"
        /\ con[c].armed <=> con[c].pcb = "open"
        /\ con[c].wire \in Seq(WireParts)
    BY <2>1, <2>2 DEF ConInv, Owned, Connections
  <2>5. Opened' = IF z.armed THEN Opened \cup {c} ELSE Opened \ {c}
    BY <2>3, <2>4 DEF Opened
  <2>6. Sends' = [Sends EXCEPT ![c] = Out(z.wire)]
    BY <2>3 DEF Sends
  <2>7. (c \in Opened <=> con[c].armed) /\ Sends[c] = Out(con[c].wire)
    BY <2>4 DEF Opened, Sends
  <2>8. CASE ~con[c].armed /\ z.wire = <<>>
    <3>1. c \notin Opened /\ Sends' = [Sends EXCEPT ![c] = <<>>]
      BY <2>6, <2>7, <2>8, OutEmpty
    <3>2. CASE z.armed
      <4>1. Opened' = Opened \cup {c}
        BY <2>5, <3>2
      <4>2. Http!Open(c)
        BY <3>1, <4>1 DEF Http!Open, Opened, Sends, Out
      <4>. QED  BY <4>2 DEF Http!Next
    <3>3. CASE ~z.armed
      <4>1. Opened' = Opened
        BY <2>5, <3>1, <3>3
      <4>2. Http!Refuse(c)
        BY <3>1, <4>1 DEF Http!Refuse, Opened, Sends, Out
      <4>. QED  BY <4>2 DEF Http!Next
    <3>. QED  BY <3>2, <3>3
  <2>9. ASSUME con[c].armed, NEW parts, NEW n, Served(con[c], parts, n, z)
        PROVE  [Http!Next]_(Http!vars)
    <3> DEFINE r == Out(parts)
    <3>1. Response(parts) /\ n \in 0 .. Len(parts) /\ (z.armed <=> n = Len(parts))
      BY <2>9 DEF Served
    <3>2. Out(z.wire) = Sends[c] \o SubSeq(r, 1, n)
      <4>1. z.wire = con[c].wire \o SubSeq(parts, 1, n)
        BY <2>9 DEF Served
      <4>2. Out(con[c].wire \o SubSeq(parts, 1, n)) =
              Out(con[c].wire) \o SubSeq(Out(parts), 1, n)
        BY <3>1, <2>4, OutAfter
      <4>. QED  BY <4>1, <4>2, <2>7
    <3>3. r \in {<<"redirect">>, <<"header", "body">>} /\ Len(r) = Len(parts)
      BY <3>1, OutResponse
    <3>4. r \in Http!Responses /\ SubSeq(r, 1, Len(r)) = r
      BY <3>3 DEF Http!Responses
    <3> HIDE DEF r
    <3>5. c \in Opened
      BY <2>7, <2>9
    <3>6. CASE z.armed
      <4>1. Opened' = Opened
        BY <2>5, <3>5, <3>6
      <4>2. Sends' = [Sends EXCEPT ![c] = Sends[c] \o r]
        BY <2>6, <3>1, <3>2, <3>3, <3>4, <3>6
      <4>3. Http!Answer(c)
        BY <3>4, <3>5, <4>1, <4>2 DEF Http!Answer, Opened, Sends, Out
      <4>. QED  BY <4>3 DEF Http!Next
    <3>7. CASE ~z.armed
      <4>1. Opened' = Opened \ {c}
        BY <2>5, <3>7
      <4>2. Sends' = [Sends EXCEPT ![c] = Sends[c] \o SubSeq(r, 1, n)]
        BY <2>6, <3>2
      <4>3. n \in 0 .. Len(r) - 1
        <5> DEFINE m == Len(parts)
        <5>1. n \in 0 .. m /\ n # m /\ m \in Nat /\ Len(r) = m
          BY <3>1, <3>3, <3>7, WireAfter
        <5> HIDE DEF m
        <5>. QED  BY <5>1
      <4>4. Http!End(c)
        BY <3>4, <3>5, <4>1, <4>2, <4>3 DEF Http!End, Opened, Sends, Out
      <4>. QED  BY <4>4 DEF Http!Next
    <3>. QED  BY <3>6, <3>7
  <2>10. CASE con[c].armed /\ z.wire = con[c].wire
    <3>1. Sends' = Sends /\ c \in Opened
      BY <2>6, <2>7, <2>10 DEF Sends
    <3>2. CASE z.armed
      <4>1. Opened' = Opened
        BY <2>5, <3>1, <3>2
      <4>. QED  BY <3>1, <4>1 DEF Http!vars, Opened, Sends, Out
    <3>3. CASE ~z.armed
      <4> DEFINE r == <<"redirect">>
      <4>1. Opened' = Opened \ {c}
        BY <2>5, <3>3
      <4>2. r \in Http!Responses /\ 0 \in 0 .. Len(r) - 1
        BY DEF Http!Responses
      <4>3. Sends[c] = Sends[c] \o SubSeq(r, 1, 0)
        BY <2>4, <2>7, OutType
      <4>4. Sends' = [Sends EXCEPT ![c] = Sends[c] \o SubSeq(r, 1, 0)]
        BY <3>1, <4>3 DEF Sends
      <4> HIDE DEF r
      <4>5. Http!End(c)
        BY <3>1, <4>1, <4>2, <4>4 DEF Http!End, Opened, Sends, Out
      <4>. QED  BY <4>5 DEF Http!Next
    <3>. QED  BY <3>2, <3>3
  <2>. QED  BY <2>2, <2>8, <2>9, <2>10 DEF Change
<1>. QED  BY <1>1, <1>2

(* The access point's web server implements HttpConnection, up to fairness:*)
(* whole responses in sequence, a cut one only as the last thing a         *)
(* connection carries, whichever writes fail.                              *)
THEOREM Implements == Spec => Http!Safety
  BY StartsClosed, Simulates, Invariance, PTL DEF Spec, Safety, Http!Safety

=============================================================================
