--------------------------- MODULE ParsersProofs ----------------------------
(***************************************************************************)
(* Theorems about the pieces of code that walk over bytes from outside.    *)
(* DnsServer: for every size of buffer, header and limits that satisfies   *)
(* SizesAssumption, the reply fits the buffer it is built in, a datagram   *)
(* that was shortened is refused for the length of its question, and a     *)
(* started server answers with its own address.  RequestText: for every    *)
(* request and whatever the buffer holds behind it, the URL is split where *)
(* it should be.  HtmlHelper: for every input, newlines are replaced and   *)
(* what is written is what was counted and a NUL.  DhcpOptions: for every  *)
(* message of whole options, the first with a code is found, and a reply   *)
(* written over it reads back.                                             *)
(***************************************************************************)
EXTENDS MCParsers, SequenceTheorems, WellFoundedInduction, TLAPS

-----------------------------------------------------------------------------
(* The DNS server.                                                         *)

(* A bound socket whose initialisation is over has its address, and only a *)
(* bound socket gets queries.                                              *)
AddressStored ==
    /\ main = "bind" => udp = "unbound"
    /\ pc # "idle" => udp = "bound"
    /\ udp = "bound" /\ main = "idle" => ip = "gw"

(* What makes the properties inductive: the length looked at is that of    *)
(* the datagram, cut to the buffer, and the address is stored.             *)
IInv == TypeOK /\ msg_len = Copied(len) /\ ReplyFits /\ AddressStored

(* dnsserver.c as it starts.                                               *)
LEMMA InitIInv == Init => IInv
BY SizesAssumption DEF Init, IInv, AddressStored, TypeOK, ReplyFits, NoReply, Copied

(* A reply that is sent fits: the limit on the question leaves room.       *)
LEMMA ReplyType ==
    ASSUME TypeOK, ~TooLong
    PROVE  /\ Reply \in [sent : BOOLEAN, ip : {"zero", "gw"}, size : Nat, whole : BOOLEAN]
           /\ Reply.size <= MAX_DNS_MSG_SIZE
BY SizesAssumption DEF TypeOK, TooLong, Reply

(* Each step of the program and of dns_server_process keeps the invariant. *)
LEMMA NextIInv == IInv /\ [Next]_vars => IInv'
<1> SUFFICES ASSUME IInv, [Next]_vars PROVE IInv'
  OBVIOUS
<1> USE SizesAssumption, LengthsAssumption
<1>1. CASE dns_socket_new_dgram
  BY <1>1 DEF dns_socket_new_dgram, IInv, AddressStored, TypeOK, ReplyFits, Copied
<1>2. CASE dns_socket_bind
  BY <1>2 DEF dns_socket_bind, IInv, AddressStored, TypeOK, ReplyFits, Copied
<1>3. CASE dns_server_init
  BY <1>3 DEF dns_server_init, IInv, AddressStored, TypeOK, ReplyFits, Copied
<1>4. CASE dns_server_deinit
  BY <1>4 DEF dns_server_deinit, dns_socket_free, IInv, AddressStored, TypeOK, ReplyFits, Copied
<1>5. ASSUME NEW n \in Lengths, NEW standard \in BOOLEAN, NEW count \in 0 .. 1,
             dns_server_process(n, standard, count)
      PROVE  IInv'
  BY <1>5 DEF dns_server_process, Accepted, NoReply, IInv, AddressStored, TypeOK, ReplyFits, Copied
<1>6. ASSUME NEW b \in Byte, WalkLabel(b)
      PROVE  IInv'
  BY <1>6 DEF WalkLabel, AfterLabel, Byte, IInv, AddressStored, TypeOK, ReplyFits, Copied
<1>7. CASE Answer
  <2>1. /\ reply' \in [sent : BOOLEAN, ip : {"zero", "gw"}, size : Nat, whole : BOOLEAN]
        /\ reply'.size <= MAX_DNS_MSG_SIZE
    <3>1. CASE TooLong
      <4>1. reply' = NoReply
        BY <1>7, <3>1 DEF Answer
      <4> QED BY <4>1 DEF NoReply
    <3>2. CASE ~TooLong
      <4>1. reply' \in {Reply, NoReply}
        BY <1>7, <3>2 DEF Answer, dns_socket_sendto
      <4>2. NoReply.size <= MAX_DNS_MSG_SIZE
        BY DEF NoReply
      <4>3. NoReply \in [sent : BOOLEAN, ip : {"zero", "gw"}, size : Nat, whole : BOOLEAN]
        BY DEF NoReply
      <4> QED BY <3>2, <4>1, <4>2, <4>3, ReplyType DEF IInv
    <3> QED BY <3>1, <3>2
  <2> QED
    BY <1>7, <2>1 DEF Answer, IInv, AddressStored, TypeOK, ReplyFits, Copied
<1>8. CASE UNCHANGED vars
  BY <1>8 DEF vars, IInv, AddressStored, TypeOK, ReplyFits, Copied
<1> QED
  BY <1>1, <1>2, <1>3, <1>4, <1>5, <1>6, <1>7, <1>8 DEF Next

(* The server keeps IInv in every behaviour.                               *)
THEOREM Invariance == Spec => []IInv
BY InitIInv, NextIInv, PTL DEF Spec, Safety

(* Every variable of the server keeps its type, and the walk starts behind *)
(* a complete header.                                                      *)
THEOREM TypeCorrect == Spec => []TypeOK
<1>1. IInv => TypeOK
  BY DEF IInv
<1> QED BY <1>1, Invariance, PTL

(* dns_server_process never builds a reply longer than its buffer.         *)
THEOREM Fits == Spec => []ReplyFits
<1>1. IInv => ReplyFits
  BY DEF IInv
<1> QED BY <1>1, Invariance, PTL

(* A walk that runs off a shortened datagram is refused for its length.    *)
THEOREM CutRefused == Spec => []CutOnlyIfTooLong
<1>1. IInv => CutOnlyIfTooLong
  BY SizesAssumption DEF IInv, TypeOK, CutOnlyIfTooLong, Copied, TooLong
<1> QED BY <1>1, Invariance, PTL

(* Once dns_server_init is over, every answer that dns_socket_sendto sends *)
(* carries the address it stored.                                          *)
THEOREM AddressGiven == Spec => AddressOnceStarted
<1>1. IInv /\ [Next]_vars =>
        [reply' # reply /\ reply'.sent /\ main = "idle" => reply'.ip = "gw"]_vars
  <2> SUFFICES ASSUME IInv, Next, reply' # reply, reply'.sent, main = "idle"
               PROVE  reply'.ip = "gw"
    BY DEF vars
  <2>1. Answer
    <3>1. ~NoReply.sent
      BY DEF NoReply
    <3> QED
      BY <3>1 DEF Next, dns_socket_new_dgram, dns_socket_bind, dns_server_init,
                  dns_server_deinit, dns_server_process, WalkLabel
  <2>2. reply' = Reply
    BY <2>1 DEF Answer, dns_socket_sendto, NoReply
  <2> QED
    BY <2>1, <2>2 DEF Answer, WalkOver, Reply, IInv, AddressStored
<1> QED BY <1>1, Invariance, PTL DEF Spec, Safety, AddressOnceStarted

-----------------------------------------------------------------------------
(* Searching in a text.                                                    *)

First(s, c) == Text!find_first_index(s, c)

(* A set of numbers that is not empty has a least one.                     *)
LEMMA Least ==
    ASSUME NEW T, T \subseteq Nat, T # {}
    PROVE  \E x \in T : \A y \in T : x <= y
<1> DEFINE R == OpToRel(<, Nat)
<1>1. IsWellFoundedOn(R, Nat)
    BY NatLessThanWellFounded
<1>2. \A a, b \in Nat : a < b => <<a, b>> \in R
    BY DEF OpToRel
<1> HIDE DEF R
<1>3. PICK x \in T : \A y \in T : ~(<<y, x>> \in R)
    BY <1>1, WFMin
<1>4. ASSUME NEW y \in T PROVE x <= y
    <2>1. x \in Nat /\ y \in Nat /\ ~(y < x)
        BY <1>2, <1>3
    <2> QED BY <2>1
<1> QED BY <1>4

(* A set of numbers with 0, and with n + 1 whenever it has n, has them all.*)
LEMMA Induct ==
    ASSUME NEW T, 0 \in T, \A n \in Nat : n \in T => n + 1 \in T
    PROVE  \A n \in Nat : n \in T
<1> DEFINE U == {n \in Nat : n \notin T}
<1> SUFFICES ASSUME U # {} PROVE FALSE
    OBVIOUS
<1>1. U \subseteq Nat
    OBVIOUS
<1>2. PICK x \in U : \A y \in U : x <= y
    <2> HIDE DEF U
    <2> QED BY <1>1, Least
<1>3. x \in Nat /\ x # 0 /\ x \notin T
    OBVIOUS
<1>4. x - 1 \in Nat /\ ~(x <= x - 1) /\ (x - 1) + 1 = x
    BY <1>3
<1>5. x - 1 \in T
    BY <1>2, <1>4
<1> QED BY <1>3, <1>4, <1>5

(* find_first_index returns the first place of the character, or the one   *)
(* behind the end.                                                         *)
LEMMA FirstIs ==
    ASSUME NEW S, NEW s \in Seq(S), NEW c
    PROVE  /\ First(s, c) \in 1 .. Len(s) + 1 /\ First(s, c) \in Nat
           /\ First(s, c) <= Len(s) => s[First(s, c)] = c
           /\ \A k \in 1 .. Len(s) : k < First(s, c) => s[k] # c
<1> DEFINE T == {k \in 1 .. Len(s) : s[k] = c}
           f == CHOOSE k \in T : \A m \in T : k <= m
<1>1. First(s, c) = IF T = {} THEN Len(s) + 1 ELSE f
    BY DEF First, Text!find_first_index
<1>2. Len(s) \in Nat
    BY LenProperties
<1>3. CASE T = {}
    BY <1>1, <1>2, <1>3
<1>4. CASE T # {}
    <2>1. T \subseteq Nat
        BY <1>2
    <2>2. \E x \in T : \A y \in T : x <= y
        <3> HIDE DEF T
        <3> QED BY <1>4, <2>1, Least
    <2>3. f \in T /\ \A m \in T : f <= m
        BY <2>2
    <2>4. First(s, c) = f
        BY <1>1, <1>4
    <2> HIDE DEF f
    <2>5. f \in 1 .. Len(s) /\ s[f] = c
        BY <2>3
    <2>6. ASSUME NEW k \in 1 .. Len(s), k < f PROVE s[k] # c
        <3>1. k \in Int /\ f \in Int /\ ~(f <= k)
            BY <1>2, <2>5, <2>6
        <3> QED BY <2>3, <3>1
    <2>7. f \in 1 .. Len(s) + 1 /\ f \in Nat
        BY <1>2, <2>5
    <2> QED BY <2>4, <2>5, <2>6, <2>7
<1> QED BY <1>3, <1>4

(* There is one such place.                                                *)
LEMMA FirstUnique ==
    ASSUME NEW S, NEW s \in Seq(S), NEW c, NEW f \in 1 .. Len(s) + 1,
           f <= Len(s) => s[f] = c,
           \A k \in 1 .. Len(s) : k < f => s[k] # c
    PROVE  First(s, c) = f
<1> DEFINE g == First(s, c)
<1>1. /\ g \in 1 .. Len(s) + 1 /\ Len(s) \in Nat
      /\ g <= Len(s) => s[g] = c
      /\ \A k \in 1 .. Len(s) : k < g => s[k] # c
    BY FirstIs, LenProperties
<1> HIDE DEF g
<1>2. ~(g < f)
    <2> SUFFICES ASSUME g < f PROVE FALSE
        OBVIOUS
    <2>1. g \in 1 .. Len(s) /\ g <= Len(s)
        BY <1>1
    <2> QED BY <1>1, <2>1
<1>3. ~(f < g)
    <2> SUFFICES ASSUME f < g PROVE FALSE
        OBVIOUS
    <2>1. f \in 1 .. Len(s) /\ f <= Len(s)
        BY <1>1
    <2> QED BY <1>1, <2>1
<1>4. g = f
    BY <1>1, <1>2, <1>3
<1> QED BY <1>4 DEF g

(* Pieces of a text.                                                       *)
LEMMA Piece ==
    ASSUME NEW S, NEW s \in Seq(S), NEW m \in 1 .. Len(s) + 1, NEW n \in m - 1 .. Len(s)
    PROVE  /\ SubSeq(s, m, n) \in Seq(S)
           /\ Len(SubSeq(s, m, n)) = (n - m) + 1
           /\ \A k \in 1 .. (n - m) + 1 : SubSeq(s, m, n)[k] = s[(m - 1) + k]
<1>1. Len(s) \in Nat /\ m \in Int /\ n \in Int /\ 1 <= m /\ m - 1 <= n /\ n <= Len(s)
    BY LenProperties
<1>2. \A k \in m .. n : s[k] \in S
    <2> SUFFICES ASSUME NEW k \in m .. n PROVE s[k] \in S
        OBVIOUS
    <2>1. k \in 1 .. Len(s)
        BY <1>1
    <2> QED BY <2>1, ElementOfSeq
<1>3. /\ SubSeq(s, m, n) \in Seq(S)
      /\ Len(SubSeq(s, m, n)) = IF m <= n THEN n - m + 1 ELSE 0
      /\ \A k \in 1 .. n - m + 1 : SubSeq(s, m, n)[k] = s[m + k - 1]
    BY <1>1, <1>2, SubSeqProperties
<1>4. (IF m <= n THEN n - m + 1 ELSE 0) = (n - m) + 1
    BY <1>1
<1>5. \A k \in 1 .. (n - m) + 1 : m + k - 1 = (m - 1) + k
    BY <1>1
<1> QED BY <1>3, <1>4, <1>5

(* The first n characters.                                                 *)
LEMMA FrontIs ==
    ASSUME NEW S, NEW s \in Seq(S), NEW n \in 0 .. Len(s)
    PROVE  /\ SubSeq(s, 1, n) \in Seq(S) /\ Len(SubSeq(s, 1, n)) = n
           /\ \A k \in 1 .. n : SubSeq(s, 1, n)[k] = s[k]
<1>1. 1 \in 1 .. Len(s) + 1 /\ n \in 1 - 1 .. Len(s) /\ n \in Int
    BY LenProperties
<1>2. /\ SubSeq(s, 1, n) \in Seq(S) /\ Len(SubSeq(s, 1, n)) = (n - 1) + 1
      /\ \A k \in 1 .. (n - 1) + 1 : SubSeq(s, 1, n)[k] = s[(1 - 1) + k]
    BY <1>1, Piece
<1>3. (n - 1) + 1 = n /\ \A k \in 1 .. n : (1 - 1) + k = k
    BY <1>1
<1> QED BY <1>2, <1>3

(* A search in the front of a text finds what one in the text finds, or    *)
(* nothing.                                                                *)
LEMMA FirstOfFront ==
    ASSUME NEW S, NEW s \in Seq(S), NEW c, NEW n \in 0 .. Len(s)
    PROVE  First(SubSeq(s, 1, n), c) = IF First(s, c) <= n THEN First(s, c) ELSE n + 1
<1> DEFINE t == SubSeq(s, 1, n)
           g == First(s, c)
           f == IF g <= n THEN g ELSE n + 1
<1>1. /\ Len(s) \in Nat /\ g \in Nat /\ g >= 1
      /\ g <= Len(s) => s[g] = c
      /\ \A k \in 1 .. Len(s) : k < g => s[k] # c
    BY FirstIs, LenProperties
<1>2. t \in Seq(S) /\ Len(t) = n /\ \A k \in 1 .. n : t[k] = s[k]
    BY FrontIs
<1> HIDE DEF t, g
<1>3. f \in 1 .. Len(t) + 1
    BY <1>1, <1>2
<1>4. f <= Len(t) => t[f] = c
    BY <1>1, <1>2
<1>5. \A k \in 1 .. Len(t) : k < f => t[k] # c
    BY <1>1, <1>2
<1> HIDE DEF f
<1>6. First(t, c) = f
    BY <1>2, <1>3, <1>4, <1>5, FirstUnique
<1> QED BY <1>6 DEF t, f, g

(* What is found in a text is found also if more follows it.               *)
LEMMA FirstOfConcat ==
    ASSUME NEW S, NEW s \in Seq(S), NEW t \in Seq(S), NEW c, First(s, c) <= Len(s)
    PROVE  First(s \o t, c) = First(s, c)
<1> DEFINE f == First(s, c)
           u == s \o t
<1>1. /\ Len(s) \in Nat /\ Len(t) \in Nat /\ f \in 1 .. Len(s) /\ s[f] = c
      /\ \A k \in 1 .. Len(s) : k < f => s[k] # c
    BY FirstIs, LenProperties
<1>2. /\ u \in Seq(S) /\ Len(u) = Len(s) + Len(t)
      /\ \A k \in 1 .. Len(s) + Len(t) : u[k] = IF k <= Len(s) THEN s[k] ELSE t[k - Len(s)]
    BY ConcatProperties
<1> HIDE DEF f, u
<1>3. f \in 1 .. Len(u) + 1
    BY <1>1, <1>2
<1>4. f <= Len(u) => u[f] = c
    BY <1>1, <1>2
<1>5. \A k \in 1 .. Len(u) : k < f => u[k] # c
    BY <1>1, <1>2
<1>6. u \in Seq(S)
    BY <1>2
<1>7. First(u, c) = f
    BY <1>3, <1>4, <1>5, <1>6, FirstUnique
<1> QED BY <1>7 DEF f, u

(* The front of a front.                                                   *)
LEMMA FrontOfFront ==
    ASSUME NEW S, NEW s \in Seq(S), NEW n \in 0 .. Len(s), NEW m \in 0 .. n
    PROVE  SubSeq(SubSeq(s, 1, n), 1, m) = SubSeq(s, 1, m)
<1> DEFINE t == SubSeq(s, 1, n)
           u == SubSeq(t, 1, m)
           v == SubSeq(s, 1, m)
<1>1. Len(s) \in Nat /\ n \in Nat /\ m \in Nat /\ m <= n /\ n <= Len(s)
    BY LenProperties
<1>2. /\ t \in Seq(S) /\ Len(t) = n /\ \A k \in 1 .. n : t[k] = s[k]
    BY FrontIs
<1>3. /\ v \in Seq(S) /\ Len(v) = m /\ \A k \in 1 .. m : v[k] = s[k]
    <2>1. m \in 0 .. Len(s)
        BY <1>1
    <2> QED BY <2>1, FrontIs
<1> HIDE DEF t, v
<1>4. /\ u \in Seq(S) /\ Len(u) = m /\ \A k \in 1 .. m : u[k] = t[k]
    <2>1. m \in 0 .. Len(t)
        BY <1>1, <1>2
    <2> QED BY <1>2, <2>1, FrontIs
<1> HIDE DEF u
<1>5. \A k \in 1 .. m : k \in 1 .. n
    BY <1>1
<1>6. \A k \in 1 .. Len(u) : u[k] = v[k]
    BY <1>2, <1>3, <1>4, <1>5
<1>7. u = v
    BY <1>3, <1>4, <1>6, SeqEqual
<1> QED BY <1>7 DEF u, v, t

(* The front of a text does not change if another one follows it.          *)
LEMMA FrontOfConcat ==
    ASSUME NEW S, NEW s \in Seq(S), NEW t \in Seq(S), NEW n \in 0 .. Len(s)
    PROVE  SubSeq(s \o t, 1, n) = SubSeq(s, 1, n)
<1> DEFINE u == SubSeq(s \o t, 1, n)
           v == SubSeq(s, 1, n)
<1>1. Len(s) \in Nat /\ Len(t) \in Nat /\ n \in Nat /\ n <= Len(s)
    BY LenProperties
<1>2. /\ s \o t \in Seq(S) /\ Len(s \o t) = Len(s) + Len(t)
      /\ \A k \in 1 .. Len(s) + Len(t) :
            (s \o t)[k] = IF k <= Len(s) THEN s[k] ELSE t[k - Len(s)]
    BY ConcatProperties
<1>3. /\ v \in Seq(S) /\ Len(v) = n /\ \A k \in 1 .. n : v[k] = s[k]
    BY FrontIs
<1>4. /\ u \in Seq(S) /\ Len(u) = n /\ \A k \in 1 .. n : u[k] = (s \o t)[k]
    <2>1. n \in 0 .. Len(s \o t)
        BY <1>1, <1>2
    <2> QED BY <1>2, <2>1, FrontIs
<1>5. \A k \in 1 .. n : (s \o t)[k] = s[k]
    BY <1>1, <1>2
<1> HIDE DEF u, v
<1>6. \A k \in 1 .. Len(u) : u[k] = v[k]
    BY <1>3, <1>4, <1>5
<1>7. u = v
    BY <1>3, <1>4, <1>6, SeqEqual
<1> QED BY <1>7 DEF u, v

(* What precedes the first c, and a search in it.                          *)
LEMMA BeforeIs ==
    ASSUME NEW S, NEW s \in Seq(S), NEW c
    PROVE  /\ Text!Before(s, c) = SubSeq(s, 1, First(s, c) - 1)
           /\ Text!Before(s, c) \in Seq(S)
           /\ Len(Text!Before(s, c)) = First(s, c) - 1
           /\ \A d : First(Text!Before(s, c), d) =
                    IF First(s, d) < First(s, c) THEN First(s, d) ELSE First(s, c)
<1> DEFINE f == First(s, c)
<1>1. f \in Nat /\ f \in 1 .. Len(s) + 1 /\ Len(s) \in Nat
    BY FirstIs, LenProperties
<1>2. Text!Before(s, c) = SubSeq(s, 1, f - 1)
    BY DEF Text!Before, First
<1> HIDE DEF f
<1>3. f - 1 \in 0 .. Len(s)
    BY <1>1
<1>4. SubSeq(s, 1, f - 1) \in Seq(S) /\ Len(SubSeq(s, 1, f - 1)) = f - 1
    BY <1>3, FrontIs
<1>5. ASSUME NEW d
      PROVE  First(SubSeq(s, 1, f - 1), d) = IF First(s, d) < f THEN First(s, d) ELSE f
    <2> DEFINE g == First(s, d)
    <2>1. g \in Nat
        BY FirstIs
    <2>2. First(SubSeq(s, 1, f - 1), d) = IF g <= f - 1 THEN g ELSE (f - 1) + 1
        BY <1>3, FirstOfFront
    <2> HIDE DEF g
    <2>3. (g <= f - 1) = (g < f) /\ (f - 1) + 1 = f
        BY <1>1, <2>1
    <2>4. First(SubSeq(s, 1, f - 1), d) = IF g < f THEN g ELSE f
        BY <2>2, <2>3
    <2> QED BY <2>4 DEF g
<1>6. /\ Text!Before(s, c) \in Seq(S)
      /\ Len(Text!Before(s, c)) = f - 1
    BY <1>2, <1>4
<1>7. \A d : First(Text!Before(s, c), d) = IF First(s, d) < f THEN First(s, d) ELSE f
    BY <1>2, <1>5
<1> QED BY <1>2, <1>6, <1>7 DEF f

(* Cutting a text at two characters gives the same in either order.        *)
LEMMA CutTwice ==
    ASSUME NEW S, NEW s \in Seq(S), NEW c, NEW d
    PROVE  Text!Before(Text!Before(s, c), d) = Text!Before(Text!Before(s, d), c)
<1> DEFINE f == First(s, c)
           g == First(s, d)
           m == IF f < g THEN f ELSE g
<1>1. f \in 1 .. Len(s) + 1 /\ g \in 1 .. Len(s) + 1 /\ Len(s) \in Nat
    BY FirstIs, LenProperties
<1>2. Text!Before(Text!Before(s, c), d) = SubSeq(Text!Before(s, c), 1, (IF g < f THEN g ELSE f) - 1)
    BY BeforeIs
<1>3. Text!Before(Text!Before(s, d), c) = SubSeq(Text!Before(s, d), 1, (IF f < g THEN f ELSE g) - 1)
    BY BeforeIs
<1>4. Text!Before(s, c) = SubSeq(s, 1, f - 1) /\ Text!Before(s, d) = SubSeq(s, 1, g - 1)
    BY BeforeIs
<1> HIDE DEF f, g
<1>5. (IF g < f THEN g ELSE f) = m /\ (IF f < g THEN f ELSE g) = m
    BY <1>1
<1>6. /\ f - 1 \in 0 .. Len(s) /\ g - 1 \in 0 .. Len(s)
      /\ m - 1 \in 0 .. f - 1 /\ m - 1 \in 0 .. g - 1
    BY <1>1
<1> HIDE DEF m
<1>7. SubSeq(SubSeq(s, 1, f - 1), 1, m - 1) = SubSeq(s, 1, m - 1)
    BY <1>6, FrontOfFront
<1>8. SubSeq(SubSeq(s, 1, g - 1), 1, m - 1) = SubSeq(s, 1, m - 1)
    BY <1>6, FrontOfFront
<1> QED BY <1>2, <1>3, <1>4, <1>5, <1>7, <1>8

(* A text without a character is not cut at it.                            *)
LEMMA UncutWhole ==
    ASSUME NEW S, NEW s \in Seq(S), NEW c, ~Text!Has(s, c)
    PROVE  Text!Before(s, c) = s
<1> DEFINE f == First(s, c)
<1>1. f \in 1 .. Len(s) + 1 /\ Len(s) \in Nat
    BY FirstIs, LenProperties
<1>2. ~(f <= Len(s)) /\ Text!Before(s, c) = SubSeq(s, 1, f - 1)
    BY DEF Text!Has, Text!Before, First
<1> HIDE DEF f
<1>3. f - 1 = Len(s)
    BY <1>1, <1>2
<1> QED BY <1>2, <1>3, SubSeqFull

(* What was cut at a character has none of it.                             *)
LEMMA CutHasNone ==
    ASSUME NEW S, NEW s \in Seq(S), NEW c
    PROVE  /\ ~Text!Has(Text!Before(s, c), c)
           /\ \A d : ~Text!Has(s, d) => ~Text!Has(Text!Before(s, c), d)
<1> DEFINE f == First(s, c)
           b == Text!Before(s, c)
<1>1. f \in 1 .. Len(s) + 1 /\ Len(s) \in Nat
    BY FirstIs, LenProperties
<1>2. Len(b) = f - 1 /\ \A d : First(b, d) = IF First(s, d) < f THEN First(s, d) ELSE f
    BY BeforeIs
<1>3. \A t, d : Text!Has(t, d) <=> First(t, d) <= Len(t)
    BY DEF Text!Has, First
<1>4. First(b, c) = f
    BY <1>1, <1>2
<1>5. ASSUME NEW d, ~Text!Has(s, d) PROVE ~Text!Has(b, d)
    <2>1. First(s, d) \in Nat
        BY FirstIs
    <2>2. ~(First(s, d) <= Len(s))
        BY <1>3, <1>5
    <2> HIDE DEF f, b
    <2>3. First(b, d) >= f
        BY <1>1, <1>2, <2>1, <2>2
    <2>4. ~(First(b, d) <= Len(b))
        BY <1>1, <1>2, <2>1, <2>2
    <2> QED BY <1>3, <2>4
<1>6. ~Text!Has(b, c)
    <2> HIDE DEF f, b
    <2> QED BY <1>1, <1>2, <1>3, <1>4
<1> QED BY <1>5, <1>6

-----------------------------------------------------------------------------
(* Splitting a request.                                                    *)

(* The path is found wherever the first "?" of the buffer is: before the   *)
(* end of the URL, behind it, or nowhere.                                  *)
LEMMA PathFound ==
    ASSUME NEW S, NEW s \in Seq(S)
    PROVE  Text!Before(Text!SplitRequest(s), Text!BLANK) =
                Text!Before(Text!Before(s, Text!BLANK), Text!QUERY)
<1> DEFINE q == Text!QUERY
           a == Text!BLANK
<1>1. CASE Text!Has(s, q)
    <2> DEFINE r == Text!Before(Text!Before(s, q), a)
    <2>1. Text!SplitRequest(s) = r
        BY <1>1 DEF Text!SplitRequest
    <2>2. r = Text!Before(Text!Before(s, a), q)
        BY CutTwice
    <2>3. r \in Seq(S)
        BY BeforeIs
    <2>4. ~Text!Has(r, a)
        BY BeforeIs, CutHasNone
    <2> HIDE DEF r
    <2>5. Text!Before(r, a) = r
        BY <2>3, <2>4, UncutWhole
    <2> QED BY <2>1, <2>2, <2>5
<1>2. CASE ~Text!Has(s, q)
    <2>1. Text!SplitRequest(s) = s
        BY <1>2 DEF Text!SplitRequest
    <2> DEFINE b == Text!Before(s, a)
    <2>2. b \in Seq(S) /\ ~Text!Has(b, q)
        BY <1>2, BeforeIs, CutHasNone
    <2> HIDE DEF b
    <2>3. Text!Before(b, q) = b
        BY <2>2, UncutWhole
    <2> QED BY <2>1, <2>3 DEF b
<1> QED BY <1>1, <1>2

(* The parameters of a URL with a "?" are what follows that, up to the     *)
(* space.                                                                  *)
LEMMA ParamsRight ==
    ASSUME NEW S, NEW s \in Seq(S), Text!Has(s, Text!BLANK),
           Text!Has(Text!Before(s, Text!BLANK), Text!QUERY)
    PROVE  Text!SplitParams(s) =
                [given |-> TRUE, text |-> Text!After(Text!Before(s, Text!BLANK), Text!QUERY)]
<1> DEFINE f == First(s, Text!BLANK)
           g == First(s, Text!QUERY)
           u == Text!Before(s, Text!BLANK)
           v == Text!After(s, Text!QUERY)
<1>1. f \in 1 .. Len(s) + 1 /\ g \in 1 .. Len(s) + 1 /\ Len(s) \in Nat
    BY FirstIs, LenProperties
<1>2. \A t, d : Text!Has(t, d) <=> First(t, d) <= Len(t)
    BY DEF Text!Has, First
<1>3. /\ u \in Seq(S) /\ u = SubSeq(s, 1, f - 1) /\ Len(u) = f - 1
      /\ First(u, Text!QUERY) = IF g < f THEN g ELSE f
    BY BeforeIs
<1>4. f <= Len(s) /\ First(u, Text!QUERY) <= Len(u)
    BY <1>2
<1>5. /\ Len(Text!Before(s, Text!QUERY)) = g - 1
      /\ First(Text!Before(s, Text!QUERY), Text!BLANK) = IF f < g THEN f ELSE g
    BY BeforeIs
<1>6. v = SubSeq(s, g + 1, Len(s)) /\ Text!After(u, Text!QUERY) = SubSeq(u, First(u, Text!QUERY) + 1, Len(u))
    BY DEF Text!After, First
<1>7. /\ f <= Len(s) => s[f] = Text!BLANK
      /\ \A k \in 1 .. Len(s) : k < f => s[k] # Text!BLANK
    BY FirstIs
<1> HIDE DEF f, g, u, v
<1>8. g < f /\ First(u, Text!QUERY) = g
    BY <1>1, <1>3, <1>4
<1>9. Text!Has(s, Text!QUERY) /\ ~Text!Has(Text!Before(s, Text!QUERY), Text!BLANK)
    <2>1. g <= Len(s)
        BY <1>1, <1>4, <1>8
    <2>2. ~(f < g) /\ ~(g <= g - 1)
        BY <1>1, <1>8
    <2> QED BY <1>2, <1>5, <2>1, <2>2 DEF g
<1>10. Text!SplitParams(s) = [given |-> TRUE, text |-> Text!Before(v, Text!BLANK)]
    BY <1>9 DEF Text!SplitParams, v
<1>11. /\ v \in Seq(S) /\ Len(v) = Len(s) - g
       /\ \A k \in 1 .. Len(s) - g : v[k] = s[g + k]
    <2>1. g + 1 \in 1 .. Len(s) + 1 /\ Len(s) \in (g + 1) - 1 .. Len(s)
        BY <1>1, <1>4, <1>8
    <2>2. /\ v \in Seq(S) /\ Len(v) = (Len(s) - (g + 1)) + 1
          /\ \A k \in 1 .. (Len(s) - (g + 1)) + 1 : v[k] = s[((g + 1) - 1) + k]
        BY <1>6, <2>1, Piece
    <2>3. (Len(s) - (g + 1)) + 1 = Len(s) - g /\ (g + 1) - 1 = g
        BY <1>1
    <2> QED BY <2>2, <2>3
<1>12. First(v, Text!BLANK) = f - g
    <2>1. f - g \in 1 .. Len(v) + 1
        BY <1>1, <1>4, <1>8, <1>11
    <2>2. v[f - g] = Text!BLANK
        <3>1. f - g \in 1 .. Len(s) - g /\ g + (f - g) = f
            BY <1>1, <1>4, <1>8
        <3> QED BY <1>4, <1>7, <1>11, <3>1
    <2>3. ASSUME NEW k \in 1 .. Len(v), k < f - g PROVE v[k] # Text!BLANK
        <3>1. g + k \in 1 .. Len(s) /\ g + k < f /\ k \in 1 .. Len(s) - g
            BY <1>1, <1>4, <1>8, <1>11, <2>3
        <3> QED BY <1>7, <1>11, <3>1
    <2> QED BY <1>11, <2>1, <2>2, <2>3, FirstUnique
<1>13. Text!Before(v, Text!BLANK) = SubSeq(v, 1, (f - g) - 1)
    BY <1>11, <1>12, BeforeIs
<1> DEFINE x == SubSeq(v, 1, (f - g) - 1)
           y == SubSeq(u, g + 1, f - 1)
           n == (f - g) - 1
<1>14. n \in Nat /\ n \in 0 .. Len(v)
    BY <1>1, <1>4, <1>8, <1>11
<1>15. x \in Seq(S) /\ Len(x) = n /\ \A k \in 1 .. n : x[k] = v[k]
    BY <1>11, <1>14, FrontIs
<1>16. y \in Seq(S) /\ Len(y) = n /\ \A k \in 1 .. n : y[k] = u[g + k]
    <2>1. g + 1 \in 1 .. Len(u) + 1 /\ f - 1 \in (g + 1) - 1 .. Len(u)
        BY <1>1, <1>3, <1>8
    <2>2. /\ y \in Seq(S) /\ Len(y) = ((f - 1) - (g + 1)) + 1
          /\ \A k \in 1 .. ((f - 1) - (g + 1)) + 1 : y[k] = u[((g + 1) - 1) + k]
        <3> DEFINE m == g + 1
                   e == f - 1
        <3>1. u \in Seq(S) /\ m \in 1 .. Len(u) + 1 /\ e \in m - 1 .. Len(u)
            BY <1>3, <2>1
        <3> HIDE DEF m, e
        <3>2. /\ SubSeq(u, m, e) \in Seq(S) /\ Len(SubSeq(u, m, e)) = (e - m) + 1
              /\ \A k \in 1 .. (e - m) + 1 : SubSeq(u, m, e)[k] = u[(m - 1) + k]
            BY <3>1, Piece
        <3> QED BY <3>2 DEF m, e
    <2>3. ((f - 1) - (g + 1)) + 1 = n /\ (g + 1) - 1 = g
        BY <1>1
    <2> QED BY <2>2, <2>3
<1>17. \A k \in 1 .. f - 1 : u[k] = s[k]
    <2>1. f - 1 \in 0 .. Len(s)
        BY <1>1
    <2> QED BY <1>3, <2>1, FrontIs
<1>18. ASSUME NEW k \in 1 .. n PROVE x[k] = y[k]
    <2>1. k \in 1 .. Len(s) - g /\ g + k \in 1 .. f - 1
        BY <1>1, <1>4, <1>8
    <2> QED BY <1>11, <1>15, <1>16, <1>17, <2>1
<1> HIDE DEF x, y, n
<1>19. x = y
    BY <1>15, <1>16, <1>18, SeqEqual
<1> QED BY <1>3, <1>6, <1>8, <1>10, <1>13, <1>19 DEF x, y, u

(* What follows the first c is a text, also if there is no c.              *)
LEMMA AfterType ==
    ASSUME NEW S, NEW s \in Seq(S), NEW c
    PROVE  Text!After(s, c) \in Seq(S)
<1> DEFINE f == First(s, c) + 1
<1>1. f \in Int /\ f >= 1 /\ Len(s) \in Int
    BY FirstIs, LenProperties
<1>2. Text!After(s, c) = SubSeq(s, f, Len(s))
    BY DEF Text!After, First
<1> HIDE DEF f
<1>3. ASSUME NEW k \in f .. Len(s) PROVE s[k] \in S
    <2>1. k \in 1 .. Len(s)
        BY <1>1
    <2> QED BY <2>1, ElementOfSeq
<1> QED BY <1>1, <1>2, <1>3, SubSeqProperties

(* Nothing is found in an empty text.                                      *)
LEMMA EmptyHasNone == \A c : ~Text!Has(<<>>, c)
<1> SUFFICES ASSUME NEW c PROVE ~Text!Has(<<>>, c)
    OBVIOUS
<1>1. <<>> \in Seq({}) /\ Len(<<>>) = 0
    BY EmptySeq
<1>2. First(<<>>, c) \in 1 .. Len(<<>>) + 1
    BY <1>1, FirstIs
<1> QED BY <1>1, <1>2 DEF Text!Has, First

(* The pieces are texts, and the name has neither "?" nor space.           *)
LEMMA SplitType ==
    ASSUME NEW S, NEW s \in Seq(S)
    PROVE  /\ Text!SplitRequest(s) \in Seq(S)
           /\ Text!SplitParams(s).given \in BOOLEAN
           /\ Text!SplitParams(s).text \in Seq(S)
           /\ Text!NotFoundName(Text!SplitRequest(s)) \in Seq(S)
           /\ ~Text!Has(Text!NotFoundName(Text!SplitRequest(s)), Text!QUERY)
           /\ ~Text!Has(Text!NotFoundName(Text!SplitRequest(s)), Text!BLANK)
<1> DEFINE r == Text!SplitRequest(s)
           n == Text!NotFoundName(r)
<1>1. r \in Seq(S) /\ ~Text!Has(r, Text!QUERY)
    <2>1. CASE Text!Has(s, Text!QUERY)
        <3> DEFINE b == Text!Before(s, Text!QUERY)
        <3>1. b \in Seq(S) /\ ~Text!Has(b, Text!QUERY)
            BY BeforeIs, CutHasNone
        <3> HIDE DEF b
        <3>2. Text!Before(b, Text!BLANK) \in Seq(S)
            BY <3>1, BeforeIs
        <3>3. ~Text!Has(Text!Before(b, Text!BLANK), Text!QUERY)
            BY <3>1, CutHasNone
        <3>4. r = Text!Before(b, Text!BLANK)
            BY <2>1 DEF Text!SplitRequest, b
        <3> QED BY <3>2, <3>3, <3>4
    <2>2. CASE ~Text!Has(s, Text!QUERY)
        BY <2>2 DEF Text!SplitRequest
    <2> QED BY <2>1, <2>2
<1> HIDE DEF r
<1>2. n \in Seq(S) /\ ~Text!Has(n, Text!QUERY) /\ ~Text!Has(n, Text!BLANK)
    <2>1. CASE Text!Has(r, Text!BLANK)
        <3>1. n = Text!Before(r, Text!BLANK)
            BY <2>1 DEF Text!NotFoundName
        <3>2. Text!Before(r, Text!BLANK) \in Seq(S)
            BY <1>1, BeforeIs
        <3>3. ~Text!Has(Text!Before(r, Text!BLANK), Text!BLANK)
            BY <1>1, CutHasNone
        <3>4. ~Text!Has(Text!Before(r, Text!BLANK), Text!QUERY)
            BY <1>1, CutHasNone
        <3> QED BY <3>1, <3>2, <3>3, <3>4
    <2>2. CASE ~Text!Has(r, Text!BLANK)
        <3>1. n = <<>>
            BY <2>2 DEF Text!NotFoundName
        <3> QED BY <3>1, EmptyHasNone, EmptySeq
    <2> QED BY <2>1, <2>2
<1>3. Text!SplitParams(s).text \in Seq(S)
    <2>1. CASE ~Text!Has(s, Text!QUERY)
        BY <2>1, EmptySeq DEF Text!SplitParams, Text!NoParams
    <2>2. CASE Text!Has(s, Text!QUERY)
        <3>1. Text!After(s, Text!QUERY) \in Seq(S)
            BY AfterType
        <3>2. Text!Before(Text!After(s, Text!QUERY), Text!BLANK) \in Seq(S)
            BY <3>1, BeforeIs
        <3> QED BY <2>2, <3>1, <3>2 DEF Text!SplitParams
    <2> QED BY <2>1, <2>2
<1>4. Text!SplitParams(s).given \in BOOLEAN
    BY DEF Text!SplitParams, Text!NoParams
<1> QED BY <1>1, <1>2, <1>3, <1>4 DEF r

(* The request that arrives is split right.                                *)
LEMMA ArrivesRight ==
    ASSUME Text!UrlSplitRight, NEW r \in Rubbish, Text!handle_tcp_data(r)
    PROVE  Text!UrlSplitRight'
<1> DEFINE s == text \o r
<1>1. text \in Seq(RequestChars) /\ r \in Seq(RequestChars) /\ Len(text) <= MAX_TEXT
    BY BufferAssumption DEF Text!UrlSplitRight, Text!TypeOK
<1>2. s \in Seq(RequestChars)
    BY <1>1, ConcatProperties
<1>3. /\ request' = Text!SplitRequest(s) /\ params' = Text!SplitParams(s)
      /\ name' = Text!NotFoundName(Text!SplitRequest(s))
      /\ phase' = "parsed" /\ text' = text
    BY DEF Text!handle_tcp_data
<1> HIDE DEF s
<1>4. /\ request' \in Seq(RequestChars) /\ name' \in Seq(RequestChars)
      /\ params'.text \in Seq(RequestChars)
      /\ ~Text!Has(name', Text!QUERY) /\ ~Text!Has(name', Text!BLANK)
    BY <1>2, <1>3, SplitType
<1>5. params'.given \in BOOLEAN
    BY <1>2, <1>3, SplitType
<1>6. Text!TypeOK'
    BY <1>1, <1>3, <1>4, <1>5 DEF Text!TypeOK
<1>7. ASSUME Text!Has(text, Text!BLANK)
      PROVE  /\ Text!Has(s, Text!BLANK)
             /\ Text!Before(s, Text!BLANK) = Text!Before(text, Text!BLANK)
    <2> DEFINE f == First(text, Text!BLANK)
    <2>1. f \in 1 .. Len(text) + 1 /\ Len(text) \in Nat /\ Len(r) \in Nat
        BY <1>1, FirstIs, LenProperties
    <2>2. f <= Len(text)
        BY <1>7 DEF Text!Has, First
    <2>3. First(s, Text!BLANK) = f
        BY <1>1, <2>2, FirstOfConcat DEF s
    <2>4. Len(s) = Len(text) + Len(r)
        BY <1>1, ConcatProperties DEF s
    <2>5. /\ Text!Before(s, Text!BLANK) = SubSeq(s, 1, f - 1)
          /\ Text!Before(text, Text!BLANK) = SubSeq(text, 1, f - 1)
        BY <2>3 DEF Text!Before, First
    <2> HIDE DEF f
    <2>6. f - 1 \in 0 .. Len(text) /\ f <= Len(s)
        BY <2>1, <2>2, <2>4
    <2>7. SubSeq(s, 1, f - 1) = SubSeq(text, 1, f - 1)
        BY <1>1, <2>6, FrontOfConcat DEF s
    <2>8. Text!Has(s, Text!BLANK)
        BY <2>3, <2>6 DEF Text!Has, First
    <2> QED BY <2>5, <2>7, <2>8
<1>8. Text!Has(text, Text!BLANK) =>
        Text!Before(request', Text!BLANK) = Text!Before(Text!Before(text, Text!BLANK), Text!QUERY)
    BY <1>2, <1>3, <1>7, PathFound
<1>9. Text!PathRight'
    BY <1>3, <1>8 DEF Text!PathRight, Text!Parsed, Text!Url
<1>10. Text!ParamsFound'
    <2>1. Text!Has(text, Text!BLANK) /\ Text!Has(Text!Before(text, Text!BLANK), Text!QUERY) =>
            params' = [given |-> TRUE, text |-> Text!After(Text!Before(text, Text!BLANK), Text!QUERY)]
        BY <1>2, <1>3, <1>7, ParamsRight
    <2> QED BY <1>3, <2>1 DEF Text!ParamsFound, Text!Parsed, Text!Url
<1>11. Text!NotFoundNeverWrong'
    <2>1. name' = Text!Before(request', Text!BLANK) \/ name' = <<>>
        BY <1>3 DEF Text!NotFoundName
    <2> QED BY <1>3, <1>8, <2>1 DEF Text!NotFoundNeverWrong, Text!Parsed, Text!Url
<1> QED BY <1>6, <1>9, <1>10, <1>11 DEF Text!UrlSplitRight

(* Before a request arrives nothing is claimed but the types.              *)
LEMMA Receiving ==
    /\ phase = "receiving" /\ Text!TypeOK => Text!UrlSplitRight
    /\ phase' = "receiving" /\ Text!TypeOK' => Text!UrlSplitRight'
BY DEF Text!UrlSplitRight, Text!PathRight, Text!ParamsFound, Text!NotFoundNeverWrong, Text!Parsed

(* The types between two requests.                                         *)
LEMMA EmptyType ==
    /\ /\ phase = "receiving" /\ text = <<>> /\ request = <<>> /\ name = <<>>
       /\ params = Text!NoParams
       => Text!TypeOK
    /\ /\ phase' = "receiving" /\ text' = <<>> /\ request' = <<>> /\ name' = <<>>
       /\ params' = Text!NoParams
       => Text!TypeOK'
<1>1. <<>> \in Seq(RequestChars) /\ Len(<<>>) = 0 /\ 0 <= MAX_TEXT
    BY EmptySeq, BufferAssumption
<1>2. Text!NoParams.given \in BOOLEAN
    BY DEF Text!NoParams
<1>3. Text!NoParams.text = <<>>
    BY DEF Text!NoParams
<1> QED BY <1>1, <1>2, <1>3, EmptyHasNone DEF Text!TypeOK

(* Every step of the run keeps the split right.                            *)
LEMMA NextSplit ==
    Text!UrlSplitRight /\ [Dns \/ Request \/ HtmlText \/ Options]_mc_vars => Text!UrlSplitRight'
<1> SUFFICES ASSUME Text!UrlSplitRight, [Dns \/ Request \/ HtmlText \/ Options]_mc_vars
             PROVE  Text!UrlSplitRight'
    OBVIOUS
<1>1. CASE UNCHANGED request_vars
    <2>1. /\ text' = text /\ phase' = phase /\ request' = request /\ params' = params
          /\ name' = name
        BY <1>1 DEF request_vars
    <2> QED BY <2>1 DEF Text!UrlSplitRight, Text!TypeOK, Text!PathRight, Text!ParamsFound,
                        Text!NotFoundNeverWrong, Text!Parsed, Text!Url
<1>2. CASE Text!Next
    <2>1. ASSUME NEW c \in RequestChars, Text!Type(c) PROVE Text!UrlSplitRight'
        <3>1. Text!TypeOK
            BY DEF Text!UrlSplitRight
        <3>2. /\ text' = Append(text, c) /\ Len(text) < MAX_TEXT /\ phase = "receiving"
              /\ phase' = phase /\ request' = request /\ params' = params /\ name' = name
            BY <2>1 DEF Text!Type
        <3>3. text' \in Seq(RequestChars) /\ Len(text') <= MAX_TEXT
            <4>1. text \in Seq(RequestChars) /\ Len(text) \in Nat
                BY <3>1, LenProperties DEF Text!TypeOK
            <4>2. text' \in Seq(RequestChars) /\ Len(text') = Len(text) + 1
                BY <3>2, <4>1, AppendProperties
            <4> QED BY <3>2, <4>1, <4>2, BufferAssumption
        <3>4. Text!TypeOK'
            BY <3>1, <3>2, <3>3 DEF Text!TypeOK
        <3> QED BY <3>2, <3>4, Receiving
    <2>2. CASE Text!Again
        <3>1. /\ phase' = "receiving" /\ text' = <<>> /\ request' = <<>> /\ name' = <<>>
              /\ params' = Text!NoParams
            BY <2>2 DEF Text!Again
        <3> QED BY <3>1, EmptyType, Receiving
    <2> QED BY <1>2, <2>1, <2>2, ArrivesRight DEF Text!Next
<1> QED BY <1>1, <1>2 DEF Dns, Request, HtmlText, Options, mc_vars, vars

(* For every request and everything the buffer may hold behind it,         *)
(* handle_tcp_data looks the page up by the path of the URL, finds its     *)
(* parameters, whole and nothing but them, and 'not found' names no other  *)
(* URL.                                                                    *)
THEOREM SplitsRight == MCSpec => []UrlSplitRight
<1>1. MCInit => Text!UrlSplitRight
    <2> SUFFICES ASSUME MCInit PROVE Text!UrlSplitRight
        OBVIOUS
    <2>1. /\ phase = "receiving" /\ text = <<>> /\ request = <<>> /\ name = <<>>
          /\ params = Text!NoParams
        BY DEF MCInit, Text!Init
    <2> QED BY <2>1, EmptyType, Receiving
<1>2. UrlSplitRight <=> Text!UrlSplitRight
    BY DEF UrlSplitRight
<1> QED BY <1>1, <1>2, NextSplit, PTL DEF MCSpec

-----------------------------------------------------------------------------
(* The HTML helper.                                                        *)

(* F is what the texts of s make when one is put behind the other: F[n] is *)
(* that of the first n.                                                    *)
Prefixes(S, s, m, F) ==
    /\ F \in [0 .. m -> Seq(S)]
    /\ F[0] = <<>>
    /\ \A n \in 1 .. m : F[n] = F[n - 1] \o s[n]

(* There is such an F for every s.                                         *)
LEMMA PrefixesExist ==
    ASSUME NEW S, NEW s \in Seq(Seq(S))
    PROVE  \E F : Prefixes(S, s, Len(s), F)
<1> DEFINE T == {m \in Nat : m <= Len(s) => \E F : Prefixes(S, s, m, F)}
<1>1. Len(s) \in Nat /\ \A n \in 1 .. Len(s) : s[n] \in Seq(S)
    BY LenProperties, ElementOfSeq
<1>2. 0 \in T
    <2>1. <<>> \in Seq(S)
        BY EmptySeq
    <2> DEFINE G == [k \in 0 .. 0 |-> <<>>]
    <2>2. G \in [0 .. 0 -> Seq(S)] /\ G[0] = <<>>
        BY <2>1
    <2>3. 1 .. 0 = {}
        OBVIOUS
    <2> HIDE DEF G
    <2>4. Prefixes(S, s, 0, G)
        BY <2>2, <2>3 DEF Prefixes
    <2> QED BY <2>4
<1>3. ASSUME NEW m \in Nat, m \in T PROVE m + 1 \in T
    <2> SUFFICES ASSUME m + 1 <= Len(s) PROVE \E F : Prefixes(S, s, m + 1, F)
        OBVIOUS
    <2>1. m <= Len(s) /\ m + 1 \in 1 .. Len(s)
        BY <1>1
    <2>2. PICK F : Prefixes(S, s, m, F)
        BY <1>3, <2>1
    <2> DEFINE new == F[m] \o s[m + 1]
               G == [k \in 0 .. m + 1 |-> IF k = m + 1 THEN new ELSE F[k]]
    <2>3. new \in Seq(S)
        BY <1>1, <2>1, <2>2, ConcatProperties DEF Prefixes
    <2>4. G \in [0 .. m + 1 -> Seq(S)]
        <3> HIDE DEF new
        <3>1. ASSUME NEW k \in 0 .. m + 1, k # m + 1 PROVE k \in 0 .. m
            BY <3>1
        <3> QED BY <2>2, <2>3, <3>1 DEF Prefixes
    <2>5. G[0] = <<>> /\ G[m + 1] = new /\ G[m] = F[m]
        <3>1. /\ 0 \in 0 .. m + 1 /\ 0 # m + 1 /\ m \in 0 .. m + 1 /\ m # m + 1
              /\ m + 1 \in 0 .. m + 1
            OBVIOUS
        <3>2. F[0] = <<>>
            BY <2>2 DEF Prefixes
        <3> HIDE DEF new
        <3> QED BY <3>1, <3>2
    <2>6. ASSUME NEW n \in 1 .. m PROVE G[n] = G[n - 1] \o s[n]
        <3>1. n \in 0 .. m + 1 /\ n # m + 1 /\ n - 1 \in 0 .. m + 1 /\ n - 1 # m + 1
            OBVIOUS
        <3>2. G[n] = F[n] /\ G[n - 1] = F[n - 1]
            BY <3>1
        <3> QED BY <2>2, <3>2 DEF Prefixes
    <2>7. ASSUME NEW n \in 1 .. m + 1 PROVE n \in 1 .. m \/ n = m + 1
        OBVIOUS
    <2>8. (m + 1) - 1 = m
        OBVIOUS
    <2> HIDE DEF G
    <2>9. G[m + 1] = G[(m + 1) - 1] \o s[m + 1]
        BY <2>5, <2>8
    <2>10. Prefixes(S, s, m + 1, G)
        BY <2>4, <2>5, <2>6, <2>7, <2>9 DEF Prefixes
    <2> QED BY <2>10
<1> HIDE DEF T
<1>4. Len(s) \in T
    BY <1>1, <1>2, <1>3, Induct
<1>5. \E F : Prefixes(S, s, Len(s), F)
    BY <1>1, <1>4 DEF T
<1> QED BY <1>5

(* It is what FlattenSeq makes of the whole s.                             *)
LEMMA FlattenIs ==
    ASSUME NEW S, NEW s \in Seq(Seq(S)), NEW F, Prefixes(S, s, Len(s), F)
    PROVE  Html!FlattenSeq(s) = F[Len(s)]
<1>1. Len(s) \in Nat /\ \A n \in 1 .. Len(s) : s[n] \in Seq(S)
    BY LenProperties, ElementOfSeq
<1>2. CASE Len(s) = 0
    <2>1. s = <<>>
        BY <1>2, EmptySeq
    <2> QED BY <1>2, <2>1 DEF Html!FlattenSeq, Prefixes
<1>3. CASE Len(s) # 0
    <2> DEFINE Rec(f) == [k \in 1 .. Len(s) |-> IF k = 1 THEN s[k] ELSE f[k - 1] \o s[k]]
               flatten == CHOOSE f : f = Rec(f)
               G == [k \in 1 .. Len(s) |-> F[k]]
    <2>1. Html!FlattenSeq(s) = flatten[Len(s)]
        BY <1>3 DEF Html!FlattenSeq
    <2>2. \A k \in 1 .. Len(s) : k # 1 => k - 1 \in 1 .. Len(s)
        BY <1>1
    <2>3. 1 \in 1 .. Len(s) /\ F[1] = s[1]
        <3>1. 1 \in 1 .. Len(s) /\ 1 - 1 = 0
            BY <1>1, <1>3
        <3>2. F[1] = <<>> \o s[1] /\ s[1] \in Seq(S)
            BY <1>1, <3>1 DEF Prefixes
        <3> QED BY <3>1, <3>2, ConcatEmptySeq
    <2>4. ASSUME NEW k \in 1 .. Len(s)
          PROVE  G[k] = IF k = 1 THEN s[k] ELSE G[k - 1] \o s[k]
        <3>1. CASE k = 1
            BY <2>3, <3>1
        <3>2. CASE k # 1
            <4>1. G[k] = F[k] /\ G[k - 1] = F[k - 1]
                BY <2>2, <3>2
            <4>2. F[k] = F[k - 1] \o s[k]
                BY DEF Prefixes
            <4> QED BY <3>2, <4>1, <4>2
        <3> QED BY <3>1, <3>2
    <2>5. G = Rec(G)
        <3>1. G = [k \in 1 .. Len(s) |-> G[k]]
            OBVIOUS
        <3> HIDE DEF G
        <3> QED BY <2>4, <3>1
    <2>6. flatten = Rec(flatten)
        <3> HIDE DEF G
        <3> QED BY <2>5
    <2> HIDE DEF flatten, G
    <2>7. \A k \in 1 .. Len(s) : flatten[k] = IF k = 1 THEN s[k] ELSE flatten[k - 1] \o s[k]
        BY <2>6
    <2> DEFINE T == {n \in Nat : n + 1 <= Len(s) => flatten[n + 1] = F[n + 1]}
    <2>8. 0 \in T
        BY <2>3, <2>7
    <2>9. ASSUME NEW n \in Nat, n \in T PROVE n + 1 \in T
        <3> SUFFICES ASSUME (n + 1) + 1 <= Len(s)
                     PROVE  flatten[(n + 1) + 1] = F[(n + 1) + 1]
            OBVIOUS
        <3> DEFINE k == (n + 1) + 1
        <3>1. k \in 1 .. Len(s) /\ k # 1 /\ k - 1 = n + 1 /\ n + 1 <= Len(s)
            BY <1>1
        <3>2. flatten[n + 1] = F[n + 1]
            BY <2>9, <3>1
        <3> HIDE DEF k
        <3>3. flatten[k] = flatten[k - 1] \o s[k]
            BY <2>7, <3>1
        <3>4. F[k] = F[k - 1] \o s[k]
            BY <3>1 DEF Prefixes
        <3>5. flatten[k] = F[k]
            BY <3>1, <3>2, <3>3, <3>4
        <3> QED BY <3>5 DEF k
    <2> HIDE DEF T
    <2>10. Len(s) - 1 \in Nat /\ (Len(s) - 1) + 1 = Len(s)
        BY <1>1, <1>3
    <2>11. Len(s) - 1 \in T
        BY <2>8, <2>9, <2>10, Induct
    <2>12. flatten[Len(s)] = F[Len(s)]
        BY <1>1, <2>10, <2>11 DEF T
    <2> QED BY <2>1, <2>12
<1> QED BY <1>2, <1>3

(* A longer prefix makes no shorter text.                                  *)
LEMMA PrefixesGrow ==
    ASSUME NEW S, NEW s \in Seq(Seq(S)), NEW F, Prefixes(S, s, Len(s), F), NEW n \in 0 .. Len(s)
    PROVE  F[n] \in Seq(S) /\ Len(F[n]) <= Len(F[Len(s)])
<1> DEFINE T == {d \in Nat : n + d <= Len(s) => Len(F[n]) <= Len(F[n + d])}
<1>1. Len(s) \in Nat /\ \A k \in 1 .. Len(s) : s[k] \in Seq(S)
    BY LenProperties, ElementOfSeq
<1>2. \A k \in 0 .. Len(s) : F[k] \in Seq(S) /\ Len(F[k]) \in Nat
    BY LenProperties DEF Prefixes
<1>3. 0 \in T
    BY <1>2
<1>4. ASSUME NEW d \in Nat, d \in T PROVE d + 1 \in T
    <2> SUFFICES ASSUME n + (d + 1) <= Len(s) PROVE Len(F[n]) <= Len(F[n + (d + 1)])
        OBVIOUS
    <2> DEFINE k == n + (d + 1)
    <2>1. /\ k \in 1 .. Len(s) /\ k - 1 = n + d /\ n + d <= Len(s)
          /\ k - 1 \in 0 .. Len(s)
        BY <1>1
    <2>2. Len(F[n]) <= Len(F[n + d])
        BY <1>4, <2>1
    <2> HIDE DEF k
    <2>3. F[k] = F[k - 1] \o s[k] /\ s[k] \in Seq(S) /\ F[k - 1] \in Seq(S)
        BY <1>1, <1>2, <2>1 DEF Prefixes
    <2>4. Len(F[k]) = Len(F[k - 1]) + Len(s[k]) /\ Len(s[k]) \in Nat
        BY <2>3, ConcatProperties, LenProperties
    <2>5. Len(F[n]) \in Nat /\ Len(F[k - 1]) \in Nat /\ Len(F[k]) \in Nat
        <3>1. k \in 0 .. Len(s)
            BY <1>1, <2>1
        <3> QED BY <1>2, <2>1, <3>1
    <2>6. Len(F[n]) <= Len(F[k - 1])
        BY <2>1, <2>2
    <2>7. Len(F[n]) <= Len(F[k])
        <3> DEFINE a == Len(F[n])
                   b == Len(F[k - 1])
                   c == Len(s[k])
                   e == Len(F[k])
        <3>1. a \in Nat /\ b \in Nat /\ c \in Nat /\ a <= b /\ e = b + c
            BY <2>4, <2>5, <2>6
        <3> HIDE DEF a, b, c, e
        <3>2. a <= e
            BY <3>1
        <3> QED BY <3>2 DEF a, e
    <2> QED BY <2>7 DEF k
<1> HIDE DEF T
<1>5. Len(s) - n \in Nat /\ n + (Len(s) - n) = Len(s)
    BY <1>1
<1>6. Len(s) - n \in T
    BY <1>3, <1>4, <1>5, Induct
<1>7. Len(F[n]) <= Len(F[Len(s)])
    BY <1>1, <1>5, <1>6 DEF T
<1> QED BY <1>2, <1>7
(* What may stand in a result, and what the input is made into, piece by   *)
(* piece.                                                                  *)
HtmlChars == TextChars \cup {"<", "b", "r", ">"}
Pieces(s) == [k \in DOMAIN s |-> IF s[k] = Html!NL THEN Html!BR ELSE <<s[k]>>]

(* A piece is what the second loop writes, as long as the first counted.   *)
LEMMA PieceOf ==
    ASSUME NEW s \in Seq(TextChars)
    PROVE  /\ Pieces(s) \in Seq(Seq(HtmlChars)) /\ Len(Pieces(s)) = Len(s) /\ Len(s) \in Nat
           /\ \A k \in 1 .. Len(s) : /\ Pieces(s)[k] = Html!Replacement(s[k])
                                     /\ Html!Replacement(s[k]) \in Seq(HtmlChars)
                                     /\ Len(Html!Replacement(s[k])) = Html!Width(s[k])
<1>1. Len(s) \in Nat /\ DOMAIN s = 1 .. Len(s)
    BY LenProperties
<1>2. ASSUME NEW c \in TextChars
      PROVE  Html!Replacement(c) \in Seq(HtmlChars) /\ Len(Html!Replacement(c)) = Html!Width(c)
    <2>1. Html!BR \in Seq(HtmlChars) /\ Len(Html!BR) = 4
        BY DEF Html!BR, HtmlChars
    <2>2. <<c>> \in Seq(HtmlChars) /\ Len(<<c>>) = 1
        BY DEF HtmlChars
    <2> QED BY <2>1, <2>2 DEF Html!Replacement, Html!Width
<1>3. \A k \in 1 .. Len(s) : s[k] \in TextChars
    BY ElementOfSeq
<1>4. \A k \in 1 .. Len(s) : Pieces(s)[k] = Html!Replacement(s[k])
    BY <1>1 DEF Pieces, Html!Replacement
<1>5. Pieces(s) \in [1 .. Len(s) -> Seq(HtmlChars)]
    <2>1. DOMAIN Pieces(s) = 1 .. Len(s) /\ Pieces(s) = [k \in 1 .. Len(s) |-> Pieces(s)[k]]
        BY <1>1 DEF Pieces
    <2> QED BY <1>2, <1>3, <1>4, <2>1
<1>6. Pieces(s) \in Seq(Seq(HtmlChars)) /\ Len(Pieces(s)) = Len(s)
    BY <1>1, <1>5
<1> QED BY <1>1, <1>2, <1>3, <1>4, <1>6

(* Where the loops are: F[n] is what the first n characters make.  The     *)
(* first loop has counted F[n], the second has written it.                 *)
LoopsAt(s, F, at, n, counted, d) ==
    /\ n \in 0 .. Len(s)
    /\ \/ at = "count" /\ d = <<>> /\ counted = Len(F[n])
       \/ at = "copy" /\ d = F[n] /\ counted = Len(F[Len(s)])
       \/ at = "done" /\ d = Append(F[Len(s)], Html!NUL) /\ counted = Len(F[Len(s)])

HtmlInv ==
    /\ input \in Seq(TextChars)
    /\ \E F : Prefixes(HtmlChars, Pieces(input), Len(input), F)
             /\ LoopsAt(input, F, loop, i, output_length, dst)

(* Every turn of a loop keeps that.                                        *)
LEMMA NextHtml ==
    HtmlInv /\ [Dns \/ Request \/ HtmlText \/ Options]_mc_vars => HtmlInv'
<1> SUFFICES ASSUME HtmlInv, [Dns \/ Request \/ HtmlText \/ Options]_mc_vars
             PROVE  HtmlInv'
    OBVIOUS
<1>1. CASE UNCHANGED html_vars
    <2>1. /\ input' = input /\ loop' = loop /\ i' = i /\ output_length' = output_length
          /\ dst' = dst
        BY <1>1 DEF html_vars
    <2> QED BY <2>1 DEF HtmlInv
<1>2. CASE Html!Next
    <2>1. input \in Seq(TextChars)
        BY DEF HtmlInv
    <2>2. PICK F : /\ Prefixes(HtmlChars, Pieces(input), Len(input), F)
                   /\ LoopsAt(input, F, loop, i, output_length, dst)
        BY DEF HtmlInv
    <2>3. /\ Len(input) \in Nat /\ i \in 0 .. Len(input)
          /\ 0 \in 0 .. Len(input) /\ F[0] = <<>>
        BY <2>1, <2>2, LenProperties DEF LoopsAt, Prefixes
    <2>4. ASSUME i < Len(input)
          PROVE  /\ i + 1 \in 0 .. Len(input)
                 /\ F[i] \in Seq(HtmlChars)
                 /\ F[i + 1] = F[i] \o Html!Replacement(input[i + 1])
                 /\ Len(F[i + 1]) = Len(F[i]) + Html!Width(input[i + 1])
        <3> DEFINE k == i + 1
        <3>1. k \in 1 .. Len(input) /\ k \in 0 .. Len(input) /\ k - 1 = i
            BY <2>3, <2>4
        <3> HIDE DEF k
        <3>2. /\ Pieces(input)[k] = Html!Replacement(input[k])
              /\ Html!Replacement(input[k]) \in Seq(HtmlChars)
              /\ Len(Html!Replacement(input[k])) = Html!Width(input[k])
            BY <2>1, <3>1, PieceOf
        <3>3. F[k] = F[k - 1] \o Pieces(input)[k] /\ F[i] \in Seq(HtmlChars)
            BY <2>2, <2>3, <3>1 DEF Prefixes
        <3>4. F[k] = F[i] \o Html!Replacement(input[k])
            BY <3>1, <3>2, <3>3
        <3>5. Len(F[k]) = Len(F[i]) + Html!Width(input[k])
            <4>1. Len(F[i] \o Html!Replacement(input[k])) =
                    Len(F[i]) + Len(Html!Replacement(input[k]))
                BY <3>2, <3>3, ConcatProperties
            <4> QED BY <3>2, <3>4, <4>1
        <3> QED BY <3>1, <3>3, <3>4, <3>5 DEF k
    <2>5. CASE Html!Count
        <3>1. /\ loop = "count" /\ i < Len(input) /\ i' = i + 1
              /\ output_length' = output_length + Html!Width(input[i + 1])
              /\ input' = input /\ loop' = loop /\ dst' = dst
            BY <2>5 DEF Html!Count
        <3>2. dst = <<>> /\ output_length = Len(F[i])
            BY <2>2, <3>1 DEF LoopsAt
        <3>3. LoopsAt(input, F, loop', i', output_length', dst')
            BY <2>4, <3>1, <3>2 DEF LoopsAt
        <3> QED BY <2>1, <2>2, <3>1, <3>3 DEF HtmlInv
    <2>6. CASE Html!Counted
        <3>1. /\ loop = "count" /\ i = Len(input) /\ loop' = "copy" /\ i' = 0
              /\ output_length' = output_length /\ input' = input /\ dst' = dst
            BY <2>6 DEF Html!Counted
        <3>2. dst = <<>> /\ output_length = Len(F[Len(input)])
            BY <2>2, <3>1 DEF LoopsAt
        <3>3. LoopsAt(input, F, loop', i', output_length', dst')
            BY <2>3, <3>1, <3>2 DEF LoopsAt
        <3> QED BY <2>1, <2>2, <3>1, <3>3 DEF HtmlInv
    <2>7. CASE Html!Copy
        <3>1. /\ loop = "copy" /\ i < Len(input) /\ i' = i + 1
              /\ dst' = dst \o Html!Replacement(input[i + 1])
              /\ input' = input /\ loop' = loop /\ output_length' = output_length
            BY <2>7 DEF Html!Copy
        <3>2. dst = F[i] /\ output_length = Len(F[Len(input)])
            BY <2>2, <3>1 DEF LoopsAt
        <3>3. LoopsAt(input, F, loop', i', output_length', dst')
            BY <2>4, <3>1, <3>2 DEF LoopsAt
        <3> QED BY <2>1, <2>2, <3>1, <3>3 DEF HtmlInv
    <2>8. CASE Html!Done
        <3>1. /\ loop = "copy" /\ i = Len(input) /\ loop' = "done" /\ i' = i
              /\ output_length' = output_length /\ input' = input
              /\ dst' = Append(dst, Html!NUL)
            BY <2>8 DEF Html!Done
        <3>2. dst = F[Len(input)] /\ output_length = Len(F[Len(input)])
            BY <2>2, <3>1 DEF LoopsAt
        <3>3. LoopsAt(input, F, loop', i', output_length', dst')
            BY <2>3, <3>1, <3>2 DEF LoopsAt
        <3> QED BY <2>1, <2>2, <3>1, <3>3 DEF HtmlInv
    <2> QED BY <1>2, <2>5, <2>6, <2>7, <2>8 DEF Html!Next
<1> QED BY <1>1, <1>2 DEF Dns, Request, HtmlText, Options, mc_vars, vars

(* For every input, of whatever length, replace_newlines_with_html makes   *)
(* it what FlattenSeq says, returns the strlen of that, and writes what    *)
(* its first loop counted and one NUL.                                     *)
THEOREM NewlinesReplaced == MCSpec => []ReplacesNewlines
<1>1. MCInit => HtmlInv
    <2> SUFFICES ASSUME MCInit PROVE HtmlInv
        OBVIOUS
    <2>1. /\ input \in Html!BoundedSeq(TextChars, MAX_INPUT)
          /\ loop = "count" /\ i = 0 /\ output_length = 0 /\ dst = <<>>
        BY DEF MCInit, Html!Init
    <2>2. input \in Seq(TextChars)
        <3>1. PICK m \in 0 .. MAX_INPUT : input \in [1 .. m -> TextChars]
            BY <2>1 DEF Html!BoundedSeq, Html!SeqOf
        <3>2. m \in Nat
            BY InputAssumption
        <3> QED BY <3>1, <3>2
    <2>3. /\ Pieces(input) \in Seq(Seq(HtmlChars)) /\ Len(Pieces(input)) = Len(input)
          /\ Len(input) \in Nat
        BY <2>2, PieceOf
    <2>4. PICK F : Prefixes(HtmlChars, Pieces(input), Len(Pieces(input)), F)
        BY <2>3, PrefixesExist
    <2>5. F[0] = <<>> /\ Len(<<>>) = 0 /\ 0 \in 0 .. Len(input)
        BY <2>3, <2>4, EmptySeq DEF Prefixes
    <2>6. LoopsAt(input, F, loop, i, output_length, dst)
        BY <2>1, <2>5 DEF LoopsAt
    <2> QED BY <2>2, <2>3, <2>4, <2>6 DEF HtmlInv
<1>2. HtmlInv => ReplacesNewlines
    <2> SUFFICES ASSUME HtmlInv PROVE Html!ReplacesNewlines
        BY DEF ReplacesNewlines
    <2>1. /\ Pieces(input) \in Seq(Seq(HtmlChars)) /\ Len(Pieces(input)) = Len(input)
          /\ Len(input) \in Nat
        BY PieceOf DEF HtmlInv
    <2>2. PICK F : /\ Prefixes(HtmlChars, Pieces(input), Len(Pieces(input)), F)
                   /\ LoopsAt(input, F, loop, i, output_length, dst)
        BY <2>1 DEF HtmlInv
    <2>3. \A n \in 0 .. Len(input) : Len(F[n]) <= Len(F[Len(input)])
        BY <2>1, <2>2, PrefixesGrow
    <2>4. Len(input) \in 0 .. Len(input)
        BY <2>1
    <2>5. loop = "copy" => Len(dst) <= output_length
        BY <2>2, <2>3, <2>4 DEF LoopsAt
    <2>6. F[Len(input)] \in Seq(HtmlChars) /\ F[Len(input)] = Html!FlattenSeq(Pieces(input))
        BY <2>1, <2>2, <2>4, FlattenIs DEF Prefixes
    <2>7. ASSUME loop = "done"
          PROVE  /\ dst = Append(Html!FlattenSeq(Pieces(input)), Html!NUL)
                 /\ Len(dst) = output_length + 1
                 /\ \A k \in 1 .. output_length : dst[k] # Html!NUL
        <3> DEFINE f == F[Len(input)]
        <3>1. dst = Append(f, Html!NUL) /\ output_length = Len(f)
            BY <2>2, <2>7 DEF LoopsAt
        <3>2. Html!NUL \notin HtmlChars
            BY InputAssumption DEF Html!NUL, HtmlChars
        <3>3. f \in Seq(HtmlChars)
            BY <2>6
        <3> HIDE DEF f
        <3>4. /\ Len(Append(f, Html!NUL)) = Len(f) + 1
              /\ \A k \in 1 .. Len(f) : Append(f, Html!NUL)[k] = f[k] /\ f[k] \in HtmlChars
            BY <3>3
        <3> QED BY <2>6, <3>1, <3>2, <3>4 DEF f
    <2> QED BY <2>5, <2>7 DEF Html!ReplacesNewlines, Pieces
<1> QED BY <1>1, <1>2, NextHtml, PTL DEF MCSpec

-----------------------------------------------------------------------------
(* The options of a DHCP message.                                          *)

Octet == 0 .. 255
ByteAt(a, k) == IF k < SIZE THEN a[k] ELSE 0
Readable(a) == \A k \in Nat : ByteAt(a, k) \in Nat

(* A turn of opt_find's loop at k, if W[j] is what it finds from j on; and *)
(* W is all of it.                                                         *)
Turn(a, code, W, k) ==
    IF k >= SIZE \/ ByteAt(a, k) = 255 THEN SIZE
    ELSE IF ByteAt(a, k) = code THEN k
    ELSE W[k + (2 + ByteAt(a, k + 1))]
Walked(a, code, W) == \A k \in Nat : W[k] = Turn(a, code, W, k)

(* A turn looks at what is behind it only.                                 *)
LEMMA TurnAhead ==
    ASSUME NEW a, Readable(a), NEW code, NEW V, NEW W, NEW k \in Nat,
           \A j \in Nat : j > k => V[j] = W[j]
    PROVE  Turn(a, code, V, k) = Turn(a, code, W, k)
<1> DEFINE j == k + (2 + ByteAt(a, k + 1))
<1>1. ByteAt(a, k + 1) \in Nat
    BY DEF Readable
<1>2. j \in Nat /\ j > k
    BY <1>1
<1>3. V[j] = W[j]
    BY <1>2
<1> HIDE DEF j
<1> QED BY <1>3 DEF Turn, j

(* The loop of opt_find ends, on every area: it is a function of where it  *)
(* starts.                                                                 *)
LEMMA WalkEnds ==
    ASSUME NEW a, Readable(a), NEW code
    PROVE  \E W : W = [k \in Nat |-> Turn(a, code, W, k)]
<1> DEFINE Good(m, W) == \A k \in Nat : k + m >= SIZE => W[k] = Turn(a, code, W, k)
           T == {m \in Nat : \E W : Good(m, W)}
<1>1. SIZE \in Nat
    BY AreaAssumption
<1>2. 0 \in T
    <2> DEFINE V == [k \in Nat |-> SIZE]
    <2>1. ASSUME NEW k \in Nat, k + 0 >= SIZE PROVE V[k] = Turn(a, code, V, k)
        <3>1. k >= SIZE
            BY <1>1, <2>1
        <3> QED BY <3>1 DEF Turn
    <2> HIDE DEF V
    <2>2. Good(0, V)
        BY <2>1
    <2>3. \E W : Good(0, W)
        <3> HIDE DEF Good
        <3> QED BY <2>2
    <2> HIDE DEF Good
    <2> QED BY <2>3
<1>3. ASSUME NEW m \in Nat, m \in T PROVE m + 1 \in T
    <2>1. PICK W : Good(m, W)
        BY <1>3
    <2> DEFINE V == [k \in Nat |-> IF k + m >= SIZE THEN W[k] ELSE Turn(a, code, W, k)]
    <2>2. ASSUME NEW k \in Nat, k + (m + 1) >= SIZE PROVE V[k] = Turn(a, code, V, k)
        <3>1. ASSUME NEW j \in Nat, j > k PROVE V[j] = W[j]
            <4>1. j + m >= SIZE
                BY <1>1, <2>2, <3>1
            <4> QED BY <4>1
        <3>2. Turn(a, code, V, k) = Turn(a, code, W, k)
            <4> HIDE DEF V
            <4> QED BY <3>1, TurnAhead
        <3>3. V[k] = Turn(a, code, W, k)
            BY <2>1
        <3> QED BY <3>2, <3>3
    <2> HIDE DEF V
    <2>3. Good(m + 1, V)
        BY <2>2
    <2>4. \E U : Good(m + 1, U)
        <3> HIDE DEF Good
        <3> QED BY <2>3
    <2> HIDE DEF Good
    <2> QED BY <2>4
<1> HIDE DEF T
<1>4. SIZE \in T
    BY <1>1, <1>2, <1>3, Induct
<1>5. PICK W : Good(SIZE, W)
    BY <1>4 DEF T
<1> DEFINE V == [k \in Nat |-> W[k]]
<1>6. ASSUME NEW k \in Nat PROVE V[k] = Turn(a, code, V, k)
    <2>1. k + SIZE >= SIZE
        BY <1>1
    <2>2. W[k] = Turn(a, code, W, k)
        BY <1>5, <2>1
    <2>3. \A j \in Nat : j > k => V[j] = W[j]
        OBVIOUS
    <2>4. V[k] = W[k]
        OBVIOUS
    <2> HIDE DEF V
    <2>5. Turn(a, code, V, k) = Turn(a, code, W, k)
        BY <2>3, TurnAhead
    <2> QED BY <2>2, <2>4, <2>5
<1>7. V = [k \in Nat |-> Turn(a, code, V, k)]
    <2>1. V = [k \in Nat |-> V[k]]
        OBVIOUS
    <2> HIDE DEF V
    <2> QED BY <1>6, <2>1
<1> HIDE DEF V
<1> QED BY <1>7

(* So opt_find's result is that of the turns.                              *)
LEMMA FindWalks ==
    ASSUME NEW a, Readable(a), NEW code
    PROVE  \E W : Walked(a, code, W) /\ Opts!opt_find(a, code) = W[0]
<1> DEFINE V == CHOOSE W : W = [k \in Nat |-> Turn(a, code, W, k)]
<1>1. V = [k \in Nat |-> Turn(a, code, V, k)]
    BY WalkEnds
<1>2. Opts!opt_find(a, code) = V[0]
    BY DEF Opts!opt_find, Turn, ByteAt, Opts!Skip, Opts!NULL, Opts!DHCP_OPT_END
<1> HIDE DEF V
<1>3. Walked(a, code, V)
    BY <1>1 DEF Walked
<1> QED BY <1>2, <1>3
(* The message m is what the list os of its options says: P[k] is where    *)
(* the k-th starts, the last place where they end; en if the end follows.  *)
Entries == [code : Octet, at : Nat]
Laid(m, os, en, P) ==
    /\ P \in [1 .. Len(os) + 1 -> Nat] /\ P[1] = 0
    /\ Len(m) = P[Len(os) + 1] + (IF en THEN 1 ELSE 0)
    /\ en => m[P[Len(os) + 1] + 1] = 255
    /\ \A k \in 1 .. Len(os) :
        /\ os[k] = [code |-> m[P[k] + 1], at |-> P[k]] /\ m[P[k] + 1] # 255
        /\ P[k + 1] = P[k] + (2 + m[P[k] + 2]) /\ P[k] + 2 <= Len(m)

(* The bytes of one option.                                                *)
OptionOf(code, n, byte) == <<code, n>> \o [k \in 1 .. n |-> byte]

(* Its code, its length, and n more.                                       *)
LEMMA OptionBytes ==
    ASSUME NEW code \in Octet, NEW n \in Octet, NEW byte \in Octet,
           NEW b, b = OptionOf(code, n, byte)
    PROVE  b \in Seq(Octet) /\ Len(b) = 2 + n /\ b[1] = code /\ b[2] = n
<1> DEFINE d == [k \in 1 .. n |-> byte]
           h == <<code, n>>
<1>1. n \in Nat
    BY DEF Octet
<1>2. d \in Seq(Octet) /\ Len(d) = n
    BY <1>1
<1>3. h \in Seq(Octet) /\ Len(h) = 2 /\ h[1] = code /\ h[2] = n
    OBVIOUS
<1> HIDE DEF d, h
<1>4. /\ h \o d \in Seq(Octet) /\ Len(h \o d) = Len(h) + Len(d)
      /\ \A k \in 1 .. Len(h) + Len(d) : (h \o d)[k] = IF k <= Len(h) THEN h[k] ELSE d[k - Len(h)]
    BY <1>2, <1>3, ConcatProperties
<1>5. 1 \in 1 .. 2 + n /\ 2 \in 1 .. 2 + n /\ 1 <= 2
    BY <1>1
<1>6. h \o d \in Seq(Octet) /\ Len(h \o d) = 2 + n /\ (h \o d)[1] = code /\ (h \o d)[2] = n
    BY <1>2, <1>3, <1>4, <1>5
<1> QED BY <1>6 DEF h, d, OptionOf

(* Two texts, one behind the other.                                        *)
LEMMA JoinedAre ==
    ASSUME NEW S, NEW s \in Seq(S), NEW t \in Seq(S), NEW j, j = s \o t
    PROVE  /\ j \in Seq(S) /\ Len(j) = Len(s) + Len(t)
           /\ \A k \in 1 .. Len(s) + Len(t) : j[k] = IF k <= Len(s) THEN s[k] ELSE t[k - Len(s)]
  BY ConcatProperties

(* The bytes b are an option with n bytes of data, not the end.            *)
OptionLong(b, n) == Len(b) = 2 + n /\ b[1] # 255 /\ b[2] = n

(* One more option behind the others.                                      *)
LEMMA LaidOption ==
    ASSUME NEW m \in Seq(Octet), NEW os \in Seq(Entries), NEW P, Laid(m, os, FALSE, P),
           NEW b \in Seq(Octet), NEW n \in Octet, OptionLong(b, n)
    PROVE  \E Q : Laid(m \o b, os \o <<[code |-> b[1], at |-> Len(m)]>>, FALSE, Q)
<1> DEFINE o == [code |-> b[1], at |-> Len(m)]
           mb == m \o b
           oo == os \o <<o>>
           L == Len(os)
           e == Len(m) + (2 + n)
           Q == [k \in 1 .. L + 2 |-> IF k = L + 2 THEN e ELSE P[k]]
<1>1. Len(m) \in Nat /\ L \in Nat /\ n \in Nat /\ Len(b) \in Nat
    BY LenProperties DEF Octet
<1>2. /\ mb \in Seq(Octet) /\ Len(mb) = e
      /\ \A k \in 1 .. e : mb[k] = IF k <= Len(m) THEN m[k] ELSE b[k - Len(m)]
    <2>1. /\ mb \in Seq(Octet) /\ Len(mb) = Len(m) + Len(b)
          /\ \A k \in 1 .. Len(m) + Len(b) : mb[k] = IF k <= Len(m) THEN m[k] ELSE b[k - Len(m)]
        <3>1. mb = m \o b
            OBVIOUS
        <3> HIDE DEF mb
        <3> QED BY <3>1, JoinedAre
    <2>2. Len(m) + Len(b) = e
        BY <1>1 DEF OptionLong
    <2> QED BY <2>1, <2>2
<1>3. /\ Len(oo) = L + 1 /\ oo[L + 1] = o
      /\ \A k \in 1 .. L : oo[k] = os[k]
    <2>1. o \in Entries
        <3>1. 1 \in 1 .. Len(b)
            BY <1>1 DEF OptionLong
        <3>2. b[1] \in Octet
            BY <3>1, ElementOfSeq
        <3> QED BY <1>1, <3>2 DEF Entries
    <2> HIDE DEF o
    <2>2. <<o>> \in Seq(Entries) /\ Len(<<o>>) = 1 /\ <<o>>[1] = o
        BY <2>1
    <2>3. /\ Len(oo) = L + Len(<<o>>)
          /\ \A k \in 1 .. L + Len(<<o>>) : oo[k] = IF k <= L THEN os[k] ELSE <<o>>[k - L]
        BY <2>2, ConcatProperties
    <2>4. L + 1 \in 1 .. L + 1 /\ ~(L + 1 <= L) /\ (L + 1) - L = 1
          /\ \A k \in 1 .. L : k \in 1 .. L + 1 /\ k <= L
        BY <1>1
    <2> QED BY <2>2, <2>3, <2>4
<1>4. /\ P \in [1 .. L + 1 -> Nat] /\ P[1] = 0 /\ Len(m) = P[L + 1]
    <2>1. /\ P \in [1 .. L + 1 -> Nat] /\ P[1] = 0 /\ Len(m) = P[L + 1] + 0
        BY DEF Laid
    <2>2. L + 1 \in 1 .. L + 1
        BY <1>1
    <2>3. P[L + 1] \in Nat
        BY <2>1, <2>2
    <2> QED BY <2>1, <2>3
<1>5. mb[Len(m) + 1] = b[1] /\ mb[Len(m) + 2] = n
    <2>1. /\ Len(m) + 1 \in 1 .. e /\ ~(Len(m) + 1 <= Len(m)) /\ (Len(m) + 1) - Len(m) = 1
          /\ Len(m) + 2 \in 1 .. e /\ ~(Len(m) + 2 <= Len(m)) /\ (Len(m) + 2) - Len(m) = 2
        BY <1>1
    <2> QED BY <1>2, <2>1 DEF OptionLong
<1>6. e \in Nat
    BY <1>1
<1>7. Q \in [1 .. L + 2 -> Nat] /\ Q[L + 2] = e /\ \A k \in 1 .. L + 1 : Q[k] = P[k]
    <2> HIDE DEF e, L
    <2>1. ASSUME NEW k \in 1 .. L + 2, k # L + 2 PROVE k \in 1 .. L + 1
        BY <1>1, <2>1
    <2>2. L + 2 \in 1 .. L + 2 /\ \A k \in 1 .. L + 1 : k \in 1 .. L + 2 /\ k # L + 2
        BY <1>1
    <2> QED BY <1>4, <1>6, <2>1, <2>2
<1>e. e = Len(m) + (2 + n)
    OBVIOUS
<1>L. \A k \in 1 .. L :
        /\ os[k] = [code |-> m[P[k] + 1], at |-> P[k]] /\ m[P[k] + 1] # 255
        /\ P[k + 1] = P[k] + (2 + m[P[k] + 2]) /\ P[k] + 2 <= Len(m)
    BY DEF Laid
<1> HIDE DEF Q, L, e, mb, oo
<1>8. ASSUME NEW k \in 1 .. L + 1
      PROVE  /\ oo[k] = [code |-> mb[Q[k] + 1], at |-> Q[k]] /\ mb[Q[k] + 1] # 255
             /\ Q[k + 1] = Q[k] + (2 + mb[Q[k] + 2]) /\ Q[k] + 2 <= e
    <2>1. CASE k = L + 1
        <3>1. Q[k] = Len(m) /\ k + 1 = L + 2
            <4>1. Q[k] = P[L + 1]
                BY <1>7, <2>1
            <4>2. (L + 1) + 1 = L + 2
                BY <1>1
            <4> QED BY <1>4, <2>1, <4>1, <4>2
        <3>2. Q[k + 1] = e
            BY <1>7, <3>1
        <3>3. oo[k] = [code |-> b[1], at |-> Len(m)]
            BY <1>3, <2>1
        <3>4. Len(m) + 2 <= e
            BY <1>1, <1>e
        <3>5. oo[k] = [code |-> mb[Q[k] + 1], at |-> Q[k]]
            BY <1>5, <3>1, <3>3
        <3>6. Q[k + 1] = Q[k] + (2 + mb[Q[k] + 2])
            BY <1>5, <1>e, <3>1, <3>2
        <3>7. mb[Q[k] + 1] # 255 /\ Q[k] + 2 <= e
            BY <1>5, <3>1, <3>4 DEF OptionLong
        <3> QED BY <3>5, <3>6, <3>7
    <2>2. CASE k # L + 1
        <3>1. k \in 1 .. L /\ k \in 1 .. L + 1 /\ k + 1 \in 1 .. L + 1
            BY <1>1, <2>2
        <3>2. /\ os[k] = [code |-> m[P[k] + 1], at |-> P[k]] /\ m[P[k] + 1] # 255
              /\ P[k + 1] = P[k] + (2 + m[P[k] + 2]) /\ P[k] + 2 <= Len(m)
            BY <1>L, <3>1
        <3>3. P[k] \in Nat
            BY <1>4, <3>1
        <3>5. /\ P[k] + 1 \in 1 .. e /\ P[k] + 1 <= Len(m)
              /\ P[k] + 2 \in 1 .. e /\ P[k] + 2 <= Len(m)
            <4> DEFINE p == P[k]
            <4>1. p \in Nat /\ p + 2 <= Len(m)
                BY <3>2, <3>3
            <4> HIDE DEF p
            <4>2. /\ p + 1 \in 1 .. e /\ p + 1 <= Len(m)
                  /\ p + 2 \in 1 .. e /\ p + 2 <= Len(m)
                BY <1>1, <1>e, <4>1
            <4> QED BY <4>2 DEF p
        <3>6. mb[P[k] + 1] = m[P[k] + 1] /\ mb[P[k] + 2] = m[P[k] + 2]
            BY <1>2, <3>5
        <3>7. P[k] + 2 <= e
            BY <3>5
        <3> QED BY <1>3, <1>7, <3>1, <3>2, <3>6, <3>7
    <2> QED BY <2>1, <2>2
<1>9. Q[1] = 0
    <2>1. 1 \in 1 .. L + 1
        BY <1>1
    <2> QED BY <1>4, <1>7, <2>1
<1>10. Len(oo) + 1 = L + 2 /\ e = e + 0
    BY <1>1, <1>3, <1>6
<1>11. Laid(mb, oo, FALSE, Q)
    BY <1>2, <1>3, <1>7, <1>8, <1>9, <1>10 DEF Laid
<1> QED BY <1>11 DEF mb, oo, o
(* The end behind the options.                                             *)
LEMMA LaidEnd ==
    ASSUME NEW m \in Seq(Octet), NEW os \in Seq(Entries), NEW P, Laid(m, os, FALSE, P)
    PROVE  Laid(m \o <<255>>, os, TRUE, P)
<1> DEFINE me == m \o <<255>>
           L == Len(os)
<1>1. Len(m) \in Nat /\ L \in Nat
    BY LenProperties
<1>2. /\ P \in [1 .. L + 1 -> Nat] /\ P[1] = 0 /\ Len(m) = P[L + 1]
    <2>1. /\ P \in [1 .. L + 1 -> Nat] /\ P[1] = 0 /\ Len(m) = P[L + 1] + 0
        BY DEF Laid
    <2>2. L + 1 \in 1 .. L + 1
        BY <1>1
    <2>3. P[L + 1] \in Nat
        BY <2>1, <2>2
    <2> QED BY <2>1, <2>3
<1>3. Len(me) = Len(m) + 1 /\ me[Len(m) + 1] = 255 /\ \A k \in 1 .. Len(m) : me[k] = m[k]
    OBVIOUS
<1> HIDE DEF me, L
<1>4. ASSUME NEW k \in 1 .. L
      PROVE  /\ os[k] = [code |-> me[P[k] + 1], at |-> P[k]] /\ me[P[k] + 1] # 255
             /\ P[k + 1] = P[k] + (2 + me[P[k] + 2]) /\ P[k] + 2 <= Len(me)
    <2>1. /\ os[k] = [code |-> m[P[k] + 1], at |-> P[k]] /\ m[P[k] + 1] # 255
          /\ P[k + 1] = P[k] + (2 + m[P[k] + 2]) /\ P[k] + 2 <= Len(m)
        BY DEF Laid, L
    <2> DEFINE p == P[k]
    <2>2. p \in Nat /\ p + 2 <= Len(m)
        <3>1. k \in 1 .. L + 1
            BY <1>1
        <3> QED BY <1>2, <2>1, <3>1
    <2> HIDE DEF p
    <2>3. p + 1 \in 1 .. Len(m) /\ p + 2 \in 1 .. Len(m) /\ p + 2 <= Len(m) + 1
        BY <1>1, <2>2
    <2>4. P[k] + 1 \in 1 .. Len(m) /\ P[k] + 2 \in 1 .. Len(m) /\ P[k] + 2 <= Len(me)
        BY <1>3, <2>3 DEF p
    <2>5. me[P[k] + 1] = m[P[k] + 1] /\ me[P[k] + 2] = m[P[k] + 2]
        BY <1>3, <2>4
    <2> QED BY <2>1, <2>4, <2>5
<1>5. Laid(me, os, TRUE, P)
    BY <1>2, <1>3, <1>4 DEF Laid, L
<1> QED BY <1>5 DEF me

(* A turn at an option that is not looked for goes on behind it.           *)
LEMMA Hop ==
    ASSUME NEW a, NEW code, NEW W, Walked(a, code, W), NEW p \in Nat, p + 1 < SIZE,
           a[p] # 255, a[p] # code
    PROVE  W[p] = W[p + (2 + a[p + 1])]
<1>1. p < SIZE /\ ~(p >= SIZE) /\ p + 1 < SIZE
    BY AreaAssumption
<1>2. ByteAt(a, p) = a[p] /\ ByteAt(a, p + 1) = a[p + 1]
    BY <1>1 DEF ByteAt
<1>3. W[p] = Turn(a, code, W, p)
    BY DEF Walked
<1> QED BY <1>1, <1>2, <1>3 DEF Turn

(* One at the option, and one at the end.                                  *)
LEMMA Stop ==
    ASSUME NEW a, NEW code, NEW W, Walked(a, code, W), NEW p \in Nat, p < SIZE
    PROVE  /\ a[p] = 255 => W[p] = SIZE
           /\ a[p] # 255 /\ a[p] = code => W[p] = p
<1>1. ~(p >= SIZE)
    BY AreaAssumption
<1>2. ByteAt(a, p) = a[p]
    BY DEF ByteAt
<1>3. W[p] = Turn(a, code, W, p)
    BY DEF Walked
<1> QED BY <1>1, <1>2, <1>3 DEF Turn

(* x is what is to be found: where the first option with the code is, or   *)
(* nowhere.                                                                *)
FirstWith(os, code, x) ==
    IF \E k \in DOMAIN os : os[k].code = code
    THEN \E k \in DOMAIN os : /\ os[k] = [code |-> code, at |-> x]
                             /\ \A j \in 1 .. k - 1 : os[j].code # code
    ELSE x = SIZE

(* The k-th option as the walk meets it.                                   *)
OptionAt(os, P, a, k) ==
    /\ os[k] = [code |-> a[P[k]], at |-> P[k]] /\ os[k].code = a[P[k]]
    /\ a[P[k]] # 255 /\ P[k] \in Nat /\ P[k] + 1 < SIZE
    /\ P[k + 1] = P[k] + (2 + a[P[k] + 1])

(* The message m is in the area.                                           *)
InArea(m, a) == \A k \in 1 .. Len(m) : a[k - 1] = m[k]

(* The walk over a message that has its end finds the first option with    *)
(* the code.                                                               *)
LEMMA WalkFindsFirst ==
    ASSUME NEW m \in Seq(Octet), Len(m) < SIZE, NEW os \in Seq(Entries),
           NEW P, Laid(m, os, TRUE, P),
           NEW a, InArea(m, a),
           NEW code, code # 255, NEW W, Walked(a, code, W)
    PROVE  FirstWith(os, code, W[0])
<1> DEFINE L == Len(os)
           T == {k \in Nat : k <= L /\ (\A j \in 1 .. k : os[j].code # code)
                              => W[0] = W[P[k + 1]]}
<1>1. Len(m) \in Nat /\ L \in Nat /\ DOMAIN os = 1 .. L /\ SIZE \in Nat
    BY LenProperties, AreaAssumption
<1>2. /\ P \in [1 .. L + 1 -> Nat] /\ P[1] = 0
      /\ Len(m) = P[L + 1] + 1 /\ m[P[L + 1] + 1] = 255
    BY DEF Laid
<1>3. ASSUME NEW k \in 1 .. L
      PROVE  OptionAt(os, P, a, k)
    <2>1. /\ os[k] = [code |-> m[P[k] + 1], at |-> P[k]] /\ m[P[k] + 1] # 255
          /\ P[k + 1] = P[k] + (2 + m[P[k] + 2]) /\ P[k] + 2 <= Len(m)
        BY DEF Laid
    <2> DEFINE p == P[k]
    <2>2. p \in Nat /\ p + 2 <= Len(m)
        <3>1. k \in 1 .. L + 1
            BY <1>1
        <3> QED BY <1>2, <2>1, <3>1
    <2> HIDE DEF p
    <2>3. /\ p + 1 \in 1 .. Len(m) /\ p + 2 \in 1 .. Len(m) /\ p + 1 < SIZE
          /\ (p + 1) - 1 = p /\ (p + 2) - 1 = p + 1
        BY <1>1, <2>2
    <2>4. a[p] = m[p + 1] /\ a[p + 1] = m[p + 2]
        BY <2>3 DEF InArea
    <2> QED BY <2>1, <2>2, <2>3, <2>4 DEF p, OptionAt
<1>4. 0 \in T
    <2>1. 0 + 1 = 1
        OBVIOUS
    <2> QED BY <1>2, <2>1
<1>5. ASSUME NEW k \in Nat, k \in T PROVE k + 1 \in T
    <2> SUFFICES ASSUME k + 1 <= L, \A j \in 1 .. k + 1 : os[j].code # code
                 PROVE  W[0] = W[P[(k + 1) + 1]]
        OBVIOUS
    <2>1. k <= L /\ (\A j \in 1 .. k : j \in 1 .. k + 1) /\ k + 1 \in 1 .. L /\ k + 1 \in 1 .. k + 1
        BY <1>1
    <2>2. W[0] = W[P[k + 1]]
        BY <1>5, <2>1
    <2> DEFINE n == k + 1
               p == P[n]
    <2>3. n \in 1 .. L /\ os[n].code # code /\ W[0] = W[p]
        BY <2>1, <2>2
    <2> HIDE DEF n
    <2>4. p \in Nat /\ p + 1 < SIZE /\ a[p] # 255 /\ a[p] # code /\ P[n + 1] = p + (2 + a[p + 1])
        <3>1. OptionAt(os, P, a, n)
            BY <1>3, <2>3
        <3> QED BY <2>3, <3>1 DEF OptionAt
    <2> HIDE DEF p
    <2>5. W[p] = W[p + (2 + a[p + 1])]
        BY <2>4, Hop
    <2>6. W[0] = W[P[n + 1]]
        BY <2>3, <2>4, <2>5
    <2> QED BY <2>6 DEF n
<1>6. \A k \in Nat : k \in T
    <2> HIDE DEF T
    <2> QED BY <1>4, <1>5, Induct
<1>7. CASE \E k \in DOMAIN os : os[k].code = code
    <2> DEFINE H == {k \in 1 .. L : os[k].code = code}
    <2>1. H \subseteq Nat /\ H # {}
        BY <1>1, <1>7
    <2>2. PICK k \in H : \A j \in H : k <= j
        <3> HIDE DEF H
        <3> QED BY <2>1, Least
    <2>3. k \in 1 .. L /\ os[k].code = code
        BY <2>2
    <2>4. ASSUME NEW j \in 1 .. k - 1 PROVE os[j].code # code
        <3>1. j \in 1 .. L /\ ~(k <= j)
            BY <1>1, <2>3
        <3> QED BY <2>2, <3>1
    <2>5. k - 1 \in Nat /\ k - 1 <= L /\ (k - 1) + 1 = k
        BY <1>1, <2>3
    <2>6. W[0] = W[P[k]]
        <3>1. k - 1 \in T
            BY <1>6, <2>5
        <3> QED BY <2>4, <2>5, <3>1
    <2>7. /\ os[k] = [code |-> a[P[k]], at |-> P[k]] /\ os[k].code = a[P[k]]
          /\ a[P[k]] # 255 /\ P[k] \in Nat /\ P[k] + 1 < SIZE
        BY <1>3, <2>3 DEF OptionAt
    <2>8. W[P[k]] = P[k]
        <3> DEFINE p == P[k]
        <3>1. p \in Nat /\ p < SIZE /\ a[p] # 255 /\ a[p] = code
            BY <1>1, <2>3, <2>7
        <3> HIDE DEF p
        <3>2. W[p] = p
            BY <3>1, Stop
        <3> QED BY <3>2 DEF p
    <2>9. os[k] = [code |-> code, at |-> W[0]]
        BY <2>3, <2>6, <2>7, <2>8
    <2> QED BY <1>1, <1>7, <2>3, <2>4, <2>9 DEF FirstWith
<1>8. CASE ~\E k \in DOMAIN os : os[k].code = code
    <2>1. W[0] = W[P[L + 1]]
        <3>1. L \in T /\ L <= L
            BY <1>1, <1>6
        <3> QED BY <1>1, <1>8, <3>1
    <2> DEFINE e == P[L + 1]
    <2>2. e \in Nat
        <3>1. L + 1 \in 1 .. L + 1
            BY <1>1
        <3> QED BY <1>2, <3>1
    <2>3. Len(m) = e + 1 /\ m[e + 1] = 255
        BY <1>2
    <2> HIDE DEF e
    <2>4. e < SIZE /\ e + 1 \in 1 .. Len(m) /\ (e + 1) - 1 = e
        BY <1>1, <2>2, <2>3
    <2>5. a[e] = 255
        BY <2>3, <2>4 DEF InArea
    <2>6. W[e] = SIZE
        BY <2>2, <2>4, <2>5, Stop
    <2> QED BY <1>8, <2>1, <2>6 DEF e, FirstWith
<1> QED BY <1>7, <1>8
(* And so does opt_find.                                                   *)
LEMMA SearchFindsFirst ==
    ASSUME NEW m \in Seq(Octet), Len(m) < SIZE, NEW os \in Seq(Entries),
           NEW P, Laid(m, os, TRUE, P),
           NEW a, InArea(m, a), Readable(a),
           NEW code, code # 255
    PROVE  FirstWith(os, code, Opts!opt_find(a, code))
<1>1. PICK W : Walked(a, code, W) /\ Opts!opt_find(a, code) = W[0]
    BY FindWalks
<1>2. Walked(a, code, W)
    BY <1>1
<1>3. FirstWith(os, code, W[0])
    BY <1>2, WalkFindsFirst
<1> QED BY <1>1, <1>3

(* Code and length of an option of the reply, at p.                        *)
Holds(a, p, code, n) == a[p] = code /\ a[p + 1] = n

(* What of the reply is in the area when the next option goes to o.        *)
ReplyUpTo(a, o) ==
    /\ a \in [0 .. SIZE - 1 -> Octet]
    /\ o > 0 => Holds(a, 0, 53, 1)
    /\ o > 3 => Holds(a, 3, 54, 4)
    /\ o > 9 => Holds(a, 9, 1, 4)
    /\ o > 15 => Holds(a, 15, 3, 4)
    /\ o > 21 => Holds(a, 21, 6, 4)
    /\ o > 27 => Holds(a, 27, 51, 4)
    /\ o > 33 => a[33] = 255

ReplyOptions ==
    {[code |-> 53, at |-> 0], [code |-> 54, at |-> 3], [code |-> 1, at |-> 9],
     [code |-> 3, at |-> 15], [code |-> 6, at |-> 21], [code |-> 51, at |-> 27]}

(* What opt_write_n makes of the area a.                                   *)
WriteAt(a, o, code, n) ==
    [k \in DOMAIN a |-> CASE k = o -> code
                          [] k = o + 1 -> n
                          [] k \in o + 2 .. o + 1 + n -> 255
                          [] OTHER -> a[k]]

(* b has the options that a has below o.                                   *)
Kept(a, b, o) ==
    \A p \in 0 .. 26 : \A c, d : p + 1 < o /\ Holds(a, p, c, d) => Holds(b, p, c, d)

(* An option written at o leaves what is below o alone.                    *)
LEMMA Writes ==
    ASSUME NEW a \in [0 .. SIZE - 1 -> Octet], NEW o \in 0 .. 27,
           NEW code \in Octet, NEW n \in Octet, NEW b, b = WriteAt(a, o, code, n)
    PROVE  /\ b \in [0 .. SIZE - 1 -> Octet]
           /\ Holds(b, o, code, n)
           /\ Kept(a, b, o)
<1>1. SIZE \in Nat /\ SIZE > 33 /\ DOMAIN a = 0 .. SIZE - 1
    BY AreaAssumption
<1>2. ASSUME NEW k \in 0 .. SIZE - 1
      PROVE  /\ b[k] \in Octet
             /\ k = o => b[k] = code
             /\ k = o + 1 => b[k] = n
             /\ k < o => b[k] = a[k]
    <2> DEFINE R == o + 2 .. o + 1 + n
    <2>1. b[k] = CASE k = o -> code [] k = o + 1 -> n [] k \in R -> 255 [] OTHER -> a[k]
        BY <1>1 DEF WriteAt
    <2>2. a[k] \in Octet /\ 255 \in Octet
        <3>1. 255 \in Octet
            BY DEF Octet
        <3> QED BY <3>1
    <2>3. /\ o # o + 1 /\ o \notin R /\ o + 1 \notin R
          /\ k < o => k # o /\ k # o + 1 /\ k \notin R
        BY <1>1 DEF Octet
    <2> HIDE DEF R
    <2>4. CASE k = o
        BY <2>1, <2>3, <2>4
    <2>5. CASE k = o + 1
        BY <2>1, <2>3, <2>5
    <2>6. CASE k \in R /\ k # o /\ k # o + 1
        BY <2>1, <2>2, <2>3, <2>6
    <2>7. CASE k \notin R /\ k # o /\ k # o + 1
        BY <2>1, <2>2, <2>3, <2>7
    <2> QED BY <2>4, <2>5, <2>6, <2>7
<1>3. o \in 0 .. SIZE - 1 /\ o + 1 \in 0 .. SIZE - 1
    BY <1>1
<1>4. b = [k \in 0 .. SIZE - 1 |-> b[k]]
    BY <1>1 DEF WriteAt
<1>5. b \in [0 .. SIZE - 1 -> Octet]
    BY <1>2, <1>4
<1>6. Holds(b, o, code, n)
    BY <1>2, <1>3 DEF Holds
<1>7. ASSUME NEW p \in 0 .. 26, NEW c, NEW d, p + 1 < o, Holds(a, p, c, d)
      PROVE  Holds(b, p, c, d)
    <2>1. p \in 0 .. SIZE - 1 /\ p + 1 \in 0 .. SIZE - 1 /\ p < o
        BY <1>1, <1>7
    <2>2. b[p] = a[p] /\ b[p + 1] = a[p + 1]
        BY <1>2, <1>7, <2>1
    <2> QED BY <1>7, <2>2 DEF Holds
<1> QED BY <1>5, <1>6, <1>7 DEF Kept

(* A whole reply reads back.                                               *)
LEMMA ReplyReads ==
    ASSUME NEW a, ReplyUpTo(a, 34), NEW w \in ReplyOptions
    PROVE  Opts!opt_find(a, w.code) = w.at
<1>1. /\ a[0] = 53 /\ a[0 + 1] = 1 /\ a[3] = 54 /\ a[3 + 1] = 4 /\ a[9] = 1 /\ a[9 + 1] = 4
      /\ a[15] = 3 /\ a[15 + 1] = 4 /\ a[21] = 6 /\ a[21 + 1] = 4 /\ a[27] = 51
    BY DEF ReplyUpTo, Holds
<1>2. Readable(a)
    <2> SUFFICES ASSUME NEW k \in Nat PROVE ByteAt(a, k) \in Nat
        BY DEF Readable
    <2>1. CASE k < SIZE
        <3>1. k \in 0 .. SIZE - 1
            BY <2>1, AreaAssumption
        <3>2. a[k] \in Octet
            BY <3>1 DEF ReplyUpTo
        <3> QED BY <2>1, <3>2 DEF ByteAt, Octet
    <2>2. CASE ~(k < SIZE)
        BY <2>2 DEF ByteAt
    <2> QED BY <2>1, <2>2
<1>3. PICK W : Walked(a, w.code, W) /\ Opts!opt_find(a, w.code) = W[0]
    BY <1>2, FindWalks
<1>4. SIZE \in Nat /\ 0 + 1 < SIZE /\ 3 + 1 < SIZE /\ 9 + 1 < SIZE /\ 15 + 1 < SIZE /\ 21 + 1 < SIZE
    BY AreaAssumption
<1>5. w.code # 53 => W[0] = W[3]
    <2>1. w.code # 53 => W[0] = W[0 + (2 + a[0 + 1])]
        BY <1>1, <1>3, <1>4, Hop
    <2>2. 0 + (2 + a[0 + 1]) = 3
        BY <1>1
    <2> QED BY <2>1, <2>2
<1>6. w.code # 54 => W[3] = W[9]
    <2>1. w.code # 54 => W[3] = W[3 + (2 + a[3 + 1])]
        BY <1>1, <1>3, <1>4, Hop
    <2>2. 3 + (2 + a[3 + 1]) = 9
        BY <1>1
    <2> QED BY <2>1, <2>2
<1>7. w.code # 1 => W[9] = W[15]
    <2>1. w.code # 1 => W[9] = W[9 + (2 + a[9 + 1])]
        BY <1>1, <1>3, <1>4, Hop
    <2>2. 9 + (2 + a[9 + 1]) = 15
        BY <1>1
    <2> QED BY <2>1, <2>2
<1>8. w.code # 3 => W[15] = W[21]
    <2>1. w.code # 3 => W[15] = W[15 + (2 + a[15 + 1])]
        BY <1>1, <1>3, <1>4, Hop
    <2>2. 15 + (2 + a[15 + 1]) = 21
        BY <1>1
    <2> QED BY <2>1, <2>2
<1>9. w.code # 6 => W[21] = W[27]
    <2>1. w.code # 6 => W[21] = W[21 + (2 + a[21 + 1])]
        BY <1>1, <1>3, <1>4, Hop
    <2>2. 21 + (2 + a[21 + 1]) = 27
        BY <1>1
    <2> QED BY <2>1, <2>2
<1>10. W[w.at] = w.at
    <2>1. w.at \in Nat /\ w.at < SIZE /\ a[w.at] = w.code /\ w.code # 255
        BY <1>1, AreaAssumption DEF ReplyOptions
    <2> QED BY <1>3, <2>1, Stop
<1>11. W[0] = W[w.at]
    <2>1. CASE w = [code |-> 53, at |-> 0]
        <3>1. w.code = 53 /\ w.at = 0
            BY <2>1
        <3> QED BY <3>1
    <2>2. CASE w = [code |-> 54, at |-> 3]
        <3>1. w.code = 54 /\ w.at = 3
            BY <2>2
        <3> QED BY <3>1, <1>5
    <2>3. CASE w = [code |-> 1, at |-> 9]
        <3>1. w.code = 1 /\ w.at = 9
            BY <2>3
        <3> QED BY <3>1, <1>5, <1>6
    <2>4. CASE w = [code |-> 3, at |-> 15]
        <3>1. w.code = 3 /\ w.at = 15
            BY <2>4
        <3> QED BY <3>1, <1>5, <1>6, <1>7
    <2>5. CASE w = [code |-> 6, at |-> 21]
        <3>1. w.code = 6 /\ w.at = 21
            BY <2>5
        <3> QED BY <3>1, <1>5, <1>6, <1>7, <1>8
    <2>6. CASE w = [code |-> 51, at |-> 27]
        <3>1. w.code = 51 /\ w.at = 27
            BY <2>6
        <3> QED BY <3>1, <1>5, <1>6, <1>7, <1>8, <1>9
    <2> QED BY <2>1, <2>2, <2>3, <2>4, <2>5, <2>6 DEF ReplyOptions
<1> QED BY <1>3, <1>10, <1>11
(* The message a client puts together, and the area the reply is written   *)
(* into.                                                                   *)
MsgInv(m, os, pad, en) ==
    /\ m \in Seq(Octet) /\ Len(m) < SIZE /\ os \in Seq(Entries)
    /\ en \in BOOLEAN
    /\ ~pad => \E P : Laid(m, os, en, P)

AreaInv(at, a, o, w) ==
    /\ at \in {"client", "found", "sent"}
    /\ at = "client" => o = 0 /\ w = {}
    /\ at = "found" => o \in {0, 3, 9, 15, 21, 27, 33}
    /\ at = "sent" => o = 34
    /\ at # "client" => ReplyUpTo(a, o) /\ w \subseteq ReplyOptions

OptsInv ==
    /\ MsgInv(msg, options, padded, ended)
    /\ AreaInv(stage, area, opt, written)
    /\ Opts!FindsFirst

(* While the client puts its message together only the message changes.    *)
LEMMA Adding ==
    ASSUME OptsInv, NEW b \in Seq(Octet), NEW os \in Seq(Entries), Opts!Add(b, os)
    PROVE  /\ msg' = msg \o b /\ options' = options \o os /\ ended = FALSE
           /\ msg' \in Seq(Octet) /\ Len(msg') < SIZE /\ options' \in Seq(Entries)
           /\ AreaInv(stage, area, opt, written)' /\ Opts!FindsFirst'
<1>1. /\ stage = "client" /\ ~ended /\ Len(msg) + Len(b) < SIZE
      /\ msg' = msg \o b /\ options' = options \o os
      /\ area' = area /\ opt' = opt /\ written' = written /\ stage' = stage
    BY DEF Opts!Add
<1>2. msg \in Seq(Octet) /\ options \in Seq(Entries) /\ ended = FALSE
    BY <1>1 DEF OptsInv, MsgInv
<1>3. msg' \in Seq(Octet) /\ Len(msg') = Len(msg) + Len(b)
    BY <1>1, <1>2, ConcatProperties
<1>4. options' \in Seq(Entries)
    BY <1>1, <1>2, ConcatProperties
<1>5. Opts!FindsFirst'
    BY <1>1 DEF Opts!FindsFirst
<1>6. AreaInv(stage, area, opt, written)'
    BY <1>1 DEF OptsInv, AreaInv
<1> QED BY <1>1, <1>2, <1>3, <1>4, <1>5, <1>6

(* An option, a pad or the end is added.                                   *)
LEMMA Adds ==
    /\ \A code \in ClientCodes, n \in OptionLengths, byte \in Bytes :
            OptsInv /\ Opts!AddOption(code, n, byte) => OptsInv'
    /\ OptsInv /\ Opts!AddPad => OptsInv'
    /\ OptsInv /\ Opts!AddEnd => OptsInv'
<1>1. ASSUME OptsInv, NEW code \in ClientCodes, NEW n \in OptionLengths, NEW byte \in Bytes,
             Opts!AddOption(code, n, byte)
      PROVE  OptsInv'
    <2> DEFINE b == OptionOf(code, n, byte)
               o == [code |-> code, at |-> Len(msg)]
    <2>1. code \in Octet /\ code # 255 /\ n \in Octet /\ byte \in Octet
        BY AreaAssumption DEF Octet
    <2>2. b \in Seq(Octet) /\ Len(b) = 2 + n /\ b[1] = code /\ b[2] = n
        BY <2>1, OptionBytes
    <2>3. Opts!Add(b, <<o>>) /\ padded' = padded /\ ended' = ended
        BY <1>1 DEF Opts!AddOption, OptionOf
    <2> HIDE DEF b
    <2>4. msg \in Seq(Octet) /\ options \in Seq(Entries) /\ Len(msg) \in Nat
        BY <1>1, LenProperties DEF OptsInv, MsgInv
    <2>5. <<o>> \in Seq(Entries)
        <3>1. o \in Entries
            BY <2>1, <2>4 DEF Entries
        <3> HIDE DEF o
        <3> QED BY <3>1
    <2>6. /\ msg' = msg \o b /\ options' = options \o <<o>> /\ ended = FALSE
          /\ msg' \in Seq(Octet) /\ Len(msg') < SIZE /\ options' \in Seq(Entries)
          /\ AreaInv(stage, area, opt, written)' /\ Opts!FindsFirst'
        <3> HIDE DEF o
        <3> QED BY <1>1, <2>2, <2>3, <2>5, Adding
    <2>7. ~padded' => \E Q : Laid(msg', options', ended', Q)
        <3> SUFFICES ASSUME ~padded PROVE \E Q : Laid(msg', options', FALSE, Q)
            BY <2>3, <2>6
        <3>1. PICK P : Laid(msg, options, FALSE, P)
            BY <1>1, <2>6 DEF OptsInv, MsgInv
        <3>2. OptionLong(b, n)
            BY <2>1, <2>2 DEF OptionLong
        <3>3. \E Q : Laid(msg \o b, options \o <<[code |-> b[1], at |-> Len(msg)]>>, FALSE, Q)
            BY <2>1, <2>2, <2>4, <3>1, <3>2, LaidOption
        <3> QED BY <2>2, <2>6, <3>3
    <2>8. MsgInv(msg, options, padded, ended)'
        BY <2>3, <2>6, <2>7 DEF MsgInv
    <2> QED BY <2>6, <2>8 DEF OptsInv
<1>2. ASSUME OptsInv, Opts!AddPad PROVE OptsInv'
    <2>1. Opts!Add(<<0>>, <<>>) /\ padded' = TRUE /\ ended' = ended
        BY <1>2 DEF Opts!AddPad, Opts!DHCP_OPT_PAD
    <2>2. <<0>> \in Seq(Octet) /\ <<>> \in Seq(Entries)
        BY DEF Octet
    <2>3. /\ ended = FALSE
          /\ msg' \in Seq(Octet) /\ Len(msg') < SIZE /\ options' \in Seq(Entries)
          /\ AreaInv(stage, area, opt, written)' /\ Opts!FindsFirst'
        BY <1>2, <2>1, <2>2, Adding
    <2>4. MsgInv(msg, options, padded, ended)'
        BY <2>1, <2>3 DEF MsgInv
    <2> QED BY <2>3, <2>4 DEF OptsInv
<1>3. ASSUME OptsInv, Opts!AddEnd PROVE OptsInv'
    <2>1. Opts!Add(<<255>>, <<>>) /\ padded' = padded /\ ended' = TRUE
        BY <1>3 DEF Opts!AddEnd, Opts!DHCP_OPT_END
    <2>2. <<255>> \in Seq(Octet) /\ <<>> \in Seq(Entries)
        BY DEF Octet
    <2>3. /\ ended = FALSE /\ msg' = msg \o <<255>> /\ options' = options \o <<>>
          /\ msg' \in Seq(Octet) /\ Len(msg') < SIZE /\ options' \in Seq(Entries)
          /\ AreaInv(stage, area, opt, written)' /\ Opts!FindsFirst'
        <3> DEFINE b == <<255>>
                   none == <<>>
        <3>1. Opts!Add(b, none) /\ b \in Seq(Octet) /\ none \in Seq(Entries)
            BY <2>1, <2>2
        <3> HIDE DEF b, none
        <3>2. /\ msg' = msg \o b /\ options' = options \o none /\ ended = FALSE
              /\ msg' \in Seq(Octet) /\ Len(msg') < SIZE /\ options' \in Seq(Entries)
              /\ AreaInv(stage, area, opt, written)' /\ Opts!FindsFirst'
            BY <1>3, <3>1, Adding
        <3> QED BY <3>2 DEF b, none
    <2>4. msg \in Seq(Octet) /\ options \in Seq(Entries) /\ options' = options
        BY <1>3, <2>3, ConcatEmptySeq DEF OptsInv, MsgInv
    <2>5. ~padded' => \E Q : Laid(msg', options', ended', Q)
        <3> SUFFICES ASSUME ~padded PROVE \E Q : Laid(msg', options', TRUE, Q)
            BY <2>1
        <3>1. PICK P : Laid(msg, options, FALSE, P)
            BY <1>3, <2>3 DEF OptsInv, MsgInv
        <3>2. Laid(msg \o <<255>>, options, TRUE, P)
            BY <2>4, <3>1, LaidEnd
        <3> QED BY <2>3, <2>4, <3>2
    <2>6. MsgInv(msg, options, padded, ended)'
        BY <2>1, <2>3, <2>5 DEF MsgInv
    <2> QED BY <2>3, <2>6 DEF OptsInv
<1> QED BY <1>1, <1>2, <1>3

(* A message that arrives, and the search of dhcp_server_process in it.    *)
LEMMA Receives ==
    ASSUME OptsInv, NEW code, code # 255, NEW byte \in Bytes, Opts!Receive(code, byte)
    PROVE  OptsInv'
<1>1. /\ stage = "client" /\ stage' = "found" /\ cmd' = code
      /\ area' = [k \in 0 .. SIZE - 1 |-> IF k < Len(msg) THEN msg[k + 1] ELSE byte]
      /\ found' = Opts!opt_find(area', code)
      /\ msg' = msg /\ options' = options /\ padded' = padded /\ ended' = ended
      /\ opt' = opt /\ written' = written
    BY DEF Opts!Receive
<1>2. /\ msg \in Seq(Octet) /\ Len(msg) < SIZE /\ options \in Seq(Entries)
      /\ Len(msg) \in Nat /\ SIZE \in Nat /\ byte \in Octet
      /\ opt = 0 /\ written = {}
    BY <1>1, LenProperties, AreaAssumption DEF OptsInv, MsgInv, AreaInv, Octet
<1>3. MsgInv(msg, options, padded, ended)'
    BY <1>1 DEF OptsInv
<1>a. PICK a : a = area'
    OBVIOUS
<1>4. ASSUME NEW k \in 0 .. SIZE - 1
      PROVE  a[k] \in Octet /\ (k < Len(msg) => a[k] = msg[k + 1])
    <2>1. a[k] = IF k < Len(msg) THEN msg[k + 1] ELSE byte
        BY <1>1, <1>a
    <2>2. k < Len(msg) => msg[k + 1] \in Octet
        <3>1. k < Len(msg) => k + 1 \in 1 .. Len(msg)
            BY <1>2
        <3> QED BY <1>2, <3>1, ElementOfSeq
    <2> QED BY <1>2, <2>1, <2>2
<1>5. a \in [0 .. SIZE - 1 -> Octet]
    <2>1. a = [k \in 0 .. SIZE - 1 |-> a[k]]
        BY <1>1, <1>a
    <2> QED BY <1>4, <2>1
<1>6. AreaInv(stage, area, opt, written)'
    <2>1. ReplyUpTo(a, 0)
        BY <1>5 DEF ReplyUpTo
    <2>2. {} \subseteq ReplyOptions
        OBVIOUS
    <2>3. AreaInv("found", a, 0, {})
        BY <2>1, <2>2 DEF AreaInv
    <2> QED BY <1>1, <1>a, <1>2, <2>3
<1>7. Opts!FindsFirst'
    <2> SUFFICES ASSUME ended, ~padded PROVE Opts!FoundIsFirst'
        BY <1>1 DEF Opts!FindsFirst
    <2>1. PICK P : Laid(msg, options, TRUE, P)
        <3>1. ended = TRUE
            BY DEF OptsInv, MsgInv
        <3> QED BY <3>1 DEF OptsInv, MsgInv
    <2>2. Readable(a)
        <3> SUFFICES ASSUME NEW k \in Nat PROVE ByteAt(a, k) \in Nat
            BY DEF Readable
        <3>1. CASE k < SIZE
            <4>1. k \in 0 .. SIZE - 1
                BY <1>2, <3>1
            <4>2. a[k] \in Octet
                BY <1>4, <4>1
            <4> QED BY <3>1, <4>2 DEF ByteAt, Octet
        <3>2. CASE ~(k < SIZE)
            BY <3>2 DEF ByteAt
        <3> QED BY <3>1, <3>2
    <2>4. ASSUME NEW k \in 1 .. Len(msg) PROVE a[k - 1] = msg[k]
        <3>1. k - 1 \in 0 .. SIZE - 1 /\ k - 1 < Len(msg) /\ (k - 1) + 1 = k
            BY <1>2
        <3> QED BY <1>4, <3>1
    <2>5. FirstWith(options, code, Opts!opt_find(a, code))
        <3>1. InArea(msg, a)
            BY <2>4 DEF InArea
        <3>2. msg \in Seq(Octet) /\ Len(msg) < SIZE /\ options \in Seq(Entries)
            BY <1>2
        <3> QED BY <2>1, <2>2, <3>1, <3>2, SearchFindsFirst
    <2>6. FirstWith(options', cmd', found')
        BY <1>1, <1>a, <2>5
    <2> QED BY <2>6, Zenon DEF FirstWith, Opts!FoundIsFirst, Opts!IsFirst, Opts!NULL
<1> QED BY <1>3, <1>6, <1>7 DEF OptsInv

(* One option of the reply after the other is written.                     *)
LEMMA WritesReply == OptsInv /\ Opts!WriteReply => OptsInv'
<1> SUFFICES ASSUME OptsInv, Opts!WriteReply PROVE OptsInv'
    OBVIOUS
<1>1. /\ stage = "found"
      /\ msg' = msg /\ options' = options /\ padded' = padded /\ ended' = ended
      /\ cmd' = cmd /\ found' = found
    BY DEF Opts!WriteReply
<1>2. MsgInv(msg, options, padded, ended)'
    BY <1>1 DEF OptsInv
<1>3. Opts!FindsFirst'
    BY <1>1 DEF OptsInv, Opts!FindsFirst, Opts!FoundIsFirst, Opts!IsFirst
<1>4. ReplyUpTo(area, opt) /\ written \subseteq ReplyOptions
    BY <1>1 DEF OptsInv, AreaInv
<1>5. area \in [0 .. SIZE - 1 -> Octet]
    BY <1>4 DEF ReplyUpTo
<1>6. ASSUME NEW code \in Octet, NEW n \in Octet, Opts!opt_write_n(code, n), stage' = stage,
             opt \in 0 .. 27, [code |-> code, at |-> opt] \in ReplyOptions
      PROVE  /\ area' = WriteAt(area, opt, code, n) /\ opt' = opt + 2 + n
             /\ written' \subseteq ReplyOptions /\ stage' = "found"
             /\ area' \in [0 .. SIZE - 1 -> Octet]
             /\ Holds(area', opt, code, n)
             /\ Kept(area, area', opt)
    <2>1. /\ area' = WriteAt(area, opt, code, n) /\ opt' = opt + 2 + n
          /\ written' = written \cup {[code |-> code, at |-> opt]}
        BY <1>6 DEF Opts!opt_write_n, Opts!DHCP_OPT_END, WriteAt
    <2>2. /\ area' \in [0 .. SIZE - 1 -> Octet] /\ Holds(area', opt, code, n)
          /\ Kept(area, area', opt)
        BY <1>5, <1>6, <2>1, Writes
    <2>3. written' \subseteq ReplyOptions
        BY <1>4, <1>6, <2>1
    <2> QED BY <1>1, <1>6, <2>1, <2>2, <2>3
<1>7. ASSUME opt = 0, Opts!opt_write_u8(Opts!DHCP_OPT_MSG_TYPE), stage' = stage
      PROVE  AreaInv(stage, area, opt, written)'
    <2>1. Opts!opt_write_n(53, 1)
        BY <1>7 DEF Opts!DHCP_OPT_MSG_TYPE, Opts!opt_write_u8
    <2>2. 53 \in Octet /\ 1 \in Octet /\ opt \in 0 .. 27
        BY <1>7 DEF Octet
    <2>3. [code |-> 53, at |-> opt] \in ReplyOptions
        BY <1>7 DEF ReplyOptions
    <2>4. /\ opt' = opt + 2 + 1 /\ stage' = "found" /\ written' \subseteq ReplyOptions
          /\ area' \in [0 .. SIZE - 1 -> Octet] /\ Holds(area', opt, 53, 1)
          /\ Kept(area, area', opt)
        BY <1>6, <1>7, <2>1, <2>2, <2>3
    <2>5. opt' = 3 /\ Holds(area', 0, 53, 1)
        BY <1>7, <2>4
    <2>7. ReplyUpTo(area', 3)
        BY <2>4, <2>5 DEF ReplyUpTo
    <2> QED BY <2>4, <2>5, <2>7 DEF AreaInv
<1>8. ASSUME opt = 3, Opts!opt_write_n(Opts!DHCP_OPT_SERVER_ID, 4), stage' = stage
      PROVE  AreaInv(stage, area, opt, written)'
    <2>1. Opts!opt_write_n(54, 4)
        BY <1>8 DEF Opts!DHCP_OPT_SERVER_ID
    <2>2. 54 \in Octet /\ 4 \in Octet /\ opt \in 0 .. 27
        BY <1>8 DEF Octet
    <2>3. [code |-> 54, at |-> opt] \in ReplyOptions
        BY <1>8 DEF ReplyOptions
    <2>4. /\ opt' = opt + 2 + 4 /\ stage' = "found" /\ written' \subseteq ReplyOptions
          /\ area' \in [0 .. SIZE - 1 -> Octet] /\ Holds(area', opt, 54, 4)
          /\ Kept(area, area', opt)
        BY <1>6, <1>8, <2>1, <2>2, <2>3
    <2>5. opt' = 9 /\ Holds(area', 3, 54, 4)
        BY <1>8, <2>4
    <2>6. Holds(area', 0, 53, 1)
        <3>1. Holds(area, 0, 53, 1)
            BY <1>4, <1>8 DEF ReplyUpTo
        <3> QED BY <1>8, <2>4, <3>1 DEF Kept
    <2>7. ReplyUpTo(area', 9)
        BY <2>4, <2>5, <2>6 DEF ReplyUpTo
    <2> QED BY <2>4, <2>5, <2>7 DEF AreaInv
<1>9. ASSUME opt = 9, Opts!opt_write_n(Opts!DHCP_OPT_SUBNET_MASK, 4), stage' = stage
      PROVE  AreaInv(stage, area, opt, written)'
    <2>1. Opts!opt_write_n(1, 4)
        BY <1>9 DEF Opts!DHCP_OPT_SUBNET_MASK
    <2>2. 1 \in Octet /\ 4 \in Octet /\ opt \in 0 .. 27
        BY <1>9 DEF Octet
    <2>3. [code |-> 1, at |-> opt] \in ReplyOptions
        BY <1>9 DEF ReplyOptions
    <2>4. /\ opt' = opt + 2 + 4 /\ stage' = "found" /\ written' \subseteq ReplyOptions
          /\ area' \in [0 .. SIZE - 1 -> Octet] /\ Holds(area', opt, 1, 4)
          /\ Kept(area, area', opt)
        BY <1>6, <1>9, <2>1, <2>2, <2>3
    <2>5. opt' = 15 /\ Holds(area', 9, 1, 4)
        BY <1>9, <2>4
    <2>6. Holds(area', 0, 53, 1) /\ Holds(area', 3, 54, 4)
        <3>1. Holds(area, 0, 53, 1) /\ Holds(area, 3, 54, 4)
            BY <1>4, <1>9 DEF ReplyUpTo
        <3> QED BY <1>9, <2>4, <3>1 DEF Kept
    <2>7. ReplyUpTo(area', 15)
        BY <2>4, <2>5, <2>6 DEF ReplyUpTo
    <2> QED BY <2>4, <2>5, <2>7 DEF AreaInv
<1>10. ASSUME opt = 15, Opts!opt_write_n(Opts!DHCP_OPT_ROUTER, 4), stage' = stage
      PROVE  AreaInv(stage, area, opt, written)'
    <2>1. Opts!opt_write_n(3, 4)
        BY <1>10 DEF Opts!DHCP_OPT_ROUTER
    <2>2. 3 \in Octet /\ 4 \in Octet /\ opt \in 0 .. 27
        BY <1>10 DEF Octet
    <2>3. [code |-> 3, at |-> opt] \in ReplyOptions
        BY <1>10 DEF ReplyOptions
    <2>4. /\ opt' = opt + 2 + 4 /\ stage' = "found" /\ written' \subseteq ReplyOptions
          /\ area' \in [0 .. SIZE - 1 -> Octet] /\ Holds(area', opt, 3, 4)
          /\ Kept(area, area', opt)
        BY <1>6, <1>10, <2>1, <2>2, <2>3
    <2>5. opt' = 21 /\ Holds(area', 15, 3, 4)
        BY <1>10, <2>4
    <2>6. Holds(area', 0, 53, 1) /\ Holds(area', 3, 54, 4) /\ Holds(area', 9, 1, 4)
        <3>1. Holds(area, 0, 53, 1) /\ Holds(area, 3, 54, 4) /\ Holds(area, 9, 1, 4)
            BY <1>4, <1>10 DEF ReplyUpTo
        <3> QED BY <1>10, <2>4, <3>1 DEF Kept
    <2>7. ReplyUpTo(area', 21)
        BY <2>4, <2>5, <2>6 DEF ReplyUpTo
    <2> QED BY <2>4, <2>5, <2>7 DEF AreaInv
<1>11. ASSUME opt = 21, Opts!opt_write_n(Opts!DHCP_OPT_DNS, 4), stage' = stage
      PROVE  AreaInv(stage, area, opt, written)'
    <2>1. Opts!opt_write_n(6, 4)
        BY <1>11 DEF Opts!DHCP_OPT_DNS
    <2>2. 6 \in Octet /\ 4 \in Octet /\ opt \in 0 .. 27
        BY <1>11 DEF Octet
    <2>3. [code |-> 6, at |-> opt] \in ReplyOptions
        BY <1>11 DEF ReplyOptions
    <2>4. /\ opt' = opt + 2 + 4 /\ stage' = "found" /\ written' \subseteq ReplyOptions
          /\ area' \in [0 .. SIZE - 1 -> Octet] /\ Holds(area', opt, 6, 4)
          /\ Kept(area, area', opt)
        BY <1>6, <1>11, <2>1, <2>2, <2>3
    <2>5. opt' = 27 /\ Holds(area', 21, 6, 4)
        BY <1>11, <2>4
    <2>6. /\ Holds(area', 0, 53, 1) /\ Holds(area', 3, 54, 4) /\ Holds(area', 9, 1, 4)
          /\ Holds(area', 15, 3, 4)
        <3>1. /\ Holds(area, 0, 53, 1) /\ Holds(area, 3, 54, 4) /\ Holds(area, 9, 1, 4)
              /\ Holds(area, 15, 3, 4)
            BY <1>4, <1>11 DEF ReplyUpTo
        <3> QED BY <1>11, <2>4, <3>1 DEF Kept
    <2>7. ReplyUpTo(area', 27)
        BY <2>4, <2>5, <2>6 DEF ReplyUpTo
    <2> QED BY <2>4, <2>5, <2>7 DEF AreaInv
<1>12. ASSUME opt = 27, Opts!opt_write_u32(Opts!DHCP_OPT_IP_LEASE_TIME), stage' = stage
      PROVE  AreaInv(stage, area, opt, written)'
    <2>1. Opts!opt_write_n(51, 4)
        BY <1>12 DEF Opts!DHCP_OPT_IP_LEASE_TIME, Opts!opt_write_u32
    <2>2. 51 \in Octet /\ 4 \in Octet /\ opt \in 0 .. 27
        BY <1>12 DEF Octet
    <2>3. [code |-> 51, at |-> opt] \in ReplyOptions
        BY <1>12 DEF ReplyOptions
    <2>4. /\ opt' = opt + 2 + 4 /\ stage' = "found" /\ written' \subseteq ReplyOptions
          /\ area' \in [0 .. SIZE - 1 -> Octet] /\ Holds(area', opt, 51, 4)
          /\ Kept(area, area', opt)
        BY <1>6, <1>12, <2>1, <2>2, <2>3
    <2>5. opt' = 33 /\ Holds(area', 27, 51, 4)
        BY <1>12, <2>4
    <2>6. /\ Holds(area', 0, 53, 1) /\ Holds(area', 3, 54, 4) /\ Holds(area', 9, 1, 4)
          /\ Holds(area', 15, 3, 4) /\ Holds(area', 21, 6, 4)
        <3>1. /\ Holds(area, 0, 53, 1) /\ Holds(area, 3, 54, 4) /\ Holds(area, 9, 1, 4)
              /\ Holds(area, 15, 3, 4) /\ Holds(area, 21, 6, 4)
            BY <1>4, <1>12 DEF ReplyUpTo
        <3> QED BY <1>12, <2>4, <3>1 DEF Kept
    <2>7. ReplyUpTo(area', 33)
        BY <2>4, <2>5, <2>6 DEF ReplyUpTo
    <2> QED BY <2>4, <2>5, <2>7 DEF AreaInv
<1>13. ASSUME opt = 33 /\ area' = [area EXCEPT ![opt] = Opts!DHCP_OPT_END] /\ opt' = opt + 1
           /\ stage' = "sent" /\ written' = written
      PROVE  AreaInv(stage, area, opt, written)'
    <2>1. /\ area' = [area EXCEPT ![33] = 255] /\ 255 \in Octet
          /\ opt' = 34 /\ written' \subseteq ReplyOptions
        BY <1>4, <1>13 DEF Opts!DHCP_OPT_END, Octet
    <2>2. 33 \in 0 .. SIZE - 1
        BY AreaAssumption
    <2>3. area' \in [0 .. SIZE - 1 -> Octet] /\ area'[33] = 255
        BY <1>5, <2>1, <2>2
    <2>4. \A p \in 0 .. 27 : \A c, d : Holds(area, p, c, d) => Holds(area', p, c, d)
        <3> SUFFICES ASSUME NEW p \in 0 .. 27, NEW c, NEW d, Holds(area, p, c, d)
                     PROVE  Holds(area', p, c, d)
            OBVIOUS
        <3>1. p # 33 /\ p \in 0 .. SIZE - 1 /\ p + 1 # 33 /\ p + 1 \in 0 .. SIZE - 1
            BY AreaAssumption
        <3>2. area'[p] = area[p] /\ area'[p + 1] = area[p + 1]
            BY <1>5, <2>1, <3>1
        <3> QED BY <3>2 DEF Holds
    <2>5. /\ Holds(area, 0, 53, 1) /\ Holds(area, 3, 54, 4) /\ Holds(area, 9, 1, 4)
          /\ Holds(area, 15, 3, 4) /\ Holds(area, 21, 6, 4) /\ Holds(area, 27, 51, 4)
        BY <1>4, <1>13 DEF ReplyUpTo
    <2>6. /\ Holds(area', 0, 53, 1) /\ Holds(area', 3, 54, 4) /\ Holds(area', 9, 1, 4)
          /\ Holds(area', 15, 3, 4) /\ Holds(area', 21, 6, 4) /\ Holds(area', 27, 51, 4)
        BY <2>4, <2>5
    <2>7. ReplyUpTo(area', 34)
        BY <2>3, <2>6 DEF ReplyUpTo
    <2> QED BY <1>13, <2>1, <2>7 DEF AreaInv
<1>14. AreaInv(stage, area, opt, written)'
    BY <1>7, <1>8, <1>9, <1>10, <1>11, <1>12, <1>13 DEF Opts!WriteReply
<1> QED BY <1>2, <1>3, <1>14 DEF OptsInv

(* Every step of the run keeps the message, the search and the reply.      *)
LEMMA NextOpts ==
    OptsInv /\ [Dns \/ Request \/ HtmlText \/ Options]_mc_vars => OptsInv'
<1> SUFFICES ASSUME OptsInv, [Dns \/ Request \/ HtmlText \/ Options]_mc_vars
             PROVE  OptsInv'
    OBVIOUS
<1>1. CASE UNCHANGED option_vars
    <2>1. /\ msg' = msg /\ options' = options /\ padded' = padded /\ ended' = ended
          /\ area' = area /\ cmd' = cmd /\ found' = found /\ opt' = opt
          /\ written' = written /\ stage' = stage
        BY <1>1 DEF option_vars
    <2> QED BY <2>1 DEF OptsInv, Opts!FindsFirst, Opts!FoundIsFirst, Opts!IsFirst
<1>2. CASE Opts!Next
    <2>1. \A code \in {Opts!DHCP_OPT_MSG_TYPE, Opts!DHCP_OPT_REQUESTED_IP} : code # 255
        BY DEF Opts!DHCP_OPT_MSG_TYPE, Opts!DHCP_OPT_REQUESTED_IP
    <2>2. ASSUME NEW code \in {Opts!DHCP_OPT_MSG_TYPE, Opts!DHCP_OPT_REQUESTED_IP},
                 NEW byte \in Bytes, Opts!Receive(code, byte)
          PROVE  OptsInv'
        BY <2>1, <2>2, Receives
    <2> QED BY <1>2, <2>2, Adds, WritesReply DEF Opts!Next
<1> QED BY <1>1, <1>2 DEF Dns, Request, HtmlText, Options, mc_vars, vars

(* The option area as the server starts.                                   *)
LEMMA InitOpts == MCInit => OptsInv
<1> SUFFICES ASSUME MCInit PROVE OptsInv
    OBVIOUS
<1>1. /\ msg = <<>> /\ options = <<>> /\ ended = FALSE /\ stage = "client"
      /\ opt = 0 /\ written = {}
    BY DEF MCInit, Opts!Init
<1>2. <<>> \in Seq(Octet) /\ <<>> \in Seq(Entries) /\ Len(<<>>) = 0
    BY EmptySeq
<1> DEFINE P == [k \in 1 .. 1 |-> 0]
<1>3. P \in [1 .. 1 -> Nat] /\ P[1] = 0
    OBVIOUS
<1> HIDE DEF P
<1>4. Laid(<<>>, <<>>, FALSE, P)
    <2>1. Len(<<>>) + 1 = 1 /\ 1 .. Len(<<>>) = {} /\ Len(<<>>) = P[1] + 0
        BY <1>2, <1>3
    <2> QED BY <1>3, <2>1 DEF Laid
<1>5. MsgInv(msg, options, padded, ended)
    <2>1. 0 < SIZE
        BY AreaAssumption
    <2> QED BY <1>1, <1>2, <1>4, <2>1 DEF MsgInv
<1>6. AreaInv(stage, area, opt, written)
    BY <1>1 DEF AreaInv
<1>7. Opts!FindsFirst
    BY <1>1 DEF Opts!FindsFirst
<1> QED BY <1>5, <1>6, <1>7 DEF OptsInv

(* For every message of whole options that has its end, whatever is in the *)
(* data and behind the end, opt_find finds the first option with the code  *)
(* looked for, and says so if there is none.                               *)
THEOREM FirstFound == MCSpec => []FindsFirst
<1>1. OptsInv => FindsFirst
    BY DEF OptsInv, FindsFirst
<1> QED BY <1>1, InitOpts, NextOpts, PTL DEF MCSpec

(* Whatever request it is written over, every option of the reply is found *)
(* by opt_find where opt_write_n wrote it.                                 *)
THEOREM ReplyFound == MCSpec => []ReplyReadsBack
<1>1. OptsInv => ReplyReadsBack
    <2> SUFFICES ASSUME OptsInv, stage = "sent", NEW w \in written
                 PROVE  Opts!opt_find(area, w.code) = w.at
        BY DEF ReplyReadsBack, Opts!ReplyReadsBack
    <2>1. ReplyUpTo(area, 34) /\ w \in ReplyOptions
        BY DEF OptsInv, AreaInv
    <2> QED BY <2>1, ReplyReads
<1> QED BY <1>1, InitOpts, NextOpts, PTL DEF MCSpec

=============================================================================
