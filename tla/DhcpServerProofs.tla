-------------------------- MODULE DhcpServerProofs --------------------------
(***************************************************************************)
(* Proofs about DhcpServer and DhcpStations, for every number of stations  *)
(* and addresses, every clock and every lease time that fits the clock.    *)
(***************************************************************************)
EXTENDS DhcpStations, FiniteSetTheorems, TLAPS

-----------------------------------------------------------------------------
(* Remainders by an arbitrary modulus, and the wrapping counter.           *)

(* Division with remainder, as the provers need it spelled out.            *)
LEMMA DivMod ==
    ASSUME NEW a \in Int, NEW m \in Nat, m > 0
    PROVE  /\ a % m \in Int /\ 0 <= a % m /\ a % m < m
           /\ a \div m \in Int
           /\ a = (m * (a \div m)) + (a % m)
BY Z3

(* A remainder is determined by any quotient that leaves it in range.      *)
LEMMA ModUnique ==
    ASSUME NEW m \in Nat, m > 0, NEW q \in Int, NEW r \in Int, 0 <= r, r < m
    PROVE  ((m * q) + r) % m = r
<1> DEFINE a == (m * q) + r
           k == a \div m
           s == a % m
<1>1. a \in Int
  OBVIOUS
<1>2. k \in Int /\ s \in Int /\ 0 <= s /\ s < m /\ a = (m * k) + s
  BY <1>1, DivMod
<1>3. m * (q - k) = s - r
  BY <1>2
<1>4. q - k = 0
  <2>1. CASE q - k >= 1
    <3>1. m * (q - k) >= m
      BY <1>2, <2>1
    <3>. QED  BY <3>1, <1>2, <1>3
  <2>2. CASE q - k <= -1
    <3>1. m * (q - k) <= -m
      BY <1>2, <2>2
    <3>. QED  BY <3>1, <1>2, <1>3
  <2>. QED  BY <1>2, <2>1, <2>2
<1>5. s = r
  <2>1. m * (q - k) = 0
    BY <1>4, <1>2
  <2>. QED  BY <2>1, <1>2, <1>3
<1>. QED  BY <1>5

(* Whole turns of the counter do not change what it shows.                 *)
LEMMA ModShift ==
    ASSUME NEW m \in Nat, m > 0, NEW q \in Int, NEW a \in Int
    PROVE  ((m * q) + a) % m = a % m
<1> DEFINE k == a \div m
           s == a % m
<1>1. k \in Int /\ s \in Int /\ 0 <= s /\ s < m /\ a = (m * k) + s
  BY DivMod
<1>2. (m * q) + a = (m * (q + k)) + s
  BY <1>1
<1>3. ((m * (q + k)) + s) % m = s
  <2>1. q + k \in Int
    BY <1>1
  <2> HIDE DEF k, s
  <2>. QED  BY <1>1, <2>1, ModUnique
<1>. QED  BY <1>2, <1>3

(* The constants in the form the steps below use them.                     *)
LEMMA Clock ==
    /\ GRANULE \in Nat /\ GRANULE > 0
    /\ WRAP \in Nat /\ WRAP > 0
    /\ LEASE \in Nat /\ LEASE > 0
    /\ TICKS \in Nat /\ TICKS > 0
    /\ TICKS = GRANULE * WRAP
    /\ 2 * (LEASE + GRANULE) <= TICKS
<1>1. GRANULE \in Nat /\ GRANULE > 0 /\ WRAP \in Nat /\ WRAP > 0
      /\ LEASE \in Nat /\ LEASE > 0
  BY ClockAssumption
<1>2. TICKS \in Nat /\ TICKS = GRANULE * WRAP
  BY <1>1 DEF TICKS
<1>3. 2 * (LEASE + GRANULE) <= TICKS
  BY ClockAssumption
<1>. QED  BY <1>1, <1>2, <1>3

(* The expiry field stored at time t: it fits its field, and, widened with *)
(* one bits, it lies less than a granule after what the counter shows when *)
(* the lease is over.                                                      *)
LEMMA ExpiryRange ==
    ASSUME NEW t \in Nat
    PROVE  LET y == (ExpiryAt(t) * GRANULE) + (GRANULE - 1)
               r == (t + LEASE) % TICKS
           IN  /\ ExpiryAt(t) \in 0 .. WRAP - 1
               /\ y \in Int /\ r \in Int
               /\ r <= y /\ y <= r + (GRANULE - 1)
<1> DEFINE T == TICKS
           r == (t + LEASE) % T
           e == r \div GRANULE
           y == (e * GRANULE) + (GRANULE - 1)
<1>1. ((t % T) + LEASE) % T = r
  <2> DEFINE k == t \div T
  <2>1. k \in Int /\ t % T \in Int /\ t = (T * k) + (t % T)
    BY Clock, DivMod
  <2>2. t + LEASE = (T * k) + ((t % T) + LEASE)
    BY <2>1, Clock
  <2>3. (t % T) + LEASE \in Int
    BY <2>1, Clock
  <2> HIDE DEF k, T
  <2>4. ((T * k) + ((t % T) + LEASE)) % T = ((t % T) + LEASE) % T
    BY <2>1, <2>3, Clock, ModShift DEF T
  <2>. QED  BY <2>2, <2>4
<1>2. ExpiryAt(t) = e
  BY <1>1 DEF ExpiryAt
<1>3. r \in Int /\ 0 <= r /\ r < T
  BY Clock, DivMod
<1>4. e \in Int /\ r % GRANULE \in Int /\ 0 <= r % GRANULE /\ r % GRANULE < GRANULE
      /\ r = (GRANULE * e) + (r % GRANULE)
  <2> HIDE DEF r
  <2>. QED  BY <1>3, Clock, DivMod
<1> HIDE DEF r, e, T
<1>5. e * GRANULE = GRANULE * e
  BY <1>4, Clock
<1>6. r <= y /\ y <= r + (GRANULE - 1) /\ y \in Int
  BY <1>3, <1>4, <1>5, Clock
<1>7. 0 <= e
  <2>1. CASE e <= -1
    <3>1. GRANULE * e <= -GRANULE
      BY <2>1, <1>4, Clock
    <3>. QED  BY <3>1, <1>3, <1>4, Clock
  <2>. QED  BY <2>1, <1>4
<1>8. e <= WRAP - 1
  <2>1. CASE e >= WRAP
    <3>1. GRANULE * e >= GRANULE * WRAP
      BY <2>1, <1>4, Clock
    <3>. QED  BY <3>1, <1>3, <1>4, Clock DEF T
  <2>. QED  BY <2>1, <1>4, Clock
<1>. QED  BY <1>2, <1>3, <1>4, <1>6, <1>7, <1>8, Clock DEF r, T

(* dhcp_server_process never takes a lease for expired before its time is  *)
(* over, wherever the counter wraps in between.                            *)
LEMMA NotExpired ==
    ASSUME NEW t \in Nat, NEW n \in Nat, t <= n, n <= t + LEASE
    PROVE  ~ExpiredAt(ExpiryAt(t), n)
<1> DEFINE T == TICKS
           x == t + LEASE
           r == x % T
           y == (ExpiryAt(t) * GRANULE) + (GRANULE - 1)
           d == (x - n) + (y - r)
<1>1. y \in Int /\ r \in Int /\ r <= y /\ y <= r + (GRANULE - 1)
  BY ExpiryRange
<1>2. d \in Int /\ 0 <= d /\ 2 * d < T
  <2> HIDE DEF y, r
  <2>. QED  BY <1>1, Clock
<1>3. x \div T \in Int /\ x = (T * (x \div T)) + r
  BY Clock, DivMod
<1>4. n \div T \in Int /\ n % T \in Int /\ n = (T * (n \div T)) + (n % T)
  BY Clock, DivMod
<1>5. (y - (n % T)) % T = d
  <2> DEFINE p == x \div T
             q == n \div T
             s == n % T
  <2>1. p \in Int /\ q \in Int /\ s \in Int /\ x = (T * p) + r /\ n = (T * q) + s
    BY <1>3, <1>4
  <2>2. T \in Nat /\ T > 0 /\ x \in Int
    BY Clock
  <2> HIDE DEF p, q, s, T, y, r, x
  <2>3. y - s = (T * (q - p)) + d
    <3>1. T * (q - p) = (T * q) - (T * p)
      BY <2>1, <2>2
    <3>2. (T * q) \in Int /\ (T * p) \in Int
      BY <2>1, <2>2
    <3>. QED  BY <2>1, <2>2, <3>1, <3>2, <1>1
  <2>4. ((T * (q - p)) + d) % T = d
    <3>1. q - p \in Int /\ d < T
      BY <2>1, <1>2, <2>2
    <3> HIDE DEF d
    <3>. QED  BY <3>1, <2>2, <1>2, ModUnique
  <2>. QED  BY <2>3, <2>4 DEF s
<1>6. ~(2 * ((y - (n % T)) % T) >= T)
  <2> HIDE DEF d, y
  <2>. QED  BY <1>2, <1>5, Clock
<1>7. ExpiredAt(ExpiryAt(t), n) <=> (2 * ((y - (n % T)) % T) >= T)
  BY DEF ExpiredAt
<1>. QED  BY <1>6, <1>7

(* The end of a lease acknowledged at t, as LeaseEnd has it, shows on the  *)
(* counter as the stored expiry widened with one bits.                     *)
LEMMA EndShown ==
    ASSUME NEW t \in Nat
    PROVE  \E k \in Int :
             (((t + LEASE) \div GRANULE) * GRANULE) + (GRANULE - 1) =
                (TICKS * k) + ((ExpiryAt(t) * GRANULE) + (GRANULE - 1))
<1> DEFINE x == t + LEASE
           G == GRANULE
           W == WRAP
           a == x \div G
           u == x % G
           k == x \div TICKS
           r == x % TICKS
           e == ExpiryAt(t)
           y == (e * G) + (G - 1)
<1>0. x \in Int /\ G \in Nat /\ G > 0 /\ W \in Nat /\ W > 0 /\ TICKS = G * W
    BY Clock
<1>1. a \in Int /\ u \in Int /\ 0 <= u /\ u < G /\ x = (G * a) + u
    <2> HIDE DEF x, G
    <2> QED BY <1>0, DivMod
<1>2. k \in Int /\ r \in Int /\ x = (TICKS * k) + r
    <2> HIDE DEF x
    <2> QED BY <1>0, Clock, DivMod
<1>3. e \in Int /\ y \in Int /\ r <= y /\ y <= r + (G - 1)
    BY ExpiryRange
<1> HIDE DEF x, G, W, a, u, k, r, e
<1>4. a = (W * k) + e
    <2> DEFINE z == (a - (W * k)) - e
    <2>0. W * k \in Int
        BY <1>0, <1>2
    <2>1. z \in Int
        BY <1>1, <1>3, <2>0
    <2>2. G * z = (r - u) - (G * e)
        <3>1. TICKS * k = G * (W * k)
            BY <1>0, <1>2
        <3>2. G * z = ((G * a) - (G * (W * k))) - (G * e)
            BY <1>0, <1>1, <1>3, <2>0
        <3>3. G * a \in Int /\ G * (W * k) \in Int /\ G * e \in Int
            BY <1>0, <1>1, <1>3, <2>0
        <3> HIDE DEF z
        <3> QED BY <1>1, <1>2, <3>1, <3>2, <3>3
    <2>3. 0 <= (r - (G * e)) /\ r - (G * e) <= G - 1
        <3>1. e * G = G * e /\ G * e \in Int
            BY <1>0, <1>3
        <3> QED BY <1>0, <1>2, <1>3, <3>1
    <2>4. -G < G * z /\ G * z < G
        <3>1. G * e \in Int /\ G * z \in Int
            BY <1>0, <1>3, <2>1
        <3> HIDE DEF z
        <3> QED BY <1>0, <1>1, <1>2, <2>2, <2>3, <3>1
    <2> HIDE DEF z
    <2>5. z >= 1 => G * z >= G
        BY <1>0, <2>1
    <2>6. z <= -1 => G * z <= -G
        BY <1>0, <2>1
    <2>7. z = 0
        <3>1. G * z \in Int
            BY <1>0, <2>1
        <3> QED BY <1>0, <2>1, <2>4, <2>5, <2>6, <3>1
    <2> QED BY <2>7, <2>0, <1>1, <1>3 DEF z
<1>5. (a * G) + (G - 1) = (TICKS * k) + y
    <2>1. W * k \in Int
        BY <1>0, <1>2
    <2>2. a * G = ((W * k) * G) + (e * G)
        BY <1>0, <1>3, <1>4, <2>1
    <2>3. (W * k) * G = TICKS * k
        BY <1>0, <1>2
    <2>4. (W * k) * G \in Int /\ e * G \in Int
        BY <1>0, <1>3, <2>1
    <2> QED BY <1>0, <2>2, <2>3, <2>4
<1> QED BY <1>2, <1>5 DEF a, x, G, e

(* A lease that ended at most half a turn of the counter ago is taken for  *)
(* expired.                                                                *)
LEMMA IsExpired ==
    ASSUME NEW t \in Nat, NEW n \in Nat, NEW E \in Int,
           E = (((t + LEASE) \div GRANULE) * GRANULE) + (GRANULE - 1),
           E < n, 2 * (n - E) <= TICKS
    PROVE  ExpiredAt(ExpiryAt(t), n)
<1> DEFINE T == TICKS
           y == (ExpiryAt(t) * GRANULE) + (GRANULE - 1)
           q == n \div T
           s == n % T
           d == (E - n) + T
<1>1. T \in Nat /\ T > 0
    BY Clock
<1>2. y \in Int
    BY ExpiryRange
<1>3. PICK k \in Int : E = (T * k) + y
    BY EndShown
<1>4. q \in Int /\ s \in Int /\ n = (T * q) + s
    <2> HIDE DEF T
    <2> QED BY <1>1, DivMod
<1> HIDE DEF T, y, q, s
<1>5. d \in Int /\ 0 <= d /\ d < T /\ 2 * d >= T
    BY <1>1 DEF T
<1>6. y - s = (T * ((q - k) - 1)) + d
    <2>1. T * ((q - k) - 1) = ((T * q) - (T * k)) - T
        BY <1>1, <1>3, <1>4
    <2>2. T * q \in Int /\ T * k \in Int
        BY <1>1, <1>3, <1>4
    <2> QED BY <1>1, <1>2, <1>3, <1>4, <2>1, <2>2
<1>7. (y - s) % T = d
    <2>1. (q - k) - 1 \in Int
        BY <1>3, <1>4
    <2> HIDE DEF d
    <2> QED BY <1>1, <1>5, <1>6, <2>1, ModUnique
<1>8. 2 * ((y - s) % T) >= T
    BY <1>5, <1>7
<1> QED BY <1>8 DEF ExpiredAt, y, s, T

-----------------------------------------------------------------------------
(* The inductive invariant.                                                *)

(* An index and the last octet of its address determine each other: the    *)
(* whole pool lies above the base and inside one octet.                    *)
LEMMA IndexRoundTrip ==
    ASSUME NEW i \in Index
    PROVE  AddressOf(i) \in Octet /\ IndexOf(AddressOf(i)) = i
BY PoolAssumption DEF Index, Octet, AddressOf, IndexOf, DHCPS_BASE_IP

(* Memory as the program starts: no socket, no lease.                      *)
LEMMA InitIInv == Init => IInv
<1> SUFFICES ASSUME Init PROVE IInv
  OBVIOUS
<1>1. TypeOK
  BY ClockAssumption DEF Init, TypeOK, Lease, Binding, Reply, NoReply
<1>2. LeaseRecorded
  BY ClientsAssumption DEF Init, LeaseRecorded
<1>3. BindingBacked
  BY DEF Init, BindingBacked
<1>4. OfferStands
  BY DEF Init, OfferStands, NoReply
<1>. QED  BY <1>1, <1>2, <1>3, <1>4 DEF IInv

(* dhcp_server_init clears the table, whether or not it gets its socket.   *)
LEMMA ServerInitIInv == IInv /\ dhcp_server_init => IInv'
<1> SUFFICES ASSUME IInv, dhcp_server_init PROVE IInv'
  OBVIOUS
<1> USE DEF IInv, dhcp_server_init
<1>1. TypeOK'
  BY ClockAssumption DEF TypeOK, Lease, Binding, Reply, NoReply
<1>2. LeaseRecorded'
  BY ClientsAssumption DEF LeaseRecorded, TypeOK
<1>3. BindingBacked'
  BY DEF BindingBacked
<1>4. OfferStands'
  BY DEF OfferStands, NoReply
<1>. QED  BY <1>1, <1>2, <1>3, <1>4

(* dhcp_server_deinit frees the socket and keeps the table.                *)
LEMMA DeinitIInv == IInv /\ dhcp_server_deinit => IInv'
BY DEF IInv, dhcp_server_deinit, TypeOK, LeaseRecorded, BindingBacked,
       OfferStands, Grantable

(* A datagram that is dropped changes no lease.                            *)
LEMMA IgnoredIInv == IInv /\ Ignored => IInv'
BY DEF IInv, Ignored, TypeOK, LeaseRecorded, BindingBacked, OfferStands,
       Reply, NoReply

(* Time passes, and with it bindings end.                                  *)
LEMMA TickIInv == IInv /\ Tick => IInv'
<1> SUFFICES ASSUME IInv, Tick PROVE IInv'
  OBVIOUS
<1> USE DEF IInv, Tick
<1>1. TypeOK'
  BY DEF TypeOK
<1>2. LeaseRecorded'
  BY DEF LeaseRecorded, TypeOK
<1>3. BindingBacked'
  BY DEF BindingBacked
<1>4. OfferStands'
  BY DEF OfferStands, Grantable
<1>. QED  BY <1>1, <1>2, <1>3, <1>4

(* A lease somebody is bound by has not expired: the wipe of a DISCOVER    *)
(* never hits it.                                                          *)
LEMMA BoundNotExpired ==
    ASSUME IInv, NEW b \in bindings
    PROVE  b.yi \in Index /\ ~Expired(b.yi)
<1>1. b.yi \in Index /\ b.mac \in Clients /\ b.until \in Nat
  BY DEF IInv, TypeOK, Binding
<1>2. /\ lease[b.yi].expiry = ExpiryAt(acked[b.yi])
      /\ acked[b.yi] <= now /\ now <= acked[b.yi] + LEASE
      /\ acked[b.yi] \in Nat /\ now \in Nat
  BY <1>1, Clock DEF IInv, TypeOK, LeaseRecorded, BindingBacked
<1>3. ~ExpiredAt(ExpiryAt(acked[b.yi]), now)
  BY <1>2, NotExpired
<1>. QED  BY <1>1, <1>2, <1>3 DEF Expired

(* A DISCOVER wipes at most a lease that is over.                          *)
LEMMA DiscoverIInv ==
    ASSUME IInv, NEW c \in Clients, NEW sent \in BOOLEAN, Discover(c, sent)
    PROVE  IInv'
<1>1. PICK own \in 0 .. DHCPS_MAX_IP, free \in 0 .. DHCPS_MAX_IP :
        /\ IsFirst(own, Own(c))
        /\ IsFirst(free, Usable(own))
        /\ lease' = Wipe(free)
        /\ LET yi == IF own \in Index THEN own ELSE free
           IN  IF yi \in Index THEN Send(sent, "OFFER", c, yi)
                               ELSE reply' = NoReply
  BY DEF Discover
<1>2. UNCHANGED <<udp, now, acked, bindings>>
  BY DEF Discover
<1>3. /\ lease' \in [Index -> Lease]
      /\ \A i \in Index : /\ lease'[i].expiry = lease[i].expiry
                          /\ lease'[i].mac = lease[i].mac
                             \/ (i = free /\ Expired(i) /\ lease'[i].mac = NoMac)
  BY <1>1 DEF Wipe, IInv, TypeOK, Lease
<1> DEFINE yi == IF own \in Index THEN own ELSE free
<1>4. ASSUME yi \in Index, sent
      PROVE  reply' \in Reply /\ OfferStands'
  <2>1. reply' = [type |-> "OFFER", mac |-> c, yiaddr |-> AddressOf(yi)]
    BY <1>1, <1>4 DEF Send
  <2>2. AddressOf(yi) \in Octet /\ IndexOf(AddressOf(yi)) = yi
    BY <1>4, IndexRoundTrip
  <2>3. lease'[yi].mac \in {c, NoMac}
    <3>1. CASE own \in Index
      <4>1. lease[own].mac = c
        BY <3>1, <1>1 DEF IsFirst, Own, Index
      <4>. QED  BY <3>1, <4>1, <1>3
    <3>2. CASE own \notin Index
      <4>1. free \in Index /\ free \in Usable(own)
        BY <3>2, <1>4, <1>1 DEF IsFirst, Index
      <4>2. lease[free].mac = NoMac \/ Expired(free)
        BY <4>1 DEF Usable
      <4>3. lease'[free].mac = NoMac
        BY <4>1, <4>2, <1>1 DEF Wipe, IInv, TypeOK, Lease
      <4>. QED  BY <3>2, <4>3
    <3>. QED  BY <3>1, <3>2
  <2>4. OfferStands'
    BY <1>4, <2>1, <2>2, <2>3 DEF OfferStands, Grantable
  <2>5. reply' \in Reply
    BY <2>1, <2>2 DEF Reply
  <2>. QED  BY <2>4, <2>5
<1>5. ASSUME ~(yi \in Index /\ sent)
      PROVE  reply' \in Reply /\ OfferStands'
  <2>1. reply' = NoReply
    BY <1>1, <1>5 DEF Send
  <2>. QED  BY <2>1 DEF NoReply, Reply, OfferStands
<1>6. TypeOK'
  BY <1>2, <1>3, <1>4, <1>5 DEF IInv, TypeOK
<1>7. LeaseRecorded'
  BY <1>2, <1>3, ClientsAssumption DEF IInv, LeaseRecorded
<1>8. BindingBacked'
  <2> SUFFICES ASSUME NEW b \in bindings
               PROVE  /\ lease'[b.yi].mac = b.mac
                      /\ now <= b.until
                      /\ b.until <= acked[b.yi] + LEASE
    BY <1>2 DEF BindingBacked
  <2>1. b.yi \in Index /\ ~Expired(b.yi)
    BY BoundNotExpired
  <2>. QED  BY <2>1, <1>3 DEF IInv, BindingBacked
<1>. QED  BY <1>4, <1>5, <1>6, <1>7, <1>8 DEF IInv

(* A REQUEST records a lease with its end, or is refused in silence.       *)
LEMMA RequestIInv ==
    ASSUME IInv, NEW c \in Clients, NEW subnet \in BOOLEAN,
           NEW octet, NEW sent \in BOOLEAN,
           Request(c, subnet, octet, sent)
    PROVE  IInv'
<1> DEFINE yi == IndexOf(octet)
<1>1. CASE ~Grantable(c, subnet, octet)
  <2>1. reply' = NoReply /\ UNCHANGED <<lease, udp, now, acked, bindings>>
    BY <1>1 DEF Request
  <2>. QED
    BY <2>1 DEF IInv, TypeOK, LeaseRecorded, BindingBacked, OfferStands, Reply,
                NoReply
<1>2. CASE Grantable(c, subnet, octet)
  <2>1. /\ yi \in Index /\ lease[yi].mac \in {c, NoMac}
        /\ lease' = [lease EXCEPT ![yi] = [mac |-> c, expiry |-> ExpiryAt(now)]]
        /\ acked' = [acked EXCEPT ![yi] = now]
        /\ Send(sent, "ACK", c, yi)
        /\ bindings' =
            IF sent
            THEN {b \in bindings : b.mac # c \/ b.yi # yi}
                    \cup {[mac |-> c, yi |-> yi, until |-> now + LEASE]}
            ELSE bindings
        /\ UNCHANGED <<udp, now>>
    BY <1>2 DEF Request, Grantable
  <2>2. now \in Nat /\ ExpiryAt(now) \in 0 .. WRAP - 1
    BY ExpiryRange DEF IInv, TypeOK
  <2>3. AddressOf(yi) \in Octet
    BY <2>1, IndexRoundTrip
  <2> HIDE DEF yi
  <2>4. lease' \in [Index -> Lease] /\ acked' \in [Index -> Nat]
    BY <2>1, <2>2 DEF IInv, TypeOK, Lease
  <2>5. reply' \in Reply
    BY <2>1, <2>3 DEF Send, Reply
  <2>6. bindings' \subseteq Binding
    BY <2>1, <2>2, Clock DEF IInv, TypeOK, Binding
  <2>7. TypeOK'
    BY <2>1, <2>4, <2>5, <2>6 DEF IInv, TypeOK
  <2>8. LeaseRecorded'
    BY <2>1, <2>2 DEF IInv, TypeOK, LeaseRecorded
  <2>9. ASSUME NEW b \in bindings
        PROVE  /\ lease'[b.yi].mac = b.mac
               /\ now' <= b.until
               /\ b.until <= acked'[b.yi] + LEASE
    <3>1. b.yi \in Index /\ b.mac \in Clients /\ b.until \in Nat
      BY DEF IInv, TypeOK, Binding
    <3>2. /\ lease[b.yi].mac = b.mac /\ now <= b.until
          /\ b.until <= acked[b.yi] + LEASE
          /\ acked[b.yi] <= now /\ acked[b.yi] \in Nat
      BY <3>1 DEF IInv, BindingBacked, LeaseRecorded, TypeOK
    <3>3. CASE b.yi = yi
      <4>1. b.mac = c
        BY <3>1, <3>2, <3>3, <2>1, ClientsAssumption
      <4>2. lease'[b.yi].mac = c /\ acked'[b.yi] = now
        BY <2>1, <3>3 DEF IInv, TypeOK
      <4>. QED  BY <4>1, <4>2, <3>1, <3>2, <2>1, <2>2, Clock
    <3>4. CASE b.yi # yi
      BY <3>1, <3>2, <3>4, <2>1 DEF IInv, TypeOK
    <3>. QED  BY <3>3, <3>4
  <2>10. BindingBacked'
    <3> SUFFICES ASSUME NEW b \in bindings'
                 PROVE  /\ lease'[b.yi].mac = b.mac
                        /\ now' <= b.until
                        /\ b.until <= acked'[b.yi] + LEASE
      BY DEF BindingBacked
    <3>1. CASE b \in bindings
      BY <3>1, <2>9
    <3>2. CASE b = [mac |-> c, yi |-> yi, until |-> now + LEASE]
      <4>1. lease'[yi].mac = c /\ acked'[yi] = now /\ now' = now
        BY <2>1 DEF IInv, TypeOK
      <4>. QED  BY <3>2, <4>1, <2>2, Clock
    <3>. QED  BY <3>1, <3>2, <2>1
  <2>11. OfferStands'
    BY <2>1 DEF OfferStands, Send, NoReply
  <2>. QED  BY <2>7, <2>8, <2>10, <2>11 DEF IInv
<1>. QED  BY <1>1, <1>2

(* IInv is preserved by every step of the server, the stations' datagrams  *)
(* and the clock.                                                          *)
LEMMA NextIInv == IInv /\ [Next]_vars => IInv'
<1> SUFFICES ASSUME IInv, [Next]_vars PROVE IInv'
  OBVIOUS
<1>1. CASE dhcp_server_init
  BY <1>1, ServerInitIInv
<1>2. CASE dhcp_server_deinit
  BY <1>2, DeinitIInv
<1>3. ASSUME NEW c \in Clients, NEW sent \in BOOLEAN, Discover(c, sent)
      PROVE  IInv'
  BY <1>3, DiscoverIInv
<1>4. ASSUME NEW c \in Clients, NEW subnet \in BOOLEAN, NEW sent \in BOOLEAN,
             NEW octet \in LastOctets, Request(c, subnet, octet, sent)
      PROVE  IInv'
  BY <1>4, RequestIInv
<1>5. CASE Ignored
  BY <1>5, IgnoredIInv
<1>6. CASE Tick
  BY <1>6, TickIInv
<1>7. CASE UNCHANGED vars
  BY <1>7 DEF vars, IInv, TypeOK, LeaseRecorded, BindingBacked, OfferStands,
              Grantable
<1>. QED
  BY <1>1, <1>2, <1>3, <1>4, <1>5, <1>6, <1>7 DEF Next, dhcp_server_process

-----------------------------------------------------------------------------
(* Theorems.                                                               *)

(* The inductive invariant holds in every reachable state of the server.   *)
THEOREM Invariance == Spec => []IInv
BY InitIInv, NextIInv, PTL DEF Spec

(* Every variable keeps its shape; the expiry of a lease, computed from    *)
(* the wrapping counter, always fits its field.                            *)
THEOREM TypeCorrect == Spec => []TypeOK
<1>1. IInv => TypeOK
  BY DEF IInv
<1>. QED  BY Invariance, <1>1, PTL

(* dhcp_server_process never lets two stations use the same address.       *)
THEOREM Exclusive == Spec => []AddressExclusive
<1>1. IInv => AddressExclusive
  BY DEF IInv, BindingBacked, AddressExclusive
<1>. QED  BY Invariance, <1>1, PTL

(* The address of a DHCPOFFER can be requested until the next datagram.    *)
THEOREM OffersStand == Spec => []OfferStands
<1>1. IInv => OfferStands
  BY DEF IInv
<1>. QED  BY Invariance, <1>1, PTL

(* A running server takes an address from a station only after the lease   *)
(* time has passed since the last DHCPACK, wherever the counter wraps.     *)
THEOREM Honoured == Spec => LeaseHonoured
<1> DEFINE Keep == udp # "null" =>
             \A i \in Index :
                lease[i].mac \in Clients /\ lease'[i].mac # lease[i].mac
                    => now > acked[i] + LEASE
<1>1. ASSUME IInv, [Next]_vars
      PROVE  [Keep]_vars
  <2> SUFFICES ASSUME udp # "null", NEW i \in Index,
                      lease[i].mac \in Clients, lease'[i].mac # lease[i].mac
               PROVE  now > acked[i] + LEASE
    OBVIOUS
  <2>1. /\ acked[i] \in Nat /\ now \in Nat /\ acked[i] <= now
        /\ lease[i].expiry = ExpiryAt(acked[i])
    BY <1>1 DEF IInv, TypeOK, LeaseRecorded
  <2>2. ASSUME NEW c \in Clients, NEW sent \in BOOLEAN, Discover(c, sent)
        PROVE  Expired(i)
    <3>1. PICK free : lease' = Wipe(free)
      BY <2>2 DEF Discover
    <3>. QED  BY <3>1, <1>1 DEF Wipe, IInv, TypeOK, Lease
  <2>3. ASSUME NEW c \in Clients, NEW subnet \in BOOLEAN, NEW sent \in BOOLEAN,
               NEW octet \in LastOctets, Request(c, subnet, octet, sent)
        PROVE  FALSE
    <3>1. CASE ~Grantable(c, subnet, octet)
      BY <3>1, <2>3 DEF Request
    <3>2. CASE Grantable(c, subnet, octet)
      <4>1. /\ IndexOf(octet) \in Index /\ lease[IndexOf(octet)].mac \in {c, NoMac}
            /\ lease' = [lease EXCEPT ![IndexOf(octet)] =
                            [mac |-> c, expiry |-> ExpiryAt(now)]]
        BY <3>2, <2>3 DEF Request, Grantable
      <4> HIDE DEF Keep
      <4>. QED  BY <4>1, <1>1, ClientsAssumption DEF IInv, TypeOK
    <3>. QED  BY <3>1, <3>2
  <2>4. Expired(i)
    BY <1>1, <2>2, <2>3 DEF Next, dhcp_server_process, dhcp_server_init,
                            dhcp_server_deinit, Ignored, Tick, vars
  <2>5. CASE now <= acked[i] + LEASE
    <3>1. ~ExpiredAt(ExpiryAt(acked[i]), now)
      BY <2>1, <2>5, NotExpired
    <3>. QED  BY <3>1, <2>1, <2>4 DEF Expired
  <2>. QED  BY <2>5, <2>1, Clock
<1>2. IInv /\ [Next]_vars => [Keep]_vars
  BY <1>1
<1>. QED  BY Invariance, <1>2, PTL DEF Spec, LeaseHonoured

(* dhcp_server_process turns a station away only while every address is    *)
(* leased to somebody whose lease has not ended, or ended more than half a *)
(* turn of the 32-bit counter ago.                                         *)
THEOREM RefusedRightly == Spec => []RefusedOnlyWhenFullOrWrapped
<1>1. IInv => RefusedOnlyWhenFullOrWrapped
  <2> SUFFICES ASSUME IInv, NEW c \in Clients, Refused(c), NEW i \in Index
               PROVE  /\ lease[i].mac \in Clients
                      /\ now <= LeaseEnd(i) \/ 2 * (now - LeaseEnd(i)) > TICKS
    BY DEF RefusedOnlyWhenFullOrWrapped
  <2>1. lease[i].mac # NoMac /\ ~Expired(i)
    <3>1. i < DHCPS_MAX_IP /\ i \notin Usable(DHCPS_MAX_IP)
      BY PoolAssumption DEF Refused, Index
    <3>. QED  BY <3>1 DEF Usable
  <2>2. lease[i].mac \in Clients
    BY <2>1 DEF IInv, TypeOK, Lease
  <2>3. ~ExpiredAt(ExpiryAt(acked[i]), now) /\ acked[i] \in Nat /\ now \in Nat
    BY <2>1, <2>2 DEF IInv, TypeOK, LeaseRecorded, Expired
  <2> DEFINE E == LeaseEnd(i)
  <2>4. E = (((acked[i] + LEASE) \div GRANULE) * GRANULE) + (GRANULE - 1) /\ E \in Int
    <3>1. (acked[i] + LEASE) \div GRANULE \in Int
      BY <2>3, Clock, DivMod
    <3>. QED  BY <3>1, Clock DEF LeaseEnd
  <2> HIDE DEF E
  <2>5. ~(E < now /\ 2 * (now - E) <= TICKS)
    BY <2>3, <2>4, IsExpired
  <2>6. now <= E \/ 2 * (now - E) > TICKS
    BY <2>3, <2>4, <2>5, Clock
  <2>. QED  BY <2>2, <2>6 DEF E
<1>. QED  BY Invariance, <1>1, PTL

-----------------------------------------------------------------------------
(* The stations.                                                           *)

(* Before the first dhcp_server_init no station has anything.              *)
LEMMA StationsInit == SInit => StationsInv
<1> SUFFICES ASSUME SInit PROVE StationsInv
  OBVIOUS
<1>1. IInv /\ \A i \in Index : lease[i].mac = NoMac
  BY InitIInv DEF SInit, Init
<1>2. st \in [Clients -> StationState] /\ \A c \in Clients : st[c].state = "init"
  BY DEF SInit, StationInit, StationState, Octet
<1>. QED
  BY <1>1, <1>2, ClientsAssumption
  DEF StationsInv, LeasesDistinct, OffersOwn, BoundBacked

(* dhcp_server_init forgets the leases, while no station is bound.         *)
LEMMA StartKeeps == StationsInv /\ Start => StationsInv'
<1> SUFFICES ASSUME StationsInv, Start PROVE StationsInv'
  OBVIOUS
<1>1. IInv'
  BY ServerInitIInv DEF StationsInv, Start
<1>2. \A i \in Index : lease'[i].mac = NoMac
  BY DEF Start, dhcp_server_init
<1>3. \A c \in Clients : st[c].state # "bound"
  BY DEF Start, dhcp_server_init, StationsInv, BoundBacked
<1>4. st' = st
  BY DEF Start
<1>. QED
  BY <1>1, <1>2, <1>3, <1>4, ClientsAssumption
  DEF StationsInv, LeasesDistinct, OffersOwn, BoundBacked

(* dhcp_server_deinit: the stations lose their access point.               *)
LEMMA StopKeeps == StationsInv /\ Stop => StationsInv'
<1> SUFFICES ASSUME StationsInv, Stop PROVE StationsInv'
  OBVIOUS
<1>1. IInv' /\ lease' = lease
  BY DeinitIInv DEF StationsInv, Stop, dhcp_server_deinit
<1>2. st' \in [Clients -> StationState] /\ \A c \in Clients : st'[c].state = "init"
  BY DEF Stop, StationInit, StationState, Octet
<1>. QED
  BY <1>1, <1>2 DEF StationsInv, LeasesDistinct, OffersOwn, BoundBacked

(* DHCPDISCOVER wipes at most one lease, which nobody is bound by, and     *)
(* offers a station that has a lease that one.                             *)
LEMMA SendDiscoverKeeps ==
    ASSUME StationsInv, NEW c \in Clients, NEW sent \in BOOLEAN, SendDiscover(c, sent)
    PROVE  StationsInv'
<1>0. /\ IInv /\ lease \in [Index -> Lease] /\ st \in [Clients -> StationState]
      /\ Discover(c, sent)
  BY DEF StationsInv, IInv, TypeOK, SendDiscover
<1>1. IInv'
  BY <1>0, DiscoverIInv
<1>2. PICK own \in 0 .. DHCPS_MAX_IP, free \in 0 .. DHCPS_MAX_IP :
        /\ IsFirst(own, Own(c))
        /\ IsFirst(free, Usable(own))
        /\ lease' = Wipe(free)
        /\ LET yi == IF own \in Index THEN own ELSE free
           IN  IF yi \in Index THEN Send(sent, "OFFER", c, yi)
                               ELSE reply' = NoReply
  BY <1>0 DEF Discover
<1>3. UNCHANGED <<udp, bindings>>
  BY <1>0 DEF Discover
<1>4. \A i \in Index : lease'[i].mac = lease[i].mac \/ lease'[i].mac = NoMac
  BY <1>0, <1>2 DEF Wipe, Lease
<1>5. LeasesDistinct'
  BY <1>4, ClientsAssumption DEF StationsInv, LeasesDistinct
<1> DEFINE yi == IF own \in Index THEN own ELSE free
<1>6. ASSUME reply'.type = "OFFER"
      PROVE  /\ reply'.yiaddr \in Octet
             /\ \A i \in Index : lease[i].mac = c => i = IndexOf(reply'.yiaddr)
  <2>1. yi \in Index /\ reply'.yiaddr = AddressOf(yi)
    BY <1>2, <1>6 DEF Send, NoReply
  <2>2. AddressOf(yi) \in Octet /\ IndexOf(AddressOf(yi)) = yi
    BY <2>1, IndexRoundTrip
  <2>3. ASSUME NEW i \in Index, lease[i].mac = c
        PROVE  i = yi
    <3>1. own \in Index /\ lease[own].mac = c
      BY <1>2, <2>3 DEF IsFirst, Own
    <3>. QED  BY <2>3, <3>1 DEF StationsInv, LeasesDistinct
  <2>. QED  BY <2>1, <2>2, <2>3
<1>7. \/ st' = st
      \/ reply'.type = "OFFER" /\ st' = [st EXCEPT ![c] = Selecting(reply'.yiaddr)]
  BY <1>0 DEF SendDiscover
<1>8. st' \in [Clients -> StationState]
  BY <1>0, <1>6, <1>7 DEF Selecting, StationState
<1>9. OffersOwn'
  <2> SUFFICES ASSUME NEW x \in Clients, st'[x].state = "selecting",
                      NEW i \in Index, lease'[i].mac = x
               PROVE  i = IndexOf(st'[x].octet)
    BY DEF OffersOwn
  <2>1. lease[i].mac = x
    BY <1>4, ClientsAssumption
  <2>2. CASE st'[x] = st[x]
    BY <2>1, <2>2 DEF StationsInv, OffersOwn
  <2>3. CASE st'[x] # st[x]
    BY <1>0, <1>6, <1>7, <2>1, <2>3 DEF Selecting
  <2>. QED  BY <2>2, <2>3
<1>10. BoundBacked'
  <2> SUFFICES ASSUME NEW x \in Clients, st'[x].state = "bound"
               PROVE  /\ udp # "null"
                      /\ \E b \in bindings : b.mac = x /\ b.yi = IndexOf(st'[x].octet)
    BY <1>3 DEF BoundBacked
  <2>1. st'[x] = st[x]
    BY <1>0, <1>7 DEF Selecting
  <2>. QED  BY <2>1 DEF StationsInv, BoundBacked
<1>. QED  BY <1>1, <1>5, <1>8, <1>9, <1>10 DEF StationsInv

(* DHCPREQUEST of the address that was offered, which is the station's     *)
(* only one.                                                               *)
LEMMA SendRequestKeeps ==
    ASSUME StationsInv, NEW c \in Clients, NEW sent \in BOOLEAN, SendRequest(c, sent)
    PROVE  StationsInv'
<1> DEFINE octet == st[c].octet
           yi == IndexOf(octet)
<1>0. /\ IInv /\ lease \in [Index -> Lease] /\ st \in [Clients -> StationState]
      /\ Request(c, TRUE, octet, sent) /\ st[c].state = "selecting"
  BY DEF StationsInv, IInv, TypeOK, SendRequest
<1>1. IInv'
  BY <1>0, RequestIInv
<1>2. CASE ~Grantable(c, TRUE, octet)
  <2>1. reply' = NoReply /\ UNCHANGED <<lease, udp, bindings>>
    BY <1>0, <1>2 DEF Request
  <2>2. st' = st
    BY <1>0, <2>1 DEF SendRequest, NoReply
  <2>. QED
    BY <1>1, <2>1, <2>2 DEF StationsInv, LeasesDistinct, OffersOwn, BoundBacked
<1>3. CASE Grantable(c, TRUE, octet)
  <2>1. /\ yi \in Index /\ lease[yi].mac \in {c, NoMac}
        /\ lease' = [lease EXCEPT ![yi] = [mac |-> c, expiry |-> ExpiryAt(now)]]
        /\ Send(sent, "ACK", c, yi)
        /\ bindings' =
            IF sent
            THEN {b \in bindings : b.mac # c \/ b.yi # yi}
                    \cup {[mac |-> c, yi |-> yi, until |-> now + LEASE]}
            ELSE bindings
        /\ udp = "bound" /\ udp' = udp
    BY <1>0, <1>3 DEF Request, Grantable
  <2>2. AddressOf(yi) \in Octet /\ IndexOf(AddressOf(yi)) = yi
    BY <2>1, IndexRoundTrip
  <2>3. \A i \in Index : lease[i].mac = c => i = yi
    BY <1>0 DEF StationsInv, OffersOwn
  <2>4. lease'[yi].mac = c /\ \A i \in Index : i # yi => lease'[i].mac = lease[i].mac
    BY <1>0, <2>1
  <2>5. \/ ~sent /\ st' = st
        \/ sent /\ st' = [st EXCEPT ![c] = Bound(AddressOf(yi))]
    <3>1. st' = [st EXCEPT ![c] = IF reply'.type = "ACK"
                                   THEN Bound(reply'.yiaddr) ELSE st[c]]
      BY DEF SendRequest
    <3>2. CASE sent
      <4>1. reply'.type = "ACK" /\ reply'.yiaddr = AddressOf(yi)
        BY <2>1, <3>2 DEF Send
      <4>. QED  BY <3>1, <3>2, <4>1
    <3>3. CASE ~sent
      <4>1. reply'.type # "ACK"
        BY <2>1, <3>3 DEF Send, NoReply
      <4>2. st' = [st EXCEPT ![c] = st[c]]
        BY <3>1, <4>1
      <4>. QED  BY <1>0, <3>3, <4>2
    <3>. QED  BY <3>2, <3>3
  <2> HIDE DEF yi, octet
  <2>6. LeasesDistinct'
    BY <2>3, <2>4 DEF StationsInv, LeasesDistinct
  <2>7. st' \in [Clients -> StationState]
    BY <1>0, <2>2, <2>5 DEF Bound, StationState
  <2>8. OffersOwn'
    <3> SUFFICES ASSUME NEW x \in Clients, st'[x].state = "selecting",
                        NEW i \in Index, lease'[i].mac = x
                 PROVE  i = IndexOf(st'[x].octet)
      BY DEF OffersOwn
    <3>1. st'[x] = st[x]
      BY <1>0, <2>5 DEF Bound
    <3>2. CASE x = c
      BY <2>3, <2>4, <3>1, <3>2 DEF yi, octet
    <3>3. CASE x # c
      BY <2>4, <3>1, <3>3 DEF StationsInv, OffersOwn
    <3>. QED  BY <3>2, <3>3
  <2>9. BoundBacked'
    <3> SUFFICES ASSUME NEW x \in Clients, st'[x].state = "bound"
                 PROVE  \E b \in bindings' : b.mac = x /\ b.yi = IndexOf(st'[x].octet)
      BY <2>1 DEF BoundBacked
    <3>1. CASE x = c
      <4>1. sent /\ st'[x] = Bound(AddressOf(yi))
        BY <1>0, <2>5, <3>1
      <4>2. st'[x].octet = AddressOf(yi)
        BY <4>1 DEF Bound
      <4>3. [mac |-> c, yi |-> yi, until |-> now + LEASE] \in bindings'
        BY <2>1, <4>1
      <4>. QED  BY <2>2, <3>1, <4>2, <4>3
    <3>2. CASE x # c
      <4>1. st'[x] = st[x]
        BY <1>0, <2>5, <3>2
      <4>2. PICK b \in bindings : b.mac = x /\ b.yi = IndexOf(st[x].octet)
        BY <4>1 DEF StationsInv, BoundBacked
      <4>3. b \in bindings'
        BY <2>1, <3>2, <4>2
      <4>. QED  BY <4>1, <4>2, <4>3
    <3>. QED  BY <3>1, <3>2
  <2>. QED  BY <1>1, <2>6, <2>7, <2>8, <2>9 DEF StationsInv
<1>. QED  BY <1>2, <1>3

(* Time passes: a station that stays bound still has its binding.          *)
LEMMA PassKeeps == StationsInv /\ Pass => StationsInv'
<1> SUFFICES ASSUME StationsInv, Pass PROVE StationsInv'
  OBVIOUS
<1>0. IInv /\ Tick /\ lease' = lease /\ udp' = udp
  BY DEF StationsInv, Pass, Tick
<1>1. IInv'
  BY <1>0, TickIInv
<1>2. st' \in [Clients -> StationState]
  BY DEF Pass, StationsInv, StationInit, StationState, Octet
<1>3. \A c \in Clients :
        st'[c] = StationInit
        \/ (st'[c] = st[c] /\ (st[c].state = "bound" => \E b \in bindings' : b.mac = c))
  BY DEF Pass
<1>4. LeasesDistinct' /\ OffersOwn'
  BY <1>0, <1>3 DEF StationsInv, LeasesDistinct, OffersOwn, StationInit
<1>5. BoundBacked'
  <2> SUFFICES ASSUME NEW c \in Clients, st'[c].state = "bound"
               PROVE  /\ udp # "null"
                      /\ \E b \in bindings' : b.mac = c /\ b.yi = IndexOf(st'[c].octet)
    BY <1>0 DEF BoundBacked
  <2>1. st'[c] = st[c]
    BY <1>3 DEF StationInit
  <2>2. PICK b \in bindings' : b.mac = c
    BY <1>3, <2>1 DEF StationInit
  <2>3. PICK a \in bindings : a.mac = c /\ a.yi = IndexOf(st[c].octet)
    BY <2>1 DEF StationsInv, BoundBacked
  <2>4. b \in bindings
    BY <1>0, <2>2 DEF Tick
  <2>5. a.yi \in Index /\ b.yi \in Index /\ lease[a.yi].mac = c /\ lease[b.yi].mac = c
    BY <1>0, <2>2, <2>3, <2>4 DEF IInv, TypeOK, Binding, BindingBacked
  <2>6. a.yi = b.yi
    BY <2>5 DEF StationsInv, LeasesDistinct
  <2>. QED  BY <2>1, <2>2, <2>3, <2>6 DEF StationsInv, BoundBacked
<1>. QED  BY <1>1, <1>2, <1>4, <1>5 DEF StationsInv

(* Every exchange, finished or not, and every restart keep the stations'   *)
(* invariant.                                                              *)
LEMMA StationsNext == StationsInv /\ [SNext]_stationVars => StationsInv'
<1> SUFFICES ASSUME StationsInv, [SNext]_stationVars PROVE StationsInv'
  OBVIOUS
<1>1. ASSUME NEW c \in Clients, GiveUp(c) PROVE StationsInv'
  <2>1. UNCHANGED vars /\ st' = [st EXCEPT ![c] = StationInit]
    BY <1>1 DEF GiveUp
  <2>2. IInv'
    BY <2>1, NextIInv DEF StationsInv
  <2>3. st' \in [Clients -> StationState]
        /\ \A x \in Clients : st'[x] = st[x] \/ st'[x] = StationInit
    BY <2>1 DEF StationsInv, StationInit, StationState, Octet
  <2>. QED
    BY <2>1, <2>2, <2>3
    DEF StationsInv, LeasesDistinct, OffersOwn, BoundBacked, StationInit, vars
<1>2. ASSUME NEW c \in Clients, Renew(c) PROVE StationsInv'
  <2>1. IInv'
    BY <1>2, IgnoredIInv DEF StationsInv, Renew
  <2>. QED
    BY <1>2, <2>1
    DEF Renew, Ignored, StationsInv, LeasesDistinct, OffersOwn, BoundBacked
<1>3. CASE UNCHANGED stationVars
  <2>1. IInv'
    BY <1>3, NextIInv DEF StationsInv, stationVars
  <2>. QED
    BY <1>3, <2>1
    DEF stationVars, vars, StationsInv, LeasesDistinct, OffersOwn, BoundBacked
<1>. QED
  BY <1>1, <1>2, <1>3, StartKeeps, StopKeeps, PassKeeps, SendDiscoverKeeps, SendRequestKeeps
  DEF SNext

(* The stations' invariant, that of the server included, holds in every    *)
(* reachable state of the server and its stations.                         *)
THEOREM StationsInvariance == SSafety => []StationsInv
BY StationsInit, StationsNext, PTL DEF SSafety

(* A station that asks only for what it was offered never holds two leases *)
(* of dhcp_server_process, however many exchanges are lost half way.       *)
THEOREM OneLease == SSafety => []OneLeasePerStation
<1>1. StationsInv => OneLeasePerStation
  <2> SUFFICES ASSUME StationsInv, NEW c \in Clients
               PROVE  Cardinality({i \in Index : lease[i].mac = c}) <= 1
    BY DEF OneLeasePerStation
  <2> DEFINE S == {i \in Index : lease[i].mac = c}
  <2>1. CASE S = {}
    BY <2>1, FS_EmptySet
  <2>2. CASE S # {}
    <3>1. PICK i \in S : TRUE
      BY <2>2
    <3>2. S = {i}
      BY <3>1 DEF StationsInv, LeasesDistinct
    <3> HIDE DEF S
    <3>3. Cardinality(S) = 1
      BY <3>2, FS_Singleton
    <3>. QED  BY <3>3 DEF S
  <2>. QED  BY <2>1, <2>2
<1>. QED  BY <1>1, StationsInvariance, PTL

(* A station that believes to have an address is the one dhcp_server_      *)
(* process has recorded for it; so no two of them have the same.           *)
THEOREM BoundAreKnown == SSafety => []BoundStationsKnown
<1>1. StationsInv => BoundStationsKnown
  BY DEF StationsInv, IInv, TypeOK, Binding, BindingBacked, BoundBacked, BoundStationsKnown
<1>. QED  BY <1>1, StationsInvariance, PTL

=============================================================================
