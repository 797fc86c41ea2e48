--------------------------- MODULE ProgramsProofs ---------------------------
(***************************************************************************)
(* Theorems about Programs: for every list of pages, however their texts   *)
(* lie in memory, lookups are right also while pages are registered, and   *)
(* for every counter, period and length of a turn within LoopAssumption    *)
(* the LED is changed neither early nor late.                              *)
(***************************************************************************)
EXTENDS Programs, SequenceTheorems, WellFoundedInduction, TLAPS

-----------------------------------------------------------------------------
(* The loop.                                                               *)

(* The cases of a remainder within one turn of a counter.                  *)
LEMMA ModTurn ==
    ASSUME NEW m \in Nat, m > 0, NEW a \in Int
    PROVE  /\ 0 <= a /\ a < m => a % m = a
           /\ a = m => a % m = 0
           /\ -m <= a /\ a < 0 => a % m = a + m
<1> DEFINE q == a \div m
           r == a % m
<1>1. q \in Int /\ r \in Int /\ 0 <= r /\ r < m /\ a = (m * q) + r
    BY Z3
<1> HIDE DEF q
<1>2. q >= 1 => m * q >= m
    BY <1>1
<1>3. q >= 2 => m * q >= 2 * m
    BY <1>1
<1>4. q <= -1 => m * q <= -m
    BY <1>1
<1>5. q <= -2 => m * q <= -(2 * m)
    BY <1>1
<1>6. (q = 0 => m * q = 0) /\ (q = 1 => m * q = m) /\ (q = -1 => m * q = -m)
    BY <1>1
<1> QED
    <2> DEFINE z == m * q
    <2>1. z \in Int
        BY <1>1
    <2> HIDE DEF z, r
    <2>2. /\ 0 <= a /\ a < m => r = a
          /\ a = m => r = 0
          /\ -m <= a /\ a < 0 => r = a + m
        BY <1>1, <1>2, <1>3, <1>4, <1>5, <1>6, <2>1 DEF z
    <2> QED BY <2>2 DEF r

(* The two counters are apart by the true time since the last change, up   *)
(* to one turn of the counter, and when the loop last looked the change    *)
(* was not yet due.                                                        *)
IInv ==
    /\ now \in 0 .. TICKS - 1 /\ prev_time \in 0 .. TICKS - 1
    /\ turn \in 0 .. MAX_TURN /\ since \in Nat
    /\ now = prev_time + since \/ now = prev_time + since - TICKS
    /\ since < PERIOD + turn

(* The loop's clock tells the time since the last change.                  *)
LEMMA ElapsedExact == IInv => (now - prev_time) % TICKS = since
<1> SUFFICES ASSUME IInv PROVE (now - prev_time) % TICKS = since
  OBVIOUS
<1> USE LoopAssumption
<1> DEFINE a == now - prev_time
<1>1. /\ TICKS \in Nat /\ TICKS > 0 /\ a \in Int /\ since \in Nat
      /\ since < TICKS /\ (a = since \/ a = since - TICKS)
  BY DEF IInv
<1> HIDE DEF a
<1>2. CASE a = since
  BY <1>1, <1>2, ModTurn DEF a
<1>3. CASE a = since - TICKS
  <2>1. -TICKS <= a /\ a < 0
    BY <1>1, <1>3
  <2>2. a % TICKS = a + TICKS
    BY <1>1, <2>1, ModTurn
  <2>. QED  BY <2>2, <1>1, <1>3 DEF a
<1>. QED  BY <1>1, <1>2, <1>3

(* Both start from one reading of the clock.                               *)
LEMMA InitIInv == Init => IInv
BY LoopAssumption DEF Init, IInv

(* A tick, wherever the counter wraps.                                     *)
LEMMA TickIInv == IInv /\ Tick => IInv'
<1> SUFFICES ASSUME IInv, Tick PROVE IInv'
  OBVIOUS
<1> USE LoopAssumption
<1>1. /\ now \in 0 .. TICKS - 1 /\ TICKS \in Nat /\ TICKS > 0 /\ now + 1 \in Int
      /\ now' = (now + 1) % TICKS
  BY DEF IInv, Tick
<1>2. \/ now + 1 < TICKS /\ now' = now + 1
      \/ now + 1 = TICKS /\ now' = 0
  BY <1>1, ModTurn
<1>. QED  BY <1>2 DEF IInv, Tick

(* A turn of the loop.                                                     *)
LEMMA TurnIInv == IInv /\ Turn => IInv'
<1> SUFFICES ASSUME IInv, Turn PROVE IInv'
  OBVIOUS
<1> USE LoopAssumption
<1>1. CASE Due
  BY <1>1 DEF IInv, Turn
<1>2. CASE ~Due
  <2>1. since < PERIOD
    BY <1>2, ElapsedExact DEF Due, IInv
  <2>. QED  BY <1>2, <2>1 DEF IInv, Turn
<1>. QED  BY <1>1, <1>2

(* Each step of the loop, or of time, keeps the invariant.                 *)
LEMMA NextIInv == IInv /\ [Next]_vars => IInv'
<1> SUFFICES ASSUME IInv, [Next]_vars PROVE IInv'
  OBVIOUS
<1>1. CASE UNCHANGED vars
  BY <1>1 DEF IInv, vars
<1>. QED  BY <1>1, TickIInv, TurnIInv DEF Next

(* The loops of main.cpp and main_ap.cpp keep IInv in every behaviour.     *)
THEOREM Invariance == Spec => []IInv
BY InitIInv, NextIInv, PTL DEF Spec

(* The LED is never overdue by more than one turn of the loop.             *)
THEOREM OnTime == Spec => []LedOnTime
<1>1. IInv => LedOnTime
  BY LoopAssumption DEF IInv, LedOnTime
<1>. QED  BY <1>1, Invariance, PTL

(* The LED is never changed before its period is over, also when the       *)
(* counter wraps in between.                                               *)
THEOREM NeverEarly == Spec => LedNeverEarly
<1>1. IInv /\ [Next]_vars => [led_state' # led_state => since >= PERIOD]_vars
  <2> SUFFICES ASSUME IInv, Next, led_state' # led_state
               PROVE  since >= PERIOD
    OBVIOUS
  <2>1. Turn /\ Due
    BY DEF Next, Tick, Turn
  <2>. QED  BY <2>1, ElapsedExact DEF Due
<1>. QED  BY <1>1, Invariance, PTL DEF Spec, LedNeverEarly

-----------------------------------------------------------------------------
(* Texts.                                                                  *)

Tokens == STRING \cup {Url!BLANK}

(* A URL, or a path, is a sequence of tokens other than the blank.         *)
LEMMA WordCells ==
    ASSUME NEW text, OneWord(text)
    PROVE  /\ text \in Seq(Tokens) /\ Len(text) \in Nat
           /\ \A i \in 1 .. Len(text) : text[i] # Url!BLANK
<1>1. STRING \subseteq Tokens
    BY Zenon DEF Tokens
<1>2. text \in Seq(Tokens)
    BY <1>1, SeqMonotonic, Zenon DEF OneWord
<1>3. \A i \in 1 .. Len(text) : text[i] # Url!BLANK
    BY Zenon DEF OneWord
<1> QED BY <1>2, <1>3

(* A prefix, cell by cell.                                                 *)
LEMMA PrefixCells ==
    ASSUME NEW s \in Seq(Tokens), NEW t \in Seq(Tokens)
    PROVE  Url!IsPrefix(s, t) <=>
             Len(s) <= Len(t) /\ \A i \in 1 .. Len(s) : s[i] = t[i]
<1> DEFINE n == Len(s)
           a == SubSeq(s, 1, n)
           b == SubSeq(t, 1, n)
<1>0. n \in Nat /\ Len(t) \in Nat
    OBVIOUS
<1> SUFFICES ASSUME n <= Len(t)
             PROVE  (a = b) <=> \A i \in 1 .. n : s[i] = t[i]
    BY DEF Url!IsPrefix
<1>1. \A i \in 1 .. n : s[i] \in Tokens /\ t[i] \in Tokens
    BY <1>0, ElementOfSeq
<1> HIDE DEF n
<1>2. /\ a \in Seq(Tokens) /\ Len(a) = IF 1 <= n THEN n - 1 + 1 ELSE 0
      /\ \A i \in 1 .. n - 1 + 1 : a[i] = s[1 + i - 1]
    BY <1>0, <1>1, SubSeqProperties
<1>3. /\ b \in Seq(Tokens) /\ Len(b) = IF 1 <= n THEN n - 1 + 1 ELSE 0
      /\ \A i \in 1 .. n - 1 + 1 : b[i] = t[1 + i - 1]
    BY <1>0, <1>1, SubSeqProperties
<1>4. Len(a) = n /\ Len(b) = n /\ \A i \in 1 .. n : a[i] = s[i] /\ b[i] = t[i]
    BY <1>0, <1>2, <1>3
<1>5. ASSUME \A i \in 1 .. n : s[i] = t[i] PROVE a = b
    <2> HIDE DEF a, b
    <2>1. \A i \in 1 .. Len(a) : a[i] = b[i]
        BY <1>4, <1>5
    <2> QED BY <1>2, <1>3, <1>4, <2>1, SeqEqual
<1> QED BY <1>4, <1>5

(* What follows the path in a request line.                                *)
Tails == {<<>>, Url!SPACE}

(* The path with its tail, cell by cell.                                   *)
LEMMA TailCells ==
    ASSUME NEW path, OneWord(path), NEW tail \in Tails
    PROVE  /\ path \o tail \in Seq(Tokens)
           /\ Len(path \o tail) \in {Len(path), Len(path) + 1}
           /\ \A i \in 1 .. Len(path) : (path \o tail)[i] = path[i]
           /\ Len(path \o tail) = Len(path) + 1 => (path \o tail)[Len(path) + 1] = Url!BLANK
           /\ Len(path \o tail) = Len(path) => path \o tail = path
<1>0. path \in Seq(Tokens) /\ Len(path) \in Nat
    BY WordCells
<1>1. CASE tail = <<>>
    <2>1. path \o tail = path
        BY <1>0, <1>1, ConcatEmptySeq
    <2> QED BY <1>0, <2>1
<1>2. CASE tail = Url!SPACE
    <2>0. Url!BLANK \in Tokens
        BY DEF Tokens
    <2>1. tail \in Seq(Tokens) /\ Len(tail) = 1 /\ tail[1] = Url!BLANK
        BY <1>2, <2>0 DEF Url!SPACE
    <2>2. /\ path \o tail \in Seq(Tokens) /\ Len(path \o tail) = Len(path) + Len(tail)
          /\ \A i \in 1 .. Len(path) + Len(tail) :
                (path \o tail)[i] = IF i <= Len(path) THEN path[i] ELSE tail[i - Len(path)]
        BY <1>0, <2>1, ConcatProperties
    <2> QED BY <1>0, <2>1, <2>2
<1> QED BY <1>1, <1>2 DEF Tails

(* find_exact compares with the path itself, whatever follows it.          *)
LEMMA FirstWordIsPath ==
    ASSUME NEW path, OneWord(path), NEW tail \in Tails
    PROVE  Url!FirstWord(path \o tail) = path
<1> DEFINE r == path \o tail
           n == Len(path)
<1>0. path \in Seq(Tokens) /\ n \in Nat /\ \A i \in 1 .. n : path[i] # Url!BLANK
    BY WordCells
<1>1. /\ r \in Seq(Tokens) /\ Len(r) \in {n, n + 1}
      /\ \A i \in 1 .. n : r[i] = path[i]
      /\ Len(r) = n + 1 => r[n + 1] = Url!BLANK
      /\ Len(r) = n => r = path
    BY TailCells
<1> HIDE DEF r, n
<1>2. CASE Len(r) = n
    <2>1. ~\E i \in 1 .. Len(r) : r[i] = Url!BLANK
        BY <1>0, <1>1, <1>2
    <2> QED BY <1>1, <1>2, <2>1 DEF Url!FirstWord, r
<1>3. CASE Len(r) = n + 1
    <2> DEFINE j == CHOOSE i \in 1 .. Len(r) : r[i] = Url!BLANK
    <2>1. \E i \in 1 .. Len(r) : r[i] = Url!BLANK
        BY <1>0, <1>1, <1>3
    <2>2. j \in 1 .. Len(r) /\ r[j] = Url!BLANK
        BY <2>1
    <2>3. Url!FirstWord(r) = SubSeq(r, 1, j - 1)
        BY <2>1 DEF Url!FirstWord
    <2> HIDE DEF j
    <2>4. j = n + 1
        BY <1>0, <1>1, <1>3, <2>2
    <2>5. \A i \in 1 .. n : r[i] \in Tokens
        BY <1>0, <1>1, ElementOfSeq DEF n
    <2>6. /\ SubSeq(r, 1, n) \in Seq(Tokens)
          /\ Len(SubSeq(r, 1, n)) = IF 1 <= n THEN n - 1 + 1 ELSE 0
          /\ \A i \in 1 .. n - 1 + 1 : SubSeq(r, 1, n)[i] = r[1 + i - 1]
        BY <1>0, <2>5, SubSeqProperties
    <2>7. Len(SubSeq(r, 1, n)) = n /\ \A i \in 1 .. n : SubSeq(r, 1, n)[i] = path[i]
        BY <1>0, <1>1, <2>6
    <2>8. SubSeq(r, 1, n) = path
        BY <1>0, <2>6, <2>7, SeqEqual DEF n
    <2>9. j - 1 = n
        BY <1>0, <2>4
    <2> QED BY <2>3, <2>8, <2>9 DEF r
<1> QED BY <1>1, <1>2, <1>3

(* A URL with which the request line begins is one with which the path     *)
(* begins, and the path is one with which the request line begins.         *)
LEMMA StartsPath ==
    ASSUME NEW url, OneWord(url), NEW path, OneWord(path), NEW tail \in Tails
    PROVE  /\ Url!Starts(url, path \o tail) => Url!IsPrefix(url, path)
           /\ Url!Starts(path, path \o tail)
<1> DEFINE r == path \o tail
           n == Len(path)
           m == Len(url)
<1>0. /\ path \in Seq(Tokens) /\ url \in Seq(Tokens)
      /\ n \in Nat /\ m \in Nat /\ \A i \in 1 .. m : url[i] # Url!BLANK
    BY WordCells
<1>1. /\ r \in Seq(Tokens) /\ Len(r) \in {n, n + 1}
      /\ \A i \in 1 .. n : r[i] = path[i]
      /\ Len(r) = n + 1 => r[n + 1] = Url!BLANK
    BY TailCells
<1> HIDE DEF r
<1>2. ASSUME Url!IsPrefix(url, r) PROVE Url!IsPrefix(url, path)
    <2>1. m <= Len(r) /\ \A i \in 1 .. m : url[i] = r[i]
        BY <1>0, <1>1, <1>2, PrefixCells
    <2> HIDE DEF n, m
    <2>2. m <= n
        BY <1>0, <1>1, <2>1
    <2>3. \A i \in 1 .. m : url[i] = path[i]
        BY <1>0, <1>1, <2>1, <2>2
    <2> QED BY <1>0, <2>2, <2>3, PrefixCells DEF n, m
<1>3. Url!IsPrefix(path, r)
    <2>1. n <= Len(r) /\ \A i \in 1 .. n : path[i] = r[i]
        BY <1>0, <1>1
    <2> QED BY <1>0, <1>1, <2>1, PrefixCells
<1> QED BY <1>2, <1>3 DEF Url!Starts, r

-----------------------------------------------------------------------------
(* The lookup.                                                             *)

(* A set of numbers that is not empty has a least one.                     *)
LEMMA Least ==
    ASSUME NEW T, T \subseteq Nat, T # {}
    PROVE  \E x \in T : \A y \in T : x <= y
<1> DEFINE R == OpToRel(<, Nat)
<1>1. IsWellFoundedOn(R, Nat)
    BY NatLessThanWellFounded
<1>2. \A a, b \in Nat : a < b => <<a, b>> \in R
    BY DEF OpToRel
<1> HIDE DEF R
<1>3. PICK x \in T : \A y \in T : ~(<<y, x>> \in R)
    BY <1>1, WFMin
<1>4. ASSUME NEW y \in T PROVE x <= y
    <2>1. x \in Nat /\ y \in Nat /\ ~(y < x)
        BY <1>2, <1>3
    <2> QED BY <2>1
<1> QED BY <1>4

(* The first match in the order of the map: an entry with a function, or   *)
(* none; and one if every match has its function.                          *)
LEMMA FirstMatch ==
    ASSUME NEW M, M \subseteq Url!Pages, address \in [Url!Pages -> Url!Pages]
    PROVE  /\ Url!First(M) # Url!NULL =>
                Url!First(M) \in M /\ url_map[Url!First(M)] = "set"
           /\ M # {} /\ (\A p \in M : url_map[p] = "set") => Url!First(M) \in M
<1> SUFFICES ASSUME M # {}
             PROVE  /\ Url!First(M) # Url!NULL =>
                         Url!First(M) \in M /\ url_map[Url!First(M)] = "set"
                    /\ (\A p \in M : url_map[p] = "set") => Url!First(M) \in M
    BY DEF Url!First
<1> DEFINE IsLeast(p) == \A q \in M : address[p] <= address[q]
           first == CHOOSE p \in M : IsLeast(p)
<1>1. \E p \in M : IsLeast(p)
    <2> DEFINE T == {address[p] : p \in M}
    <2>1. T \subseteq Nat /\ T # {}
        <3>1. \A p \in M : address[p] \in Nat
            BY DEF Url!Pages
        <3> QED BY <3>1
    <2>2. \E x \in T : \A y \in T : x <= y
        <3> HIDE DEF T
        <3> QED BY <2>1, Least
    <2>3. PICK x \in T : \A y \in T : x <= y
        BY <2>2
    <2>4. PICK p \in M : address[p] = x
        BY <2>3
    <2>5. \A q \in M : address[q] \in T
        OBVIOUS
    <2> QED BY <2>3, <2>4, <2>5
<1>2. first \in M
    BY <1>1
<1>3. Url!First(M) = IF url_map[first] = "set" THEN first ELSE Url!NULL
    BY DEF Url!First
<1> HIDE DEF first
<1> QED BY <1>2, <1>3

(* A page that answers a request is registered, under a URL with which the *)
(* path begins, also if some entries are passed over; if all entries seen  *)
(* have their functions, a page of the path's own URL is found.            *)
LEMMA LookupFinds ==
    ASSUME Url!TypeOK, NEW path, OneWord(path), NEW tail \in Tails,
           NEW seen, seen \subseteq Url!Pages
    PROVE  LET q == Url!create_html_page(path \o tail, seen)
           IN  /\ q \in Url!Pages \cup {Url!NULL}
               /\ q # Url!NULL => url_map[q] = "set" /\ Url!IsPrefix(Program[q], path)
               /\ (\A p \in seen : url_map[p] = "set")
                    /\ (\E p \in seen : Program[p] = path)
                  => IF server = "http" THEN q \in seen /\ Program[q] = path ELSE q # Url!NULL
<1> DEFINE r == path \o tail
           E == {p \in seen : Program[p] = path}
           H == {p \in seen : Url!Starts(Program[p], r)}
           e == Url!First(E)
           h == Url!First(H)
           q == Url!create_html_page(r, seen)
<1>1. address \in [Url!Pages -> Url!Pages] /\ Url!NULL \notin Url!Pages
    BY DEF Url!TypeOK, Url!NULL, Url!Pages
<1>2. Url!find_exact(r, seen) = e
    BY FirstWordIsPath DEF Url!find_exact
<1>3. Url!find_handeler(r, seen) = h
    BY DEF Url!find_handeler
<1>4. q = IF server = "http" /\ e # Url!NULL THEN e ELSE h
    BY <1>2, <1>3 DEF Url!create_html_page
<1>5. /\ e # Url!NULL => e \in E /\ url_map[e] = "set"
      /\ E # {} /\ (\A p \in E : url_map[p] = "set") => e \in E
    <2> HIDE DEF E
    <2>1. E \subseteq Url!Pages
        BY DEF E
    <2> QED BY <1>1, <2>1, FirstMatch
<1>6. /\ h # Url!NULL => h \in H /\ url_map[h] = "set"
      /\ H # {} /\ (\A p \in H : url_map[p] = "set") => h \in H
    <2> HIDE DEF H
    <2>1. H \subseteq Url!Pages
        BY DEF H
    <2> QED BY <1>1, <2>1, FirstMatch
<1> HIDE DEF e, h, q, r
<1>7. \A p \in seen : OneWord(Program[p])
    BY TextsAssumption DEF Url!Pages
<1>8. \A p \in H : Url!IsPrefix(Program[p], path)
    BY <1>7, StartsPath DEF r
<1>9. Url!IsPrefix(path, path)
    BY PrefixCells, WordCells
<1>10. E \subseteq H
    BY StartsPath DEF r
<1>11. q \in Url!Pages \cup {Url!NULL}
    BY <1>4, <1>5, <1>6
<1>12. q # Url!NULL => url_map[q] = "set" /\ Url!IsPrefix(Program[q], path)
    BY <1>4, <1>5, <1>6, <1>8, <1>9
<1>13. ASSUME \A p \in seen : url_map[p] = "set", \E p \in seen : Program[p] = path
       PROVE  IF server = "http" THEN q \in seen /\ Program[q] = path ELSE q # Url!NULL
    <2>1. e \in E /\ h \in H
        BY <1>5, <1>6, <1>10, <1>13
    <2>2. e # Url!NULL /\ h # Url!NULL
        BY <1>1, <2>1
    <2> QED BY <1>4, <2>1, <2>2
<1> QED BY <1>11, <1>12, <1>13 DEF q, r

(* Registrations and requests keep the lookup right.                       *)
UrlInv ==
    /\ LookupRight
    /\ linking => next \in Url!Pages /\ url_map[next] = "absent"

(* Nothing is registered before main starts to, and no request was         *)
(* answered.                                                               *)
LEMMA UrlInit == Url!Init => UrlInv
<1> SUFFICES ASSUME Url!Init PROVE UrlInv
    OBVIOUS
<1>1. Len(Program) \in Nat
    BY TextsAssumption
<1>2. address \in [Url!Pages -> Url!Pages]
    BY DEF Url!Init
<1>3. next = 1 /\ url_map = [p \in Url!Pages |-> "absent"] /\ server \in {"http", "ap"}
    BY DEF Url!Init
<1>4. linking \in BOOLEAN /\ ~linking
    BY DEF Url!Init
<1>5. answer.page = Url!NULL /\ answer.known = {}
    BY DEF Url!Init, Url!NoAnswer
<1>6. Url!TypeOK
    BY <1>1, <1>2, <1>3, <1>4, <1>5 DEF Url!TypeOK, Url!Pages
<1>7. Url!AnswerMatchesUrl /\ Url!OwnPageServed
    BY <1>5 DEF Url!AnswerMatchesUrl, Url!OwnPageServed, Url!Own
<1> QED BY <1>4, <1>6, <1>7 DEF UrlInv, LookupRight

(* A step of register_url.                                                 *)
LEMMA UrlRegister == UrlInv /\ Url!register_url => UrlInv'
<1> SUFFICES ASSUME UrlInv, Url!register_url PROVE UrlInv'
    OBVIOUS
<1>0. Len(Program) \in Nat /\ next \in 1 .. Len(Program) + 1
    BY TextsAssumption DEF UrlInv, LookupRight, Url!TypeOK
<1>1. UNCHANGED <<server, address, answer>>
    BY DEF Url!register_url, Url!Insert, Url!Linked, Url!Assign
<1>2. (Url!AnswerMatchesUrl /\ Url!OwnPageServed)'
    BY <1>1 DEF UrlInv, LookupRight, Url!AnswerMatchesUrl, Url!OwnPageServed, Url!Own
<1>3. CASE Url!Insert
    BY <1>0, <1>1, <1>2, <1>3
    DEF Url!Insert, UrlInv, LookupRight, Url!TypeOK, Url!Pages
<1>4. CASE Url!Linked
    <2>1. next \in Url!Pages /\ linking' \in BOOLEAN /\ ~linking'
        BY <1>4 DEF Url!Linked, UrlInv
    <2>2. url_map' = [url_map EXCEPT ![next] = "empty"] /\ next' = next
        BY <1>4 DEF Url!Linked
    <2>3. Url!TypeOK'
        BY <1>0, <1>1, <2>1, <2>2 DEF UrlInv, LookupRight, Url!TypeOK, Url!Pages
    <2> QED BY <1>2, <2>1, <2>3 DEF UrlInv, LookupRight
<1>5. CASE Url!Assign
    <2>1. next \in Url!Pages /\ ~linking /\ linking' = linking
        BY <1>0, <1>5 DEF Url!Assign, Url!Pages, UrlInv
    <2>2. url_map' = [url_map EXCEPT ![next] = "set"] /\ next' = next + 1
        BY <1>5 DEF Url!Assign
    <2>3. linking' \in BOOLEAN
        BY <2>1 DEF UrlInv, LookupRight, Url!TypeOK
    <2>4. Url!TypeOK'
        BY <1>0, <1>1, <2>1, <2>2, <2>3 DEF UrlInv, LookupRight, Url!TypeOK, Url!Pages
    <2> QED BY <1>2, <2>1, <2>4 DEF UrlInv, LookupRight
<1> QED BY <1>3, <1>4, <1>5 DEF Url!register_url

(* A request, in the middle of an insertion or outside.                    *)
LEMMA UrlRequest ==
    ASSUME UrlInv, NEW path \in Requests, NEW tail \in Tails, Url!Request(path, tail)
    PROVE  UrlInv'
<1> DEFINE set == {p \in Url!Pages : url_map[p] = "set"}
<1>0. OneWord(path) /\ Url!TypeOK
    BY TextsAssumption DEF UrlInv, LookupRight
<1>1. PICK seen \in (IF linking THEN SUBSET Url!Entries ELSE {Url!Entries}) :
        answer' = [path |-> path, page |-> Url!create_html_page(path \o tail, seen),
                   known |-> set, quiet |-> Url!Entries = set /\ ~linking]
    BY DEF Url!Request
<1>2. UNCHANGED <<server, address, url_map, next, linking>>
    BY DEF Url!Request
<1>3. seen \subseteq Url!Pages /\ (~linking => seen = Url!Entries)
    BY DEF Url!Entries
<1> DEFINE q == Url!create_html_page(path \o tail, seen)
<1>4. /\ q \in Url!Pages \cup {Url!NULL}
      /\ q # Url!NULL => url_map[q] = "set" /\ Url!IsPrefix(Program[q], path)
      /\ (\A p \in seen : url_map[p] = "set") /\ (\E p \in seen : Program[p] = path)
         => IF server = "http" THEN q \in seen /\ Program[q] = path ELSE q # Url!NULL
    BY <1>0, <1>3, LookupFinds
<1>5. /\ answer'.page = q /\ answer'.path = path /\ answer'.known = set
      /\ answer'.quiet => Url!Entries = set /\ ~linking
    BY <1>1
<1> HIDE DEF q
<1>6. Url!TypeOK'
    BY <1>0, <1>2, <1>4, <1>5 DEF Url!TypeOK
<1>7. Url!AnswerMatchesUrl'
    BY <1>4, <1>5 DEF Url!AnswerMatchesUrl, Url!NULL
<1>8. Url!OwnPageServed'
    <2> SUFFICES ASSUME answer'.quiet, NEW p \in answer'.known, Program[p] = answer'.path
                 PROVE  IF server' = "http"
                        THEN answer'.page \in answer'.known /\ Program[answer'.page] = answer'.path
                        ELSE answer'.page # Url!NULL
        BY DEF Url!OwnPageServed, Url!Own
    <2>1. seen = set
        BY <1>3, <1>5
    <2>2. (\A s \in seen : url_map[s] = "set") /\ (\E s \in seen : Program[s] = path)
        BY <1>5, <2>1
    <2> QED BY <1>2, <1>4, <1>5, <2>1, <2>2
<1> QED BY <1>2, <1>6, <1>7, <1>8 DEF UrlInv, LookupRight

-----------------------------------------------------------------------------
(* The programs.                                                           *)

(* A step of a program is one of its loop, one of register_url or a        *)
(* request.                                                                *)
LEMMA ProgramStep ==
    /\ [PNext]_pvars => [Next]_vars
    /\ UrlInv /\ [PNext]_pvars => UrlInv'
<1>1. [PNext]_pvars => [Next]_vars
    BY DEF PNext, pvars, Register, Serve, LoopTick, LoopTurn, Next
<1>2. ASSUME UrlInv, UNCHANGED url_vars PROVE UrlInv'
    BY <1>2
    DEF url_vars, UrlInv, LookupRight, Url!TypeOK, Url!AnswerMatchesUrl,
        Url!OwnPageServed, Url!Own
<1>3. ASSUME UrlInv, Serve PROVE UrlInv'
    BY <1>3, UrlRequest DEF Serve, Tails
<1>4. UrlInv /\ [PNext]_pvars => UrlInv'
    BY <1>2, <1>3, UrlRegister DEF PNext, pvars, Register, LoopTick, LoopTurn
<1> QED BY <1>1, <1>4

(* In both programs, whatever they register and wherever the linker put    *)
(* the texts: create_html_page answers only with completely registered     *)
(* pages whose URL begins the path, also in the middle of a register_url,  *)
(* and outside of it it finds the page that was asked for.                 *)
THEOREM LooksUpRight == PSpec => []LookupRight
<1>1. PInit => UrlInv
    BY UrlInit DEF PInit
<1>2. UrlInv => LookupRight
    BY DEF UrlInv
<1> QED BY <1>1, <1>2, ProgramStep, PTL DEF PSpec

(* The programs run the loop of MainLoop.                                  *)
THEOREM RunsLoop == PSpec => Spec
BY ProgramStep, PTL DEF PSpec, PInit, Spec

(* In both programs the LED is never overdue by more than one turn of the  *)
(* loop.                                                                   *)
THEOREM ProgramOnTime == PSpec => []LedOnTime
BY RunsLoop, OnTime, PTL

(* In both programs the LED is never changed before its period is over.    *)
THEOREM ProgramNeverEarly == PSpec => LedNeverEarly
BY RunsLoop, NeverEarly, PTL

=============================================================================
