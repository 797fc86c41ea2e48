------------------------ MODULE SerialConsoleProofs -------------------------
(***************************************************************************)
(* Proofs about SerialConsole: for every size of the buffer, every set of  *)
(* characters and commands, and lines of any length.                       *)
(***************************************************************************)
EXTENDS SerialConsole, SequenceTheorems, WellFoundedInduction, TLAPS

-----------------------------------------------------------------------------
(* The buffer.                                                             *)

(* The constants in the form the steps below use them.                     *)
LEMMA Sizes ==
    /\ INPUT_BUFFER_SIZE \in Nat /\ INPUT_BUFFER_SIZE > 0
    /\ MAX_COMMAND_NAME_SIZE \in Nat /\ MAX_COMMAND_NAME_SIZE > 0
BY SizeAssumption

(* A character is stored inside the array, whatever the index was.         *)
LEMMA WrapInside ==
    ASSUME NEW index \in 0 .. INPUT_BUFFER_SIZE
    PROVE  /\ WrapIndex(index) \in 0 .. INPUT_BUFFER_SIZE - 1
           /\ WrapIndex(index) \in {0, index}
           /\ index < INPUT_BUFFER_SIZE => WrapIndex(index) = index
BY Sizes DEF WrapIndex

(* A set of numbers that is not empty has a least one.                     *)
LEMMA Least ==
    ASSUME NEW T, T \subseteq Nat, T # {}
    PROVE  \E x \in T : \A y \in T : x <= y
<1> DEFINE R == OpToRel(<, Nat)
<1>1. IsWellFoundedOn(R, Nat)
    BY NatLessThanWellFounded
<1>2. \A a, b \in Nat : a < b => <<a, b>> \in R
    BY DEF OpToRel
<1> HIDE DEF R
<1>3. PICK x \in T : \A y \in T : ~(<<y, x>> \in R)
    BY <1>1, WFMin
<1>4. ASSUME NEW y \in T PROVE x <= y
    <2>1. x \in Nat /\ y \in Nat /\ ~(y < x)
        BY <1>2, <1>3
    <2> QED BY <2>1
<1> QED BY <1>4

(* The line run_command reads ends at the first NUL.                       *)
LEMMA CStringEnds ==
    ASSUME NEW b, NEW i \in 0 .. INPUT_BUFFER_SIZE, b[i] = NUL,
           \A k \in 0 .. INPUT_BUFFER_SIZE : k < i => b[k] # NUL
    PROVE  CString(b) = [j \in 1 .. i |-> b[j - 1]]
<1> DEFINE Ends == {n \in 0 .. INPUT_BUFFER_SIZE : b[n] = NUL}
           len == CHOOSE n \in Ends : \A m \in Ends : n <= m
<1>1. i \in Ends /\ \A m \in Ends : i <= m
    BY Sizes
<1>2. len \in Ends /\ \A m \in Ends : len <= m
    BY <1>1
<1>3. CString(b) = [j \in 1 .. len |-> b[j - 1]]
    BY DEF CString
<1>4. len \in Int /\ i \in Int
    BY <1>1, <1>2, Sizes
<1> HIDE DEF len, Ends
<1>5. len = i
    BY <1>1, <1>2, <1>4
<1> QED BY <1>3, <1>5

(* first_index_of finds the first delimiter, if there is one.              *)
LEMMA FirstWordEnds ==
    ASSUME NEW text \in Seq(Chars)
    PROVE  \/ /\ FirstWord(text) = text
              /\ \A n \in 1 .. Len(text) : text[n] # COMMAND_DELIMITER_CHAR
           \/ \E e \in 1 .. Len(text) :
                /\ text[e] = COMMAND_DELIMITER_CHAR
                /\ \A n \in 1 .. Len(text) : n < e => text[n] # COMMAND_DELIMITER_CHAR
                /\ FirstWord(text) = SubSeq(text, 1, e - 1)
<1> DEFINE Ends == {n \in 1 .. Len(text) : text[n] = COMMAND_DELIMITER_CHAR}
           first == CHOOSE n \in Ends : \A m \in Ends : n <= m
<1>1. FirstWord(text) = IF Ends = {} THEN text ELSE SubSeq(text, 1, first - 1)
    BY DEF FirstWord
<1>2. CASE Ends = {}
    BY <1>1, <1>2
<1>3. CASE Ends # {}
    <2>1. Ends \subseteq Nat
        OBVIOUS
    <2>2. \E x \in Ends : \A y \in Ends : x <= y
        <3> HIDE DEF Ends
        <3> QED BY <1>3, <2>1, Least
    <2>3. first \in Ends /\ \A m \in Ends : first <= m
        BY <2>2
    <2>4. FirstWord(text) = SubSeq(text, 1, first - 1)
        BY <1>1, <1>3
    <2> HIDE DEF first
    <2>5. first \in 1 .. Len(text) /\ text[first] = COMMAND_DELIMITER_CHAR
        BY <2>3
    <2>6. ASSUME NEW n \in 1 .. Len(text), n < first
          PROVE  text[n] # COMMAND_DELIMITER_CHAR
        <3>1. n \in Int /\ first \in Int /\ ~(first <= n)
            BY <2>5, <2>6
        <3> QED BY <2>3, <3>1
    <2> QED BY <2>4, <2>5, <2>6
<1> QED BY <1>2, <1>3

(* The first e - 1 characters of a text.                                   *)
LEMMA FirstChars ==
    ASSUME NEW text \in Seq(Chars), NEW e \in 1 .. Len(text)
    PROVE  /\ SubSeq(text, 1, e - 1) \in Seq(Chars)
           /\ Len(SubSeq(text, 1, e - 1)) = e - 1
           /\ \A i \in 1 .. e - 1 : SubSeq(text, 1, e - 1)[i] = text[i]
<1>1. \A i \in 1 .. e - 1 : text[i] \in Chars
    BY ElementOfSeq, LenProperties
<1>2. e - 1 \in Int /\ e \in Int
    OBVIOUS
<1>3. /\ SubSeq(text, 1, e - 1) \in Seq(Chars)
      /\ Len(SubSeq(text, 1, e - 1)) = IF 1 <= e - 1 THEN (e - 1) - 1 + 1 ELSE 0
      /\ \A i \in 1 .. (e - 1) - 1 + 1 : SubSeq(text, 1, e - 1)[i] = text[1 + i - 1]
    BY <1>1, <1>2, SubSeqProperties
<1>4. (e - 1) - 1 + 1 = e - 1 /\ (~(1 <= e - 1) => e - 1 = 0)
    BY <1>2
<1>5. \A i \in 1 .. e - 1 : 1 + i - 1 = i
    OBVIOUS
<1> QED BY <1>3, <1>4, <1>5

(* run_echo prints what follows the command and its delimiter.             *)
LEMMA EchoRight ==
    ASSUME NEW text \in Seq(Chars), NEW word \in Seq(Chars), FirstWord(text) = word
    PROVE  word \o (IF Len(text) > Len(word) THEN <<COMMAND_DELIMITER_CHAR>> ELSE <<>>)
               \o SubSeq(text, Len(word) + 2, Len(text)) = text
<1>1. Len(text) \in Nat /\ Len(word) \in Nat
    BY LenProperties
<1>2. CASE word = text
    <2>1. SubSeq(text, Len(word) + 2, Len(text)) = <<>>
        BY <1>1, <1>2, SubSeqEmpty
    <2>2. (IF Len(text) > Len(word) THEN <<COMMAND_DELIMITER_CHAR>> ELSE <<>>) = <<>>
        BY <1>1, <1>2
    <2>3. text \o <<>> = text
        BY ConcatEmptySeq
    <2> QED BY <2>1, <2>2, <2>3, <1>2
<1>3. ASSUME NEW e \in 1 .. Len(text), text[e] = COMMAND_DELIMITER_CHAR,
             word = SubSeq(text, 1, e - 1)
      PROVE  word \o (IF Len(text) > Len(word) THEN <<COMMAND_DELIMITER_CHAR>> ELSE <<>>)
                 \o SubSeq(text, Len(word) + 2, Len(text)) = text
    <2>1. Len(word) = e - 1
        BY <1>3, FirstChars
    <2>2. Len(text) > Len(word) /\ Len(word) + 2 = e + 1
        BY <1>1, <2>1
    <2>3. SubSeq(text, 1, e) = SubSeq(text, 1, e - 1) \o <<text[e]>>
        BY <1>1, SubSeqRecursiveSecond
    <2>4. SubSeq(text, 1, e) \o SubSeq(text, e + 1, Len(text)) = SubSeq(text, 1, Len(text))
        <3>1. 1 \in 1 .. Len(text) + 1 /\ e \in 1 - 1 .. Len(text) /\ Len(text) \in e .. Len(text)
            BY <1>1
        <3> QED BY <3>1, ConcatAdjacentSubSeq
    <2>5. SubSeq(text, 1, Len(text)) = text
        BY SubSeqFull
    <2> QED BY <1>3, <2>2, <2>3, <2>4, <2>5
<1> QED BY <1>2, <1>3, FirstWordEnds

(* A text whose first word is a given one begins with it.                  *)
LEMMA BeginsRight ==
    ASSUME NEW text \in Seq(Chars), NEW word \in Seq(Chars), FirstWord(text) = word
    PROVE  Begins(text, word)
<1>1. CASE word = text
    BY <1>1 DEF Begins
<1>2. ASSUME NEW e \in 1 .. Len(text), text[e] = COMMAND_DELIMITER_CHAR,
             word = SubSeq(text, 1, e - 1)
      PROVE  Begins(text, word)
    <2> DEFINE w == word \o <<COMMAND_DELIMITER_CHAR>>
    <2>1. Len(text) \in Nat
        BY LenProperties
    <2>2. SubSeq(text, 1, e) = w
        BY <1>2, <2>1, SubSeqRecursiveSecond
    <2>3. /\ w \in Seq(Chars) /\ Len(w) = e
        <3>1. text[e] \in Chars
            BY ElementOfSeq
        <3>2. Len(word) = e - 1
            BY <1>2, FirstChars
        <3>3. <<COMMAND_DELIMITER_CHAR>> \in Seq(Chars) /\ Len(<<COMMAND_DELIMITER_CHAR>>) = 1
            BY <3>1, <1>2
        <3>4. w \in Seq(Chars) /\ Len(w) = Len(word) + 1
            BY <3>3, ConcatProperties
        <3> HIDE DEF w
        <3> QED BY <3>2, <3>4
    <2>4. SubSeq(w, 1, Len(w)) = w
        BY <2>3, SubSeqFull
    <2>5. e <= Len(text)
        BY <2>1
    <2>6. IsPrefix(w, text)
        <3> HIDE DEF w
        <3> QED BY <2>2, <2>3, <2>4, <2>5 DEF IsPrefix
    <2> QED BY <2>6 DEF Begins
<1> QED BY <1>1, <1>2, FirstWordEnds

(* A long first word means that many characters without a delimiter.       *)
LEMMA LongWord ==
    ASSUME NEW text \in Seq(Chars), Len(FirstWord(text)) >= MAX_COMMAND_NAME_SIZE
    PROVE  /\ Len(text) >= MAX_COMMAND_NAME_SIZE
           /\ \A i \in 1 .. MAX_COMMAND_NAME_SIZE : text[i] # COMMAND_DELIMITER_CHAR
<1>1. Len(text) \in Nat
    BY LenProperties
<1>2. CASE /\ FirstWord(text) = text
           /\ \A n \in 1 .. Len(text) : text[n] # COMMAND_DELIMITER_CHAR
    BY <1>1, <1>2, Sizes
<1>3. ASSUME NEW e \in 1 .. Len(text),
             \A n \in 1 .. Len(text) : n < e => text[n] # COMMAND_DELIMITER_CHAR,
             FirstWord(text) = SubSeq(text, 1, e - 1)
      PROVE  /\ Len(text) >= MAX_COMMAND_NAME_SIZE
             /\ \A i \in 1 .. MAX_COMMAND_NAME_SIZE : text[i] # COMMAND_DELIMITER_CHAR
    <2>1. Len(FirstWord(text)) = e - 1
        BY <1>3, FirstChars
    <2>2. e - 1 >= MAX_COMMAND_NAME_SIZE
        BY <2>1
    <2> QED BY <1>1, <1>3, <2>2, Sizes
<1> QED BY <1>2, <1>3, FirstWordEnds

(* A text that agrees with the end of a line is a suffix of it, and all of *)
(* it if it is as long.                                                    *)
LEMMA EndOfLine ==
    ASSUME NEW text \in Seq(Chars), NEW line \in Seq(Chars), Len(text) <= Len(line),
           \A k \in 1 .. Len(text) : text[k] = line[(Len(line) - Len(text)) + k]
    PROVE  IsSuffix(text, line) /\ (Len(text) = Len(line) => text = line)
<1> DEFINE n == Len(text)
           m == Len(line)
           r == Reverse(text)
           q == Reverse(line)
<1>1. n \in Nat /\ m \in Nat /\ n <= m
    BY LenProperties
<1>2. /\ \A k \in 1 .. n : text[k] \in Chars
      /\ \A k \in 1 .. m : line[k] \in Chars
    BY ElementOfSeq
<1>3. r \in Seq(Chars) /\ Len(r) = n /\ \A k \in 1 .. n : r[k] = text[(n - k) + 1]
    <2>1. \A k \in 1 .. n : text[(n - k) + 1] \in Chars
        BY <1>1, <1>2
    <2> QED BY <1>1, <2>1, IsASeq DEF Reverse
<1>4. q \in Seq(Chars) /\ Len(q) = m /\ \A k \in 1 .. m : q[k] = line[(m - k) + 1]
    <2>1. \A k \in 1 .. m : line[(m - k) + 1] \in Chars
        BY <1>1, <1>2
    <2> QED BY <1>1, <2>1, IsASeq DEF Reverse
<1>5. \A k \in 1 .. n : r[k] = q[k]
    <2> SUFFICES ASSUME NEW k \in 1 .. n PROVE r[k] = q[k]
        OBVIOUS
    <2>1. (n - k) + 1 \in 1 .. n /\ k \in 1 .. m /\ (m - n) + ((n - k) + 1) = (m - k) + 1
        BY <1>1
    <2>2. text[(n - k) + 1] = line[(m - n) + ((n - k) + 1)]
        BY <2>1
    <2> QED BY <1>3, <1>4, <2>1, <2>2
<1> HIDE DEF r, q
<1>6. SubSeq(r, 1, n) = SubSeq(q, 1, n)
    <2>1. \A k \in 1 .. n : r[k] \in Chars /\ q[k] \in Chars
        BY <1>1, <1>3, <1>4, ElementOfSeq
    <2> HIDE DEF n
    <2>2. 1 \in Int /\ n \in Int
        BY <1>1
    <2>3. /\ SubSeq(r, 1, n) \in Seq(Chars) /\ SubSeq(q, 1, n) \in Seq(Chars)
          /\ Len(SubSeq(r, 1, n)) = (IF 1 <= n THEN n - 1 + 1 ELSE 0)
          /\ Len(SubSeq(q, 1, n)) = (IF 1 <= n THEN n - 1 + 1 ELSE 0)
          /\ \A i \in 1 .. n - 1 + 1 : SubSeq(r, 1, n)[i] = r[1 + i - 1]
          /\ \A i \in 1 .. n - 1 + 1 : SubSeq(q, 1, n)[i] = q[1 + i - 1]
        BY <2>1, <2>2, SubSeqProperties
    <2>4. n - 1 + 1 = n /\ (IF 1 <= n THEN n - 1 + 1 ELSE 0) = n
        BY <1>1
    <2>5. \A i \in 1 .. n : 1 + i - 1 = i
        BY <1>1
    <2>6. \A i \in 1 .. n : SubSeq(r, 1, n)[i] = SubSeq(q, 1, n)[i]
        BY <1>5, <2>3, <2>4, <2>5
    <2> QED BY <2>3, <2>4, <2>6, SeqEqual
<1>7. IsSuffix(text, line)
    BY <1>1, <1>3, <1>4, <1>6 DEF IsSuffix, IsPrefix, r, q
<1>8. ASSUME n = m PROVE text = line
    <2>1. \A k \in 1 .. n : (m - n) + k = k
        BY <1>1, <1>8
    <2> QED BY <1>8, <2>1, SeqEqual
<1> QED BY <1>7, <1>8

(* A step that runs nothing breaks no promise about what is run.           *)
LEMMA NothingRun ==
    /\ ran = NoRun => RunsWhatWasTyped /\ RestartsOnPurpose
    /\ ran' = NoRun => RunsWhatWasTyped' /\ RestartsOnPurpose'
<1>1. IsSuffix(<<>>, <<>>)
    BY EmptySeq DEF IsSuffix, IsPrefix
<1>2. /\ NoRun.func = "none" /\ NoRun.text = <<>> /\ NoRun.line = <<>>
    BY DEF NoRun
<1>3. ASSUME ran = NoRun PROVE RunsWhatWasTyped /\ RestartsOnPurpose
    BY <1>1, <1>2, <1>3 DEF RunsWhatWasTyped, RestartsOnPurpose
<1>4. ASSUME ran' = NoRun PROVE RunsWhatWasTyped' /\ RestartsOnPurpose'
    BY <1>1, <1>2, <1>4 DEF RunsWhatWasTyped, RestartsOnPurpose
<1> QED BY <1>3, <1>4

(* A newly started console has an empty buffer.                            *)
LEMMA InitIInv == Init => IInv
<1> SUFFICES ASSUME Init PROVE IInv
    OBVIOUS
<1>1. /\ buf \in [0 .. INPUT_BUFFER_SIZE -> Chars \cup {NUL, OTHER_BYTE}]
      /\ buf[INPUT_BUFFER_SIZE] \notin Chars
    BY Sizes, CharsAssumption DEF Init, Zeroed
<1>2. keep_captured \in BOOLEAN /\ intact \in BOOLEAN /\ ~keep_captured
    BY DEF Init
<1>3. recive_buffer_index = 0 /\ depth = 0 /\ typed = <<>> /\ ran = NoRun
    BY DEF Init
<1>4. TypeOK
    BY <1>1, <1>2, <1>3, Sizes DEF TypeOK
<1>5. BufferHolds
    BY <1>3 DEF BufferHolds
<1>6. RunsWhatWasTyped /\ RestartsOnPurpose
    BY <1>3, NothingRun
<1> QED BY <1>4, <1>5, <1>6 DEF IInv

-----------------------------------------------------------------------------
(* The steps of the console.                                               *)

(* A character is stored behind what the buffer holds of the line, or at   *)
(* its beginning if the buffer is full, with a NUL behind it.              *)
LEMMA CharIInv ==
    ASSUME IInv, NEW ch \in Chars, serial_poll_char(ch)
    PROVE  IInv'
<1> DEFINE i == WrapIndex(recive_buffer_index)
<1>1. TypeOK /\ BufferHolds
    BY DEF IInv
<1>2. /\ buf \in [0 .. INPUT_BUFFER_SIZE -> Chars \cup {NUL, OTHER_BYTE}]
      /\ buf[INPUT_BUFFER_SIZE] \notin Chars
      /\ recive_buffer_index \in 0 .. INPUT_BUFFER_SIZE
      /\ typed \in Seq(Chars) /\ Len(typed) \in Nat
    BY <1>1, LenProperties DEF TypeOK
<1>3. /\ i \in 0 .. INPUT_BUFFER_SIZE - 1
      /\ i = 0 \/ i = recive_buffer_index
      /\ recive_buffer_index < INPUT_BUFFER_SIZE => i = recive_buffer_index
    BY <1>2, WrapInside
<1>4. /\ buf' = [buf EXCEPT ![i] = ch, ![i + 1] = NUL]
      /\ recive_buffer_index' = i + 1 /\ typed' = Append(typed, ch) /\ ran' = NoRun
    BY DEF serial_poll_char
<1>5. keep_captured' = keep_captured /\ depth' = depth /\ intact' = intact
    BY DEF serial_poll_char
<1> HIDE DEF i
<1>6. /\ i \in 0 .. INPUT_BUFFER_SIZE /\ i + 1 \in 0 .. INPUT_BUFFER_SIZE /\ i # i + 1
      /\ i # INPUT_BUFFER_SIZE
    BY <1>3, Sizes
<1>7. /\ buf' \in [0 .. INPUT_BUFFER_SIZE -> Chars \cup {NUL, OTHER_BYTE}]
      /\ \A k \in 0 .. INPUT_BUFFER_SIZE :
            buf'[k] = IF k = i + 1 THEN NUL ELSE IF k = i THEN ch ELSE buf[k]
    BY <1>2, <1>4, <1>6
<1>8. buf'[INPUT_BUFFER_SIZE] \notin Chars
    BY <1>2, <1>6, <1>7, Sizes, CharsAssumption
<1>9. /\ typed' \in Seq(Chars) /\ Len(typed') = Len(typed) + 1
      /\ \A k \in 1 .. Len(typed) : typed'[k] = typed[k]
      /\ typed'[Len(typed) + 1] = ch
    BY <1>2, <1>4, AppendProperties
<1>10. TypeOK'
    <2>1. keep_captured' \in BOOLEAN /\ intact' \in BOOLEAN /\ (keep_captured' => depth' > 0)
        BY <1>1, <1>5 DEF TypeOK
    <2>2. depth' \in Nat
        BY <1>1, <1>5 DEF TypeOK
    <2>3. recive_buffer_index' \in 0 .. INPUT_BUFFER_SIZE
        BY <1>4, <1>6
    <2> QED BY <1>7, <1>8, <1>9, <2>1, <2>2, <2>3 DEF TypeOK
<1>11. BufferHolds'
    <2>1. /\ recive_buffer_index <= Len(typed)
          /\ \A k \in 1 .. recive_buffer_index :
                buf[k - 1] = typed[(Len(typed) - recive_buffer_index) + k]
          /\ intact /\ Len(typed) <= INPUT_BUFFER_SIZE => recive_buffer_index = Len(typed)
        BY <1>1 DEF BufferHolds
    <2>2. recive_buffer_index' <= Len(typed')
        BY <1>2, <1>3, <1>4, <1>9, <2>1
    <2>3. ASSUME NEW k \in 1 .. i + 1
          PROVE  buf'[k - 1] = typed'[(Len(typed') - (i + 1)) + k]
        <3>1. /\ k - 1 \in 0 .. INPUT_BUFFER_SIZE /\ k - 1 # i + 1
              /\ (Len(typed') - (i + 1)) + k = (Len(typed) - i) + k
            <4>1. i \in Int /\ k \in Int /\ 1 <= k /\ k <= i + 1 /\ i < INPUT_BUFFER_SIZE
                BY <1>3, Sizes
            <4>2. k - 1 \in 0 .. INPUT_BUFFER_SIZE /\ k - 1 # i + 1
                BY <4>1, Sizes
            <4>3. (Len(typed') - (i + 1)) + k = ((Len(typed) + 1) - (i + 1)) + k
                BY <1>9
            <4>4. ((Len(typed) + 1) - (i + 1)) + k = (Len(typed) - i) + k
                BY <1>2, <4>1
            <4> QED BY <4>2, <4>3, <4>4
        <3>2. CASE k = i + 1
            <4>1. k - 1 = i /\ (Len(typed) - i) + k = Len(typed) + 1
                BY <1>2, <1>3, <3>2
            <4> QED BY <1>7, <1>9, <3>1, <4>1
        <3>3. CASE k # i + 1
            <4>1. k \in 1 .. i /\ i = recive_buffer_index
                BY <1>3, <3>3
            <4>2. k - 1 # i /\ (Len(typed) - i) + k \in 1 .. Len(typed)
                BY <1>2, <1>3, <2>1, <4>1
            <4>3. buf'[k - 1] = buf[k - 1]
                BY <1>7, <3>1, <4>2
            <4>4. buf[k - 1] = typed[(Len(typed) - i) + k]
                BY <2>1, <4>1
            <4> QED BY <1>9, <3>1, <4>2, <4>3, <4>4
        <3> QED BY <3>2, <3>3
    <2>4. ASSUME intact', Len(typed') <= INPUT_BUFFER_SIZE
          PROVE  recive_buffer_index' = Len(typed')
        <3>1. intact /\ Len(typed) < INPUT_BUFFER_SIZE
            BY <1>2, <1>5, <1>9, <2>4, Sizes
        <3>2. recive_buffer_index = Len(typed)
            BY <1>2, <2>1, <3>1, Sizes
        <3> QED BY <1>3, <1>4, <1>9, <3>1, <3>2
    <2> QED BY <1>4, <2>2, <2>3, <2>4 DEF BufferHolds
<1> QED BY <1>4, <1>10, <1>11, NothingRun DEF IInv

(* A capture loop that ends leaves the buffer as it is, and forgets it.    *)
LEMMA LoopEndIInv ==
    ASSUME IInv, capture_loop_ends
    PROVE  IInv'
<1>1. TypeOK
    BY DEF IInv
<1>2. /\ depth' = depth - 1 /\ depth > 0 /\ depth \in Nat
      /\ recive_buffer_index' = 0 /\ ran' = NoRun /\ buf' = buf /\ typed' = typed
      /\ typed \in Seq(Chars) /\ Len(typed) \in Nat
    BY <1>1, LenProperties DEF TypeOK, capture_loop_ends
<1>3. keep_captured' = keep_captured /\ ~keep_captured /\ keep_captured \in BOOLEAN
    BY <1>1 DEF TypeOK, capture_loop_ends
<1>4. intact' \in BOOLEAN /\ (intact' => typed = <<>>)
    BY DEF capture_loop_ends
<1>5. TypeOK'
    <2>1. depth' \in Nat /\ recive_buffer_index' \in 0 .. INPUT_BUFFER_SIZE
        BY <1>2, Sizes
    <2>2. /\ buf' \in [0 .. INPUT_BUFFER_SIZE -> Chars \cup {NUL, OTHER_BYTE}]
          /\ buf'[INPUT_BUFFER_SIZE] \notin Chars
        BY <1>1, <1>2 DEF TypeOK
    <2> QED BY <1>2, <1>3, <1>4, <2>1, <2>2 DEF TypeOK
<1>6. BufferHolds'
    BY <1>2, <1>4, EmptySeq DEF BufferHolds
<1> QED BY <1>2, <1>5, <1>6, NothingRun DEF IInv

(* The buffer with the NUL that ends a line.                               *)
Terminated == [buf EXCEPT ![WrapIndex(recive_buffer_index)] = NUL]

(* Ending a line keeps to the array.                                       *)
LEMMA TerminatedType ==
    ASSUME TypeOK
    PROVE  /\ Terminated \in [0 .. INPUT_BUFFER_SIZE -> Chars \cup {NUL, OTHER_BYTE}]
           /\ Terminated[INPUT_BUFFER_SIZE] \notin Chars
<1>1. /\ buf \in [0 .. INPUT_BUFFER_SIZE -> Chars \cup {NUL, OTHER_BYTE}]
      /\ buf[INPUT_BUFFER_SIZE] \notin Chars
      /\ recive_buffer_index \in 0 .. INPUT_BUFFER_SIZE
    BY DEF TypeOK
<1>2. WrapIndex(recive_buffer_index) \in 0 .. INPUT_BUFFER_SIZE
    BY <1>1, WrapInside, Sizes
<1> QED BY <1>1, <1>2, Sizes, CharsAssumption DEF Terminated

(* What run_command gets is the end of what was typed, and all of it if it *)
(* fits and no capture loop ended within.                                  *)
LEMMA LineRead ==
    ASSUME TypeOK, BufferHolds, NEW i, i = WrapIndex(recive_buffer_index), i # 0
    PROVE  /\ CString(Terminated) \in Seq(Chars) /\ Len(CString(Terminated)) = i
           /\ IsSuffix(CString(Terminated), typed)
           /\ intact /\ Len(typed) < INPUT_BUFFER_SIZE => CString(Terminated) = typed
<1>1. /\ buf \in [0 .. INPUT_BUFFER_SIZE -> Chars \cup {NUL, OTHER_BYTE}]
      /\ recive_buffer_index \in 0 .. INPUT_BUFFER_SIZE
      /\ typed \in Seq(Chars) /\ Len(typed) \in Nat
    BY LenProperties DEF TypeOK
<1>2. i \in 1 .. INPUT_BUFFER_SIZE - 1 /\ i = recive_buffer_index
    BY <1>1, WrapInside
<1>3. /\ i <= Len(typed)
      /\ \A k \in 1 .. i : buf[k - 1] = typed[(Len(typed) - i) + k]
      /\ intact /\ Len(typed) <= INPUT_BUFFER_SIZE => i = Len(typed)
    BY <1>2 DEF BufferHolds
<1>4. i \in 0 .. INPUT_BUFFER_SIZE
    BY <1>2, Sizes
<1>5. /\ Terminated[i] = NUL
      /\ \A k \in 0 .. INPUT_BUFFER_SIZE : k # i => Terminated[k] = buf[k]
    BY <1>1, <1>4 DEF Terminated
<1>6. \A k \in 1 .. i :
        /\ Terminated[k - 1] = typed[(Len(typed) - i) + k]
        /\ Terminated[k - 1] \in Chars
    <2> SUFFICES ASSUME NEW k \in 1 .. i
                 PROVE  /\ Terminated[k - 1] = typed[(Len(typed) - i) + k]
                        /\ Terminated[k - 1] \in Chars
        OBVIOUS
    <2>1. /\ k - 1 \in 0 .. INPUT_BUFFER_SIZE /\ k - 1 # i
          /\ (Len(typed) - i) + k \in 1 .. Len(typed)
        BY <1>1, <1>2, <1>3, Sizes
    <2> QED BY <1>1, <1>3, <1>5, <2>1, ElementOfSeq
<1>7. ASSUME NEW k \in 0 .. INPUT_BUFFER_SIZE, k < i PROVE Terminated[k] # NUL
    <2>1. k + 1 \in 1 .. i /\ (k + 1) - 1 = k
        BY <1>2, <1>7
    <2> QED BY <1>6, <2>1, CharsAssumption
<1> DEFINE text == CString(Terminated)
<1>8. text = [j \in 1 .. i |-> Terminated[j - 1]]
    BY <1>4, <1>5, <1>7, CStringEnds
<1>9. text \in Seq(Chars) /\ Len(text) = i
    <2>1. i \in Nat /\ \A j \in 1 .. i : Terminated[j - 1] \in Chars
        BY <1>2, <1>6
    <2> HIDE DEF text
    <2> QED BY <1>8, <2>1, IsASeq
<1>10. \A k \in 1 .. Len(text) : text[k] = typed[(Len(typed) - Len(text)) + k]
    <2> HIDE DEF text
    <2> QED BY <1>6, <1>8, <1>9
<1> HIDE DEF text
<1>11. IsSuffix(text, typed) /\ (Len(text) = Len(typed) => text = typed)
    BY <1>1, <1>3, <1>9, <1>10, EndOfLine
<1>12. Len(typed) < INPUT_BUFFER_SIZE => Len(typed) <= INPUT_BUFFER_SIZE
    BY <1>1, Sizes
<1> QED BY <1>3, <1>9, <1>11, <1>12 DEF text

(* A function that is found for a word is that of the command so named.    *)
LEMMA LookedUp ==
    ASSUME NEW name, NEW func \in Lookups(name)
    PROVE  /\ func = "run_echo" => name = EchoName
           /\ func = "run_bootloader_command" => name = BootloaderName
           /\ func = "overrun" => Len(name) >= MAX_COMMAND_NAME_SIZE
<1>1. CASE Len(name) >= MAX_COMMAND_NAME_SIZE
    BY <1>1 DEF Lookups
<1>2. CASE ~(Len(name) >= MAX_COMMAND_NAME_SIZE)
    <2>1. \/ name \in DOMAIN commands /\ func = commands[name]
          \/ func = "unknown"
        BY <1>2 DEF Lookups
    <2>2. CASE name \in DOMAIN commands /\ func = commands[name]
        BY <2>2 DEF commands
    <2> QED BY <2>1, <2>2
<1> QED BY <1>1, <1>2

(* The promises about what is run, from the facts about the line.          *)
LEMMA RunKeepsPromises ==
    ASSUME NEW func, NEW text, NEW out, NEW line, NEW whole,
           ran' = [func |-> func, text |-> text, out |-> out, line |-> line, intact |-> whole],
           IsSuffix(text, line),
           whole /\ Len(line) < INPUT_BUFFER_SIZE => text = line,
           func = "run_echo" =>
               EchoName \o (IF Len(text) > Len(EchoName) THEN <<COMMAND_DELIMITER_CHAR>>
                            ELSE <<>>) \o out = text,
           func = "run_bootloader_command" => Begins(text, BootloaderName),
           func = "overrun" =>
               /\ Len(text) >= MAX_COMMAND_NAME_SIZE
               /\ \A i \in 1 .. MAX_COMMAND_NAME_SIZE : text[i] # COMMAND_DELIMITER_CHAR
    PROVE  RunsWhatWasTyped' /\ RestartsOnPurpose'
<1>1. /\ ran'.func = func /\ ran'.text = text /\ ran'.out = out /\ ran'.line = line
      /\ ran'.intact = whole
    OBVIOUS
<1>2. RunsWhatWasTyped'
    BY <1>1 DEF RunsWhatWasTyped
<1>3. RestartsOnPurpose'
    BY <1>1 DEF RestartsOnPurpose
<1> QED BY <1>2, <1>3

(* The names of the two commands the promises mention.                     *)
LEMMA Names == EchoName \in Seq(Chars) /\ BootloaderName \in Seq(Chars)
<1>1. /\ EchoName \in Seq(Chars \ {COMMAND_DELIMITER_CHAR})
      /\ BootloaderName \in Seq(Chars \ {COMMAND_DELIMITER_CHAR})
    BY NamesAssumption
<1>2. Chars \ {COMMAND_DELIMITER_CHAR} \subseteq Chars
    OBVIOUS
<1> QED BY <1>1, <1>2, SeqMonotonic

(* A console that starts anew, or a line that is over.                     *)
LEMMA FreshBuffer ==
    ASSUME recive_buffer_index' = 0, typed' = <<>>,
           buf' \in [0 .. INPUT_BUFFER_SIZE -> Chars \cup {NUL, OTHER_BYTE}],
           buf'[INPUT_BUFFER_SIZE] \notin Chars,
           intact', intact' \in BOOLEAN, keep_captured' \in BOOLEAN,
           depth' \in Nat, keep_captured' => depth' > 0
    PROVE  TypeOK' /\ BufferHolds'
<1>1. typed' \in Seq(Chars) /\ Len(typed') = 0
    BY EmptySeq
<1>2. recive_buffer_index' \in 0 .. INPUT_BUFFER_SIZE
    BY Sizes
<1>3. TypeOK'
    BY <1>1, <1>2 DEF TypeOK
<1>4. BufferHolds'
    BY <1>1 DEF BufferHolds
<1> QED BY <1>3, <1>4

(* After a restart memory is as in the beginning.                          *)
LEMMA RestartFresh ==
    ASSUME Restart
    PROVE  TypeOK' /\ BufferHolds'
<1>1. /\ buf' \in [0 .. INPUT_BUFFER_SIZE -> Chars \cup {NUL, OTHER_BYTE}]
      /\ buf'[INPUT_BUFFER_SIZE] \notin Chars
    BY Sizes, CharsAssumption DEF Restart, Zeroed
<1>2. recive_buffer_index' = 0 /\ typed' = <<>> /\ depth' \in Nat
    BY DEF Restart
<1>3. intact' /\ intact' \in BOOLEAN /\ keep_captured' \in BOOLEAN
    BY DEF Restart
<1>4. keep_captured' => depth' > 0
    BY DEF Restart
<1> QED BY <1>1, <1>2, <1>3, <1>4, FreshBuffer

(* "capture" leaves keep_captured set only with a loop that looks at it.   *)
LEMMA CaptureLoops ==
    ASSUME TypeOK, run_capture_command
    PROVE  /\ keep_captured' \in BOOLEAN /\ depth' \in Nat
           /\ keep_captured' => depth' > 0
<1>1. depth \in Nat /\ keep_captured \in BOOLEAN
    BY DEF TypeOK
<1>2. /\ keep_captured' = ~keep_captured
      /\ depth' = IF keep_captured' THEN depth + 1 ELSE depth
    BY DEF run_capture_command
<1>3. keep_captured' \in BOOLEAN
    BY <1>1, <1>2
<1>4. depth' \in Nat /\ (keep_captured' => depth' > 0)
    <2>1. CASE keep_captured'
        BY <1>1, <1>2, <2>1
    <2>2. CASE ~keep_captured'
        BY <1>1, <1>2, <2>2
    <2> QED BY <2>1, <2>2
<1> QED BY <1>3, <1>4

(* A line that is run, whatever function it leads to.                      *)
LEMMA RunIInv ==
    ASSUME IInv, NEW i, i = WrapIndex(recive_buffer_index), i # 0,
           run_command(Terminated, i)
    PROVE  IInv'
<1> DEFINE text == CString(Terminated)
<1>1. TypeOK /\ BufferHolds
    BY DEF IInv
<1>2. /\ text \in Seq(Chars) /\ Len(text) = i /\ IsSuffix(text, typed)
      /\ intact /\ Len(typed) < INPUT_BUFFER_SIZE => text = typed
    BY <1>1, LineRead
<1>3. PICK func \in Lookups(FirstWord(text)) :
        /\ ran' = [func |-> func, text |-> text,
                   out |-> IF func = "run_echo" THEN run_echo(Terminated, i) ELSE <<>>,
                   line |-> typed, intact |-> intact]
        /\ \/ func = "run_bootloader_command" /\ run_bootloader_command
           \/ func = "overrun" /\ Restart
           \/ /\ func \notin {"run_bootloader_command", "overrun"}
              /\ buf' = Terminated
              /\ recive_buffer_index' = IndexAfter(i)
              /\ typed' = <<>>
              /\ intact' = TRUE
              /\ IF func = "run_capture_command" THEN run_capture_command
                 ELSE UNCHANGED <<keep_captured, depth>>
    BY DEF run_command
<1> DEFINE out == IF func = "run_echo" THEN run_echo(Terminated, i) ELSE <<>>
<1>4. run_echo(Terminated, i) = SubSeq(text, Len(EchoName) + 2, Len(text))
    BY <1>2 DEF run_echo
<1> HIDE DEF text
<1>5. RunsWhatWasTyped' /\ RestartsOnPurpose'
    <2>1. ran' = [func |-> func, text |-> text, out |-> out, line |-> typed, intact |-> intact]
        BY <1>3
    <2>2. func = "run_echo" =>
            EchoName \o (IF Len(text) > Len(EchoName) THEN <<COMMAND_DELIMITER_CHAR>>
                         ELSE <<>>) \o out = text
        <3> SUFFICES ASSUME func = "run_echo"
                     PROVE  EchoName \o (IF Len(text) > Len(EchoName)
                                         THEN <<COMMAND_DELIMITER_CHAR>> ELSE <<>>)
                                \o out = text
            OBVIOUS
        <3>1. FirstWord(text) = EchoName
            BY LookedUp
        <3>2. out = SubSeq(text, Len(EchoName) + 2, Len(text))
            BY <1>4
        <3> QED BY <1>2, <3>1, <3>2, EchoRight, Names
    <2>3. func = "run_bootloader_command" => Begins(text, BootloaderName)
        BY <1>2, LookedUp, BeginsRight, Names
    <2>4. func = "overrun" =>
            /\ Len(text) >= MAX_COMMAND_NAME_SIZE
            /\ \A k \in 1 .. MAX_COMMAND_NAME_SIZE : text[k] # COMMAND_DELIMITER_CHAR
        BY <1>2, LookedUp, LongWord
    <2> HIDE DEF out
    <2> QED BY <1>2, <2>1, <2>2, <2>3, <2>4, RunKeepsPromises
<1>6. TypeOK' /\ BufferHolds'
    <2>1. CASE Restart
        BY <2>1, RestartFresh
    <2>2. CASE /\ buf' = Terminated
               /\ recive_buffer_index' = IndexAfter(i)
               /\ typed' = <<>>
               /\ intact' = TRUE
               /\ IF func = "run_capture_command" THEN run_capture_command
                  ELSE UNCHANGED <<keep_captured, depth>>
        <3>1. /\ keep_captured' \in BOOLEAN /\ depth' \in Nat
              /\ keep_captured' => depth' > 0
            <4>1. CASE run_capture_command
                BY <1>1, <4>1, CaptureLoops
            <4>2. CASE keep_captured' = keep_captured /\ depth' = depth
                BY <1>1, <4>2 DEF TypeOK
            <4> QED BY <2>2, <4>1, <4>2
        <3>2. /\ buf' \in [0 .. INPUT_BUFFER_SIZE -> Chars \cup {NUL, OTHER_BYTE}]
              /\ buf'[INPUT_BUFFER_SIZE] \notin Chars
            BY <1>1, <2>2, TerminatedType
        <3>3. recive_buffer_index' = 0 /\ typed' = <<>>
            BY <2>2 DEF IndexAfter
        <3>4. intact' /\ intact' \in BOOLEAN
            BY <2>2
        <3> QED BY <3>1, <3>2, <3>3, <3>4, FreshBuffer
    <2> QED BY <1>3, <2>1, <2>2 DEF run_bootloader_command
<1> QED BY <1>5, <1>6 DEF IInv

(* A newline, also after an empty line or one that fills the buffer.       *)
LEMMA NewlineIInv ==
    ASSUME IInv, serial_poll_newline
    PROVE  IInv'
<1> DEFINE i == WrapIndex(recive_buffer_index)
<1>1. TypeOK
    BY DEF IInv
<1>2. \/ i # 0 /\ run_command(Terminated, i)
      \/ /\ buf' = Terminated /\ recive_buffer_index' = 0 /\ typed' = <<>>
         /\ intact' = TRUE /\ ran' = NoRun
         /\ keep_captured' = keep_captured /\ depth' = depth
    BY DEF serial_poll_newline, Terminated
<1>3. CASE i # 0 /\ run_command(Terminated, i)
    BY <1>3, RunIInv
<1>4. CASE /\ buf' = Terminated /\ recive_buffer_index' = 0 /\ typed' = <<>>
           /\ intact' = TRUE /\ ran' = NoRun
           /\ keep_captured' = keep_captured /\ depth' = depth
    <2>1. /\ keep_captured' \in BOOLEAN /\ depth' \in Nat
          /\ keep_captured' => depth' > 0
        BY <1>1, <1>4 DEF TypeOK
    <2>2. /\ buf' \in [0 .. INPUT_BUFFER_SIZE -> Chars \cup {NUL, OTHER_BYTE}]
          /\ buf'[INPUT_BUFFER_SIZE] \notin Chars
        BY <1>1, <1>4, TerminatedType
    <2>3. intact' /\ intact' \in BOOLEAN
        BY <1>4
    <2>4. TypeOK' /\ BufferHolds'
        BY <1>4, <2>1, <2>2, <2>3, FreshBuffer
    <2> QED BY <1>4, <2>4, NothingRun DEF IInv
<1> QED BY <1>2, <1>3, <1>4

(* Every step of the console keeps the invariant.                          *)
LEMMA NextIInv == IInv /\ [Next]_vars => IInv'
<1> SUFFICES ASSUME IInv, [Next]_vars PROVE IInv'
    OBVIOUS
<1>1. CASE UNCHANGED vars
    BY <1>1 DEF IInv, TypeOK, BufferHolds, RunsWhatWasTyped, RestartsOnPurpose, vars
<1> QED BY <1>1, CharIInv, NewlineIInv, LoopEndIInv DEF Next

-----------------------------------------------------------------------------
(* Theorems.                                                               *)

(* However lines, captures and returns of serial_poll alternate, the       *)
(* console keeps IInv: the buffer holds the end of what was typed.         *)
THEOREM Invariance == Spec => []IInv
BY InitIInv, NextIInv, PTL DEF Spec, Safety

(* serial_poll stays within its buffer and the byte behind it, and         *)
(* run_capture_command never sets keep_captured without a loop.            *)
THEOREM TypeCorrect == Spec => []TypeOK
<1>1. IInv => TypeOK
    BY DEF IInv
<1> QED BY <1>1, Invariance, PTL

(* run_command gets the end of what was typed, all of it if it fits and no *)
(* capture loop ended within, and run_echo prints exactly its argument.    *)
THEOREM RunsTyped == Spec => []RunsWhatWasTyped
<1>1. IInv => RunsWhatWasTyped
    BY DEF IInv
<1> QED BY <1>1, Invariance, PTL

(* A line that fits restarts the device only if its first word asks for it *)
(* or is too long for arg_string.                                          *)
THEOREM RestartsAsked == Spec => []RestartsOnPurpose
<1>1. IInv => RestartsOnPurpose
    BY DEF IInv
<1> QED BY <1>1, Invariance, PTL

=============================================================================
