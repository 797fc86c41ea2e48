-------------------------- MODULE FilesystemProofs --------------------------
(***************************************************************************)
(* Proofs about Filesystem: for all files, all strings and words stored in *)
(* them and every width of the boot counter, wherever power is lost.       *)
(***************************************************************************)
EXTENDS Filesystem, SequenceTheorems, TLAPS

-----------------------------------------------------------------------------
(* The operators.                                                          *)

(* A write at the start leaves a file that begins with what was written    *)
(* and is as long as the longer of the two; behind, it is as it was.       *)
LEMMA OverwriteAtStart ==
    ASSUME NEW old \in Seq(Int), NEW new \in Seq(Int)
    PROVE  /\ Overwrite(old, 0, new) \in Seq(Int)
           /\ Begins(Overwrite(old, 0, new), new)
           /\ Len(Overwrite(old, 0, new)) = IF Len(old) <= Len(new) THEN Len(new) ELSE Len(old)
           /\ \A i \in 1 .. Len(Overwrite(old, 0, new)) :
                Len(new) < i => i \in 1 .. Len(old) /\ Overwrite(old, 0, new)[i] = old[i]
<1> DEFINE n == Len(new)
           m == Len(old)
           rest == SubSeq(old, n + 1, m)
<1>1. n \in Nat /\ m \in Nat
    OBVIOUS
<1>2. SubSeq(old, 1, 0) = <<>>
    BY SubSeqEmpty
<1>3. \A i \in n + 1 .. m : old[i] \in Int
    BY <1>1, ElementOfSeq
<1>4. /\ rest \in Seq(Int) /\ Len(rest) = IF n + 1 <= m THEN m - n ELSE 0
      /\ \A i \in 1 .. m - n : rest[i] = old[n + i]
    <2>1. n + 1 \in Int /\ m \in Int
        BY <1>1
    <2> HIDE DEF n, m
    <2>2. /\ rest \in Seq(Int)
          /\ Len(rest) = IF n + 1 <= m THEN m - (n + 1) + 1 ELSE 0
          /\ \A i \in 1 .. m - (n + 1) + 1 : rest[i] = old[(n + 1) + i - 1]
        BY <1>1, <1>3, <2>1, SubSeqProperties
    <2>3. m - (n + 1) + 1 = m - n /\ \A i \in 1 .. m - n : (n + 1) + i - 1 = n + i
        BY <1>1
    <2> QED BY <2>2, <2>3
<1>5. Overwrite(old, 0, new) = new \o rest
    <2>1. <<>> \o new = new
        BY ConcatEmptySeq
    <2>2. 0 + Len(new) + 1 = n + 1
        BY <1>1
    <2>3. Overwrite(old, 0, new) =
            (SubSeq(old, 1, 0) \o new) \o SubSeq(old, 0 + Len(new) + 1, Len(old))
        BY Zenon DEF Overwrite
    <2> QED BY <1>2, <2>1, <2>2, <2>3, Zenon
<1> HIDE DEF rest
<1>6. /\ new \o rest \in Seq(Int) /\ Len(new \o rest) = n + Len(rest)
      /\ \A i \in 1 .. n + Len(rest) : (new \o rest)[i] = IF i <= n THEN new[i] ELSE rest[i - n]
    BY <1>4, ConcatProperties
<1> DEFINE w == new \o rest
           k == Len(rest)
<1>7. Overwrite(old, 0, new) = w
    BY <1>5
<1>8. k = IF n + 1 <= m THEN m - n ELSE 0
    BY <1>4
<1>9. /\ Len(w) = n + k /\ w \in Seq(Int)
      /\ \A i \in 1 .. n + k : w[i] = IF i <= n THEN new[i] ELSE rest[i - n]
    BY <1>6
<1> HIDE DEF w, k
<1>10. Begins(w, new)
    <2>1. n <= n + k /\ \A i \in 1 .. n : i \in 1 .. n + k /\ i <= n
        BY <1>1, <1>8
    <2> QED BY <2>1, <1>9 DEF Begins
<1>11. n + k = IF m <= n THEN n ELSE m
    BY <1>1, <1>8
<1>12. ASSUME NEW i \in 1 .. n + k, n < i
       PROVE  i \in 1 .. m /\ w[i] = old[i]
    <2>1. i \in 1 .. m /\ i - n \in 1 .. m - n /\ n + (i - n) = i /\ ~(i <= n)
        BY <1>1, <1>8, <1>12
    <2>2. w[i] = rest[i - n]
        BY <1>9, <2>1
    <2> QED BY <1>4, <2>1, <2>2
<1> QED BY <1>7, <1>9, <1>10, <1>11, <1>12

(* A word over a word, or over nothing, is a word.                         *)
LEMMA OverwriteWord ==
    ASSUME NEW old \in Seq(Int), Len(old) <= 1, NEW v \in Int
    PROVE  Overwrite(old, 0, <<v>>) = <<v>>
<1>1. <<v>> \in Seq(Int) /\ Len(<<v>>) = 1
    OBVIOUS
<1>2. /\ Overwrite(old, 0, <<v>>) \in Seq(Int)
      /\ Begins(Overwrite(old, 0, <<v>>), <<v>>)
      /\ Len(Overwrite(old, 0, <<v>>)) = 1
    BY <1>1, OverwriteAtStart
<1>3. \A i \in 1 .. 1 : Overwrite(old, 0, <<v>>)[i] = <<v>>[i]
    BY <1>1, <1>2 DEF Begins
<1> QED BY <1>1, <1>2, <1>3, SeqEqual

(* What get_string returns to a caller with just enough room is what the   *)
(* file begins with.                                                       *)
LEMMA StringBeginning ==
    ASSUME NEW f \in Files, flash[f] \in Seq(Int), NEW s \in Seq(Int), Begins(flash[f], s)
    PROVE  get_string(f, Len(s)) = s
<1> DEFINE n == Len(s)
           c == flash[f]
<1>1. n \in Nat /\ Len(c) \in Nat /\ n <= Len(c)
    BY DEF Begins
<1>2. get_string(f, n) = SubSeq(c, 1, n)
    <2>1. (IF Len(c) < n THEN Len(c) ELSE n) = n
        BY <1>1
    <2> QED BY <2>1 DEF get_string
<1>3. \A i \in 1 .. n : c[i] \in Int /\ c[i] = s[i]
    BY <1>1, ElementOfSeq DEF Begins
<1>4. SubSeq(c, 1, n) \in Seq(Int) /\ Len(SubSeq(c, 1, n)) = n
      /\ \A i \in 1 .. n : SubSeq(c, 1, n)[i] = c[i]
    <2> HIDE DEF c, n
    <2>1. /\ SubSeq(c, 1, n) \in Seq(Int)
          /\ Len(SubSeq(c, 1, n)) = IF 1 <= n THEN n - 1 + 1 ELSE 0
          /\ \A i \in 1 .. n - 1 + 1 : SubSeq(c, 1, n)[i] = c[1 + i - 1]
        BY <1>1, <1>3, SubSeqProperties
    <2> QED BY <1>1, <2>1
<1> QED BY <1>2, <1>3, <1>4, SeqEqual

(* A reader of a file gets what the file begins with.                      *)
LEMMA ReadsBeginning ==
    ASSUME NEW f \in Stores, flash[f] \in Seq(Int), NEW s \in Seq(Int), Holds(f, s),
           f \notin exists => flash[f] = <<>>
    PROVE  Reads(f, s)
<1>1. CASE f \notin IntFiles
    BY <1>1, StringBeginning DEF Reads, Files, Holds
<1>2. CASE f \in IntFiles
    <2>1. flash[f] = s /\ (s # <<>> => f \in exists)
        BY <1>2 DEF Holds
    <2>2. ASSUME NEW opened \in BOOLEAN, NEW readable \in BOOLEAN
          PROVE  get_int(f, opened, readable) \in
                    IF s # <<>> /\ opened /\ readable THEN {Head(s)}
                    ELSE {INVALID_FILE, 0}
        BY <2>1 DEF get_int
    <2> QED BY <1>2, <2>2 DEF Reads
<1> QED BY <1>1, <1>2

(* The counter stays within its width, also when it wraps.                 *)
LEMMA CountsOn ==
    ASSUME NEW n \in Nat
    PROVE  Incremented(n) \in Counts /\ (n + 1) % COUNT_SIZE \in Counts
<1> DEFINE m == COUNT_SIZE
<1>1. m \in Nat /\ m > 0
    BY FilesAssumption
<1> HIDE DEF m
<1>2. (n + 1) % m \in 0 .. m - 1
    BY <1>1, Z3
<1> QED BY <1>2 DEF Incremented, Counts, m

(* What is stored in an integer file is one word, in a string file a       *)
(* string; both are cells.                                                 *)
LEMMA DataCells ==
    ASSUME NEW f \in IntFiles \cup StringFiles, NEW d \in Data(f)
    PROVE  d \in Seq(Int) /\ (f \in IntFiles => \E v \in Ints : d = <<v>>)
<1>1. CASE f \in IntFiles
    <2>1. PICK v \in Ints : d = <<v>>
        BY <1>1 DEF Data
    <2>2. v \in Int
        BY FilesAssumption
    <2> QED BY <2>1, <2>2
<1>2. CASE f \notin IntFiles
    <2>1. d \in Seq(Nat)
        BY <1>2, FilesAssumption DEF Data
    <2>2. Nat \subseteq Int
        OBVIOUS
    <2> QED BY <1>2, <2>1, <2>2, SeqMonotonic
<1> QED BY <1>1, <1>2

(* The counter read is the word in its file.                               *)
LEMMA CountReads ==
    ASSUME NEW c, Word(c, Counts)
    PROVE  CountRead(c) \in Counts /\ (\A n \in Counts : c = <<n>> => CountRead(c) = n)
<1>1. 0 \in Counts
    BY FilesAssumption DEF Counts
<1> QED BY <1>1 DEF CountRead, Word

(* A word is at most one cell.                                             *)
LEMMA ShortWord ==
    ASSUME NEW c, NEW S, Word(c, S)
    PROVE  Len(c) <= 1
<1>1. CASE c = <<>>
    BY <1>1
<1>2. CASE \E v \in S : c = <<v>>
    BY <1>2
<1> QED BY <1>1, <1>2 DEF Word

-----------------------------------------------------------------------------
(* The inductive invariant.                                                *)

(* Nothing stored, nothing in flash.                                       *)
LEMMA EmptyIInv ==
    ASSUME exists' = {}, flash' = Empty, kept' = [f \in Stores |-> <<>>],
           maybe' = [f \in Stores |-> {}], tried' = [f \in Stores |-> {}],
           pc' \notin {"set", "stored", "boot_open", "boot_written"}, boots' = 0
    PROVE  Contents' /\ Durable' /\ Pending' /\ BootCountExact'
<1>1. flash' \in [Files -> Seq(Int)] /\ \A f \in Files : flash'[f] = <<>>
    BY DEF Empty
<1>2. Contents'
    <2>1. \A f \in Stores : 1 .. Len(flash'[f]) = {}
        BY <1>1 DEF Files
    <2> QED BY <1>1, <2>1 DEF Contents, Word, Files, Stores
<1>3. /\ kept' \in [Stores -> Seq(Int)] /\ maybe' \in [Stores -> SUBSET Seq(Int)]
      /\ tried' \in [Stores -> SUBSET Seq(Int)]
    OBVIOUS
<1>4. ASSUME NEW f \in Stores
      PROVE  <<>> \in Expected(f)' /\ Holds(f, <<>>)'
    BY <1>1 DEF Expected, Holds, Begins, Files
<1>5. Durable'
    BY <1>3, <1>4 DEF Durable
<1>6. Pending' /\ BootCountExact'
    BY <1>1 DEF Pending, BootCountExact, CountRead, Files
<1> QED BY <1>2, <1>5, <1>6

(* The flash of a new device is empty.                                     *)
LEMMA InitIInv == Init => IInv
<1> SUFFICES ASSUME Init PROVE IInv
    OBVIOUS
<1>1. \A f \in Files : Empty[f] = <<>>
    BY DEF Empty
<1>2. Empty \in [Files -> Seq(Int)]
    BY DEF Empty
<1>3. Contents
    <2>1. \A f \in Stores : 1 .. Len(flash[f]) = {}
        BY <1>1 DEF Init, Files
    <2> QED BY <1>1, <1>2, <2>1 DEF Init, Contents, Word, Files, Stores
<1>4. TypeOK
    <2>1. io_error \in BOOLEAN /\ boots \in 0 .. COUNT_SIZE - 1 /\ pos \in Nat
        <3>1. io_error \in BOOLEAN
            BY DEF Init
        <3> QED BY <3>1, FilesAssumption DEF Init
    <2>2. \A f \in IntFiles \cup {BOOT} : Len(flash[f]) <= 1
        BY <1>3, ShortWord DEF Contents
    <2> QED BY <1>1, <1>2, <2>1, <2>2 DEF Init, TypeOK, Files
<1>5. Durable
    <2>1. \A f \in Stores : <<>> \in Expected(f) /\ Holds(f, <<>>)
        BY <1>1 DEF Init, Expected, Holds, Begins, Files
    <2>2. /\ kept \in [Stores -> Seq(Int)] /\ maybe \in [Stores -> SUBSET Seq(Int)]
          /\ tried \in [Stores -> SUBSET Seq(Int)]
        BY DEF Init
    <2> QED BY <2>1, <2>2 DEF Durable
<1>6. Pending /\ BootCountExact
    BY <1>1 DEF Init, Pending, BootCountExact, CountRead, Files
<1> QED BY <1>3, <1>4, <1>5, <1>6 DEF IInv

(* A close that commits: the file begins with what was written to it, what *)
(* follows was meant for it, and the other files are as they were.         *)
LEMMA CommitKeeps ==
    ASSUME IInv, Close(TRUE), exists' = exists, tried' = tried,
           pos = 0, file \in Files, file \in exists, data \in Seq(Int),
           file \in Stores => data \in tried[file],
           file \in IntFiles => \E v \in Ints : data = <<v>>,
           file = BOOT => \E n \in Counts : data = <<n>>
    PROVE  /\ Contents' /\ \A f \in Files : f \notin exists' => flash'[f] = <<>>
           /\ Begins(flash'[file], data) /\ (file \in IntFiles => flash'[file] = data)
           /\ \A f \in Files : f # file => flash'[f] = flash[f]
<1> DEFINE new == Overwrite(flash[file], 0, data)
<1>1. flash \in [Files -> Seq(Int)]
    BY DEF IInv, Contents
<1>2. flash' = [flash EXCEPT ![file] = new]
    BY DEF Close
<1>3. /\ new \in Seq(Int) /\ Begins(new, data)
      /\ \A i \in 1 .. Len(new) :
            Len(data) < i => i \in 1 .. Len(flash[file]) /\ new[i] = flash[file][i]
    BY <1>1, OverwriteAtStart
<1>4. \A S \in SUBSET Int : \A v \in S :
        Word(flash[file], S) /\ data = <<v>> => new = data
    BY <1>1, OverwriteWord, ShortWord
<1> HIDE DEF new
<1>5. /\ flash' \in [Files -> Seq(Int)]
      /\ flash'[file] = new
      /\ \A f \in Files : f # file => flash'[f] = flash[f]
    BY <1>1, <1>2, <1>3
<1>6. ASSUME NEW f \in Stores, NEW i \in 1 .. Len(flash'[f])
      PROVE  Meant(f, i)'
    <2>0. f \in Files
        BY DEF Files
    <2>1. CASE f # file
        BY <1>5, <2>0, <2>1 DEF Meant, IInv, Contents
    <2>2. CASE f = file
        <3>1. i \in 1 .. Len(new) /\ data \in tried[f] /\ Len(data) \in Nat
            BY <1>5, <2>2
        <3>2. CASE i <= Len(data)
            <4>1. new[i] = data[i]
                BY <1>3, <3>1, <3>2 DEF Begins
            <4> QED BY <1>5, <2>2, <3>1, <3>2, <4>1 DEF Meant
        <3>3. CASE ~(i <= Len(data))
            <4>1. Len(data) < i
                BY <3>1, <3>3
            <4>2. i \in 1 .. Len(flash[f]) /\ new[i] = flash[f][i]
                BY <1>3, <2>2, <3>1, <4>1
            <4>3. Meant(f, i)
                BY <4>2 DEF IInv, Contents
            <4> QED BY <1>5, <2>2, <4>2, <4>3 DEF Meant
        <3> QED BY <3>2, <3>3
    <2> QED BY <2>1, <2>2
<1>7. ASSUME NEW f \in IntFiles
      PROVE  Word(flash'[f], Ints) /\ (f = file => flash'[f] = data)
    <2>1. f \in Files /\ Ints \in SUBSET Int /\ Word(flash[f], Ints)
        BY FilesAssumption DEF Files, Stores, IInv, Contents
    <2>2. CASE f = file
        <3>1. PICK v \in Ints : data = <<v>>
            BY <2>2
        <3>2. new = data
            BY <1>4, <2>1, <2>2, <3>1
        <3> QED BY <1>5, <2>2, <3>1, <3>2 DEF Word
    <2>3. CASE f # file
        BY <1>5, <2>1, <2>3
    <2> QED BY <2>2, <2>3
<1>8. Word(flash'[BOOT], Counts)
    <2>1. BOOT \in Files /\ Counts \in SUBSET Int /\ Word(flash[BOOT], Counts)
        BY FilesAssumption DEF Files, Counts, IInv, Contents
    <2>2. CASE file = BOOT
        <3>1. PICK n \in Counts : data = <<n>>
            BY <2>2
        <3>2. new = data
            BY <1>4, <2>1, <2>2, <3>1
        <3> QED BY <1>5, <2>2, <3>1, <3>2 DEF Word
    <2>3. CASE file # BOOT
        BY <1>5, <2>1, <2>3
    <2> QED BY <2>2, <2>3
<1>9. \A f \in Files : f \notin exists' => flash'[f] = <<>>
    BY <1>5 DEF IInv, TypeOK
<1>10. Contents'
    BY <1>5, <1>6, <1>7, <1>8 DEF Contents
<1> QED BY <1>3, <1>5, <1>7, <1>9, <1>10

(* The types of the files follow from their contents.                      *)
LEMMA FileTypes ==
    ASSUME Contents', exists' \subseteq Files,
           \A f \in Files : f \notin exists' => flash'[f] = <<>>,
           pc' \in {"off", "mounted", "mount_failed", "boot_open", "boot_written",
                    "running", "set", "stored", "fault"},
           file' \in Files, data' \in Seq(Int), pos' \in Nat,
           boots' \in Counts, io_error' \in BOOLEAN
    PROVE  TypeOK'
<1>1. \A f \in IntFiles \cup {BOOT} : Len(flash'[f]) <= 1
    BY ShortWord DEF Contents
<1>2. \A f \in Files : flash'[f] \in Seq(Int)
    BY DEF Contents
<1> QED BY <1>1, <1>2 DEF TypeOK, Counts

(* Steps that leave the files and what is known of them alone, outside of  *)
(* a store.                                                                *)
LEMMA SameContents ==
    ASSUME IInv, UNCHANGED <<flash, stored>>, pc # "stored", pc' # "stored"
    PROVE  Contents' /\ Durable'
<1>1. UNCHANGED <<flash, kept, maybe, tried>>
    BY DEF stored
<1>2. Contents'
    BY <1>1 DEF IInv, Contents, Meant
<1>3. \A f \in Stores : Expected(f)' = Expected(f)
    BY <1>1 DEF Expected
<1>4. \A f \in Stores : \A d : Holds(f, d)' <=> Holds(f, d)
    BY <1>1 DEF Holds
<1> QED BY <1>1, <1>2, <1>3, <1>4 DEF IInv, Durable

(* Steps that touch no file: a mount, an unmount, an open that fails.      *)
LEMMA QuietIInv ==
    ASSUME IInv, UNCHANGED <<exists, flash, data, pos, stored, boots, io_error>>,
           pc # "stored",
           pc' \in {"off", "mounted", "mount_failed", "running", "fault"}, file' \in Files
    PROVE  IInv'
<1>1. Contents' /\ Durable'
    BY SameContents
<1>2. BootCountExact' /\ Pending'
    BY DEF IInv, BootCountExact, Pending
<1>3. TypeOK'
    BY <1>1, FileTypes DEF IInv, TypeOK, Counts
<1> QED BY <1>1, <1>2, <1>3 DEF IInv

(* Power lost: what was being stored is in the file, or is not.            *)
LEMMA PowerLossIInv == IInv /\ PowerLoss => IInv'
<1> SUFFICES ASSUME IInv, PowerLoss PROVE IInv'
    OBVIOUS
<1>1. /\ pc' = "off"
      /\ UNCHANGED <<exists, flash, file, data, pos, kept, tried, boots, io_error>>
    BY DEF PowerLoss, open
<1>2. maybe' = IF pc \in {"set", "stored"} THEN [maybe EXCEPT ![file] = @ \cup {data}] ELSE maybe
    BY DEF PowerLoss
<1>3. Contents'
    BY <1>1 DEF IInv, Contents, Meant
<1>4. maybe \in [Stores -> SUBSET Seq(Int)] /\ data \in Seq(Int)
    BY DEF IInv, Durable, TypeOK
<1>5. maybe' \in [Stores -> SUBSET Seq(Int)]
    BY <1>2, <1>4
<1>6. ASSUME NEW f \in Stores
      PROVE  Expected(f) \subseteq Expected(f)'
    <2>1. maybe[f] \subseteq maybe'[f] /\ (pc = "stored" /\ file = f => data \in maybe'[f])
        BY <1>2, <1>4
    <2> QED BY <1>1, <2>1 DEF Expected
<1>7. \A f \in Stores : \A d : Holds(f, d)' <=> Holds(f, d)
    BY <1>1 DEF Holds
<1>8. Durable'
    BY <1>1, <1>5, <1>6, <1>7 DEF IInv, Durable
<1>9. BootCountExact' /\ Pending'
    BY <1>1 DEF IInv, BootCountExact, Pending
<1>10. TypeOK'
    BY <1>1, <1>3, FileTypes DEF IInv, TypeOK, Counts
<1> QED BY <1>3, <1>8, <1>9, <1>10 DEF IInv

(* A format empties every file, and starts a new count.                    *)
LEMMA FormatIInv == IInv /\ MountFormat => IInv'
<1> SUFFICES ASSUME IInv, MountFormat PROVE IInv'
    OBVIOUS
<1>1. CASE pc' = "fault" /\ UNCHANGED <<exists, flash, stored, boots, io_error>>
    BY <1>1, QuietIInv DEF MountFormat, open, IInv, TypeOK
<1>2. CASE /\ pc' \in {"mounted", "fault"}
           /\ exists' = {} /\ flash' = Empty
           /\ kept' = [f \in Stores |-> <<>>]
           /\ maybe' = [f \in Stores |-> {}]
           /\ tried' = [f \in Stores |-> {}]
           /\ boots' = 0 /\ io_error' = FALSE
    <2>1. Contents' /\ Durable' /\ Pending' /\ BootCountExact'
        BY <1>2, EmptyIInv
    <2>2. \A f \in Files : flash'[f] = <<>>
        BY <1>2 DEF Empty
    <2>3. io_error' \in BOOLEAN
        BY <1>2
    <2>4. TypeOK'
        BY <1>2, <2>1, <2>2, <2>3, FileTypes, FilesAssumption
        DEF MountFormat, open, IInv, TypeOK, Counts
    <2> QED BY <2>1, <2>4 DEF IInv
<1> QED BY <1>1, <1>2 DEF MountFormat

(* The open of the counter's file, which may have to be created.           *)
LEMMA BootOpenIInv == IInv /\ BootOpen => IInv'
<1> SUFFICES ASSUME IInv, BootOpen PROVE IInv'
    OBVIOUS
<1>0. BOOT \in Files
    BY DEF Files
<1>1. CASE pc' = "fault" /\ exists' = exists
    BY <1>0, <1>1, QuietIInv DEF BootOpen
<1>2. CASE pc' = "boot_open" /\ Create(BOOT)
    <2>1. Contents' /\ Durable'
        BY <1>2, SameContents DEF BootOpen
    <2>2. BootCountExact'
        BY DEF BootOpen, IInv, BootCountExact
    <2>3. Pending'
        BY <1>2 DEF BootOpen, Create, Pending
    <2>4. TypeOK'
        BY <1>0, <1>2, <2>1, FileTypes DEF BootOpen, Create, IInv, TypeOK, Counts
    <2> QED BY <2>1, <2>2, <2>3, <2>4 DEF IInv
<1> QED BY <1>1, <1>2 DEF BootOpen

(* The counter is read, incremented and written, not yet in flash.         *)
LEMMA BootCountIInv == ASSUME NEW read \in BOOLEAN PROVE IInv /\ BootCount(read) => IInv'
<1> SUFFICES ASSUME IInv, BootCount(read) PROVE IInv'
    OBVIOUS
<1> DEFINE r == IF read THEN CountRead(flash[BOOT]) ELSE 0
           n == Incremented(r)
<1>1. r \in Counts
    BY CountReads, FilesAssumption DEF IInv, Contents, Counts
<1>2. n \in Counts
    BY <1>1, CountsOn DEF Counts
<1>3. (io_error' = FALSE => io_error = FALSE /\ read) /\ io_error' \in BOOLEAN
    BY DEF BootCount, IInv, TypeOK
<1>4. ~io_error' => r = boots
    BY <1>3 DEF IInv, BootCountExact, TypeOK
<1>5. data' = <<n>> /\ pos' = 0 /\ pc = "boot_open" /\ pc' = "boot_written"
    BY DEF BootCount, Rewound
<1>6. UNCHANGED <<exists, flash, file, stored, boots>>
    BY DEF BootCount
<1>7. Contents' /\ Durable'
    BY <1>5, <1>6, SameContents
<1>8. ~io_error' => ~io_error
    BY <1>3
<1>9. BootCountExact'
    BY <1>6, <1>8 DEF IInv, BootCountExact
<1>10. Pending'
    <2>1. ~io_error' => n = Incremented(boots)
        BY <1>4
    <2> HIDE DEF n, r
    <2> QED BY <1>2, <1>5, <1>6, <2>1 DEF IInv, Pending
<1>11. data' \in Seq(Int)
    BY <1>2, <1>5 DEF Counts
<1>12. TypeOK'
    BY <1>3, <1>5, <1>6, <1>7, <1>11, FileTypes DEF IInv, TypeOK, Counts
<1> QED BY <1>7, <1>9, <1>10, <1>12 DEF IInv

(* The count reaches the flash, or its write failed.                       *)
LEMMA BootCloseIInv == ASSUME NEW ok \in BOOLEAN PROVE IInv /\ BootClose(ok) => IInv'
<1> SUFFICES ASSUME IInv, BootClose(ok) PROVE IInv'
    OBVIOUS
<1>1. /\ pc = "boot_written" /\ pc' = "running" /\ boots' = (boots + 1) % COUNT_SIZE
      /\ UNCHANGED <<exists, file, data, pos, kept, maybe, tried>>
    BY DEF BootClose, open, stored
<1>2. PICK n \in Counts : data = <<n>> /\ (~io_error => n = Incremented(boots))
    BY DEF BootClose, IInv, Pending
<1>3. file = BOOT /\ BOOT \in exists /\ pos = 0 /\ BOOT \in Files /\ BOOT \notin Stores
    BY FilesAssumption DEF BootClose, IInv, Pending, Files, Stores
<1>4. boots' \in Counts
    BY <1>1, CountsOn DEF IInv, TypeOK
<1>5. (~io_error' => ~io_error /\ ok) /\ io_error' \in BOOLEAN
    BY DEF BootClose, IInv, TypeOK
<1>6. /\ Contents' /\ \A f \in Files : f \notin exists' => flash'[f] = <<>>
      /\ \A f \in Files : f # BOOT => flash'[f] = flash[f]
    <2>1. CASE ok
        <3>1. Close(TRUE)
            BY <2>1 DEF BootClose, Close
        <3>2. data \in Seq(Int) /\ file \notin IntFiles /\ file \notin Stores
            BY <1>3 DEF IInv, TypeOK, Stores
        <3> QED BY <1>1, <1>2, <1>3, <3>1, <3>2, CommitKeeps
    <2>2. CASE ~ok
        <3>1. flash' = flash
            BY <2>2 DEF BootClose, Close
        <3> QED BY <1>1, <3>1 DEF IInv, Contents, Meant, TypeOK
    <2> QED BY <2>1, <2>2
<1>7. Durable'
    <2>1. \A f \in Stores : flash'[f] = flash[f]
        BY <1>3, <1>6 DEF Files
    <2>2. \A f \in Stores : Expected(f)' = Expected(f)
        BY <1>1 DEF Expected
    <2>3. \A f \in Stores : \A d : Holds(f, d)' <=> Holds(f, d)
        BY <2>1 DEF Holds
    <2> QED BY <1>1, <2>2, <2>3 DEF IInv, Durable
<1>8. BootCountExact'
    <2> SUFFICES ASSUME ~io_error' PROVE CountRead(flash'[BOOT]) = boots'
        BY DEF BootCountExact
    <2>1. n = boots' /\ ok
        BY <1>1, <1>2, <1>5 DEF Incremented
    <2>2. flash'[BOOT] = <<n>>
        <3>1. flash[BOOT] \in Seq(Int) /\ Len(flash[BOOT]) <= 1 /\ n \in Int
            BY <1>3 DEF IInv, TypeOK, Counts
        <3>2. Overwrite(flash[BOOT], 0, <<n>>) = <<n>>
            BY <3>1, OverwriteWord
        <3> QED BY <1>2, <1>3, <2>1, <3>2 DEF BootClose, Close, IInv, Contents
    <2> QED BY <1>6, <2>1, <2>2, CountReads DEF Contents
<1>9. Pending'
    BY <1>1 DEF Pending
<1>10. TypeOK'
    BY <1>1, <1>4, <1>5, <1>6, FileTypes DEF IInv, TypeOK
<1> QED BY <1>6, <1>7, <1>8, <1>9, <1>10 DEF IInv

(* set_int and set_string open their file and write at its start.          *)
LEMMA StoreOpenIInv ==
    ASSUME NEW f \in Stores, NEW d \in Data(f)
    PROVE  IInv /\ StoreOpen(f, d) => IInv'
<1> SUFFICES ASSUME IInv, StoreOpen(f, d) PROVE IInv'
    OBVIOUS
<1>1. /\ pc = "running" /\ pc' = "set"
      /\ file' = f /\ data' = d /\ pos' = 0 /\ exists' = exists \cup {f}
      /\ tried' = [tried EXCEPT ![f] = @ \cup {d}]
      /\ UNCHANGED <<flash, kept, maybe, boots, io_error>>
    BY DEF StoreOpen, StorePosition, Create
<1>2. d \in Seq(Int) /\ f \in Files
    BY DataCells DEF Files, Stores
<1>3. tried \in [Stores -> SUBSET Seq(Int)]
    BY DEF IInv, Durable
<1>4. /\ tried' \in [Stores -> SUBSET Seq(Int)] /\ d \in tried'[f]
      /\ \A g \in Stores : tried[g] \subseteq tried'[g]
    BY <1>1, <1>2, <1>3
<1>5. Contents'
    <2>1. ASSUME NEW g \in Stores, NEW i \in 1 .. Len(flash[g])
          PROVE  Meant(g, i)'
        <3>1. Meant(g, i)
            BY DEF IInv, Contents
        <3> QED BY <1>1, <1>4, <3>1 DEF Meant
    <2> QED BY <1>1, <2>1 DEF IInv, Contents
<1>6. Durable'
    <2>1. \A g \in Stores : Expected(g)' = Expected(g)
        BY <1>1 DEF Expected
    <2>2. \A g \in Stores : \A e : Holds(g, e)' <=> Holds(g, e)
        BY <1>1 DEF Holds
    <2> QED BY <1>1, <1>4, <2>1, <2>2 DEF IInv, Durable
<1>7. BootCountExact'
    BY <1>1 DEF IInv, BootCountExact
<1>8. Pending'
    BY <1>1, <1>4 DEF Pending, Data
<1>9. TypeOK'
    BY <1>1, <1>2, <1>5, FileTypes DEF IInv, TypeOK, Counts
<1> QED BY <1>5, <1>6, <1>7, <1>8, <1>9 DEF IInv

(* The store reaches the flash, or its write failed.                       *)
LEMMA StoreCloseIInv == ASSUME NEW ok \in BOOLEAN PROVE IInv /\ StoreClose(ok) => IInv'
<1> SUFFICES ASSUME IInv, StoreClose(ok) PROVE IInv'
    OBVIOUS
<1>1. /\ pc = "set" /\ pc' = (IF ok THEN "stored" ELSE "running")
      /\ UNCHANGED <<exists, file, data, pos, kept, maybe, tried, boots, io_error>>
    BY DEF StoreClose, open, stored
<1>2. /\ file \in Stores /\ file \in exists /\ data \in Data(file)
      /\ data \in tried[file] /\ pos = 0
    BY <1>1 DEF IInv, Pending
<1>3. file \in Files /\ file # BOOT /\ BOOT \in Files
    BY <1>2, FilesAssumption DEF Files, Stores
<1>4. data \in Seq(Int) /\ (file \in IntFiles => \E v \in Ints : data = <<v>>)
    BY <1>2, DataCells DEF Stores
<1>5. CASE ok
    <2>1. Close(TRUE)
        BY <1>5 DEF StoreClose, Close
    <2>2. /\ Contents' /\ \A f \in Files : f \notin exists' => flash'[f] = <<>>
          /\ Begins(flash'[file], data) /\ (file \in IntFiles => flash'[file] = data)
          /\ \A f \in Files : f # file => flash'[f] = flash[f]
        BY <1>1, <1>2, <1>3, <1>4, <2>1, CommitKeeps
    <2>3. \A f \in Stores : \A d : f # file => (Holds(f, d)' <=> Holds(f, d))
        BY <2>2 DEF Holds, Files
    <2>4. \A f \in Stores : f # file => Expected(f)' = Expected(f)
        BY <1>1 DEF Expected
    <2>5. data \in Expected(file)' /\ Holds(file, data)'
        BY <1>1, <1>5, <2>2 DEF Expected, Holds
    <2>6. ASSUME NEW f \in Stores PROVE \E d \in Expected(f)' : Holds(f, d)'
        <3>1. CASE f = file
            BY <1>1, <2>5, <3>1
        <3>2. CASE f # file
            <4>1. PICK d \in Expected(f) : Holds(f, d)
                BY DEF IInv, Durable
            <4> QED BY <2>3, <2>4, <3>2, <4>1
        <3> QED BY <3>1, <3>2
    <2>7. Durable'
        BY <1>1, <2>6 DEF IInv, Durable
    <2>8. BootCountExact'
        BY <1>1, <1>3, <2>2 DEF IInv, BootCountExact
    <2>9. Pending'
        BY <1>1, <1>2, <1>5, <2>5 DEF Pending
    <2>10. TypeOK'
        BY <1>1, <1>5, <2>2, FileTypes DEF IInv, TypeOK, Counts
    <2> QED BY <2>2, <2>7, <2>8, <2>9, <2>10 DEF IInv
<1>6. CASE ~ok
    BY <1>1, <1>6, QuietIInv DEF StoreClose, Close, stored, IInv, TypeOK
<1> QED BY <1>5, <1>6

(* The store returns: from now on its value counts as stored.              *)
LEMMA StoreReturnIInv == IInv /\ StoreReturn => IInv'
<1> SUFFICES ASSUME IInv, StoreReturn PROVE IInv'
    OBVIOUS
<1>1. /\ pc = "stored" /\ pc' = "running"
      /\ kept' = [kept EXCEPT ![file] = data] /\ maybe' = [maybe EXCEPT ![file] = {}]
      /\ UNCHANGED <<exists, flash, file, data, pos, tried, boots, io_error>>
    BY DEF StoreReturn, open
<1>2. file \in Stores /\ Holds(file, data) /\ data \in Seq(Int)
    BY <1>1 DEF IInv, Pending, TypeOK
<1>3. /\ kept \in [Stores -> Seq(Int)] /\ maybe \in [Stores -> SUBSET Seq(Int)]
      /\ tried \in [Stores -> SUBSET Seq(Int)]
    BY DEF IInv, Durable
<1>4. /\ kept' \in [Stores -> Seq(Int)] /\ maybe' \in [Stores -> SUBSET Seq(Int)]
      /\ kept'[file] = data
      /\ \A f \in Stores : f # file => kept'[f] = kept[f] /\ maybe'[f] = maybe[f]
    BY <1>1, <1>2, <1>3
<1>5. Contents'
    BY <1>1 DEF IInv, Contents, Meant
<1>6. \A f \in Stores : \A d : Holds(f, d)' <=> Holds(f, d)
    BY <1>1 DEF Holds
<1>7. ASSUME NEW f \in Stores PROVE \E d \in Expected(f)' : Holds(f, d)'
    <2>1. CASE f = file
        <3>1. data \in Expected(f)'
            BY <1>4, <2>1 DEF Expected
        <3> QED BY <1>2, <1>6, <2>1, <3>1
    <2>2. CASE f # file
        <3>1. Expected(f)' = Expected(f)
            BY <1>1, <1>4, <2>2 DEF Expected
        <3>2. PICK d \in Expected(f) : Holds(f, d)
            BY DEF IInv, Durable
        <3> QED BY <1>6, <3>1, <3>2
    <2> QED BY <2>1, <2>2
<1>8. Durable'
    BY <1>1, <1>3, <1>4, <1>7 DEF Durable
<1>9. Pending' /\ BootCountExact'
    BY <1>1 DEF IInv, Pending, BootCountExact
<1>10. TypeOK'
    BY <1>1, <1>5, FileTypes DEF IInv, TypeOK, Counts
<1> QED BY <1>5, <1>8, <1>9, <1>10 DEF IInv

(* Every call, every failure of one, and power lost between any two steps  *)
(* keep the invariant.                                                     *)
LEMMA NextIInv == IInv /\ [Next]_vars => IInv'
<1> SUFFICES ASSUME IInv, [Next]_vars PROVE IInv'
    OBVIOUS
<1>0. file \in Files
    BY DEF IInv, TypeOK
<1>1. CASE Mount
    BY <1>0, <1>1, QuietIInv DEF Mount, open
<1>2. CASE deinit_filesystem
    BY <1>0, <1>2, QuietIInv DEF deinit_filesystem, open
<1>3. CASE UNCHANGED vars
    <2>1. UNCHANGED <<exists, flash, pc, file, data, pos, kept, maybe, tried, boots, io_error>>
        BY <1>3 DEF vars, open, stored
    <2>2. Contents' /\ TypeOK' /\ BootCountExact'
        BY <2>1 DEF IInv, TypeOK, Contents, Meant, BootCountExact
    <2>3. Durable' /\ Pending'
        BY <2>1 DEF IInv, Durable, Expected, Holds, Pending
    <2> QED BY <2>2, <2>3 DEF IInv
<1>4. CASE set_int \/ set_string
    BY <1>4, StoreOpenIInv DEF set_int, set_string, Stores
<1> QED
    BY <1>1, <1>2, <1>3, <1>4, FormatIInv, BootOpenIInv, BootCountIInv, BootCloseIInv,
       StoreCloseIInv, StoreReturnIInv, PowerLossIInv
    DEF Next, init_filesystem

(* The helpers of filesystem.c keep the invariant in every behaviour.      *)
THEOREM Invariance == Spec => []IInv
BY InitIInv, NextIInv, PTL DEF Spec

(* What set_int and set_string stored is durable: whatever stores fail and *)
(* wherever power is lost, a reader gets what the last store that          *)
(* succeeded wrote, or one that was cut off since, and with room for more  *)
(* only what was meant for the file, at its place.                         *)
THEOREM ReadsStored == Spec => []ReadsLastStored
<1>1. IInv => ReadsLastStored
    <2> SUFFICES ASSUME IInv, NEW f \in Stores
                 PROVE  /\ \E d \in Expected(f) : Reads(f, d)
                        /\ \A i \in DOMAIN flash[f] : Meant(f, i)
        BY DEF IInv, ReadsLastStored
    <2>1. f \in Files /\ flash[f] \in Seq(Int) /\ (f \notin exists => flash[f] = <<>>)
        BY DEF Files, IInv, TypeOK
    <2>2. PICK d \in Expected(f) : Holds(f, d)
        BY DEF IInv, Durable
    <2>3. d \in Seq(Int)
        BY <2>2 DEF Expected, IInv, Durable, TypeOK
    <2>4. Reads(f, d)
        BY <2>1, <2>2, <2>3, ReadsBeginning
    <2>5. \A i \in DOMAIN flash[f] : Meant(f, i)
        BY <2>1 DEF IInv, Contents
    <2> QED BY <2>2, <2>4, <2>5
<1> QED BY <1>1, Invariance, PTL

(* init_filesystem counts every invocation that goes on to run exactly     *)
(* once, as long as no access to the counter fails.                        *)
THEOREM BootsCounted == Spec => []BootCountExact
<1>1. IInv => BootCountExact
    BY DEF IInv
<1> QED BY <1>1, Invariance, PTL

=============================================================================
