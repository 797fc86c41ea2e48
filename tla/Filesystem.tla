----------------------------- MODULE Filesystem -----------------------------
(***************************************************************************)
(* filesystem/filesystem.c: integers and strings in files of littlefs, and *)
(* the boot counter that init_filesystem keeps.                            *)
(*                                                                         *)
(* A file is a sequence of cells: one cell is the machine word of an       *)
(* integer file or one character of a string file.  littlefs is external   *)
(* and taken to do what it promises: an entry created by LFS_O_CREAT is in *)
(* flash when pico_open returns, what is written reaches the flash in one  *)
(* piece when the file is closed, and a file whose write failed is closed  *)
(* without changing the flash.  Power may be lost between any two calls.   *)
(***************************************************************************)
EXTENDS Integers, Sequences

CONSTANTS
    IntFiles, StringFiles,  \* names given to set_int and to set_string
    Ints, Strings,          \* what is stored in them
    COUNT_SIZE              \* boot_count is a counter modulo this

INVALID_FILE == -1

BOOT == "boot_count"

ASSUME FilesAssumption ==
    /\ IntFiles \cap StringFiles = {} /\ BOOT \notin IntFiles \cup StringFiles
    /\ Ints \subseteq Int
    /\ \A s \in Strings : s \in Seq(Nat)
    /\ COUNT_SIZE \in Nat \ {0, 1}

Stores == IntFiles \cup StringFiles
Files == Stores \cup {BOOT}
Data(f) == IF f \in IntFiles THEN {<<v>> : v \in Ints} ELSE Strings

Empty == [f \in Files |-> <<>>]

VARIABLES
    exists,     \* the files that have an entry in flash
    flash,      \* their cells
    pc,         \* where the program is; "fault": it used a file it could
                \* not open and hangs until power is cycled
    file, data, \* the open file and what was written to it
    pos,        \* the position that was written at
    \* history, since the last format:
    kept,       \* what the last store of each file that succeeded wrote
    maybe,      \* what stores cut off by a loss of power would have written
                \* after it
    tried,      \* all that was ever to be stored in a file
    boots,      \* invocations, modulo COUNT_SIZE
    io_error    \* a read or write of the boot counter failed

open == <<file, data, pos>>
stored == <<kept, maybe, tried>>
vars == <<exists, flash, pc, open, stored, boots, io_error>>

Init ==
    /\ exists = {} /\ flash = Empty
    /\ pc = "off"
    /\ file = BOOT /\ data = <<>> /\ pos = 0
    /\ kept = [f \in Stores |-> <<>>]
    /\ maybe = [f \in Stores |-> {}]
    /\ tried = [f \in Stores |-> {}]
    /\ boots = 0
    /\ io_error = FALSE

(* The bytes after the ones written stay.                                  *)
Overwrite(old, at, new) ==
    SubSeq(old, 1, at) \o new \o SubSeq(old, at + Len(new) + 1, Len(old))

Close(committed) ==
    flash' = IF committed
             THEN [flash EXCEPT ![file] = Overwrite(@, pos, data)]
             ELSE flash

(* The entry made by LFS_O_CREAT.                                          *)
Create(f) == exists' = exists \cup {f}

-----------------------------------------------------------------------------
(* init_filesystem.  format_filesystem says no: only a failed mount        *)
(* formats.                                                                *)
Mount ==
    /\ pc = "off"
    /\ pc' \in {"mounted", "mount_failed"}
    /\ UNCHANGED <<exists, flash, open, stored, boots, io_error>>

(* The result of the second mount is not looked at.                        *)
MountFormat ==
    /\ pc = "mount_failed"
    /\ \/ /\ pc' \in {"mounted", "fault"}
          /\ exists' = {} /\ flash' = Empty
          /\ kept' = [f \in Stores |-> <<>>]
          /\ maybe' = [f \in Stores |-> {}]
          /\ tried' = [f \in Stores |-> {}]
          /\ boots' = 0 /\ io_error' = FALSE
       \/ /\ pc' = "fault"
          /\ UNCHANGED <<exists, flash, stored, boots, io_error>>
    /\ UNCHANGED open

BootOpen ==
    /\ pc = "mounted"
    /\ file' = BOOT
    /\ \/ pc' = "fault" /\ exists' = exists
       \/ pc' = "boot_open" /\ Create(BOOT)
    /\ UNCHANGED <<flash, data, pos, stored, boots, io_error>>

(* If the file was just created nothing is read.                           *)
CountRead(c) == IF c = <<>> THEN 0 ELSE Head(c)

(* Fault on purpose: the counter stops at its largest value.               *)
IncrementedFault(n) == IF n = COUNT_SIZE - 1 THEN n ELSE n + 1
Incremented(n) == (n + 1) % COUNT_SIZE

Rewound(c) == 0

(* Read, increment, rewind and write; a read that fails leaves zero.       *)
BootCount(read) ==
    /\ pc = "boot_open"
    /\ pc' = "boot_written"
    /\ data' = <<Incremented(IF read THEN CountRead(flash[BOOT]) ELSE 0)>>
    /\ pos' = Rewound(flash[BOOT])
    /\ io_error' = (io_error \/ ~read)
    /\ UNCHANGED <<exists, flash, file, stored, boots>>

BootClose(committed) ==
    /\ pc = "boot_written"
    /\ pc' = "running"
    /\ Close(committed)
    /\ boots' = (boots + 1) % COUNT_SIZE
    /\ io_error' = (io_error \/ ~committed)
    /\ UNCHANGED <<exists, open, stored>>

init_filesystem ==
    \/ Mount \/ MountFormat \/ BootOpen
    \/ \E ok \in BOOLEAN : BootCount(ok) \/ BootClose(ok)

(* pico_unmount; the program may mount again.                              *)
deinit_filesystem ==
    /\ pc = "running"
    /\ pc' = "off"
    /\ UNCHANGED <<exists, flash, open, stored, boots, io_error>>

-----------------------------------------------------------------------------
(* What the readers return; they change nothing.                           *)

(* A file that cannot be opened, though it may exist, gives INVALID_FILE;  *)
(* a read that fails leaves the zero the result starts from.               *)
get_int(f, opened, readable) ==
    IF f \notin exists \/ ~opened THEN INVALID_FILE
    ELSE IF readable /\ flash[f] # <<>> THEN Head(flash[f]) ELSE 0

(* The characters get_string copies to a buffer of dst_size, from a file   *)
(* it can open and read.                                                   *)
get_string(f, dst_size) ==
    LET n == Len(flash[f])
    IN  SubSeq(flash[f], 1, IF n < dst_size THEN n ELSE dst_size)

(* Fault on purpose: set_string opens its file with LFS_O_APPEND.          *)
StorePositionFault(f) == IF f \in StringFiles THEN Len(flash[f]) ELSE 0
StorePosition(f) == 0

(* set_int and set_string: open (which may fail, and then nothing is       *)
(* stored), write at the start, close; LFS_O_TRUNC is not among the flags. *)
StoreOpen(f, value) ==
    /\ pc = "running"
    /\ Create(f)
    /\ file' = f /\ data' = value /\ pos' = StorePosition(f)
    /\ tried' = [tried EXCEPT ![f] = @ \cup {value}]
    /\ pc' = "set"
    /\ UNCHANGED <<flash, kept, maybe, boots, io_error>>

StoreClose(committed) ==
    /\ pc = "set"
    /\ pc' = IF committed THEN "stored" ELSE "running"
    /\ Close(committed)
    /\ UNCHANGED <<exists, open, stored, boots, io_error>>

(* A store that succeeded returns to its caller.                           *)
StoreReturn ==
    /\ pc = "stored"
    /\ pc' = "running"
    /\ kept' = [kept EXCEPT ![file] = data]
    /\ maybe' = [maybe EXCEPT ![file] = {}]
    /\ UNCHANGED <<exists, flash, open, tried, boots, io_error>>

set_int == \E f \in IntFiles : \E d \in Data(f) : StoreOpen(f, d)
set_string == \E f \in StringFiles : \E d \in Data(f) : StoreOpen(f, d)

(* Between any two calls.  Nobody knows of a store that was under way.     *)
PowerLoss ==
    /\ pc # "off"
    /\ pc' = "off"
    /\ maybe' = IF pc \in {"set", "stored"}
                THEN [maybe EXCEPT ![file] = @ \cup {data}] ELSE maybe
    /\ UNCHANGED <<exists, flash, open, kept, tried, boots, io_error>>

Next ==
    \/ init_filesystem
    \/ deinit_filesystem
    \/ set_int
    \/ set_string
    \/ \E committed \in BOOLEAN : StoreClose(committed)
    \/ StoreReturn
    \/ PowerLoss

Spec == Init /\ [][Next]_vars

-----------------------------------------------------------------------------
(* Properties.                                                             *)

(* Every variable has its type; an integer file and the counter's file     *)
(* are never longer than the one word ("File size (should be 4)",          *)
(* filesystem.c:92), however often they are rewritten.                     *)
TypeOK ==
    /\ exists \subseteq Files
    /\ \A f \in Files : flash[f] \in Seq(Int) /\ (f \notin exists => flash[f] = <<>>)
    /\ \A f \in IntFiles \cup {BOOT} : Len(flash[f]) <= 1
    /\ pc \in {"off", "mounted", "mount_failed", "boot_open", "boot_written",
               "running", "set", "stored", "fault"}
    /\ file \in Files /\ data \in Seq(Int) /\ pos \in Nat
    /\ boots \in 0 .. COUNT_SIZE - 1 /\ io_error \in BOOLEAN

(* The values a reader of f may find: the last one stored, or one of a     *)
(* store since then that was cut off, or has yet to return.                *)
Expected(f) ==
    {kept[f]} \cup maybe[f] \cup (IF pc = "stored" /\ file = f THEN {data} ELSE {})

(* A reader of f gets d: get_int the word, and if its open or its read     *)
(* fails INVALID_FILE or zero; get_string the characters, given room for   *)
(* just as many.                                                           *)
Reads(f, d) ==
    IF f \in IntFiles
    THEN \A opened, readable \in BOOLEAN :
            get_int(f, opened, readable) \in
                IF d # <<>> /\ opened /\ readable THEN {Head(d)}
                ELSE {INVALID_FILE, 0}
    ELSE get_string(f, Len(d)) = d

(* Cell i of f is from the same place of a value meant for f.              *)
Meant(f, i) == \E d \in tried[f] : i <= Len(d) /\ flash[f][i] = d[i]

(* A stored value is durable: whatever stores fail and wherever power is   *)
(* lost, a reader of a file gets what the last store that succeeded wrote, *)
(* or what one cut off by a loss of power since then would have written,   *)
(* until the filesystem is formatted, and of an integer file never stored  *)
(* in INVALID_FILE or zero.  get_string with room for more reads nothing   *)
(* else but the end of longer values that were meant for the file, which   *)
(* set_string does not truncate; where no value was longer, nothing.  And  *)
(* files keep the form that TypeOK gives them.                             *)
ReadsLastStored ==
    /\ TypeOK
    /\ \A f \in Stores :
        /\ \E d \in Expected(f) : Reads(f, d)
        /\ \A i \in DOMAIN flash[f] : Meant(f, i)

(* As long as no access to the counter fails, losing power anywhere in the *)
(* read-modify-write, however often, never makes the counter miss an       *)
(* invocation that went on to run, count one twice, or go astray when it   *)
(* wraps.                                                                  *)
BootCountExact ==
    ~io_error => CountRead(flash[BOOT]) = boots

Counts == 0 .. COUNT_SIZE - 1
Begins(cells, with) ==
    Len(with) <= Len(cells) /\ \A i \in 1 .. Len(with) : cells[i] = with[i]
Word(cells, values) == cells = <<>> \/ \E v \in values : cells = <<v>>

(* Integer files and the counter's file hold one word or none, the others  *)
(* nothing but values meant for them.                                      *)
Contents ==
    /\ flash \in [Files -> Seq(Int)]
    /\ \A f \in Stores : \A i \in 1 .. Len(flash[f]) : Meant(f, i)
    /\ \A f \in IntFiles : Word(flash[f], Ints)
    /\ Word(flash[BOOT], Counts)

(* File f begins with d, and is just that if it is an integer file.        *)
Holds(f, d) == Begins(flash[f], d) /\ (f \in IntFiles => flash[f] = d)

(* Files begin with what was last stored in them, or with what a store cut *)
(* off since then, or one that has yet to return, wrote.                   *)
Durable ==
    /\ kept \in [Stores -> Seq(Int)]
    /\ maybe \in [Stores -> SUBSET Seq(Int)]
    /\ tried \in [Stores -> SUBSET Seq(Int)]
    /\ \A f \in Stores : \E d \in Expected(f) : Holds(f, d)

(* What a close that commits will write, and where, or has written.        *)
Pending ==
    /\ pc \in {"set", "stored"} =>
        /\ file \in Stores \cap exists
        /\ data \in Data(file) /\ data \in tried[file] /\ pos = 0
    /\ pc = "stored" => Holds(file, data)
    /\ pc \in {"boot_open", "boot_written"} => file = BOOT /\ BOOT \in exists
    /\ pc = "boot_written" =>
        /\ pos = 0
        /\ \E n \in Counts : data = <<n>> /\ (~io_error => n = Incremented(boots))

(* The inductive invariant.                                                *)
IInv == TypeOK /\ Contents /\ Durable /\ Pending /\ BootCountExact

(* "increment the boot count with each invocation" (filesystem.c:74).      *)
EachInvocationCounts ==
    pc = "running" => CountRead(flash[BOOT]) = boots

(* get_string "returns the length of the read string" (filesystem.h:16):   *)
(* after set_string it reads back that string, given room for more.        *)
StringReadsBack ==
    \A f \in StringFiles : get_string(f, 100) = kept[f]

=============================================================================
