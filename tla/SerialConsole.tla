--------------------------- MODULE SerialConsole ----------------------------
(***************************************************************************)
(* The serial console: serial_console/serial_console.cpp and the commands  *)
(* of default_commands.c.                                                  *)
(*                                                                         *)
(* serial_poll reads characters until none is waiting, collects them in    *)
(* recive_buffer and runs a command at every newline.  The command         *)
(* "capture" calls serial_poll in a loop of its own, so calls nest:        *)
(* serial_poll, run_command, run_capture_command, serial_poll, ...         *)
(* `depth' counts the capture loops on the stack.  Whichever serial_poll   *)
(* is innermost reads the next character, so one action stands for one     *)
(* character, and another one for the return of the innermost serial_poll. *)
(*                                                                         *)
(* Cell INPUT_BUFFER_SIZE of `buf' is the byte after the array: the code   *)
(* writes a NUL there when the buffer is full.                             *)
(***************************************************************************)
EXTENDS Integers, Sequences, SequencesExt

CONSTANTS
    INPUT_BUFFER_SIZE,  \* size of the array
    Chars,              \* printable characters, among them the delimiter
    CaptureName,        \* the commands, as sequences of characters
    EchoName,
    BootloaderName,
    PrintNames,         \* those that only print, the program's own included
    MAX_COMMAND_NAME_SIZE,
    MaxLine,            \* bound on the characters of one line
    MaxDepth            \* bound on the nesting of capture loops

NUL == "NUL"
OTHER_BYTE == "other"
COMMAND_DELIMITER_CHAR == " "

ASSUME SizeAssumption == {INPUT_BUFFER_SIZE, MAX_COMMAND_NAME_SIZE} \subseteq Nat \ {0}
ASSUME BoundsAssumption == MaxLine \in Nat /\ MaxDepth \in Nat
ASSUME CharsAssumption == NUL \notin Chars /\ OTHER_BYTE \notin Chars
ASSUME NamesAssumption ==
    \A n \in {CaptureName, EchoName, BootloaderName} \cup PrintNames :
        n \in Seq(Chars \ {COMMAND_DELIMITER_CHAR}) /\ Len(n) < MAX_COMMAND_NAME_SIZE

VARIABLES
    buf,                    \* recive_buffer and the byte after it
    recive_buffer_index,
    keep_captured,
    depth,                  \* capture loops on the stack
    typed,                  \* history: characters of the current line
    intact,                 \* history: no capture loop ended within the line
    ran                     \* history: what the last step ran, or NoRun

vars == <<buf, recive_buffer_index, keep_captured, depth, typed, intact, ran>>

NoRun == [func |-> "none", text |-> <<>>, out |-> <<>>, line |-> <<>>, intact |-> TRUE]

(* Fault on purpose: the wrong function is registered for a command.       *)
CommandsFault ==
    [n \in {CaptureName, EchoName, BootloaderName} \cup PrintNames |->
        CASE n = CaptureName -> "run_capture_command"
          [] n = EchoName -> "run_echo"
          [] OTHER -> "run_bootloader_command"]

(* The map of commands, filled by add_command before the first serial_poll *)
(* in both programs and not changed later.                                 *)
commands ==
    [n \in {CaptureName, EchoName, BootloaderName} \cup PrintNames |->
        CASE n = CaptureName -> "run_capture_command"
          [] n = EchoName -> "run_echo"
          [] n = BootloaderName -> "run_bootloader_command"
          [] OTHER -> "print"]

Zeroed ==
    [i \in 0 .. INPUT_BUFFER_SIZE |-> IF i = INPUT_BUFFER_SIZE THEN OTHER_BYTE ELSE NUL]

Init ==
    /\ buf = Zeroed
    /\ recive_buffer_index = 0
    /\ keep_captured = FALSE
    /\ depth = 0
    /\ typed = <<>>
    /\ intact = TRUE
    /\ ran = NoRun

(* The string that starts at the first byte of b, without its NUL.         *)
CString(b) ==
    LET Ends == {n \in 0 .. INPUT_BUFFER_SIZE : b[n] = NUL}
        len == CHOOSE n \in Ends : \A m \in Ends : n <= m
    IN  [i \in 1 .. len |-> b[i - 1]]

(* first_index_of and the copy to arg_string: the text up to a delimiter.  *)
FirstWord(text) ==
    LET Ends == {n \in 1 .. Len(text) : text[n] = COMMAND_DELIMITER_CHAR}
    IN  IF Ends = {} THEN text
        ELSE SubSeq(text, 1, (CHOOSE n \in Ends : \A m \in Ends : n <= m) - 1)

(* Fault on purpose: a full buffer is left one character later.            *)
WrapFault(index) == IF index > INPUT_BUFFER_SIZE THEN 0 ELSE index
WrapIndex(index) == IF index >= INPUT_BUFFER_SIZE THEN 0 ELSE index

(* A printable character.                                                  *)
serial_poll_char(ch) ==
    LET i == WrapIndex(recive_buffer_index)
    IN  /\ Len(typed) < MaxLine
        /\ buf' = [buf EXCEPT ![i] = ch, ![i + 1] = NUL]
        /\ recive_buffer_index' = i + 1
        /\ typed' = Append(typed, ch)
        /\ ran' = NoRun
        /\ UNCHANGED <<keep_captured, depth, intact>>

(* run_echo prints from the character after the command and its delimiter  *)
(* up to recive_buffer_index.                                              *)
run_echo(b, index) == SubSeq(CString(b), Len(EchoName) + 2, index)

(* run_capture_command toggles keep_captured and enters its loop if that   *)
(* is now set.                                                             *)
run_capture_command ==
    /\ ~keep_captured => depth < MaxDepth
    /\ keep_captured' = ~keep_captured
    /\ depth' = IF keep_captured' THEN depth + 1 ELSE depth

(* The bootloader command restarts the device, with its memory cleared.    *)
Restart ==
    /\ buf' = Zeroed
    /\ recive_buffer_index' = 0
    /\ keep_captured' = FALSE
    /\ depth' = 0
    /\ typed' = <<>>
    /\ intact' = TRUE

run_bootloader_command == Restart

(* Fault on purpose: the index stays where the command ended.              *)
IndexAfterFault(index) == index

(* Where the next line starts, set by run_command, by run_capture_command  *)
(* before its loop and by serial_poll.                                     *)
IndexAfter(index) == 0

(* The function the first word of a line leads to.  A word that does not   *)
(* fit in arg_string is copied all the same: what it overwrites may make   *)
(* it an unknown command or stop the device until it is restarted.         *)
Lookups(name) ==
    IF Len(name) >= MAX_COMMAND_NAME_SIZE THEN {"unknown", "overrun"}
    ELSE IF name \in DOMAIN commands THEN {commands[name]} ELSE {"unknown"}

(* What run_command does with the line in b; all branches, the unknown     *)
(* command too, leave the index at zero.                                   *)
run_command(b, index) ==
    \E func \in Lookups(FirstWord(CString(b))) :
        /\ ran' = [func |-> func, text |-> CString(b),
                   out |-> IF func = "run_echo" THEN run_echo(b, index) ELSE <<>>,
                   line |-> typed, intact |-> intact]
        /\ \/ func = "run_bootloader_command" /\ run_bootloader_command
           \/ func = "overrun" /\ Restart
           \/ /\ func \notin {"run_bootloader_command", "overrun"}
              /\ buf' = b
              /\ recive_buffer_index' = IndexAfter(index)
              /\ typed' = <<>>
              /\ intact' = TRUE
              /\ IF func = "run_capture_command" THEN run_capture_command
                 ELSE UNCHANGED <<keep_captured, depth>>

(* A newline: the line is terminated and, unless empty, run.  A line that  *)
(* exactly fills the buffer counts as empty.                               *)
serial_poll_newline ==
    LET i == WrapIndex(recive_buffer_index)
        b == [buf EXCEPT ![i] = NUL]
    IN  \/ i # 0 /\ run_command(b, i)
        \/ /\ i = 0
           /\ buf' = b
           /\ recive_buffer_index' = 0
           /\ typed' = <<>>
           /\ intact' = TRUE
           /\ ran' = NoRun
           /\ UNCHANGED <<keep_captured, depth>>

(* Fault on purpose: the loop does not look at keep_captured.              *)
UnwindFault ==
    /\ depth > 0
    /\ ~keep_captured
    /\ depth' = depth
    /\ recive_buffer_index' = 0
    /\ intact' = (typed = <<>>)
    /\ ran' = NoRun
    /\ UNCHANGED <<buf, keep_captured, typed>>

(* No character is waiting: serial_poll returns to a capture loop that is  *)
(* to end.  The loop returns to run_command and that to the serial_poll    *)
(* below, both of which set the index to zero, and with it forget what has *)
(* been typed of the next line.                                            *)
capture_loop_ends ==
    /\ depth > 0
    /\ ~keep_captured
    /\ depth' = depth - 1
    /\ recive_buffer_index' = 0
    /\ intact' = (typed = <<>>)
    /\ ran' = NoRun
    /\ UNCHANGED <<buf, keep_captured, typed>>

Next ==
    \/ \E ch \in Chars : serial_poll_char(ch)
    \/ serial_poll_newline
    \/ capture_loop_ends

Safety == Init /\ [][Next]_vars

(* Characters arrive much more slowly than serial_poll looks for them, so  *)
(* it always finds none waiting in the end.                                *)
Spec == Safety /\ WF_vars(capture_loop_ends)

-----------------------------------------------------------------------------
(* Properties.                                                             *)

(* Indices stay at or below the size of the buffer, and the one byte that  *)
(* the console writes behind its array is only ever cleared; keep_captured *)
(* is never set without a loop that looks at it, so that "capture" typed   *)
(* again always means the end of a capture, however loops nest.            *)
TypeOK ==
    /\ buf \in [0 .. INPUT_BUFFER_SIZE -> Chars \cup {NUL, OTHER_BYTE}]
    /\ buf[INPUT_BUFFER_SIZE] \notin Chars
    /\ recive_buffer_index \in 0 .. INPUT_BUFFER_SIZE
    /\ keep_captured \in BOOLEAN
    /\ depth \in Nat
    /\ typed \in Seq(Chars)
    /\ intact \in BOOLEAN
    /\ keep_captured => depth > 0

(* The line that is run is the end of what was typed, free of leftovers of *)
(* earlier lines, and all of it if it fits the buffer and no capture loop  *)
(* ended while it was typed; and echo prints exactly its argument.         *)
RunsWhatWasTyped ==
    /\ IsSuffix(ran.text, ran.line)
    /\ ran.intact /\ Len(ran.line) < INPUT_BUFFER_SIZE => ran.text = ran.line
    /\ ran.func = "run_echo" =>
        EchoName \o (IF Len(ran.text) > Len(EchoName) THEN <<COMMAND_DELIMITER_CHAR>> ELSE <<>>)
            \o ran.out = ran.text

Begins(line, word) == IsPrefix(word \o <<COMMAND_DELIMITER_CHAR>>, line) \/ line = word

(* A line that fits the buffer restarts the device only if the user asked  *)
(* for it with its first word or made that too long for arg_string,        *)
(* whatever was typed and captured before.                                 *)
RestartsOnPurpose ==
    /\ ran.intact /\ Len(ran.line) < INPUT_BUFFER_SIZE
    /\ ran.func \in {"run_bootloader_command", "overrun"}
    => \/ Begins(ran.line, BootloaderName)
       \/ /\ Len(ran.line) >= MAX_COMMAND_NAME_SIZE
          /\ \A i \in 1 .. MAX_COMMAND_NAME_SIZE : ran.line[i] # COMMAND_DELIMITER_CHAR

(* The buffer holds the end of what was typed, and all of it as long as it *)
(* has not wrapped and no capture loop ended within the line.              *)
BufferHolds ==
    /\ recive_buffer_index <= Len(typed)
    /\ \A k \in 1 .. recive_buffer_index :
            buf[k - 1] = typed[(Len(typed) - recive_buffer_index) + k]
    /\ intact /\ Len(typed) <= INPUT_BUFFER_SIZE => recive_buffer_index = Len(typed)

(* The inductive invariant.                                                *)
IInv == TypeOK /\ BufferHolds /\ RunsWhatWasTyped /\ RestartsOnPurpose

(* Once "capture" has been taken back the program flow is released from    *)
(* all the nested loops, unless somebody captures it again.                *)
CaptureReleases ==
    (depth > 0 /\ ~keep_captured) ~> (depth = 0 \/ keep_captured)

=============================================================================
