---------------------------- MODULE DhcpOptions -----------------------------
(***************************************************************************)
(* The option area of a DHCP message, byte for byte: opt_find walks over   *)
(* the client's options, opt_write_* write the server's into the same      *)
(* area (ap_website/dhcpserver/dhcpserver.c).  DhcpServer takes what is    *)
(* found and sent for granted; this module is about the encoding.          *)
(*                                                                         *)
(* The message is on the stack and not initialised: behind what was        *)
(* received the area holds whatever was there.                             *)
(***************************************************************************)
EXTENDS Naturals, Sequences

CONSTANTS
    SIZE,           \* length of the option area behind the magic cookie
    ClientCodes,    \* options a client sends
    Lengths,        \* and how many bytes of data they have
    Bytes,          \* bytes found in data and in uninitialised memory
    MAX_OPTIONS     \* bound on the options of a message

DHCP_OPT_PAD == 0
DHCP_OPT_SUBNET_MASK == 1
DHCP_OPT_ROUTER == 3
DHCP_OPT_DNS == 6
DHCP_OPT_REQUESTED_IP == 50
DHCP_OPT_IP_LEASE_TIME == 51
DHCP_OPT_MSG_TYPE == 53
DHCP_OPT_SERVER_ID == 54
DHCP_OPT_END == 255

NULL == SIZE

VARIABLES
    msg,        \* the option bytes the client has put together
    options,    \* the same as a list of [code, at]
    padded,     \* DHCP_OPT_PAD was sent
    ended,      \* DHCP_OPT_END was sent
    area,       \* the option area in memory, from index 0
    cmd, found, \* the option looked for, and its index or NULL
    opt,        \* where the server writes next
    written,    \* what it has written: a set of [code, at]
    pc          \* "client", "found" or "sent"

vars == <<msg, options, padded, ended, area, cmd, found, opt, written, pc>>

Init ==
    /\ msg = <<>> /\ options = <<>> /\ padded = FALSE /\ ended = FALSE
    /\ area = <<>>
    /\ cmd = DHCP_OPT_MSG_TYPE /\ found = NULL
    /\ opt = 0 /\ written = {}
    /\ pc = "client"

-----------------------------------------------------------------------------
(* External: a client puts a message together.                             *)
Add(bytes, entries) ==
    /\ pc = "client" /\ ~ended /\ Len(msg) + Len(bytes) < SIZE
    /\ msg' = msg \o bytes /\ options' = options \o entries
    /\ UNCHANGED <<area, cmd, found, opt, written, pc>>

AddOption(code, n, byte) ==
    /\ Len(options) < MAX_OPTIONS
    /\ Add(<<code, n>> \o [k \in 1 .. n |-> byte], <<[code |-> code, at |-> Len(msg)]>>)
    /\ UNCHANGED <<padded, ended>>

AddPad == ~padded /\ Add(<<DHCP_OPT_PAD>>, <<>>) /\ padded' = TRUE /\ UNCHANGED ended

AddEnd == Add(<<DHCP_OPT_END>>, <<>>) /\ ended' = TRUE /\ UNCHANGED padded

-----------------------------------------------------------------------------
(* Fault on purpose: the code is not skipped with the length and the data. *)
SkipFault(n) == 1 + n
Skip(n) == 2 + n

(* The length byte behind the last index is read, and decides nothing.     *)
opt_find(a, code) ==
    LET Byte(i) == IF i < SIZE THEN a[i] ELSE 0
        walk[i \in Nat] ==
            IF i >= SIZE \/ Byte(i) = DHCP_OPT_END THEN NULL
            ELSE IF Byte(i) = code THEN i
            ELSE walk[i + Skip(Byte(i + 1))]
    IN  walk[0]

(* The message arrives; memory behind it holds some byte.                  *)
Receive(code, byte) ==
    /\ pc = "client"
    /\ pc' = "found"
    /\ area' = [i \in 0 .. SIZE - 1 |-> IF i < Len(msg) THEN msg[i + 1] ELSE byte]
    /\ cmd' = code
    /\ found' = opt_find(area', code)
    /\ UNCHANGED <<msg, options, padded, ended, opt, written>>

(* Fault on purpose: the length counts the length byte.                    *)
WriteFault(code, n) ==
    /\ area' = [area EXCEPT ![opt] = code, ![opt + 1] = n + 1]
    /\ written' = written \cup {[code |-> code, at |-> opt]}
    /\ opt' = opt + 2 + n
(* Code, length, n bytes of data.                                          *)
opt_write_n(code, n) ==
    /\ area' = [i \in DOMAIN area |->
                    CASE i = opt -> code
                      [] i = opt + 1 -> n
                      [] i \in opt + 2 .. opt + 1 + n -> DHCP_OPT_END
                      [] OTHER -> area[i]]
    /\ written' = written \cup {[code |-> code, at |-> opt]}
    /\ opt' = opt + 2 + n

opt_write_u8(code) == opt_write_n(code, 1)
opt_write_u32(code) == opt_write_n(code, 4)

(* The options of the reply, in order; the data of the addresses is taken  *)
(* to be the worst there could be, bytes that look like the end.           *)
WriteReply ==
    /\ pc = "found"
    /\ UNCHANGED <<msg, options, padded, ended, cmd, found>>
    /\ \/ opt = 0 /\ opt_write_u8(DHCP_OPT_MSG_TYPE) /\ UNCHANGED pc
       \/ opt = 3 /\ opt_write_n(DHCP_OPT_SERVER_ID, 4) /\ UNCHANGED pc
       \/ opt = 9 /\ opt_write_n(DHCP_OPT_SUBNET_MASK, 4) /\ UNCHANGED pc
       \/ opt = 15 /\ opt_write_n(DHCP_OPT_ROUTER, 4) /\ UNCHANGED pc
       \/ opt = 21 /\ opt_write_n(DHCP_OPT_DNS, 4) /\ UNCHANGED pc
       \/ opt = 27 /\ opt_write_u32(DHCP_OPT_IP_LEASE_TIME) /\ UNCHANGED pc
       \/ /\ opt = 33
          /\ area' = [area EXCEPT ![opt] = DHCP_OPT_END]
          /\ opt' = opt + 1 /\ pc' = "sent" /\ UNCHANGED written

Next ==
    \/ \E code \in ClientCodes, n \in Lengths, byte \in Bytes : AddOption(code, n, byte)
    \/ AddPad
    \/ AddEnd
    \/ \E code \in {DHCP_OPT_MSG_TYPE, DHCP_OPT_REQUESTED_IP}, byte \in Bytes : Receive(code, byte)
    \/ WriteReply

Spec == Init /\ [][Next]_vars

-----------------------------------------------------------------------------
(* Properties.                                                             *)

IsFirst(at) ==
    \E k \in DOMAIN options :
        /\ options[k] = [code |-> cmd, at |-> at]
        /\ \A j \in 1 .. k - 1 : options[j].code # cmd

FoundIsFirst ==
    IF \E k \in DOMAIN options : options[k].code = cmd THEN IsFirst(found)
    ELSE found = NULL

(* The option found in a message without pads that has its end is the      *)
(* first one with that code, and never data that looks like it, nor        *)
(* anything behind the end in memory that was not initialised.             *)
FindsFirst == pc = "found" /\ ended /\ ~padded => FoundIsFirst

(* The reply, written over the client's options in the same memory, reads  *)
(* back: every option the server wrote is found where it was written,      *)
(* whatever its data and whatever the request left behind it.              *)
ReplyReadsBack ==
    pc = "sent" => \A w \in written : opt_find(area, w.code) = w.at

(* A known disagreement, refuted by TLC.                                   *)
(* "For DHCP specs see: ... rfc2132" (dhcpserver.c:27-29), where a pad     *)
(* option is one byte; the code has its number, DHCP_OPT_PAD.              *)
PadsSkipped == pc = "found" /\ ended => FoundIsFirst

=============================================================================
