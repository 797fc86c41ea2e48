-------------------------- MODULE StationLifecycle --------------------------
(***************************************************************************)
(* Starting and stopping the station's web server: http_server/wifi.c and  *)
(* the server half of http_server/tcp_server.c.                            *)
(*                                                                         *)
(* A program may call start, stop and wifi_stop in any order.  A start is  *)
(* two steps, because joining the network takes seconds during which lwIP  *)
(* goes on working.  lwIP and the driver are external: tcp_bind refuses a  *)
(* port on which a listener or an old connection (TIME_WAIT included) is   *)
(* left, a pcb that is never closed is never reused, and lwIP's timers run *)
(* only while the driver is initialised.                                   *)
(***************************************************************************)
EXTENDS Naturals, FiniteSets

CONSTANTS
    Blocks,     \* heap blocks a TCP_SERVER_T can be allocated in
    MAX_PCBS,   \* MEMP_NUM_TCP_PCB
    MAX_DRIVER  \* bound on nested initialisations of the driver

NULL == "NULL"

ASSUME LifecycleAssumption ==
    NULL \notin Blocks /\ MAX_PCBS \in Nat \ {0} /\ MAX_DRIVER \in Nat \ {0}

VARIABLES
    live,               \* the blocks that are allocated
    tcp_server_state,   \* the global pointer
    server_pcb,         \* blocks whose server_pcb is not NULL
    listener,           \* the argument of the pcb that listens on the port
    conns,              \* connections of the port are left in lwIP
    lost,               \* pcbs that nobody can close any more
    driver,             \* cyw43_arch_init not undone by cyw43_arch_deinit
    wifi_connected,
    pc,                 \* "opening": inside start, the network is joined
    status,             \* what the last call returned
    \* history:
    corrupt,            \* a block was freed that was not allocated
    owed,               \* what an orderly caller has to call next
    orderly             \* no call was made but those

vars == <<live, tcp_server_state, server_pcb, listener, conns, lost, driver,
          wifi_connected, pc, status, corrupt, owed, orderly>>
serverVars == <<live, tcp_server_state, server_pcb, listener, corrupt>>

Init ==
    /\ live = {} /\ tcp_server_state = NULL /\ server_pcb = {} /\ listener = NULL
    /\ conns = FALSE /\ lost = 0
    /\ driver = 0 /\ wifi_connected = FALSE
    /\ pc = "idle" /\ status = 0
    /\ corrupt = FALSE /\ owed = "start" /\ orderly = TRUE

Less(n) == IF n = 0 THEN 0 ELSE n - 1

(* An orderly caller undoes what the status says was done: everything      *)
(* after 0 and 4, the driver after 2 and 3, nothing after 1.               *)
Undo(s) == CASE s \in {0, 4} -> "tcp_server_stop"
             [] s \in {2, 3} -> "wifi_stop"
             [] s = 1 -> "start"

Return(s) == pc' = "idle" /\ status' = s /\ owed' = Undo(s)
Called(op) == pc = "idle" /\ ~corrupt /\ orderly' = (orderly /\ owed = op)

-----------------------------------------------------------------------------
WifiStop == wifi_connected' = FALSE /\ driver' = Less(driver)

wifi_stop ==
    /\ Called("wifi_stop")
    /\ WifiStop
    /\ status' = 0 /\ owed' = "start"
    /\ UNCHANGED <<serverVars, conns, lost, pc>>

(* wifi_start_timeout, called first by start; a failed init undoes itself, *)
(* a failed connect leaves the driver initialised.                         *)
wifi_start_timeout ==
    /\ Called("start")
    /\ LET left == IF wifi_connected THEN Less(driver) ELSE driver
       IN  /\ left < MAX_DRIVER
           /\ \/ driver' = left /\ wifi_connected' = FALSE /\ Return(1)
              \/ driver' = left + 1 /\ wifi_connected' = FALSE /\ Return(2)
              \/ /\ driver' = left + 1 /\ wifi_connected' = TRUE
                 /\ pc' = "opening" /\ UNCHANGED <<status, owed>>
    /\ UNCHANGED <<serverVars, conns, lost>>

PortTaken == listener # NULL \/ conns

(* Fault on purpose: a failed listen is not noticed.                       *)
ListenFailedFault == Return(0) /\ UNCHANGED <<server_pcb, listener, lost>>
ListenFailed == Return(4) /\ UNCHANGED <<server_pcb, listener, lost>>

(* The three ways to fail: no pcb, the port is taken (the pcb is lost), no *)
(* listening pcb (the pcb is closed).                                      *)
tcp_server_open(b) ==
    \/ Return(4) /\ UNCHANGED <<server_pcb, listener, lost>>
    \/ /\ lost < MAX_PCBS /\ PortTaken
       /\ lost' = lost + 1
       /\ Return(4) /\ UNCHANGED <<server_pcb, listener>>
    \/ /\ lost < MAX_PCBS /\ ~PortTaken
       /\ \/ ListenFailed
          \/ /\ server_pcb' = server_pcb \cup {b}
             /\ listener' = b
             /\ Return(0) /\ UNCHANGED lost

(* The rest of tcp_server_start_timeout.  A freed block may be reused.     *)
tcp_server_start_timeout ==
    /\ pc = "opening"
    /\ \/ /\ tcp_server_state' = NULL
          /\ Return(3)
          /\ UNCHANGED <<live, server_pcb, listener, lost>>
       \/ \E b \in Blocks \ live :
            /\ live' = live \cup {b}
            /\ tcp_server_state' = b
            /\ tcp_server_open(b)
    /\ UNCHANGED <<conns, driver, wifi_connected, corrupt, orderly>>

(* Fault on purpose: the pointer is cleared and the pcb not closed.        *)
CloseFault(b) == server_pcb' = server_pcb \ {b} /\ UNCHANGED listener
tcp_server_close(b) ==
    /\ server_pcb' = server_pcb \ {b}
    /\ listener' = IF b \in server_pcb THEN NULL ELSE listener

tcp_server_is_running == tcp_server_state # NULL

(* Fault on purpose: a state without a listener is not freed.              *)
FreedFault(b) == live \ (server_pcb \cap {b})
Freed(b) == live \ {b}

tcp_server_stop ==
    /\ Called("tcp_server_stop")
    /\ IF tcp_server_is_running
       THEN /\ corrupt' = (tcp_server_state \notin live)
            /\ tcp_server_close(tcp_server_state)
            /\ live' = Freed(tcp_server_state)
       ELSE UNCHANGED <<live, server_pcb, listener, corrupt>>
    /\ WifiStop
    /\ status' = 0 /\ owed' = "start"
    /\ UNCHANGED <<tcp_server_state, conns, lost, pc>>

(* External: a client connects; the last trace of the clients goes away.   *)
Connect ==
    /\ listener # NULL /\ driver > 0 /\ ~corrupt
    /\ conns' = TRUE
    /\ UNCHANGED <<serverVars, lost, driver, wifi_connected, pc, status, owed, orderly>>

Drain ==
    /\ conns /\ driver > 0 /\ ~corrupt
    /\ conns' = FALSE
    /\ UNCHANGED <<serverVars, lost, driver, wifi_connected, pc, status, owed, orderly>>

Next ==
    \/ wifi_start_timeout \/ tcp_server_start_timeout
    \/ tcp_server_stop \/ wifi_stop
    \/ Connect \/ Drain

Spec == Init /\ [][Next]_vars

-----------------------------------------------------------------------------
(* Properties.                                                             *)

Flags ==
    /\ conns \in BOOLEAN /\ wifi_connected \in BOOLEAN
    /\ corrupt \in BOOLEAN /\ orderly \in BOOLEAN

(* Every variable has its type, and no freed block is thought to listen.   *)
TypeOK ==
    /\ Flags
    /\ live \subseteq Blocks /\ server_pcb \subseteq live
    /\ tcp_server_state \in Blocks \cup {NULL} /\ listener \in Blocks \cup {NULL}
    /\ lost \in 0 .. MAX_PCBS /\ driver \in 0 .. MAX_DRIVER
    /\ pc \in {"idle", "opening"} /\ status \in 0 .. 4
    /\ owed \in {"start", "wifi_stop", "tcp_server_stop"}

(* wifi_connected is never set while the driver is down, so that the stop  *)
(* in wifi_start_timeout never undoes an initialisation that is not there. *)
ConnectedHasDriver == wifi_connected => driver > 0

(* Whatever the order of starts, failed starts and stops, the block that   *)
(* the accept callback gets as its argument is never one that was freed,   *)
(* no freed block is thought to listen, and wifi_connected is true to the  *)
(* driver.                                                                 *)
ListenerLive ==
    /\ TypeOK /\ ConnectedHasDriver
    /\ listener # NULL => listener \in live \/ corrupt

(* A program that stops exactly what the status of the last start says was *)
(* started never frees a block twice, loses none, initialises the driver   *)
(* once at a time and leaves no listener to the next start, whatever       *)
(* failed; connections that linger in lwIP may still hold the port.        *)
OrderlyClean ==
    orderly => /\ ~corrupt /\ driver <= 1
               /\ pc = "idle" /\ owed = "start" =>
                    live = {} /\ listener = NULL /\ driver = 0

(* Status 0 means what the caller takes it for: a start that returned it   *)
(* has a listener, and that listener is the one the next stop will close.  *)
StartedIsListening ==
    status = 0 /\ owed = "tcp_server_stop" /\ pc = "idle" =>
        listener # NULL /\ listener = tcp_server_state

(* What an orderly program has at each point: nothing before a start, the  *)
(* driver alone while the network is joined and after a failed connect or  *)
(* calloc, and the driver with one state, the current one, after an open.  *)
OrderlyHas ==
    orderly =>
        /\ ~corrupt /\ driver <= 1
        /\ pc = "opening" => owed = "start"
        /\ owed # "tcp_server_stop" => live = {} /\ listener = NULL
        /\ owed = "tcp_server_stop" => live = {tcp_server_state}
        /\ driver = IF pc = "idle" /\ owed = "start" THEN 0 ELSE 1

(* The inductive invariant.                                                *)
IInv ==
    /\ TypeOK /\ ConnectedHasDriver
    /\ server_pcb = {listener} \ {NULL}
    /\ OrderlyHas
    /\ StartedIsListening

(* A known disagreement, refuted by TLC.                                   *)
(* tcp_server_is_running (tcp_server.h:31) says whether there is a server  *)
(* for tcp_server_stop to stop.                                            *)
IsRunningTruthful == tcp_server_is_running => tcp_server_state \in live

=============================================================================
