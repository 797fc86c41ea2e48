---------------------------- MODULE AccessPoint -----------------------------
(***************************************************************************)
(* access_point_init and access_point_deinit of                            *)
(* ap_website/picow_access_point.c with the sockets of the DHCP and DNS    *)
(* servers: every way to fail, and programs that start again.              *)
(*                                                                         *)
(* lwIP is external: udp_bind and tcp_bind refuse a port that is taken, a  *)
(* pcb nobody points to any more goes on receiving.  The server state is   *)
(* allocated by every init and never freed.                                *)
(***************************************************************************)
EXTENDS Naturals, FiniteSets

CONSTANTS
    Blocks,     \* heap blocks for a TCP_SERVER_T
    MAX_PCBS    \* bound on the TCP pcbs that are lost

NULL == "NULL"

Services == {"dhcp", "dns"}

VARIABLES
    allocated,      \* blocks in use
    state,          \* the global pointer
    server_pcb,     \* blocks whose server_pcb is not NULL
    listener,       \* argument of the pcb that listens on TCP_PORT
    conns,          \* connections of TCP_PORT are left in lwIP
    lost,           \* TCP pcbs that nobody can close any more
    udp,            \* per service: the pcb d->udp points to, or NULL
    orphans,        \* services with a bound pcb nobody points to
    arch,           \* cyw43_arch_init has succeeded
    ap_mode,        \* the network is up
    pc,             \* the next step of access_point_init, or "idle"
    ret,            \* what the last call returned
    \* history:
    corrupt,        \* deinit followed a NULL state
    misused,        \* deinit called a driver that was never initialised
    started,        \* an init got past cyw43_arch_init and was not undone
    careful         \* each such init, and no other, was undone before the next

vars == <<allocated, state, server_pcb, listener, conns, lost, udp, orphans,
          arch, ap_mode, pc, ret, corrupt, misused, started, careful>>
tcpVars == <<allocated, state, server_pcb, listener, lost>>

Init ==
    /\ allocated = {} /\ state = NULL /\ server_pcb = {} /\ listener = NULL
    /\ conns = FALSE /\ lost = 0
    /\ udp = [s \in Services |-> NULL] /\ orphans = {}
    /\ arch = FALSE /\ ap_mode = FALSE
    /\ pc = "idle" /\ ret = 0
    /\ corrupt = FALSE /\ misused = FALSE
    /\ started = FALSE /\ careful = TRUE

Return(r) == pc' = "idle" /\ ret' = r

-----------------------------------------------------------------------------
(* access_point_init, call by call.                                        *)
InitAlloc ==
    /\ pc = "idle" /\ ~corrupt
    /\ \/ \E b \in Blocks \ allocated :
            /\ allocated' = allocated \cup {b} /\ state' = b
            /\ pc' = "arch" /\ ret' = ret
       \/ /\ state' = NULL /\ Return(1)
          /\ UNCHANGED allocated
    /\ careful' = (careful /\ ~started)
    /\ UNCHANGED <<server_pcb, listener, conns, lost, udp, orphans, arch, ap_mode,
                   corrupt, misused, started>>

InitArch ==
    /\ pc = "arch"
    /\ \/ Return(1) /\ UNCHANGED <<arch, ap_mode, started>>
       \/ /\ arch' = TRUE /\ ap_mode' = TRUE /\ started' = TRUE
          /\ pc' = "dhcp" /\ ret' = ret
    /\ UNCHANGED <<tcpVars, conns, udp, orphans, corrupt, misused, careful>>

Port(s) == IF s = "dhcp" THEN 67 ELSE 53

(* The pointer is overwritten, whatever it pointed to; udp_new may fail.   *)
Orphaned(s) == IF udp[s] = "bound" THEN orphans \cup {s} ELSE orphans

Bound(s) ==
    \/ \E o \in Orphaned(s) : Port(o) = Port(s)
    \/ \E t \in Services \ {s} : udp[t] = "bound" /\ Port(t) = Port(s)

socket_new_and_bind(s) ==
    /\ udp' \in {[udp EXCEPT ![s] = NULL],
                 [udp EXCEPT ![s] = IF Bound(s) THEN "unbound" ELSE "bound"]}
    /\ orphans' = Orphaned(s)

(* dhcp_server_init and dns_server_init return nothing.                    *)
dhcp_server_init ==
    /\ pc = "dhcp" /\ pc' = "dns"
    /\ socket_new_and_bind("dhcp")
    /\ UNCHANGED <<tcpVars, conns, arch, ap_mode, ret, corrupt, misused,
                   started, careful>>

dns_server_init ==
    /\ pc = "dns" /\ pc' = "open"
    /\ socket_new_and_bind("dns")
    /\ UNCHANGED <<tcpVars, conns, arch, ap_mode, ret, corrupt, misused,
                   started, careful>>

PortTaken == listener # NULL \/ conns

(* No pcb; the port is taken, and the pcb is lost; no listening pcb.       *)
tcp_server_open ==
    /\ pc = "open"
    /\ \/ Return(1) /\ UNCHANGED <<server_pcb, listener, lost>>
       \/ /\ PortTaken /\ lost < MAX_PCBS
          /\ lost' = lost + 1
          /\ Return(1) /\ UNCHANGED <<server_pcb, listener>>
       \/ /\ ~PortTaken /\ lost < MAX_PCBS
          /\ server_pcb' = server_pcb \cup {state}
          /\ listener' = state
          /\ Return(0) /\ UNCHANGED lost
    /\ UNCHANGED <<allocated, state, conns, udp, orphans, arch, ap_mode, corrupt,
                   misused, started, careful>>

-----------------------------------------------------------------------------
tcp_server_close ==
    /\ server_pcb' = server_pcb \ {state}
    /\ listener' = IF state \in server_pcb THEN NULL ELSE listener

(* Fault on purpose: the DNS socket is forgotten.                          *)
SocketsFreedFault == udp' = [udp EXCEPT !["dhcp"] = NULL]
SocketsFreed == udp' = [s \in Services |-> NULL]

(* The network is disabled whether or not there is a driver to do it, and  *)
(* cyw43_arch_deinit is commented out: the driver stays initialised.       *)
access_point_deinit ==
    /\ pc = "idle" /\ ~corrupt
    /\ IF state = NULL
       THEN corrupt' = TRUE /\ UNCHANGED <<server_pcb, listener>>
       ELSE corrupt' = FALSE /\ tcp_server_close
    /\ SocketsFreed
    /\ misused' = (misused \/ ~arch)
    /\ ap_mode' = FALSE
    /\ ret' = 0
    /\ started' = FALSE /\ careful' = (careful /\ started)
    /\ UNCHANGED <<allocated, state, conns, lost, orphans, arch, pc>>

(* External: browsers connect, and the last of them is forgotten by lwIP.  *)
Connect ==
    /\ listener # NULL /\ ap_mode /\ ~corrupt
    /\ conns' = TRUE
    /\ UNCHANGED <<tcpVars, udp, orphans, arch, ap_mode, pc, ret, corrupt, misused,
                   started, careful>>

Drain ==
    /\ conns /\ ~corrupt
    /\ conns' = FALSE
    /\ UNCHANGED <<tcpVars, udp, orphans, arch, ap_mode, pc, ret, corrupt, misused,
                   started, careful>>

Next ==
    \/ InitAlloc \/ InitArch \/ dhcp_server_init \/ dns_server_init \/ tcp_server_open
    \/ access_point_deinit
    \/ Connect \/ Drain

Spec == Init /\ [][Next]_vars

-----------------------------------------------------------------------------
(* Properties.                                                             *)

Flags ==
    /\ conns \in BOOLEAN /\ arch \in BOOLEAN /\ ap_mode \in BOOLEAN
    /\ corrupt \in BOOLEAN /\ misused \in BOOLEAN
    /\ started \in BOOLEAN /\ careful \in BOOLEAN

(* Every variable has its type, and the one listener is the pcb that the   *)
(* one state with a server_pcb points to.                                  *)
TypeOK ==
    /\ Flags
    /\ allocated \subseteq Blocks /\ state \in allocated \cup {NULL}
    /\ listener \in Blocks \cup {NULL}
    /\ server_pcb = {listener} \ {NULL}
    /\ lost \in 0 .. MAX_PCBS
    /\ udp \in [Services -> {NULL, "unbound", "bound"}] /\ orphans \subseteq Services
    /\ pc \in {"idle", "arch", "dhcp", "dns", "open"} /\ ret \in 0 .. 1

(* What the restarts of a careful program rely on, see CarefulRestart.     *)
CarefulClean ==
    careful =>
        /\ ~corrupt /\ ~misused /\ orphans = {}
        /\ \A s \in Services : udp[s] # "unbound"
        /\ ~started => /\ \A s \in Services : udp[s] = NULL
                       /\ listener = NULL /\ ~ap_mode

(* A program that undoes every init that got past cyw43_arch_init, failed  *)
(* or not, before the next one finds nothing of it left: no socket, no     *)
(* listener, no network; it never follows a NULL state and never calls a   *)
(* driver that is not up.  On the first start and on every later one its   *)
(* sockets get their ports: only a udp_new that fails leaves it without    *)
(* DHCP or DNS.  All failures return the same value, so the program has to *)
(* know better than access_point_init tells it.                            *)
CarefulRestart == TypeOK /\ CarefulClean

(* What does not hold, refuted by TLC: an init that failed may be undone,  *)
(* whatever failed in it.                                                  *)
FailedInitUndone ==
    [][ret = 1 /\ access_point_deinit => ~corrupt' /\ (misused' => misused)]_vars

(* What a careful program has at each step of an init: no listener before  *)
(* the open, no socket of a service before that service is started.        *)
CarefulHas ==
    careful =>
        /\ listener # NULL => listener = state
        /\ pc # "idle" => listener = NULL
        /\ pc \in {"arch", "dhcp"} => udp["dhcp"] = NULL
        /\ pc \in {"arch", "dhcp", "dns"} => udp["dns"] = NULL

(* The inductive invariant.                                                *)
IInv ==
    /\ TypeOK
    /\ pc \in {"dhcp", "dns", "open"} => started
    /\ started => arch
    /\ pc # "idle" \/ (careful /\ started) => state # NULL
    /\ CarefulClean /\ CarefulHas

(* A known disagreement, refuted by TLC.                                   *)
(* "Start the dhcp server", "Start the dns server" (picow_access_point.c,  *)
(* lines 347 and 350): an init that returns 0 has started both.            *)
InitStartsServices ==
    pc = "idle" /\ started /\ ret = 0 => \A s \in Services : udp[s] = "bound"

=============================================================================
