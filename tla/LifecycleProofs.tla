-------------------------- MODULE LifecycleProofs ---------------------------
(***************************************************************************)
(* Proofs about starting and stopping: the station's web server            *)
(* (StationLifecycle) and the access point (AccessPoint), for every heap,  *)
(* every pool of pcbs and every bound on the nesting of the driver.  The   *)
(* two inductive invariants are proved side by side: a device is one or    *)
(* the other.                                                              *)
(***************************************************************************)
EXTENDS MCLifecycle, TLAPS

-----------------------------------------------------------------------------
(* The station.                                                            *)

(* A call is made by an idle program, and keeps it orderly only if it is   *)
(* the call that is owed.                                                  *)
LEMMA OrderlyCall ==
    ASSUME NEW op, Called(op)
    PROVE  pc = "idle" /\ ~corrupt /\ (orderly' => orderly /\ owed = op)
BY DEF Called

(* A device that was just switched on satisfies the station's invariant.   *)
LEMMA StationInit == Init => IInv
<1> SUFFICES ASSUME Init PROVE IInv
    OBVIOUS
<1>1. Flags
    BY DEF Init, Flags
<1>2. TypeOK /\ server_pcb = {listener} \ {NULL}
    BY <1>1, LifecycleAssumption DEF Init, TypeOK
<1>3. ConnectedHasDriver /\ OrderlyHas /\ StartedIsListening
    BY DEF Init, ConnectedHasDriver, OrderlyHas, StartedIsListening
<1> QED BY <1>2, <1>3 DEF IInv

(* wifi_stop undoes one initialisation of the driver, orderly or not.      *)
LEMMA StationWifiStop == IInv /\ wifi_stop => IInv'
<1> SUFFICES ASSUME IInv, wifi_stop PROVE IInv'
    OBVIOUS
<1>1. Flags'
    BY DEF IInv, TypeOK, Flags, wifi_stop, WifiStop, Called, serverVars
<1>2. TypeOK' /\ server_pcb' = {listener'} \ {NULL}
    BY <1>1, LifecycleAssumption
    DEF IInv, TypeOK, wifi_stop, WifiStop, Less, serverVars
<1>3. pc = "idle" /\ (orderly' => orderly /\ owed = "wifi_stop") /\ ~corrupt'
    BY OrderlyCall DEF wifi_stop, serverVars
<1>4. ConnectedHasDriver' /\ OrderlyHas' /\ StartedIsListening'
    BY <1>3
    DEF IInv, TypeOK, ConnectedHasDriver, OrderlyHas, StartedIsListening, wifi_stop,
        WifiStop, Less, serverVars
<1> QED BY <1>2, <1>4 DEF IInv

(* wifi_start_timeout: the driver fails, the network is not joined, or the *)
(* start goes on to the server.                                            *)
LEMMA StationWifiStart == IInv /\ wifi_start_timeout => IInv'
<1> SUFFICES ASSUME IInv, wifi_start_timeout PROVE IInv'
    OBVIOUS
<1> DEFINE left == IF wifi_connected THEN Less(driver) ELSE driver
<1>1. left \in 0 .. MAX_DRIVER - 1 /\ (orderly /\ owed = "start" => left = 0)
    BY LifecycleAssumption
    DEF IInv, TypeOK, ConnectedHasDriver, OrderlyHas, wifi_start_timeout, Called, Less
<1>2. \/ driver' = left /\ wifi_connected' = FALSE /\ Return(1)
      \/ driver' = left + 1 /\ wifi_connected' = FALSE /\ Return(2)
      \/ /\ driver' = left + 1 /\ wifi_connected' = TRUE
         /\ pc' = "opening" /\ UNCHANGED <<status, owed>>
    BY DEF wifi_start_timeout
<1> HIDE DEF left
<1>3. UNCHANGED <<serverVars, conns, lost>> /\ Called("start")
    BY DEF wifi_start_timeout
<1>0. Flags'
    BY <1>2, <1>3 DEF IInv, TypeOK, Flags, Called, serverVars
<1>4. TypeOK' /\ ConnectedHasDriver' /\ server_pcb' = {listener'} \ {NULL}
    BY <1>0, <1>1, <1>2, <1>3, LifecycleAssumption
    DEF IInv, TypeOK, ConnectedHasDriver, Return, Undo, serverVars
<1>c. pc = "idle" /\ (orderly' => orderly /\ owed = "start") /\ ~corrupt'
    BY <1>3, OrderlyCall DEF serverVars
<1>5. OrderlyHas'
    BY <1>1, <1>2, <1>3, <1>c
    DEF IInv, TypeOK, OrderlyHas, Return, Undo, serverVars
<1>6. StartedIsListening'
    BY <1>2, <1>3
    DEF IInv, StartedIsListening, Return, Undo, Called, serverVars
<1> QED BY <1>4, <1>5, <1>6 DEF IInv

(* The rest of a start: no block, or a new one with an open that succeeds, *)
(* finds its port taken, or fails for want of a pcb.                       *)
LEMMA StationServerStart == IInv /\ tcp_server_start_timeout => IInv'
<1> SUFFICES ASSUME IInv, tcp_server_start_timeout PROVE IInv'
    OBVIOUS
<1>0. UNCHANGED <<conns, driver, wifi_connected, corrupt, orderly>> /\ pc = "opening"
    BY DEF tcp_server_start_timeout
<1>f. Flags'
    BY <1>0 DEF IInv, TypeOK, Flags
<1>1. CASE /\ tcp_server_state' = NULL
           /\ Return(3)
           /\ UNCHANGED <<live, server_pcb, listener, lost>>
    BY <1>0, <1>f, <1>1, LifecycleAssumption
    DEF IInv, TypeOK, ConnectedHasDriver, OrderlyHas, StartedIsListening, Return, Undo
<1>2. CASE \E b \in Blocks \ live :
             /\ live' = live \cup {b}
             /\ tcp_server_state' = b
             /\ tcp_server_open(b)
    <2>0. PICK b \in Blocks \ live :
             /\ live' = live \cup {b}
             /\ tcp_server_state' = b
             /\ tcp_server_open(b)
        BY <1>2
    <2>1. CASE Return(4) /\ UNCHANGED <<server_pcb, listener>> /\ lost' \in 0 .. MAX_PCBS
        BY <1>0, <1>f, <2>0, <2>1, LifecycleAssumption
        DEF IInv, TypeOK, ConnectedHasDriver, OrderlyHas, StartedIsListening, Return, Undo
    <2>2. CASE /\ listener = NULL
               /\ server_pcb' = server_pcb \cup {b} /\ listener' = b
               /\ Return(0) /\ UNCHANGED lost
        BY <1>0, <1>f, <2>0, <2>2, LifecycleAssumption
        DEF IInv, TypeOK, ConnectedHasDriver, OrderlyHas, StartedIsListening, Return, Undo
    <2>3. lost \in 0 .. MAX_PCBS
        BY DEF IInv, TypeOK
    <2> QED
        BY <2>0, <2>1, <2>2, <2>3, LifecycleAssumption
        DEF tcp_server_open, ListenFailed, PortTaken
<1> QED BY <1>1, <1>2 DEF tcp_server_start_timeout

(* tcp_server_stop closes and frees the state it points to, freed already  *)
(* or not, and undoes one initialisation of the driver.                    *)
LEMMA StationServerStop == IInv /\ tcp_server_stop => IInv'
<1> SUFFICES ASSUME IInv, tcp_server_stop PROVE IInv'
    OBVIOUS
<1>0. /\ Called("tcp_server_stop") /\ WifiStop /\ status' = 0 /\ owed' = "start"
      /\ UNCHANGED <<tcp_server_state, conns, lost, pc>>
    BY DEF tcp_server_stop
<1>c. pc = "idle" /\ ~corrupt /\ (orderly' => orderly /\ owed = "tcp_server_stop")
    BY <1>0, OrderlyCall
<1>1. CASE ~tcp_server_is_running
    <2>1. Flags'
        BY <1>0, <1>1 DEF IInv, TypeOK, Flags, tcp_server_stop, WifiStop, Called
    <2>2. UNCHANGED <<live, server_pcb, listener>> /\ ~corrupt'
        BY <1>1, <1>c DEF tcp_server_stop
    <2>3. TypeOK' /\ ConnectedHasDriver' /\ server_pcb' = {listener'} \ {NULL}
        BY <1>0, <2>1, <2>2, LifecycleAssumption
        DEF IInv, TypeOK, ConnectedHasDriver, WifiStop, Less
    <2>4. OrderlyHas'
        BY <1>0, <1>1, <1>c, <2>2, LifecycleAssumption
        DEF IInv, TypeOK, OrderlyHas, WifiStop, Less, tcp_server_is_running
    <2> QED BY <1>0, <2>3, <2>4 DEF IInv, StartedIsListening
<1>2. CASE tcp_server_is_running
    <2>1. /\ corrupt' = (tcp_server_state \notin live)
          /\ tcp_server_close(tcp_server_state)
          /\ live' = Freed(tcp_server_state)
        BY <1>2 DEF tcp_server_stop
    <2>0. Flags'
        BY <1>0, <2>1 DEF IInv, TypeOK, Flags, WifiStop, Called
    <2>2. TypeOK' /\ ConnectedHasDriver' /\ server_pcb' = {listener'} \ {NULL}
        BY <1>0, <2>0, <2>1, LifecycleAssumption
        DEF IInv, TypeOK, ConnectedHasDriver, tcp_server_close, Freed, WifiStop, Less
    <2>3. OrderlyHas'
        <3>1. tcp_server_state \in live => ~corrupt'
            BY <2>1
        <3> QED
            BY <1>0, <1>c, <2>1, <3>1, LifecycleAssumption
            DEF IInv, TypeOK, OrderlyHas, tcp_server_close, Freed, WifiStop, Less
    <2> QED BY <1>0, <2>2, <2>3 DEF IInv, StartedIsListening
<1> QED BY <1>1, <1>2

(* Whatever the order of the calls, and whatever fails in them, the        *)
(* station's invariant holds.                                              *)
LEMMA StationStep == IInv /\ [Next]_vars => IInv'
<1> SUFFICES ASSUME IInv, [Next]_vars PROVE IInv'
    OBVIOUS
<1> USE DEF IInv, TypeOK, Flags, ConnectedHasDriver, OrderlyHas, StartedIsListening
<1>1. CASE Connect
    BY <1>1 DEF Connect, serverVars
<1>2. CASE Drain
    BY <1>2 DEF Drain, serverVars
<1>3. CASE UNCHANGED vars
    BY <1>3 DEF vars
<1> QED
    BY <1>1, <1>2, <1>3, StationWifiStop, StationWifiStart, StationServerStart,
       StationServerStop
    DEF Next

-----------------------------------------------------------------------------
(* The access point.                                                       *)

(* A device that was just switched on satisfies the access point's         *)
(* invariant.                                                              *)
LEMMA PointInit == Ap!Init => Ap!IInv
<1> SUFFICES ASSUME Ap!Init PROVE Ap!IInv
    OBVIOUS
<1>1. Ap!Flags
    BY DEF Ap!Init, Ap!Flags
<1> QED
    BY <1>1, LifecycleAssumption
    DEF Ap!Init, Ap!IInv, Ap!TypeOK, Ap!CarefulClean, Ap!CarefulHas, Ap!Services,
        Ap!NULL, NULL

(* The calloc of access_point_init: a program that did not undo the init   *)
(* before it is no longer careful.                                         *)
LEMMA PointAlloc == Ap!IInv /\ Ap!InitAlloc => Ap!IInv'
<1> SUFFICES ASSUME Ap!IInv, Ap!InitAlloc PROVE Ap!IInv'
    OBVIOUS
<1>1. Ap!Flags'
    BY DEF Ap!IInv, Ap!TypeOK, Ap!Flags, Ap!InitAlloc
<1>2. careful' => careful /\ ~started
    BY DEF Ap!InitAlloc
<1>3. UNCHANGED <<ap_server_pcb, ap_listener, ap_lost, udp, orphans>>
      /\ UNCHANGED <<arch, ap_mode, misused, started>> /\ ~ap_corrupt'
    BY DEF Ap!InitAlloc
<1>4. CASE \E b \in Blocks \ allocated :
             /\ allocated' = allocated \cup {b} /\ state' = b
             /\ ap_pc' = "arch" /\ ret' = ret
    <2>1. Ap!TypeOK' /\ state' # Ap!NULL
        BY <1>1, <1>3, <1>4, LifecycleAssumption DEF Ap!IInv, Ap!TypeOK, Ap!NULL, NULL
    <2> QED
        BY <1>2, <1>3, <1>4, <2>1
        DEF Ap!IInv, Ap!CarefulClean, Ap!CarefulHas, Ap!Services, Ap!NULL
<1>5. CASE /\ state' = Ap!NULL /\ Ap!Return(1)
           /\ UNCHANGED allocated
    <2>1. Ap!TypeOK' /\ ap_pc' = "idle"
        BY <1>1, <1>3, <1>5 DEF Ap!IInv, Ap!TypeOK, Ap!Return
    <2> QED
        BY <1>2, <1>3, <1>5, <2>1
        DEF Ap!IInv, Ap!CarefulClean, Ap!CarefulHas, Ap!Services, Ap!NULL
<1> QED BY <1>4, <1>5 DEF Ap!InitAlloc

(* cyw43_arch_init fails, and access_point_init returns with what it has,  *)
(* or the network is up.                                                   *)
LEMMA PointArch == Ap!IInv /\ Ap!InitArch => Ap!IInv'
<1> SUFFICES ASSUME Ap!IInv, Ap!InitArch PROVE Ap!IInv'
    OBVIOUS
<1>1. Ap!Flags'
    BY DEF Ap!IInv, Ap!TypeOK, Ap!Flags, Ap!InitArch, Ap!tcpVars
<1> QED
    BY <1>1, LifecycleAssumption
    DEF Ap!InitArch, Ap!IInv, Ap!TypeOK, Ap!CarefulClean, Ap!CarefulHas, Ap!Return,
        Ap!tcpVars, Ap!Services, Ap!NULL, NULL

(* A service whose pointer is NULL, while nothing is orphaned, gets its    *)
(* port: the two services use different ones.                              *)
LEMMA SocketGetsPort ==
    ASSUME NEW s \in Ap!Services, Ap!TypeOK, orphans = {}, udp[s] = Ap!NULL,
           Ap!socket_new_and_bind(s)
    PROVE  /\ orphans' = {}
           /\ udp' \in {[udp EXCEPT ![s] = Ap!NULL], [udp EXCEPT ![s] = "bound"]}
BY DEF Ap!socket_new_and_bind, Ap!Bound, Ap!Orphaned, Ap!Port, Ap!Services, Ap!NULL,
       Ap!TypeOK

(* Whatever the pointer was, a service's socket is of one of three kinds.  *)
LEMMA SocketTypes ==
    ASSUME NEW s \in Ap!Services, Ap!TypeOK, Ap!socket_new_and_bind(s)
    PROVE  udp' \in [Ap!Services -> {Ap!NULL, "unbound", "bound"}] /\ orphans' \subseteq Ap!Services
BY DEF Ap!socket_new_and_bind, Ap!Orphaned, Ap!Services, Ap!NULL, Ap!TypeOK

(* dhcp_server_init, which cannot report that it has no socket.            *)
LEMMA PointDhcp == Ap!IInv /\ Ap!dhcp_server_init => Ap!IInv'
<1> SUFFICES ASSUME Ap!IInv, Ap!dhcp_server_init PROVE Ap!IInv'
    OBVIOUS
<1>0. "dhcp" \in Ap!Services /\ "dns" \in Ap!Services /\ Ap!Services = {"dhcp", "dns"}
    BY DEF Ap!Services
<1>1. udp' \in [Ap!Services -> {Ap!NULL, "unbound", "bound"}] /\ orphans' \subseteq Ap!Services
    BY <1>0, SocketTypes DEF Ap!IInv, Ap!dhcp_server_init
<1>2. careful => /\ orphans' = {}
                 /\ udp' \in {[udp EXCEPT !["dhcp"] = Ap!NULL], [udp EXCEPT !["dhcp"] = "bound"]}
    BY <1>0, SocketGetsPort
    DEF Ap!IInv, Ap!CarefulClean, Ap!CarefulHas, Ap!dhcp_server_init
<1>3. Ap!Flags' /\ Ap!TypeOK'
    <2>1. Ap!Flags'
        BY DEF Ap!dhcp_server_init, Ap!IInv, Ap!TypeOK, Ap!Flags
    <2> QED BY <1>1, <2>1 DEF Ap!dhcp_server_init, Ap!IInv, Ap!TypeOK, Ap!tcpVars
<1>4. /\ careful' => careful
      /\ (ap_corrupt' => ap_corrupt) /\ (misused' => misused) /\ started'
    BY DEF Ap!dhcp_server_init, Ap!IInv
<1>5. Ap!CarefulClean'
    BY <1>0, <1>2, <1>4 DEF Ap!IInv, Ap!TypeOK, Ap!CarefulClean, Ap!NULL
<1>6. Ap!CarefulHas'
    BY <1>0, <1>2, <1>4
    DEF Ap!dhcp_server_init, Ap!IInv, Ap!TypeOK, Ap!CarefulHas, Ap!tcpVars
<1> QED
    BY <1>3, <1>4, <1>5, <1>6 DEF Ap!dhcp_server_init, Ap!IInv, Ap!tcpVars

(* dns_server_init, likewise.                                              *)
LEMMA PointDns == Ap!IInv /\ Ap!dns_server_init => Ap!IInv'
<1> SUFFICES ASSUME Ap!IInv, Ap!dns_server_init PROVE Ap!IInv'
    OBVIOUS
<1>0. "dhcp" \in Ap!Services /\ "dns" \in Ap!Services /\ Ap!Services = {"dhcp", "dns"}
    BY DEF Ap!Services
<1>1. udp' \in [Ap!Services -> {Ap!NULL, "unbound", "bound"}] /\ orphans' \subseteq Ap!Services
    BY <1>0, SocketTypes DEF Ap!IInv, Ap!dns_server_init
<1>2. careful => /\ orphans' = {}
                 /\ udp' \in {[udp EXCEPT !["dns"] = Ap!NULL], [udp EXCEPT !["dns"] = "bound"]}
    BY <1>0, SocketGetsPort
    DEF Ap!IInv, Ap!CarefulClean, Ap!CarefulHas, Ap!dns_server_init
<1>3. Ap!Flags' /\ Ap!TypeOK'
    <2>1. Ap!Flags'
        BY DEF Ap!dns_server_init, Ap!IInv, Ap!TypeOK, Ap!Flags
    <2> QED BY <1>1, <2>1 DEF Ap!dns_server_init, Ap!IInv, Ap!TypeOK, Ap!tcpVars
<1>4. /\ careful' => careful
      /\ (ap_corrupt' => ap_corrupt) /\ (misused' => misused) /\ started'
    BY DEF Ap!dns_server_init, Ap!IInv
<1>5. Ap!CarefulClean'
    BY <1>0, <1>2, <1>4 DEF Ap!IInv, Ap!TypeOK, Ap!CarefulClean, Ap!NULL
<1>6. Ap!CarefulHas'
    BY <1>0, <1>2, <1>4
    DEF Ap!dns_server_init, Ap!IInv, Ap!TypeOK, Ap!CarefulHas, Ap!tcpVars
<1> QED
    BY <1>3, <1>4, <1>5, <1>6 DEF Ap!dns_server_init, Ap!IInv, Ap!tcpVars

(* tcp_server_open makes the current state the argument of the listener,   *)
(* or leaves the listener that there is.                                   *)
LEMMA PointOpen == Ap!IInv /\ Ap!tcp_server_open => Ap!IInv'
<1> SUFFICES ASSUME Ap!IInv, Ap!tcp_server_open PROVE Ap!IInv'
    OBVIOUS
<1>1. Ap!Flags'
    BY DEF Ap!IInv, Ap!TypeOK, Ap!Flags, Ap!tcp_server_open
<1>2. Ap!TypeOK'
    BY <1>1, LifecycleAssumption
    DEF Ap!tcp_server_open, Ap!PortTaken, Ap!Return, Ap!IInv, Ap!TypeOK, Ap!NULL, NULL
<1>3. /\ UNCHANGED <<udp, orphans, state>> /\ ap_pc' = "idle"
      /\ started' /\ (careful' => careful) /\ (ap_corrupt' => ap_corrupt)
    BY DEF Ap!tcp_server_open, Ap!Return, Ap!IInv
<1>4. ap_listener' = ap_listener \/ ap_listener' = state
    BY DEF Ap!tcp_server_open
<1> QED
    BY <1>2, <1>3, <1>4 DEF Ap!tcp_server_open, Ap!IInv, Ap!CarefulClean, Ap!CarefulHas

(* access_point_deinit closes the listener only if the current state has   *)
(* it, and follows a NULL state or calls a driver that is not up only for  *)
(* a program that is not careful.                                          *)
LEMMA PointDeinit == Ap!IInv /\ Ap!access_point_deinit => Ap!IInv'
<1> SUFFICES ASSUME Ap!IInv, Ap!access_point_deinit PROVE Ap!IInv'
    OBVIOUS
<1>1. Ap!Flags'
    BY DEF Ap!IInv, Ap!TypeOK, Ap!Flags, Ap!access_point_deinit
<1>2. Ap!TypeOK'
    BY <1>1, LifecycleAssumption
    DEF Ap!access_point_deinit, Ap!tcp_server_close, Ap!SocketsFreed, Ap!IInv, Ap!TypeOK,
        Ap!Services, Ap!NULL, NULL
<1>3. /\ UNCHANGED <<orphans, state>> /\ ap_pc = "idle" /\ ap_pc' = "idle"
      /\ udp' = [s \in Ap!Services |-> Ap!NULL]
      /\ ~started' /\ ~ap_mode' /\ (careful' => careful /\ started)
      /\ misused' = (misused \/ ~arch)
    BY DEF Ap!access_point_deinit, Ap!SocketsFreed
<1>4. state # Ap!NULL => ~ap_corrupt' /\ Ap!tcp_server_close
    BY DEF Ap!access_point_deinit
<1>5. careful' => ~ap_corrupt' /\ ap_listener' = Ap!NULL
    BY <1>3, <1>4 DEF Ap!IInv, Ap!TypeOK, Ap!CarefulHas, Ap!tcp_server_close
<1>6. careful' => ~misused'
    BY <1>3 DEF Ap!IInv, Ap!CarefulClean
<1> QED
    BY <1>2, <1>3, <1>5, <1>6 DEF Ap!IInv, Ap!CarefulClean, Ap!CarefulHas, Ap!NULL

(* Whatever the order of the calls, and whatever fails in them, the access *)
(* point's invariant holds.                                                *)
LEMMA PointStep == Ap!IInv /\ [Ap!Next]_(Ap!vars) => Ap!IInv'
<1> SUFFICES ASSUME Ap!IInv, [Ap!Next]_(Ap!vars) PROVE Ap!IInv'
    OBVIOUS
<1> USE DEF Ap!IInv, Ap!TypeOK, Ap!Flags, Ap!CarefulClean, Ap!CarefulHas
<1>1. CASE Ap!Connect
    BY <1>1 DEF Ap!Connect, Ap!tcpVars
<1>2. CASE Ap!Drain
    BY <1>2 DEF Ap!Drain, Ap!tcpVars
<1>3. CASE UNCHANGED Ap!vars
    BY <1>3 DEF Ap!vars
<1> QED
    BY <1>1, <1>2, <1>3, PointAlloc, PointArch, PointDhcp, PointDns, PointOpen, PointDeinit
    DEF Ap!Next

-----------------------------------------------------------------------------
(* The devices.                                                            *)

(* Both inductive invariants hold of every device, in every state.         *)
THEOREM Invariance == MCSpec => [](IInv /\ Ap!IInv)
<1>1. MCInit => IInv /\ Ap!IInv
    BY StationInit, PointInit DEF MCInit
<1>2. IInv /\ Ap!IInv /\ [Station \/ Point]_<<device, vars, ap_vars>> => IInv' /\ Ap!IInv'
    <2> SUFFICES ASSUME IInv, Ap!IInv, [Station \/ Point]_<<device, vars, ap_vars>>
                 PROVE  IInv' /\ Ap!IInv'
        OBVIOUS
    <2>1. [Next]_vars
        BY DEF Station, Point
    <2>2. [Ap!Next]_(Ap!vars)
        BY DEF Station, Point, ap_vars, Ap!vars
    <2> QED BY <2>1, <2>2, StationStep, PointStep
<1> QED BY <1>1, <1>2, PTL DEF MCSpec

(* However often the station's server is started and stopped, in whatever  *)
(* order and with whatever failures, the accept callback's argument is a   *)
(* block that is allocated, and wifi_connected is true to the driver.      *)
THEOREM ListenerStaysLive == MCSpec => []ListenerLive
<1>1. IInv => ListenerLive
    BY DEF IInv, TypeOK, ListenerLive
<1> QED BY <1>1, Invariance, PTL

(* A program that goes by the status of tcp_server_start_timeout frees no  *)
(* block twice, loses none, and starts again from nothing.                 *)
THEOREM OrderlyStaysClean == MCSpec => []OrderlyClean
<1>1. IInv => OrderlyClean
    BY DEF IInv, OrderlyHas, OrderlyClean
<1> QED BY <1>1, Invariance, PTL

(* A tcp_server_start_timeout that returned 0 has a listener, the one that *)
(* tcp_server_stop will close.                                             *)
THEOREM StartedListens == MCSpec => []StartedIsListening
<1>1. IInv => StartedIsListening
    BY DEF IInv
<1> QED BY <1>1, Invariance, PTL

(* A program that undoes with access_point_deinit every access_point_init  *)
(* that got past cyw43_arch_init, and no other, finds nothing left of it,  *)
(* never calls a driver that is not up, and its sockets get their ports.   *)
THEOREM CarefulRestarts == MCSpec => []CarefulRestart
<1>1. Ap!IInv => CarefulRestart
    BY DEF Ap!IInv, CarefulRestart, Ap!CarefulRestart
<1> QED BY <1>1, Invariance, PTL

=============================================================================
