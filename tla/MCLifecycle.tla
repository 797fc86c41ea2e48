---------------------------- MODULE MCLifecycle -----------------------------
(* The two devices: a station (StationLifecycle) or an access point        *)
(* (AccessPoint), each with a heap of three interchangeable blocks.        *)
EXTENDS StationLifecycle, TLC

VARIABLES
    device,     \* which of the two this is
    allocated, state, ap_server_pcb, ap_listener, ap_conns, ap_lost, udp,
    orphans, arch, ap_mode, ap_pc, ret, ap_corrupt, misused, started, careful

ap_vars == <<allocated, state, ap_server_pcb, ap_listener, ap_conns, ap_lost, udp,
             orphans, arch, ap_mode, ap_pc, ret, ap_corrupt, misused, started, careful>>

Ap == INSTANCE AccessPoint WITH
    server_pcb <- ap_server_pcb, listener <- ap_listener, conns <- ap_conns,
    lost <- ap_lost, pc <- ap_pc, corrupt <- ap_corrupt

MCInit == device \in {"station", "ap"} /\ Init /\ Ap!Init

Station == device = "station" /\ Next /\ UNCHANGED <<device, ap_vars>>
Point == device = "ap" /\ Ap!Next /\ UNCHANGED <<device, vars>>

MCSpec == MCInit /\ [][Station \/ Point]_<<device, vars, ap_vars>>

(* A program that calls access_point_deinit after every access_point_init  *)
(* that got past cyw43_arch_init, and only then, finds nothing left of it, *)
(* gets its ports, and never calls a driver that is not up.                *)
CarefulRestart == Ap!CarefulRestart

Symmetry == Permutations(Blocks)
=============================================================================
