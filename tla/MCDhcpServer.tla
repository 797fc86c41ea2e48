---------------------------- MODULE MCDhcpServer ----------------------------
(***************************************************************************)
(* DhcpServer on a small clock: leases count granules of two ticks, the    *)
(* counter wraps after sixteen, a lease lasts three.  Two addresses are    *)
(* shared by three stations, which also ask for the octets just outside    *)
(* the pool.                                                               *)
(***************************************************************************)
EXTENDS DhcpServer

MCOctets == {15, 16, 17, 18}

=============================================================================
