--------------------------- MODULE MCDhcpStations ---------------------------
(* DhcpStations with two stations that compete for two addresses.          *)
EXTENDS DhcpStations

MCOctets == {16, 17}

=============================================================================
