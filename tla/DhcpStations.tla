---------------------------- MODULE DhcpStations ----------------------------
(***************************************************************************)
(* The DHCP server together with the stations it serves.  A station is     *)
(* external to the repository; what is modelled of it is how the server's  *)
(* code expects to be used: it broadcasts DHCPDISCOVER until it receives   *)
(* an offer, asks for the offered address, repeats itself when nothing     *)
(* comes back, and starts over when it has waited long enough.             *)
(*                                                                         *)
(* The server reserves nothing for an offer and never sends a DHCPNAK, so  *)
(* two stations may be offered the same address and the loser hears        *)
(* nothing.  Renewals carry no requested-address option; the server drops  *)
(* them and the station falls back to DHCPDISCOVER when its lease is over. *)
(***************************************************************************)
EXTENDS DhcpServer, FiniteSets

VARIABLE st         \* the stations: what they do, the address they rely on

stationVars == <<vars, st>>

StationInit == [state |-> "init", octet |-> 0]
Selecting(octet) == [state |-> "selecting", octet |-> octet]
Bound(octet) == [state |-> "bound", octet |-> octet]

SInit == Init /\ st = [c \in Clients |-> StationInit]

(* wifi_reset and the like: every station loses its access point.          *)
Start == dhcp_server_init /\ UNCHANGED st
Stop == dhcp_server_deinit /\ st' = [c \in Clients |-> StationInit]

SendDiscover(c, sent) ==
    /\ st[c].state = "init"
    /\ Discover(c, sent)
    /\ st' = [st EXCEPT ![c] = IF reply'.type = "OFFER"
                               THEN Selecting(reply'.yiaddr) ELSE @]

SendRequest(c, sent) ==
    /\ st[c].state = "selecting"
    /\ Request(c, TRUE, st[c].octet, sent)
    /\ st' = [st EXCEPT ![c] = IF reply'.type = "ACK"
                               THEN Bound(reply'.yiaddr) ELSE @]

(* The station's retransmissions have gone unanswered.                     *)
GiveUp(c) ==
    /\ st[c].state = "selecting"
    /\ st' = [st EXCEPT ![c] = StationInit]
    /\ UNCHANGED vars

(* DHCPREQUEST of a renewing station: no requested address, no answer.     *)
Renew(c) ==
    /\ st[c].state = "bound"
    /\ Ignored
    /\ UNCHANGED st

(* A station whose lease has run out stops using the address.              *)
Pass ==
    /\ Tick
    /\ st' = [c \in Clients |->
                IF st[c].state = "bound" /\ \A b \in bindings' : b.mac # c
                THEN StationInit ELSE st[c]]

SNext ==
    \/ Start
    \/ Stop
    \/ Pass
    \/ \E c \in Clients :
        \/ \E sent \in BOOLEAN : SendDiscover(c, sent) \/ SendRequest(c, sent)
        \/ GiveUp(c)
        \/ Renew(c)

SSafety == SInit /\ [][SNext]_stationVars

(* A station keeps trying, and a network that carries infinitely many of   *)
(* its exchanges carries infinitely many of them to the end.               *)
Fairness ==
    \A c \in Clients :
        /\ SF_stationVars(SendDiscover(c, TRUE))
        /\ SF_stationVars(SendRequest(c, TRUE))
        /\ WF_stationVars(GiveUp(c))

SSpec == SSafety /\ Fairness

-----------------------------------------------------------------------------
(* A station that asks only for what it was offered never holds two        *)
(* leases, however many of its exchanges are lost half way: the pool is    *)
(* not eaten up by retries.                                                *)
OneLeasePerStation ==
    \A c \in Clients : Cardinality({i \in Index : lease[i].mac = c}) <= 1

(* Two stations that believe to have an address have different ones, and   *)
(* the server knows them by it.                                            *)
BoundStationsKnown ==
    \A c \in Clients :
        st[c].state = "bound" =>
            IndexOf(st[c].octet) \in Index /\ lease[IndexOf(st[c].octet)].mac = c

(* Parts of the inductive invariant behind the two properties.             *)
StationState == [state : {"init", "selecting", "bound"}, octet : Octet]

(* No station has two leases.                                              *)
LeasesDistinct ==
    \A i, j \in Index : lease[i].mac \in Clients /\ lease[i].mac = lease[j].mac => i = j

(* If a station that is about to request has a lease, it is for the offer. *)
OffersOwn ==
    \A c \in Clients :
        st[c].state = "selecting" =>
            \A i \in Index : lease[i].mac = c => i = IndexOf(st[c].octet)

(* A bound station has a binding, of a server that runs.                   *)
BoundBacked ==
    \A c \in Clients :
        st[c].state = "bound" =>
            /\ udp # "null"
            /\ \E b \in bindings : b.mac = c /\ b.yi = IndexOf(st[c].octet)

(* The inductive invariant.                                                *)
StationsInv ==
    /\ IInv
    /\ st \in [Clients -> StationState]
    /\ LeasesDistinct /\ OffersOwn /\ BoundBacked

(* While the server runs, every station gets an address in the end if the  *)
(* pool is large enough for all of them, although offers are not reserved, *)
(* requests are refused in silence and any message may be lost.            *)
EveryStationServed ==
    \A c \in Clients :
        udp = "bound" ~> (st[c].state = "bound" \/ udp # "bound")

=============================================================================
