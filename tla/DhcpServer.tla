----------------------------- MODULE DhcpServer -----------------------------
(***************************************************************************)
(* The DHCP server of the access point, ap_website/dhcpserver/dhcpserver.c.*)
(*                                                                         *)
(* The server keeps one lease per address: the MAC address it belongs to   *)
(* and a 16-bit expiry, the upper half of a 32-bit millisecond counter.    *)
(* Every UDP datagram is handled by one call of dhcp_server_process, which *)
(* runs to completion, so one action stands for one call.                  *)
(*                                                                         *)
(* Time.  `now' is the true time since boot; the code only ever sees       *)
(* now % TICKS, the wrapping counter cyw43_hal_ticks_ms().  GRANULE and    *)
(* WRAP are 2^16 in the code: a lease counts time in granules of GRANULE   *)
(* milliseconds, and there are WRAP of them before the counter wraps.      *)
(*                                                                         *)
(* `bindings' and `acked' are history variables: what the clients were     *)
(* promised, and when the server last acknowledged each address.           *)
(***************************************************************************)
EXTENDS Integers

CONSTANTS
    Clients,        \* the MAC addresses of the stations
    NoMac,          \* the all-zero MAC address that marks a free lease
    DHCPS_MAX_IP,   \* number of addresses in the pool
    GRANULE,        \* milliseconds in one unit of a lease's expiry field
    WRAP,           \* number of values of a lease's expiry field
    LEASE,          \* DEFAULT_LEASE_TIME_S * 1000
    LastOctets,     \* last octets of the addresses that stations ask for
    MaxTime         \* bound on the true time

VARIABLES
    lease,          \* d->lease: index -> [mac, expiry]
    udp,            \* d->udp: "null", "unbound" or "bound"
    reply,          \* the datagram sent by the last call, or NoReply
    now,            \* true time since boot
    acked,          \* history: true time of the last DHCPACK for each index
    bindings        \* history: addresses the stations may be using

vars == <<lease, udp, reply, now, acked, bindings>>

DHCPS_BASE_IP == 16
Octet == 0 .. 255
Index == 0 .. DHCPS_MAX_IP - 1
TICKS == GRANULE * WRAP

ASSUME ClientsAssumption == NoMac \notin Clients
ASSUME PoolAssumption == DHCPS_MAX_IP \in 1 .. 256 - DHCPS_BASE_IP
ASSUME ClockAssumption ==
    /\ GRANULE \in Nat \ {0}
    /\ WRAP \in Nat \ {0}
    /\ LEASE \in Nat \ {0}
    /\ MaxTime \in Nat
    \* one day and one granule fit into the positive half of an int32_t
    /\ 2 * (LEASE + GRANULE) <= TICKS
ASSUME OctetsAssumption == LastOctets \subseteq Octet

-----------------------------------------------------------------------------
(* Reading the clock and the leases.                                       *)

(* The operators named ...Fault are wrong on purpose: plausible slips in   *)
(* the code that the properties below must notice.  Nothing uses them.     *)

(* The expiry field stored for a lease acknowledged at true time t.        *)
ExpiryAt(t) == (((t % TICKS) + LEASE) % TICKS) \div GRANULE

(* The expiry is not widened with one bits: up to a granule too early.     *)
ExpiredAtFloorFault(expiry, t) ==
    2 * (((expiry * GRANULE) - (t % TICKS)) % TICKS) >= TICKS

(* The two counters are compared instead of their difference.              *)
ExpiredAtCompareFault(expiry, t) ==
    (expiry * GRANULE) + (GRANULE - 1) < t % TICKS

(* The code widens expiry with 16 one bits, subtracts the counter as       *)
(* uint32_t and asks whether the result is negative as an int32_t.         *)
ExpiredAt(expiry, t) ==
    2 * ((((expiry * GRANULE) + (GRANULE - 1)) - (t % TICKS)) % TICKS) >= TICKS

Expired(i) == ExpiredAt(lease[i].expiry, now)

(* yi is a uint8_t: an octet below the base wraps to a large index.        *)
IndexOf(octet) == (octet - DHCPS_BASE_IP) % 256

(* The offered address is one above the one the lease stands for.          *)
AddressOfFault(i) == DHCPS_BASE_IP + i + 1

AddressOf(i) == DHCPS_BASE_IP + i

NoReply == [type |-> "NONE", mac |-> NoMac, yiaddr |-> 0]

(* i is the least element of the set S of indices, or the end if S = {}.   *)
IsFirst(i, S) ==
    \/ S = {} /\ i = DHCPS_MAX_IP
    \/ i \in S /\ \A j \in S : i <= j

-----------------------------------------------------------------------------
(* static storage: everything is zero before dhcp_server_init              *)
Init ==
    /\ lease = [i \in Index |-> [mac |-> NoMac, expiry |-> 0]]
    /\ udp = "null"
    /\ reply = NoReply
    /\ now = 0
    /\ acked = [i \in Index |-> 0]
    /\ bindings = {}

(* The leases are zeroed first; udp_new may fail, and the result of        *)
(* udp_bind is not looked at.  The stations lost the access point when it  *)
(* was last taken down, so no address they held is in use any more.        *)
dhcp_server_init ==
    /\ udp = "null"
    /\ lease' = [i \in Index |-> [mac |-> NoMac, expiry |-> 0]]
    /\ udp' \in {"null", "unbound", "bound"}
    /\ reply' = NoReply
    /\ acked' = [i \in Index |-> 0]
    /\ bindings' = {}
    /\ UNCHANGED now

dhcp_server_deinit ==
    /\ udp # "null"
    /\ udp' = "null"
    /\ UNCHANGED <<lease, reply, now, acked, bindings>>

(* dhcp_socket_sendto gives up without a trace when no pbuf is left, and   *)
(* the broadcast may be lost: `sent' says whether it reached the station.  *)
Send(sent, type, mac, i) ==
    reply' = IF sent THEN [type |-> type, mac |-> mac, yiaddr |-> AddressOf(i)]
                     ELSE NoReply

(* DHCPDISCOVER.  One pass over the leases: up to the first lease that     *)
(* already belongs to the station, the first free or expired one is noted, *)
(* and an expired one is wiped on the spot, even if the station turns out  *)
(* to own a later lease.                                                   *)

(* The scan stops at the first free lease, before the station's own.       *)
OwnFault(c) ==
    {i \in Index : lease[i].mac = c /\ \A j \in Index : lease[j].mac # NoMac}

Own(c) == {i \in Index : lease[i].mac = c}

(* An expired lease is not taken for a usable one.                         *)
UsableFault(end) == {i \in Index : i < end /\ lease[i].mac = NoMac}
Usable(end) == {i \in Index : i < end /\ (lease[i].mac = NoMac \/ Expired(i))}

(* The MAC address of an expired lease is left in place.                   *)
WipeFault(i) == lease

Wipe(i) ==
    IF i \in Index /\ Expired(i) THEN [lease EXCEPT ![i].mac = NoMac] ELSE lease

Discover(c, sent) ==
    /\ udp = "bound"
    /\ \E own, free \in 0 .. DHCPS_MAX_IP :
        /\ IsFirst(own, Own(c))
        /\ IsFirst(free, Usable(own))
        /\ lease' = Wipe(free)
        /\ LET yi == IF own \in Index THEN own ELSE free
           IN  IF yi \in Index THEN Send(sent, "OFFER", c, yi)
                               ELSE reply' = NoReply   \* no address left
    /\ UNCHANGED <<udp, now, acked, bindings>>

(* DHCPREQUEST for an address with the given last octet; subnet says       *)
(* whether its first three octets are the server's own.  Where a server    *)
(* should send a DHCPNAK the code stays silent.                            *)

(* The MAC address stored for the requested address is not compared.       *)
GrantableFault(c, subnet, octet) ==
    /\ subnet
    /\ IndexOf(octet) \in Index

Grantable(c, subnet, octet) ==
    /\ subnet
    /\ IndexOf(octet) \in Index
    /\ lease[IndexOf(octet)].mac \in {c, NoMac}

Request(c, subnet, octet, sent) ==
    /\ udp = "bound"
    /\ IF Grantable(c, subnet, octet)
       THEN LET yi == IndexOf(octet)
            IN  /\ lease' = [lease EXCEPT ![yi] = [mac |-> c, expiry |-> ExpiryAt(now)]]
                /\ acked' = [acked EXCEPT ![yi] = now]
                /\ Send(sent, "ACK", c, yi)
                /\ bindings' =
                    IF sent
                    THEN {b \in bindings : b.mac # c \/ b.yi # yi}
                            \cup {[mac |-> c, yi |-> yi, until |-> now + LEASE]}
                    ELSE bindings
       ELSE reply' = NoReply /\ UNCHANGED <<lease, acked, bindings>>
    /\ UNCHANGED <<udp, now>>

(* Datagrams that are too short, carry no message type, ask for no address *)
(* or are of any other type (DECLINE, RELEASE, INFORM) are dropped.        *)
Ignored ==
    /\ udp = "bound"
    /\ reply' = NoReply
    /\ UNCHANGED <<lease, udp, now, acked, bindings>>

(* Time passes; a station stops using an address when its lease runs out.  *)
Tick ==
    /\ now < MaxTime
    /\ now' = now + 1
    /\ bindings' = {b \in bindings : now' <= b.until}
    /\ UNCHANGED <<lease, udp, reply, acked>>

dhcp_server_process ==
    \/ \E c \in Clients, sent \in BOOLEAN : Discover(c, sent)
    \/ \E c \in Clients, subnet, sent \in BOOLEAN, octet \in LastOctets :
            Request(c, subnet, octet, sent)
    \/ Ignored

Next ==
    \/ dhcp_server_init
    \/ dhcp_server_deinit
    \/ dhcp_server_process
    \/ Tick

Spec == Init /\ [][Next]_vars

-----------------------------------------------------------------------------
(* Properties.                                                             *)

Lease == [mac : Clients \cup {NoMac}, expiry : 0 .. WRAP - 1]
Binding == [mac : Clients, yi : Index, until : Nat]
Reply == [type : {"OFFER", "ACK"}, mac : Clients, yiaddr : Octet] \cup {NoReply}

(* Every variable has the shape the C structures give it: in particular a  *)
(* stored expiry fits its 16-bit field.                                    *)
TypeOK ==
    /\ lease \in [Index -> Lease]
    /\ udp \in {"null", "unbound", "bound"}
    /\ reply \in Reply
    /\ now \in Nat
    /\ acked \in [Index -> Nat]
    /\ bindings \subseteq Binding

(* No two stations ever use the same address at the same time, however     *)
(* requests are lost, repeated or reordered, whatever stations ask for and *)
(* wherever the 32-bit counter wraps.                                      *)
AddressExclusive ==
    \A b1, b2 \in bindings : b1.yi = b2.yi => b1.mac = b2.mac

(* Between two restarts dhcp_server_process takes an address away from a   *)
(* station, or gives it to another one, only after the full lease time has *)
(* passed since the last DHCPACK for it.                                   *)
LeaseHonoured ==
    [][udp # "null" =>
         \A i \in Index :
            lease[i].mac \in Clients /\ lease'[i].mac # lease[i].mac
                => now > acked[i] + LEASE]_vars

(* An offer is good for something: until the next datagram is handled, a   *)
(* DHCPREQUEST for the address just offered would be granted.              *)
OfferStands ==
    reply.type = "OFFER" => Grantable(reply.mac, TRUE, reply.yiaddr)

(* The true time at which a lease ends: its expiry is rounded up.          *)
LeaseEnd(i) == ((acked[i] + LEASE) \div GRANULE) * GRANULE + (GRANULE - 1)

(* A DHCPDISCOVER of c that finds no address.                              *)
Refused(c) == Own(c) = {} /\ Usable(DHCPS_MAX_IP) = {}

(* A station is turned away only while every address belongs to somebody   *)
(* whose lease has not ended, or ended so long ago (half a turn of the     *)
(* 32-bit counter) that the signed comparison takes the past for future.   *)
RefusedOnlyWhenFullOrWrapped ==
    \A c \in Clients : Refused(c) =>
        \A i \in Index :
            /\ lease[i].mac \in Clients
            /\ now <= LeaseEnd(i) \/ 2 * (now - LeaseEnd(i)) > TICKS

(* "No more IP addresses left" (dhcpserver.c:238): a station is turned     *)
(* away only while every address is really leased to somebody.             *)
RefusedOnlyWhenFull ==
    \A c \in Clients : Refused(c) =>
        \A i \in Index : lease[i].mac \in Clients /\ now <= LeaseEnd(i)

(* Inductive invariant behind the theorems of DhcpServerProofs: a station  *)
(* uses an address only while the server's lease for it says so and has    *)
(* at least as long to run.                                                *)
LeaseRecorded ==
    \A i \in Index :
        /\ acked[i] <= now
        /\ lease[i].mac \in Clients => lease[i].expiry = ExpiryAt(acked[i])

BindingBacked ==
    \A b \in bindings :
        /\ lease[b.yi].mac = b.mac
        /\ now <= b.until
        /\ b.until <= acked[b.yi] + LEASE

IInv == TypeOK /\ LeaseRecorded /\ BindingBacked /\ OfferStands

=============================================================================
