SPECIFICATION SSpec
CONSTANTS
    Clients = {c1, c2}
    NoMac = NoMac
    DHCPS_MAX_IP = 2
    GRANULE = 2
    WRAP = 6
    LEASE = 3
    LastOctets <- MCOctets
    MaxTime = 8
INVARIANTS
    OneLeasePerStation
    BoundStationsKnown
PROPERTIES
    EveryStationServed
