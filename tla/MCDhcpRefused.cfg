SPECIFICATION Spec
CONSTANTS
    Clients = {c1, c2, c3}
    NoMac = NoMac
    DHCPS_MAX_IP = 2
    GRANULE = 2
    WRAP = 8
    LEASE = 3
    LastOctets <- MCOctets
    MaxTime = 18
INVARIANT RefusedOnlyWhenFull
