SPECIFICATION FairSpec
CONSTANTS
    c1 = c1
    c2 = c2
    c3 = c3
    a1 = a1
    a2 = a2
    i1 = i1
    i2 = i2
    Conns = {c1, c2, c3}
    Addresses = {a1, a2}
    Ips = {i1, i2}
    AddressOf <- MCAddressOf
    IpOf <- MCIpOf
    Broadcasts = {b1}
    All = All
    Free = Free
    NoOwner = NoOwner
    MAX_CONNECTIONS_GLOBAL = 2
    MAX_CONNECTIONS_PER_IP = 1
    MAX_SUBS_PER_ADDRESS = 1
    MAX_ADDRESSES_PER_CONN = 2
INVARIANTS
    CapsHold
    OnlyTheOwnerIsTold
    IInv
PROPERTIES
    FeedSurvivesTheDead
    SubscribersAreServed
    GoneClientsAreReleased
\* every client may be gone and every broadcast sent
CHECK_DEADLOCK FALSE
