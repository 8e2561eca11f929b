SPECIFICATION Spec
CONSTANTS
    p = p
    a = a
    b = b
    r1 = r1
    r2 = r2
    r3 = r3
    None = None
    Requests = {r1, r2, r3}
    Addresses = {p, a, b}
    Peer <- MCPeer
    Forwarded <- MCForwarded
    Burst = 1
INVARIANTS
    TypeOK
    LimitIsPerClient
    OneAnswer
