SPECIFICATION Spec
CONSTANTS
    alice = alice
    bob = bob
    cosigner = cosigner
    wallet = wallet
    Server = Server
    m = m
    hash = hash
    d1 = d1
    long = long
    h1 = h1
    h2 = h2
    memo = memo
    None = None
    Garbage = Garbage
    Keys <- MCKeys
    Muxed = {m}
    BaseOf <- MCBaseOf
    HomeDomains = {h1, h2}
    FirstDomain = h1
    ClientDomains = {d1, long}
    LongDomains = {long}
    Memos = {memo}
    HashSigners = {hash}
    Published <- MCPublished
    Ledgers <- MCLedgers
    ClientDomainRequired = FALSE
    ChallengeTimeout = 2
    TokenLifetime = 3
    ClockGrace = 1
    slow = slow
    fast = fast
    Processes = {slow}
    OnSlow = {r1, r2}
    Host <- MCHost
    Skew <- MCSkew
    MaxSkew = 0
    Requests = {r1, r2}
    Nonces = {n1}
    Queries <- GoodQueries
    SigLists <- GoodSigs
    MaxClock = 4
INVARIANT StoreMatchesReader
