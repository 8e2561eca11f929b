SPECIFICATION Spec
CONSTANTS
    alice = alice
    wallet = wallet
    Server = Server
    m = m
    d1 = d1
    d2 = d2
    h1 = h1
    h2 = h2
    memo = memo
    n1 = n1
    n2 = n2
    None = None
    Garbage = Garbage
    WebAuthDomain = WebAuthDomain
    Keys <- MCKeys
    Muxed = {m}
    BaseOf <- MCBaseOf
    HomeDomains = {h1, h2}
    FirstDomain = h1
    ClientDomains = {d1, d2}
    LongDomains = {d2}
    Memos = {memo}
    Nonces = {n1, n2}
    ClientDomainRequired = FALSE
    ChallengeTimeout = 2
    ClockGrace = 1
    Envelopes <- MCEnvelopes
    Issuable <- MCIssuable
    Published <- MCPublished
    SigLists <- MCSigLists
    IssueTime = 5
    Times = {1, 2, 4, 7, 8}
INVARIANTS
    AcceptsExactlyTheRules
    ReadsWhatWasSigned
CHECK_DEADLOCK FALSE
