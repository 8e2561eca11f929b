SPECIFICATION Spec
CONSTANTS
    alice = alice
    bob = bob
    wallet = wallet
    hash = hash
    h1 = h1
    h2 = h2
    Server = server
    None = None
    Keys <- MCKeys
    Muxed = {}
    BaseOf <- MCBaseOf
    HomeDomains = {home}
    FirstDomain = home
    ClientDomains = {domain}
    Memos = {memo}
    Nonces = {n}
    HashSigners = {hash}
    Hints = {h1, h2}
    HintOf <- MCHintOf
    SignerLists <- MCSignerLists
    SignatureLists <- MCSignatureLists
INVARIANT MatchesTheSigned
INVARIANT VerdictIsThePolicy
