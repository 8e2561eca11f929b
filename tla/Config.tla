------------------------------- MODULE Config -------------------------------
(***************************************************************************)
(* internal/config/config.go and the checks the constructors make again.   *)
(* A value of the environment is what the code tells apart: None when it   *)
(* is unset or blank, Junk when it does not parse, and otherwise what it   *)
(* parses to: a duration in half seconds, a secret's length, a list as a   *)
(* set.  A connection string is Junk, in keywords (host=... user=...), or  *)
(* a URL.                                                                  *)
(***************************************************************************)
EXTENDS Integers

CONSTANTS None, Junk

Second == 2
minJWTSecretLen == 32

\* required trims: blank is as good as unset.
Text == {None, "text"}

\* splitList drops empty entries: a value of commas alone is an empty list.
Lists == {None} \cup SUBSET {"a", "b"}

Durations == Int \cup {None, Junk}
Flags == BOOLEAN \cup {None, Junk}

Environment ==
    [seed : {None, Junk, "seed"}, passphrase : Text,
     horizon : {None, Junk, "relative", "absolute"}, webAuthDomain : Text,
     homeDomains : Lists, challengeTimeout : Durations,
     jwtSecret : Nat, jwtIssuer : Text, jwtLifetime : Durations,
     cdRequired : Flags, cdCacheTTL : Durations,
     database : {None, Junk, "keywords", "url"}, toml : Text,
     trustProxy : Flags]

\* duration and boolean fall back to their default when the variable is unset.
OrDefault(value, default) == IF value = None THEN default ELSE value

\* A bound checked by sign alone.
TooShort_sign(d) == d = Junk \/ (d # None /\ d <= 0)

\* SEP10_CHALLENGE_TIMEOUT is at least a second.
TooShort(d) == d = Junk \/ (d # None /\ d < Second)

NotPositive(d) == d = Junk \/ (d # None /\ d <= 0)

\* Load returns no error: its checks, in their order.
LoadAccepts(env) ==
    /\ env.seed \notin {None, Junk}
    /\ env.passphrase # None
    /\ env.horizon = "absolute"
    /\ env.webAuthDomain # None
    /\ env.homeDomains \notin {None, {}}
    /\ ~TooShort(env.challengeTimeout)
    /\ env.jwtSecret >= minJWTSecretLen
    /\ env.jwtIssuer # None
    /\ ~NotPositive(env.jwtLifetime)
    /\ env.cdRequired # Junk
    /\ ~NotPositive(env.cdCacheTTL)
    /\ env.database # None
    /\ env.toml # None
    /\ env.trustProxy # Junk

\* The Config that Load returns, where it differs from the environment.
Loaded(env) ==
    [env EXCEPT !.challengeTimeout = OrDefault(@, 300 * Second),
                !.jwtLifetime = OrDefault(@, 24 * 3600 * Second),
                !.cdRequired = OrDefault(@, FALSE),
                !.cdCacheTTL = OrDefault(@, 300 * Second),
                !.trustProxy = OrDefault(@, FALSE)]

\* What the constructors refuse, each for itself.
NewFetcherRefuses(cfg) == cfg.horizon # "absolute"

NewIssuerRefuses(cfg) ==
    cfg.seed = Junk \/ cfg.homeDomains = {} \/ cfg.challengeTimeout < Second

NewTokenIssuerRefuses(cfg) ==
    \/ cfg.jwtSecret < minJWTSecretLen
    \/ cfg.jwtIssuer = None
    \/ cfg.jwtLifetime <= 0

\* NewRouter also loads the SEP-1 file that cfg.toml names.
NewRouterRefuses(cfg, tomlFails) ==
    \/ None \in {cfg.webAuthDomain, cfg.passphrase, cfg.toml}
    \/ cfg.homeDomains = {}
    \/ tomlFails

Constructors == {"NewFetcher", "auth.NewIssuer", "token.NewIssuer", "NewRouter"}

\* The first that refuses, in the order run() calls them, or "none".
Refusing(cfg, tomlFails) ==
    IF NewFetcherRefuses(cfg) THEN "NewFetcher"
    ELSE IF NewIssuerRefuses(cfg) THEN "auth.NewIssuer"
    ELSE IF NewTokenIssuerRefuses(cfg) THEN "token.NewIssuer"
    ELSE IF NewRouterRefuses(cfg, tomlFails) THEN "NewRouter"
    ELSE "none"
=============================================================================
