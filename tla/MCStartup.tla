----------------------------- MODULE MCStartup -----------------------------
EXTENDS Startup

Good ==
    [seed |-> "seed", passphrase |-> "text", horizon |-> "absolute",
     webAuthDomain |-> "text", homeDomains |-> {"a"}, challengeTimeout |-> None,
     jwtSecret |-> 32, jwtIssuer |-> "text", jwtLifetime |-> None,
     cdRequired |-> None, cdCacheTTL |-> None, database |-> "url",
     toml |-> "text", trustProxy |-> None]

\* A good environment, one the migrations refuse, and some at the edge of the
\* checks that Load and the constructors both make: the shortest values that
\* pass, and values that just do not.
AtTheEdges ==
    {Good,
     [Good EXCEPT !.database = "keywords"],
     [Good EXCEPT !.challengeTimeout = 2, !.jwtLifetime = 1, !.cdCacheTTL = 1],
     [Good EXCEPT !.challengeTimeout = 1],
     [Good EXCEPT !.jwtSecret = 31],
     [Good EXCEPT !.jwtLifetime = 0],
     [Good EXCEPT !.homeDomains = {}],
     [Good EXCEPT !.horizon = "relative"]}
=============================================================================
