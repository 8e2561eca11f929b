---------------------------- MODULE MCMiddleware ----------------------------
EXTENDS Middleware, TLC

CONSTANTS p, a, b, r1, r2, r3

\* Two requests through the proxy p for different clients and one from a client
\* that names another in its header.
MCPeer == r1 :> p @@ r2 :> p @@ r3 :> a
MCForwarded == r1 :> a @@ r2 :> None @@ r3 :> b
=============================================================================
