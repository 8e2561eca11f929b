---------------------------- MODULE MCLifecycle ----------------------------
EXTENDS Lifecycle

\* GET /auth, POST /auth, the POST whose UPDATE matches no row, and the SEP-1
\* file; GET /health is a prefix of the third.
MCPlans == {<<"net", "db">>, <<"db", "net", "db">>, <<"db", "db">>, <<>>}
=============================================================================
