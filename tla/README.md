# Anchorage: a TLA+ model of the SEP-10 server

Anchorage authenticates Stellar accounts by SEP-10. `GET /auth` returns a
transaction signed by the server, a *challenge*; the client signs it too and
sends it back with `POST /auth`; the server checks it once and answers with a
JWT. This directory models that exchange and the life of the process around it,
checks both with TLC on small instances and proves with TLAPS, for every
instance, all of the safety properties the runs check.

## The system

| Part | State | Operations | Hard to test |
|---|---|---|---|
| Issuer, `internal/auth/challenge.go` | none | `Issue` | order of refusals, seconds against instants |
| Reader, `internal/auth/read.go` | none | `ReadChallenge` | operations in any number and order |
| Signatures, `internal/auth/verify.go`, `signatures.go` | none | `VerifyClient`, `verifySigners`, `matchSigners` | keys that play two roles at once, hints that collide |
| Handlers, `internal/httpapi/auth_handler.go` | locals of a request | `getAuthHandler`, `postAuthHandler` | interleaving, failure or crash between two calls |
| Store, `internal/store` | tables `challenges`, `sessions` | insert, consume, classify, session, delete | two statements with others in between; effect without an answer |
| Cleanup, `CleanupExpiredChallenges` | the time it captured | tick, delete | runs against consumption, must retry |
| Account lookup, `internal/account` | none | `Account` | 404 against outage; signers change meanwhile |
| Client domain resolver, `internal/clientdomain` | cache | `Resolve` | fetches that race, staleness, the cap |
| Rate limiter, `internal/httpapi/middleware.go` | buckets | `allow`, `sweep` | times out of order, swept buckets |
| Middleware and routes, `internal/httpapi` | none | the chain of `NewRouter`, `/health`, `stellar.toml` | panics, what the limiter keys on |
| Tokens, `internal/token` | none | `Issue`, `Parse` | times cut to seconds |
| Configuration, `internal/config` | the environment | `Load` | checks made twice, in different places |
| Migrations, `Migrate` | schema version, dirty mark, advisory lock | lock, apply, unlock | processes that start together, a crash in a file |
| Process, `cmd/authd` | server, pool, signal context | start, serve, drain, exit | crash, deadline, waits on the pool |

A `GET` calls the resolver and then inserts one row. A `POST` reads the
envelope, consumes the row in one `UPDATE`, looks the account up at Horizon,
judges the signatures, signs a token and inserts a session. The process keeps
nothing between requests but the resolver's cache and the limiter's buckets;
all that makes a challenge one-time is in the two tables, shared with the
cleanup goroutine and, with several instances, with other processes. Handlers
and cleanup take connections from one pool, which `run()` closes last. The
`hazards` of `PROJECT.json` list what can go wrong, line by line.

What makes the parts correct:

- exchange: a challenge is judged once, a token follows only from signatures
  that authorise it and is on record, a refusal is true, every row goes in the
  end;
- reader: accepts exactly the well-formed challenges and reads back what was
  signed;
- resolver: returns no key that is too old, stays within its cap;
- limiter: one burst and what was earned since, over every window, for each
  client by itself;
- process: serves only on a complete schema, and nothing of the configuration
  but the SEP-1 file is refused after the schema was migrated; a clean stop cuts no request off, and every signal ends in an exit.

## Modules

| Module | Models |
|---|---|
| `Sep10` | identities, transactions, rows, claims, and time |
| `ChallengeIssuer` | `challenge.go`: refusals in order, the signed transaction |
| `ChallengeReader` | `read.go` on a transaction this server signed, in one step |
| `ReadChallenge` | `read.go` on any envelope, operation by operation |
| `SignerPolicy` | `verify.go`, `signatures.go` |
| `ChallengeStore` | `postgres.go`: one operator per SQL statement |
| `SignatureLoop` | `verifySigners` and `matchSigners` loop by loop |
| `AuthServer` | composes these: both handlers and cleanup in several processes, clocks, ledger, crashes |
| `OneTimeAuth` | abstract specification: issue, spend once, grant |
| `RateLimiter` | `middleware.go`: `allow`, `sweep` |
| `Resolver` | `resolver.go`: `Resolve`, `cached`, `store`, `fetch` |
| `Middleware` | `router.go`, `middleware.go`: the chain around the handlers |
| `Lifecycle` | `main.go` from serving to the exit, with handlers, cleanup and pool |
| `Config` | `config.go`, and the checks of the constructors |
| `Startup` | `main.go` up to serving, on `Config`; `Open`, `Migrate` |
| `AuthServerProofs`, `ReadChallengeProofs`, `SignatureLoopProofs`, `ResolverProofs`, `RateLimiterProofs`, `MiddlewareProofs`, `LifecycleProofs`, `StartupProofs` | theorems |
| `MC...` | instances for TLC |

Definitions whose name ends in `_something` next to the definition of the plain
name are faults: the same code with a plausible bug in it. `PROJECT.json` says
which property each of them breaks.

### AuthServer

A request is one run of a handler, and `pc` says which call it waits for:

```
GET   idle --GetIssue--> record --RecordOk/RecordFails--> done
POST  idle --PostRead--> stamp --Stamp--> update --ConsumeWins--> lookup --Lookup--> session --SessionOk--> done
                                               \--ConsumeMisses--> classify --Classify--> done
```

Every other way out answers with an error. A call that fails may have taken
effect before it failed (`RecordFails`, `ConsumeErrs`, `SessionErrs`); this also
stands for a client that disconnects, since the handlers pass the request's
context to the database. `Fault` is a 500 at any point: a panic caught by
`recoverPanic`, or a failure to hash or sign. `Crash` loses the requests in
flight and the running sweep and keeps the tables. `LedgerClose` changes the
accounts' signers between any two steps.

Requests are spread over `Processes` by `Host`. Each process has a cleanup of
its own, crashes by itself, and reads a clock that is `Skew` ahead of the
slowest. `ClusterAssumption` bounds the skew by the reader's grace: beyond it a
process takes another's fresh challenge to be from the future and refuses it as
expired, which no property could then call true. `Over` says that a challenge
has ended by the clock of some process; between processes nothing stronger is
true of a refusal.

`ParseAccepts` is `Parse` for a token this server signed, where only the expiry
can fail.

What is abstracted: a key stands for its address and for the signatures it
makes, a nonce for its transaction and its `jti`. The server signs one
transaction per nonce, so a client can only change the signatures on it; any
other envelope ends in `PostReject`, and the `reader` run shows why. Time is in
half seconds, the coarsest unit in which full-precision comparisons (the store)
and Unix seconds (the reader, the token) differ. `token` holds the claims; `won`,
`ver` and `judged` are history: whose `UPDATE` took effect, the ledger at that
time, and whose signatures were compared with the account's, which stays on
record when the session is then not written or the process dies.
The resolver is any answer the domain may have published. Sums of weights do not
overflow: Stellar allows 20 signers of weight at most 255.

### RateLimiter and Resolver

Tokens are counted in the ticks it takes to earn them, so they are exact
integers where the code has `float64`. The limiter's `from` and `spent` are
history: a moment chosen at the start, and what each address was granted from
then on. `MaxDelay` and, in the resolver, `LockDelay` bound the wait for a
mutex; some bound is needed, because a call that waits longer than an idle
bucket lives could use up a bucket made anew.

A signing key in the resolver is who served it and when. A domain may change its
key at any moment, so nothing else is needed to say how old an answer is.

### SignatureLoop

One action per turn of a loop: a candidate is added, a signature is taken or
skipped, a candidate is done. A signature is its hint and the key it verifies
under, so hints may collide, lie, or belong to nobody. The list of candidates,
`used` and `matched` are the code's own; `Judgement` is what follows the loops.
`AuthServer` uses `SignerPolicy`, which states the outcome without loops, and
this module is what licenses that.

### Middleware

A request walks into the chain, is answered or panics, and walks or unwinds back
out. `depth` is the middleware it is in. Only code after `next.ServeHTTP` runs on
the way out, and only deferred code runs while unwinding; that is all the
difference between `Leave` and `Unwind`. `trust` is `TrustProxyHeaders`. Buckets
are those of `RateLimiter` within one instant. Handlers write last and do not
panic after writing, which is true of all four.

### Lifecycle

`run()` serves, drains, closes the pool and exits. A handler is a list of calls,
`db` or `net`; a `db` call takes a connection (`wait`, `query`), and any call may
end the handler early (`Respond`). `db.Close` marks the pool closed and then
waits until every connection is back; a waiter then finds the pool closed
(`refused`), and a handler still at work when the process exits is `cut`. The
cleanup runs under the signal context and ends with it. pgxpool and `net/http`
are modelled from how `main.go` uses them.

### Config and Startup

A variable of the environment is unset, unparsable, or what it parses to;
durations are in half seconds. `LoadAccepts` is the checks of `Load`,
`...Refuses` those each constructor makes again, and for `NewRouter` the loading
of the SEP-1 file, of which `Load` has seen only the path. `Startup` runs them with what
lies between: opening the pool, `migrationURL`, and golang-migrate's procedure
(external): an advisory lock, for each file a dirty mark, the file as one
transaction and a clean mark, and a refusal when the mark was left behind. A
process that fails or crashes loses its lock and is started again.

## Runs

| Run | Checks | Instance |
|---|---|---|
| `race` | one verdict per challenge, tokens on record, spending inside the bounds, truthful refusals, no revival, implements `OneTimeAuth` | 3 requests on 2 processes half a second apart, 1 nonce |
| `policy` | types, tokens only for authorising signatures, final refusals, every row is swept | fair, 1 process, 2 requests, 9 queries, 10 signature lists, a ledger that changes |
| `reader` | the reader accepts exactly the rules, reads back what was signed | about 3800 envelopes at 5 times |
| `limiter` | window bound, refusal only after a burst | 5 calls, 2 addresses, burst of 2 |
| `resolver` | recent answers, cap, live entries kept | 4 calls, 4 domains, 3 of them allowed, cap of 2 |
| `signatures` | the loops match the signed and decide the policy | 4 keys, 3 with one hint, 9 signer lists, up to 3 of 6 signatures |
| `middleware` | types, a limit for each client, one answer | 3 requests, 3 addresses, burst of 1, headers trusted or not |
| `lifecycle` | clean stop, a signal stops, handlers end | fair, 2 requests and the cleanup on 1 connection |
| `startup` | types, no constructor but `NewRouter` over its SEP-1 file refuses what `Load` accepts, current schema, comes up | fair, 2 processes, 8 environments, 2 files, 2 faults |

Why the bounds are enough. A challenge is issued, presented and presented again:
with three requests one issues and two race, or one fails and the next retries,
so `OneTimeAuth` is checked there: both of its requests may try to spend. The two
processes are half a second apart, so challenges are issued early and late in a
second although only the first instant is left to issue them in.
The clock runs past the end of every challenge (`GetIssue` is guarded so that
it does), far enough for the sweep. The two ledgers differ in exactly the
signers the test signatures use; in the first the account has the wallet's and
the server's key and a hash signer among its signers. The limiter's clock is
long enough to use up a burst, stay idle until the bucket is swept, and come
back; the resolver's, for an entry to expire and a key of its age to be too old.
Two cache entries for three allowed domains are the least with which a full cache
turns a key away and a slow fetch, while there is room, overwrites the live entry
of a quicker one: `store` gives up on a full cache even when the domain is in it.
The reader's operation lists have up to three further operations, and the loop
keeps two flags. `race`, `limiter` and `resolver` treat requests or
calls as interchangeable; the code never compares them.

One connection is the pool in which every wait on another shows. The
environments of `startup` are a good one, the shortest durations that pass,
values that just do not, and a connection string only the migrations refuse; for
all environments `LoadIsEnough` is proved. Two faults are a crash in the middle of
a file, which leaves its version dirty, and one more while another process waits
for the lock or runs into the dirty mark; nobody clears the mark, which is an
operator's work. The schema has the two files the repository has. With a burst of
1 the second request of a client is refused; the three requests are a client behind a
proxy, the proxy itself, and a client that names another in its header. Three
signatures are the server's, a signer's and one that collides or repeats.

Deadlock is checked where the clock and the sweep go on for ever, and where the
end is an action of its own (`Gone`, `Done`, `Idle`, `AllServing`); it is not
where the model's calls are all used up (`reader`, `limiter`, `resolver`).

Fairness. In `policy`: time passes and the ticker fires. A sweep that
is retried for ever does not fail every time (strong fairness of `SweepDelete`);
the code retries at every tick, and rows would indeed stay if every `DELETE`
failed. Nothing is assumed of clients, of requests in flight, of the ledger or of
crashes. In `lifecycle`: calls out of the process return, well or badly: the
Horizon client has a timeout, but the database calls have none, so for them this
is an assumption about Postgres; a connection sends its header or
`ReadHeaderTimeout` ends it, goroutines are scheduled, and pgxpool serves its
waiters in turn (strong fairness of `Acquire`; its semaphore is first in, first
out). In `startup`: a start goes on, Postgres grants the advisory lock to its
waiters in turn (strong fairness of `Lock`), and the supervisor restarts what
went down; that a holder keeps the lock beyond a waiter's 15 s counts as a fault,
of which there are finitely many.

### Where the repository's words and the code differ

| Words | Code | Shown by |
|---|---|---|
| `postgres.go`: "matching internal/auth/read.go" | the reader's last second is longer than the store's | `store_vs_reader` |
| the plan: "a panic is still logged as a completed request" | the panic unwinds past `requestLogger` | `panic_unlogged` |
| `main.go`: "bounds the wait for in-flight requests" | `db.Close` waits for their statements after it | `wait_unbounded` |
| `errors.go`: "the nonce was never issued by this server" | also issued, expired and swept | `Classify` after `SweepDelete` |
| `docs/architecture.md`: `expires_at > $2` | `expires_at >= $2` | `Consumable` |
| `docs/endpoints.md`: `ErrAccountLookupFailed` is `401` | 503; 401 would break `RefusalsAreFinal` | `StatusOf`, and its mutant |
| `jwt.go`: "how long an issued token is valid" | up to a second less; with a lifetime below a second, maybe never | `ParseAccepts` |
| `config.go`: "validates all of it" | the form of the connection string is not looked at | `Open` in `Startup` |
| `config.go`: "Nothing starts against unvalidated config" | the SEP-1 file is looked at by `NewRouter`, after the pool was opened and the schema migrated; the process then stops, as `TestNewRouterFailsOnMissingTOML` and `TestNewRouterFailsWithoutPlaceholder` want it | `LoadIsEnough` names the exception |
| `read.go`: "otherwise identical to the SDK's reader" | a second `web_auth_domain` or `client_domain` operation is refused, as `docs/security.md` says | `OpFault`, and its mutant |

The first three are runs whose violation is expected; the others can be read off
the definitions. None of them breaks a property above.
The proof also shows that the default branch of `classifyFailure` is not reached
for a challenge a client holds: when the `UPDATE` found nothing, the row stays
missing, consumed or expired (`GoneInv`).

## Proofs

All from the assumptions on the constants that stand beside their declarations
(a positive timeout and lifetime, a server key, `None` outside every other set,
`Capacity + MaxDelay <= IdleTTL`, clocks no further apart than the reader's
grace); no bound on requests, processes, nonces, accounts, calls or domains.

`AuthServerProofs`: types, `OneVerdictPerChallenge`, `TokenIsOnRecord`,
`SpentInWindow`, `TokenIsAuthorised`, `RefusalsAreTruthful`, `RefusalsAreFinal`,
`NeverRevived` and `ImplementsOneTimeAuth`. None is inductive alone.
The inductive invariant `IInv` adds

- `RecordingInv`: a challenge being recorded is nobody else's and is not held,
  so an insert never meets a row, or revives one;
- `RowInv`: the row agrees with the signed transaction, expiry included;
- `SpenderInv`, `OneSpenderInv`: whoever got past the `UPDATE` marked the row,
  and a marked row has one such request; all that follows is that request's;
- `HomeInv`: the home domain kept from the row is the signed one;
- `TimeInv`: captured times have been by the fastest clock, and lie after the
  challenge was made, give or take the grace;
- `GoneInv`: a held challenge without a row is over, and what made the `UPDATE`
  miss is still so when the row is classified.

Each part has a lemma with one step per action. `OneVerdictPerChallenge` adds
`JudgedInv`, that whoever was ever judged is the spender, and `RefusalsAreFinal` adds `FinalInv`,
what the spender of a challenge may be told, inductive relative to `IInv`.

`TokenIsAuthorised` rests on two things. `AcceptedIsAuthorised` is about
`VerifyClient` alone: the number of matched signers equals the number of
signatures, a list has at least as many signatures as signers, so nobody signed
who was not matched and nobody signed twice; and the signers whose weights are
summed are the account's own without the client domain's key. The sum itself is
the same term on both sides (`TotalWeight`), so nothing about sums is needed.
`AuthorisedInv`, inductive relative to `IInv`, then carries the judgement from
`Lookup` to the token: once a challenge is spent, its transaction, its signatures
and the ledger noted at the `UPDATE` do not change, and the ledger only goes
forward.

For the refinement `Spec => ImplementsOneTimeAuth` the spender is the request
whose `UPDATE` took effect; issuing, spending and granting are single steps of
the code, every other step is invisible.

`ReadChallengeProofs`: `AcceptsExactlyTheRules`, `ReadsWhatWasSigned`. The header's
early returns and the loop body's are each shown to be one condition
(`HeaderErrorIs`, `OpFaultIs`). The loop invariant `ReadSoFar` says that the
operations read so far pass what is asked of one operation, that each flag is up
exactly if its name was among them, and that it was there at most once; a second
one is then what makes the envelope unacceptable. For the server's own challenges
`AsSigned` adds what has been read back by the time an operation is reached: the
client domain is in the third operation or nowhere. This is what licenses
`AuthServer` to use `ReadError` for the whole function.

`RateLimiterProofs`: `WindowBound`, `RefusedOnlyAfterBurst`. `BucketInv` balances what was spent and what
is left against what was earned; `SweptInv` takes over when the bucket, and the
balance with it, is deleted, and needs `IdleTTL` to cover a full refill and the
longest wait. The other bound is `PaidInv`: a bucket starts full and only allowed
calls take from it, so what it lacks of its capacity they have paid for, and a
bucket that cannot pay for one more call has paid for a burst.

`ResolverProofs`: `AnswerIsRecent`, `CacheIsBounded`, `LiveEntryKept`. The
invariant follows a key from the fetch into the cache; the cap needs the set of
cached domains to be finite, which is part of it.

`SignatureLoopProofs`: `MatchesTheSigned`, `VerdictIsThePolicy`. The invariant
says that the candidates are free of duplicates, that a used signature was taken
by the one candidate it fits, and that the candidates passed so far are matched
exactly if some signature fits them; a signature verifies under one key, so none
can be used up by another.

`MiddlewareProofs`: types, `LimitIsPerClient`, `OneAnswer`. `ChainIs` lays the
chain out with and without `RealIP`; after that a request's depth and direction
tell what was written for it, whose address it carries and whether its panic can
still be caught (`PlaceTells`), and what is gone from a client's bucket is the
number of its requests that were let through (`Accounted`).

`LifecycleProofs`: `CleanStop`. After a drain that ended well nobody is at work
and, the listener being closed, nobody comes.

`StartupProofs`: types, `ServesOnCurrentSchema`, `LoadIsEnough`. Whoever migrates holds
the lock (`LockHeld`), so version, dirty mark and committed files agree
(`AppliedUpTo`) and a process's place tells which of them it has done
(`PlaceTellsSchema`). For `LoadIsEnough`, whoever is past `Load` has an environment
it accepted, and a lemma about the checks (`LoadedIsAccepted`) leaves `NewRouter`
and its SEP-1 file as the only refusal.

Only model-checked: liveness under fairness (`RowsAreSwept`,
`SignalStops`, `HandlersEnd`, `ComesUp`), which the prover does not do, and with
it the absence of deadlock. What a sum of weights or a fold computes is not
proved either; the theorems use such a sum only as the term it is.

## Not modelled

Logging beyond whether a line is written. XDR, base64, ed25519, JWT signatures
and HTTP framing are taken to work; so are pgxpool, golang-migrate and `net/http`
as far as the models of them go. A token that this server did not sign is the
JWT library's affair. The body limit only makes a read fail, which `PostReject`
contains. Weights are summed without overflow. A client domain of more than 64
bytes ends in a 500 (`IssueError`); no text says what it should end in. Clocks
further apart than the reader's grace are outside `ClusterAssumption`, and clocks
that step back are not modelled.

## Plan

1. Done: the exchange over several processes, its abstract specification, reader,
   signature loops, limiter, resolver, middleware, start and stop of a process.
2. Done: every safety property of the runs, and the refinement, proved.
3. Left: what `OneTimeAuth` itself guarantees as theorems of the abstract
   specification, and the safety half of the liveness properties (what can keep a
   request, a row or a start from moving).
