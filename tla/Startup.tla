------------------------------ MODULE Startup ------------------------------
(***************************************************************************)
(* run() of cmd/authd/main.go up to the point where it serves, by several  *)
(* processes that start at once on one database, fail, crash and are       *)
(* started again.  Migrate uses golang-migrate: a session lock around the  *)
(* whole, and for each file the version is written as dirty, the file is   *)
(* executed as one transaction and the version is written as clean.        *)
(***************************************************************************)
EXTENDS Config

CONSTANTS
    Processes,
    Environments,   \* what a process may be started with
    Migrations,     \* the number of embedded migration files
    MaxFaults       \* bound: crashes, failing calls and timeouts

ASSUME StartupAssumption ==
    /\ Environments \subseteq Environment
    /\ Migrations \in Nat \ {0}
    /\ MaxFaults \in Nat
    /\ None \notin Processes \cup Constructors

VARIABLES
    env,        \* each process's environment
    tomlOk,     \* its SEP-1 file can be read and has the placeholder
    at,         \* where its run() is
    failure,    \* why run() returned, when it did
    version,    \* schema_migrations: the version
    dirty,      \* and whether it was being applied
    applied,    \* how often each file's statements were committed
    lock,       \* the process that holds the advisory lock
    faults      \* crashes, failing calls and timeouts so far

schema == <<version, dirty, applied>>
vars == <<env, tomlOk, at, failure, schema, lock, faults>>

InMigrate == {"lock", "up", "file", "clean"}
Failures == {"config", "database", "url", "lock timeout", "dirty", "migration",
             "crash"} \cup Constructors

TypeOK ==
    /\ \A p \in Processes : env[p] \in Environment
    /\ tomlOk \in [Processes -> BOOLEAN]
    /\ at \in [Processes -> {"load", "open", "construct", "serving", "down"}
                              \cup InMigrate]
    /\ failure \in [Processes -> Failures \cup {None}]
    /\ version \in 0..Migrations
    /\ dirty \in BOOLEAN
    /\ applied \in [1..Migrations -> Nat]
    /\ lock \in Processes \cup {None}
    /\ faults \in 0..MaxFaults

Init ==
    /\ env \in [Processes -> Environments]
    /\ tomlOk \in [Processes -> BOOLEAN]
    /\ at = [p \in Processes |-> "load"]
    /\ failure = [p \in Processes |-> None]
    /\ version = 0
    /\ dirty = FALSE
    /\ applied = [v \in 1..Migrations |-> 0]
    /\ lock = None
    /\ faults = 0

Go(p, from, to) == at[p] = from /\ at' = [at EXCEPT ![p] = to]

\* run() returns an error: its defers close the pool, the migrator's
\* connection is closed with its lock, and main exits with status 1.
Fail(p, why) ==
    /\ at' = [at EXCEPT ![p] = "down"]
    /\ failure' = [failure EXCEPT ![p] = why]
    /\ lock' = IF lock = p THEN None ELSE lock

Fault == faults < MaxFaults /\ faults' = faults + 1
-----------------------------------------------------------------------------
Load(p) ==
    /\ at[p] = "load"
    /\ IF LoadAccepts(env[p])
         THEN Go(p, "load", "open") /\ UNCHANGED <<failure, lock>>
         ELSE Fail(p, "config")
    /\ UNCHANGED <<env, tomlOk, schema, faults>>

\* pgxpool.New parses the connection string, in either form; Ping connects.
Open(p) ==
    /\ at[p] = "open"
    /\ IF env[p].database = Junk
         THEN Fail(p, "database")
         ELSE Go(p, "open", "lock") /\ UNCHANGED <<failure, lock>>
    /\ UNCHANGED <<env, tomlOk, schema, faults>>

\* migrationURL refuses what is not a URL of a scheme it knows.
MigrationURLFails(p) ==
    /\ at[p] = "lock" /\ env[p].database # "url"
    /\ Fail(p, "url")
    /\ UNCHANGED <<env, tomlOk, schema, faults>>

Lock(p) ==
    /\ env[p].database = "url"
    /\ lock = None
    /\ Go(p, "lock", "up")
    /\ lock' = p
    /\ UNCHANGED <<env, tomlOk, failure, schema, faults>>

\* The holder took longer than the 15 s a waiter has.
LockTimeout(p) ==
    /\ at[p] = "lock" /\ env[p].database = "url"
    /\ lock # None
    /\ Fail(p, "lock timeout")
    /\ Fault
    /\ UNCHANGED <<env, tomlOk, schema>>

\* A faulty Migrate that takes every error of Up for ErrNoChange.
UpRefused_ignored(p) ==
    /\ dirty
    /\ Go(p, "up", "construct")
    /\ lock' = None
    /\ UNCHANGED <<env, tomlOk, failure, schema, faults>>

\* Up refuses a version that was left dirty.
UpRefused(p) ==
    /\ at[p] = "up" /\ dirty
    /\ Fail(p, "dirty")
    /\ UNCHANGED <<env, tomlOk, schema, faults>>

\* A file is begun although the last one was the last.
BeginFile_unbounded(p) ==
    /\ ~dirty
    /\ Go(p, "up", "file")
    /\ version' = version + 1 /\ dirty' = TRUE
    /\ UNCHANGED <<env, tomlOk, failure, applied, lock, faults>>

BeginFile(p) ==
    /\ ~dirty /\ version < Migrations
    /\ Go(p, "up", "file")
    /\ version' = version + 1 /\ dirty' = TRUE
    /\ UNCHANGED <<env, tomlOk, failure, applied, lock, faults>>

RunFile(p) ==
    /\ Go(p, "file", "clean")
    /\ applied' = [applied EXCEPT ![version] = @ + 1]
    /\ UNCHANGED <<env, tomlOk, failure, version, dirty, lock, faults>>

CleanFile(p) ==
    /\ Go(p, "clean", "up")
    /\ dirty' = FALSE
    /\ UNCHANGED <<env, tomlOk, failure, version, applied, lock, faults>>

\* A faulty Migrate that returns ErrNoChange as a failure of every start but
\* the one that comes first.
UpDone_no_change_fails(p) ==
    /\ at[p] = "up" /\ ~dirty /\ version = Migrations
    /\ IF \E q \in Processes \ {p} : at[q] \in {"construct", "serving"}
         THEN Fail(p, "migration")
         ELSE Go(p, "up", "construct") /\ lock' = None /\ UNCHANGED failure
    /\ UNCHANGED <<env, tomlOk, schema, faults>>

\* Nothing is left to apply, which is no error; m.Close gives the lock up.
UpDone(p) ==
    /\ ~dirty /\ version = Migrations
    /\ Go(p, "up", "construct")
    /\ lock' = None
    /\ UNCHANGED <<env, tomlOk, failure, schema, faults>>

\* The SEP-1 file cannot be read or lacks the placeholder.
loadTOMLFails(p) == ~tomlOk[p]

\* The constructors in turn; the first that refuses ends the start.
Construct(p) ==
    /\ at[p] = "construct"
    /\ LET refusing == Refusing(Loaded(env[p]), loadTOMLFails(p))
       IN IF refusing = "none"
            THEN Go(p, "construct", "serving") /\ UNCHANGED <<failure, lock>>
            ELSE Fail(p, refusing)
    /\ UNCHANGED <<env, tomlOk, schema, faults>>

\* The database does not answer; in a file, its transaction is rolled back.
CallFails(p) ==
    /\ at[p] \in {"open"} \cup InMigrate
    /\ Fail(p, IF at[p] = "open" THEN "database" ELSE "migration")
    /\ Fault
    /\ UNCHANGED <<env, tomlOk, schema>>

Crash(p) ==
    /\ at[p] # "down"
    /\ Fail(p, "crash")
    /\ Fault
    /\ UNCHANGED <<env, tomlOk, schema>>

\* The supervisor starts it again.
Restart(p) ==
    /\ Go(p, "down", "load")
    /\ failure' = [failure EXCEPT ![p] = None]
    /\ UNCHANGED <<env, tomlOk, schema, lock, faults>>

Step(p) ==
    \/ Load(p) \/ Open(p)
    \/ MigrationURLFails(p) \/ Lock(p)
    \/ UpRefused(p) \/ BeginFile(p) \/ RunFile(p) \/ CleanFile(p) \/ UpDone(p)
    \/ Construct(p) \/ Restart(p)

\* Every process serves: what comes next is in Lifecycle.
AllServing == (\A p \in Processes : at[p] = "serving") /\ UNCHANGED vars

Next ==
    \/ \E p \in Processes : Step(p) \/ LockTimeout(p) \/ CallFails(p) \/ Crash(p)
    \/ AllServing

Spec == Init /\ [][Next]_vars

\* A start goes on, the database grants its lock to waiters in turn, and the
\* supervisor does not give up.
Fairness == \A p \in Processes : WF_vars(Step(p)) /\ SF_vars(Lock(p))

FairSpec == Spec /\ Fairness
-----------------------------------------------------------------------------
\* No process serves on a schema that is not the one its statements need:
\* however many start at once, crash in the middle of a file and start again,
\* every file was committed, once, before any process serves.
ServesOnCurrentSchema ==
    (\E p \in Processes : at[p] = "serving") =>
        \A v \in 1..Migrations : applied[v] = 1

\* The constructors check for themselves, and after the schema has been migrated;
\* what Load lets through, only NewRouter may still refuse, and only because the
\* SEP-1 file, whose path alone Load looks at, is missing or has no placeholder.
\* No value of the environment passes Load and stops a constructor.
LoadIsEnough ==
    \A p \in Processes :
        failure[p] \in Constructors =>
            failure[p] = "NewRouter" /\ loadTOMLFails(p)

\* A process with a good environment comes up in the end, whoever else migrates
\* at the same time and whatever failed before, unless a version was left dirty
\* for an operator to repair.
ComesUp ==
    \A p \in Processes :
        tomlOk[p] /\ LoadAccepts(env[p]) /\ env[p].database = "url"
          => <>[](at[p] = "serving" \/ dirty)
=============================================================================
