--------------------------- MODULE StartupProofs ---------------------------
(***************************************************************************)
(* However many processes start, crash and start again, none serves on a   *)
(* schema that is not the current one.  The argument is the advisory lock: *)
(* whoever is between Lock and the end of Up holds it, so the version, its *)
(* dirty mark and the committed files move in step.                        *)
(***************************************************************************)
EXTENDS Startup, TLAPS

Migrating == {"up", "file", "clean"}

\* The parts of the state that the argument is about.
SchemaType ==
    /\ at \in [Processes -> {"load", "open", "construct", "serving", "down"}
                              \cup InMigrate]
    /\ version \in 0..Migrations
    /\ dirty \in BOOLEAN
    /\ applied \in [1..Migrations -> Nat]

\* The lock is with the process that migrates.
LockHeld == \A p \in Processes : at[p] \in Migrating <=> lock = p

\* Below the version every file was committed once, above it none; the file of
\* a dirty version may or may not have been.
AppliedUpTo ==
    /\ \A v \in 1..Migrations :
         /\ v < version => applied[v] = 1
         /\ v > version => applied[v] = 0
    /\ ~dirty /\ version > 0 => applied[version] = 1
    /\ dirty => version > 0

\* Where a process is says what the schema is.
PlaceTellsSchema ==
    \A p \in Processes :
        /\ at[p] = "file" => dirty /\ applied[version] = 0
        /\ at[p] = "clean" => dirty /\ applied[version] = 1
        /\ at[p] \in {"construct", "serving"} => ~dirty /\ version = Migrations

SchemaInv == SchemaType /\ LockHeld /\ AppliedUpTo /\ PlaceTellsSchema
-----------------------------------------------------------------------------
LEMMA InitSchema == Init => SchemaInv
<1> SUFFICES ASSUME Init PROVE SchemaInv
  OBVIOUS
<1>1. SchemaType
  <2>1. at = [p \in Processes |-> "load"]
    BY DEF Init
  <2>2. version = 0 /\ dirty = FALSE
    BY DEF Init
  <2>3. applied = [v \in 1..Migrations |-> 0]
    BY DEF Init
  <2>4. 0 \in 0..Migrations
    BY StartupAssumption
  <2> QED BY <2>1, <2>2, <2>3, <2>4 DEF SchemaType
<1>2. LockHeld
  BY StartupAssumption DEF Init, LockHeld, Migrating
<1>3. AppliedUpTo
  BY StartupAssumption DEF Init, AppliedUpTo
<1>4. PlaceTellsSchema
  BY DEF Init, PlaceTellsSchema
<1> QED BY <1>1, <1>2, <1>3, <1>4 DEF SchemaInv

\* A run() that returns takes its lock with it and leaves the schema alone.
LEMMA FailPreserves ==
    ASSUME SchemaInv, NEW p \in Processes, NEW why, Fail(p, why),
           UNCHANGED schema
    PROVE  SchemaInv'
<1>1. SchemaType'
  BY DEF SchemaInv, SchemaType, Fail, schema
<1>2. LockHeld'
  BY StartupAssumption DEF SchemaInv, SchemaType, LockHeld, Fail, Migrating
<1>3. AppliedUpTo'
  BY DEF SchemaInv, AppliedUpTo, schema
<1>4. PlaceTellsSchema'
  BY DEF SchemaInv, SchemaType, PlaceTellsSchema, Fail, schema
<1> QED BY <1>1, <1>2, <1>3, <1>4 DEF SchemaInv

\* So does a step outside Migrate that claims nothing new of the schema.
LEMMA MovePreserves ==
    ASSUME SchemaInv, NEW p \in Processes,
           NEW from \in {"load", "open", "construct", "down"},
           NEW to \in {"load", "open", "lock", "serving"},
           Go(p, from, to), to = "serving" => from = "construct",
           UNCHANGED <<schema, lock>>
    PROVE  SchemaInv'
<1>1. SchemaType'
  BY DEF SchemaInv, SchemaType, Go, schema, InMigrate
<1>2. LockHeld'
  BY DEF SchemaInv, SchemaType, LockHeld, Go, Migrating
<1>3. AppliedUpTo'
  BY DEF SchemaInv, AppliedUpTo, schema
<1>4. PlaceTellsSchema'
  BY DEF SchemaInv, SchemaType, PlaceTellsSchema, Go, schema
<1> QED BY <1>1, <1>2, <1>3, <1>4 DEF SchemaInv

LEMMA LockPreserves ==
    ASSUME SchemaInv, NEW p \in Processes, Lock(p)
    PROVE  SchemaInv'
BY StartupAssumption
   DEF SchemaInv, SchemaType, LockHeld, AppliedUpTo, PlaceTellsSchema, Lock, Go,
       Migrating, InMigrate, schema

LEMMA BeginFilePreserves ==
    ASSUME SchemaInv, NEW p \in Processes, BeginFile(p)
    PROVE  SchemaInv'
<1>1. SchemaType'
  BY StartupAssumption DEF SchemaInv, SchemaType, BeginFile, Go, InMigrate
<1>2. LockHeld'
  BY DEF SchemaInv, SchemaType, LockHeld, BeginFile, Go, Migrating
<1>3. AppliedUpTo'
  BY StartupAssumption DEF SchemaInv, SchemaType, AppliedUpTo, BeginFile
<1>4. PlaceTellsSchema'
  BY StartupAssumption
     DEF SchemaInv, SchemaType, LockHeld, AppliedUpTo, PlaceTellsSchema,
         BeginFile, Go, Migrating
<1> QED BY <1>1, <1>2, <1>3, <1>4 DEF SchemaInv

LEMMA RunFilePreserves ==
    ASSUME SchemaInv, NEW p \in Processes, RunFile(p)
    PROVE  SchemaInv'
<1>0. dirty /\ version \in 1..Migrations /\ applied[version] = 0
  BY StartupAssumption
     DEF SchemaInv, SchemaType, AppliedUpTo, PlaceTellsSchema, RunFile, Go
<1>1. SchemaType'
  BY <1>0, StartupAssumption DEF SchemaInv, SchemaType, RunFile, Go, InMigrate
<1>2. LockHeld'
  BY DEF SchemaInv, SchemaType, LockHeld, RunFile, Go, Migrating
<1>3. AppliedUpTo'
  BY <1>0 DEF SchemaInv, SchemaType, AppliedUpTo, RunFile
<1>4. PlaceTellsSchema'
  BY <1>0, StartupAssumption
     DEF SchemaInv, SchemaType, LockHeld, PlaceTellsSchema, RunFile, Go,
         Migrating
<1> QED BY <1>1, <1>2, <1>3, <1>4 DEF SchemaInv

LEMMA CleanFilePreserves ==
    ASSUME SchemaInv, NEW p \in Processes, CleanFile(p)
    PROVE  SchemaInv'
<1>0. dirty /\ applied[version] = 1
  BY DEF SchemaInv, PlaceTellsSchema, CleanFile, Go
<1>1. SchemaType'
  BY DEF SchemaInv, SchemaType, CleanFile, Go, InMigrate
<1>2. LockHeld'
  BY DEF SchemaInv, SchemaType, LockHeld, CleanFile, Go, Migrating
<1>3. AppliedUpTo'
  BY <1>0 DEF SchemaInv, AppliedUpTo, CleanFile
<1>4. PlaceTellsSchema'
  BY <1>0, StartupAssumption
     DEF SchemaInv, SchemaType, LockHeld, PlaceTellsSchema, CleanFile, Go,
         Migrating
<1> QED BY <1>1, <1>2, <1>3, <1>4 DEF SchemaInv

LEMMA UpDonePreserves ==
    ASSUME SchemaInv, NEW p \in Processes, UpDone(p)
    PROVE  SchemaInv'
BY StartupAssumption
   DEF SchemaInv, SchemaType, LockHeld, AppliedUpTo, PlaceTellsSchema, UpDone,
       Go, Migrating, InMigrate, schema

LEMMA NextSchema == SchemaInv /\ [Next]_vars => SchemaInv'
<1> SUFFICES ASSUME SchemaInv, [Next]_vars PROVE SchemaInv'
  OBVIOUS
<1>1. CASE AllServing \/ UNCHANGED vars
  <2>1. /\ at' = at /\ lock' = lock
        /\ version' = version /\ dirty' = dirty /\ applied' = applied
    BY <1>1 DEF AllServing, vars, schema
  <2>2. LockHeld' /\ AppliedUpTo' /\ PlaceTellsSchema'
    BY <2>1 DEF SchemaInv, LockHeld, AppliedUpTo, PlaceTellsSchema
  <2> QED BY <2>1, <2>2 DEF SchemaInv, SchemaType
<1>2. ASSUME NEW p \in Processes,
             Step(p) \/ LockTimeout(p) \/ CallFails(p) \/ Crash(p)
      PROVE  SchemaInv'
  <2>1. CASE Load(p) \/ Open(p) \/ Construct(p)
    BY <2>1, FailPreserves, MovePreserves DEF Load, Open, Construct
  <2>2. CASE \/ MigrationURLFails(p) \/ LockTimeout(p) \/ UpRefused(p)
             \/ CallFails(p) \/ Crash(p)
    BY <2>2, FailPreserves
       DEF MigrationURLFails, LockTimeout, UpRefused, CallFails, Crash
  <2>3. CASE Restart(p)
    BY <2>3, MovePreserves DEF Restart
  <2>4. CASE Lock(p) \/ BeginFile(p) \/ RunFile(p) \/ CleanFile(p) \/ UpDone(p)
    BY <2>4, LockPreserves, BeginFilePreserves, RunFilePreserves,
       CleanFilePreserves, UpDonePreserves
  <2> QED BY <1>2, <2>1, <2>2, <2>3, <2>4 DEF Step
<1> QED BY <1>1, <1>2 DEF Next

LEMMA SchemaInvHolds == Spec => []SchemaInv
BY InitSchema, NextSchema, PTL DEF Spec

LEMMA SchemaIsEnough == SchemaInv => ServesOnCurrentSchema
BY StartupAssumption
   DEF SchemaInv, SchemaType, AppliedUpTo, PlaceTellsSchema,
       ServesOnCurrentSchema

\* For any number of processes, files and faults: a process that serves (main.go
\* past Migrate and the constructors) does so on a schema to which every embedded
\* migration was applied exactly once.
THEOREM ServesOnCurrentSchemaHolds == Spec => []ServesOnCurrentSchema
BY SchemaInvHolds, SchemaIsEnough, PTL
-----------------------------------------------------------------------------
\* What Load lets through no constructor refuses, unless it is NewRouter that
\* cannot load the SEP-1 file.
LEMMA LoadedIsAccepted ==
    ASSUME NEW e \in Environment, LoadAccepts(e), NEW tomlFails \in BOOLEAN
    PROVE  Refusing(Loaded(e), tomlFails)
             = IF tomlFails THEN "NewRouter" ELSE "none"
<1>1. /\ Loaded(e).horizon = e.horizon /\ Loaded(e).seed = e.seed
      /\ Loaded(e).homeDomains = e.homeDomains
      /\ Loaded(e).jwtSecret = e.jwtSecret /\ Loaded(e).jwtIssuer = e.jwtIssuer
      /\ Loaded(e).webAuthDomain = e.webAuthDomain
      /\ Loaded(e).passphrase = e.passphrase /\ Loaded(e).toml = e.toml
  BY DEF Loaded, Environment
<1>2. Loaded(e).challengeTimeout = OrDefault(e.challengeTimeout, 300 * Second)
  BY DEF Loaded, Environment
<1>3. Loaded(e).jwtLifetime = OrDefault(e.jwtLifetime, 24 * 3600 * Second)
  BY DEF Loaded, Environment
<1>4. ~(Loaded(e).challengeTimeout < Second)
  BY <1>2 DEF LoadAccepts, TooShort, OrDefault, Environment, Durations, Second
<1>5. ~(Loaded(e).jwtLifetime <= 0)
  BY <1>3 DEF LoadAccepts, NotPositive, OrDefault, Environment, Durations, Second
<1>6. ~(e.jwtSecret < minJWTSecretLen)
  BY DEF LoadAccepts, Environment, minJWTSecretLen
<1> QED
  BY <1>1, <1>4, <1>5, <1>6
     DEF LoadAccepts, Refusing, NewFetcherRefuses, NewIssuerRefuses,
         NewTokenIssuerRefuses, NewRouterRefuses

\* Whoever is past Load has an environment that Load accepted.
PastLoad ==
    /\ \A p \in Processes : env[p] \in Environment
    /\ at \in [Processes -> {"load", "open", "construct", "serving", "down"}
                              \cup InMigrate]
    /\ failure \in [Processes -> Failures \cup {None}]
    /\ tomlOk \in [Processes -> BOOLEAN]
    /\ \A p \in Processes : at[p] \notin {"load", "down"} => LoadAccepts(env[p])

LEMMA PastLoadNext ==
    PastLoad /\ LoadIsEnough /\ [Next]_vars => PastLoad' /\ LoadIsEnough'
<1> SUFFICES ASSUME PastLoad, LoadIsEnough, [Next]_vars
             PROVE  PastLoad' /\ LoadIsEnough'
  OBVIOUS
<1> USE DEF PastLoad, LoadIsEnough, loadTOMLFails
<1>0. env' = env /\ tomlOk' = tomlOk
  BY DEF Next, AllServing, vars, Step, Load, Open, MigrationURLFails, Lock,
         LockTimeout, UpRefused, BeginFile, RunFile, CleanFile, UpDone,
         Construct, CallFails, Crash, Restart
<1>1. CASE AllServing \/ UNCHANGED vars
  BY <1>0, <1>1 DEF AllServing, vars
<1>2. ASSUME NEW p \in Processes, NEW why \in Failures, Fail(p, why),
             why \in Constructors => why = "NewRouter" /\ loadTOMLFails(p)
      PROVE  PastLoad' /\ LoadIsEnough'
  BY <1>0, <1>2 DEF Fail
<1>3. ASSUME NEW p \in Processes, NEW from, NEW to, Go(p, from, to),
             to \in {"load", "open", "construct", "serving"} \cup InMigrate,
             to # "load" => LoadAccepts(env[p]),
             UNCHANGED failure
      PROVE  PastLoad' /\ LoadIsEnough'
  BY <1>0, <1>3 DEF Go
<1>4. ASSUME NEW p \in Processes,
             Step(p) \/ LockTimeout(p) \/ CallFails(p) \/ Crash(p)
      PROVE  PastLoad' /\ LoadIsEnough'
  <2> USE DEF Failures, Constructors
  <2>1. CASE Load(p)
    BY <1>2, <1>3, <2>1 DEF Load
  <2>2. CASE Open(p)
    BY <1>2, <1>3, <2>2 DEF Open, InMigrate
  <2>3. CASE MigrationURLFails(p) \/ LockTimeout(p) \/ UpRefused(p) \/ Crash(p)
    BY <1>2, <2>3 DEF MigrationURLFails, LockTimeout, UpRefused, Crash
  <2>4. CASE CallFails(p)
    BY <1>2, <2>4 DEF CallFails
  <2>5. CASE Lock(p) \/ BeginFile(p) \/ RunFile(p) \/ CleanFile(p) \/ UpDone(p)
    <3>1. LoadAccepts(env[p])
      BY <2>5 DEF Lock, BeginFile, RunFile, CleanFile, UpDone, Go
    <3> QED
      BY <1>3, <2>5, <3>1
         DEF Lock, BeginFile, RunFile, CleanFile, UpDone, InMigrate
  <2>6. CASE Construct(p)
    <3>1. LoadAccepts(env[p]) /\ loadTOMLFails(p) \in BOOLEAN
      BY <2>6 DEF Construct
    <3>2. Refusing(Loaded(env[p]), loadTOMLFails(p))
            = IF loadTOMLFails(p) THEN "NewRouter" ELSE "none"
      BY <3>1, LoadedIsAccepted
    <3>3. CASE Fail(p, "NewRouter") /\ loadTOMLFails(p)
      BY <1>2, <3>3
    <3>4. CASE Go(p, "construct", "serving") /\ UNCHANGED failure
      BY <1>3, <3>1, <3>4
    <3> QED BY <2>6, <3>2, <3>3, <3>4 DEF Construct
  <2>7. CASE Restart(p)
    BY <1>0, <2>7, StartupAssumption DEF Restart, Go
  <2> QED BY <1>4, <2>1, <2>2, <2>3, <2>4, <2>5, <2>6, <2>7 DEF Step
<1> QED BY <1>1, <1>4 DEF Next

LEMMA PastLoadInit == Init => PastLoad /\ LoadIsEnough
<1> SUFFICES ASSUME Init PROVE PastLoad /\ LoadIsEnough
  OBVIOUS
<1>1. \A p \in Processes : env[p] \in Environment
  BY StartupAssumption DEF Init
<1>2. at = [p \in Processes |-> "load"] /\ failure = [p \in Processes |-> None]
  BY DEF Init
<1>3. tomlOk \in [Processes -> BOOLEAN]
  BY DEF Init
<1> QED BY <1>1, <1>2, <1>3, StartupAssumption DEF PastLoad, LoadIsEnough

\* For every environment, not just those a run tries: of what config.Load let
\* through, the constructors of main.go refuse nothing after the schema has been
\* migrated but a SEP-1 file that NewRouter cannot load.
THEOREM LoadIsEnoughHolds == Spec => []LoadIsEnough
BY PastLoadInit, PastLoadNext, PTL DEF Spec
-----------------------------------------------------------------------------
\* The state that neither of the two arguments above looks at.
RestType ==
    /\ lock \in Processes \cup {None}
    /\ faults \in 0..MaxFaults

LEMMA RestTypeNext == RestType /\ [Next]_vars => RestType'
<1> SUFFICES ASSUME RestType, [Next]_vars PROVE RestType'
  OBVIOUS
<1>1. faults' = faults \/ Fault
  BY DEF Next, AllServing, vars, Step, Load, Open, MigrationURLFails, Lock,
         LockTimeout, UpRefused, BeginFile, RunFile, CleanFile, UpDone,
         Construct, CallFails, Crash, Restart
<1>2. faults' \in 0..MaxFaults
  BY <1>1, StartupAssumption DEF RestType, Fault
<1>3. lock' \in Processes \cup {lock, None}
  BY DEF Next, AllServing, vars, Step, Load, Open, MigrationURLFails, Lock,
         LockTimeout, UpRefused, BeginFile, RunFile, CleanFile, UpDone,
         Construct, CallFails, Crash, Restart, Fail
<1> QED BY <1>2, <1>3 DEF RestType

LEMMA RestTypeInit == Init => RestType
BY StartupAssumption DEF Init, RestType

LEMMA PartsAreTypes == SchemaInv /\ PastLoad /\ RestType => TypeOK
BY DEF SchemaInv, SchemaType, PastLoad, RestType, TypeOK

\* The state of the starting processes and of their schema keeps its type: the
\* version never passes the last embedded file, although each process reads it,
\* adds one and writes it back, and only a process ever holds the lock.
THEOREM TypeCorrect == Spec => []TypeOK
<1>1. Spec => []SchemaInv
  BY SchemaInvHolds
<1>2. Spec => []PastLoad
  BY PastLoadInit, PastLoadNext, PTL DEF Spec
<1>3. Spec => []RestType
  BY RestTypeInit, RestTypeNext, PTL DEF Spec
<1> QED BY <1>1, <1>2, <1>3, PartsAreTypes, PTL
=============================================================================
