----------------------------- MODULE Deployment -----------------------------
(***************************************************************************)
(* Processes that share one database: replicas of the service, which        *)
(* migrate the schema when they start (newStoreFromEnv, db.MigrateUp) and   *)
(* encrypt second factors with the key of their environment                 *)
(* (db/crypto.go), and operators that run cmd/migrate.  The migration files *)
(* hold their own BEGIN and COMMIT, so a file is durable before its version *)
(* is recorded or deleted: the two are separate steps here.  A process      *)
(* whose statement fails exits (os.Exit(1)); in production mode there is no *)
(* fallback.  Factors are those of one account.                             *)
(***************************************************************************)
EXTENDS Naturals, Sequences

CONSTANTS
    Replica, Operator,
    LastVersion,     \* number of migration files (2)
    Key,             \* usable keys: ENCRYPTION_KEY, or the hash of the passphrase
    NoKey,           \* an environment that holds none
    MaxFactors,      \* bound on enrolments
    MaxFaults,       \* bound on crashes and failed statements
    MaxRollbacks     \* bound on runs of migrate --down

Proc == Replica \cup Operator

Version == 1..LastVersion

ASSUME DeploymentAssumption ==
    /\ Replica \cap Operator = {}
    /\ Key \cap (Proc \cup {NoKey, "lost"}) = {}
    /\ LastVersion \in Nat \ {0}
    /\ MaxFactors \in Nat /\ MaxFaults \in Nat /\ MaxRollbacks \in Nat

VARIABLES
    env,         \* the key in the environment of each serving replica
    ledger,      \* table schema_migrations exists
    recorded,    \* rows of schema_migrations
    applied,     \* versions whose tables exist
    factors,     \* table mfa_factors, oldest first
    proc,        \* what each process is doing
    faults, rollbacks,
    broken,      \* history: versions a rollback left half undone
    envs         \* history: the keys in the environments replicas were started with

vars == <<env, envs, ledger, recorded, applied, factors, proc, faults, rollbacks, broken>>

\* The key a factor was encrypted with: a configured one, the random key of a
\* running replica, or the random key of a process that is gone.
FactorKey == Key \cup Replica \cup {"lost"}

FactorRow == [key : FactorKey, state : {"pending", "confirmed"}]

ProcState ==
    [pc : {"off", "ensure", "check", "apply", "record", "open", "serving", "latest", "drop", "delete"},
     ver : 0..LastVersion,
     fresh : BOOLEAN,   \* the tables were not there when the statement began
     sound : BOOLEAN]   \* history: no rollback touched the schema since it began

Off == [pc |-> "off", ver |-> 0, fresh |-> FALSE, sound |-> FALSE]

TypeOK ==
    /\ env \in [Replica -> Key \cup {NoKey}] /\ envs \subseteq Key \cup {NoKey}
    /\ ledger \in BOOLEAN
    /\ recorded \subseteq Version /\ applied \subseteq Version
    /\ factors \in Seq(FactorRow) /\ Len(factors) <= MaxFactors
    /\ proc \in [Proc -> ProcState]
    /\ \A p \in Proc :
          proc[p].pc \in {"check", "apply", "record", "drop", "delete"} => proc[p].ver \in Version
    /\ faults \in 0..MaxFaults /\ rollbacks \in 0..MaxRollbacks
    /\ broken \subseteq Version

Init ==
    /\ env = [p \in Replica |-> NoKey] /\ envs = {}
    /\ ledger = FALSE
    /\ recorded = {} /\ applied = {}
    /\ factors = <<>>
    /\ proc = [p \in Proc |-> Off]
    /\ faults = 0 /\ rollbacks = 0
    /\ broken = {}

-----------------------------------------------------------------------------
At(p, pc) == proc[p].pc = pc

Goto(p, pc) == proc' = [proc EXCEPT ![p].pc = pc]

Exit(p) == proc' = [proc EXCEPT ![p] = Off]

\* Mutant: the key is made up whatever the environment says.
NewEncryptorFromEnv_Random(p) == p

\* NewEncryptorFromEnv: ENCRYPTION_KEY is usable if it decodes to 32 bytes, else
\* ENCRYPTION_PASSPHRASE if it is set.  A malformed key is passed over like none,
\* without an error, and the process makes up its own, here named after it.
NewEncryptorFromEnv(p) == IF env[p] = NoKey THEN p ELSE env[p]

\* Nobody can read again what a process that is gone encrypted with its own key.
LoseKey(p) ==
    factors' = [i \in DOMAIN factors |->
        IF factors[i].key = p THEN [factors[i] EXCEPT !.key = "lost"] ELSE factors[i]]

-----------------------------------------------------------------------------
(* MigrateUp *)

RollbackUnderWay == \E q \in Proc : At(q, "delete")

\* A replica starts, or an operator runs migrate --up.
StartUp(p) ==
    /\ At(p, "off")
    /\ proc' = [proc EXCEPT ![p] =
           [pc |-> "ensure", ver |-> 0, fresh |-> ~ledger,
            sound |-> p \in Replica /\ broken = {} /\ ~RollbackUnderWay]]
    /\ UNCHANGED <<env, envs, ledger, recorded, applied, factors, faults, rollbacks, broken>>

\* EnsureSchemaMigrations: CREATE TABLE IF NOT EXISTS.  When another process
\* creates the table at the same time the statement may fail for this one.
EnsureSchemaMigrations(p) ==
    /\ At(p, "ensure")
    /\ ledger' = TRUE
    /\ \/ proc' = [proc EXCEPT ![p].pc = "check", ![p].ver = 1, ![p].fresh = FALSE]
       \/ proc[p].fresh /\ ledger /\ Exit(p)
    /\ UNCHANGED <<env, envs, recorded, applied, factors, faults, rollbacks, broken>>

\* The next file; after the last one a replica opens its store.
NextVersion(p) ==
    LET q == proc[p] IN
        proc' = [proc EXCEPT ![p] =
            IF q.ver < LastVersion THEN [q EXCEPT !.pc = "check", !.ver = q.ver + 1]
            ELSE IF p \in Replica THEN [q EXCEPT !.pc = "open", !.ver = 0]
            ELSE Off]

\* Mutant: any recorded version counts.
UpCheck_AnyVersion(p) ==
    /\ At(p, "check")
    /\ IF recorded # {}
          THEN NextVersion(p)
          ELSE proc' = [proc EXCEPT ![p].pc = "apply", ![p].fresh = proc[p].ver \notin applied]
    /\ UNCHANGED <<env, envs, ledger, recorded, applied, factors, faults, rollbacks, broken>>

\* Mutant: the version is not looked up before its file is run.
UpCheck_None(p) ==
    /\ At(p, "check")
    /\ proc' = [proc EXCEPT ![p].pc = "apply", ![p].fresh = proc[p].ver \notin applied]
    /\ UNCHANGED <<env, envs, ledger, recorded, applied, factors, faults, rollbacks, broken>>

\* SELECT EXISTS ... WHERE version=...
UpCheck(p) ==
    /\ At(p, "check")
    /\ IF proc[p].ver \in recorded
          THEN NextVersion(p)
          ELSE proc' = [proc EXCEPT ![p].pc = "apply", ![p].fresh = proc[p].ver \notin applied]
    /\ UNCHANGED <<env, envs, ledger, recorded, applied, factors, faults, rollbacks, broken>>

\* A file refers to the tables of the versions before it.
Prerequisites(v) == 1..(v - 1) \subseteq applied

\* The file fails: tables it refers to are missing, or another process created
\* the same tables since this one began (the loser of CREATE TABLE IF NOT EXISTS).
FileFails(p) ==
    \/ ~Prerequisites(proc[p].ver)
    \/ proc[p].fresh /\ proc[p].ver \in applied

\* Mutant: the error of the file is discarded.
UpRefused_Ignored(p) ==
    /\ At(p, "apply")
    /\ FileFails(p)
    /\ Goto(p, "record")
    /\ UNCHANGED <<env, envs, ledger, recorded, applied, factors, faults, rollbacks, broken>>

UpRefused(p) ==
    /\ At(p, "apply")
    /\ FileFails(p)
    /\ Exit(p)
    /\ UNCHANGED <<env, envs, ledger, recorded, applied, factors, faults, rollbacks, broken>>

\* The file, up to and including its own COMMIT.
UpApply(p) ==
    /\ At(p, "apply")
    /\ Prerequisites(proc[p].ver)
    /\ applied' = applied \cup {proc[p].ver}
    /\ proc' = [proc EXCEPT ![p].pc = "record", ![p].fresh = FALSE]
    /\ UNCHANGED <<env, envs, ledger, recorded, factors, faults, rollbacks, broken>>

\* INSERT INTO schema_migrations, committed by itself; a duplicate is an error.
UpRecord(p) ==
    /\ At(p, "record")
    /\ recorded' = recorded \cup {proc[p].ver}
    /\ IF proc[p].ver \in recorded THEN Exit(p) ELSE NextVersion(p)
    /\ UNCHANGED <<env, envs, ledger, applied, factors, faults, rollbacks, broken>>

\* newDBStore: the replica takes its key, from an environment that may differ from
\* that of the others and of its own last start, and serves.
OpenStore(p) ==
    /\ At(p, "open")
    /\ \E k \in Key \cup {NoKey} :
          env' = [env EXCEPT ![p] = k] /\ envs' = envs \cup {k}
    /\ Goto(p, "serving")
    /\ UNCHANGED <<ledger, recorded, applied, factors, faults, rollbacks, broken>>

-----------------------------------------------------------------------------
(* MigrateDown *)

\* migrate --down; schema_migrations is created if need be.
StartDown(p) ==
    /\ p \in Operator
    /\ At(p, "off")
    /\ rollbacks < MaxRollbacks
    /\ rollbacks' = rollbacks + 1
    /\ ledger' = TRUE
    /\ Goto(p, "latest")
    /\ UNCHANGED <<env, envs, recorded, applied, factors, faults, broken>>

Latest == CHOOSE v \in recorded : \A w \in recorded : w <= v

\* Mutant: version 0 is rolled back like any other.
DownLatest_Zero(p) ==
    /\ At(p, "latest")
    /\ proc' = [proc EXCEPT ![p].pc = "drop", ![p].ver = IF recorded = {} THEN 0 ELSE Latest]
    /\ UNCHANGED <<env, envs, ledger, recorded, applied, factors, faults, rollbacks, broken>>

\* SELECT COALESCE(MAX(version), 0): nothing to do for 0.
DownLatest(p) ==
    /\ At(p, "latest")
    /\ IF recorded = {} THEN Exit(p)
       ELSE proc' = [proc EXCEPT ![p].pc = "drop", ![p].ver = Latest]
    /\ UNCHANGED <<env, envs, ledger, recorded, applied, factors, faults, rollbacks, broken>>

\* DROP TABLE without CASCADE is refused while a later version's tables refer to it.
DropRefused(v) == \E w \in applied : w > v

\* The file, up to and including its own COMMIT.  Version 1 holds mfa_factors.
DownDrop(p) ==
    LET v == proc[p].ver IN
        /\ At(p, "drop")
        /\ ~DropRefused(v)
        /\ applied' = applied \ {v}
        /\ factors' = IF v = 1 THEN <<>> ELSE factors
        /\ proc' = [q \in Proc |->
               [proc[q] EXCEPT !.sound = FALSE, !.pc = IF q = p THEN "delete" ELSE @]]
        /\ broken' = broken \cup
               {w \in {v} : \E q \in Proc : At(q, "record") /\ proc[q].ver = w}
        /\ UNCHANGED <<env, envs, ledger, recorded, faults, rollbacks>>

DownRefused(p) ==
    /\ At(p, "drop")
    /\ DropRefused(proc[p].ver)
    /\ Exit(p)
    /\ UNCHANGED <<env, envs, ledger, recorded, applied, factors, faults, rollbacks, broken>>

\* DELETE FROM schema_migrations, committed by itself.
DownDelete(p) ==
    LET v == proc[p].ver IN
        /\ At(p, "delete")
        /\ recorded' = recorded \ {v}
        /\ broken' = {w \in broken :
               w # v \/ \E q \in Proc : At(q, "record") /\ proc[q].ver = v}
        /\ Exit(p)
        /\ UNCHANGED <<env, envs, ledger, applied, factors, faults, rollbacks>>

-----------------------------------------------------------------------------
(* Second factors on a serving replica: enrolment and confirmation, whose rows need
   version 1.  MFA models the rest. *)

Serves(p) == At(p, "serving") /\ 1 \in applied

\* EnrollMFA: the secret is stored encrypted with the replica's key.
EnrollMFA(p) ==
    /\ Serves(p)
    /\ Len(factors) < MaxFactors
    /\ factors' = Append(factors, [key |-> NewEncryptorFromEnv(p), state |-> "pending"])
    /\ UNCHANGED <<env, envs, ledger, recorded, applied, proc, faults, rollbacks, broken>>

\* VerifyMFA: the newest pending factor, if this replica can decrypt it.
VerifyMFA(p, i) ==
    /\ Serves(p)
    /\ factors[i].state = "pending"
    /\ \A j \in DOMAIN factors : factors[j].state = "pending" => j <= i
    /\ factors[i].key = NewEncryptorFromEnv(p)
    /\ factors' = [factors EXCEPT ![i].state = "confirmed"]
    /\ UNCHANGED <<env, envs, ledger, recorded, applied, proc, faults, rollbacks, broken>>

Confirmed == {i \in DOMAIN factors : factors[i].state = "confirmed"}

\* confirmedFactors, when its SELECT delivers the rows got: all of them, or fewer if
\* it fails (none if Query itself does; rows.Err is not looked at).  One row
\* scanFactor cannot decrypt, and the result is nil.
confirmedFactors(p, got) ==
    IF \A i \in got : factors[i].key = NewEncryptorFromEnv(p) THEN got ELSE {}

-----------------------------------------------------------------------------
\* A process dies, or a statement fails or runs into the deadline and it exits.
Crash(p) ==
    /\ ~At(p, "off")
    /\ faults < MaxFaults
    /\ faults' = faults + 1
    /\ Exit(p)
    /\ LoseKey(p)
    /\ broken' = broken \cup {v \in {proc[p].ver} : At(p, "delete")}
    /\ env' = [q \in Replica |-> IF q = p THEN NoKey ELSE env[q]]
    /\ UNCHANGED <<envs, ledger, recorded, applied, rollbacks>>

\* The statements of a process that has started.
Step(p) ==
    \/ EnsureSchemaMigrations(p) \/ UpCheck(p) \/ UpRefused(p) \/ UpApply(p) \/ UpRecord(p)
    \/ OpenStore(p)
    \/ DownLatest(p) \/ DownDrop(p) \/ DownRefused(p) \/ DownDelete(p)

Next ==
    \/ \E p \in Proc : StartUp(p) \/ StartDown(p) \/ Step(p) \/ Crash(p)
    \/ \E p \in Replica : EnrollMFA(p)
    \/ \E p \in Replica, i \in DOMAIN factors : VerifyMFA(p, i)

\* A started process goes on: every statement ends by the deadline of its context.
Spec == Init /\ [][Next]_vars /\ \A p \in Proc : WF_vars(Step(p))

-----------------------------------------------------------------------------
(* Properties *)

\* A file commits before its version is recorded or deleted.  However processes
\* that migrate overlap, crash and start again, a recorded version has its
\* tables, but for a rollback under way, one that died between DROP and DELETE,
\* and one that ran between the file and the INSERT of a MigrateUp.
RecordedMeansApplied ==
    \A v \in recorded \ applied :
        v \in broken \/ \E p \in Proc : At(p, "delete") /\ proc[p].ver = v

\* A replica that serves has the whole schema, if no rollback ran since it
\* started and none was left unfinished before.
ServingSeesSchema ==
    \A p \in Replica : At(p, "serving") /\ proc[p].sound => applied = Version

\* Every replica so far was started with the same usable key.
OneKey == \E k \in Key : envs \subseteq {k}

\* "Require MFA challenge on login when any factor is active" (README.md:51) holds
\* but for two cases.  A login on any replica skips the challenge of an account with
\* a confirmed factor only when the SELECT of confirmedFactors failed before its
\* first row, or when replicas were not all started with one usable key; then one
\* factor that cannot be decrypted hides the readable ones too.
ChallengeSkippedOnlyAcrossKeys ==
    \A p \in Replica : (Serves(p) /\ Confirmed # {}) =>
        \A got \in SUBSET Confirmed :
            confirmedFactors(p, got) = {} => got = {} \/ ~OneKey

\* Nothing a crash, a lost race or a completed rollback leaves behind keeps the
\* service down: a replica that is started again and again serves for good in
\* the end, unless some rollback was left half undone.
ReplicaEventuallyServes ==
    \A p \in Replica :
        ([]<>(~At(p, "off")) /\ [](broken = {})) => <>[]At(p, "serving")
=============================================================================
