------------------------- MODULE Deployment_proofs -------------------------
(***************************************************************************)
(* Proofs about Deployment for any sets of replicas and operators, any      *)
(* number of migration files, and any number of crashes and rollbacks.      *)
(***************************************************************************)
EXTENDS Deployment, SequenceTheorems, WellFoundedInduction, TLAPS

\* Between its file and its INSERT a MigrateUp has the tables of its version,
\* unless a rollback dropped them in between, which the history records.
AppliedBeforeRecord ==
    \A p \in Proc : At(p, "record") => proc[p].ver \in applied \cup broken

\* A process at a version finds the tables of the versions before it; one that
\* serves finds them all.
SeesPrefix(q) ==
    /\ q.pc \in {"check", "apply", "record"} => 1..(q.ver - 1) \subseteq applied
    /\ q.pc \in {"open", "serving"} => applied = Version

\* While a process counts as undisturbed nothing is half undone, and the
\* versions it has passed have their tables.
SoundSeesPrefix ==
    \A p \in Proc : proc[p].sound => broken = {} /\ ~RollbackUnderWay /\ SeesPrefix(proc[p])

\* The history knows the environment of every serving replica, and that of the
\* replica that encrypted a row, whose own key it was if it had none.
KeysKnown ==
    /\ \A p \in Replica : At(p, "serving") => env[p] \in envs
    /\ \A i \in DOMAIN factors : factors[i].key \in envs \/ NoKey \in envs

SafeInv ==
    /\ TypeOK
    /\ RecordedMeansApplied
    /\ AppliedBeforeRecord
    /\ SoundSeesPrefix
    /\ KeysKnown

\* The states of a process in which it is working on some version.
Working == {"check", "apply", "record", "drop", "delete"}

-----------------------------------------------------------------------------
\* The state of a process that is not running.
LEMMA OffFacts ==
    Off \in ProcState /\ Off.pc = "off" /\ ~Off.sound
  BY DeploymentAssumption DEF Off, ProcState

\* SELECT COALESCE(MAX(version), 0) names a recorded version.
LEMMA LatestRecorded ==
    ASSUME recorded \subseteq Version, recorded # {}
    PROVE  Latest \in recorded
  <1> DEFINE T == {LastVersion - v : v \in recorded}
  <1>1. \A v \in recorded : v \in Nat /\ LastVersion - v \in Nat
    BY DeploymentAssumption DEF Version
  <1>2. T \subseteq Nat /\ T # {}
    BY <1>1
  <1>3. PICK x \in T : \A y \in T : ~(<<y, x>> \in OpToRel(<, Nat))
    BY <1>2, NatLessThanWellFounded, WFMin
  <1>4. \A y \in T : x <= y
    <2>1. \A y, z \in Nat : y < z => <<y, z>> \in OpToRel(<, Nat)
      BY DEF OpToRel
    <2>2. \A y \in T : ~(y < x)
      BY <1>2, <1>3, <2>1
    <2> QED
      BY <1>2, <2>2
  <1>5. PICK v \in recorded : x = LastVersion - v
    OBVIOUS
  <1>6. \A w \in recorded : w <= v
    <2>1. \A w \in recorded : LastVersion - v <= LastVersion - w
      BY <1>4, <1>5
    <2>2. LastVersion \in Nat
      BY DeploymentAssumption
    <2> QED
      BY <1>1, <2>1, <2>2
  <1> QED
    BY <1>6 DEF Latest

\* A process moves on and the schema only grows: what was recorded stays
\* covered, and nobody's progress is disturbed.
LEMMA ScheduleStep ==
    ASSUME SafeInv, NEW p \in Proc, NEW state \in ProcState,
           proc' = [proc EXCEPT ![p] = state],
           ~At(p, "delete"), state.pc # "delete",
           state.pc \in Working => state.ver \in Version,
           state.pc = "record" => state.ver \in applied',
           state.sound => broken = {} /\ ~RollbackUnderWay /\ SeesPrefix(state)',
           applied \subseteq applied', applied' \subseteq Version,
           recorded' \subseteq recorded \cup applied' \cup broken, recorded' \subseteq Version,
           ledger' \in BOOLEAN, rollbacks' \in 0..MaxRollbacks,
           env' \in [Replica -> Key \cup {NoKey}], envs' \subseteq Key \cup {NoKey}, KeysKnown',
           UNCHANGED <<factors, faults, broken>>
    PROVE  SafeInv'
  <1>1. \A q \in Proc : proc'[q] = IF q = p THEN state ELSE proc[q]
    BY DEF SafeInv, TypeOK
  <1>2. TypeOK'
    BY <1>1 DEF SafeInv, TypeOK, Working
  <1>3. \A q \in Proc : /\ At(q, "delete")' <=> At(q, "delete")
                        /\ At(q, "delete") => proc'[q] = proc[q]
    BY <1>1 DEF At
  <1>4. RecordedMeansApplied'
    BY <1>3 DEF SafeInv, RecordedMeansApplied
  <1>5. AppliedBeforeRecord'
    BY <1>1 DEF SafeInv, AppliedBeforeRecord, At
  <1>6. SoundSeesPrefix'
    <2>1. RollbackUnderWay' <=> RollbackUnderWay
      BY <1>3 DEF RollbackUnderWay
    <2> SUFFICES ASSUME NEW q \in Proc, proc'[q].sound
                 PROVE  broken' = {} /\ ~RollbackUnderWay' /\ SeesPrefix(proc[q])'
      BY DEF SoundSeesPrefix
    <2>2. CASE q = p
      BY <1>1, <2>1, <2>2 DEF SeesPrefix
    <2>3. CASE q # p
      <3>1. proc'[q] = proc[q] /\ broken = {} /\ ~RollbackUnderWay /\ SeesPrefix(proc[q])
        BY <1>1, <2>3 DEF SafeInv, SoundSeesPrefix
      <3> QED
        BY <2>1, <3>1 DEF SeesPrefix
    <2> QED
      BY <2>2, <2>3
  <1> QED
    BY <1>2, <1>4, <1>5, <1>6 DEF SafeInv

\* A step of a migration: nobody begins to serve and no key changes.
LEMMA ProcStep ==
    ASSUME SafeInv, NEW p \in Proc, NEW state \in ProcState,
           proc' = [proc EXCEPT ![p] = state],
           ~At(p, "delete"), state.pc \notin {"delete", "serving"},
           state.pc \in Working => state.ver \in Version,
           state.pc = "record" => state.ver \in applied',
           state.sound => broken = {} /\ ~RollbackUnderWay /\ SeesPrefix(state)',
           applied \subseteq applied', applied' \subseteq Version,
           recorded' \subseteq recorded \cup applied' \cup broken, recorded' \subseteq Version,
           ledger' \in BOOLEAN, rollbacks' \in 0..MaxRollbacks,
           UNCHANGED <<env, envs, factors, faults, broken>>
    PROVE  SafeInv'
  <1>1. \A q \in Replica : At(q, "serving")' => At(q, "serving")
    BY DEF SafeInv, TypeOK, At, Proc
  <1>2. KeysKnown'
    BY <1>1 DEF SafeInv, KeysKnown
  <1>3. env' \in [Replica -> Key \cup {NoKey}] /\ envs' \subseteq Key \cup {NoKey}
    BY DEF SafeInv, TypeOK
  <1> QED
    BY <1>2, <1>3, ScheduleStep

\* newDBStore: whatever key the replica takes, the history has it.
LEMMA OpenSafe ==
    ASSUME SafeInv, NEW p \in Proc, OpenStore(p)
    PROVE  SafeInv'
  <1>1. PICK k \in Key \cup {NoKey} :
            env' = [env EXCEPT ![p] = k] /\ envs' = envs \cup {k}
    BY DEF OpenStore
  <1>2. PICK state \in ProcState :
            /\ proc' = [proc EXCEPT ![p] = state]
            /\ state.pc = "serving" /\ state.sound = proc[p].sound
    <2> DEFINE state == [proc[p] EXCEPT !.pc = "serving"]
    <2>1. proc[p] \in ProcState
      BY DEF SafeInv, TypeOK
    <2>2. state \in ProcState /\ state.pc = "serving" /\ state.sound = proc[p].sound
      BY <2>1 DEF ProcState
    <2>3. proc' = [proc EXCEPT ![p] = state]
      BY DEF OpenStore, Goto
    <2> QED
      BY <2>2, <2>3
  <1>3. env' \in [Replica -> Key \cup {NoKey}] /\ envs' \subseteq Key \cup {NoKey}
    BY <1>1 DEF SafeInv, TypeOK
  <1>4. KeysKnown'
    <2>1. ASSUME NEW q \in Replica, At(q, "serving")' PROVE env'[q] \in envs'
      <3>1. CASE q = p
        BY <1>1, <3>1 DEF SafeInv, TypeOK
      <3>2. CASE q # p
        <4>1. At(q, "serving")
          BY <1>2, <2>1, <3>2 DEF At, SafeInv, TypeOK, Proc
        <4> QED
          BY <1>1, <3>2, <4>1 DEF SafeInv, TypeOK, KeysKnown
      <3> QED
        BY <3>1, <3>2
    <2>2. factors' = factors
      BY DEF OpenStore
    <2> QED
      BY <1>1, <2>1, <2>2 DEF SafeInv, KeysKnown
  <1>5. state.sound => broken = {} /\ ~RollbackUnderWay /\ SeesPrefix(state)'
    BY <1>2 DEF OpenStore, At, SafeInv, SoundSeesPrefix, SeesPrefix
  <1>6. /\ applied' = applied /\ recorded' = recorded /\ applied \subseteq Version
        /\ recorded \subseteq Version /\ ledger' \in BOOLEAN /\ rollbacks' \in 0..MaxRollbacks
    BY DEF OpenStore, SafeInv, TypeOK
  <1>7. ~At(p, "delete") /\ UNCHANGED <<factors, faults, broken>>
    BY DEF OpenStore, At
  <1> QED
    BY <1>2, <1>3, <1>4, <1>5, <1>6, <1>7, ScheduleStep DEF Working

\* NextVersion: the next file, or the end of the migration.
LEMMA NextVersionFacts ==
    ASSUME SafeInv, NEW p \in Proc, proc[p].pc \in {"check", "record"}, NextVersion(p)
    PROVE  \E state \in ProcState :
               /\ proc' = [proc EXCEPT ![p] = state]
               /\ state.pc \in {"check", "open", "off"}
               /\ state.sound => proc[p].sound
               /\ state.pc = "check" => state.ver = proc[p].ver + 1 /\ state.ver \in Version
               /\ state.pc = "open" => proc[p].ver = LastVersion
  <1> DEFINE up(q) == [q EXCEPT !.pc = "check", !.ver = q.ver + 1]
             done(q) == [q EXCEPT !.pc = "open", !.ver = 0]
  <1>1. PICK q \in ProcState : q = proc[p] /\ q.ver \in Version
    BY DEF SafeInv, TypeOK
  <1>2. proc' = [proc EXCEPT ![p] = IF proc[p].ver < LastVersion THEN up(proc[p])
                                    ELSE IF p \in Replica THEN done(proc[p]) ELSE Off]
    BY DEF NextVersion
  <1>3. done(q) \in ProcState /\ done(q).pc = "open" /\ done(q).sound = q.sound
    <2>1. 0 \in 0..LastVersion
      BY DeploymentAssumption
    <2> QED
      BY <2>1 DEF ProcState
  <1>4. ASSUME q.ver < LastVersion
        PROVE  /\ up(q) \in ProcState /\ up(q).pc = "check" /\ up(q).sound = q.sound
               /\ up(q).ver = q.ver + 1 /\ up(q).ver \in Version
    <2>1. q.ver + 1 \in Version /\ q.ver + 1 \in 0..LastVersion
      BY <1>1, <1>4, DeploymentAssumption DEF Version
    <2> QED
      BY <1>1, <2>1 DEF ProcState
  <1>5. ~(q.ver < LastVersion) => q.ver = LastVersion
    BY <1>1, DeploymentAssumption DEF Version
  <1> HIDE DEF up, done
  <1> QED
    BY <1>1, <1>2, <1>3, <1>4, <1>5, OffFacts

\* A process that ends.
LEMMA ExitStep ==
    ASSUME SafeInv, NEW p \in Proc, Exit(p), ~At(p, "delete"),
           recorded' \subseteq recorded \cup applied \cup broken, recorded' \subseteq Version,
           ledger' \in BOOLEAN, UNCHANGED <<env, envs, applied, factors, faults, rollbacks, broken>>
    PROVE  SafeInv'
  <1>1. PICK state \in ProcState : state = Off /\ proc' = [proc EXCEPT ![p] = state]
    BY OffFacts DEF Exit
  <1>2. state.pc = "off" /\ ~state.sound
    BY <1>1, OffFacts
  <1>3. applied \subseteq Version /\ rollbacks \in 0..MaxRollbacks
    BY DEF SafeInv, TypeOK
  <1> QED
    BY <1>1, <1>2, <1>3, ProcStep DEF Working

\* An empty database and no process running.
LEMMA InitSafe == Init => SafeInv
  <1> SUFFICES ASSUME Init PROVE SafeInv
    OBVIOUS
  <1>0. \A p \in Proc : proc[p] = Off
    BY DEF Init
  <1>1. TypeOK
    <2>1. factors \in Seq(FactorRow) /\ Len(factors) = 0
      BY EmptySeq DEF Init
    <2>2. proc \in [Proc -> ProcState]
      BY OffFacts DEF Init
    <2>3. Len(factors) <= MaxFactors /\ 0 \in 0..MaxFaults /\ 0 \in 0..MaxRollbacks
      BY <2>1, DeploymentAssumption
    <2> QED
      BY <1>0, <2>1, <2>2, <2>3, OffFacts DEF Init, TypeOK
  <1>2. RecordedMeansApplied /\ AppliedBeforeRecord /\ SoundSeesPrefix
    BY <1>0, OffFacts DEF Init, RecordedMeansApplied, AppliedBeforeRecord, SoundSeesPrefix, At
  <1>3. KeysKnown
    <2>1. \A p \in Replica : ~At(p, "serving")
      BY <1>0, OffFacts DEF At, Proc
    <2>2. DOMAIN factors = {}
      BY DEF Init
    <2> QED
      BY <2>1, <2>2 DEF KeysKnown
  <1> QED
    BY <1>1, <1>2, <1>3 DEF SafeInv

\* A process that passes version v with the tables up to v in place finds the
\* tables of the versions before the next, or all of them.
LEMMA PrefixAdvances ==
    ASSUME applied \subseteq Version, applied' = applied,
           NEW v \in Version, 1..(v - 1) \subseteq applied, v \in applied,
           NEW state \in ProcState, state.pc \in {"check", "open", "off"},
           state.pc = "check" => state.ver = v + 1,
           state.pc = "open" => v = LastVersion
    PROVE  SeesPrefix(state)'
  <1>1. v \in Nat /\ LastVersion \in Nat
    BY DeploymentAssumption DEF Version
  <1>2. 1..v \subseteq applied
    BY <1>1
  <1>3. CASE state.pc = "check"
    <2>1. state.ver - 1 = v
      BY <1>1, <1>3
    <2> QED
      BY <1>2, <1>3, <2>1 DEF SeesPrefix
  <1>4. CASE state.pc = "open"
    BY <1>2, <1>4 DEF SeesPrefix, Version
  <1>5. CASE state.pc = "off"
    BY <1>5 DEF SeesPrefix
  <1> QED
    BY <1>3, <1>4, <1>5

-----------------------------------------------------------------------------
\* MigrateUp, one statement at a time.
LEMMA UpSafe ==
    ASSUME SafeInv, NEW p \in Proc,
           \/ StartUp(p) \/ EnsureSchemaMigrations(p) \/ UpCheck(p)
           \/ UpRefused(p) \/ UpApply(p) \/ UpRecord(p)
    PROVE  SafeInv'
  <1>0. /\ applied \subseteq Version /\ recorded \subseteq Version
        /\ ledger \in BOOLEAN /\ rollbacks \in 0..MaxRollbacks
        /\ proc[p] \in ProcState /\ 0 \in 0..LastVersion /\ 1 \in Version /\ 1 \in 0..LastVersion
    BY DeploymentAssumption DEF SafeInv, TypeOK, Version
  <1>1. CASE StartUp(p)
    <2>1. PICK state \in ProcState :
              /\ proc' = [proc EXCEPT ![p] = state] /\ state.pc = "ensure"
              /\ state.sound => broken = {} /\ ~RollbackUnderWay
      <3> DEFINE state == [pc |-> "ensure", ver |-> 0, fresh |-> ~ledger,
                           sound |-> p \in Replica /\ broken = {} /\ ~RollbackUnderWay]
      <3>1. state \in ProcState
        BY <1>0 DEF ProcState
      <3>2. proc' = [proc EXCEPT ![p] = state]
        BY <1>1 DEF StartUp
      <3> QED
        BY <3>1, <3>2
    <2>2. SeesPrefix(state)'
      BY <2>1 DEF SeesPrefix
    <2> QED
      BY <1>0, <1>1, <2>1, <2>2, ProcStep DEF StartUp, At, Working
  <1>2. CASE EnsureSchemaMigrations(p)
    <2>1. CASE Exit(p)
      BY <1>0, <1>2, <2>1, ExitStep DEF EnsureSchemaMigrations, At
    <2>2. CASE proc' = [proc EXCEPT ![p].pc = "check", ![p].ver = 1, ![p].fresh = FALSE]
      <3>1. PICK state \in ProcState :
                /\ proc' = [proc EXCEPT ![p] = state]
                /\ state.pc = "check" /\ state.ver = 1 /\ state.sound = proc[p].sound
        <4> DEFINE state == [[[proc[p] EXCEPT !.pc = "check"] EXCEPT !.ver = 1]
                                EXCEPT !.fresh = FALSE]
        <4>1. state \in ProcState /\ state.pc = "check" /\ state.ver = 1
              /\ state.sound = proc[p].sound
          BY <1>0 DEF ProcState
        <4>2. proc' = [proc EXCEPT ![p] = state]
          BY <2>2 DEF SafeInv, TypeOK
        <4> QED
          BY <4>1, <4>2
      <3>2. SeesPrefix(state)'
        BY <3>1 DEF SeesPrefix
      <3>3. state.sound => broken = {} /\ ~RollbackUnderWay
        BY <3>1 DEF SafeInv, SoundSeesPrefix
      <3> QED
        BY <1>0, <1>2, <3>1, <3>2, <3>3, ProcStep DEF EnsureSchemaMigrations, At
    <2> QED
      BY <1>2, <2>1, <2>2 DEF EnsureSchemaMigrations
  <1>3. CASE UpCheck(p) /\ proc[p].ver \in recorded
    <2>1. PICK state \in ProcState :
               /\ proc' = [proc EXCEPT ![p] = state]
               /\ state.pc \in {"check", "open", "off"}
               /\ state.sound => proc[p].sound
               /\ state.pc = "check" => state.ver = proc[p].ver + 1 /\ state.ver \in Version
               /\ state.pc = "open" => proc[p].ver = LastVersion
      BY <1>3, NextVersionFacts DEF UpCheck, At
    <2>2. state.sound => broken = {} /\ ~RollbackUnderWay /\ SeesPrefix(proc[p])
      BY <2>1 DEF SafeInv, SoundSeesPrefix
    <2>3. state.sound => proc[p].ver \in applied
      BY <1>3, <2>2 DEF SafeInv, RecordedMeansApplied, RollbackUnderWay
    <2>4. state.sound => SeesPrefix(state)'
      <3>1. PICK v \in Version : v = proc[p].ver
        BY <1>3 DEF UpCheck, At, SafeInv, TypeOK
      <3>2. state.sound => 1..(v - 1) \subseteq applied /\ v \in applied
        BY <1>3, <2>2, <2>3, <3>1 DEF SeesPrefix, UpCheck, At
      <3>3. applied' = applied
        BY <1>3 DEF UpCheck
      <3> QED
        BY <1>0, <2>1, <3>1, <3>2, <3>3, PrefixAdvances
    <2> QED
      BY <1>0, <1>3, <2>1, <2>2, <2>4, ProcStep DEF UpCheck, At, Working
  <1>4. CASE UpCheck(p) /\ proc[p].ver \notin recorded
    <2>1. PICK state \in ProcState :
              /\ proc' = [proc EXCEPT ![p] = state]
              /\ state.pc = "apply" /\ state.ver = proc[p].ver /\ state.sound = proc[p].sound
      <3> DEFINE state == [[proc[p] EXCEPT !.pc = "apply"] EXCEPT !.fresh = proc[p].ver \notin applied]
      <3>1. state \in ProcState /\ state.pc = "apply" /\ state.ver = proc[p].ver
            /\ state.sound = proc[p].sound
        BY <1>0 DEF ProcState
      <3>2. proc' = [proc EXCEPT ![p] = state]
        BY <1>4 DEF UpCheck, SafeInv, TypeOK
      <3> QED
        BY <3>1, <3>2
    <2>2. proc[p].ver \in Version
      BY <1>4 DEF UpCheck, At, SafeInv, TypeOK
    <2>3. state.sound => broken = {} /\ ~RollbackUnderWay /\ SeesPrefix(state)'
      BY <1>4, <2>1 DEF UpCheck, At, SafeInv, SoundSeesPrefix, SeesPrefix
    <2> QED
      BY <1>0, <1>4, <2>1, <2>2, <2>3, ProcStep DEF UpCheck, At
  <1>5. CASE UpRefused(p)
    BY <1>0, <1>5, ExitStep DEF UpRefused, At
  <1>6. CASE UpApply(p)
    <2>1. PICK state \in ProcState :
              /\ proc' = [proc EXCEPT ![p] = state]
              /\ state.pc = "record" /\ state.ver = proc[p].ver /\ state.sound = proc[p].sound
      <3> DEFINE state == [[proc[p] EXCEPT !.pc = "record"] EXCEPT !.fresh = FALSE]
      <3>1. state \in ProcState /\ state.pc = "record" /\ state.ver = proc[p].ver
            /\ state.sound = proc[p].sound
        BY <1>0 DEF ProcState
      <3>2. proc' = [proc EXCEPT ![p] = state]
        BY <1>6 DEF UpApply, SafeInv, TypeOK
      <3> QED
        BY <3>1, <3>2
    <2>2. proc[p].ver \in Version
      BY <1>6 DEF UpApply, At, SafeInv, TypeOK
    <2>3. state.sound => broken = {} /\ ~RollbackUnderWay
      BY <2>1 DEF SafeInv, SoundSeesPrefix
    <2>4. SeesPrefix(state)'
      BY <1>6, <2>1 DEF UpApply, Prerequisites, SeesPrefix
    <2> QED
      BY <1>0, <1>6, <2>1, <2>2, <2>3, <2>4, ProcStep DEF UpApply, At
  <1>7. CASE UpRecord(p)
    <2>1. proc[p].ver \in applied \cup broken /\ proc[p].ver \in Version
      BY <1>7 DEF UpRecord, SafeInv, AppliedBeforeRecord, At, TypeOK
    <2>2. recorded' \subseteq recorded \cup applied \cup broken /\ recorded' \subseteq Version
      BY <1>0, <1>7, <2>1 DEF UpRecord
    <2>3. CASE Exit(p)
      BY <1>0, <1>7, <2>2, <2>3, ExitStep DEF UpRecord, At
    <2>4. CASE NextVersion(p)
      <3>1. PICK state \in ProcState :
                 /\ proc' = [proc EXCEPT ![p] = state]
                 /\ state.pc \in {"check", "open", "off"}
                 /\ state.sound => proc[p].sound
                 /\ state.pc = "check" => state.ver = proc[p].ver + 1 /\ state.ver \in Version
                 /\ state.pc = "open" => proc[p].ver = LastVersion
        BY <1>7, <2>4, NextVersionFacts DEF UpRecord, At
      <3>2. state.sound => broken = {} /\ ~RollbackUnderWay /\ SeesPrefix(proc[p])
        BY <3>1 DEF SafeInv, SoundSeesPrefix
      <3>3. state.sound => SeesPrefix(state)'
        <4>1. PICK v \in Version : v = proc[p].ver
          BY <2>1
        <4>2. state.sound => 1..(v - 1) \subseteq applied /\ v \in applied
          BY <1>7, <2>1, <3>2, <4>1 DEF SeesPrefix, UpRecord, At
        <4>3. applied' = applied
          BY <1>7 DEF UpRecord
        <4> QED
          BY <1>0, <3>1, <4>1, <4>2, <4>3, PrefixAdvances
      <3> QED
        BY <1>0, <1>7, <2>2, <3>1, <3>2, <3>3, ProcStep DEF UpRecord, At, Working
    <2> QED
      BY <1>7, <2>3, <2>4 DEF UpRecord
  <1> QED
    BY <1>1, <1>2, <1>3, <1>4, <1>5, <1>6, <1>7

\* MigrateDown up to its file: nothing changes but what the process is at.
LEMMA DownBeginSafe ==
    ASSUME SafeInv, NEW p \in Proc,
           StartDown(p) \/ DownLatest(p) \/ DownRefused(p)
    PROVE  SafeInv'
  <1>0. /\ applied \subseteq Version /\ recorded \subseteq Version
        /\ ledger \in BOOLEAN /\ rollbacks \in 0..MaxRollbacks
        /\ proc[p] \in ProcState /\ Version \subseteq 0..LastVersion
    BY DeploymentAssumption DEF SafeInv, TypeOK, Version
  <1>1. CASE StartDown(p)
    <2>1. PICK state \in ProcState :
              /\ proc' = [proc EXCEPT ![p] = state]
              /\ state.pc = "latest" /\ state.sound = proc[p].sound
      <3> DEFINE state == [proc[p] EXCEPT !.pc = "latest"]
      <3>1. state \in ProcState /\ state.pc = "latest" /\ state.sound = proc[p].sound
        BY <1>0 DEF ProcState
      <3>2. proc' = [proc EXCEPT ![p] = state]
        BY <1>1 DEF StartDown, Goto
      <3> QED
        BY <3>1, <3>2
    <2>2. rollbacks' \in 0..MaxRollbacks /\ ledger' \in BOOLEAN
      BY <1>0, <1>1, DeploymentAssumption DEF StartDown
    <2>3. state.sound => broken = {} /\ ~RollbackUnderWay /\ SeesPrefix(state)'
      BY <2>1 DEF SafeInv, SoundSeesPrefix, SeesPrefix
    <2> QED
      BY <1>0, <1>1, <2>1, <2>2, <2>3, ProcStep DEF StartDown, At, Working
  <1>2. CASE DownLatest(p) /\ recorded # {}
    <2>1. PICK v \in Version : v = Latest
      BY <1>0, <1>2, LatestRecorded
    <2>2. PICK state \in ProcState :
              /\ proc' = [proc EXCEPT ![p] = state]
              /\ state.pc = "drop" /\ state.ver = v /\ state.sound = proc[p].sound
      <3> DEFINE state == [[proc[p] EXCEPT !.pc = "drop"] EXCEPT !.ver = v]
      <3>1. state \in ProcState /\ state.pc = "drop" /\ state.ver = v
            /\ state.sound = proc[p].sound
        BY <1>0 DEF ProcState
      <3>2. proc' = [proc EXCEPT ![p] = state]
        BY <1>2, <2>1 DEF DownLatest, SafeInv, TypeOK
      <3> QED
        BY <3>1, <3>2
    <2>3. state.sound => broken = {} /\ ~RollbackUnderWay /\ SeesPrefix(state)'
      BY <2>2 DEF SafeInv, SoundSeesPrefix, SeesPrefix
    <2> QED
      BY <1>0, <1>2, <2>2, <2>3, ProcStep DEF DownLatest, At
  <1>3. CASE DownLatest(p) /\ recorded = {}
    BY <1>0, <1>3, ExitStep DEF DownLatest, At
  <1>4. CASE DownRefused(p)
    BY <1>0, <1>4, ExitStep DEF DownRefused, At
  <1> QED
    BY <1>1, <1>2, <1>3, <1>4

\* MigrateDown's file: every process counts as disturbed, and a MigrateUp
\* between the file and the INSERT of the dropped version is recorded.
LEMMA DownDropSafe ==
    ASSUME SafeInv, NEW p \in Proc, DownDrop(p)
    PROVE  SafeInv'
  <1>1. PICK v \in Version : v = proc[p].ver
    BY DEF DownDrop, At, SafeInv, TypeOK
  <1>2. ASSUME NEW q \in Proc
        PROVE  /\ proc'[q] \in ProcState /\ ~proc'[q].sound /\ proc'[q].ver = proc[q].ver
               /\ proc'[q].pc = IF q = p THEN "delete" ELSE proc[q].pc
    <2> DEFINE old == proc[q]
               state == [[old EXCEPT !.sound = FALSE]
                             EXCEPT !.pc = IF q = p THEN "delete" ELSE old.pc]
    <2>1. old \in ProcState
      BY DEF SafeInv, TypeOK
    <2>2. proc'[q] = state
      BY DEF DownDrop
    <2>3. state \in ProcState /\ ~state.sound /\ state.ver = old.ver
          /\ state.pc = IF q = p THEN "delete" ELSE old.pc
      BY <2>1 DEF ProcState
    <2> QED
      BY <2>2, <2>3
  <1>3. /\ applied' = applied \ {v} /\ recorded' = recorded
        /\ broken \subseteq broken' /\ broken' \subseteq Version
        /\ \A q \in Proc : At(q, "record") /\ proc[q].ver = v => v \in broken'
    BY <1>1 DEF DownDrop, SafeInv, TypeOK
  <1>4. factors' \in Seq(FactorRow) /\ Len(factors') <= MaxFactors
        /\ (factors' = factors \/ factors' = <<>>)
    <2>1. <<>> \in Seq(FactorRow) /\ Len(<<>>) <= MaxFactors
      BY EmptySeq, DeploymentAssumption
    <2> QED
      BY <2>1 DEF DownDrop, SafeInv, TypeOK
  <1>5. TypeOK'
    <2>1. proc' \in [Proc -> ProcState]
      BY <1>2 DEF DownDrop
    <2>2. \A q \in Proc : proc'[q].pc \in Working => proc'[q].ver \in Version
      BY <1>1, <1>2 DEF SafeInv, TypeOK, Working
    <2> QED
      BY <1>3, <1>4, <2>1, <2>2 DEF DownDrop, SafeInv, TypeOK, Working
  <1>6. RecordedMeansApplied'
    <2> SUFFICES ASSUME NEW w \in recorded, w \notin applied \/ w = v
                 PROVE  w \in broken' \/ \E q \in Proc : At(q, "delete")' /\ proc'[q].ver = w
      BY <1>3 DEF RecordedMeansApplied
    <2>1. CASE w = v
      BY <1>1, <1>2, <2>1 DEF At
    <2>2. CASE w # v
      BY <1>2, <1>3, <2>2 DEF SafeInv, RecordedMeansApplied, At
    <2> QED
      BY <2>1, <2>2
  <1>7. AppliedBeforeRecord'
    BY <1>2, <1>3 DEF SafeInv, AppliedBeforeRecord, At
  <1>8. SoundSeesPrefix'
    BY <1>2 DEF SoundSeesPrefix
  <1>9. KeysKnown'
    <2>0. /\ \A q \in Replica : At(q, "serving")' => At(q, "serving")
          /\ UNCHANGED <<env, envs>>
      <3>1. Replica \subseteq Proc
        BY DEF Proc
      <3>2. \A q \in Proc : At(q, "serving")' => At(q, "serving")
        BY <1>2 DEF At
      <3> QED
        BY <3>1, <3>2 DEF DownDrop
    <2>1. CASE factors' = factors
      BY <2>0, <2>1 DEF SafeInv, KeysKnown
    <2>2. CASE factors' = <<>>
      <3>1. DOMAIN factors' = 1..Len(factors') /\ Len(factors') = 0
        BY <1>4, <2>2, LenProperties, EmptySeq
      <3>2. DOMAIN factors' = {}
        BY <3>1
      <3> QED
        BY <2>0, <3>2 DEF SafeInv, KeysKnown
    <2> QED
      BY <1>4, <2>1, <2>2
  <1> QED
    BY <1>5, <1>6, <1>7, <1>8, <1>9 DEF SafeInv

\* A process that is in the middle of a rollback leaves nobody undisturbed.
LEMMA RollbackDisturbs ==
    ASSUME SafeInv, NEW p \in Proc, At(p, "delete")
    PROVE  \A q \in Proc : ~proc[q].sound
  BY DEF SafeInv, SoundSeesPrefix, RollbackUnderWay

\* MigrateDown's DELETE: the version is neither recorded nor half undone any
\* more, unless a MigrateUp is about to record it.
LEMMA DownDeleteSafe ==
    ASSUME SafeInv, NEW p \in Proc, DownDelete(p)
    PROVE  SafeInv'
  <1>1. PICK v \in Version : v = proc[p].ver
    BY DEF DownDelete, At, SafeInv, TypeOK
  <1>2. \A q \in Proc : proc'[q] = IF q = p THEN Off ELSE proc[q]
    BY DEF DownDelete, Exit, SafeInv, TypeOK
  <1>3. /\ applied' = applied /\ recorded' = recorded \ {v}
        /\ broken' \subseteq Version
        /\ \A w \in broken : w # v => w \in broken'
        /\ \A q \in Proc : At(q, "record") /\ proc[q].ver \in broken => proc[q].ver \in broken'
    BY <1>1 DEF DownDelete, SafeInv, TypeOK
  <1>4. TypeOK'
    BY <1>2, <1>3, OffFacts DEF DownDelete, Exit, SafeInv, TypeOK
  <1>5. RecordedMeansApplied'
    BY <1>1, <1>2, <1>3 DEF SafeInv, RecordedMeansApplied, At
  <1>6. AppliedBeforeRecord'
    BY <1>2, <1>3, OffFacts DEF SafeInv, AppliedBeforeRecord, At
  <1>7. SoundSeesPrefix'
    BY <1>2, OffFacts, RollbackDisturbs DEF DownDelete, SoundSeesPrefix
  <1>8. KeysKnown'
    <2>1. \A q \in Replica : At(q, "serving")' => At(q, "serving")
      BY <1>2, OffFacts DEF At, Proc
    <2> QED
      BY <2>1 DEF DownDelete, SafeInv, KeysKnown
  <1> QED
    BY <1>4, <1>5, <1>6, <1>7, <1>8 DEF SafeInv

\* A crash: the rows the process encrypted with its own key are lost, and a
\* rollback it had begun stays half undone.
LEMMA CrashSafe ==
    ASSUME SafeInv, NEW p \in Proc, Crash(p)
    PROVE  SafeInv'
  <1>1. \A q \in Proc : proc'[q] = IF q = p THEN Off ELSE proc[q]
    BY DEF Crash, Exit, SafeInv, TypeOK
  <1>2. /\ applied' = applied /\ recorded' = recorded
        /\ broken \subseteq broken' /\ broken' \subseteq Version
        /\ At(p, "delete") => proc[p].ver \in broken'
        /\ ~At(p, "delete") => broken' = broken
    BY DEF Crash, At, SafeInv, TypeOK
  <1>3. /\ factors' \in Seq(FactorRow) /\ Len(factors') = Len(factors)
        /\ DOMAIN factors' = DOMAIN factors
        /\ \A i \in DOMAIN factors : factors'[i].key \in {factors[i].key, "lost"}
        /\ \A i \in DOMAIN factors : factors[i].key # p => factors'[i].key = factors[i].key
    <2>1. /\ Len(factors) \in Nat /\ DOMAIN factors = 1..Len(factors)
          /\ \A i \in DOMAIN factors : factors[i] \in FactorRow
      BY LenProperties, ElementOfSeq DEF SafeInv, TypeOK
    <2>2. ASSUME NEW i \in DOMAIN factors
          PROVE  /\ factors'[i] \in FactorRow
                 /\ factors'[i].key \in {factors[i].key, "lost"}
                 /\ factors[i].key # p => factors'[i].key = factors[i].key
      <3>1. factors'[i] = IF factors[i].key = p THEN [factors[i] EXCEPT !.key = "lost"]
                                                ELSE factors[i]
        BY DEF Crash, LoseKey
      <3> QED
        BY <2>1, <3>1 DEF FactorRow, FactorKey
    <2>3. factors' = [i \in 1..Len(factors) |-> factors'[i]]
      BY <2>1 DEF Crash, LoseKey
    <2>4. factors' \in [1..Len(factors) -> FactorRow]
      BY <2>1, <2>2, <2>3
    <2> QED
      BY <2>1, <2>2, <2>3, <2>4
  <1>4. TypeOK'
    BY <1>1, <1>2, <1>3, OffFacts, DeploymentAssumption DEF Crash, Exit, SafeInv, TypeOK
  <1>5. RecordedMeansApplied'
    BY <1>1, <1>2 DEF SafeInv, RecordedMeansApplied, At
  <1>6. AppliedBeforeRecord'
    BY <1>1, <1>2, OffFacts DEF SafeInv, AppliedBeforeRecord, At
  <1>7. SoundSeesPrefix'
    <2>1. CASE At(p, "delete")
      BY <1>1, <2>1, OffFacts, RollbackDisturbs DEF SoundSeesPrefix
    <2>2. CASE ~At(p, "delete")
      <3>1. ~RollbackUnderWay => ~RollbackUnderWay'
        BY <1>1, OffFacts DEF RollbackUnderWay, At
      <3> QED
        BY <1>1, <1>2, <2>2, <3>1, OffFacts DEF SafeInv, SoundSeesPrefix, SeesPrefix
    <2> QED
      BY <2>1, <2>2
  <1>8. KeysKnown'
    <2>1. \A q \in Replica : At(q, "serving")' => q # p /\ At(q, "serving")
      BY <1>1, OffFacts DEF At, Proc
    <2>2. envs' = envs /\ \A q \in Replica : q # p => env'[q] = env[q]
      BY DEF Crash
    <2>3. ASSUME NEW i \in DOMAIN factors PROVE factors'[i].key \in envs \/ NoKey \in envs
      <3>1. CASE factors[i].key = p
        <4>1. p \notin Key /\ envs \subseteq Key \cup {NoKey}
          BY DeploymentAssumption DEF SafeInv, TypeOK
        <4> QED
          BY <3>1, <4>1 DEF SafeInv, KeysKnown
      <3>2. CASE factors[i].key # p
        BY <1>3, <3>2 DEF SafeInv, KeysKnown
      <3> QED
        BY <3>1, <3>2
    <2> QED
      BY <1>3, <2>1, <2>2, <2>3 DEF SafeInv, KeysKnown
  <1> QED
    BY <1>4, <1>5, <1>6, <1>7, <1>8 DEF SafeInv

\* A step that touches only the factors keeps the migration's half.
LEMMA FactorStep ==
    ASSUME SafeInv, factors' \in Seq(FactorRow), Len(factors') <= MaxFactors,
           KeysKnown',
           UNCHANGED <<env, envs, ledger, recorded, applied, proc, faults, rollbacks, broken>>
    PROVE  SafeInv'
  <1>1. TypeOK'
    BY DEF SafeInv, TypeOK
  <1>2. RecordedMeansApplied' /\ AppliedBeforeRecord'
    BY DEF SafeInv, RecordedMeansApplied, AppliedBeforeRecord, At
  <1>3. SoundSeesPrefix'
    BY DEF SafeInv, SoundSeesPrefix, SeesPrefix, RollbackUnderWay, At
  <1> QED
    BY <1>1, <1>2, <1>3 DEF SafeInv

\* The key a replica encrypts with: that of its environment, or its own.
LEMMA KeyFacts ==
    ASSUME TypeOK, NEW p \in Replica
    PROVE  /\ NewEncryptorFromEnv(p) \in FactorKey
           /\ NewEncryptorFromEnv(p) = env[p] \/ env[p] = NoKey
  BY DEF TypeOK, NewEncryptorFromEnv, FactorKey

\* EnrollMFA appends a row encrypted with the replica's key.
LEMMA EnrollSafe ==
    ASSUME SafeInv, NEW p \in Replica, EnrollMFA(p)
    PROVE  SafeInv'
  <1>1. PICK row \in FactorRow :
            row.key = NewEncryptorFromEnv(p) /\ factors' = Append(factors, row)
    <2> DEFINE row == [key |-> NewEncryptorFromEnv(p), state |-> "pending"]
    <2>1. row \in FactorRow
      BY KeyFacts DEF FactorRow, SafeInv, TypeOK
    <2>2. factors' = Append(factors, row)
      BY DEF EnrollMFA
    <2> QED
      BY <2>1, <2>2
  <1>2. factors \in Seq(FactorRow) /\ Len(factors) \in Nat /\ DOMAIN factors = 1..Len(factors)
    BY LenProperties DEF SafeInv, TypeOK
  <1>3. /\ factors' \in Seq(FactorRow) /\ Len(factors') = Len(factors) + 1
        /\ \A i \in 1..Len(factors) : factors'[i] = factors[i]
        /\ factors'[Len(factors) + 1] = row
    BY <1>1, <1>2, AppendProperties
  <1>4. DOMAIN factors' = 1..(Len(factors) + 1)
    BY <1>3, LenProperties
  <1>5. Len(factors') <= MaxFactors
    BY <1>2, <1>3, DeploymentAssumption DEF EnrollMFA
  <1>6. KeysKnown'
    <2>0. /\ UNCHANGED <<env, envs, proc>>
          /\ \A q \in Replica : At(q, "serving")' => env[q] \in envs
          /\ env[p] \in envs
      BY DEF EnrollMFA, Serves, At, SafeInv, KeysKnown
    <2> SUFFICES ASSUME NEW i \in 1..(Len(factors) + 1)
                 PROVE  factors'[i].key \in envs \/ NoKey \in envs
      BY <1>4, <2>0 DEF KeysKnown
    <2>1. CASE i \in 1..Len(factors)
      BY <1>2, <1>3, <2>1 DEF SafeInv, KeysKnown
    <2>2. CASE i = Len(factors) + 1
      BY <1>1, <1>3, <2>0, <2>2, KeyFacts DEF SafeInv
    <2> QED
      BY <1>2, <2>1, <2>2
  <1> QED
    BY <1>3, <1>5, <1>6, FactorStep DEF EnrollMFA

\* VerifyMFA confirms a row and keeps its key.
LEMMA VerifySafe ==
    ASSUME SafeInv, NEW p \in Replica, NEW i \in DOMAIN factors, VerifyMFA(p, i)
    PROVE  SafeInv'
  <1>1. /\ factors \in Seq(FactorRow) /\ Len(factors) <= MaxFactors
        /\ i \in 1..Len(factors) /\ DOMAIN factors = 1..Len(factors)
        /\ factors[i] \in FactorRow
    BY LenProperties, ElementOfSeq DEF SafeInv, TypeOK
  <1>2. PICK row \in FactorRow : row.key = factors[i].key /\ factors' = [factors EXCEPT ![i] = row]
    <2> DEFINE row == [factors[i] EXCEPT !.state = "confirmed"]
    <2>1. row \in FactorRow /\ row.key = factors[i].key
      BY <1>1 DEF FactorRow
    <2>2. factors' = [factors EXCEPT ![i] = row]
      BY DEF VerifyMFA
    <2> QED
      BY <2>1, <2>2
  <1>3. /\ factors' \in Seq(FactorRow) /\ Len(factors') = Len(factors)
        /\ \A j \in 1..Len(factors) : factors'[j] = IF j = i THEN row ELSE factors[j]
    BY <1>1, <1>2, ExceptSeq
  <1>4. KeysKnown'
    <2>1. DOMAIN factors' = DOMAIN factors
      BY <1>2
    <2> QED
      BY <1>1, <1>2, <1>3, <2>1 DEF VerifyMFA, At, SafeInv, KeysKnown
  <1> QED
    BY <1>1, <1>3, <1>4, FactorStep DEF VerifyMFA

\* Every step of every process keeps the invariant.
LEMMA NextSafe ==
    ASSUME SafeInv, [Next]_vars
    PROVE  SafeInv'
  <1>1. CASE UNCHANGED vars
    BY <1>1, FactorStep DEF vars, SafeInv, TypeOK, KeysKnown, At
  <1>2. ASSUME NEW p \in Proc, StartUp(p) \/ StartDown(p) \/ Step(p) \/ Crash(p)
        PROVE  SafeInv'
    BY <1>2, UpSafe, OpenSafe, DownBeginSafe, DownDropSafe, DownDeleteSafe, CrashSafe DEF Step
  <1>3. ASSUME NEW p \in Replica, EnrollMFA(p) PROVE SafeInv'
    BY <1>3, EnrollSafe
  <1>4. ASSUME NEW p \in Replica, NEW i \in DOMAIN factors, VerifyMFA(p, i) PROVE SafeInv'
    BY <1>4, VerifySafe
  <1> QED
    BY <1>1, <1>2, <1>3, <1>4 DEF Next

-----------------------------------------------------------------------------
\* The invariant holds however starts, rollbacks and crashes interleave.
THEOREM Safety == Spec => []SafeInv
  <1> QED
    BY InitSafe, NextSafe, PTL DEF Spec

\* Every variable keeps its type; a process at a version is at one that exists.
THEOREM TypeCorrect == Spec => []TypeOK
  <1>1. SafeInv => TypeOK
    BY DEF SafeInv
  <1> QED
    BY <1>1, Safety, PTL

\* A version MigrateUp recorded has its tables, but for the three kinds of
\* unfinished rollback that RecordedMeansApplied names.
THEOREM RecordedApplied == Spec => []RecordedMeansApplied
  <1>1. SafeInv => RecordedMeansApplied
    BY DEF SafeInv
  <1> QED
    BY <1>1, Safety, PTL

\* newStoreFromEnv opens its store on the whole schema, if no rollback
\* disturbed the start.
THEOREM ServingSchema == Spec => []ServingSeesSchema
  <1>1. SafeInv => ServingSeesSchema
    BY DEF SafeInv, SoundSeesPrefix, SeesPrefix, ServingSeesSchema, At, Proc
  <1> QED
    BY <1>1, Safety, PTL

\* confirmedFactors comes back empty for an account with a confirmed factor only
\* when its SELECT delivers no row, or replicas were not all started with one key.
THEOREM ChallengeSkipped == Spec => []ChallengeSkippedOnlyAcrossKeys
  <1>1. SafeInv => ChallengeSkippedOnlyAcrossKeys
    <2> SUFFICES ASSUME SafeInv, NEW p \in Replica, Serves(p), NEW got \in SUBSET Confirmed,
                        got # {}, OneKey
                 PROVE  confirmedFactors(p, got) # {}
      BY DEF ChallengeSkippedOnlyAcrossKeys
    <2>1. PICK k \in Key : envs \subseteq {k}
      BY DEF OneKey
    <2>2. NoKey \notin envs
      BY <2>1, DeploymentAssumption
    <2>3. NewEncryptorFromEnv(p) = k
      BY <2>1, <2>2, KeyFacts DEF Serves, SafeInv, KeysKnown
    <2>4. \A i \in got : factors[i].key = k
      BY <2>1, <2>2 DEF Confirmed, SafeInv, KeysKnown
    <2> QED
      BY <2>3, <2>4 DEF confirmedFactors
  <1> QED
    BY <1>1, Safety, PTL
=============================================================================
