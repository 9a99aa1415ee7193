---------------------------- MODULE RecoveryProofs ----------------------------
(* The monitor process keeps the promises of the recovery policy: Recovery          *)
(* implements Automation, proved for every value of the constants, with the         *)
(* invariants of the worker that the proof needs.                                   *)
EXTENDS Recovery, TLAPS

\* What the worker's place says of its local variables.  The two clock readings it
\* compares are in order, and a verdict is reached once.
WorkerInv ==
    /\ worker.held <= clock /\ worker.from <= clock
    /\ worker.pc \notin {"probe", "sleep", "recheck", "begin"} => worker.held = 0
    /\ worker.pc = "sleep" => worker.held <= worker.from
    /\ worker.pc = "recheck" => worker.held + ConfirmDelay <= clock
    /\ worker.issued => worker.pc \in {"verify", "settle"}
    /\ worker.pc = "verify" => worker.issued
    /\ worker.pc = "settle" <=> worker.verdict # "none"
    /\ worker.verdict = "cancelled" => ~worker.issued
    /\ worker.verdict = "success" => worker.issued

\* Whatever is held or published as newer than the reservation, and shows Asterisk
\* well, was witnessed by the health loop.
EvidenceInv ==
    /\ since.loop /\ loop.obs.kind = "online" => since.witnessed
    /\ since.system /\ system.kind = "online" => since.witnessed
    /\ SuccessIsWitnessed

RInv == TypeOK /\ LockIffWorker /\ WorkerInv /\ EvidenceInv

Workers == [pc : WorkerSteps, at : 0..MaxClock, held : 0..MaxClock, from : 0..MaxClock,
            stable : 0..StableChecks, verdict : Verdicts, issued : BOOLEAN]
FileOK == auto \in PolicyRecord /\ Normalized(auto)

\* What Recovery's step is for Automation.
Refines == Policy!Next \/ UNCHANGED Policy!vars
Mapped == <<Stage, worker.held, IF Stage = "reserved" THEN worker.from ELSE 0>>

-------------------------------------------------------------------------------
(* The record on file. *)

\* Automation's operators are those of AutomationPolicy.
LEMMA SamePolicy ==
    /\ Policy!PolicyRecord = PolicyRecord /\ Policy!DefaultRecord = DefaultRecord
    /\ \A old, new : Policy!Saved(old, new) = Saved(old, new)
    /\ \A s, now : /\ Policy!Armed(s, now) = Armed(s, now)
                   /\ Policy!Exhausted(s, now) = Exhausted(s, now)
                   /\ Policy!Escalated(s, now) = Escalated(s, now)
                   /\ Policy!Reserved(s, now) = Reserved(s, now)
    /\ \A s : Policy!Withdrawn(s) = Withdrawn(s)
    /\ \A s, on : Policy!MaintenanceSet(s, on) = MaintenanceSet(s, on)
    /\ \A s, now, well : /\ Policy!ObservedHealth(s, now, well) = ObservedHealth(s, now, well)
                         /\ Policy!Concluded(s, now, well) = Concluded(s, now, well)
<1>1. /\ Policy!PolicyRecord = PolicyRecord /\ Policy!DefaultRecord = DefaultRecord
      /\ \A s, now : Policy!Prune(s, now) = Prune(s, now)
      /\ \A s : Policy!Resting(s) = Resting(s) /\ Policy!Normalized(s) = Normalized(s)
  BY DEF Policy!PolicyRecord, PolicyRecord, Policy!DefaultRecord, DefaultRecord, Policy!Modes,
         Modes, Policy!Never, Never, Policy!Prune, Prune, Policy!Resting, Resting,
         Policy!Normalized, Normalized
<1>2. \A old, new : Policy!Saved(old, new) = Saved(old, new)
  BY <1>1 DEF Policy!Saved, Saved
<1>3. \A s, now : Policy!Armed(s, now) = Armed(s, now) /\ Policy!Exhausted(s, now) = Exhausted(s, now)
  <2>1. \A s, now : Policy!Armed(s, now) = Armed(s, now)
    BY DEF Policy!Armed, Armed
  <2>2. \A s, now : Policy!WindowAttempts(s, now) = WindowAttempts(s, now)
    BY DEF Policy!WindowAttempts, WindowAttempts
  <2>3. \A s, now : Policy!Exhausted(s, now) = Exhausted(s, now)
    <3>1. \A S : Policy!Cardinality(S) = Cardinality(S)
      BY Zenon DEF Policy!Cardinality, Cardinality
    <3>. QED
      BY <2>2, <3>1, Zenon DEF Policy!Exhausted, Exhausted
  <2>. QED
    BY <2>1, <2>3
<1>4. \A s, now : Policy!Escalated(s, now) = Escalated(s, now) /\ Policy!Reserved(s, now) = Reserved(s, now)
  BY <1>1 DEF Policy!Escalated, Escalated, Policy!Reserved, Reserved, Policy!Never, Never
<1>5. \A s : Policy!Withdrawn(s) = Withdrawn(s)
  BY <1>1 DEF Policy!Withdrawn, Withdrawn, Policy!Latest, Latest
<1>6. \A s, on : Policy!MaintenanceSet(s, on) = MaintenanceSet(s, on)
  BY DEF Policy!MaintenanceSet, MaintenanceSet
<1>7. \A s, now, well : Policy!ObservedHealth(s, now, well) = ObservedHealth(s, now, well)
  <2>1. \A s, now, well : Policy!HealthySince(s, now, well) = HealthySince(s, now, well)
    BY DEF Policy!HealthySince, HealthySince, Policy!Never, Never
  <2>2. \A s, now, well : Policy!Settled(s, now, well) = Settled(s, now, well)
    BY <2>1 DEF Policy!Settled, Settled
  <2>3. \A s, now, well : Policy!Forgives(s, now, well) = Forgives(s, now, well)
    BY <1>1, <2>2 DEF Policy!Forgives, Forgives, Policy!Owing, Owing
  <2>4. ASSUME NEW s, NEW now, NEW well
        PROVE  Policy!ObservedHealth(s, now, well) = ObservedHealth(s, now, well)
    BY <1>1, <2>1, <2>2, <2>3, Zenon DEF Policy!ObservedHealth, ObservedHealth
  <2>. QED
    BY <2>4
<1>8. \A s, now, well : Policy!Concluded(s, now, well) = Concluded(s, now, well)
  <2>1. \A s, now : Policy!Passed(s, now) = Passed(s, now)
    BY <1>3 DEF Policy!Passed, Passed
  <2>2. \A k : Policy!Backoff(k) = Backoff(k)
    BY DEF Policy!Backoff, Backoff, Policy!Lower, Lower
  <2>3. \A s, now : Policy!Failed(s, now) = Failed(s, now)
    BY <1>3, <2>2 DEF Policy!Failed, Failed
  <2>. QED
    BY <2>1, <2>3 DEF Policy!Concluded, Concluded
<1>. QED
  BY <1>1, <1>2, <1>3, <1>4, <1>5, <1>6, <1>7, <1>8

\* What the policy's operations make of a record is one.
LEMMA RecordsKept ==
    ASSUME NEW s \in PolicyRecord, NEW now \in Nat, NEW b \in BOOLEAN
    PROVE  /\ ObservedHealth(s, now, b) \in PolicyRecord /\ MaintenanceSet(s, b) \in PolicyRecord
           /\ Escalated(s, now) \in PolicyRecord /\ Reserved(s, now) \in PolicyRecord
           /\ Withdrawn(s) \in PolicyRecord /\ Concluded(s, now, b) \in PolicyRecord
<1>. DEFINE exponent(k) == IF k = 0 THEN 0 ELSE Lower(30, k - 1)
<1>1. /\ now + MaxBackoff \in Nat /\ now + MinCooldown \in Nat
      /\ \A k \in Nat : now + Backoff(k) \in Nat
  <2>1. \A k \in Nat : exponent(k) \in 0..30
    BY DEF Lower
  <2>2. ASSUME NEW k \in Nat PROVE Backoff(k) \in Nat
    <3>1. 2^exponent(k) \in Nat
      BY <2>1, DoublingAssumption
    <3>. HIDE DEF exponent
    <3>2. \A p \in Nat : MinCooldown * p \in Nat
      BY PolicyAssumption
    <3>3. Backoff(k) = Lower(MaxBackoff, MinCooldown * 2^exponent(k))
      BY DEF Backoff, exponent
    <3>. QED
      BY <3>1, <3>2, <3>3, PolicyAssumption DEF Lower
  <2>. QED
    BY <2>2, PolicyAssumption
<1>. HIDE DEF exponent
<1>2. HealthySince(s, now, b) \in Nat \cup {Never} /\ Resting(s) \in Modes
  BY DEF HealthySince, PolicyRecord, Resting, Modes
<1>3. ObservedHealth(s, now, b) \in PolicyRecord
  <2>1. CASE Forgives(s, now, b)
    BY <1>2, <2>1 DEF ObservedHealth, Prune, PolicyRecord, Modes
  <2>2. CASE ~Forgives(s, now, b)
    BY <1>2, <2>2 DEF ObservedHealth, Prune, PolicyRecord, Modes
  <2>. QED
    BY <2>1, <2>2
<1>4. MaintenanceSet(s, b) \in PolicyRecord
  BY DEF MaintenanceSet, PolicyRecord, Modes
<1>5. Escalated(s, now) \in PolicyRecord /\ Reserved(s, now) \in PolicyRecord
  BY <1>1 DEF Escalated, Reserved, Prune, PolicyRecord, Modes
<1>6. Withdrawn(s) \in PolicyRecord
  BY <1>2 DEF Withdrawn, PolicyRecord
<1>7. Concluded(s, now, b) \in PolicyRecord
  <2>1. s.failures + 1 \in Nat /\ now + Backoff(s.failures + 1) \in Nat
    BY <1>1 DEF PolicyRecord
  <2>. QED
    BY <1>1, <2>1 DEF Concluded, Passed, Failed, PolicyRecord, Modes
<1>. QED
  BY <1>3, <1>4, <1>5, <1>6, <1>7

\* save_state leaves a record that load_state accepts.
LEMMA WriteKeeps ==
    ASSUME FileOK, NEW new \in PolicyRecord, auto' \in {auto, Saved(auto, new)}
    PROVE  FileOK'
BY DEF FileOK, Saved

\* recovery_allowed writes nothing or the escalation.
LEMMA AskedKeeps == ASSUME FileOK, clock \in Nat, NEW at, Asked(at) PROVE FileOK'
<1>1. Escalated(auto, clock) \in PolicyRecord
  BY RecordsKept DEF FileOK
<1>. QED
  BY <1>1, WriteKeeps DEF Asked

\* TypeOK, with the attempt's stage left out: the worker's type implies it.
Types ==
    /\ clock \in 0..MaxClock /\ FileOK /\ damaged \in BOOLEAN
    /\ service \in BOOLEAN /\ lock \in BOOLEAN
    /\ loop \in [pc : LoopSteps, obs : Observations] /\ system \in Observations
    /\ since \in SinceStart /\ worker \in Workers /\ faults \in 0..MaxFaults

LEMMA TypeParts == TypeOK <=> Types
<1>1. worker \in Workers => worker.held \in Nat /\ worker.from \in Nat /\ worker.pc \in WorkerSteps
  BY RecoveryAssumption DEF Workers
<1>2. Stage \in Policy!Stages
  BY DEF Stage, Policy!Stages
<1>. QED
  BY <1>1, <1>2, SamePolicy DEF TypeOK, Types, Policy!TypeOK, FileOK, Workers

LEMMA NextTypeParts == TypeOK' <=> Types'
BY TypeParts, PTL

\* A step that leaves the worker alone leaves Automation's attempt alone.
LEMMA SameAttempt == ASSUME worker' = worker PROVE Mapped' = Mapped
BY DEF Mapped, Stage

LEMMA SameAll ==
    ASSUME UNCHANGED <<clock, auto, damaged>>, Mapped' = Mapped PROVE Refines
BY DEF Refines, Mapped, Policy!vars

\* Nor does the question, unless it is answered by an escalation.
LEMMA AskedRefines ==
    ASSUME NEW at, Asked(at), UNCHANGED <<clock, damaged>>, Mapped' = Mapped PROVE Refines
<1>1. CASE Escalates(at)
  <2>1. Policy!Escalate
    BY <1>1, SamePolicy DEF Asked, Escalates, Policy!Escalate, Policy!Write, Mapped
  <2>. QED
    BY <2>1 DEF Refines, Policy!Next
<1>2. CASE ~Escalates(at)
  BY <1>2, SameAll DEF Asked
<1>. QED
  BY <1>1, <1>2

\* A worker that has done nothing yet.
LEMMA FreshWorker ==
    ASSUME NEW step \in WorkerSteps PROVE [NoWorker EXCEPT !.pc = step] \in Workers
<1>1. NoWorker \in Workers
  BY RecoveryAssumption DEF NoWorker, Workers, WorkerSteps, Verdicts
<1>. QED
  BY <1>1 DEF Workers

\* None at all.
LEMMA Idler == NoWorker \in Workers
BY RecoveryAssumption DEF NoWorker, Workers, WorkerSteps, Verdicts

\* One that has decided.
LEMMA Settling ==
    ASSUME NEW verdict \in Verdicts
    PROVE  [NoWorker EXCEPT !.pc = "settle", !.issued = TRUE, !.verdict = verdict] \in Workers
<1>. DEFINE settling == [NoWorker EXCEPT !.pc = "settle"]
<1>1. settling \in Workers
  BY FreshWorker DEF WorkerSteps
<1>2. [NoWorker EXCEPT !.pc = "settle", !.issued = TRUE, !.verdict = verdict]
         = [settling EXCEPT !.issued = TRUE, !.verdict = verdict]
  OBVIOUS
<1>. HIDE DEF settling
<1>. QED
  BY <1>1, <1>2 DEF Workers

LEMMA Zero == 0 \in 0..MaxClock /\ 0 \in 0..StableChecks
BY RecoveryAssumption

LEMMA ClockType == ASSUME TypeOK PROVE clock \in Nat
BY TypeParts, RecoveryAssumption DEF Types

-------------------------------------------------------------------------------
(* The health loop. *)

LEMMA CollectStep == ASSUME RInv, Collect PROVE RInv' /\ Refines
<1>. USE DEF Collect, policyVars
<1>1. Types
  BY TypeParts DEF RInv
<1>2. PICK kind \in Seen(service) :
         /\ loop' = [pc |-> "publish", obs |-> Observation(kind)]
         /\ since' = [since EXCEPT !.loop = Attempting,
                                   !.witnessed = @ \/ (Attempting /\ kind = "online")]
  OBVIOUS
<1>3. Observation(kind) \in Observations
  BY <1>1, RecoveryAssumption DEF Types, Observation, Observations, Seen, Kinds
<1>4. /\ since' \in SinceStart
      /\ since' = [loop |-> Attempting, system |-> since.system,
                   witnessed |-> since.witnessed \/ (Attempting /\ kind = "online"),
                   intelligence |-> since.intelligence]
  <2>. DEFINE noted == since.witnessed \/ (Attempting /\ kind = "online")
  <2>1. Attempting \in BOOLEAN /\ noted \in BOOLEAN
    BY <1>1 DEF Attempting, Types, SinceStart
  <2>2. since' = [since EXCEPT !.loop = Attempting, !.witnessed = noted]
    BY <1>2
  <2>. HIDE DEF noted
  <2>3. since' = [loop |-> Attempting, system |-> since.system, witnessed |-> noted,
                 intelligence |-> since.intelligence]
    BY <1>1, <2>1, <2>2 DEF Types, SinceStart
  <2>4. since' \in SinceStart
    BY <1>1, <2>1, <2>3 DEF Types, SinceStart
  <2>. QED
    BY <2>3, <2>4 DEF noted
<1>6. TypeOK'
  BY <1>1, <1>2, <1>3, <1>4, NextTypeParts DEF Types, LoopSteps, FileOK, Workers
<1>7. LockIffWorker' /\ WorkerInv'
  BY DEF RInv, LockIffWorker, WorkerInv
<1>8. EvidenceInv'
  BY <1>2, <1>4 DEF RInv, EvidenceInv, SuccessIsWitnessed, Observation
<1>9. Refines
  BY SameAttempt, SameAll
<1>. QED
  BY <1>6, <1>7, <1>8, <1>9 DEF RInv

LEMMA PublishStep == ASSUME RInv, Publish PROVE RInv' /\ Refines
<1>. USE DEF Publish
<1>. DEFINE well == loop.obs.kind = "online"
            new == ObservedHealth(auto, clock, well)
<1>0. clock \in Nat /\ FileOK /\ well \in BOOLEAN
  BY TypeParts, ClockType DEF RInv, Types
<1>1. FileOK'
  <2>1. new \in PolicyRecord
    BY <1>0, RecordsKept DEF FileOK
  <2>2. auto' \in {auto, Saved(auto, new)}
    BY SamePolicy DEF Policy!Write
  <2>. QED
    BY <1>0, <2>1, <2>2, WriteKeeps
<1>2. TypeOK'
  <2>1. Types
    BY TypeParts DEF RInv
  <2>2. loop' \in [pc : LoopSteps, obs : Observations] /\ system' \in Observations
    BY <2>1, RecoveryAssumption
    DEF Types, Idle, NoObservation, LoopSteps, Observations, Kinds
  <2>3. since' \in SinceStart /\ faults' \in 0..MaxFaults
    BY <2>1, RecoveryAssumption DEF Types, SinceStart, Fault
  <2>. QED
    BY <1>1, <2>1, <2>2, <2>3, NextTypeParts DEF Types, Workers
<1>3. LockIffWorker' /\ WorkerInv'
  BY DEF RInv, LockIffWorker, WorkerInv
<1>4. EvidenceInv'
  BY TypeParts DEF Types, RInv, EvidenceInv, SuccessIsWitnessed, Idle, NoObservation, SinceStart
<1>5. Policy!ObserveHealth(well)
  <2>1. Mapped' = Mapped
    BY SameAttempt
  <2>. QED
    BY <2>1, SamePolicy DEF Policy!ObserveHealth, Policy!Write, Mapped
<1>6. Refines
  BY <1>0, <1>5 DEF Refines, Policy!Next
<1>. QED
  BY <1>2, <1>3, <1>4, <1>6 DEF RInv

LEMMA AskStep == ASSUME RInv, Ask PROVE RInv' /\ Refines
<1>. USE DEF Ask
<1>1. Types /\ clock \in Nat /\ FileOK
  BY TypeParts, ClockType DEF RInv, Types
<1>2. FileOK'
  BY <1>1, AskedKeeps
<1>3. TypeOK'
  <2>1. loop' \in [pc : LoopSteps, obs : Observations]
    BY <1>1, RecoveryAssumption DEF Types, Idle, NoObservation, LoopSteps, Observations, Kinds
  <2>. QED
    BY <1>1, <1>2, <2>1, NextTypeParts DEF Types, Workers
<1>4. LockIffWorker' /\ WorkerInv' /\ EvidenceInv'
  BY DEF RInv, LockIffWorker, WorkerInv, EvidenceInv, SuccessIsWitnessed, Idle, NoObservation
<1>5. Refines
  BY SameAttempt, AskedRefines
<1>. QED
  BY <1>3, <1>4, <1>5 DEF RInv

LEMMA LaunchStep == ASSUME RInv, Launch PROVE RInv' /\ Refines
<1>. USE DEF Launch, policyVars
<1>1. Types
  BY TypeParts DEF RInv
<1>2. \/ worker' = worker /\ lock' = lock
      \/ worker' = [NoWorker EXCEPT !.pc = "load"] /\ lock' = TRUE /\ worker.pc = "none"
  <2>1. CASE lock \/ clock + ConfirmDelay > MaxClock
    BY <2>1
  <2>2. CASE ~(lock \/ clock + ConfirmDelay > MaxClock)
    <3>1. lock' = TRUE /\ worker' = [NoWorker EXCEPT !.pc = "load"]
      BY <2>2
    <3>2. worker.pc = "none"
      BY <2>2 DEF RInv, LockIffWorker
    <3>. QED
      BY <3>1, <3>2
  <2>. QED
    BY <2>1, <2>2
<1>3. worker' \in Workers /\ lock' \in BOOLEAN
  BY <1>1, <1>2, FreshWorker DEF Types, WorkerSteps, Early
<1>4. TypeOK'
  <2>1. loop' \in [pc : LoopSteps, obs : Observations]
    BY <1>1 DEF Types, LoopSteps
  <2>. QED
    BY <1>1, <1>3, <2>1, NextTypeParts DEF Types, FileOK
<1>5. LockIffWorker' /\ WorkerInv' /\ EvidenceInv'
  BY <1>1, <1>2, RecoveryAssumption
  DEF Types, RInv, LockIffWorker, WorkerInv, EvidenceInv, SuccessIsWitnessed, NoWorker
<1>6. Mapped' = Mapped
  <2>1. CASE worker' = worker
    BY <2>1, SameAttempt
  <2>2. CASE worker' = [NoWorker EXCEPT !.pc = "load"] /\ worker.pc = "none"
    BY <2>2 DEF Mapped, Stage, NoWorker, RInv, WorkerInv
  <2>. QED
    BY <1>2, <2>1, <2>2
<1>7. Refines
  BY <1>6, SameAll
<1>. QED
  BY <1>4, <1>5, <1>7 DEF RInv

LEMMA EnrichStep == ASSUME RInv, Enrich PROVE RInv' /\ Refines
<1>. USE DEF Enrich, policyVars
<1>1. Types
  BY TypeParts DEF RInv
<1>2. TypeOK'
  <2>1. loop' \in [pc : LoopSteps, obs : Observations] /\ since' \in SinceStart
    BY <1>1, RecoveryAssumption
    DEF Types, Idle, NoObservation, LoopSteps, Observations, Kinds, SinceStart
  <2>. QED
    BY <1>1, <2>1, NextTypeParts DEF Types, FileOK, Workers
<1>3. LockIffWorker' /\ WorkerInv' /\ EvidenceInv'
  BY <1>1 DEF Types, SinceStart, RInv, LockIffWorker, WorkerInv, EvidenceInv,
              SuccessIsWitnessed, Idle, NoObservation
<1>4. Refines
  BY SameAttempt, SameAll
<1>. QED
  BY <1>2, <1>3, <1>4 DEF RInv

LEMMA LoopFailsStep == ASSUME RInv, LoopFails PROVE RInv' /\ Refines
<1>. USE DEF LoopFails, Fault, policyVars
<1>1. Types
  BY TypeParts DEF RInv
<1>2. TypeOK'
  <2>1. loop' \in [pc : LoopSteps, obs : Observations] /\ faults' \in 0..MaxFaults
    BY <1>1, RecoveryAssumption DEF Types, Idle, NoObservation, LoopSteps, Observations, Kinds
  <2>. QED
    BY <1>1, <2>1, NextTypeParts DEF Types, FileOK, Workers
<1>3. LockIffWorker' /\ WorkerInv' /\ EvidenceInv'
  BY DEF RInv, LockIffWorker, WorkerInv, EvidenceInv, SuccessIsWitnessed, Idle, NoObservation
<1>4. Refines
  BY SameAttempt, SameAll
<1>. QED
  BY <1>2, <1>3, <1>4 DEF RInv

-------------------------------------------------------------------------------
(* The worker. *)

\* What every way out leaves behind.
LEMMA LeaveKeeps ==
    ASSUME RInv, worker.pc # "none", Leave, UNCHANGED <<clock, loop, system, lock>>
    PROVE  /\ worker' \in Workers /\ since' \in SinceStart
           /\ LockIffWorker' /\ WorkerInv' /\ EvidenceInv'
           /\ Mapped' = <<"none", 0, 0>>
<1>. USE DEF Leave
<1>0. clock \in Nat
  BY ClockType DEF RInv
<1>1. worker' \in Workers
  BY FreshWorker DEF WorkerSteps
<1>2. since' \in SinceStart
  BY DEF NothingSince, SinceStart
<1>3. /\ worker'.pc = "exit" /\ worker'.held = 0 /\ worker'.from = 0
      /\ worker'.verdict = "none" /\ worker'.issued = FALSE
  BY DEF NoWorker
<1>4. LockIffWorker'
  BY <1>3 DEF RInv, LockIffWorker
<1>5. WorkerInv'
  BY <1>0, <1>3 DEF WorkerInv
<1>6. EvidenceInv'
  BY <1>3 DEF EvidenceInv, SuccessIsWitnessed, NothingSince
<1>7. Mapped' = <<"none", 0, 0>>
  BY <1>3 DEF Mapped, Stage
<1>. QED
  BY <1>1, <1>2, <1>4, <1>5, <1>6, <1>7

\* Whatever the worker does, the types it does not touch stay.
LEMMA WorkerTypes ==
    ASSUME RInv, FileOK', worker' \in Workers, since' \in SinceStart, service' \in BOOLEAN,
           lock' \in BOOLEAN, UNCHANGED <<clock, damaged, loop, system, faults>>
    PROVE  TypeOK'
<1>1. Types
  BY TypeParts DEF RInv
<1>. QED
  BY <1>1, NextTypeParts DEF Types

\* The end of the attempt, however it came.
LEMMA EndsAttempt == ASSUME Mapped' = <<"none", 0, 0>> PROVE Policy!Ends
BY DEF Mapped, Policy!Ends

LEMMA LeaveRefines ==
    ASSUME RInv, Mapped' = <<"none", 0, 0>>, UNCHANGED <<clock, auto, damaged>> PROVE Refines
<1>1. CASE Stage = "none"
  <2>1. worker.pc \notin {"probe", "sleep", "recheck", "begin"}
    BY <1>1 DEF Stage
  <2>2. Mapped = <<"none", 0, 0>>
    BY <1>1, <2>1 DEF RInv, WorkerInv, Mapped
  <2>. QED
    BY <2>2, SameAll
<1>2. CASE Stage # "none"
  <2>1. Policy!WorkerLost
    BY <1>2, EndsAttempt DEF Policy!WorkerLost
  <2>. QED
    BY <2>1 DEF Refines, Policy!Next
<1>. QED
  BY <1>1, <1>2

LEMMA LoadStep == ASSUME RInv, Load PROVE RInv' /\ Refines
<1>. USE DEF Load, policyVars
<1>1. Types
  BY TypeParts DEF RInv
<1>2. Mapped = <<"none", 0, 0>>
  BY DEF RInv, WorkerInv, Mapped, Stage
<1>3. CASE system.kind = "offline"
  <2>1. worker' = [worker EXCEPT !.pc = "check", !.at = system.at] /\ since' = since
    BY <1>3
  <2>2. worker' \in Workers
    BY <1>1, <2>1 DEF Types, Workers, WorkerSteps, Early, Observations
  <2>3. /\ worker'.pc = "check" /\ worker'.held = worker.held /\ worker'.from = worker.from
        /\ worker'.verdict = worker.verdict /\ worker'.issued = worker.issued
    BY <1>1, <2>1 DEF Types, Workers
  <2>4. TypeOK'
    BY <1>1, <2>1, <2>2, WorkerTypes DEF Types, FileOK
  <2>5. LockIffWorker' /\ WorkerInv' /\ EvidenceInv'
    BY <2>1, <2>3 DEF RInv, LockIffWorker, WorkerInv, EvidenceInv, SuccessIsWitnessed
  <2>6. Mapped' = Mapped
    BY <1>2, <2>3 DEF RInv, WorkerInv, Mapped, Stage
  <2>. QED
    BY <2>4, <2>5, <2>6, SameAll DEF RInv
<1>4. CASE system.kind # "offline"
  <2>1. TypeOK'
    BY <1>1, <1>4, LeaveKeeps, WorkerTypes DEF Types, FileOK
  <2>. QED
    BY <1>2, <1>4, <2>1, LeaveKeeps, SameAll DEF RInv
<1>. QED
  BY <1>3, <1>4

LEMMA CheckStep == ASSUME RInv, Check PROVE RInv' /\ Refines
<1>. USE DEF Check
<1>1. Types /\ clock \in Nat /\ FileOK
  BY TypeParts, ClockType DEF RInv, Types
<1>2. Mapped = <<"none", 0, 0>>
  BY DEF RInv, WorkerInv, Mapped, Stage
<1>3. FileOK'
  BY <1>1, AskedKeeps
<1>4. CASE Allowed(worker.at)
  <2>1. worker' = [worker EXCEPT !.pc = "probe", !.held = clock] /\ since' = since
    BY <1>4
  <2>2. worker' \in Workers
    BY <1>1, <2>1 DEF Types, Workers, WorkerSteps, Early
  <2>3. /\ worker'.pc = "probe" /\ worker'.held = clock /\ worker'.from = worker.from
        /\ worker'.verdict = worker.verdict /\ worker'.issued = worker.issued
    BY <1>1, <2>1 DEF Types, Workers
  <2>4. TypeOK'
    BY <1>1, <1>3, <2>1, <2>2, WorkerTypes DEF Types
  <2>5. LockIffWorker' /\ WorkerInv' /\ EvidenceInv'
    BY <1>1, <2>1, <2>3 DEF RInv, LockIffWorker, WorkerInv, EvidenceInv, SuccessIsWitnessed
  <2>6. Policy!Authorize
    <3>1. auto' = auto
      BY <1>4 DEF Asked, Allowed, Escalates
    <3>2. Mapped' = <<"authorized", clock, 0>>
      BY <2>3 DEF Mapped, Stage
    <3>. QED
      BY <1>2, <1>4, <3>1, <3>2, SamePolicy DEF Policy!Authorize, Allowed, Mapped
  <2>. QED
    BY <2>4, <2>5, <2>6 DEF RInv, Refines, Policy!Next
<1>5. CASE ~Allowed(worker.at)
  <2>1. TypeOK'
    BY <1>1, <1>3, <1>5, LeaveKeeps, WorkerTypes DEF Types
  <2>. QED
    BY <1>2, <1>5, <2>1, LeaveKeeps, AskedRefines DEF RInv
<1>. QED
  BY <1>4, <1>5

LEMMA ProbeStep == ASSUME RInv, Probe PROVE RInv' /\ Refines
<1>. USE DEF Probe, policyVars
<1>1. Types /\ clock \in Nat
  BY TypeParts, ClockType DEF RInv
<1>2. ASSUME worker' = [worker EXCEPT !.pc = "sleep", !.from = clock], since' = since
      PROVE  RInv' /\ Refines
  <2>1. worker' \in Workers
    BY <1>1, <1>2 DEF Types, Workers, WorkerSteps
  <2>2. /\ worker'.pc = "sleep" /\ worker'.held = worker.held /\ worker'.from = clock
        /\ worker'.verdict = worker.verdict /\ worker'.issued = worker.issued
    BY <1>1, <1>2 DEF Types, Workers
  <2>3. TypeOK'
    BY <1>1, <1>2, <2>1, WorkerTypes DEF Types, FileOK
  <2>4. LockIffWorker' /\ WorkerInv' /\ EvidenceInv'
    BY <1>1, <1>2, <2>2 DEF RInv, LockIffWorker, WorkerInv, EvidenceInv, SuccessIsWitnessed
  <2>5. Mapped' = Mapped
    BY <2>2 DEF Mapped, Stage
  <2>. QED
    BY <2>3, <2>4, <2>5, SameAll DEF RInv
<1>3. ASSUME Leave PROVE RInv' /\ Refines
  <2>1. TypeOK'
    BY <1>1, <1>3, LeaveKeeps, WorkerTypes DEF Types, FileOK
  <2>. QED
    BY <1>3, <2>1, LeaveKeeps, LeaveRefines DEF RInv
<1>. QED
  BY <1>2, <1>3

LEMMA ConfirmStep == ASSUME RInv, Confirm PROVE RInv' /\ Refines
<1>. USE DEF Confirm, policyVars
<1>1. Types /\ clock \in Nat
  BY TypeParts, ClockType DEF RInv
<1>2. ASSUME worker' = [worker EXCEPT !.pc = "recheck", !.from = 0], since' = since
      PROVE  RInv' /\ Refines
  <2>1. worker' \in Workers
    BY <1>1, <1>2, Zero DEF Types, Workers, WorkerSteps
  <2>2. /\ worker'.pc = "recheck" /\ worker'.held = worker.held /\ worker'.from = 0
        /\ worker'.verdict = worker.verdict /\ worker'.issued = worker.issued
    BY <1>1, <1>2 DEF Types, Workers
  <2>3. TypeOK'
    BY <1>1, <1>2, <2>1, WorkerTypes DEF Types, FileOK
  <2>4. worker.held \in Nat /\ worker.from \in Nat /\ worker.held + ConfirmDelay <= clock
    BY <1>1, RecoveryAssumption DEF Types, Workers, RInv, WorkerInv
  <2>5. LockIffWorker' /\ WorkerInv' /\ EvidenceInv'
    BY <1>1, <1>2, <2>2, <2>4
    DEF RInv, LockIffWorker, WorkerInv, EvidenceInv, SuccessIsWitnessed
  <2>6. Mapped' = Mapped
    BY <2>2 DEF Mapped, Stage
  <2>. QED
    BY <2>3, <2>5, <2>6, SameAll DEF RInv
<1>3. ASSUME Leave PROVE RInv' /\ Refines
  <2>1. TypeOK'
    BY <1>1, <1>3, LeaveKeeps, WorkerTypes DEF Types, FileOK
  <2>. QED
    BY <1>3, <2>1, LeaveKeeps, LeaveRefines DEF RInv
<1>. QED
  BY <1>2, <1>3

LEMMA RecheckStep == ASSUME RInv, Recheck PROVE RInv' /\ Refines
<1>. USE DEF Recheck
<1>1. Types /\ clock \in Nat /\ FileOK
  BY TypeParts, ClockType DEF RInv, Types
<1>2. Mapped = <<"authorized", worker.held, 0>>
  BY DEF Mapped, Stage
<1>3. FileOK'
  BY <1>1, AskedKeeps
<1>4. CASE Allowed(worker.at)
  <2>1. worker' = [worker EXCEPT !.pc = "begin", !.at = 0] /\ since' = since
    BY <1>4
  <2>2. worker' \in Workers
    BY <1>1, <2>1, Zero DEF Types, Workers, WorkerSteps
  <2>3. /\ worker'.pc = "begin" /\ worker'.held = worker.held /\ worker'.from = worker.from
        /\ worker'.verdict = worker.verdict /\ worker'.issued = worker.issued
    BY <1>1, <2>1 DEF Types, Workers
  <2>4. TypeOK'
    BY <1>1, <1>3, <2>1, <2>2, WorkerTypes DEF Types
  <2>5. LockIffWorker' /\ WorkerInv' /\ EvidenceInv'
    BY <1>1, <2>1, <2>3 DEF RInv, LockIffWorker, WorkerInv, EvidenceInv, SuccessIsWitnessed
  <2>6. Policy!Reauthorize
    <3>1. auto' = auto
      BY <1>4 DEF Asked, Allowed, Escalates
    <3>2. Mapped' = <<"confirmed", worker.held, 0>>
      BY <2>3 DEF Mapped, Stage
    <3>3. clock >= worker.held + ConfirmDelay
      BY DEF RInv, WorkerInv
    <3>. QED
      BY <1>2, <1>4, <3>1, <3>2, <3>3, SamePolicy DEF Policy!Reauthorize, Allowed, Mapped
  <2>. QED
    BY <2>4, <2>5, <2>6 DEF RInv, Refines, Policy!Next
<1>5. CASE ~Allowed(worker.at)
  <2>1. TypeOK'
    BY <1>1, <1>3, <1>5, LeaveKeeps, WorkerTypes DEF Types
  <2>2. Mapped' = <<"none", 0, 0>>
    BY <1>5, LeaveKeeps
  <2>3. CASE Escalates(worker.at)
    <3>1. Policy!Escalate
      BY <1>2, <2>2, <2>3, SamePolicy, EndsAttempt
      DEF Asked, Escalates, Policy!Escalate, Policy!Write, Mapped
    <3>. QED
      BY <1>5, <2>1, <3>1, LeaveKeeps DEF RInv, Refines, Policy!Next
  <2>4. CASE ~Escalates(worker.at)
    <3>1. Refines
      BY <2>2, <2>4, LeaveRefines DEF Asked
    <3>. QED
      BY <1>5, <2>1, <3>1, LeaveKeeps DEF RInv
  <2>. QED
    BY <2>3, <2>4
<1>. QED
  BY <1>4, <1>5

LEMMA BeginStep == ASSUME RInv, Begin PROVE RInv' /\ Refines
<1>. USE DEF Begin
<1>1. Types /\ clock \in Nat /\ FileOK
  BY TypeParts, ClockType DEF RInv, Types
<1>2. Stage = "confirmed"
  BY DEF Stage
<1>3. CASE ~damaged /\ Armed(auto, clock)
  <2>1. /\ auto' = Saved(auto, Reserved(auto, clock)) /\ since' = NothingSince
        /\ worker' = [NoWorker EXCEPT !.pc = "final", !.from = clock]
    BY <1>3
  <2>2. FileOK'
    <3>1. Reserved(auto, clock) \in PolicyRecord
      BY <1>1, RecordsKept DEF FileOK
    <3>. QED
      BY <1>1, <2>1, <3>1, WriteKeeps
  <2>3. worker' \in Workers
    <3>1. [NoWorker EXCEPT !.pc = "final"] \in Workers
      BY FreshWorker DEF WorkerSteps
    <3>2. worker' = [[NoWorker EXCEPT !.pc = "final"] EXCEPT !.from = clock]
      BY <2>1
    <3>. QED
      BY <1>1, <3>1, <3>2 DEF Types, Workers
  <2>4. /\ worker'.pc = "final" /\ worker'.held = 0 /\ worker'.from = clock
        /\ worker'.verdict = "none" /\ worker'.issued = FALSE
    BY <2>1 DEF NoWorker
  <2>5. TypeOK'
    BY <1>1, <2>1, <2>2, <2>3, WorkerTypes DEF Types, NothingSince, SinceStart
  <2>6. LockIffWorker' /\ WorkerInv' /\ EvidenceInv'
    BY <1>1, <2>1, <2>4
    DEF RInv, LockIffWorker, WorkerInv, EvidenceInv, SuccessIsWitnessed, NothingSince
  <2>7. Mapped' = <<"reserved", 0, clock>>
    BY <2>4 DEF Mapped, Stage
  <2>8. Policy!Begin
    BY <1>2, <1>3, <2>1, <2>7, SamePolicy DEF Policy!Begin, Policy!Write, Mapped
  <2>. QED
    BY <2>5, <2>6, <2>8 DEF RInv, Refines, Policy!Next
<1>4. CASE ~(~damaged /\ Armed(auto, clock))
  <2>1. TypeOK'
    BY <1>1, <1>4, LeaveKeeps, WorkerTypes DEF Types, FileOK
  <2>. QED
    BY <1>4, <2>1, LeaveKeeps, LeaveRefines DEF RInv
<1>. QED
  BY <1>3, <1>4

LEMMA FinalStep == ASSUME RInv, Final PROVE RInv' /\ Refines
<1>. USE DEF Final, policyVars
<1>1. Types
  BY TypeParts DEF RInv
<1>2. Mapped = <<"reserved", 0, worker.from>>
  BY DEF RInv, WorkerInv, Mapped, Stage
<1>3. \/ worker' = [worker EXCEPT !.pc = "command"]
      \/ worker' = [worker EXCEPT !.pc = "settle", !.verdict = "cancelled"]
  BY DEF To
<1>4. worker' \in Workers
  BY <1>1, <1>3 DEF Types, Workers, WorkerSteps, Verdicts
<1>5. /\ worker'.held = worker.held /\ worker'.from = worker.from
      /\ worker'.issued = worker.issued
      /\ \/ worker'.pc = "command" /\ worker'.verdict = worker.verdict
         \/ worker'.pc = "settle" /\ worker'.verdict = "cancelled"
  BY <1>1, <1>3 DEF Types, Workers
<1>6. TypeOK'
  BY <1>1, <1>4, WorkerTypes DEF Types, FileOK
<1>7. LockIffWorker' /\ WorkerInv' /\ EvidenceInv'
  BY <1>5 DEF RInv, LockIffWorker, WorkerInv, EvidenceInv, SuccessIsWitnessed
<1>8. Mapped' = Mapped
  BY <1>2, <1>5 DEF RInv, WorkerInv, Mapped, Stage
<1>. QED
  BY <1>6, <1>7, <1>8, SameAll DEF RInv

LEMMA CommandStep == ASSUME RInv, Command PROVE RInv' /\ Refines
<1>. USE DEF Command, policyVars
<1>1. Types /\ clock \in Nat
  BY TypeParts, ClockType DEF RInv
<1>2. Stage = "reserved" /\ worker.held = 0
  BY DEF RInv, WorkerInv, Stage
<1>3. worker' \in Workers /\ service' \in BOOLEAN
  <2>1. CASE worker' = [worker EXCEPT !.pc = "verify", !.issued = TRUE, !.from = clock]
    BY <1>1, <2>1 DEF Types, Workers, WorkerSteps
  <2>2. CASE worker' = [NoWorker EXCEPT !.pc = "settle", !.issued = TRUE, !.verdict = "failed"]
    BY <1>1, <2>2, Settling DEF Types, Verdicts
  <2>. QED
    BY <2>1, <2>2
<1>4. /\ worker'.held = 0 /\ worker'.from \in {0, clock} /\ worker'.issued = TRUE
      /\ \/ worker'.pc = "verify" /\ worker'.verdict = worker.verdict
         \/ worker'.pc = "settle" /\ worker'.verdict = "failed"
  <2>1. CASE worker' = [worker EXCEPT !.pc = "verify", !.issued = TRUE, !.from = clock]
    BY <1>1, <1>2, <2>1 DEF Types, Workers
  <2>2. CASE worker' = [NoWorker EXCEPT !.pc = "settle", !.issued = TRUE, !.verdict = "failed"]
    BY <2>2 DEF NoWorker
  <2>. QED
    BY <2>1, <2>2
<1>5. TypeOK'
  BY <1>1, <1>3, WorkerTypes DEF Types, FileOK
<1>6. LockIffWorker' /\ WorkerInv' /\ EvidenceInv'
  BY <1>1, <1>4 DEF RInv, LockIffWorker, WorkerInv, EvidenceInv, SuccessIsWitnessed
<1>7. Policy!IssueStart
  <2>1. Mapped' = <<"started", 0, 0>>
    BY <1>4 DEF Mapped, Stage
  <2>. QED
    BY <1>2, <2>1 DEF Policy!IssueStart, Mapped
<1>. QED
  BY <1>5, <1>6, <1>7 DEF RInv, Refines, Policy!Next

\* A decision, and the turns of the loop before it.
LEMMA DecidedKeeps ==
    ASSUME RInv, worker.pc = "verify", NEW verdict \in {"failed", "success"}, Decided(verdict),
           verdict = "success" => since.witnessed,
           UNCHANGED <<policyVars, service, loop, system, since, lock, faults>>
    PROVE  RInv' /\ Refines
<1>. USE DEF policyVars
<1>1. Types /\ clock \in Nat
  BY TypeParts, ClockType DEF RInv
<1>2. worker' \in Workers
  BY Settling DEF Decided, Verdicts
<1>3. /\ worker'.pc = "settle" /\ worker'.held = 0 /\ worker'.from = 0
      /\ worker'.issued = TRUE /\ worker'.verdict = verdict
  BY DEF Decided, NoWorker
<1>4. TypeOK'
  BY <1>1, <1>2, WorkerTypes DEF Types, FileOK
<1>5. LockIffWorker' /\ WorkerInv' /\ EvidenceInv'
  BY <1>1, <1>3 DEF RInv, LockIffWorker, WorkerInv, EvidenceInv, SuccessIsWitnessed
<1>6. Mapped' = Mapped
  BY <1>3 DEF RInv, WorkerInv, Mapped, Stage
<1>. QED
  BY <1>4, <1>5, <1>6, SameAll DEF RInv

LEMMA VerifyStep == ASSUME RInv, Verify PROVE RInv' /\ Refines
<1>. USE DEF Verify, policyVars
<1>1. Types /\ clock \in Nat
  BY TypeParts, ClockType DEF RInv
<1>2. ASSUME EvidencePasses, Decided("success") PROVE RInv' /\ Refines
  <2>1. since.witnessed
    BY <1>2 DEF EvidencePasses, RInv, EvidenceInv
  <2>. QED
    BY <1>2, <2>1, DecidedKeeps
<1>3. ASSUME NEW count \in 0..StableChecks, worker' = [worker EXCEPT !.stable = count]
      PROVE  RInv' /\ Refines
  <2>1. worker' \in Workers
    BY <1>1, <1>3 DEF Types, Workers
  <2>2. /\ worker'.pc = worker.pc /\ worker'.held = worker.held /\ worker'.from = worker.from
        /\ worker'.verdict = worker.verdict /\ worker'.issued = worker.issued
    BY <1>1, <1>3 DEF Types, Workers
  <2>3. TypeOK'
    BY <1>1, <2>1, WorkerTypes DEF Types, FileOK
  <2>4. LockIffWorker' /\ WorkerInv' /\ EvidenceInv'
    BY <2>2 DEF RInv, LockIffWorker, WorkerInv, EvidenceInv, SuccessIsWitnessed
  <2>5. Mapped' = Mapped
    BY <2>2 DEF Mapped, Stage
  <2>. QED
    BY <2>3, <2>4, <2>5, SameAll DEF RInv
<1>4. CASE EvidencePasses /\ worker.stable + 1 < StableChecks
           /\ worker' = [worker EXCEPT !.stable = @ + 1]
  <2>1. worker.stable + 1 \in 0..StableChecks
    BY <1>1, <1>4, RecoveryAssumption DEF Types, Workers
  <2>. QED
    BY <1>3, <1>4, <2>1
<1>5. CASE worker' = [worker EXCEPT !.stable = 0]
  BY <1>3, <1>5, Zero
<1>6. worker.stable + 1 >= StableChecks \/ worker.stable + 1 < StableChecks
  BY <1>1, RecoveryAssumption DEF Types, Workers
<1>7. CASE EvidencePasses /\ worker.stable + 1 >= StableChecks /\ Decided("success")
  BY <1>2, <1>7
<1>8. \/ EvidencePasses /\ (IF worker.stable + 1 >= StableChecks THEN Decided("success")
                            ELSE worker' = [worker EXCEPT !.stable = @ + 1])
      \/ worker' = [worker EXCEPT !.stable = 0]
  OBVIOUS
<1>. QED
  BY <1>4, <1>5, <1>6, <1>7, <1>8

LEMMA VerifyExpiresStep == ASSUME RInv, VerifyExpires PROVE RInv' /\ Refines
BY DecidedKeeps DEF VerifyExpires

\* finish_recovery or cancel_recovery.
LEMMA SettleStep == ASSUME RInv, Settle PROVE RInv' /\ Refines
<1>. USE DEF Settle
<1>1. Types /\ clock \in Nat /\ FileOK
  BY TypeParts, ClockType DEF RInv, Types
<1>. DEFINE passed == worker.verdict = "success"
            new == IF worker.verdict = "cancelled" THEN Withdrawn(auto)
                   ELSE Concluded(auto, clock, passed)
<1>2. new \in PolicyRecord
  <2>1. Withdrawn(auto) \in PolicyRecord
    BY <1>1, RecordsKept DEF FileOK
  <2>2. passed \in BOOLEAN
    OBVIOUS
  <2>3. Concluded(auto, clock, passed) \in PolicyRecord
    BY <1>1, <2>2, RecordsKept DEF FileOK
  <2>. QED
    BY <2>1, <2>3
<1>3. FileOK'
  <2>1. auto' \in {auto, Saved(auto, new)}
    BY SamePolicy DEF Policy!Write
  <2>. QED
    BY <1>1, <1>2, <2>1, WriteKeeps
<1>4. TypeOK'
  BY <1>1, <1>3, LeaveKeeps, WorkerTypes DEF Types
<1>5. Mapped' = <<"none", 0, 0>>
  BY LeaveKeeps
<1>6. ASSUME worker.verdict = "cancelled" PROVE Refines
  <2>1. Stage = "reserved"
    BY <1>6 DEF RInv, WorkerInv, Stage
  <2>2. Policy!Write(Policy!Withdrawn(auto))
    BY <1>6, SamePolicy
  <2>3. Policy!Cancel
    BY <1>5, <2>1, <2>2, EndsAttempt DEF Policy!Cancel
  <2>. QED
    BY <2>3 DEF Refines, Policy!Next
<1>7. ASSUME worker.verdict # "cancelled" PROVE Refines
  <2>1. Stage = "started" \/ (Stage = "reserved" /\ ~passed)
    BY DEF RInv, WorkerInv, Stage
  <2>2. Policy!Write(Policy!Concluded(auto, clock, passed))
    BY <1>7, SamePolicy
  <2>3. Policy!Conclude(passed)
    BY <1>5, <2>1, <2>2, EndsAttempt DEF Policy!Conclude
  <2>. QED
    BY <2>3 DEF Refines, Policy!Next
<1>. QED
  BY <1>4, <1>6, <1>7, LeaveKeeps DEF RInv

LEMMA ExitStep == ASSUME RInv, Exit PROVE RInv' /\ Refines
<1>. USE DEF Exit, policyVars
<1>1. Types /\ clock \in Nat
  BY TypeParts, ClockType DEF RInv
<1>2. worker' \in Workers
  BY FreshWorker, Idler DEF WorkerSteps
<1>3. /\ worker'.pc = "none" /\ worker'.held = 0 /\ worker'.from = 0
      /\ worker'.issued = FALSE /\ worker'.verdict = "none"
  BY DEF NoWorker
<1>4. TypeOK'
  BY <1>1, <1>2, WorkerTypes DEF Types, FileOK
<1>5. LockIffWorker' /\ WorkerInv' /\ EvidenceInv'
  BY <1>1, <1>3 DEF RInv, LockIffWorker, WorkerInv, EvidenceInv, SuccessIsWitnessed
<1>6. Mapped' = <<"none", 0, 0>>
  BY <1>3 DEF Mapped, Stage
<1>. QED
  BY <1>4, <1>5, <1>6, LeaveRefines DEF RInv

LEMMA WorkerFailsStep == ASSUME RInv, WorkerFails PROVE RInv' /\ Refines
<1>. USE DEF WorkerFails, Fault, policyVars
<1>1. Types /\ worker' \in Workers /\ since' \in SinceStart /\ faults' \in 0..MaxFaults
  BY TypeParts, LeaveKeeps, RecoveryAssumption DEF RInv, Types
<1>2. TypeOK'
  BY <1>1, NextTypeParts DEF Types, FileOK
<1>. QED
  BY <1>2, LeaveKeeps, LeaveRefines DEF RInv

LEMMA CommandFailsStep == ASSUME RInv, CommandFails PROVE RInv' /\ Refines
<1>. USE DEF CommandFails, Fault, policyVars
<1>1. Types
  BY TypeParts DEF RInv
<1>2. worker' \in Workers /\ faults' \in 0..MaxFaults
  <2>1. worker' \in Workers
    BY <1>1 DEF Types, Workers, WorkerSteps, Verdicts
  <2>2. faults' \in 0..MaxFaults
    BY <1>1, RecoveryAssumption DEF Types
  <2>. QED
    BY <2>1, <2>2
<1>3. /\ worker'.pc = "settle" /\ worker'.held = worker.held /\ worker'.from = worker.from
      /\ worker'.issued = worker.issued /\ worker'.verdict = "failed"
  BY <1>1 DEF Types, Workers
<1>4. ~worker.issued
  BY DEF RInv, WorkerInv
<1>5. TypeOK'
  BY <1>1, <1>2, NextTypeParts DEF Types, FileOK
<1>6. LockIffWorker' /\ WorkerInv' /\ EvidenceInv'
  BY <1>3, <1>4 DEF RInv, LockIffWorker, WorkerInv, EvidenceInv, SuccessIsWitnessed
<1>7. Mapped' = Mapped
  BY <1>3, <1>4 DEF Mapped, Stage
<1>. QED
  BY <1>5, <1>6, <1>7, SameAll DEF RInv

-------------------------------------------------------------------------------
(* The world. *)

LEMMA CrashStep == ASSUME RInv, Crash PROVE RInv' /\ Refines
<1>. USE DEF Crash, Fault, policyVars
<1>1. Types /\ clock \in Nat
  BY TypeParts, ClockType DEF RInv
<1>2. worker' \in Workers /\ faults' \in 0..MaxFaults
  BY <1>1, Idler, RecoveryAssumption DEF Types
<1>3. loop' \in [pc : LoopSteps, obs : Observations] /\ since' \in SinceStart
  BY Zero DEF Idle, NoObservation, LoopSteps, Observations, Kinds, NothingSince, SinceStart
<1>4. /\ worker'.pc = "none" /\ worker'.held = 0 /\ worker'.from = 0
      /\ worker'.issued = FALSE /\ worker'.verdict = "none"
  BY DEF NoWorker
<1>5. TypeOK'
  BY <1>1, <1>2, <1>3, NextTypeParts DEF Types, FileOK
<1>6. LockIffWorker' /\ WorkerInv' /\ EvidenceInv'
  <2>1. LockIffWorker'
    BY <1>4 DEF LockIffWorker
  <2>2. WorkerInv'
    BY <1>1, <1>4 DEF WorkerInv
  <2>3. EvidenceInv'
    BY <1>4 DEF EvidenceInv, SuccessIsWitnessed, NothingSince
  <2>. QED
    BY <2>1, <2>2, <2>3
<1>7. Mapped' = <<"none", 0, 0>>
  BY <1>4 DEF Mapped, Stage
<1>. QED
  BY <1>5, <1>6, <1>7, LeaveRefines DEF RInv

LEMMA TickStep == ASSUME RInv, Tick PROVE RInv' /\ Refines
<1>. USE DEF Tick
<1>1. Types /\ clock \in Nat
  BY TypeParts, ClockType DEF RInv
<1>2. clock < MaxClock
  BY <1>1, RecoveryAssumption DEF Horizon
<1>3. TypeOK'
  BY <1>1, <1>2, RecoveryAssumption, NextTypeParts DEF Types, FileOK
<1>4. LockIffWorker' /\ EvidenceInv'
  BY DEF RInv, LockIffWorker, EvidenceInv, SuccessIsWitnessed
<1>5. WorkerInv'
  <2>1. worker.held \in Nat /\ worker.from \in Nat
    BY <1>1, RecoveryAssumption DEF Types, Workers
  <2>. QED
    BY <1>1, <2>1, RecoveryAssumption DEF RInv, WorkerInv
<1>6. Policy!Tick
  <2>1. Mapped' = Mapped
    BY SameAttempt
  <2>. QED
    BY <1>2, <2>1 DEF Policy!Tick, Mapped
<1>. QED
  BY <1>3, <1>4, <1>5, <1>6 DEF RInv, Refines, Policy!Next

LEMMA ServiceChangesStep == ASSUME RInv, ServiceChanges PROVE RInv' /\ Refines
<1>. USE DEF ServiceChanges, policyVars
<1>1. Types
  BY TypeParts DEF RInv
<1>2. TypeOK'
  BY <1>1, NextTypeParts DEF Types, FileOK, Workers
<1>3. LockIffWorker' /\ WorkerInv' /\ EvidenceInv'
  BY DEF RInv, LockIffWorker, WorkerInv, EvidenceInv, SuccessIsWitnessed
<1>. QED
  BY <1>2, <1>3, SameAttempt, SameAll DEF RInv

LEMMA SetMaintenanceStep ==
    ASSUME RInv, NEW enabled \in BOOLEAN, SetMaintenance(enabled) PROVE RInv' /\ Refines
<1>. USE DEF SetMaintenance
<1>1. Types /\ FileOK
  BY TypeParts DEF RInv, Types
<1>2. FileOK'
  <2>1. MaintenanceSet(auto, enabled) \in PolicyRecord
    BY <1>1, RecordsKept DEF FileOK
  <2>2. auto' \in {auto, Saved(auto, MaintenanceSet(auto, enabled))}
    BY SamePolicy DEF Policy!Write
  <2>. QED
    BY <1>1, <2>1, <2>2, WriteKeeps
<1>3. TypeOK'
  BY <1>1, <1>2, NextTypeParts DEF Types, Workers
<1>4. LockIffWorker' /\ WorkerInv' /\ EvidenceInv'
  BY DEF RInv, LockIffWorker, WorkerInv, EvidenceInv, SuccessIsWitnessed
<1>5. Policy!SetMaintenance(enabled)
  <2>1. Mapped' = Mapped
    BY SameAttempt
  <2>. QED
    BY <2>1, SamePolicy DEF Policy!SetMaintenance, Policy!Write, Mapped
<1>. QED
  BY <1>3, <1>4, <1>5 DEF RInv, Refines, Policy!Next

LEMMA DamageSteps == ASSUME RInv, Damage \/ Restore PROVE RInv' /\ Refines
<1>. USE DEF Damage, Restore, Fault
<1>1. Types
  BY TypeParts DEF RInv
<1>2. TypeOK'
  <2>1. faults' \in 0..MaxFaults
    BY <1>1, RecoveryAssumption DEF Types
  <2>. QED
    BY <1>1, <2>1, NextTypeParts DEF Types, FileOK, Workers
<1>3. LockIffWorker' /\ WorkerInv' /\ EvidenceInv'
  BY DEF RInv, LockIffWorker, WorkerInv, EvidenceInv, SuccessIsWitnessed
<1>4. Policy!Damage \/ Policy!Restore
  <2>1. Mapped' = Mapped
    BY SameAttempt
  <2>. QED
    BY <2>1 DEF Policy!Damage, Policy!Restore, Mapped
<1>. QED
  BY <1>2, <1>3, <1>4 DEF RInv, Refines, Policy!Next

-------------------------------------------------------------------------------
(* The theorems. *)

LEMMA InitHolds == ASSUME Init PROVE RInv
<1>1. Types
  <2>1. DefaultRecord \in PolicyRecord /\ Normalized(DefaultRecord)
    BY PolicyAssumption DEF DefaultRecord, PolicyRecord, Normalized, Modes
  <2>2. auto = DefaultRecord /\ clock = 0 /\ damaged = FALSE
    BY SamePolicy DEF Init, Policy!Init
  <2>3. FileOK
    BY <2>1, <2>2 DEF FileOK
  <2>4. loop \in [pc : LoopSteps, obs : Observations] /\ system \in Observations
    BY Zero DEF Init, Idle, NoObservation, LoopSteps, Observations, Kinds
  <2>5. since \in SinceStart /\ worker \in Workers
    BY Idler DEF Init, NothingSince, SinceStart
  <2>6. service \in BOOLEAN /\ lock \in BOOLEAN /\ damaged \in BOOLEAN
    BY <2>2 DEF Init
  <2>7. clock \in 0..MaxClock /\ faults \in 0..MaxFaults
    BY <2>2, RecoveryAssumption DEF Init
  <2>. QED
    BY <2>3, <2>4, <2>5, <2>6, <2>7 DEF Types
<1>2. LockIffWorker /\ WorkerInv /\ EvidenceInv
  <2>1. /\ worker.pc = "none" /\ worker.held = 0 /\ worker.from = 0
        /\ worker.verdict = "none" /\ worker.issued = FALSE
    BY DEF Init, NoWorker
  <2>2. lock = FALSE /\ since = NothingSince /\ clock = 0
    BY DEF Init, Policy!Init
  <2>3. LockIffWorker
    BY <2>1, <2>2 DEF LockIffWorker
  <2>4. WorkerInv
    BY <2>1, <2>2 DEF WorkerInv
  <2>5. EvidenceInv
    BY <2>1, <2>2 DEF EvidenceInv, SuccessIsWitnessed, NothingSince
  <2>. QED
    BY <2>3, <2>4, <2>5
<1>. QED
  BY <1>1, <1>2, TypeParts DEF RInv

LEMMA StepHolds == ASSUME RInv, [Next]_vars PROVE RInv' /\ Refines
<1>1. CASE Collect \/ Publish \/ Ask \/ Launch \/ Enrich \/ LoopFails
  BY <1>1, CollectStep, PublishStep, AskStep, LaunchStep, EnrichStep, LoopFailsStep
<1>2. CASE Load \/ Check \/ Probe \/ Confirm \/ Recheck \/ Begin
  BY <1>2, LoadStep, CheckStep, ProbeStep, ConfirmStep, RecheckStep, BeginStep
<1>3. CASE Final \/ Command \/ Verify \/ VerifyExpires \/ Settle \/ Exit
  BY <1>3, FinalStep, CommandStep, VerifyStep, VerifyExpiresStep, SettleStep, ExitStep
<1>4. CASE WorkerFails \/ CommandFails \/ Crash \/ Tick \/ ServiceChanges
  BY <1>4, WorkerFailsStep, CommandFailsStep, CrashStep, TickStep, ServiceChangesStep
<1>5. CASE Damage \/ Restore \/ \E enabled \in BOOLEAN : SetMaintenance(enabled)
  BY <1>5, DamageSteps, SetMaintenanceStep
<1>6. CASE UNCHANGED vars
  <2>1. UNCHANGED <<clock, auto, damaged, service, loop, system, since, lock, worker, faults>>
    BY <1>6 DEF vars, policyVars
  <2>2. TypeOK'
    <3>1. Types
      BY TypeParts DEF RInv
    <3>. QED
      BY <2>1, <3>1, NextTypeParts DEF Types, FileOK, Workers
  <2>3. LockIffWorker' /\ WorkerInv' /\ EvidenceInv'
    BY <2>1 DEF RInv, LockIffWorker, WorkerInv, EvidenceInv, SuccessIsWitnessed
  <2>. QED
    BY <2>1, <2>2, <2>3, SameAttempt, SameAll DEF RInv
<1>. QED
  BY <1>1, <1>2, <1>3, <1>4, <1>5, <1>6 DEF Next, WorkerNext

\* The worker's invariant holds in every reachable state.
THEOREM Invariance == Spec => []RInv
<1>1. Init => RInv
  BY InitHolds
<1>2. RInv /\ [Next]_vars => RInv'
  BY StepHolds
<1>. QED
  BY <1>1, <1>2, PTL DEF Spec

\* The monitor process never writes a record its own loader would reject, and its
\* threads are at places the code has (TypeOK).
THEOREM TypesHold == Spec => []TypeOK
<1>1. RInv => TypeOK
  BY DEF RInv
<1>. QED
  BY <1>1, Invariance, PTL

\* RecoveryCoordinator admits one worker and its lock outlives none, through every
\* exception and crash.
THEOREM LockHeldByWorker == Spec => []LockIffWorker
<1>1. RInv => LockIffWorker
  BY DEF RInv
<1>. QED
  BY <1>1, Invariance, PTL

\* verify_recovery declares a success only on evidence newer than the reservation.
THEOREM SuccessNeedsWitness == Spec => []SuccessIsWitnessed
<1>1. RInv => SuccessIsWitnessed
  BY DEF RInv, EvidenceInv
<1>. QED
  BY <1>1, Invariance, PTL

\* Whatever the loop, the worker and the dashboard do to automation.json, in any
\* interleaving, is a behaviour of Automation.
THEOREM Refinement == Spec => ImplementsAutomation
<1>1. Init => Policy!Init
  <2>1. ASSUME Init PROVE Mapped = <<"none", 0, 0>>
    BY <2>1 DEF Init, NoWorker, Mapped, Stage
  <2>. QED
    BY <2>1, SamePolicy DEF Init, Policy!Init, Mapped
<1>2. RInv /\ [Next]_vars => [Policy!Next]_(Policy!vars)
  BY StepHolds DEF Refines
<1>. QED
  BY <1>1, <1>2, Invariance, PTL DEF Spec, ImplementsAutomation, Policy!Spec
===============================================================================
