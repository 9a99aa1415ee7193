--------------------------- MODULE AutomationProofs ---------------------------
(* Proofs about the recovery policy, for every value of the constants: that the  *)
(* inductive invariant is one, then the promises of AutomationAudit as theorems. *)
EXTENDS AutomationAudit, FiniteSetTheorems, TLAPS

(* What each operation of the policy does to the record. *)

(* A backoff is a number of seconds. *)
LEMMA BackoffType == ASSUME NEW k \in Nat PROVE Backoff(k) \in Nat
<1> DEFINE e == IF k = 0 THEN 0 ELSE Lower(30, k - 1)
<1>1. e \in 0..30  BY DEF Lower
<1>2. 2^e \in Nat  BY <1>1, DoublingAssumption
<1> HIDE DEF e
<1>3. \A p \in Nat : MinCooldown * p \in Nat  BY PolicyAssumption
<1>4. MinCooldown * 2^e \in Nat  BY <1>2, <1>3
<1>5. Backoff(k) = Lower(MaxBackoff, MinCooldown * 2^e)  BY DEF Backoff, e
<1> QED  BY <1>4, <1>5, PolicyAssumption DEF Lower

(* observe_health either forgives everything or only prunes. *)
LEMMA ObservedEffect ==
    ASSUME NEW s \in PolicyRecord, NEW now \in Nat, NEW healthy \in BOOLEAN
    PROVE  LET r == ObservedHealth(s, now, healthy)
           IN  /\ r \in PolicyRecord
               /\ Normalized(s) => Normalized(r)
               /\ r.healthySince = HealthySince(s, now, healthy)
               /\ Forgives(s, now, healthy) =>
                    r.attempts = {} /\ r.failures = 0 /\ r.cooldown = 0
               /\ ~Forgives(s, now, healthy) =>
                    /\ r.attempts = {a \in s.attempts : now - a < Retention}
                    /\ r.failures = s.failures /\ r.cooldown = s.cooldown
<1> DEFINE r == ObservedHealth(s, now, healthy)
<1> USE DEF ObservedHealth, Prune, PolicyRecord
<1>1. HealthySince(s, now, healthy) \in Nat \cup {Never}
  BY DEF HealthySince
<1>2. Resting(s) \in Modes  BY DEF Resting, Modes
<1>3. r \in PolicyRecord
  <2>1. CASE Forgives(s, now, healthy)  BY <1>1, <1>2, <2>1 DEF Modes
  <2>2. CASE ~Forgives(s, now, healthy)  BY <1>1, <1>2, <2>2 DEF Modes
  <2> QED  BY <2>1, <2>2
<1>4. r.failures \in {0, s.failures}  OBVIOUS
<1>5. r.mode = "maintenance" => s.mode = "maintenance" \/ s.maintenance
  BY DEF Resting
<1>6. s.maintenance => r.maintenance  OBVIOUS
<1>7. Normalized(s) => Normalized(r)
  <2> HIDE DEF r
  <2> QED  BY <1>3, <1>4, <1>5, <1>6, PolicyAssumption DEF Normalized
<1>8. r.healthySince = HealthySince(s, now, healthy)  OBVIOUS
<1>9. Forgives(s, now, healthy) => r.attempts = {} /\ r.failures = 0 /\ r.cooldown = 0
  OBVIOUS
<1>10. ~Forgives(s, now, healthy) =>
          /\ r.attempts = {a \in s.attempts : now - a < Retention}
          /\ r.failures = s.failures /\ r.cooldown = s.cooldown
  OBVIOUS
<1> QED  BY <1>3, <1>7, <1>8, <1>9, <1>10

(* set_maintenance touches the mode and the flag only. *)
LEMMA MaintenanceEffect ==
    ASSUME NEW s \in PolicyRecord, NEW enabled \in BOOLEAN
    PROVE  LET r == MaintenanceSet(s, enabled)
           IN  /\ r \in PolicyRecord
               /\ Normalized(s) => Normalized(r)
               /\ r.attempts = s.attempts /\ r.failures = s.failures
               /\ r.cooldown = s.cooldown /\ r.healthySince = s.healthySince
<1> DEFINE r == MaintenanceSet(s, enabled)
<1>1. CASE s.maintenance = enabled
  BY <1>1 DEF MaintenanceSet
<1>2. CASE s.maintenance # enabled
  <2> USE DEF MaintenanceSet, PolicyRecord
  <2>1. r \in PolicyRecord  BY <1>2 DEF Modes
  <2>2. /\ r.attempts = s.attempts /\ r.failures = s.failures
        /\ r.cooldown = s.cooldown /\ r.healthySince = s.healthySince
    BY <1>2
  <2>3. r.mode = "maintenance" => r.maintenance  BY <1>2
  <2> QED  BY <2>1, <2>2, <2>3 DEF Normalized
<1> QED  BY <1>1, <1>2

(* recovery_allowed, when it escalates, prunes and pauses. *)
LEMMA EscalatedEffect ==
    ASSUME NEW s \in PolicyRecord, NEW now \in Nat
    PROVE  LET r == Escalated(s, now)
           IN  /\ r \in PolicyRecord
               /\ Normalized(s) => Normalized(r)
               /\ r.attempts = {a \in s.attempts : now - a < Retention}
               /\ r.failures = s.failures /\ r.cooldown = s.cooldown
               /\ r.healthySince = s.healthySince
<1>1. now + MaxBackoff \in Nat  BY PolicyAssumption
<1> QED  BY <1>1 DEF Escalated, Prune, PolicyRecord, Normalized, Modes

(* begin_recovery adds one stamp; the record it writes is always accepted. *)
LEMMA ReservedEffect ==
    ASSUME NEW s \in PolicyRecord, NEW now \in Nat
    PROVE  LET r == Reserved(s, now)
           IN  /\ r \in PolicyRecord
               /\ Normalized(s) => Normalized(r)
               /\ r.attempts = {a \in s.attempts : now - a < Retention} \cup {now}
               /\ r.failures = s.failures /\ r.cooldown = s.cooldown
               /\ r.healthySince = Never
BY DEF Reserved, Prune, PolicyRecord, Normalized, Modes

(* cancel_recovery gives back the latest stamp and nothing else. *)
LEMMA WithdrawnEffect ==
    ASSUME NEW s \in PolicyRecord
    PROVE  LET r == Withdrawn(s)
           IN  /\ r \in PolicyRecord
               /\ Normalized(s) => Normalized(r)
               /\ r.attempts = IF s.attempts = {} THEN {}
                               ELSE s.attempts \ {Latest(s.attempts)}
               /\ r.failures = s.failures /\ r.cooldown = s.cooldown
               /\ r.healthySince = s.healthySince
<1> DEFINE r == Withdrawn(s)
<1> USE DEF Withdrawn, PolicyRecord
<1>1. Resting(s) \in Modes  BY DEF Resting, Modes
<1>2. r \in PolicyRecord  BY <1>1
<1>3. r.mode = "maintenance" => r.maintenance  BY DEF Resting
<1>4. r.failures = s.failures  OBVIOUS
<1>5. Normalized(s) => Normalized(r)
  <2> HIDE DEF r
  <2>1. r.mode \in Modes  BY <1>2
  <2> QED  BY <2>1, <1>3, <1>4 DEF Normalized
<1> QED  BY <1>2, <1>5

(* finish_recovery keeps the stamps and sets the delay that is owed. *)
LEMMA ConcludedEffect ==
    ASSUME NEW s \in PolicyRecord, NEW now \in Nat, NEW verified \in BOOLEAN
    PROVE  LET r == Concluded(s, now, verified)
           IN  /\ r \in PolicyRecord
               /\ r.attempts = s.attempts
               /\ r.failures = IF verified THEN 0 ELSE s.failures + 1
               /\ r.cooldown = now + IF verified THEN MinCooldown
                                     ELSE Backoff(s.failures + 1)
               /\ r.healthySince = IF verified THEN now ELSE s.healthySince
               /\ r.mode # "maintenance"
<1>1. now + MinCooldown \in Nat /\ now + MaxBackoff \in Nat  BY PolicyAssumption
<1>2. CASE verified
  BY <1>1, <1>2 DEF Concluded, Passed, PolicyRecord, Modes
<1>3. CASE ~verified
  <2>1. s.failures + 1 \in Nat  BY DEF PolicyRecord
  <2>2. now + Backoff(s.failures + 1) \in Nat  BY <2>1, BackoffType
  <2> QED  BY <1>3, <2>1, <2>2 DEF Concluded, Failed, PolicyRecord, Modes
<1> QED  BY <1>2, <1>3
-------------------------------------------------------------------------------
(* The window only loses attempts when time passes or stamps are dropped. *)
LEMMA WindowShrinks ==
    ASSUME NEW s \in PolicyRecord, NEW t \in PolicyRecord, NEW now \in Nat, NEW later \in Nat,
           now <= later, IsFiniteSet(s.attempts), t.attempts \subseteq s.attempts
    PROVE  /\ IsFiniteSet(t.attempts)
           /\ IsFiniteSet(WindowAttempts(s, now))
           /\ Cardinality(WindowAttempts(s, now)) \in Nat
           /\ Cardinality(WindowAttempts(t, later)) \in Nat
           /\ Cardinality(WindowAttempts(t, later)) <= Cardinality(WindowAttempts(s, now))
<1>1. IsFiniteSet(t.attempts)  BY FS_Subset
<1>2. WindowAttempts(s, now) \subseteq s.attempts  BY DEF WindowAttempts
<1>3. IsFiniteSet(WindowAttempts(s, now))  BY <1>2, FS_Subset
<1>4. WindowAttempts(t, later) \subseteq WindowAttempts(s, now)
  BY PolicyAssumption DEF WindowAttempts, PolicyRecord
<1>5. IsFiniteSet(WindowAttempts(t, later))  BY <1>3, <1>4, FS_Subset
<1> QED  BY <1>1, <1>3, <1>4, <1>5, FS_Subset, FS_CardinalityType

(* A new stamp fills at most one place of the window. *)
LEMMA WindowGrows ==
    ASSUME NEW s \in PolicyRecord, NEW t \in PolicyRecord, NEW now \in Nat,
           IsFiniteSet(s.attempts), t.attempts \subseteq s.attempts \cup {now},
           Cardinality(WindowAttempts(s, now)) < MaxAttempts
    PROVE  IsFiniteSet(t.attempts) /\ Cardinality(WindowAttempts(t, now)) <= MaxAttempts
<1>1. IsFiniteSet(s.attempts \cup {now})  BY FS_AddElement
<1>2. IsFiniteSet(t.attempts)  BY <1>1, FS_Subset
<1> DEFINE W == WindowAttempts(s, now)
<1>3. IsFiniteSet(W)  BY FS_Subset DEF WindowAttempts
<1>4. WindowAttempts(t, now) \subseteq W \cup {now}  BY DEF WindowAttempts
<1> HIDE DEF W
<1>5. IsFiniteSet(W \cup {now}) /\ Cardinality(W \cup {now}) <= Cardinality(W) + 1
  <2>1. Cardinality(W) \in Nat  BY <1>3, FS_CardinalityType
  <2>2. /\ IsFiniteSet(W \cup {now})
        /\ Cardinality(W \cup {now}) = Cardinality(W)
             \/ Cardinality(W \cup {now}) = Cardinality(W) + 1
    BY <1>3, FS_AddElement
  <2> QED  BY <2>1, <2>2
<1>6. Cardinality(WindowAttempts(t, now)) <= Cardinality(W \cup {now})
  BY <1>4, <1>5, FS_Subset
<1>7. /\ Cardinality(WindowAttempts(t, now)) \in Nat /\ Cardinality(W) \in Nat
      /\ Cardinality(W \cup {now}) \in Nat
  BY <1>3, <1>4, <1>5, FS_Subset, FS_CardinalityType
<1>8. Cardinality(W) < MaxAttempts  BY DEF W
<1>9. MaxAttempts \in Nat  BY PolicyAssumption
<1> QED  BY <1>2, <1>5, <1>6, <1>7, <1>8, <1>9

(* The latest of some stamps that include their upper bound is that bound. *)
LEMMA LatestIsBound ==
    ASSUME NEW S \in SUBSET Nat, NEW b \in S, \A a \in S : a <= b
    PROVE  Latest(S) = b
<1>1. \E a \in S : \A c \in S : c <= a  OBVIOUS
<1>2. Latest(S) \in S /\ \A c \in S : c <= Latest(S)  BY <1>1 DEF Latest
<1>3. Latest(S) \in Nat /\ b \in Nat /\ b <= Latest(S) /\ Latest(S) <= b  BY <1>2
<1> QED  BY <1>3

-------------------------------------------------------------------------------
(* The invariant. *)

(* The invariant holds initially and is kept by every action. *)
LEMMA InitInv == AuditInit => IInv
<1> SUFFICES ASSUME AuditInit PROVE IInv  OBVIOUS
<1> USE DEF AuditInit, Init, DefaultRecord, Never
<1>1. AuditTypeOK
  <2>1. clock \in 0..MaxClock  BY TimingAssumption
  <2>2. auto \in PolicyRecord  BY DEF PolicyRecord, Modes
  <2>3. Normalized(auto)  BY PolicyAssumption DEF Normalized, Modes
  <2> QED  BY <2>1, <2>2, <2>3 DEF AuditTypeOK, TypeOK, Stages
<1>2. TimeInv  BY DEF TimeInv
<1>3. WaitingInv /\ ReservedInv  BY DEF WaitingInv, ReservedInv
<1>4. CountInv
  <2>1. WindowAttempts(auto, clock) = {}  BY DEF WindowAttempts
  <2>2. Cardinality(WindowAttempts(auto, clock)) <= MaxAttempts
    BY <2>1, FS_EmptySet, PolicyAssumption
  <2> QED  BY <2>2, FS_EmptySet DEF CountInv, StartsAreOnFile, InWindow
<1>5. ResultInv
  BY PolicyAssumption DEF ResultInv, FailuresCounted, CooldownHonoured
<1> QED  BY <1>1, <1>2, <1>3, <1>4, <1>5 DEF IInv

(* Time passes. *)
LEMMA TickInv == IInv /\ Tick /\ UNCHANGED history => IInv'
<1> SUFFICES ASSUME IInv, Tick, UNCHANGED history PROVE IInv'  OBVIOUS
<1> USE DEF Tick, history
<1>0. clock \in Nat /\ clock' = clock + 1 /\ clock' \in 0..MaxClock /\ auto \in PolicyRecord
  BY TimingAssumption DEF IInv, AuditTypeOK, TypeOK
<1>1. AuditTypeOK'  BY <1>0 DEF IInv, AuditTypeOK, TypeOK
<1>2. TimeInv'  BY <1>0 DEF IInv, TimeInv, AuditTypeOK, TypeOK, PolicyRecord, Never
<1>3. /\ IsFiniteSet(auto.attempts)
      /\ Cardinality(WindowAttempts(auto, clock)) \in Nat
      /\ Cardinality(WindowAttempts(auto, clock')) \in Nat
      /\ Cardinality(WindowAttempts(auto, clock')) <= Cardinality(WindowAttempts(auto, clock))
  BY <1>0, WindowShrinks DEF IInv, CountInv
<1>4. MaxAttempts \in Nat  BY PolicyAssumption
<1>5. WaitingInv'
  BY <1>0, <1>3, <1>4 DEF IInv, WaitingInv, AuditTypeOK, TypeOK
<1>6. ReservedInv'
  <2>1. ProbeBound \in Nat /\ Retention \in Nat  BY TimingAssumption, PolicyAssumption
  <2> QED  BY <1>0, <2>1 DEF IInv, ReservedInv, AuditTypeOK, TypeOK, PolicyRecord
<1>7. CountInv'
  <2>1. \A i \in issued : clock' - i < AttemptWindow => clock - i < AttemptWindow
    <3>1. AttemptWindow \in Nat  BY PolicyAssumption
    <3> QED  BY <1>0, <3>1 DEF IInv, AuditTypeOK
  <2>2. StartsAreOnFile'
    BY <2>1 DEF IInv, CountInv, StartsAreOnFile, InWindow
  <2> QED  BY <1>3, <1>4, <2>2 DEF IInv, CountInv
<1>8. ResultInv'
  BY <1>0 DEF IInv, ResultInv, AuditTypeOK, TypeOK, PolicyRecord, FailuresCounted, CooldownHonoured
<1> QED  BY <1>1, <1>2, <1>5, <1>6, <1>7, <1>8 DEF IInv

(* Steps that leave the file, the clock and the history alone and only move the *)
(* worker out of the stages before the start command.                           *)
LEMMA QuitInv ==
    IInv /\ Ends /\ UNCHANGED <<clock, auto, damaged, history>> => IInv'
<1> SUFFICES ASSUME IInv, Ends, UNCHANGED <<clock, auto, damaged, history>> PROVE IInv'
  OBVIOUS
<1>1. clock \in Nat  BY TimingAssumption DEF IInv, AuditTypeOK, TypeOK
<1> QED
  BY <1>1 DEF Ends, IInv, history, AuditTypeOK, TypeOK, Stages, TimeInv, WaitingInv, ReservedInv,
       CountInv, StartsAreOnFile, InWindow, ResultInv, FailuresCounted, CooldownHonoured

LEMMA StutterInv == IInv /\ UNCHANGED auditVars => IInv'
BY DEF IInv, auditVars, vars, history, AuditTypeOK, TypeOK, TimeInv, WaitingInv,
       ReservedInv, CountInv, StartsAreOnFile, InWindow, ResultInv, FailuresCounted,
       CooldownHonoured

(* Damage and Restore change the readability of the file only. *)
LEMMA DamageInv == IInv /\ (Damage \/ Restore) /\ UNCHANGED history => IInv'
BY DEF Damage, Restore, IInv, history, AuditTypeOK, TypeOK, TimeInv, WaitingInv,
       ReservedInv, CountInv, StartsAreOnFile, InWindow, ResultInv, FailuresCounted,
       CooldownHonoured

(* The authorizations: what the sleep and the count have shown by then. *)
LEMMA AuthorizeInv == IInv /\ Authorize /\ UNCHANGED history => IInv'
<1> SUFFICES ASSUME IInv, Authorize, UNCHANGED history PROVE IInv'  OBVIOUS
<1> USE DEF Authorize, history
<1>1. AuditTypeOK'  BY DEF IInv, AuditTypeOK, TypeOK, Stages
<1>2. clock \in Nat  BY TimingAssumption DEF IInv, AuditTypeOK, TypeOK
<1>3. TimeInv'  BY <1>2 DEF IInv, TimeInv
<1>4. WaitingInv' /\ ReservedInv'  BY DEF IInv, TimeInv, WaitingInv, ReservedInv
<1>5. CountInv'  BY DEF IInv, CountInv, StartsAreOnFile, InWindow
<1>6. ResultInv'  BY DEF IInv, ResultInv, FailuresCounted, CooldownHonoured
<1> QED  BY <1>1, <1>3, <1>4, <1>5, <1>6 DEF IInv

LEMMA ReauthorizeInv == IInv /\ Reauthorize /\ UNCHANGED history => IInv'
<1> SUFFICES ASSUME IInv, Reauthorize, UNCHANGED history PROVE IInv'  OBVIOUS
<1> USE DEF Reauthorize, history
<1>0. clock \in Nat /\ auto \in PolicyRecord  BY TimingAssumption DEF IInv, AuditTypeOK, TypeOK
<1>1. AuditTypeOK'  BY DEF IInv, AuditTypeOK, TypeOK, Stages
<1>2. TimeInv' /\ ReservedInv'  BY DEF IInv, TimeInv, ReservedInv
<1>3. WaitingInv'
  <2>1. heldSince < clock
    <3>1. ConfirmDelay \in Nat /\ ConfirmDelay > 0  BY TimingAssumption
    <3> QED  BY <1>0, <3>1 DEF IInv, AuditTypeOK, TypeOK
  <2>2. Cardinality(WindowAttempts(auto, clock)) < MaxAttempts
    <3>1. Cardinality(WindowAttempts(auto, clock)) \in Nat
      BY <1>0, WindowShrinks DEF IInv, CountInv
    <3>2. MaxAttempts \in Nat  BY PolicyAssumption
    <3> QED  BY <3>1, <3>2 DEF Exhausted
  <2> QED  BY <2>1, <2>2 DEF IInv, WaitingInv
<1>4. CountInv'  BY DEF IInv, CountInv, StartsAreOnFile, InWindow
<1>5. ResultInv'  BY DEF IInv, ResultInv, FailuresCounted, CooldownHonoured
<1> QED  BY <1>1, <1>2, <1>3, <1>4, <1>5 DEF IInv

(* A step that rewrites the record so that stamps are only dropped beyond the    *)
(* retention, with the cooldown kept, disturbs nothing.                          *)
LEMMA PrunedInv ==
    ASSUME IInv, UNCHANGED <<clock, damaged, stage, heldSince, reservedAt>>,
           UNCHANGED <<issued, streak, owedUntil>>,
           told' \in {told, clock}, unwell' \in {unwell, clock},
           auto' \in PolicyRecord, Normalized(auto'),
           auto'.attempts \subseteq auto.attempts,
           \A a \in auto.attempts : clock - a < Retention => a \in auto'.attempts,
           auto'.failures = auto.failures, auto'.cooldown = auto.cooldown,
           auto'.healthySince # Never => /\ auto'.healthySince \in {auto.healthySince, clock}
                                         /\ told' = told
    PROVE  IInv'
<1>0. /\ clock \in Nat /\ auto \in PolicyRecord /\ told \in Nat /\ issued \subseteq Nat
      /\ unwell \in Nat /\ reservedAt \in Nat /\ Retention \in Nat /\ AttemptWindow \in Nat
      /\ AttemptWindow <= Retention
  BY PolicyAssumption, TimingAssumption DEF IInv, AuditTypeOK, TypeOK
<1>1. AuditTypeOK'  BY <1>0 DEF IInv, AuditTypeOK, TypeOK
<1>2. TimeInv'
  <2>1. \A a \in (auto.attempts \cup issued)' : a <= clock'  BY DEF IInv, TimeInv
  <2>2. told' <= clock'  BY <1>0 DEF IInv, TimeInv
  <2>3. auto'.healthySince # Never =>
          told' <= auto'.healthySince /\ auto'.healthySince <= clock'
    BY <1>0 DEF IInv, TimeInv
  <2> QED  BY <2>1, <2>2, <2>3 DEF IInv, TimeInv
<1>3. /\ IsFiniteSet(auto'.attempts)
      /\ Cardinality(WindowAttempts(auto, clock)) \in Nat
      /\ Cardinality(WindowAttempts(auto', clock)) \in Nat
      /\ Cardinality(WindowAttempts(auto', clock)) <= Cardinality(WindowAttempts(auto, clock))
  BY <1>0, WindowShrinks DEF IInv, CountInv
<1>4. MaxAttempts \in Nat  BY PolicyAssumption
<1>5. WaitingInv'  BY <1>0, <1>3, <1>4 DEF IInv, WaitingInv
<1>6. ReservedInv'
  <2> SUFFICES ASSUME stage = "reserved" PROVE ReservedInv'  BY DEF ReservedInv
  <2>1. auto'.healthySince # Never => reservedAt <= auto'.healthySince
    BY <1>0 DEF IInv, ReservedInv, TimeInv
  <2> QED  BY <1>0, <2>1 DEF IInv, ReservedInv
<1>7. CountInv'
  <2>1. \A i \in InWindow(issued) : i \in auto.attempts /\ clock - i < Retention
    <3> SUFFICES ASSUME NEW i \in InWindow(issued)
                 PROVE  i \in auto.attempts /\ clock - i < Retention
      OBVIOUS
    <3>1. i \in Nat /\ clock - i < AttemptWindow  BY <1>0 DEF InWindow
    <3>2. i \in auto.attempts  BY DEF IInv, CountInv, StartsAreOnFile
    <3> QED  BY <1>0, <3>1, <3>2
  <2>2. StartsAreOnFile'  BY <2>1 DEF StartsAreOnFile, InWindow
  <2> QED  BY <1>3, <1>4, <2>2 DEF IInv, CountInv
<1>8. ResultInv'
  BY DEF IInv, ResultInv, FailuresCounted, CooldownHonoured
<1> QED  BY <1>1, <1>2, <1>5, <1>6, <1>7, <1>8 DEF IInv

LEMMA HealthInv == \A healthy \in BOOLEAN : IInv /\ AuditHealth(healthy) => IInv'
<1> SUFFICES ASSUME NEW healthy \in BOOLEAN, IInv, AuditHealth(healthy) PROVE IInv'
  OBVIOUS
<1> DEFINE r == ObservedHealth(auto, clock, healthy)
<1>0. /\ clock \in Nat /\ auto \in PolicyRecord /\ damaged \in BOOLEAN
      /\ Normalized(auto) /\ reservedAt \in Nat /\ owedUntil \in Nat
  BY TimingAssumption DEF IInv, AuditTypeOK, TypeOK, ResultInv
<1>1. /\ r \in PolicyRecord /\ Normalized(r)
      /\ r.healthySince = HealthySince(auto, clock, healthy)
      /\ Forgives(auto, clock, healthy) =>
           r.attempts = {} /\ r.failures = 0 /\ r.cooldown = 0
      /\ ~Forgives(auto, clock, healthy) =>
           /\ r.attempts = {a \in auto.attempts : clock - a < Retention}
           /\ r.failures = auto.failures /\ r.cooldown = auto.cooldown
  <2> HIDE DEF r
  <2>1. r = ObservedHealth(auto, clock, healthy)  BY DEF r
  <2> QED  BY <1>0, <2>1, ObservedEffect
<1> HIDE DEF r
<1>2. /\ auto' = IF damaged THEN auto ELSE r
      /\ UNCHANGED <<clock, damaged, stage, heldSince, reservedAt>>
      /\ told' = IF healthy \/ damaged THEN told ELSE clock
      /\ unwell' \in {unwell, clock} /\ unwell' \in Nat
  BY <1>0, <1>1 DEF AuditHealth, ObserveHealth, Write, Saved, r, IInv, AuditTypeOK
<1>3. CASE damaged
  <2>1. /\ auto' = auto /\ told' = told
        /\ UNCHANGED <<issued, streak, owedUntil>>
    BY <1>2, <1>3 DEF AuditHealth
  <2>2. \A a \in auto.attempts : clock - a < Retention => a \in auto'.attempts
    BY <2>1
  <2> QED  BY <1>0, <1>2, <2>1, <2>2, PrunedInv
<1>4. CASE ~damaged /\ ~Forgives(auto, clock, healthy)
  <2>1. UNCHANGED <<issued, streak, owedUntil>>  BY <1>4 DEF AuditHealth
  <2>2. auto'.healthySince # Never => /\ auto'.healthySince \in {auto.healthySince, clock}
                                      /\ told' = told
    BY <1>1, <1>2, <1>4 DEF HealthySince
  <2> QED  BY <1>1, <1>2, <1>4, <2>1, <2>2, PrunedInv
<1>5. CASE ~damaged /\ Forgives(auto, clock, healthy)
  <2>1. issued' = {} /\ streak' = 0 /\ owedUntil' = 0 /\ auto' = r
    BY <1>2, <1>5 DEF AuditHealth
  <2>2. healthy /\ told' = told /\ auto'.healthySince \in {auto.healthySince, clock}
        /\ auto'.healthySince # Never /\ clock - auto'.healthySince >= HealthyReset
    BY <1>0, <1>1, <1>2, <1>5, <2>1 DEF Forgives, Settled, HealthySince, Never
  <2>3. auto'.healthySince \in Nat  BY <1>1, <2>1, <2>2 DEF PolicyRecord
  <2>4. stage # "reserved"
    <3> SUFFICES ASSUME stage = "reserved" PROVE FALSE  OBVIOUS
    <3>1. reservedAt <= auto'.healthySince /\ clock <= reservedAt + ProbeBound
      BY <2>2, <1>0 DEF IInv, ReservedInv, TimeInv
    <3>2. ProbeBound \in Nat /\ HealthyReset \in Nat /\ ProbeBound < HealthyReset
      BY TimingAssumption, PolicyAssumption
    <3> QED  BY <1>0, <2>2, <2>3, <3>1, <3>2
  <2>5. AuditTypeOK'  BY <1>1, <1>2, <2>1, <2>2 DEF IInv, AuditTypeOK, TypeOK
  <2>6. TimeInv'
    <3>1. (auto.attempts \cup issued)' = {}  BY <1>1, <1>5, <2>1
    <3>2. auto.healthySince \in Nat \cup {Never} /\ told \in Nat
      BY <1>0 DEF PolicyRecord, IInv, AuditTypeOK
    <3>3. told' <= auto'.healthySince /\ auto'.healthySince <= clock'
      BY <1>0, <1>2, <2>2, <2>3, <3>2 DEF IInv, TimeInv
    <3> QED  BY <1>2, <2>2, <3>1, <3>3 DEF IInv, TimeInv
  <2>7. WindowAttempts(r, clock) = {}  BY <1>1, <1>5 DEF WindowAttempts
  <2>8. Cardinality(WindowAttempts(r, clock)) = 0 /\ MaxAttempts \in Nat /\ MaxAttempts > 0
    BY <2>7, FS_EmptySet, PolicyAssumption
  <2>9. WaitingInv' /\ ReservedInv'
    BY <1>1, <1>2, <1>5, <2>1, <2>4, <2>8 DEF IInv, WaitingInv, ReservedInv
  <2>10. CountInv'
    BY <1>1, <1>2, <1>5, <2>1, <2>8, FS_EmptySet DEF CountInv, StartsAreOnFile, InWindow
  <2>11. ResultInv'
    BY <1>0, <1>1, <1>2, <1>5, <2>1, <2>4
    DEF IInv, ResultInv, FailuresCounted, CooldownHonoured
  <2> QED  BY <2>5, <2>6, <2>9, <2>10, <2>11 DEF IInv
<1> QED  BY <1>0, <1>3, <1>4, <1>5

LEMMA SetMaintenanceInv ==
    \A enabled \in BOOLEAN : IInv /\ SetMaintenance(enabled) /\ UNCHANGED history => IInv'
<1> SUFFICES ASSUME NEW enabled \in BOOLEAN, IInv, SetMaintenance(enabled), UNCHANGED history
             PROVE  IInv'
  OBVIOUS
<1> DEFINE r == MaintenanceSet(auto, enabled)
<1>0. auto \in PolicyRecord /\ Normalized(auto)
  BY DEF IInv, AuditTypeOK, TypeOK, ResultInv
<1>1. /\ r \in PolicyRecord /\ Normalized(r)
      /\ r.attempts = auto.attempts /\ r.failures = auto.failures
      /\ r.cooldown = auto.cooldown /\ r.healthySince = auto.healthySince
  <2> HIDE DEF r
  <2>1. r = MaintenanceSet(auto, enabled)  BY DEF r
  <2> QED  BY <1>0, <2>1, MaintenanceEffect
<1> HIDE DEF r
<1>2. auto' \in {auto, r}  BY <1>1 DEF SetMaintenance, Write, Saved, r
<1>3. /\ auto' \in PolicyRecord /\ Normalized(auto')
      /\ auto'.attempts = auto.attempts /\ auto'.failures = auto.failures
      /\ auto'.cooldown = auto.cooldown /\ auto'.healthySince = auto.healthySince
  BY <1>0, <1>1, <1>2
<1> QED  BY <1>3, PrunedInv DEF SetMaintenance, history

LEMMA EscalateInv == IInv /\ Escalate /\ UNCHANGED history => IInv'
<1> SUFFICES ASSUME IInv, Escalate, UNCHANGED history PROVE IInv'  OBVIOUS
<1> DEFINE r == Escalated(auto, clock)
<1>0. auto \in PolicyRecord /\ Normalized(auto) /\ clock \in Nat
  BY TimingAssumption DEF IInv, AuditTypeOK, TypeOK, ResultInv
<1>1. /\ r \in PolicyRecord /\ Normalized(r)
      /\ r.attempts = {a \in auto.attempts : clock - a < Retention}
      /\ r.failures = auto.failures /\ r.cooldown = auto.cooldown
      /\ r.healthySince = auto.healthySince
  <2> HIDE DEF r
  <2>1. r = Escalated(auto, clock)  BY DEF r
  <2> QED  BY <1>0, <2>1, EscalatedEffect
<1> HIDE DEF r
<1>2. auto' = r  BY <1>1 DEF Escalate, Write, Saved, r
<1>3. CASE UNCHANGED <<stage, heldSince, reservedAt>>
  BY <1>1, <1>2, <1>3, PrunedInv DEF Escalate, history
<1>4. CASE stage = "authorized" /\ Ends
  <2> USE DEF Ends
  <2>1. AuditTypeOK'  BY <1>1, <1>2, <1>4 DEF Escalate, history, IInv, AuditTypeOK, TypeOK, Stages
  <2>2. TimeInv'  BY <1>0, <1>1, <1>2, <1>4 DEF Escalate, history, IInv, TimeInv
  <2>3. WaitingInv' /\ ReservedInv'  BY <1>4 DEF WaitingInv, ReservedInv
  <2>4. CountInv'
    <3>1. /\ IsFiniteSet(r.attempts)
          /\ Cardinality(WindowAttempts(auto, clock)) \in Nat
          /\ Cardinality(WindowAttempts(r, clock)) \in Nat
          /\ Cardinality(WindowAttempts(r, clock)) <= Cardinality(WindowAttempts(auto, clock))
      <4>1. r.attempts \subseteq auto.attempts /\ clock <= clock  BY <1>0, <1>1
      <4> QED  BY <1>0, <1>1, <4>1, WindowShrinks DEF IInv, CountInv
    <3>2. MaxAttempts \in Nat /\ AttemptWindow \in Nat /\ Retention \in Nat
          /\ AttemptWindow <= Retention /\ issued \subseteq Nat
      BY PolicyAssumption DEF IInv, AuditTypeOK
    <3>3. \A i \in InWindow(issued) : i \in r.attempts
      <4> SUFFICES ASSUME NEW i \in InWindow(issued) PROVE i \in r.attempts  OBVIOUS
      <4>1. i \in Nat /\ clock - i < AttemptWindow  BY <3>2 DEF InWindow
      <4>2. i \in auto.attempts  BY DEF IInv, CountInv, StartsAreOnFile
      <4> QED  BY <1>0, <1>1, <3>2, <4>1, <4>2
    <3>4. StartsAreOnFile'  BY <1>2, <3>3 DEF StartsAreOnFile, InWindow, Escalate, history
    <3> QED  BY <1>2, <3>1, <3>2, <3>4 DEF IInv, CountInv, Escalate, history
  <2>5. ResultInv'
    BY <1>1, <1>2, <1>4
    DEF IInv, ResultInv, FailuresCounted, CooldownHonoured, Escalate, history
  <2> QED  BY <2>1, <2>2, <2>3, <2>4, <2>5 DEF IInv
<1> QED  BY <1>3, <1>4 DEF Escalate

(* The reservation. *)
LEMMA BeginInv == IInv /\ AuditBegin => IInv'
<1> SUFFICES ASSUME IInv, AuditBegin PROVE IInv'  OBVIOUS
<1> DEFINE r == Reserved(auto, clock)
<1>0. /\ auto \in PolicyRecord /\ Normalized(auto) /\ clock \in Nat /\ heldSince \in Nat
      /\ issued \subseteq Nat /\ owedUntil \in Nat
      /\ MaxAttempts \in Nat /\ AttemptWindow \in Nat /\ AttemptWindow > 0
      /\ Retention \in Nat /\ AttemptWindow <= Retention /\ ProbeBound \in Nat
  BY PolicyAssumption, TimingAssumption DEF IInv, AuditTypeOK, TypeOK, ResultInv
<1>1. /\ r \in PolicyRecord /\ Normalized(r)
      /\ r.attempts = {a \in auto.attempts : clock - a < Retention} \cup {clock}
      /\ r.failures = auto.failures /\ r.cooldown = auto.cooldown
      /\ r.healthySince = Never
  <2> HIDE DEF r
  <2>1. r = Reserved(auto, clock)  BY DEF r
  <2> QED  BY <1>0, <2>1, ReservedEffect
<1> HIDE DEF r
<1>2. /\ auto' = r /\ stage = "confirmed" /\ stage' = "reserved" /\ reservedAt' = clock
      /\ heldSince' = 0 /\ auto.cooldown <= clock /\ told' = clock /\ unwell' = clock
      /\ UNCHANGED <<clock, damaged, issued, streak, owedUntil>>
  BY <1>1 DEF AuditBegin, Begin, Write, Saved, Armed, r
<1>3. /\ heldSince < clock /\ Cardinality(WindowAttempts(auto, clock)) < MaxAttempts
      /\ \A a \in auto.attempts \cup issued : a <= heldSince
  BY <1>2 DEF IInv, WaitingInv
<1>4. AuditTypeOK'  BY <1>0, <1>1, <1>2 DEF IInv, AuditTypeOK, TypeOK, Stages
<1>5. TimeInv'  BY <1>0, <1>1, <1>2 DEF IInv, TimeInv
<1>6. WaitingInv'  BY <1>2 DEF WaitingInv
<1>7. ReservedInv'
  <2>1. \A a \in auto'.attempts : a <= clock  BY <1>0, <1>1, <1>2 DEF IInv, TimeInv
  <2>2. \A i \in issued : i < clock
    <3> SUFFICES ASSUME NEW i \in issued PROVE i < clock  OBVIOUS
    <3>1. i \in Nat /\ i <= heldSince  BY <1>0, <1>3
    <3> QED  BY <1>0, <1>3, <3>1
  <2> QED  BY <1>0, <1>1, <1>2, <2>1, <2>2 DEF ReservedInv
<1>8. CountInv'
  <2>1. IsFiniteSet(r.attempts) /\ Cardinality(WindowAttempts(r, clock)) <= MaxAttempts
    BY <1>0, <1>1, <1>3, WindowGrows DEF IInv, CountInv
  <2>2. \A i \in InWindow(issued) : i \in r.attempts
    <3> SUFFICES ASSUME NEW i \in InWindow(issued) PROVE i \in r.attempts  OBVIOUS
    <3>1. i \in Nat /\ clock - i < AttemptWindow  BY <1>0 DEF InWindow
    <3>2. i \in auto.attempts  BY DEF IInv, CountInv, StartsAreOnFile
    <3> QED  BY <1>0, <1>1, <3>1, <3>2
  <2>3. StartsAreOnFile'  BY <1>2, <2>2 DEF StartsAreOnFile, InWindow
  <2> QED  BY <1>2, <2>1, <2>3 DEF IInv, CountInv
<1>9. ResultInv'
  <2>1. auto.cooldown \in Nat  BY <1>0 DEF PolicyRecord
  <2> QED
    BY <1>0, <1>1, <1>2, <2>1 DEF IInv, ResultInv, FailuresCounted, CooldownHonoured
<1> QED  BY <1>4, <1>5, <1>6, <1>7, <1>8, <1>9 DEF IInv

(* The start command: its stamp is on file, unless it is past the window already. *)
LEMMA StartInv == IInv /\ AuditStart => IInv'
<1> SUFFICES ASSUME IInv, AuditStart PROVE IInv'  OBVIOUS
<1>0. /\ clock \in Nat /\ reservedAt \in Nat /\ AttemptWindow \in Nat
      /\ Retention \in Nat /\ AttemptWindow <= Retention
  BY PolicyAssumption, TimingAssumption DEF IInv, AuditTypeOK, TypeOK
<1>1. /\ stage = "reserved" /\ stage' = "started" /\ issued' = issued \cup {reservedAt}
      /\ reservedAt' = 0
      /\ UNCHANGED <<clock, auto, damaged, heldSince, streak, owedUntil, told, unwell>>
  BY DEF AuditStart, IssueStart
<1>2. AuditTypeOK'  BY <1>0, <1>1 DEF IInv, AuditTypeOK, TypeOK, Stages
<1>3. TimeInv'  BY <1>0, <1>1 DEF IInv, TimeInv
<1>4. WaitingInv' /\ ReservedInv'  BY <1>1 DEF WaitingInv, ReservedInv
<1>5. CountInv'
  <2>1. clock - reservedAt < AttemptWindow => reservedAt \in auto.attempts
    BY <1>0, <1>1 DEF IInv, ReservedInv
  <2>2. StartsAreOnFile'
    BY <1>1, <2>1 DEF IInv, CountInv, StartsAreOnFile, InWindow
  <2>3. IsFiniteSet(issued')  BY <1>1, FS_AddElement DEF IInv, CountInv
  <2>4. UNCHANGED WindowAttempts(auto, clock)  BY <1>1
  <2> QED  BY <1>1, <2>2, <2>3, <2>4 DEF IInv, CountInv
<1>6. ResultInv'
  BY <1>1 DEF IInv, ResultInv, FailuresCounted, CooldownHonoured
<1> QED  BY <1>2, <1>3, <1>4, <1>5, <1>6 DEF IInv

(* The cancellation gives back its own stamp, never that of a start command. *)
LEMMA CancelInv == IInv /\ Cancel /\ UNCHANGED history => IInv'
<1> SUFFICES ASSUME IInv, Cancel, UNCHANGED history PROVE IInv'  OBVIOUS
<1> DEFINE r == Withdrawn(auto)
<1>0. /\ clock \in Nat /\ reservedAt \in Nat /\ AttemptWindow \in Nat
      /\ Retention \in Nat /\ AttemptWindow <= Retention /\ issued \subseteq Nat
      /\ auto \in PolicyRecord /\ auto.attempts \subseteq Nat /\ Normalized(auto)
  BY PolicyAssumption, TimingAssumption
  DEF IInv, AuditTypeOK, TypeOK, ResultInv, PolicyRecord
<1>1. /\ r \in PolicyRecord /\ Normalized(r)
      /\ r.attempts = IF auto.attempts = {} THEN {} ELSE auto.attempts \ {Latest(auto.attempts)}
      /\ r.failures = auto.failures /\ r.cooldown = auto.cooldown
      /\ r.healthySince = auto.healthySince
  <2> HIDE DEF r
  <2>1. r = Withdrawn(auto)  BY DEF r
  <2> QED  BY <1>0, <2>1, WithdrawnEffect
<1> HIDE DEF r
<1>2. /\ auto' \in {auto, r} /\ stage = "reserved" /\ Ends
      /\ stage' = "none" /\ heldSince' = 0 /\ reservedAt' = 0
      /\ UNCHANGED <<clock, damaged, issued, streak, owedUntil, told, unwell>>
  BY <1>1 DEF Cancel, Ends, Write, Saved, history, r
<1>3. CASE auto' = auto
  BY <1>2, <1>3, QuitInv DEF history
<1>4. CASE auto' = r
  <2>1. r.attempts \subseteq auto.attempts  BY <1>1
  <2>2. AuditTypeOK'  BY <1>1, <1>2, <1>4 DEF IInv, AuditTypeOK, TypeOK, Stages
  <2>3. TimeInv'  BY <1>0, <1>1, <1>2, <1>4, <2>1 DEF IInv, TimeInv
  <2>4. WaitingInv' /\ ReservedInv'  BY <1>2 DEF WaitingInv, ReservedInv
  <2>5. CountInv'
    <3>1. /\ IsFiniteSet(r.attempts)
          /\ Cardinality(WindowAttempts(auto, clock)) \in Nat
          /\ Cardinality(WindowAttempts(r, clock)) \in Nat
          /\ Cardinality(WindowAttempts(r, clock)) <= Cardinality(WindowAttempts(auto, clock))
      BY <1>0, <1>1, <2>1, WindowShrinks DEF IInv, CountInv
    <3>2. MaxAttempts \in Nat  BY PolicyAssumption
    <3>3. ASSUME NEW i \in InWindow(issued) PROVE i \in r.attempts
      <4>1. i \in Nat /\ clock - i < AttemptWindow /\ i \in issued  BY <1>0 DEF InWindow
      <4>2. i \in auto.attempts  BY DEF IInv, CountInv, StartsAreOnFile
      <4>3. i < reservedAt /\ \A a \in auto.attempts : a <= reservedAt
        BY <1>2, <4>1 DEF IInv, ReservedInv
      <4>4. reservedAt \in auto.attempts
        <5>1. clock - reservedAt < Retention  BY <1>0, <4>1, <4>3
        <5> QED  BY <1>2, <5>1 DEF IInv, ReservedInv
      <4>5. Latest(auto.attempts) = reservedAt  BY <1>0, <4>3, <4>4, LatestIsBound
      <4> QED  BY <1>0, <1>1, <4>1, <4>2, <4>3, <4>5
    <3>4. StartsAreOnFile'  BY <1>2, <1>4, <3>3 DEF StartsAreOnFile, InWindow
    <3> QED  BY <1>2, <1>4, <3>1, <3>2, <3>4 DEF IInv, CountInv
  <2>6. ResultInv'
    BY <1>1, <1>2, <1>4 DEF IInv, ResultInv, FailuresCounted, CooldownHonoured
  <2> QED  BY <2>2, <2>3, <2>4, <2>5, <2>6 DEF IInv
<1> QED  BY <1>2, <1>3, <1>4

(* The result. *)
LEMMA ConcludeInv == \A verified \in BOOLEAN : IInv /\ AuditConclude(verified) => IInv'
<1> SUFFICES ASSUME NEW verified \in BOOLEAN, IInv, AuditConclude(verified) PROVE IInv'
  OBVIOUS
<1> DEFINE r == Concluded(auto, clock, verified)
<1>0. /\ clock \in Nat /\ auto \in PolicyRecord /\ auto.attempts \subseteq Nat
      /\ Normalized(auto) /\ streak \in Nat /\ FailureLimit \in Nat
      /\ auto.failures \in Nat /\ damaged \in BOOLEAN /\ MinCooldown \in Nat
  BY PolicyAssumption, TimingAssumption
  DEF IInv, AuditTypeOK, TypeOK, ResultInv, PolicyRecord
<1>1. /\ r \in PolicyRecord /\ r.attempts = auto.attempts
      /\ r.failures = IF verified THEN 0 ELSE auto.failures + 1
      /\ r.cooldown = clock + IF verified THEN MinCooldown ELSE Backoff(auto.failures + 1)
      /\ r.healthySince = IF verified THEN clock ELSE auto.healthySince
      /\ r.mode # "maintenance"
  <2>1. LET c == Concluded(auto, clock, verified)
        IN  /\ c \in PolicyRecord /\ c.attempts = auto.attempts
            /\ c.failures = IF verified THEN 0 ELSE auto.failures + 1
            /\ c.cooldown = clock + IF verified THEN MinCooldown ELSE Backoff(auto.failures + 1)
            /\ c.healthySince = IF verified THEN clock ELSE auto.healthySince
            /\ c.mode # "maintenance"
    BY <1>0, ConcludedEffect
  <2> QED  BY <2>1
<1> HIDE DEF r
<1>2. /\ auto' = IF damaged THEN auto ELSE Saved(auto, r)
      /\ stage \in {"reserved", "started"} /\ Ends
      /\ stage' = "none" /\ heldSince' = 0 /\ reservedAt' = 0
      /\ UNCHANGED <<clock, damaged, issued, told, unwell>>
  BY DEF AuditConclude, Conclude, Ends, Write, r
<1>3. CASE damaged
  BY <1>2, <1>3, QuitInv DEF AuditConclude, history
<1>4. CASE ~damaged
  <2>1. /\ streak' = IF verified THEN 0 ELSE streak + 1
        /\ owedUntil' = clock + IF verified THEN MinCooldown ELSE Backoff(streak + 1)
    BY <1>4 DEF AuditConclude
  <2>2. Backoff(streak + 1) \in Nat  BY <1>0, BackoffType
  <2>3. auto' \in {auto, r} /\ Normalized(auto')
    BY <1>0, <1>2, <1>4 DEF Saved
  <2>4. auto' \in PolicyRecord /\ auto'.attempts = auto.attempts
    BY <1>0, <1>1, <2>3
  <2>5. AuditTypeOK'
    BY <1>0, <1>2, <2>1, <2>2, <2>3, <2>4 DEF IInv, AuditTypeOK, TypeOK, Stages
  <2>6. TimeInv'
    <3>1. auto'.healthySince \in {auto.healthySince, clock}  BY <1>1, <2>3
    <3> QED  BY <1>0, <1>2, <2>4, <3>1 DEF IInv, TimeInv
  <2>7. WaitingInv' /\ ReservedInv'  BY <1>2 DEF WaitingInv, ReservedInv
  <2>8. CountInv'
    BY <1>2, <2>4 DEF IInv, CountInv, StartsAreOnFile, InWindow, WindowAttempts
  <2>9. ResultInv'
    <3>1. ASSUME streak' <= FailureLimit
          PROVE  FailuresCounted' /\ owedUntil' <= auto'.cooldown
      <4>1. streak <= FailureLimit \/ verified  BY <1>0, <2>1, <3>1
      <4>2. auto.failures = streak \/ verified
        BY <4>1 DEF IInv, ResultInv, FailuresCounted
      <4>3. r.failures = streak' /\ r.cooldown = owedUntil'  BY <1>1, <2>1, <4>2
      <4>4. Normalized(r)
        <5>1. r.mode \in Modes  BY <1>1 DEF PolicyRecord
        <5> QED  BY <1>1, <3>1, <4>3, <5>1 DEF Normalized
      <4>5. auto' = r  BY <1>2, <1>4, <4>4 DEF Saved
      <4>6. r.cooldown \in Nat  BY <1>1 DEF PolicyRecord
      <4> QED  BY <4>3, <4>5, <4>6 DEF FailuresCounted
    <3> QED  BY <1>2, <2>3, <3>1 DEF ResultInv, CooldownHonoured
  <2> QED  BY <2>5, <2>6, <2>7, <2>8, <2>9 DEF IInv
<1> QED  BY <1>0, <1>3, <1>4

-------------------------------------------------------------------------------
LEMMA NextInv == IInv /\ [AuditNext]_auditVars => IInv'
<1> SUFFICES ASSUME IInv, [AuditNext]_auditVars PROVE IInv'  OBVIOUS
<1>1. CASE Unaudited
  <2>1. ASSUME Abandon \/ WorkerLost, UNCHANGED history PROVE IInv'
    BY <2>1, QuitInv DEF Abandon, WorkerLost
  <2> QED
    BY <1>1, <2>1, TickInv, AuthorizeInv, ReauthorizeInv, EscalateInv, CancelInv,
       DamageInv, SetMaintenanceInv DEF Unaudited
<1>2. CASE \E healthy \in BOOLEAN : AuditHealth(healthy)  BY <1>2, HealthInv
<1>3. CASE AuditBegin  BY <1>3, BeginInv
<1>4. CASE AuditStart  BY <1>4, StartInv
<1>5. CASE \E verified \in BOOLEAN : AuditConclude(verified)  BY <1>5, ConcludeInv
<1>6. CASE UNCHANGED auditVars  BY <1>6, StutterInv
<1> QED  BY <1>1, <1>2, <1>3, <1>4, <1>5, <1>6 DEF AuditNext

(* Every reachable state satisfies the inductive invariant. *)
THEOREM Invariance == AuditSpec => []IInv
BY InitInv, NextInv, PTL DEF AuditSpec

(* Every variable keeps its type: in particular the record automation.json holds *)
(* is always one that load_state accepts.                                        *)
THEOREM TypeCorrect == AuditSpec => []AuditTypeOK
<1>1. IInv => AuditTypeOK  BY DEF IInv
<1> QED  BY <1>1, Invariance, PTL

(* The start commands given within the window are among the attempts on file. *)
THEOREM StartsOnFile == AuditSpec => []StartsAreOnFile
<1>1. IInv => StartsAreOnFile  BY DEF IInv, CountInv
<1> QED  BY <1>1, Invariance, PTL

(* The attempts on file within the window are at most MaxAttempts, so the start  *)
(* commands are too: the restart budget holds across crashes, cancellations,     *)
(* maintenance and damage.                                                       *)
THEOREM Budget == AuditSpec => []BudgetRespected
<1>1. ASSUME IInv PROVE BudgetRespected
  <2> DEFINE W == WindowAttempts(auto, clock)
  <2>1. InWindow(issued) \subseteq W
    BY <1>1 DEF IInv, CountInv, StartsAreOnFile, InWindow, WindowAttempts
  <2>2. IsFiniteSet(W)  BY <1>1, FS_Subset DEF IInv, CountInv, WindowAttempts
  <2>3. Cardinality(W) <= MaxAttempts  BY <1>1 DEF IInv, CountInv
  <2> HIDE DEF W
  <2>4. IsFiniteSet(InWindow(issued)) /\ Cardinality(InWindow(issued)) <= Cardinality(W)
    BY <2>1, <2>2, FS_Subset
  <2>5. Cardinality(W) \in Nat /\ Cardinality(InWindow(issued)) \in Nat /\ MaxAttempts \in Nat
    BY <2>2, <2>4, FS_CardinalityType, PolicyAssumption
  <2> QED  BY <2>3, <2>4, <2>5 DEF BudgetRespected
<1> QED  BY <1>1, Invariance, PTL

(* As long as no more than FailureLimit results in a row are failures, the delay  *)
(* owed for the last result is observed.                                         *)
THEOREM Cooldown == AuditSpec => [](streak <= FailureLimit => CooldownHonoured)
<1>1. IInv => (streak <= FailureLimit => CooldownHonoured)
  BY DEF IInv, ResultInv
<1> QED  BY <1>1, Invariance, PTL

(* Up to FailureLimit in a row, each failed result is on file. *)
THEOREM Failures == AuditSpec => [](streak <= FailureLimit => FailuresCounted)
<1>1. IInv => (streak <= FailureLimit => FailuresCounted)
  BY DEF IInv, ResultInv
<1> QED  BY <1>1, Invariance, PTL

(* A reservation never reuses a stamp. *)
THEOREM NewStamps == AuditSpec => StampsAreNew
<1>1. ASSUME IInv, Begin PROVE clock \notin auto.attempts
  <2>1. clock \in Nat /\ heldSince \in Nat /\ heldSince < clock
        /\ \A a \in auto.attempts : a <= heldSince
    BY <1>1, TimingAssumption DEF Begin, IInv, WaitingInv, AuditTypeOK, TypeOK
  <2> QED  BY <2>1
<1>2. IInv => (Begin => clock \notin auto.attempts)  BY <1>1
<1>3. IInv /\ [AuditNext]_auditVars => [Begin => clock \notin auto.attempts]_auditVars
  BY <1>2
<1> QED  BY <1>3, Invariance, PTL DEF AuditSpec, StampsAreNew

(* While the file is damaged nothing overwrites it and nothing is reserved. *)
THEOREM Inhibition == AuditSpec => DamageInhibits
<1> DEFINE A == damaged => auto' = auto /\ (stage' = "reserved" => stage = "reserved")
<1>1. ASSUME AuditNext, damaged PROVE A
  BY <1>1 DEF AuditNext, Unaudited, AuditHealth, AuditBegin, AuditStart, AuditConclude, Tick,
     ObserveHealth, SetMaintenance, Authorize, Reauthorize, Escalate, Abandon, Begin,
     IssueStart, Cancel, Conclude, Ends, WorkerLost, Damage, Restore, Write
<1>2. [AuditNext]_auditVars => [A]_auditVars  BY <1>1
<1> QED  BY <1>2, PTL DEF AuditSpec, DamageInhibits

(* Forgiveness is earned: a step that lowers the cooldown or drops a start       *)
(* command of the window comes after HealthyReset seconds in which no attempt     *)
(* began and no unhealthy observation found the file in order.                   *)
LEMMA EarnedByHealth ==
    \A healthy \in BOOLEAN :
        IInv /\ AuditHealth(healthy) /\ auto' # auto =>
            \/ clock - told >= HealthyReset
            \/ auto'.cooldown = auto.cooldown /\ issued' = issued
<1> SUFFICES ASSUME NEW healthy \in BOOLEAN, IInv, AuditHealth(healthy), auto' # auto,
                    ~(clock - told >= HealthyReset)
             PROVE  auto'.cooldown = auto.cooldown /\ issued' = issued
  OBVIOUS
<1>0. /\ clock \in Nat /\ auto \in PolicyRecord /\ Normalized(auto) /\ told \in Nat
      /\ HealthyReset \in Nat /\ HealthyReset > 0
      /\ auto.healthySince \in Nat \cup {Never}
  BY TimingAssumption, PolicyAssumption
  DEF IInv, AuditTypeOK, TypeOK, ResultInv, PolicyRecord
<1>1. ~damaged /\ auto' \in {auto, ObservedHealth(auto, clock, healthy)}
  BY DEF AuditHealth, ObserveHealth, Write, Saved
<1>2. ~Forgives(auto, clock, healthy)
  <2> SUFFICES ASSUME Settled(auto, clock, healthy) PROVE FALSE  BY DEF Forgives
  <2>1. CASE auto.healthySince = Never
    BY <1>0, <2>1 DEF Settled, HealthySince
  <2>2. CASE auto.healthySince # Never
    <3>1. told <= auto.healthySince  BY <2>2 DEF IInv, TimeInv
    <3>2. clock - auto.healthySince >= HealthyReset
      BY <2>2 DEF Settled, HealthySince
    <3> QED  BY <1>0, <2>2, <3>1, <3>2
  <2> QED  BY <2>1, <2>2
<1>3. ObservedHealth(auto, clock, healthy).cooldown = auto.cooldown
  BY <1>0, <1>2, ObservedEffect
<1> QED  BY <1>1, <1>2, <1>3 DEF AuditHealth

THEOREM Earned == AuditSpec => ForgivenessIsEarned
<1> DEFINE A == ForgivesEarly => clock - told >= HealthyReset
<1>1. ASSUME IInv, IInv', AuditNext PROVE A
  <2> USE DEF ForgivesEarly
  <2>0. /\ clock \in Nat /\ auto \in PolicyRecord /\ auto.cooldown \in Nat
        /\ auto.failures \in Nat /\ MinCooldown \in Nat
    BY <1>1, TimingAssumption, PolicyAssumption DEF IInv, AuditTypeOK, TypeOK, PolicyRecord
  <2>1. ASSUME clock' = clock, issued \subseteq issued'
        PROVE  InWindow(issued) \subseteq auto'.attempts
    BY <1>1, <2>1 DEF IInv, CountInv, StartsAreOnFile, InWindow
  <2>2. ASSUME auto' = auto PROVE A
    BY <1>1, <2>0, <2>2 DEF IInv, CountInv, StartsAreOnFile
  <2>3. ASSUME clock' = clock, issued \subseteq issued', auto'.cooldown = auto.cooldown PROVE A
    BY <2>0, <2>1, <2>3
  <2>4. ASSUME NEW healthy \in BOOLEAN, AuditHealth(healthy) PROVE A
    <3>1. clock' = clock  BY <2>4 DEF AuditHealth, ObserveHealth
    <3> QED  BY <1>1, <2>2, <2>3, <2>4, <3>1, EarnedByHealth
  <2>5. CASE AuditBegin
    <3>1. Reserved(auto, clock).cooldown = auto.cooldown  BY <2>0, ReservedEffect
    <3> QED  BY <2>3, <2>5, <3>1 DEF AuditBegin, Begin, Write, Saved
  <2>6. CASE AuditStart
    BY <2>2, <2>6 DEF AuditStart, IssueStart
  <2>7. ASSUME NEW verified \in BOOLEAN, AuditConclude(verified) PROVE A
    <3> DEFINE r == Concluded(auto, clock, verified)
    <3>1. auto' \in {auto, r} /\ clock' = clock /\ issued' = issued
      BY <2>7 DEF AuditConclude, Conclude, Write, Saved
    <3>2. Backoff(auto.failures + 1) \in Nat  BY <2>0, BackoffType
    <3>3. r.cooldown = clock + IF verified THEN MinCooldown ELSE Backoff(auto.failures + 1)
      BY <2>0, ConcludedEffect
    <3>4. auto.cooldown <= clock
      BY <1>1, <2>7 DEF IInv, ResultInv, AuditConclude, Conclude
    <3> HIDE DEF r
    <3>5. ~(r.cooldown < auto.cooldown)  BY <2>0, <3>2, <3>3, <3>4
    <3> QED  BY <2>1, <2>2, <3>1, <3>5
  <2>8. ASSUME NEW enabled \in BOOLEAN, SetMaintenance(enabled), UNCHANGED history PROVE A
    <3>1. MaintenanceSet(auto, enabled).cooldown = auto.cooldown  BY <2>0, MaintenanceEffect
    <3> QED  BY <2>3, <2>8, <3>1 DEF SetMaintenance, Write, Saved, history
  <2>9. ASSUME Escalate, UNCHANGED history PROVE A
    <3>1. Escalated(auto, clock).cooldown = auto.cooldown  BY <2>0, EscalatedEffect
    <3> QED  BY <2>3, <2>9, <3>1 DEF Escalate, Write, Saved, history
  <2>10. ASSUME Cancel, UNCHANGED history PROVE A
    <3>1. Withdrawn(auto).cooldown = auto.cooldown  BY <2>0, WithdrawnEffect
    <3> QED  BY <2>3, <2>10, <3>1 DEF Cancel, Write, Saved, history
  <2>11. CASE Unaudited
    <3>1. ASSUME Tick \/ Authorize \/ Reauthorize \/ Abandon \/ WorkerLost \/ Damage \/ Restore
          PROVE  A
      BY <2>2, <3>1 DEF Tick, Authorize, Reauthorize, Abandon, WorkerLost, Damage, Restore
    <3> QED  BY <2>8, <2>9, <2>10, <2>11, <3>1 DEF Unaudited
  <2> QED  BY <1>1, <2>4, <2>5, <2>6, <2>7, <2>11 DEF AuditNext
<1>2. IInv /\ IInv' /\ [AuditNext]_auditVars => [A]_auditVars  BY <1>1
<1> QED  BY <1>2, Invariance, PTL DEF AuditSpec, ForgivenessIsEarned
===============================================================================
