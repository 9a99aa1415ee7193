---------------------------- MODULE AutomationAudit ----------------------------
(* Automation with an auditor: history variables that record what really        *)
(* happened, independently of automation.json, and the promises of the recovery *)
(* policy stated over that record.                                              *)
EXTENDS Automation

VARIABLES
    issued,     \* stamps of the attempts whose start command was given, since
                \* the last time sustained health forgave everything
    streak,     \* results in a row that were failures
    owedUntil,  \* until when the last result forbids another attempt
    told,       \* the last time an attempt began, or the node was seen not healthy
                \* while automation.json was in order
    unwell      \* the last time an attempt began, or the node was seen not healthy
                \* at all

history == <<issued, streak, owedUntil, told, unwell>>
auditVars == <<vars, history>>

\* Every variable has its type, and the record on file is one that load_state
\* accepts: no handler, and no default, locks BlueNode out of its own file.
AuditTypeOK ==
    /\ TypeOK /\ Normalized(auto)
    /\ issued \subseteq Nat
    /\ streak \in Nat /\ owedUntil \in Nat /\ told \in Nat /\ unwell \in Nat

AuditInit ==
    Init /\ issued = {} /\ streak = 0 /\ owedUntil = 0 /\ told = 0 /\ unwell = 0

AuditHealth(healthy) ==
    /\ ObserveHealth(healthy)
    /\ unwell' = IF healthy THEN unwell ELSE clock
    /\ told' = IF healthy \/ damaged THEN told ELSE clock
    /\ IF ~damaged /\ Forgives(auto, clock, healthy)
       THEN issued' = {} /\ streak' = 0 /\ owedUntil' = 0
       ELSE UNCHANGED <<issued, streak, owedUntil>>

AuditBegin ==
    Begin /\ told' = clock /\ unwell' = clock /\ UNCHANGED <<issued, streak, owedUntil>>

AuditStart ==
    /\ IssueStart
    /\ issued' = issued \cup {reservedAt}
    /\ UNCHANGED <<streak, owedUntil, told, unwell>>

\* A result that arrives while the file is damaged is lost, as documented.
AuditConclude(verified) ==
    /\ Conclude(verified)
    /\ IF damaged THEN UNCHANGED <<streak, owedUntil>>
       ELSE /\ streak' = IF verified THEN 0 ELSE streak + 1
            /\ owedUntil' = clock + IF verified THEN MinCooldown ELSE Backoff(streak + 1)
    /\ UNCHANGED <<issued, told, unwell>>

\* The remaining calls leave nothing to record.
Unaudited ==
    /\ \/ Tick \/ Authorize \/ Reauthorize \/ Escalate \/ Abandon \/ Cancel
       \/ WorkerLost \/ Damage \/ Restore
       \/ \E enabled \in BOOLEAN : SetMaintenance(enabled)
    /\ UNCHANGED history

AuditNext ==
    \/ Unaudited
    \/ \E healthy \in BOOLEAN : AuditHealth(healthy)
    \/ AuditBegin \/ AuditStart
    \/ \E verified \in BOOLEAN : AuditConclude(verified)

AuditSpec == AuditInit /\ [][AuditNext]_auditVars

-------------------------------------------------------------------------------
(* The promises. *)

InWindow(S) == {a \in S : clock - a < AttemptWindow}

\* Across crashes of the monitor, cancelled attempts, maintenance and damage to
\* the file, no more than MaxAttempts of the attempts made within one window ever
\* lead to a start command, unless sustained health forgave the earlier ones.
\* (recovery_allowed counts them; begin_recovery does not count again.)
BudgetRespected == Cardinality(InWindow(issued)) <= MaxAttempts

\* The count in the file is the count of the attempts: a start command that was
\* given within the window is on file, whatever was cancelled or lost since.
StartsAreOnFile == InWindow(issued) \subseteq auto.attempts

\* No attempt begins before the delay owed for the last recorded result: the
\* minimum cooldown after a success, the progressive backoff after failures.
\* (finish_recovery puts it on file; begin_recovery, later and perhaps in another
\* process, reads it.)
CooldownHonoured == stage = "reserved" => reservedAt >= owedUntil

\* The file counts every failed result in a row: no handler computes a record
\* that save_state refuses to write, which would lose the result in silence.
FailuresCounted == auto.failures = streak

\* Each attempt has a stamp of its own, so the set of stamps counts the attempts.
StampsAreNew == [][Begin => clock \notin auto.attempts]_auditVars

\* A cooldown is cut short, or a start command of the window struck off the file.
ForgivesEarly ==
    auto'.cooldown < auto.cooldown \/ ~(InWindow(issued) \subseteq auto'.attempts)

\* Attempts and cooldowns are forgiven early only after HealthyReset seconds in which
\* no attempt began and no unhealthy observation found the file in order: whatever
\* was cancelled, lost in a crash, or on file from before it was damaged, an
\* observation that the file could take ends the healthy period (observe_health,
\* begin_recovery).  ForgivenessIsUninterrupted, below, is what this does not say.
ForgivenessIsEarned == [][ForgivesEarly => clock - told >= HealthyReset]_auditVars

\* While automation.json is damaged nothing overwrites it and no attempt begins,
\* whoever calls: health observations, the dashboard or a late result.
DamageInhibits ==
    [][damaged => auto' = auto /\ (stage' = "reserved" => stage = "reserved")]_auditVars

-------------------------------------------------------------------------------
(* Why the promises hold: the inductive invariant of AutomationProofs. *)

\* Nothing is stamped in the future.
TimeInv ==
    /\ \A a \in auto.attempts \cup issued : a <= clock
    /\ heldSince <= clock /\ reservedAt <= clock /\ told <= clock
    /\ auto.healthySince # Never =>
         told <= auto.healthySince /\ auto.healthySince <= clock

\* Before the reservation: the sleep separates every older stamp from now, and
\* nothing has filled the window since recovery_allowed counted it.
WaitingInv ==
    /\ stage \in {"authorized", "confirmed"} =>
         \A a \in auto.attempts \cup issued : a <= heldSince
    /\ stage = "confirmed" =>
         heldSince < clock /\ Cardinality(WindowAttempts(auto, clock)) < MaxAttempts

\* Between the reservation and the start command: the stamp on file is the latest
\* one, no start command carries it, and health cannot have been forgiving yet.
ReservedInv ==
    stage = "reserved" =>
        /\ clock <= reservedAt + ProbeBound
        /\ \A a \in auto.attempts : a <= reservedAt
        /\ \A i \in issued : i < reservedAt
        /\ clock - reservedAt < Retention => reservedAt \in auto.attempts
        /\ auto.healthySince # Never => reservedAt <= auto.healthySince

\* The counts.
CountInv ==
    /\ IsFiniteSet(auto.attempts) /\ IsFiniteSet(issued)
    /\ Cardinality(WindowAttempts(auto, clock)) <= MaxAttempts
    /\ StartsAreOnFile

\* The results on file, as long as the failure counter is within its limit.
ResultInv ==
    /\ stage \in {"reserved", "started"} => auto.cooldown <= clock
    /\ streak <= FailureLimit =>
         FailuresCounted /\ owedUntil <= auto.cooldown /\ CooldownHonoured

IInv == AuditTypeOK /\ TimeInv /\ WaitingInv /\ ReservedInv /\ CountInv /\ ResultInv

-------------------------------------------------------------------------------
(* Statements of the documentation that the code does not keep: see README. *)

\* CONFIGURATION.md:67 "Maintenance Mode suspends automatic recovery": no start
\* command is given while Maintenance Mode is on.
NoStartInMaintenance == [][IssueStart => ~auto.maintenance]_auditVars

\* CONFIGURATION.md:19 "sustained healthy period required to clear escalation and
\* attempt history": forgiveness follows HealthyReset seconds with no unhealthy
\* observation at all.  One that is made while the file is damaged is ignored
\* (automation.py:238), and when the file is put back its healthy_since counts the
\* time before, during and after as one healthy period.
ForgivenessIsUninterrupted == [][ForgivesEarly => clock - unwell >= HealthyReset]_auditVars

\* CONFIGURATION.md:17 "minimum delay after an attempt": two start commands are
\* at least the minimum cooldown apart.
DelayAfterEveryStart ==
    stage = "reserved" => \A s \in issued : s = reservedAt \/ reservedAt - s >= MinCooldown
===============================================================================
