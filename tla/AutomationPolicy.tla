--------------------------- MODULE AutomationPolicy ---------------------------
(* The automatic-recovery policy of core/automation.py, as operations on the   *)
(* record BlueNode keeps in state/automation.json.  Each operation is what one *)
(* function of the file does to that record between load_state and save_state. *)
(* The texts (last_action, last_result, escalation_reason) and the copied      *)
(* connectivity fields are left out: no decision reads them.                   *)
EXTENDS Integers, FiniteSets

CONSTANTS
    AttemptWindow,  \* ATTEMPT_WINDOW_SECONDS: the rolling window of attempts
    Retention,      \* max(86400, ATTEMPT_WINDOW_SECONDS): when a stamp is pruned
    MaxAttempts,    \* MAX_ATTEMPTS: attempts allowed within the window
    MinCooldown,    \* MIN_COOLDOWN_SECONDS: the delay owed after any attempt
    MaxBackoff,     \* MAX_BACKOFF_SECONDS: the longest pause
    HealthyReset,   \* HEALTHY_RESET_SECONDS: healthy time that forgives everything
    FailureLimit    \* largest consecutive_failures _normalized accepts (1000)

(* What the operator configures: the code takes any integer (automation.py:28), *)
(* and only the retention follows from another value.                          *)
ASSUME PolicyAssumption ==
    /\ AttemptWindow \in Nat \ {0}
    /\ Retention \in Nat /\ Retention >= AttemptWindow
    /\ MaxAttempts \in Nat \ {0}
    /\ MinCooldown \in Nat
    /\ MaxBackoff \in Nat
    /\ HealthyReset \in Nat \ {0}
    /\ FailureLimit \in Nat

(* What the doubling of the backoff needs of arithmetic. *)
ASSUME DoublingAssumption == \A k \in 0..30 : 2^k \in Nat

Never == -1                          \* healthy_since is None
Modes == {"active", "maintenance", "recovering", "recovered", "attention"}

(* The fields of automation.json that the policy reads.  The attempts are a   *)
(* list of whole-second stamps in the code; no two are equal, because every   *)
(* attempt is reserved at least five seconds after the check that led to it,  *)
(* so the list is the set of its stamps and its last entry is the latest one. *)
PolicyRecord ==
    [mode : Modes, maintenance : BOOLEAN, attempts : SUBSET Nat, failures : Nat,
     cooldown : Nat, backoff : Nat, healthySince : Nat \cup {Never}]

\* Mutant: a default that the loader rejects.
DefaultInMaintenance ==
    [mode |-> "maintenance", maintenance |-> FALSE, attempts |-> {}, failures |-> 0,
     cooldown |-> 0, backoff |-> 0, healthySince |-> Never]

DefaultRecord ==
    [mode |-> "active", maintenance |-> FALSE, attempts |-> {}, failures |-> 0,
     cooldown |-> 0, backoff |-> 0, healthySince |-> Never]

-------------------------------------------------------------------------------
(* Loading, saving and the questions asked of a record. *)

\* _normalized: what a record must satisfy to be loaded or saved at all.
Normalized(s) ==
    /\ s.mode \in Modes
    /\ s.failures <= FailureLimit
    /\ s.mode = "maintenance" => s.maintenance

\* save_state: a record that is not normalized is dropped, the file stays.
Saved(old, new) == IF Normalized(new) THEN new ELSE old

Prune(s, now) == [s EXCEPT !.attempts = {a \in @ : now - a < Retention}]

WindowAttempts(s, now) == {a \in s.attempts : now - a < AttemptWindow}

\* Mutant: the last attempt of the budget is counted as free.
ExhaustedOffByOne(s, now) == Cardinality(WindowAttempts(s, now)) > MaxAttempts

Exhausted(s, now) == Cardinality(WindowAttempts(s, now)) >= MaxAttempts

\* Mutant: the cooldown is not looked at.
ArmedIgnoringCooldown(s, now) == ~s.maintenance /\ s.backoff <= now

\* The checks recovery_allowed and begin_recovery share.
Armed(s, now) == ~s.maintenance /\ s.backoff <= now /\ s.cooldown <= now

\* Mutant: pop(0) for pop().
Earliest(S) == CHOOSE a \in S : \A b \in S : a <= b

Latest(S) == CHOOSE a \in S : \A b \in S : b <= a

Resting(s) == IF s.maintenance THEN "maintenance" ELSE "active"

Lower(a, b) == IF a <= b THEN a ELSE b

\* The delay after the k-th failure in a row.
Backoff(k) ==
    Lower(MaxBackoff, MinCooldown * 2^(IF k = 0 THEN 0 ELSE Lower(30, k - 1)))

-------------------------------------------------------------------------------
(* The operations. *)

\* Mutant: an unhealthy observation does not end the healthy period.
HealthySinceSticky(s, now, healthy) ==
    IF s.healthySince = Never /\ healthy THEN now ELSE s.healthySince

\* observe_health, split at its three decisions: since when the node is
\* healthy, whether that is long enough, and what there is to forgive.
HealthySince(s, now, healthy) ==
    IF ~healthy THEN Never ELSE IF s.healthySince = Never THEN now ELSE s.healthySince

Settled(s, now, healthy) ==
    healthy /\ now - HealthySince(s, now, healthy) >= HealthyReset

Owing(s) == s.attempts # {} \/ s.failures # 0 \/ s.backoff # 0 \/ s.cooldown # 0

Forgives(s, now, healthy) == Settled(s, now, healthy) /\ Owing(Prune(s, now))

ObservedHealth(s, now, healthy) ==
    LET p == [Prune(s, now) EXCEPT !.healthySince = HealthySince(s, now, healthy)]
        r == IF Forgives(s, now, healthy)
             THEN [p EXCEPT !.attempts = {}, !.failures = 0, !.backoff = 0,
                            !.cooldown = 0, !.mode = Resting(s)]
             ELSE IF Settled(s, now, healthy) /\ s.mode = "recovered"
             THEN [p EXCEPT !.mode = Resting(s)]
             ELSE p
    IN  [r EXCEPT !.mode = IF s.maintenance THEN "maintenance" ELSE @]

MaintenanceSet(s, enabled) ==
    IF s.maintenance = enabled THEN s
    ELSE [s EXCEPT !.maintenance = enabled,
                   !.mode = IF enabled THEN "maintenance" ELSE "active"]

\* recovery_allowed on a record with too many attempts in the window.
Escalated(s, now) ==
    [Prune(s, now) EXCEPT !.backoff = now + MaxBackoff, !.mode = "attention"]

\* begin_recovery: the attempt is on file before anything is started.
Reserved(s, now) ==
    [Prune(s, now) EXCEPT !.attempts = @ \cup {now}, !.mode = "recovering",
                          !.healthySince = Never]

\* cancel_recovery: the last stamp of the list is given back.
Withdrawn(s) ==
    [s EXCEPT !.attempts = IF @ = {} THEN @ ELSE @ \ {Latest(@)},
              !.mode = Resting(s)]

\* Mutant: a success does not end the run of failures.
PassedKeepsFailures(s, now) ==
    [s EXCEPT !.healthySince = now, !.cooldown = now + MinCooldown,
              !.mode = IF Exhausted(s, now) THEN "attention" ELSE "recovered",
              !.backoff = IF Exhausted(s, now) THEN now + MaxBackoff ELSE @]

\* finish_recovery(True): a window already full still pauses recovery.
Passed(s, now) ==
    [s EXCEPT !.healthySince = now, !.failures = 0, !.cooldown = now + MinCooldown,
              !.mode = IF Exhausted(s, now) THEN "attention" ELSE "recovered",
              !.backoff = IF Exhausted(s, now) THEN now + MaxBackoff ELSE @]

\* finish_recovery(False): the second failure in a row escalates too.
Failed(s, now) ==
    LET k == s.failures + 1
        escalate == k >= 2 \/ Exhausted(s, now)
    IN  [s EXCEPT !.failures = k, !.cooldown = now + Backoff(k),
                  !.mode = IF escalate THEN "attention" ELSE "active",
                  !.backoff = IF escalate THEN now + Backoff(k) ELSE @]

Concluded(s, now, verified) == IF verified THEN Passed(s, now) ELSE Failed(s, now)
===============================================================================
