------------------------------ MODULE Automation ------------------------------
(* The life of the persisted recovery state: everything that reads or writes   *)
(* automation.json, with the stage of the one recovery attempt that may be in  *)
(* flight.  Every action is one call made under state_lock, so the health loop,*)
(* the recovery worker and the dashboard process interleave between actions.   *)
(* The worker's probes and commands are abstract here: the Recovery module     *)
(* adds them and is shown to implement this one.                               *)
EXTENDS AutomationPolicy

CONSTANTS
    ConfirmDelay,   \* the sleep between the two outage confirmations, in ticks
    ProbeBound,     \* longest time from a reservation to its start command or
                    \* its cancellation: one service probe with its timeout
    MaxClock        \* bound of the model: the last tick

ASSUME TimingAssumption ==
    /\ ConfirmDelay \in Nat \ {0}
    /\ ProbeBound \in Nat /\ ProbeBound < HealthyReset
    /\ MaxClock \in Nat

VARIABLES
    clock,        \* wall-clock seconds, in ticks
    auto,         \* the record in automation.json
    damaged,      \* the file is missing or does not load
    stage,        \* how far the recovery attempt in flight has come
    heldSince,    \* when its first authorization was given, until it reserves
    reservedAt    \* the stamp it put on file, until it gives the command

vars == <<clock, auto, damaged, stage, heldSince, reservedAt>>

(* none: no worker.  authorized: recovery_allowed said yes, the worker         *)
(* confirms the outage.  confirmed: it said yes again after the sleep.         *)
(* reserved: begin_recovery has put the attempt on file.  started: the start   *)
(* command was given and the result is being verified.                         *)
Stages == {"none", "authorized", "confirmed", "reserved", "started"}

TypeOK ==
    /\ clock \in 0..MaxClock
    /\ auto \in PolicyRecord
    /\ damaged \in BOOLEAN
    /\ stage \in Stages
    /\ heldSince \in Nat
    /\ reservedAt \in Nat

Init ==
    /\ clock = 0
    /\ auto = DefaultRecord
    /\ damaged = FALSE
    /\ stage = "none"
    /\ heldSince = 0
    /\ reservedAt = 0

\* The attempt in flight is over, one way or another.
Ends == stage' = "none" /\ heldSince' = 0 /\ reservedAt' = 0

\* Mutant: a handler that repairs a damaged file with what it computed.
WriteAlways(new) == auto' = Saved(auto, new)

\* A handler of an undamaged file replaces it; of a damaged file, leaves it.
Write(new) == auto' = IF damaged THEN auto ELSE Saved(auto, new)

-------------------------------------------------------------------------------
Tick ==
    /\ clock < MaxClock
    /\ stage = "reserved" => clock < reservedAt + ProbeBound
    /\ clock' = clock + 1
    /\ UNCHANGED <<auto, damaged, stage, heldSince, reservedAt>>

\* The health loop reports one observation.
ObserveHealth(healthy) ==
    /\ Write(ObservedHealth(auto, clock, healthy))
    /\ UNCHANGED <<clock, damaged, stage, heldSince, reservedAt>>

\* The dashboard switches Maintenance Mode.
SetMaintenance(enabled) ==
    /\ Write(MaintenanceSet(auto, enabled))
    /\ UNCHANGED <<clock, damaged, stage, heldSince, reservedAt>>

\* recovery_allowed says yes: the first time a worker is under way, the second
\* time, after the sleep, it may go on to reserve.
Authorize ==
    /\ stage = "none"
    /\ ~damaged /\ Armed(auto, clock) /\ ~Exhausted(auto, clock)
    /\ stage' = "authorized"
    /\ heldSince' = clock
    /\ UNCHANGED <<clock, auto, damaged, reservedAt>>

\* Mutant: the outage is confirmed at once, without the sleep.
ReauthorizeAtOnce ==
    /\ stage = "authorized"
    /\ ~damaged /\ Armed(auto, clock) /\ ~Exhausted(auto, clock)
    /\ stage' = "confirmed"
    /\ UNCHANGED <<clock, auto, damaged, heldSince, reservedAt>>

Reauthorize ==
    /\ stage = "authorized"
    /\ clock >= heldSince + ConfirmDelay
    /\ ~damaged /\ Armed(auto, clock) /\ ~Exhausted(auto, clock)
    /\ stage' = "confirmed"
    /\ UNCHANGED <<clock, auto, damaged, heldSince, reservedAt>>

\* recovery_allowed finds the window full.  The health loop asks before it
\* tries the coordinator's lock, so this happens at every stage of the worker;
\* a worker that gets this answer after its sleep stops.
Escalate ==
    /\ ~damaged /\ Armed(auto, clock) /\ Exhausted(auto, clock)
    /\ Write(Escalated(auto, clock))
    /\ \/ UNCHANGED <<stage, heldSince, reservedAt>>
       \/ stage = "authorized" /\ Ends
    /\ UNCHANGED <<clock, damaged>>

\* The worker stops before reserving: a refusal, or the outage is not confirmed.
Abandon ==
    /\ stage \in {"authorized", "confirmed"}
    /\ Ends
    /\ UNCHANGED <<clock, auto, damaged>>

Begin ==
    /\ stage = "confirmed"
    /\ ~damaged /\ Armed(auto, clock)
    /\ Write(Reserved(auto, clock))
    /\ stage' = "reserved"
    /\ reservedAt' = clock
    /\ heldSince' = 0
    /\ UNCHANGED <<clock, damaged>>

\* The final probe still says stopped: the start command is given.
IssueStart ==
    /\ stage = "reserved"
    /\ stage' = "started"
    /\ reservedAt' = 0
    /\ UNCHANGED <<clock, auto, damaged, heldSince>>

\* The final probe does not: the reservation is given back.
Cancel ==
    /\ stage = "reserved"
    /\ Write(Withdrawn(auto))
    /\ Ends
    /\ UNCHANGED <<clock, damaged>>

\* The result; an attempt whose command could not be executed fails as well.
Conclude(verified) ==
    /\ stage = "started" \/ (stage = "reserved" /\ ~verified)
    /\ Write(Concluded(auto, clock, verified))
    /\ Ends
    /\ UNCHANGED <<clock, damaged>>

\* The monitor process ends, or an exception (a record that cannot be written)
\* ends the worker: whatever is on file stays as it is.
WorkerLost ==
    /\ stage # "none"
    /\ Ends
    /\ UNCHANGED <<clock, auto, damaged>>

\* The file becomes unreadable; the operator puts the verified copy back.
Damage ==
    /\ ~damaged
    /\ damaged' = TRUE
    /\ UNCHANGED <<clock, auto, stage, heldSince, reservedAt>>

Restore ==
    /\ damaged
    /\ damaged' = FALSE
    /\ UNCHANGED <<clock, auto, stage, heldSince, reservedAt>>

Next ==
    \/ Tick
    \/ \E healthy \in BOOLEAN : ObserveHealth(healthy)
    \/ \E enabled \in BOOLEAN : SetMaintenance(enabled)
    \/ Authorize \/ Reauthorize \/ Escalate \/ Abandon
    \/ Begin \/ IssueStart \/ Cancel
    \/ \E verified \in BOOLEAN : Conclude(verified)
    \/ WorkerLost \/ Damage \/ Restore

Spec == Init /\ [][Next]_vars
===============================================================================
