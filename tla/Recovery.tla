------------------------------- MODULE Recovery -------------------------------
(* The monitor process at work on an outage of Asterisk: the health loop that    *)
(* observes and publishes, the RecoveryCoordinator that admits one worker, and   *)
(* recover_asterisk, probe by probe.  They share the files system.json,          *)
(* intelligence.json, recovery.json and automation.json.  Every step is one      *)
(* probe, one command, one file written or one locked call of the policy, so     *)
(* what a step knows may be stale by the next.  It implements Automation.        *)
EXTENDS AutomationPolicy

CONSTANTS
    ConfirmDelay, ProbeBound, MaxClock,  \* as in Automation
    MaxAge,         \* MAX_AGE_SECONDS: how long an observation counts, in ticks
    StableChecks,   \* VERIFY_STABLE_CHECKS
    VerifyTimeout,  \* VERIFY_TIMEOUT_SECONDS, in ticks
    MaxFaults       \* bound of the model: exceptions, crashes, damaged files

ASSUME RecoveryAssumption ==
    /\ ConfirmDelay \in Nat \ {0} /\ MaxClock \in Nat
    /\ ProbeBound \in Nat /\ ProbeBound < HealthyReset
    /\ MaxAge \in Nat /\ VerifyTimeout \in Nat /\ MaxFaults \in Nat
    /\ StableChecks \in Nat \ {0}

VARIABLES
    clock, auto, damaged,   \* as in Automation
    service,  \* the Asterisk service runs
    loop,     \* the health loop: where it is, the observation it holds
    system,   \* the observation in system.json
    since,    \* what is newer than the start of the attempt in flight
    lock,     \* RecoveryCoordinator._lock
    worker,   \* the recovery thread: where it is and its local variables
    faults

policyVars == <<clock, auto, damaged>>
vars == <<policyVars, service, loop, system, since, lock, worker, faults>>

(* What collect() makes of its three probes.  "online" is the healthy case: the  *)
(* service runs, the CLI answers, the node is observable.  "offline" is a service *)
(* confirmed stopped with a silent CLI.  "other" is everything unclear or degraded*)
(* and a missing file; nothing asks for its age, which is left out.               *)
Kinds == {"offline", "other", "online"}
Observations == [kind : Kinds, at : 0..MaxClock]
NoObservation == [kind |-> "other", at |-> 0]
Observation(kind) == [kind |-> kind, at |-> IF kind = "other" THEN 0 ELSE clock]
Seen(up) == {"other", IF up THEN "online" ELSE "offline"}

(* loop, system: observed_at >= started_at of the observation held, published.    *)
(* intelligence: the file is older than started_at, newer but made from an older  *)
(* observation, or made from a newer one.  witnessed is history: since then the   *)
(* loop has seen Asterisk well.                                                   *)
SinceStart == [loop : BOOLEAN, system : BOOLEAN, witnessed : BOOLEAN,
               intelligence : {"old", "stale", "fresh"}]
NothingSince ==
    [loop |-> FALSE, system |-> FALSE, witnessed |-> FALSE, intelligence |-> "old"]

Idle == [pc |-> "idle", obs |-> NoObservation]
LoopSteps == {"idle", "publish", "ask", "launch", "enrich"}

(* at: observed_at of the state it loaded.  held: when it was first allowed.      *)
(* from: when the sleep, the reservation or the verification began.               *)
NoWorker == [pc |-> "none", at |-> 0, held |-> 0, from |-> 0, stable |-> 0,
             verdict |-> "none", issued |-> FALSE]
Early == {"load", "check", "probe"}
WorkerSteps == {"none", "sleep", "recheck", "begin", "final", "command", "verify",
                "settle", "exit"} \cup Early
Verdicts == {"none", "cancelled", "failed", "success"}

(* How far the attempt has come, in the terms of Automation. *)
Stage ==
    CASE worker.pc \in {"probe", "sleep", "recheck"} -> "authorized"
      [] worker.pc = "begin" -> "confirmed"
      [] worker.pc \in {"final", "command", "verify", "settle"} ->
             IF worker.issued THEN "started" ELSE "reserved"
      [] OTHER -> "none"

Attempting == Stage \in {"reserved", "started"}

Policy == INSTANCE Automation WITH
    stage <- Stage, heldSince <- worker.held,
    reservedAt <- IF Stage = "reserved" THEN worker.from ELSE 0

TypeOK ==
    /\ Policy!TypeOK /\ Normalized(auto)
    /\ service \in BOOLEAN /\ lock \in BOOLEAN
    /\ loop \in [pc : LoopSteps, obs : Observations]
    /\ system \in Observations
    /\ since \in SinceStart
    /\ worker \in [pc : WorkerSteps, at : 0..MaxClock, held : 0..MaxClock,
                   from : 0..MaxClock, stable : 0..StableChecks,
                   verdict : Verdicts, issued : BOOLEAN]
    /\ faults \in 0..MaxFaults

Init ==
    /\ service = TRUE
    /\ loop = Idle /\ system = NoObservation
    /\ lock = FALSE /\ worker = NoWorker /\ since = NothingSince
    /\ faults = 0
    /\ Policy!Init

Fault == faults < MaxFaults /\ faults' = faults + 1

-------------------------------------------------------------------------------
(* recovery_allowed(state) for a state observed at a given time to be offline. *)
Fresh(at) == clock - at <= MaxAge
Allowed(at) == Fresh(at) /\ ~damaged /\ Armed(auto, clock) /\ ~Exhausted(auto, clock)
Escalates(at) == Fresh(at) /\ ~damaged /\ Armed(auto, clock) /\ Exhausted(auto, clock)

\* Its effect on the file, whatever it answers.
Asked(at) == auto' = IF Escalates(at) THEN Saved(auto, Escalated(auto, clock)) ELSE auto

-------------------------------------------------------------------------------
(* The health loop: run_health_cycle.  An observation is stamped when its probes *)
(* begin; everything after works on that copy.                                   *)
Collect ==
    /\ loop.pc = "idle"
    /\ \E kind \in Seen(service) :
         /\ loop' = [pc |-> "publish", obs |-> Observation(kind)]
         /\ since' = [since EXCEPT !.loop = Attempting,
                                   !.witnessed = @ \/ (Attempting /\ kind = "online")]
    /\ UNCHANGED <<policyVars, service, system, lock, worker, faults>>

\* observe_health, then system.json, which cannot be written in the faulty case.
Publish ==
    /\ loop.pc = "publish"
    /\ Policy!Write(ObservedHealth(auto, clock, loop.obs.kind = "online"))
    /\ \/ /\ system' = loop.obs
          /\ since' = [since EXCEPT !.system = since.loop]
          /\ loop' = IF loop.obs.kind = "offline" THEN [loop EXCEPT !.pc = "ask"]
                     ELSE [Idle EXCEPT !.pc = "enrich"]
          /\ UNCHANGED faults
       \/ Fault /\ loop' = Idle /\ UNCHANGED <<system, since>>
    /\ UNCHANGED <<clock, damaged, service, lock, worker>>

\* start_if_needed, first half: the policy is asked before the lock is tried.
Ask ==
    /\ loop.pc = "ask"
    /\ Asked(loop.obs.at)
    /\ loop' = [Idle EXCEPT !.pc = IF Allowed(loop.obs.at) THEN "launch" ELSE "enrich"]
    /\ UNCHANGED <<clock, damaged, service, system, since, lock, worker, faults>>

\* Second half: the lock is claimed before the thread exists.  The model starts
\* none that would have no time left to sleep.
Launch ==
    /\ loop.pc = "launch"
    /\ loop' = [loop EXCEPT !.pc = "enrich"]
    /\ IF lock \/ clock + ConfirmDelay > MaxClock
       THEN UNCHANGED <<lock, worker>>
       ELSE lock' = TRUE /\ worker' = [NoWorker EXCEPT !.pc = "load"]
    /\ UNCHANGED <<policyVars, service, system, since, faults>>

\* build_intelligence, and system.json once more with the same observation.
Enrich ==
    /\ loop.pc = "enrich"
    /\ since' = [since EXCEPT !.intelligence =
                    IF ~Attempting THEN "old" ELSE IF since.loop THEN "fresh" ELSE "stale"]
    /\ loop' = Idle
    /\ UNCHANGED <<policyVars, service, system, lock, worker, faults>>

\* run_periodic: an exception (a thread that cannot be started, for one, which
\* gives the lock back) ends the cycle, not the loop.
LoopFails ==
    /\ loop.pc # "idle" /\ Fault
    /\ loop' = Idle
    /\ UNCHANGED <<policyVars, service, system, since, lock, worker>>

-------------------------------------------------------------------------------
(* The worker: recover_asterisk.  A probe of the service may fail to see that it *)
(* is stopped, and never sees a running one stopped.                             *)
To(step) == worker' = [worker EXCEPT !.pc = step]
Leave == worker' = [NoWorker EXCEPT !.pc = "exit"] /\ since' = NothingSince

Load ==
    /\ worker.pc = "load"
    /\ IF system.kind = "offline"
       THEN worker' = [worker EXCEPT !.pc = "check", !.at = system.at] /\ UNCHANGED since
       ELSE Leave
    /\ UNCHANGED <<policyVars, service, loop, system, lock, faults>>

Check ==
    /\ worker.pc = "check"
    /\ Asked(worker.at)
    /\ IF Allowed(worker.at)
       THEN worker' = [worker EXCEPT !.pc = "probe", !.held = clock] /\ UNCHANGED since
       ELSE Leave
    /\ UNCHANGED <<clock, damaged, service, loop, system, lock, faults>>

Probe ==
    /\ worker.pc = "probe"
    /\ \/ ~service /\ worker' = [worker EXCEPT !.pc = "sleep", !.from = clock] /\ UNCHANGED since
       \/ Leave
    /\ UNCHANGED <<policyVars, service, loop, system, lock, faults>>

\* After the sleep the service must still be stopped and the CLI silent.
Confirm ==
    /\ worker.pc = "sleep" /\ clock >= worker.from + ConfirmDelay
    /\ \/ ~service /\ worker' = [worker EXCEPT !.pc = "recheck", !.from = 0] /\ UNCHANGED since
       \/ Leave
    /\ UNCHANGED <<policyVars, service, loop, system, lock, faults>>

\* Mutant: the policy is not asked again after the sleep.
RecheckUnasked ==
    /\ worker.pc = "recheck"
    /\ worker' = [worker EXCEPT !.pc = "begin", !.at = 0]
    /\ UNCHANGED <<policyVars, service, loop, system, since, lock, faults>>

\* The policy once more, with the observation loaded before the sleep.
Recheck ==
    /\ worker.pc = "recheck"
    /\ Asked(worker.at)
    /\ IF Allowed(worker.at)
       THEN worker' = [worker EXCEPT !.pc = "begin", !.at = 0] /\ UNCHANGED since
       ELSE Leave
    /\ UNCHANGED <<clock, damaged, service, loop, system, lock, faults>>

\* begin_recovery, and started_at: from here on only newer evidence counts.
Begin ==
    /\ worker.pc = "begin"
    /\ IF ~damaged /\ Armed(auto, clock)
       THEN /\ auto' = Saved(auto, Reserved(auto, clock))
            /\ worker' = [NoWorker EXCEPT !.pc = "final", !.from = clock]
            /\ since' = NothingSince
       ELSE Leave /\ UNCHANGED auto
    /\ UNCHANGED <<clock, damaged, service, loop, system, lock, faults>>

Final ==
    /\ worker.pc = "final"
    /\ \/ ~service /\ To("command")
       \/ worker' = [worker EXCEPT !.pc = "settle", !.verdict = "cancelled"]
    /\ UNCHANGED <<policyVars, service, loop, system, since, lock, faults>>

\* systemctl start: it succeeds, or it fails or times out and may still work.
Command ==
    /\ worker.pc = "command"
    /\ \/ /\ worker' = [worker EXCEPT !.pc = "verify", !.issued = TRUE, !.from = clock]
          /\ service' = TRUE
       \/ /\ worker' = [NoWorker EXCEPT !.pc = "settle", !.issued = TRUE, !.verdict = "failed"]
          /\ service' \in {service, TRUE}
    /\ UNCHANGED <<policyVars, loop, system, since, lock, faults>>

-------------------------------------------------------------------------------
(* verify_recovery: one action per turn of its loop.  The service and the CLI    *)
(* are asked directly; the rest is read from the files of the health loop.       *)
Decided(verdict) ==
    worker' = [NoWorker EXCEPT !.pc = "settle", !.issued = TRUE, !.verdict = verdict]

\* Mutant: the published observation only has to be fresh.
EvidencePassesIfFresh ==
    service /\ system.kind = "online" /\ Fresh(system.at) /\ since.intelligence # "old"

EvidencePasses ==
    /\ service
    /\ system.kind = "online" /\ Fresh(system.at) /\ since.system
    /\ since.intelligence # "old"

Verify ==
    /\ worker.pc = "verify" /\ clock <= worker.from + VerifyTimeout
    /\ \/ /\ EvidencePasses
          /\ IF worker.stable + 1 >= StableChecks THEN Decided("success")
             ELSE worker' = [worker EXCEPT !.stable = @ + 1]
       \/ worker' = [worker EXCEPT !.stable = 0]
    /\ UNCHANGED <<policyVars, service, loop, system, since, lock, faults>>

\* Mutant: verification is given up only when Asterisk is seen down.
VerifyExpiresIfDown ==
    /\ worker.pc = "verify" /\ ~service
    /\ Decided("failed")
    /\ UNCHANGED <<policyVars, service, loop, system, since, lock, faults>>

\* The deadline; the last tick of the model stands for all later time.
VerifyExpires ==
    /\ worker.pc = "verify"
    /\ clock > worker.from + VerifyTimeout \/ clock = MaxClock
    /\ Decided("failed")
    /\ UNCHANGED <<policyVars, service, loop, system, since, lock, faults>>

\* recovery.json, which nobody decides by, then finish_ or cancel_recovery.
Settle ==
    /\ worker.pc = "settle"
    /\ Policy!Write(IF worker.verdict = "cancelled" THEN Withdrawn(auto)
                    ELSE Concluded(auto, clock, worker.verdict = "success"))
    /\ Leave
    /\ UNCHANGED <<clock, damaged, service, loop, system, lock, faults>>

\* RecoveryCoordinator._run: the lock is released however the worker ended.
Exit ==
    /\ worker.pc = "exit"
    /\ worker' = NoWorker
    /\ lock' = FALSE
    /\ UNCHANGED <<policyVars, service, loop, system, since, faults>>

\* Mutant: the release is not in a finally clause.
WorkerFailsHolding ==
    /\ worker.pc \notin {"none", "exit"} /\ Fault
    /\ worker' = NoWorker /\ since' = NothingSince
    /\ UNCHANGED <<policyVars, service, loop, system, lock>>

\* An exception ends the worker (a file that cannot be written, mostly).
WorkerFails ==
    /\ worker.pc \notin {"none", "exit"} /\ Fault
    /\ Leave
    /\ UNCHANGED <<policyVars, service, loop, system, lock>>

\* But an OSError between the reservation and the end of the command, where the
\* cancellation is written too, is taken for a command that cannot be executed.
CommandFails ==
    /\ worker.pc = "command" \/ (worker.pc = "settle" /\ worker.verdict = "cancelled")
    /\ Fault
    /\ worker' = [worker EXCEPT !.pc = "settle", !.verdict = "failed"]
    /\ UNCHANGED <<policyVars, service, loop, system, since, lock>>

-------------------------------------------------------------------------------
(* The world. *)

\* A worker that may still have to sleep is given the time to.
Horizon == IF worker.pc \in Early THEN MaxClock - ConfirmDelay ELSE MaxClock

Tick ==
    /\ clock < Horizon
    /\ Stage = "reserved" => clock < worker.from + ProbeBound
    /\ clock' = clock + 1
    /\ UNCHANGED <<auto, damaged, service, loop, system, since, lock, worker, faults>>

\* Asterisk stops, or is started by somebody else.
ServiceChanges ==
    /\ service' = ~service
    /\ UNCHANGED <<policyVars, loop, system, since, lock, worker, faults>>

SetMaintenance(enabled) ==
    /\ Policy!Write(MaintenanceSet(auto, enabled))
    /\ UNCHANGED <<clock, damaged, service, loop, system, since, lock, worker, faults>>

Damage ==
    /\ ~damaged /\ Fault
    /\ damaged' = TRUE
    /\ UNCHANGED <<clock, auto, service, loop, system, since, lock, worker>>

Restore ==
    /\ damaged /\ damaged' = FALSE
    /\ UNCHANGED <<clock, auto, service, loop, system, since, lock, worker, faults>>

\* The monitor process ends and systemd restarts it: the files remain.
Crash ==
    /\ Fault
    /\ loop' = Idle /\ lock' = FALSE /\ worker' = NoWorker /\ since' = NothingSince
    /\ UNCHANGED <<policyVars, service, system>>

WorkerNext ==
    \/ Load \/ Check \/ Probe \/ Confirm \/ Recheck \/ Begin \/ Final \/ Command
    \/ Verify \/ VerifyExpires \/ Settle \/ Exit

Next ==
    \/ Collect \/ Publish \/ Ask \/ Launch \/ Enrich
    \/ WorkerNext
    \/ LoopFails \/ WorkerFails \/ CommandFails \/ Crash
    \/ Tick \/ ServiceChanges \/ Damage \/ Restore
    \/ \E enabled \in BOOLEAN : SetMaintenance(enabled)

Spec == Init /\ [][Next]_vars

\* Threads are scheduled and time passes; probes and commands have timeouts.
FairSpec == Spec /\ WF_vars(WorkerNext) /\ WF_vars(Tick)

-------------------------------------------------------------------------------
(* Properties. *)

\* The code is an implementation of the recovery policy's model: the stale
\* observation the worker keeps, the two checks, the lock, exceptions and crashes
\* produce no step on automation.json that Automation does not have, so the
\* promises proved of Automation hold of it.
ImplementsAutomation == Policy!Spec

\* One worker at a time, and the lock is held exactly while there is one: no
\* exception, failed thread start or crash leaves it behind (RecoveryCoordinator).
LockIffWorker == lock = (worker.pc # "none")

\* Success is declared only if the health loop has seen Asterisk well since the
\* reservation: no copy of an older observation, published late, is taken for it.
SuccessIsWitnessed == worker.verdict = "success" => since.witnessed

\* Recovery never stays claimed: every worker ends and releases the lock, through
\* every refusal, cancellation, failure and exception.
LockIsReleased == lock ~> ~lock

(* Statements of the documentation that the code does not keep: see README. *)

\* CONFIGURATION.md:12 "fresh post-restart health and Intelligence state": what
\* Intelligence says when a success is declared is about an observation made
\* since the attempt.
IntelligenceIsPostRestart == worker.verdict = "success" => since.intelligence = "fresh"

\* automation.py:357 "Release a reserved attempt without claiming a restart or
\* failed verification": no failure is recorded of an attempt whose start command
\* was withheld because Asterisk was not seen to be stopped.
CancelledIsNotFailed ==
    [][worker.verdict = "cancelled" => worker'.verdict # "failed"]_vars
===============================================================================
