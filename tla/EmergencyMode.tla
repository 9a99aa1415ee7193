----------------------------- MODULE EmergencyMode ----------------------------
(* emergency_mode.py on the web server's threads, with the event log it shares with  *)
(* the monitor.                                                                      *)
EXTENDS RuntimeLog

CONSTANT Monitor   \* the writer that is not a thread of the web server

ASSUME EmergencyAssumption == Monitor \in Writers

VARIABLES
    active,   \* what load_state makes of emergency_mode.json
    clear     \* history: the last transition was made while no other was being logged, and
              \* since then no event was lost and the mode did not change with the file

emergencyVars == <<logVars, active, clear>>
Handlers == Writers \ {Monitor}
EmergencyInit == LogInit /\ active = FALSE /\ clear = TRUE

Name(on) == IF on THEN "ACTIVATED" ELSE "DEACTIVATED"

\* The handlers with a transition to log.
Due == {w \in Writers : Logging(w) /\ writer[w].event # "OTHER"}

\* Mutant: the event is logged before the mode is saved, which may fail.
SetAfterLogging(w, on) ==
    /\ writer[w].at = "idle" /\ Len(appended) < MaxRecords
    /\ active # on /\ active' \in BOOLEAN /\ clear' = (Due = {})
    /\ Emit(w, Name(on))
    /\ UNCHANGED <<files, flock, reader, appended>>

\* set_emergency: the mode is read and saved under the lock of the state, and the event is
\* logged after it; when the save fails, nothing has changed and nothing is logged.
SetEmergency(w, on) ==
    /\ writer[w].at = "idle" /\ Len(appended) < MaxRecords
    /\ active # on /\ active' = on /\ clear' = (Due = {})
    /\ Emit(w, Name(on))
    /\ UNCHANGED <<files, flock, reader, appended>>

\* load_state: a file that is lost, unreadable, a link or invalid is the default; it may be
\* put back.  No event tells of either.
FileChanges ==
    /\ active' = ~active /\ clear' = FALSE
    /\ UNCHANGED logVars

\* The monitor logs an event of its own.
MonitorEvent ==
    /\ writer[Monitor].at = "idle" /\ Len(appended) < MaxRecords /\ Emit(Monitor, "OTHER")
    /\ UNCHANGED <<files, flock, reader, appended, active, clear>>

\* The log's own steps; an event whose writer stops without appending it is lost.
LogStep ==
    /\ LogNext /\ UNCHANGED active
    /\ clear' = (clear /\ (appended' # appended \/ \A w \in Due : writer'[w].at # "idle"))

EmergencyNext ==
    \/ \E w \in Handlers, on \in BOOLEAN : SetEmergency(w, on)
    \/ FileChanges \/ MonitorEvent \/ LogStep

-------------------------------------------------------------------------------
\* The last transition in the log is to the present mode, or there is none in Normal Mode.
Told == {i \in DOMAIN appended : appended[i].event # "OTHER"}
TellsTheMode ==
    /\ Told = {} => ~active
    /\ \A i \in Told : (\A j \in Told : j <= i) => appended[i].event = Name(active)

\* Once every transition is logged, the last one in the log is the mode, although the event
\* is logged after the lock is released (emergency_mode.py:147): unless the last transition
\* was made while another was being logged, its event was lost, or the file changed since.
\* A log that went astray so is right again after the next transition made alone.
LogTellsTheMode == clear /\ Due = {} => TellsTheMode

\* "Activation and deactivation create one transition event" (docs/EMERGENCY_MODE.md:27), so
\* its reader may take the last one for the mode.  EmergencyOrder.cfg refutes it although
\* nothing is lost: of two handlers, the first one's event may come last.
LastEventIsTheMode == Due = {} => TellsTheMode
===============================================================================
