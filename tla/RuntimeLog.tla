------------------------------ MODULE RuntimeLog ------------------------------
(* append_bounded and tail_lines of runtime_io.py on the event log: the writers of   *)
(* two processes rotate and append under a lock file, a reader reads file by file    *)
(* without it, and a writer may end between any two steps.  A file holds MaxLines     *)
(* records, which stands for its bytes; the retention of a log left oversized by an   *)
(* older version is left out.                                                        *)
EXTENDS Integers, Sequences, SequencesExt, FiniteSets, Functions, TLC

CONSTANTS
    Writers,     \* the threads that log
    Free,        \* the lock is free
    MaxLines,    \* LOG_BYTES
    MaxRecords   \* bound of the model: the records appended

ASSUME RuntimeLogAssumption ==
    IsFiniteSet(Writers) /\ Free \notin Writers /\ MaxLines \in Nat \ {0} /\ MaxRecords \in Nat

\* The default of append_bounded, which no caller overrides.
Backups == 2

VARIABLES
    files,      \* the log (0) and its backups, as sequences of records
    flock,      \* the writer that holds the lock
    writer,     \* what each writer is doing, and the record it appends
    reader,     \* the file tail_lines reads next, and what it has read
    appended    \* history: every record appended, in order

logVars == <<files, flock, writer, reader, appended>>

Idle == [at |-> "idle"]

LogInit ==
    /\ files = [i \in 0..Backups |-> << >>] /\ flock = Free
    /\ writer = [w \in Writers |-> Idle]
    /\ reader = [next |-> -1, lines |-> << >>] /\ appended = << >>

Goto(w, r) == writer' = [writer EXCEPT ![w] = r]
Logging(w) == writer[w].at # "idle"

-------------------------------------------------------------------------------
\* emit: the record is a name and a number of its own.
Record(event) == [event |-> event, id |-> Len(appended) + 1]
Emit(w, event) == Goto(w, [at |-> "lock", event |-> event, index |-> 0])

\* The lock is taken and the size measured.
Lock(w) ==
    /\ writer[w].at = "lock" /\ flock = Free /\ Len(appended) < MaxRecords
    /\ flock' = w
    /\ Goto(w, IF Len(files[0]) + 1 > MaxLines THEN [writer[w] EXCEPT !.at = "rotate", !.index = Backups]
                                               ELSE [writer[w] EXCEPT !.at = "append"])
    /\ UNCHANGED <<files, reader, appended>>

\* Mutant: a file is copied to its next place and not moved.
RotateByCopy(w) ==
    /\ writer[w].at = "rotate"
    /\ LET i == writer[w].index
       IN  files' = IF files[i - 1] = << >> THEN files ELSE [files EXCEPT ![i] = files[i - 1]]
    /\ Goto(w, IF writer[w].index = 1 THEN [writer[w] EXCEPT !.at = "append"]
                                      ELSE [writer[w] EXCEPT !.index = @ - 1])
    /\ UNCHANGED <<flock, reader, appended>>

\* One rename; a file that is not there is skipped.
Rotate(w) ==
    /\ writer[w].at = "rotate"
    /\ LET i == writer[w].index
       IN  files' = IF files[i - 1] = << >> THEN files ELSE [files EXCEPT ![i] = files[i - 1], ![i - 1] = << >>]
    /\ Goto(w, IF writer[w].index = 1 THEN [writer[w] EXCEPT !.at = "append"]
                                      ELSE [writer[w] EXCEPT !.index = @ - 1])
    /\ UNCHANGED <<flock, reader, appended>>

\* The record is written, or the write fails; the lock is released.
Write(w) ==
    /\ writer[w].at = "append" /\ flock' = Free /\ Goto(w, Idle)
    /\ \/ /\ files' = [files EXCEPT ![0] = Append(@, Record(writer[w].event))]
          /\ appended' = Append(appended, Record(writer[w].event))
       \/ UNCHANGED <<files, appended>>
    /\ UNCHANGED reader

\* The writer's process ends: the lock goes with it.
Crash(w) ==
    /\ Logging(w) /\ Goto(w, Idle)
    /\ flock' = IF flock = w THEN Free ELSE flock
    /\ UNCHANGED <<files, reader, appended>>

-------------------------------------------------------------------------------
\* Mutant: the log is read before its backups.
ReadNewestFirst ==
    /\ reader' = IF reader.next = -1 THEN [next |-> Backups, lines |-> << >>]
                 ELSE [next |-> reader.next - 1, lines |-> files[Backups - reader.next] \o reader.lines]
    /\ UNCHANGED <<files, flock, writer, appended>>

\* tail_lines: the oldest backup first, the log last, each as it is when it is opened.
Read ==
    /\ reader' = IF reader.next = -1 THEN [next |-> Backups, lines |-> << >>]
                 ELSE [next |-> reader.next - 1, lines |-> reader.lines \o files[reader.next]]
    /\ UNCHANGED <<files, flock, writer, appended>>

LogNext ==
    \/ \E w \in Writers : Lock(w) \/ Rotate(w) \/ Write(w) \/ Crash(w)
    \/ Read

-------------------------------------------------------------------------------
(* Properties.                                                                      *)

\* What is on file, oldest first.
OnFile == files[2] \o files[1] \o files[0]

\* The files hold the last records appended, in order and without a gap, whichever
\* rename a crash came after, and at least as many as the backups hold.
LogKeepsTheLast ==
    /\ IsSuffix(OnFile, appended)
    /\ Len(OnFile) >= Min({Len(appended), Backups * MaxLines})

\* A reader that reads during a rotation may miss records, and gets none twice or out of
\* order.
ReadInOrder ==
    \A i, j \in DOMAIN reader.lines : i < j => reader.lines[i].id < reader.lines[j].id
===============================================================================
