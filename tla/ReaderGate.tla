----------------------------- MODULE ReaderGate -----------------------------
(***************************************************************************)
(* `_SubprocessExecutor.run` (prebuilt_target.py): calls that run one      *)
(* command each, read its output in a thread of their own, and share the   *)
(* process-wide lock _PROCESS_READER_GATE that keeps a second reader from  *)
(* being started while one is stalled in its read.                         *)
(*                                                                         *)
(* Between two statements of a call the interpreter may run the reader, an *)
(* other call, or raise an interrupt in the call. `cap` is what the reader *)
(* has found so far; overflow.is_set() and total > MAX are read off it.    *)
(***************************************************************************)
EXTENDS FiniteSets, Naturals

CONSTANTS
    Calls,          \* calls of run
    Capture,        \* the ones with capture=True
    Interruptible   \* an interrupt may hit between a statement and the
                    \* assignment that records it

ASSUME GateAssumption ==
    /\ Capture \subseteq Calls
    /\ Interruptible \in BOOLEAN
    /\ IsFiniteSet(Calls)

VARIABLES
    pc,        \* where each call is
    gate,      \* _PROCESS_READER_GATE is locked
    reserved,  \* the local reader_reserved
    started,   \* the local reader_started
    proc,      \* the command's process
    reader,    \* the reader thread
    cap,       \* what the reader has captured
    late,      \* calls whose `end` has passed
    outcome    \* how each call ended

locals == <<reserved, started, outcome>>
vars == <<pc, gate, locals, proc, reader, cap, late>>

-----------------------------------------------------------------------------

\* The points at which the call's try block may raise.
Try == {"spawn", "thread", "poll", "join", "flag", "total", "alive", "clock"}

\* A lock was taken, or a thread started, that no local variable knows yet.
Gaps == {"reserved", "started"}

TypeOK ==
    /\ pc \in [Calls -> {"idle", "finally", "reap", "done"} \cup Try \cup Gaps]
    /\ gate \in BOOLEAN
    /\ reserved \in [Calls -> BOOLEAN]
    /\ started \in [Calls -> BOOLEAN]
    /\ proc \in [Calls -> {"none", "running", "killed", "exited"}]
    /\ reader \in [Calls -> {"none", "reading", "leaving", "exited"}]
    /\ cap \in [Calls -> {"partial", "complete", "over", "broken"}]
    /\ late \subseteq Calls
    /\ outcome \in [Calls -> {"none", "busy", "failed", "result"}]

Init ==
    /\ pc = [c \in Calls |-> "idle"]
    /\ gate = FALSE
    /\ reserved = [c \in Calls |-> FALSE]
    /\ started = [c \in Calls |-> FALSE]
    /\ proc = [c \in Calls |-> "none"]
    /\ reader = [c \in Calls |-> "none"]
    /\ cap = [c \in Calls |-> "partial"]
    /\ late = {}
    /\ outcome = [c \in Calls |-> "none"]

Goto(c, label) == pc' = [pc EXCEPT ![c] = label]

End(c, how) ==
    /\ Goto(c, "finally")
    /\ outcome' = [outcome EXCEPT ![c] = how]

\* overflow.is_set(): too much output, or the reader raised.
Overflow(c) == cap[c] \in {"over", "broken"}

-----------------------------------------------------------------------------
(* The call *)

\* A call without capture needs no gate.
Uncaptured(c) ==
    /\ pc[c] = "idle" /\ c \notin Capture
    /\ Goto(c, "spawn")
    /\ UNCHANGED <<gate, locals, proc, reader, cap, late>>

\* acquire(blocking=False) succeeds.
Acquire(c) ==
    /\ pc[c] = "idle" /\ c \in Capture
    /\ ~gate
    /\ gate' = TRUE
    /\ Goto(c, "reserved")
    /\ UNCHANGED <<locals, proc, reader, cap, late>>

\* Or it does not: the call fails before anything is spawned.
Busy(c) ==
    /\ pc[c] = "idle" /\ c \in Capture
    /\ gate
    /\ End(c, "busy")
    /\ UNCHANGED <<gate, reserved, started, proc, reader, cap, late>>

NoteReserved(c) ==
    /\ pc[c] = "reserved"
    /\ reserved' = [reserved EXCEPT ![c] = TRUE]
    /\ Goto(c, "spawn")
    /\ UNCHANGED <<gate, started, outcome, proc, reader, cap, late>>

Spawn(c) ==
    /\ pc[c] = "spawn"
    /\ proc' = [proc EXCEPT ![c] = "running"]
    /\ Goto(c, IF c \in Capture THEN "thread" ELSE "poll")
    /\ UNCHANGED <<gate, locals, reader, cap, late>>

StartReader(c) ==
    /\ pc[c] = "thread"
    /\ reader' = [reader EXCEPT ![c] = "reading"]
    /\ Goto(c, "started")
    /\ UNCHANGED <<gate, locals, proc, cap, late>>

\* Wrong variant: the flag that hands the gate to the reader is never set.
ForgetStarted(c) ==
    /\ pc[c] = "started"
    /\ Goto(c, "poll")
    /\ UNCHANGED <<gate, locals, proc, reader, cap, late>>

NoteStarted(c) ==
    /\ pc[c] = "started"
    /\ started' = [started EXCEPT ![c] = TRUE]
    /\ Goto(c, "poll")
    /\ UNCHANGED <<gate, reserved, outcome, proc, reader, cap, late>>

\* Wrong variant: only overflow is looked for while the process runs.
PollWithoutClock(c) ==
    /\ pc[c] = "poll" /\ proc[c] = "running"
    /\ Overflow(c)
    /\ proc' = [proc EXCEPT ![c] = "killed"]
    /\ End(c, "failed")
    /\ UNCHANGED <<gate, reserved, started, reader, cap, late>>

\* The poll loop kills a process that writes too much or runs too long.
PollKill(c) ==
    /\ pc[c] = "poll" /\ proc[c] = "running"
    /\ Overflow(c) \/ c \in late
    /\ proc' = [proc EXCEPT ![c] = "killed"]
    /\ End(c, "failed")
    /\ UNCHANGED <<gate, reserved, started, reader, cap, late>>

PollExited(c) ==
    /\ pc[c] = "poll" /\ proc[c] = "exited"
    /\ Goto(c, IF c \in Capture THEN "join" ELSE "clock")
    /\ UNCHANGED <<gate, locals, proc, reader, cap, late>>

\* The reader ends in time, or half a second goes by.
Join(c) ==
    /\ pc[c] = "join"
    /\ Goto(c, "flag")
    /\ UNCHANGED <<gate, locals, proc, reader, cap, late>>

\* The three operands of one `or`, each at its own moment.
CheckFlag(c) ==
    /\ pc[c] = "flag" /\ ~Overflow(c)
    /\ Goto(c, "total")
    /\ UNCHANGED <<gate, locals, proc, reader, cap, late>>

CheckTotal(c) ==
    /\ pc[c] = "total" /\ cap[c] # "over"
    /\ Goto(c, "alive")
    /\ UNCHANGED <<gate, locals, proc, reader, cap, late>>

\* Wrong variant: a reader that is still at work is not waited for.
CheckNothing(c) ==
    /\ pc[c] = "alive"
    /\ Goto(c, "clock")
    /\ UNCHANGED <<gate, locals, proc, reader, cap, late>>

CheckAlive(c) ==
    /\ pc[c] = "alive" /\ reader[c] = "exited"
    /\ Goto(c, "clock")
    /\ UNCHANGED <<gate, locals, proc, reader, cap, late>>

Return(c) ==
    /\ pc[c] = "clock" /\ c \notin late
    /\ End(c, "result")
    /\ UNCHANGED <<gate, reserved, started, proc, reader, cap, late>>

\* Something in the try block raises: a check that fails, Popen, the thread's
\* start, or an interrupt.
Fail(c) ==
    /\ pc[c] \in Try \cup (IF Interruptible THEN Gaps ELSE {})
    /\ End(c, "failed")
    /\ UNCHANGED <<gate, reserved, started, proc, reader, cap, late>>

\* Wrong variant: a call that never got to its reader keeps the gate.
FinallyKeeping(c) ==
    /\ pc[c] = "finally"
    /\ Goto(c, "reap")
    /\ UNCHANGED <<gate, locals, proc, reader, cap, late>>

\* The finally block: the gate is given back unless a reader holds it. An
\* unlocked lock cannot be released: that raises, and skips the rest.
Finally(c) ==
    /\ pc[c] = "finally"
    /\ LET mine == reserved[c] /\ ~started[c] IN
        \/ ~mine /\ Goto(c, "reap") /\ UNCHANGED gate
        \/ mine /\ gate /\ Goto(c, "reap") /\ gate' = FALSE
        \/ mine /\ ~gate /\ Goto(c, "done") /\ UNCHANGED gate
    /\ UNCHANGED <<locals, proc, reader, cap, late>>

\* A process still there is killed and given a second; its pipes are closed.
Reap(c) ==
    /\ pc[c] = "reap"
    /\ proc' = IF proc[c] = "running" THEN [proc EXCEPT ![c] = "killed"] ELSE proc
    /\ Goto(c, "done")
    /\ UNCHANGED <<gate, locals, reader, cap, late>>

-----------------------------------------------------------------------------
(* The reader, the process and time *)

\* End of output, more than MAX_METADATA_BYTES of it, or a read that raises.
Read(c) ==
    /\ reader[c] = "reading"
    /\ reader' = [reader EXCEPT ![c] = "leaving"]
    /\ \/ proc[c] = "exited" /\ cap' = [cap EXCEPT ![c] = "complete"]
       \/ \E bad \in {"over", "broken"} : cap' = [cap EXCEPT ![c] = bad]
    /\ UNCHANGED <<pc, gate, locals, proc, late>>

\* The reader's own finally block.
Leave(c) ==
    /\ reader[c] = "leaving"
    /\ reader' = [reader EXCEPT ![c] = "exited"]
    /\ gate' = FALSE
    /\ UNCHANGED <<pc, locals, proc, cap, late>>

\* The process ends by itself, or of the signal.
Exit(c) ==
    /\ proc[c] \in {"running", "killed"}
    /\ proc' = [proc EXCEPT ![c] = "exited"]
    /\ UNCHANGED <<pc, gate, locals, reader, cap, late>>

Expire(c) ==
    /\ c \notin late
    /\ late' = late \cup {c}
    /\ UNCHANGED <<pc, gate, locals, proc, reader, cap>>

-----------------------------------------------------------------------------

Step(c) ==
    \/ Uncaptured(c) \/ Acquire(c) \/ Busy(c) \/ NoteReserved(c) \/ Spawn(c)
    \/ StartReader(c) \/ NoteStarted(c) \/ PollKill(c) \/ PollExited(c) \/ Join(c)
    \/ CheckFlag(c) \/ CheckTotal(c) \/ CheckAlive(c) \/ Return(c)
    \/ Finally(c) \/ Reap(c)

\* A check of the try block whose condition says to fail.
MustFail(c) ==
    /\ \/ pc[c] = "flag" /\ Overflow(c)
       \/ pc[c] = "total" /\ cap[c] = "over"
       \/ pc[c] = "alive" /\ reader[c] # "exited"
       \/ pc[c] = "clock" /\ c \in late
    /\ Fail(c)

Next ==
    \E c \in Calls :
        Step(c) \/ Fail(c) \/ Read(c) \/ Leave(c) \/ Exit(c) \/ Expire(c)

\* Time passes and the calling thread runs. Nothing is assumed of the command
\* or of its reader: both may be stuck for ever.
Spec ==
    /\ Init /\ [][Next]_vars
    /\ \A c \in Calls : WF_vars(Step(c) \/ MustFail(c)) /\ WF_vars(Expire(c))

-----------------------------------------------------------------------------
(* Properties *)

\* The call that has the gate and has not handed it to a reader.
Reserving(c) == pc[c] \in {"reserved", "spawn", "thread"} /\ c \in Capture

\* Whether the call stopped between taking the gate and starting its reader.
Unused(c) == pc[c] = "finally" /\ reserved[c] /\ ~started[c]

\* "A stalled reader retains the process-wide capture gate until its read
\* actually exits; another capture fails before spawning a child."
OneReader == Cardinality({c \in Calls : reader[c] = "reading"}) <= 1

\* The gate is locked exactly while a call is on its way to a reader or a
\* reader is alive: it is never lost and never opened under a reader.
GateTracksReader ==
    gate <=> \E c \in Calls :
        Reserving(c) \/ Unused(c) \/ reader[c] \in {"reading", "leaving"}

\* A call that gives a result has waited for its command and for its reader.
ResultAfterReader ==
    \A c \in Capture :
        outcome[c] = "result" => proc[c] = "exited" /\ reader[c] = "exited"

\* No call, however it ends, leaves a command behind that was not signalled.
NoCommandLeft == \A c \in Calls : pc[c] = "done" => proc[c] # "running"

\* A command whose output overflowed is refused, not returned cut short.
OverflowRefused ==
    \A c \in Calls : outcome[c] = "result" => cap[c] # "over"

\* Every call returns, even when its command ignores the signal and its reader
\* is stalled for ever, and even when an earlier stalled reader has the gate.
Returns == \A c \in Calls : pc[c] # "idle" ~> pc[c] = "done"
=============================================================================
