-------------------------- MODULE ReaderGateProofs --------------------------
(***************************************************************************)
(* What is proved about the reader gate, for any number of calls: what it  *)
(* keeps apart, while no interrupt separates a statement from the          *)
(* assignment that records it; and what a result has waited for, always.   *)
(***************************************************************************)
EXTENDS ReaderGate, FiniteSetTheorems, TLAPS

\* The call the gate is locked for.
Holder(c) == Reserving(c) \/ Unused(c) \/ reader[c] \in {"reading", "leaving"}

\* The points after the reader was started and noted.
Handed == {"poll", "join", "flag", "total", "alive", "clock"}

\* What the locals say about the lock and the thread, by where the call is.
LocalInv(c) ==
    /\ c \notin Capture => ~reserved[c] /\ reader[c] = "none"
    /\ pc[c] \in Gaps \cup {"thread"} => c \in Capture
    /\ pc[c] \in {"idle", "reserved"} => ~reserved[c]
    /\ pc[c] \in {"spawn", "thread", "started"} /\ c \in Capture => reserved[c]
    /\ pc[c] \in {"idle", "spawn", "thread"} \cup Gaps => ~started[c]
    /\ pc[c] \in Handed /\ c \in Capture => started[c]
    /\ reader[c] # "none" => started[c] \/ pc[c] = "started"

\* What a call has waited for when it is about to give its result.
ResultInv(c) ==
    c \in Capture =>
        /\ pc[c] \in {"join", "flag", "total", "alive", "clock"} => proc[c] = "exited"
        /\ pc[c] = "clock" => reader[c] = "exited"
        /\ outcome[c] = "result" =>
             /\ pc[c] \in {"finally", "reap", "done"}
             /\ proc[c] = "exited" /\ reader[c] = "exited"

OneHolder == \A c, d \in Calls : Holder(c) /\ Holder(d) => c = d

GateInv ==
    /\ TypeOK
    /\ \A c \in Calls : LocalInv(c) /\ ResultInv(c)
    /\ GateTracksReader
    /\ OneHolder
    /\ NoCommandLeft

-----------------------------------------------------------------------------

\* A step of a call or of its reader, its process or its clock.
Own(c) == Step(c) \/ Fail(c) \/ Read(c) \/ Leave(c) \/ Exit(c) \/ Expire(c)

\* It is not seen by another call, except for the gate.
LEMMA OtherCall ==
  ASSUME TypeOK, NEW c \in Calls, Own(c), NEW d \in Calls \ {c}
  PROVE  /\ pc'[d] = pc[d] /\ reserved'[d] = reserved[d] /\ started'[d] = started[d]
         /\ outcome'[d] = outcome[d] /\ proc'[d] = proc[d] /\ reader'[d] = reader[d]
         /\ cap'[d] = cap[d]
  <1> USE DEF TypeOK, Goto, End, locals
  <1>1. CASE Uncaptured(c) \/ Acquire(c) \/ Busy(c) \/ NoteReserved(c) \/ Spawn(c)
    BY <1>1 DEF Uncaptured, Acquire, Busy, NoteReserved, Spawn
  <1>2. CASE StartReader(c) \/ NoteStarted(c) \/ PollKill(c) \/ PollExited(c) \/ Join(c)
    BY <1>2 DEF StartReader, NoteStarted, PollKill, PollExited, Join
  <1>3. CASE CheckFlag(c) \/ CheckTotal(c) \/ CheckAlive(c) \/ Return(c)
    BY <1>3 DEF CheckFlag, CheckTotal, CheckAlive, Return
  <1>4. CASE Finally(c) \/ Reap(c)
    BY <1>4 DEF Finally, Reap
  <1>5. CASE Fail(c) \/ Read(c) \/ Leave(c) \/ Exit(c) \/ Expire(c)
    BY <1>5 DEF Fail, Read, Leave, Exit, Expire
  <1>6. QED
    BY <1>1, <1>2, <1>3, <1>4, <1>5 DEF Own, Step

\* Every step keeps the types.
LEMMA GateTypes == TypeOK /\ [Next]_vars => TypeOK'
  <1> SUFFICES ASSUME TypeOK, [Next]_vars PROVE TypeOK'
    OBVIOUS
  <1> USE DEF TypeOK, Goto, End, locals, Try, Gaps
  <1>1. ASSUME NEW c \in Calls, Own(c) PROVE TypeOK'
    <2>1. CASE Uncaptured(c)
      BY <1>1, <2>1 DEF Uncaptured
    <2>2. CASE Acquire(c)
      BY <1>1, <2>2 DEF Acquire
    <2>3. CASE Busy(c)
      BY <1>1, <2>3 DEF Busy
    <2>4. CASE NoteReserved(c)
      BY <1>1, <2>4 DEF NoteReserved
    <2>5. CASE Spawn(c)
      BY <1>1, <2>5 DEF Spawn
    <2>6. CASE StartReader(c)
      BY <1>1, <2>6 DEF StartReader
    <2>7. CASE NoteStarted(c)
      BY <1>1, <2>7 DEF NoteStarted
    <2>8. CASE PollKill(c)
      BY <1>1, <2>8 DEF PollKill
    <2>9. CASE PollExited(c)
      BY <1>1, <2>9 DEF PollExited
    <2>10. CASE Join(c) \/ CheckFlag(c) \/ CheckTotal(c) \/ CheckAlive(c)
      BY <1>1, <2>10 DEF Join, CheckFlag, CheckTotal, CheckAlive
    <2>11. CASE Return(c)
      BY <1>1, <2>11 DEF Return
    <2>12. CASE Finally(c)
      BY <1>1, <2>12 DEF Finally
    <2>13. CASE Reap(c)
      BY <1>1, <2>13 DEF Reap
    <2>14. CASE Fail(c)
      BY <1>1, <2>14 DEF Fail
    <2>15. CASE Read(c)
      BY <1>1, <2>15 DEF Read
    <2>16. CASE Leave(c) \/ Exit(c) \/ Expire(c)
      BY <1>1, <2>16 DEF Leave, Exit, Expire
    <2>17. QED
      BY <1>1, <2>1, <2>2, <2>3, <2>4, <2>5, <2>6, <2>7, <2>8, <2>9, <2>10, <2>11,
         <2>12, <2>13, <2>14, <2>15, <2>16 DEF Own, Step
  <1>2. CASE UNCHANGED vars
    BY <1>2 DEF vars
  <1>3. QED
    BY <1>1, <1>2 DEF Next, Own

\* A call's step keeps its own part, and either leaves it holding the gate as
\* before, or takes an open gate, or gives back one it held.
LEMMA OwnCall ==
  ASSUME ~Interruptible, GateInv, NEW c \in Calls, Own(c)
  PROVE  /\ LocalInv(c)' /\ ResultInv(c)'
         /\ pc'[c] = "done" => proc'[c] # "running"
         /\ \/ gate' = gate /\ (Holder(c)' <=> Holder(c))
            \/ ~gate /\ gate' /\ Holder(c)'
            \/ Holder(c) /\ ~gate' /\ ~Holder(c)'
  <1>1. TypeOK /\ LocalInv(c) /\ ResultInv(c) /\ (Holder(c) => gate)
        /\ (pc[c] = "done" => proc[c] # "running")
    BY DEF GateInv, GateTracksReader, Holder, NoCommandLeft
  <1> USE <1>1 DEF TypeOK, LocalInv, ResultInv, Holder, Reserving, Unused, Goto, End,
                   locals, Try, Gaps, Handed
  <1>2. CASE Uncaptured(c)
    BY <1>2 DEF Uncaptured
  <1>3. CASE Acquire(c)
    BY <1>3 DEF Acquire
  <1>4. CASE Busy(c)
    BY <1>4 DEF Busy
  <1>5. CASE NoteReserved(c)
    BY <1>5 DEF NoteReserved
  <1>6. CASE Spawn(c)
    BY <1>6 DEF Spawn
  <1>7. CASE StartReader(c)
    BY <1>7 DEF StartReader
  <1>8. CASE NoteStarted(c)
    BY <1>8 DEF NoteStarted
  <1>9. CASE PollKill(c)
    BY <1>9 DEF PollKill
  <1>10. CASE PollExited(c)
    BY <1>10 DEF PollExited
  <1>11. CASE Join(c)
    BY <1>11 DEF Join
  <1>12. CASE CheckFlag(c)
    BY <1>12 DEF CheckFlag
  <1>13. CASE CheckTotal(c)
    BY <1>13 DEF CheckTotal
  <1>14. CASE CheckAlive(c)
    BY <1>14 DEF CheckAlive
  <1>15. CASE Return(c)
    BY <1>15 DEF Return
  <1>16. CASE Finally(c)
    BY <1>16 DEF Finally
  <1>17. CASE Reap(c)
    BY <1>17 DEF Reap
  <1>18. CASE Fail(c)
    BY <1>18 DEF Fail
  <1>19. CASE Read(c)
    BY <1>19 DEF Read
  <1>20. CASE Leave(c)
    BY <1>20 DEF Leave
  <1>21. CASE Exit(c)
    BY <1>21 DEF Exit
  <1>22. CASE Expire(c)
    BY <1>22 DEF Expire
  <1>23. QED
    BY <1>2, <1>3, <1>4, <1>5, <1>6, <1>7, <1>8, <1>9, <1>10, <1>11, <1>12, <1>13,
       <1>14, <1>15, <1>16, <1>17, <1>18, <1>19, <1>20, <1>21, <1>22 DEF Own, Step

\* Every step keeps the invariant.
LEMMA NextGateInv == ~Interruptible /\ GateInv /\ [Next]_vars => GateInv'
  <1> SUFFICES ASSUME ~Interruptible, GateInv, [Next]_vars PROVE GateInv'
    OBVIOUS
  <1>1. ASSUME NEW c \in Calls, Own(c) PROVE GateInv'
    <2>1. TypeOK'
      BY GateTypes DEF GateInv
    <2>2. /\ LocalInv(c)' /\ ResultInv(c)'
          /\ pc'[c] = "done" => proc'[c] # "running"
          /\ \/ gate' = gate /\ (Holder(c)' <=> Holder(c))
             \/ ~gate /\ gate' /\ Holder(c)'
             \/ Holder(c) /\ ~gate' /\ ~Holder(c)'
      BY <1>1, OwnCall
    <2>3. ASSUME NEW d \in Calls, d # c
          PROVE  /\ LocalInv(d)' /\ ResultInv(d)' /\ (Holder(d)' <=> Holder(d))
                 /\ pc'[d] = "done" => proc'[d] # "running"
      BY <1>1, <2>3, OtherCall
         DEF GateInv, LocalInv, ResultInv, Holder, Reserving, Unused, NoCommandLeft
    <2>4. GateTracksReader'
      BY <2>2, <2>3 DEF GateInv, GateTracksReader, OneHolder, Holder
    <2>5. OneHolder'
      BY <2>2, <2>3 DEF GateInv, GateTracksReader, OneHolder, Holder
    <2>6. NoCommandLeft'
      BY <2>2, <2>3 DEF NoCommandLeft
    <2>7. QED
      BY <2>1, <2>2, <2>3, <2>4, <2>5, <2>6 DEF GateInv
  <1>2. CASE UNCHANGED vars
    BY <1>2 DEF vars, locals, GateInv, TypeOK, LocalInv, ResultInv, GateTracksReader,
                OneHolder, Holder, Reserving, Unused, NoCommandLeft
  <1>3. QED
    BY <1>1, <1>2 DEF Next, Own

\* The types hold when no call has been made.
LEMMA GateInitTypes == Init => TypeOK
  <1> SUFFICES ASSUME Init PROVE TypeOK
    OBVIOUS
  <1> USE DEF Init
  <1>1. pc \in [Calls -> {"idle", "finally", "reap", "done"} \cup Try \cup Gaps]
    OBVIOUS
  <1>2. /\ gate \in BOOLEAN
        /\ reserved \in [Calls -> BOOLEAN]
        /\ started \in [Calls -> BOOLEAN]
    OBVIOUS
  <1>3. /\ proc \in [Calls -> {"none", "running", "killed", "exited"}]
        /\ reader \in [Calls -> {"none", "reading", "leaving", "exited"}]
    OBVIOUS
  <1>4. /\ cap \in [Calls -> {"partial", "complete", "over", "broken"}]
        /\ late \subseteq Calls
        /\ outcome \in [Calls -> {"none", "busy", "failed", "result"}]
    OBVIOUS
  <1>5. QED
    BY <1>1, <1>2, <1>3, <1>4 DEF TypeOK

\* Without an interrupt in a gap the invariant holds throughout.
THEOREM GateInvariant == ~Interruptible => (Spec => []GateInv)
  <1>1. Init => GateInv
    BY GateInitTypes
       DEF Init, GateInv, LocalInv, ResultInv, GateTracksReader, OneHolder,
           Holder, Reserving, Unused, NoCommandLeft, Gaps, Handed
  <1>2. CASE ~Interruptible
    <2>1. GateInv /\ [Next]_vars => GateInv'
      BY <1>2, NextGateInv
    <2>2. QED
      BY <1>1, <2>1, PTL DEF Spec
  <1>3. QED
    BY <1>2

\* The types need no such assumption.
THEOREM GateTypeOK == Spec => []TypeOK
  <1>1. Init => TypeOK
    BY GateInitTypes
  <1>2. QED
    BY <1>1, GateTypes, PTL DEF Spec

\* The gate is locked exactly while a call is on its way to a reader or a
\* reader is alive, whatever the calls, their commands and readers do.
THEOREM GateFollowsReader == ~Interruptible => (Spec => []GateTracksReader)
  <1>1. GateInv => GateTracksReader
    BY DEF GateInv
  <1>2. QED
    BY <1>1, GateInvariant, PTL

\* A stalled reader keeps every other capture from starting one.
THEOREM GateOneReader == ~Interruptible => (Spec => []OneReader)
  <1>1. GateInv => OneReader
    <2> SUFFICES ASSUME GateInv PROVE OneReader
      OBVIOUS
    <2> DEFINE R == {c \in Calls : reader[c] = "reading"}
    <2>1. \A c, d \in R : c = d
      BY DEF GateInv, OneHolder, Holder
    <2>2. CASE R = {}
      BY <2>2, FS_EmptySet DEF OneReader
    <2>3. CASE R # {}
      <3>1. PICK c : R = {c}
        BY <2>1, <2>3
      <3>2. Cardinality(R) = 1
        BY <3>1, FS_Singleton
      <3>3. QED
        BY <3>2 DEF OneReader
    <2>4. QED
      BY <2>2, <2>3
  <1>2. QED
    BY <1>1, GateInvariant, PTL

ResultsInv == \A c \in Calls : ResultInv(c)

\* What a call has waited for does not depend on the gate, nor on which of its
\* statements an interrupt separates.
LEMMA ResultStep == TypeOK /\ ResultsInv /\ [Next]_vars => ResultsInv'
  <1> SUFFICES ASSUME TypeOK, \A c \in Calls : ResultInv(c), [Next]_vars
               PROVE  \A c \in Calls : ResultInv(c)'
    BY DEF ResultsInv
  <1>1. ASSUME NEW c \in Calls, Own(c) PROVE \A d \in Calls : ResultInv(d)'
    <2>1. ResultInv(c)'
      <3> USE DEF TypeOK, ResultInv, Goto, End, locals, Try, Gaps
      <3>1. CASE Uncaptured(c) \/ Acquire(c) \/ Busy(c) \/ NoteReserved(c) \/ Spawn(c)
        BY <3>1 DEF Uncaptured, Acquire, Busy, NoteReserved, Spawn
      <3>2. CASE StartReader(c) \/ NoteStarted(c) \/ PollKill(c) \/ PollExited(c)
        BY <3>2 DEF StartReader, NoteStarted, PollKill, PollExited
      <3>3. CASE Join(c) \/ CheckFlag(c) \/ CheckTotal(c) \/ CheckAlive(c) \/ Return(c)
        BY <3>3 DEF Join, CheckFlag, CheckTotal, CheckAlive, Return
      <3>4. CASE Finally(c) \/ Reap(c) \/ Fail(c)
        BY <3>4 DEF Finally, Reap, Fail
      <3>5. CASE Read(c) \/ Leave(c) \/ Exit(c) \/ Expire(c)
        BY <3>5 DEF Read, Leave, Exit, Expire
      <3>6. QED
        BY <1>1, <3>1, <3>2, <3>3, <3>4, <3>5 DEF Own, Step
    <2>2. ASSUME NEW d \in Calls, d # c PROVE ResultInv(d)'
      BY <1>1, <2>2, OtherCall DEF ResultInv
    <2>3. QED
      BY <2>1, <2>2
  <1>2. CASE UNCHANGED vars
    BY <1>2 DEF vars, locals, ResultInv
  <1>3. QED
    BY <1>1, <1>2 DEF Next, Own

\* No result is given while its reader is still at work or its command runs,
\* also when an interrupt has let go of the gate under a live reader.
THEOREM GateResult == Spec => []ResultAfterReader
  <1>1. Init => ResultsInv
    BY DEF Init, ResultsInv, ResultInv
  <1>2. ResultsInv => ResultAfterReader
    BY GateAssumption DEF ResultsInv, ResultInv, ResultAfterReader
  <1>3. QED
    BY <1>1, <1>2, ResultStep, GateTypeOK, PTL DEF Spec

\* A call that is over has signalled its command.
THEOREM GateNoCommandLeft == ~Interruptible => (Spec => []NoCommandLeft)
  <1>1. GateInv => NoCommandLeft
    BY DEF GateInv
  <1>2. QED
    BY <1>1, GateInvariant, PTL
=============================================================================
