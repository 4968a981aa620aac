-------------------------- MODULE RunnerDrainProofs --------------------------
(***************************************************************************)
(* What is proved about the drain, for any number of slots, either broker, *)
(* any sequence of drain commands and any behaviour of GitHub.             *)
(***************************************************************************)
EXTENDS RunnerDrain, TLAPS

\* A slot that becomes no listener as long as the marker is valid.
Held(s) == unit[s] \in Registering => stopping[s]

\* A held slot that has no job either, and can be given none.
Calm(s) ==
    /\ Held(s) /\ ~Available(s)
    /\ broker = "issuer" => unit[s] # "working"

\* The slots before the cursor.
Passed == {s \in Slots : s < at}

\* Which steps belong to which command and broker.
StepInv ==
    /\ step \in {"ask", "delete"} => broker = "local"
    /\ step = "listener" => broker = "issuer" /\ cmd = "status"
    /\ step = "restart" => cmd = "begin"

\* begin holds slot by slot, status finds the held ones calm slot by slot.
QuietInv ==
    /\ drain # "none" => marker = "valid"
    /\ drain = "done" => \A s \in Slots \ skipped : Held(s)
    /\ drain = "beginning" /\ cmd = "begin" => \A s \in Passed \ skipped : Held(s)
    /\ drain = "done" /\ cmd = "status" /\ ~busy => \A s \in Passed \ skipped : Calm(s)
    /\ quiet => drain = "done" /\ \A s \in Slots \ skipped : Calm(s)

\* What begin knows of the slot it is at, before it restarts it.
OwedInv ==
    /\ \A s \in owed : ~stopping[s] /\ HasJob(s)
    /\ cmd = "begin" /\ step = "worker" /\ broker = "local" /\ at \in owed
         => unit[at] = "working"
    /\ step = "restart" => at \notin owed

DrainInv == TypeOK /\ StepInv /\ QuietInv /\ OwedInv

-----------------------------------------------------------------------------

\* The invariant holds on a host that was never drained.
LEMMA InitDrainInv == Init => DrainInv
  <1> SUFFICES ASSUME Init PROVE DrainInv
    OBVIOUS
  <1> USE SlotsAssumption DEF Init, Slots, Units, Registering
  <1>1. unit \in [Slots -> Units] /\ stopping \in [Slots -> BOOLEAN]
    OBVIOUS
  <1>a. listed \in BOOLEAN /\ busy \in BOOLEAN /\ quiet \in BOOLEAN
    OBVIOUS
  <1>b. at \in Slots /\ skipped \subseteq Slots /\ owed \subseteq Slots
    OBVIOUS
  <1>2. TypeOK
    BY <1>1, <1>a, <1>b DEF TypeOK
  <1>3. StepInv /\ QuietInv /\ OwedInv
    BY DEF StepInv, QuietInv, OwedInv
  <1>4. QED
    BY <1>2, <1>3 DEF DrainInv

\* A step of a slot's unit keeps it.
LEMMA SlotKeeps ==
  ASSUME DrainInv, NEW s \in Slots, Slot(s)
  PROVE  DrainInv'
  <1> USE DEF DrainInv, TypeOK, StepInv, Passed, Slots, Units, Registering, Goto, Record,
              control, history, slots
  <1>1. CASE PassGate(s)
    BY <1>1 DEF PassGate, QuietInv, OwedInv, Held, Calm, Available, HasJob
  <1>2. CASE RemoveStale(s)
    <2>a. listed' \in BOOLEAN
      BY <1>2 DEF RemoveStale
    <2>1. TypeOK' /\ StepInv'
      BY <1>2, <2>a DEF RemoveStale
    <2>2. QuietInv'
      BY <1>2 DEF RemoveStale, QuietInv, Held, Calm, Available
    <2>3. OwedInv'
      BY <1>2 DEF RemoveStale, OwedInv, HasJob
    <2>4. QED
      BY <2>1, <2>2, <2>3
  <1>3. CASE Generate(s)
    <2>1. listed' \in BOOLEAN
      BY <1>3 DEF Generate
    <2>2. TypeOK' /\ StepInv'
      BY <1>3, <2>1 DEF Generate
    <2>3. QuietInv'
      BY <1>3 DEF Generate, QuietInv, Held, Calm, Available
    <2>4. OwedInv'
      BY <1>3 DEF Generate, OwedInv, HasJob
    <2>5. QED
      BY <2>2, <2>3, <2>4
  <1>8. CASE GenerateUnanswered(s)
    <2>1. listed' \in BOOLEAN
      BY <1>8 DEF GenerateUnanswered
    <2>2. TypeOK' /\ StepInv'
      BY <1>8, <2>1 DEF GenerateUnanswered
    <2>3. QuietInv'
      BY <1>8 DEF GenerateUnanswered, QuietInv, Held, Calm, Available
    <2>4. OwedInv'
      BY <1>8 DEF GenerateUnanswered, OwedInv, HasJob
    <2>5. QED
      BY <2>2, <2>3, <2>4
  <1>4. CASE Listen(s)
    BY <1>4 DEF Listen, QuietInv, OwedInv, Held, Calm, Available, HasJob
  <1>5. CASE StartWorker(s)
    BY <1>5 DEF StartWorker, QuietInv, OwedInv, Held, Calm, Available, HasJob
  <1>6. CASE Rerun(s)
    BY <1>6 DEF Rerun, QuietInv, OwedInv, Held, Calm, Available, HasJob
  <1>7. CASE Restarted(s)
    BY <1>7 DEF Restarted, QuietInv, OwedInv, Held, Calm, Available, HasJob
  <1>9. QED
    BY <1>1, <1>2, <1>3, <1>4, <1>5, <1>6, <1>7, <1>8 DEF Slot

\* So does GitHub.
LEMMA GitHubKeeps ==
  ASSUME DrainInv, NEW s \in Slots, GitHub(s)
  PROVE  DrainInv'
  <1> USE DEF DrainInv, TypeOK, StepInv, QuietInv, OwedInv, Held, Calm, Available, HasJob,
              Passed, Slots, Units, Registering, Record, control, history, slots
  <1>1. CASE Assign(s)
    BY <1>1 DEF Assign
  <1>2. CASE Forget(s)
    BY <1>2 DEF Forget
  <1>3. CASE Clear(s)
    BY <1>3 DEF Clear
  <1>4. QED
    BY <1>1, <1>2, <1>3 DEF GitHub

\* begin goes on to its next slot when this one is held, or is left out.
LEMMA BeginGoesOn ==
  ASSUME DrainInv, cmd = "begin", NextSlot(FALSE), step # "none",
         UNCHANGED <<broker, marker, unit, owed>>,
         \A s \in Slots : stopping[s] => stopping'[s],
         stopping' \in [Slots -> BOOLEAN],
         reg' \in [Slots -> {"none", "idle", "busy"}], listed' \in BOOLEAN,
         \A s \in Slots : reg'[s] # reg[s] => reg[s] = "idle" /\ reg'[s] = "none",
         \A s \in owed : ~stopping'[s],
         skipped' \subseteq Slots, skipped \subseteq skipped',
         NEW a \in Slots, a = at, a \in skipped' \/ Held(a)'
  PROVE  DrainInv'
  <1> USE SlotsAssumption
      DEF DrainInv, TypeOK, StepInv, Passed, Slots, Units, Registering, NextSlot, Over
  <1>a. busy' \in BOOLEAN /\ quiet' \in BOOLEAN
    OBVIOUS
  <1>b. at' \in Slots /\ cmd' \in {"none", cmd} /\ drain' \in {drain, "done"}
    OBVIOUS
  <1>c. TypeOK'
    BY <1>a, <1>b
  <1>1. TypeOK' /\ StepInv'
    BY <1>c
  <1>2. QuietInv'
    <2>1. \A s \in Slots : Held(s) => Held(s)'
      BY DEF Held
    <2>2. drain = "beginning" => \A s \in Slots : s <= at => s \in skipped' \/ Held(s)'
      BY <2>1 DEF QuietInv
    <2>3. \A s \in Slots : Calm(s) => Calm(s)'
      BY DEF Held, Calm, Available
    <2>4. CASE at < N
      BY <1>c, <2>1, <2>2, <2>3, <2>4 DEF QuietInv
    <2>5. CASE at = N
      BY <1>c, <2>1, <2>2, <2>3, <2>5 DEF QuietInv
    <2>6. QED
      BY <2>4, <2>5
  <1>3. OwedInv'
    BY DEF OwedInv, HasJob
  <1>4. QED
    BY <1>1, <1>2, <1>3

\* status goes on when it has found this one calm, or counts it.
LEMMA StatusGoesOn ==
  ASSUME DrainInv, cmd = "status", step # "none", NEW found \in BOOLEAN, NextSlot(found),
         UNCHANGED <<broker, marker, unit, stopping, skipped, owed>>,
         reg' \in [Slots -> {"none", "idle", "busy"}], listed' \in BOOLEAN,
         \A s \in Slots : reg'[s] # reg[s] => reg[s] = "idle" /\ reg'[s] = "none",
         NEW a \in Slots, a = at, drain = "done" => found \/ a \in skipped \/ Calm(a)'
  PROVE  DrainInv'
  <1> USE SlotsAssumption
      DEF DrainInv, TypeOK, StepInv, Passed, Slots, Units, Registering, NextSlot, Over
  <1>a. busy' \in BOOLEAN /\ quiet' \in BOOLEAN
    OBVIOUS
  <1>b. at' \in Slots /\ cmd' \in {"none", cmd} /\ drain' \in {drain, "done"}
    OBVIOUS
  <1>c. TypeOK'
    BY <1>a, <1>b
  <1>1. TypeOK' /\ StepInv'
    BY <1>c
  <1>2. QuietInv'
    <2>1. \A s \in Slots : (Held(s) => Held(s)') /\ (Calm(s) => Calm(s)')
      BY DEF Held, Calm, Available
    <2>2. drain = "done" /\ ~busy /\ ~found
            => \A s \in Slots : s <= at => s \in skipped \/ Calm(s)'
      BY <2>1 DEF QuietInv
    <2>3. CASE at < N
      BY <1>c, <2>1, <2>2, <2>3 DEF QuietInv
    <2>4. CASE at = N
      BY <1>c, <2>1, <2>2, <2>4 DEF QuietInv
    <2>5. QED
      BY <2>3, <2>4
  <1>3. OwedInv'
    BY DEF OwedInv, HasJob
  <1>4. QED
    BY <1>1, <1>2, <1>3

\* Of a record, the drain commands can only delete it, and only an idle one.
RecordStep ==
    /\ reg' \in [Slots -> {"none", "idle", "busy"}] /\ listed' \in BOOLEAN
    /\ \A s \in Slots : reg'[s] # reg[s] => reg[s] = "idle" /\ reg'[s] = "none"

\* A slot that begin leaves alone is no listener, or is noted.
LEMMA LeavingAlone ==
  ASSUME DrainInv, step # "none", UNCHANGED <<broker, marker, slots>>, RecordStep, LeaveAlone
  PROVE  DrainInv'
  <1>1. at \in Slots /\ skipped \subseteq Slots
    BY DEF DrainInv, TypeOK
  <1>2. skipped' \subseteq Slots /\ skipped \subseteq skipped'
    BY <1>1 DEF LeaveAlone
  <1>3. PICK a \in Slots : a = at
    BY <1>1
  <1>4. a \in skipped' \/ Held(a)'
    BY <1>3 DEF LeaveAlone, Held, slots
  <1>5. stopping' = stopping /\ stopping \in [Slots -> BOOLEAN]
    BY DEF slots, DrainInv, TypeOK
  <1>6. \A s \in owed : ~stopping'[s]
    BY <1>5 DEF DrainInv, OwedInv
  <1>7. cmd = "begin" /\ NextSlot(FALSE) /\ owed' = owed /\ UNCHANGED <<broker, marker, unit>>
    BY DEF LeaveAlone, slots
  <1>8. QED
    BY <1>2, <1>3, <1>4, <1>5, <1>6, <1>7, BeginGoesOn DEF RecordStep

\* A slot that status counts as idle is calm, if it was held.
LEMMA Counting ==
  ASSUME DrainInv, step # "none", UNCHANGED <<broker, marker, slots>>, RecordStep,
         CountBusy \/ (CountIdle /\ (drain = "done" /\ at \notin skipped
                                       => \E a \in Slots : a = at /\ Calm(a)'))
  PROVE  DrainInv'
  <1>1. at \in Slots
    BY DEF DrainInv, TypeOK
  <1>2. PICK a \in Slots : a = at
    BY <1>1
  <1>3. CASE CountBusy
    BY <1>2, <1>3, StatusGoesOn DEF CountBusy, RecordStep, slots
  <1>4. CASE CountIdle /\ (drain = "done" /\ at \notin skipped
                              => \E b \in Slots : b = at /\ Calm(b)')
    BY <1>2, <1>4, StatusGoesOn DEF CountIdle, RecordStep, slots
  <1>5. QED
    BY <1>3, <1>4

\* The drain commands and the clock keep the invariant.
LEMMA DrainKeeps ==
  ASSUME DrainInv, Drain
  PROVE  DrainInv'
  <1>1. TypeOK /\ StepInv /\ QuietInv /\ OwedInv /\ at \in Slots
    BY DEF DrainInv, TypeOK
  <1>2. UNCHANGED <<reg, listed>> => RecordStep
    BY <1>1 DEF RecordStep, TypeOK
  <1>3. CASE Begin
    <2>a. busy' \in BOOLEAN /\ quiet' \in BOOLEAN
      BY <1>3 DEF Begin
    <2>1. TypeOK' /\ StepInv'
      BY <1>1, <1>3, <2>a, SlotsAssumption DEF Begin, TypeOK, StepInv, Slots, slots
    <2>2. QuietInv'
      BY <1>1, <1>3 DEF Begin, QuietInv, Passed, Slots
    <2>3. OwedInv'
      BY <1>1, <1>3 DEF Begin, OwedInv, HasJob, slots
    <2>4. QED
      BY <2>1, <2>2, <2>3 DEF DrainInv
  <1>4. CASE Status
    <2>a. busy' \in BOOLEAN
      BY <1>4 DEF Status
    <2>1. TypeOK' /\ StepInv'
      BY <1>1, <1>4, <2>a, SlotsAssumption DEF Status, TypeOK, StepInv, Slots, slots, history
    <2>2. QuietInv'
      BY <1>1, <1>4 DEF Status, QuietInv, Passed, Slots, Held, Calm, Available, slots, history
    <2>3. OwedInv'
      BY <1>1, <1>4 DEF Status, OwedInv, HasJob, slots, history
    <2>4. QED
      BY <2>1, <2>2, <2>3 DEF DrainInv
  <1>5. CASE Quit
    <2>a. busy' \in BOOLEAN /\ listed' \in BOOLEAN
      BY <1>5 DEF Quit, Over
    <2>1. TypeOK' /\ StepInv'
      BY <1>1, <1>5, <2>a, SlotsAssumption DEF Quit, Over, TypeOK, StepInv, Slots, slots, history
    <2>2. QuietInv'
      BY <1>1, <1>5 DEF Quit, Over, QuietInv, Held, Calm, Available, slots, history
    <2>3. OwedInv'
      BY <1>1, <1>5 DEF Quit, Over, OwedInv, HasJob, slots, history
    <2>4. QED
      BY <2>1, <2>2, <2>3 DEF DrainInv
  <1>6. CASE Ask
    <2>1. step = "ask" /\ cmd # "none" /\ UNCHANGED <<broker, marker, slots, reg>>
          /\ listed' \in BOOLEAN
      BY <1>6 DEF Ask
    <2>2. RecordStep
      BY <1>1, <2>1 DEF RecordStep, TypeOK
    <2>3. CASE reg[at] = "none" /\ cmd = "begin" /\ Then("worker")
      BY <1>1, <2>1, <2>3
         DEF Then, DrainInv, TypeOK, StepInv, QuietInv, OwedInv, Held, Calm, Available, HasJob,
             Passed, slots, history
    <2>4. CASE reg[at] = "none" /\ CountIdle
      <3>1. drain = "done" /\ at \notin skipped => \E a \in Slots : a = at /\ Calm(a)'
        BY <1>1, <2>1, <2>4 DEF QuietInv, StepInv, Held, Calm, Available, slots
      <3>2. QED
        BY <2>1, <2>2, <2>4, <3>1, Counting
    <2>5. CASE StillBusy
      BY <2>1, <2>2, <2>5, LeavingAlone, Counting DEF StillBusy
    <2>6. CASE Then("delete")
      BY <1>1, <2>1, <2>6
         DEF Then, DrainInv, TypeOK, StepInv, QuietInv, OwedInv, Held, Calm, Available, HasJob,
             Passed, slots, history
    <2>7. QED
      BY <1>6, <2>3, <2>4, <2>5, <2>6 DEF Ask, Deregistered
  <1>7. CASE Delete
    <2>1. step = "delete" /\ cmd # "none" /\ UNCHANGED <<broker, marker, slots>>
          /\ listed' \in BOOLEAN
      BY <1>7 DEF Delete
    <2>2. RecordStep
      BY <1>1, <1>7, <2>1 DEF Delete, RecordStep, TypeOK
    <2>3. CASE reg[at] = "idle" /\ reg' = [reg EXCEPT ![at] = "none"]
               /\ cmd = "begin" /\ Then("worker")
      <3>1. TypeOK' /\ StepInv'
        BY <1>1, <2>1, <2>2, <2>3
           DEF Then, TypeOK, StepInv, RecordStep, slots, history
      <3>2. QuietInv'
        BY <1>1, <2>1, <2>3
           DEF Then, QuietInv, TypeOK, Held, Calm, Available, Passed, slots, history
      <3>3. OwedInv'
        BY <1>1, <2>1, <2>3 DEF Then, OwedInv, TypeOK, HasJob, slots, history
      <3>4. QED
        BY <3>1, <3>2, <3>3 DEF DrainInv
    <2>4. CASE reg[at] = "idle" /\ reg' = [reg EXCEPT ![at] = "none"] /\ CountIdle
      <3>1. drain = "done" /\ at \notin skipped => \E a \in Slots : a = at /\ Calm(a)'
        BY <1>1, <2>1, <2>4 DEF QuietInv, StepInv, TypeOK, Held, Calm, Available, slots
      <3>2. QED
        BY <2>1, <2>2, <2>4, <3>1, Counting
    <2>5. CASE StillBusy
      BY <2>1, <2>2, <2>5, LeavingAlone, Counting DEF StillBusy
    <2>6. QED
      BY <1>7, <2>3, <2>4, <2>5 DEF Delete, Deregistered
  <1>8. CASE DeleteFails
    <2>1. step # "none" /\ UNCHANGED <<broker, marker, slots>> /\ listed' \in BOOLEAN
      BY <1>8 DEF DeleteFails
    <2>2. RecordStep
      BY <1>1, <1>8, <2>1 DEF DeleteFails, RecordStep, TypeOK
    <2>3. CASE CountBusy
      BY <2>1, <2>2, <2>3, Counting
    <2>4. CASE Over /\ UNCHANGED history
      <3>a. busy' \in BOOLEAN
        BY <2>4 DEF Over
      <3>1. TypeOK' /\ StepInv'
        BY <1>1, <2>1, <2>2, <2>4, <3>a, SlotsAssumption
           DEF Over, TypeOK, StepInv, RecordStep, Slots, slots, history
      <3>2. QuietInv'
        BY <1>1, <2>1, <2>2, <2>4
           DEF Over, QuietInv, RecordStep, Held, Calm, Available, slots, history
      <3>3. OwedInv'
        BY <1>1, <2>1, <2>2, <2>4 DEF Over, OwedInv, RecordStep, TypeOK, HasJob, slots, history
      <3>4. QED
        BY <3>1, <3>2, <3>3 DEF DrainInv
    <2>5. QED
      BY <1>8, <2>3, <2>4 DEF DeleteFails
  <1>9. CASE ProbeWorker
    <2>1. step = "worker" /\ UNCHANGED <<broker, marker, slots, reg, listed>>
      BY <1>9 DEF ProbeWorker
    <2>2. CASE unit[at] # "working" /\ cmd = "begin" /\ Then("restart")
      BY <1>1, <2>1, <2>2
         DEF Then, DrainInv, TypeOK, StepInv, QuietInv, OwedInv, Held, Calm, Available, HasJob,
             Passed, slots, history
    <2>3. CASE cmd = "status" /\ Then(IF broker = "local" THEN "ask" ELSE "listener")
      BY <1>1, <2>1, <2>3
         DEF Then, DrainInv, TypeOK, StepInv, QuietInv, OwedInv, Held, Calm, Available, HasJob,
             Passed, slots, history
    <2>4. CASE LeaveAlone \/ CountBusy
      BY <1>2, <2>1, <2>4, LeavingAlone, Counting
    <2>5. QED
      BY <1>9, <2>2, <2>3, <2>4 DEF ProbeWorker
  <1>10. CASE ProbeListener
    <2>1. step = "listener" /\ UNCHANGED <<broker, marker, slots, reg, listed>>
      BY <1>10 DEF ProbeListener
    <2>2. CASE unit[at] \notin {"listening", "working"} /\ CountIdle
      <3>1. drain = "done" /\ at \notin skipped => \E a \in Slots : a = at /\ Calm(a)'
        BY <1>1, <2>1, <2>2 DEF QuietInv, StepInv, Held, Calm, Available, slots
      <3>2. QED
        BY <1>2, <2>1, <2>2, <3>1, Counting
    <2>3. CASE CountBusy
      BY <1>2, <2>1, <2>3, Counting
    <2>4. QED
      BY <1>10, <2>2, <2>3 DEF ProbeListener
  <1>11. CASE RestartSlot
    <2>1. cmd = "begin" /\ step = "restart" /\ NextSlot(FALSE)
          /\ UNCHANGED <<broker, marker, unit, reg, listed, skipped, owed>>
          /\ stopping' = [stopping EXCEPT ![at] = TRUE]
      BY <1>11 DEF RestartSlot
    <2>2. stopping' \in [Slots -> BOOLEAN] /\ \A s \in Slots : stopping[s] => stopping'[s]
      BY <1>1, <2>1 DEF TypeOK
    <2>3. \A s \in owed : ~stopping'[s]
      BY <1>1, <2>1 DEF TypeOK, OwedInv
    <2>4. PICK a \in Slots : a = at
      BY <1>1
    <2>5. Held(a)'
      BY <1>1, <2>1, <2>4 DEF TypeOK, Held
    <2>6. skipped' \subseteq Slots /\ reg' = reg /\ listed' = listed
      BY <1>1, <2>1 DEF TypeOK
    <2>7. QED
      BY <1>1, <2>1, <2>2, <2>3, <2>4, <2>5, <2>6, BeginGoesOn DEF TypeOK
  <1>12. CASE Extend
    <2>1. TypeOK' /\ StepInv'
      BY <1>1, <1>12 DEF Extend, TypeOK, StepInv, slots, control, history
    <2>2. QuietInv'
      BY <1>1, <1>12
         DEF Extend, QuietInv, Held, Calm, Available, Passed, slots, control, history
    <2>3. OwedInv'
      BY <1>1, <1>12 DEF Extend, OwedInv, HasJob, slots, control, history
    <2>4. QED
      BY <2>1, <2>2, <2>3 DEF DrainInv
  <1>13. CASE End \/ Expire
    BY <1>1, <1>13
       DEF End, Expire, NoDrain, DrainInv, TypeOK, StepInv, QuietInv, OwedInv, HasJob, slots,
           control
  <1>14. QED
    BY <1>3, <1>4, <1>5, <1>6, <1>7, <1>8, <1>9, <1>10, <1>11, <1>12, <1>13 DEF Drain

\* The drain's invariant, for any number of slots.
THEOREM DrainInvariant == Spec => []DrainInv
  <1>1. DrainInv /\ UNCHANGED vars => DrainInv'
    BY DEF DrainInv, TypeOK, StepInv, QuietInv, OwedInv, Held, Calm, Available, HasJob, Passed,
           vars, slots, history
  <1>2. DrainInv /\ [Next]_vars => DrainInv'
    BY <1>1, SlotKeeps, GitHubKeeps, DrainKeeps DEF Next
  <1>3. QED
    BY InitDrainInv, <1>2, PTL DEF Spec

\* Every variable keeps its type.
THEOREM DrainTypeOK == Spec => []TypeOK
  <1>1. DrainInv => TypeOK
    BY DEF DrainInv
  <1>2. QED
    BY <1>1, DrainInvariant, PTL

\* After a successful begin and a status without a busy slot, no slot that was
\* not passed by can be handed a job while the marker is valid.
THEOREM DrainStaysQuiet == Spec => []NoJobOnceQuiet
  <1>1. DrainInv => NoJobOnceQuiet
    BY DEF DrainInv, QuietInv, Calm, NoJobOnceQuiet
  <1>2. QED
    BY <1>1, DrainInvariant, PTL

\* The drain restarts no slot under a job it had when begin was called.
THEOREM DrainSparesJobs == Spec => []JobsSurvive
  <1>1. DrainInv => JobsSurvive
    BY DEF DrainInv, OwedInv, JobsSurvive
  <1>2. QED
    BY <1>1, DrainInvariant, PTL
=============================================================================
