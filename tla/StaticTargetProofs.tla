------------------------- MODULE StaticTargetProofs -------------------------
(***************************************************************************)
(* What is proved about StaticTarget, for any number of runs and services. *)
(* Without exclusion: types, no tree lost under a container, leftovers     *)
(* reported, the recovery handle and the refinement of Executor. With it:  *)
(* what a result means.                                                    *)
(***************************************************************************)
EXTENDS StaticTarget, TLAPS

\* The static service's container mounts the run's tree, or may yet do so.
InUse(r) == made[StaticService] = r \/ StaticService \in pending[r]

\* A tree is in use only of a run that has set `activated`, and a run that has
\* set it had its tree prepared and never removes it.
TreeInv(r) ==
    /\ InUse(r) => activated[r]
    /\ activated[r] => prepared[r] /\ r \in trees
    /\ pc[r] \in {"private", "config", "pull", "activate"} => prepared[r] /\ r \in trees
    /\ pc[r] \in {"up", "upping", "ps", "inspect"} => activated[r]

\* What is on disk of a run, by where it is.
LeftInv(r) ==
    /\ pc[r] \in {"idle", "prepare"} => ~prepared[r]
    /\ pc[r] \in {"idle", "prepare", "private"} => r \notin temps
    /\ pc[r] = "cleanAssets" /\ r \in temps => failure[r] = "cleanup_failed"
    /\ pc[r] = "done" => /\ r \in temps =>
                              failure[r] \in {"cleanup_failed", "asset_cleanup_failed"}
                         /\ r \in trees /\ prepared[r] /\ ~activated[r] =>
                              failure[r] = "asset_cleanup_failed"

\* What a run has seen and come to, by where it is.
ReportInv(r) ==
    /\ pc[r] \in {"idle", "prepare", "private", "config", "pull", "activate"} =>
         ~activated[r]
    /\ ~activated[r] => seen[r] = {} /\ ~retain[r]
    /\ pc[r] \in {"cleanTemp", "cleanAssets", "done"} =>
         failure[r] # "none" \/ (activated[r] /\ seen[r] = Services)

StaticInv ==
    /\ TypeOK
    /\ \A r \in Runs : TreeInv(r) /\ LeftInv(r) /\ ReportInv(r)

-----------------------------------------------------------------------------

\* The invariant holds before any run has begun.
LEMMA InitStaticInv == Init => StaticInv
  <1> SUFFICES ASSUME Init PROVE StaticInv
    OBVIOUS
  <1> USE StaticAssumption DEF Init
  <1>1. TypeOK
    BY DEF TypeOK, Working, Cleaning, Failures
  <1>2. ASSUME NEW r \in Runs PROVE TreeInv(r) /\ LeftInv(r) /\ ReportInv(r)
    BY DEF TreeInv, LeftInv, ReportInv, InUse
  <1>3. QED
    BY <1>1, <1>2 DEF StaticInv

\* The steps of a run keep the types.
LEMMA RunTypes ==
  ASSUME TypeOK, NEW r \in Runs, Begin(r) \/ Reject(r) \/ Step(r) \/ Kill(r)
  PROVE  TypeOK'
  <1> USE DEF TypeOK, Goto, locals, disk, docker, setting, Working, Cleaning, Failures
  <1>1. CASE Begin(r) \/ Reject(r) \/ Kill(r)
    <2>1. CASE Begin(r)
      BY <1>1, <2>1 DEF Begin
    <2>2. CASE Reject(r)
      BY <2>2 DEF Reject
    <2>3. CASE Kill(r)
      BY <2>3 DEF Kill
    <2>4. QED
      BY <1>1, <2>1, <2>2, <2>3
  <1>2. CASE Prepare(r) \/ PrepareFails(r)
    BY <1>2 DEF Prepare, PrepareFails
  <1>3. CASE MakePrivate(r)
    BY <1>3 DEF MakePrivate
  <1>4. CASE Config(r) \/ Pull(r) \/ UpDone(r) \/ Ps(r)
    BY <1>4 DEF Config, Pull, UpDone, Ps
  <1>5. CASE Activate(r)
    BY <1>5 DEF Activate
  <1>6. CASE StartUp(r)
    BY <1>6 DEF StartUp
  <1>7. CASE \E s \in Services : Inspect(r, s)
    BY <1>7 DEF Inspect
  <1>8. CASE Return(r) \/ Fail(r)
    BY <1>8 DEF Return, Fail
  <1>9. CASE CleanTemp(r) \/ CleanAssets(r)
    BY <1>9 DEF CleanTemp, CleanAssets
  <1>10. QED
    BY <1>1, <1>2, <1>3, <1>4, <1>5, <1>6, <1>7, <1>8, <1>9 DEF Step

\* A run's step keeps its own part of the invariant.
LEMMA OwnStep ==
  ASSUME StaticInv, NEW r \in Runs, Begin(r) \/ Reject(r) \/ Step(r) \/ Kill(r)
  PROVE  TreeInv(r)' /\ LeftInv(r)' /\ ReportInv(r)'
  <1> USE StaticAssumption
          DEF StaticInv, TypeOK, TreeInv, LeftInv, ReportInv, InUse, Disposable,
              Goto, locals, disk, docker, setting, Working, Cleaning, Failures
  <1>1. CASE Begin(r)
    BY <1>1 DEF Begin
  <1>2. CASE Reject(r)
    BY <1>2 DEF Reject
  <1>3. CASE Kill(r)
    BY <1>3 DEF Kill
  <1>4. CASE Prepare(r)
    BY <1>4 DEF Prepare
  <1>5. CASE PrepareFails(r)
    BY <1>5 DEF PrepareFails
  <1>6. CASE MakePrivate(r)
    BY <1>6 DEF MakePrivate
  <1>7. CASE Config(r) \/ Pull(r)
    BY <1>7 DEF Config, Pull
  <1>8. CASE Activate(r)
    BY <1>8 DEF Activate
  <1>9. CASE StartUp(r)
    BY <1>9 DEF StartUp
  <1>10. CASE UpDone(r) \/ Ps(r)
    BY <1>10 DEF UpDone, Ps
  <1>11. CASE \E s \in Services : Inspect(r, s)
    BY <1>11 DEF Inspect
  <1>12. CASE Return(r)
    BY <1>12 DEF Return
  <1>13. CASE Fail(r)
    BY <1>13 DEF Fail
  <1>14. CASE CleanTemp(r)
    BY <1>14 DEF CleanTemp
  <1>15. CASE CleanAssets(r)
    BY <1>15 DEF CleanAssets
  <1>16. QED
    BY <1>1, <1>2, <1>3, <1>4, <1>5, <1>6, <1>7, <1>8, <1>9, <1>10, <1>11, <1>12,
       <1>13, <1>14, <1>15 DEF Step

\* A run's step changes nothing of another run.
LEMMA OtherStep ==
  ASSUME TypeOK, NEW r \in Runs, NEW q \in Runs, q # r,
         Begin(r) \/ Reject(r) \/ Step(r) \/ Kill(r)
  PROVE  /\ pc'[q] = pc[q] /\ prepared'[q] = prepared[q] /\ retain'[q] = retain[q]
         /\ activated'[q] = activated[q] /\ failure'[q] = failure[q]
         /\ seen'[q] = seen[q] /\ pending'[q] = pending[q]
         /\ q \in trees' <=> q \in trees
         /\ q \in temps' <=> q \in temps
         /\ made' = made
  <1> USE DEF TypeOK, Goto, locals, disk, docker, setting
  <1>1. CASE Begin(r) \/ Reject(r) \/ Kill(r)
    <2>1. CASE Begin(r)
      BY <1>1, <2>1 DEF Begin
    <2>2. CASE Reject(r)
      BY <2>2 DEF Reject
    <2>3. CASE Kill(r)
      BY <2>3 DEF Kill
    <2>4. QED
      BY <1>1, <2>1, <2>2, <2>3
  <1>2. CASE Prepare(r) \/ PrepareFails(r) \/ MakePrivate(r)
    BY <1>2 DEF Prepare, PrepareFails, MakePrivate
  <1>3. CASE Config(r) \/ Pull(r) \/ Activate(r) \/ StartUp(r) \/ UpDone(r) \/ Ps(r)
    BY <1>3 DEF Config, Pull, Activate, StartUp, UpDone, Ps
  <1>4. CASE (\E s \in Services : Inspect(r, s)) \/ Return(r) \/ Fail(r)
    BY <1>4 DEF Inspect, Return, Fail
  <1>5. CASE CleanTemp(r) \/ CleanAssets(r)
    BY <1>5 DEF CleanTemp, CleanAssets
  <1>6. QED
    BY <1>1, <1>2, <1>3, <1>4, <1>5 DEF Step

\* What Docker does for a run, and what nobody controls.
Outside ==
    \/ \E r \in Runs : UpAbandoned(r) \/ (\E s \in Services : Recreate(r, s))
    \/ \E s \in Services : Flip(s)
    \/ Edit

\* Docker only ever gives a container to a run it is pending for.
LEMMA OutsideStep == StaticInv /\ Outside => StaticInv'
  <1> SUFFICES ASSUME StaticInv, Outside PROVE StaticInv'
    OBVIOUS
  <1> USE StaticAssumption DEF StaticInv, TypeOK, locals, disk, docker, setting
  <1>1. CASE Edit \/ (\E s \in Services : Flip(s))
    BY <1>1 DEF Edit, Flip, TreeInv, LeftInv, ReportInv, InUse
  <1>2. ASSUME NEW r \in Runs, UpAbandoned(r)
        PROVE  StaticInv'
    BY <1>2 DEF UpAbandoned, TreeInv, LeftInv, ReportInv, InUse
  <1>3. ASSUME NEW r \in Runs, NEW s \in Services, Recreate(r, s)
        PROVE  StaticInv'
    <2>1. TypeOK'
      BY <1>3 DEF Recreate
    <2>2. ASSUME NEW q \in Runs PROVE InUse(q)' => InUse(q)
      BY <1>3 DEF Recreate, InUse
    <2>3. UNCHANGED <<pc, locals, disk>>
      BY <1>3 DEF Recreate
    <2>4. QED
      BY <2>1, <2>2, <2>3 DEF TreeInv, LeftInv, ReportInv
  <1>4. QED
    BY <1>1, <1>2, <1>3 DEF Outside

\* Every step keeps the invariant.
LEMMA NextStaticInv == StaticInv /\ [Next]_vars => StaticInv'
  <1> SUFFICES ASSUME StaticInv, [Next]_vars PROVE StaticInv'
    OBVIOUS
  <1>1. ASSUME NEW r \in Runs, Begin(r) \/ Reject(r) \/ Step(r) \/ Kill(r)
        PROVE  StaticInv'
    <2>1. TypeOK /\ TypeOK'
      BY <1>1, RunTypes DEF StaticInv
    <2>2. TreeInv(r)' /\ LeftInv(r)' /\ ReportInv(r)'
      BY <1>1, OwnStep
    <2>3. ASSUME NEW q \in Runs, q # r
          PROVE  TreeInv(q)' /\ LeftInv(q)' /\ ReportInv(q)'
      <3>1. TreeInv(q) /\ LeftInv(q) /\ ReportInv(q)
        BY DEF StaticInv
      <3>2. QED
        BY <1>1, <2>1, <2>3, <3>1, OtherStep
           DEF TreeInv, LeftInv, ReportInv, InUse
    <2>4. QED
      BY <2>1, <2>2, <2>3 DEF StaticInv
  <1>2. CASE Outside
    BY <1>2, OutsideStep
  <1>3. CASE UNCHANGED vars
    BY <1>3 DEF vars, locals, disk, docker, setting, StaticInv, TypeOK, TreeInv, LeftInv,
                ReportInv, InUse
  <1>4. QED
    BY <1>1, <1>2, <1>3 DEF Next, Outside

\* The inductive invariant of the static executor.
THEOREM StaticInvariant == Spec => []StaticInv
  BY InitStaticInv, NextStaticInv, PTL DEF Spec

\* Every variable keeps its type, for any runs and services.
THEOREM StaticTypeOK == Spec => []TypeOK
  <1>1. StaticInv => TypeOK
    BY DEF StaticInv
  <1>2. QED
    BY <1>1, StaticInvariant, PTL

\* No tree is removed while a container mounts it, or may still be made from it.
THEOREM StaticMountsLive == Spec => []MountsLive
  <1>1. StaticInv => MountsLive
    BY DEF StaticInv, TreeInv, InUse, MountsLive
  <1>2. QED
    BY <1>1, StaticInvariant, PTL

\* A finished run that left its temporary directory, or a tree it had prepared
\* and never asked Docker to use, has said so.
THEOREM StaticCleanupReported == Spec => []CleanupReported
  <1>1. StaticInv => CleanupReported
    BY DEF StaticInv, LeftInv, CleanupReported
  <1>2. QED
    BY <1>1, StaticInvariant, PTL

\* A failed run whose tree is in use hands its caller that tree.
THEOREM StaticRecoveryHandle == Spec => []RecoveryHandle
  <1>1. StaticInv => RecoveryHandle
    BY DEF StaticInv, TreeInv, InUse, Handle, RecoveryHandle
  <1>2. QED
    BY <1>1, StaticInvariant, PTL

-----------------------------------------------------------------------------

\* A step that changes the phase and the effect of one run alone changes the
\* two functions of the abstract specification at that run alone.
LEMMA MappedAt ==
  ASSUME NEW r \in Runs,
         \A q \in Runs \ {r} : Phase(q)' = Phase(q) /\ Effect(q)' = Effect(q)
  PROVE  /\ [q \in Runs |-> Phase(q)]' =
              [[q \in Runs |-> Phase(q)] EXCEPT ![r] = Phase(r)']
         /\ [q \in Runs |-> Effect(q)]' =
              [[q \in Runs |-> Effect(q)] EXCEPT ![r] = Effect(r)']
  OBVIOUS

\* What is left to show of such a step is how it changes that run.
LEMMA AbstractStep ==
  ASSUME NEW r \in Runs,
         \A q \in Runs \ {r} : Phase(q)' = Phase(q) /\ Effect(q)' = Effect(q),
         \/ Phase(r)' = Phase(r) /\ Effect(r)' = Effect(r)
         \/ Phase(r) = "idle" /\ Phase(r)' \in {"working", "failed"}
              /\ Effect(r)' = Effect(r)
         \/ Phase(r) = "working" /\ Phase(r)' = "working"
              /\ \/ Effect(r) = "none" /\ Effect(r)' = "maybe"
                 \/ Effect(r) = "maybe" /\ Effect(r)' = "verified"
         \/ Phase(r) = "working" /\ Phase(r)' \in {"failed", "killed"}
              /\ Effect(r)' = Effect(r)
         \/ Phase(r) = "working" /\ Phase(r)' = "succeeded"
              /\ Effect(r) = "verified" /\ Effect(r)' = Effect(r)
  PROVE  [E!Next]_(E!vars)
  BY MappedAt DEF E!Next, E!vars, E!Enter, E!Refuse, E!Activate, E!Observe, E!Decide, E!Kill

\* Every step of the executor is a step of Executor, or none.
LEMMA ExecutorStep == StaticInv /\ [Next]_vars => [E!Next]_(E!vars)
  <1> SUFFICES ASSUME StaticInv, [Next]_vars PROVE [E!Next]_(E!vars)
    OBVIOUS
  <1>1. ASSUME NEW r \in Runs, Begin(r) \/ Reject(r) \/ Step(r) \/ Kill(r)
        PROVE  [E!Next]_(E!vars)
    <2> USE DEF TypeOK, TreeInv, LeftInv, ReportInv, Goto, locals, disk, docker, setting,
                Working, Cleaning, Failures, Phase, Effect
    <2>1. \A q \in Runs \ {r} : Phase(q)' = Phase(q) /\ Effect(q)' = Effect(q)
      BY <1>1, OtherStep DEF StaticInv
    <2>2. TypeOK /\ TreeInv(r) /\ LeftInv(r) /\ ReportInv(r)
      BY DEF StaticInv
    <2>3. CASE Begin(r)
      BY <2>1, <2>2, <2>3, AbstractStep DEF Begin
    <2>4. CASE Reject(r)
      BY <2>1, <2>2, <2>4, AbstractStep DEF Reject
    <2>5. CASE Kill(r)
      BY <2>1, <2>2, <2>5, AbstractStep DEF Kill
    <2>6. CASE Prepare(r) \/ PrepareFails(r) \/ MakePrivate(r)
      BY <2>1, <2>2, <2>6, AbstractStep DEF Prepare, PrepareFails, MakePrivate
    <2>7. CASE Config(r) \/ Pull(r) \/ StartUp(r) \/ UpDone(r) \/ Ps(r)
      BY <2>1, <2>2, <2>7, AbstractStep DEF Config, Pull, StartUp, UpDone, Ps
    <2>8. CASE Activate(r)
      BY <2>1, <2>2, <2>8, AbstractStep, StaticAssumption DEF Activate
    <2>9. CASE \E s \in Services : Inspect(r, s)
      BY <2>1, <2>2, <2>9, AbstractStep DEF Inspect
    <2>10. CASE Return(r) \/ Fail(r) \/ CleanTemp(r)
      BY <2>1, <2>2, <2>10, AbstractStep DEF Return, Fail, CleanTemp
    <2>11. CASE CleanAssets(r)
      BY <2>1, <2>2, <2>11, AbstractStep DEF CleanAssets
    <2>12. QED
      BY <1>1, <2>3, <2>4, <2>5, <2>6, <2>7, <2>8, <2>9, <2>10, <2>11 DEF Step
  <1>2. ASSUME UNCHANGED <<pc, locals>>
        PROVE  UNCHANGED E!vars
    BY <1>2 DEF locals, E!vars, Phase, Effect
  <1>3. CASE Outside
    BY <1>2, <1>3 DEF Outside, UpAbandoned, Recreate, Flip, Edit
  <1>4. CASE UNCHANGED vars
    BY <1>2, <1>4 DEF vars
  <1>5. QED
    BY <1>1, <1>3, <1>4 DEF Next, Outside

\* The executor implements the safety part of Executor: nothing is touched
\* before it was asked for, and no success without every service observed.
THEOREM StaticImplementsExecutor == Spec => E!Init /\ [][E!Next]_(E!vars)
  <1>1. Init => E!Init
    BY DEF Init, E!Init, Phase, Effect
  <1>2. QED
    BY <1>1, ExecutorStep, StaticInvariant, PTL DEF Spec

-----------------------------------------------------------------------------

Active(r) == pc[r] \in Working \cup Cleaning

\* While a run is active no other is, and Docker works for no other.
AloneInv ==
    \A r \in Runs : Active(r) => \A q \in Runs \ {r} : ~Active(q) /\ pending[q] = {}

\* What an active run can rely on about the containers, by where it is: the
\* files it reads during `up` are the reviewed ones unless the check after `up`
\* will fail, and after `up` there is nobody left to replace a container.
ServeInv(r) ==
    /\ pc[r] \in Working \cup {"idle"} => ~retain[r]
    /\ pc[r] \in {"pull", "activate", "up", "upping"} => controls # "nonconforming"
    /\ pc[r] = "upping" /\ controls = "conforming" =>
         \A s \in Services \ pending[r] : made[s] = r
    /\ pc[r] \in {"ps", "inspect"} \/ (pc[r] \in Cleaning /\ retain[r]) =>
         pending[r] = {} /\ \A s \in Services : made[s] = r

ExclusiveInv == AloneInv /\ \A r \in Runs : ServeInv(r)

\* A run's step keeps its own part, and begins only when it is alone.
LEMMA OwnServe ==
  ASSUME ~overlapped', TypeOK, ExclusiveInv, NEW r \in Runs,
         Begin(r) \/ Reject(r) \/ Step(r) \/ Kill(r)
  PROVE  ServeInv(r)' /\ (Active(r)' => Active(r) \/ Excluded(r))
  <1> USE StaticAssumption
          DEF TypeOK, ExclusiveInv, ServeInv, Active, Excluded, SnapshotsHold,
              Goto, locals, disk, docker, setting, Working, Cleaning
  <1>1. CASE Begin(r) \/ Reject(r) \/ Kill(r)
    <2>1. CASE Begin(r)
      BY <1>1, <2>1 DEF Begin
    <2>2. CASE Reject(r)
      BY <2>2 DEF Reject
    <2>3. CASE Kill(r)
      BY <2>3 DEF Kill
    <2>4. QED
      BY <1>1, <2>1, <2>2, <2>3
  <1>2. CASE Prepare(r) \/ PrepareFails(r) \/ MakePrivate(r)
    BY <1>2 DEF Prepare, PrepareFails, MakePrivate
  <1>3. CASE Config(r) \/ Pull(r) \/ Activate(r)
    <2>1. CASE Config(r)
      BY <2>1 DEF Config
    <2>2. CASE Pull(r)
      BY <2>2 DEF Pull
    <2>3. CASE Activate(r)
      BY <2>3 DEF Activate
    <2>4. QED
      BY <1>3, <2>1, <2>2, <2>3
  <1>4. CASE StartUp(r)
    BY <1>4 DEF StartUp
  <1>5. CASE UpDone(r)
    BY <1>5 DEF UpDone
  <1>6. CASE Ps(r)
    BY <1>6 DEF Ps
  <1>7. CASE \E s \in Services : Inspect(r, s)
    BY <1>7 DEF Inspect
  <1>8. CASE Return(r)
    BY <1>8 DEF Return
  <1>9. CASE Fail(r)
    BY <1>9 DEF Fail
  <1>10. CASE CleanTemp(r) \/ CleanAssets(r)
    BY <1>10 DEF CleanTemp, CleanAssets
  <1>11. QED
    BY <1>1, <1>2, <1>3, <1>4, <1>5, <1>6, <1>7, <1>8, <1>9, <1>10 DEF Step

\* Docker works for the active run only, and from files whose change that run
\* will notice.
LEMMA OutsideServe == TypeOK /\ ExclusiveInv /\ Outside => ExclusiveInv'
  <1> SUFFICES ASSUME TypeOK, ExclusiveInv, Outside PROVE ExclusiveInv'
    OBVIOUS
  <1> USE DEF TypeOK, ExclusiveInv, AloneInv, ServeInv, Active, locals, disk, docker, setting,
              Working, Cleaning
  <1>1. CASE Edit
    BY <1>1 DEF Edit
  <1>2. CASE \E s \in Services : Flip(s)
    BY <1>2 DEF Flip
  <1>3. ASSUME NEW r \in Runs, UpAbandoned(r)
        PROVE  ExclusiveInv'
    BY <1>3 DEF UpAbandoned
  <1>4. ASSUME NEW r \in Runs, NEW s \in Services, Recreate(r, s)
        PROVE  ExclusiveInv'
    <2>1. AloneInv'
      BY <1>4 DEF Recreate
    <2>2. ASSUME NEW q \in Runs PROVE ServeInv(q)'
      <3>1. CASE q = r
        BY <1>4, <3>1 DEF Recreate
      <3>2. CASE q # r
        BY <1>4, <3>2 DEF Recreate
      <3>3. QED
        BY <3>1, <3>2
    <2>3. QED
      BY <2>1, <2>2
  <1>5. QED
    BY <1>1, <1>2, <1>3, <1>4 DEF Outside

\* What overlapped once has overlapped for good.
LEMMA OverlapStays == [Next]_vars /\ overlapped => overlapped'
  <1>1. ASSUME overlapped, NEW r \in Runs, Begin(r) \/ Reject(r) \/ Step(r) \/ Kill(r)
        PROVE  overlapped'
    BY <1>1
       DEF setting, Begin, Reject, Kill, Step, Prepare, PrepareFails, MakePrivate, Config, Pull,
           Activate, StartUp, UpDone, Ps, Inspect, Return, Fail, CleanTemp, CleanAssets
  <1>2. CASE Outside
    BY <1>2 DEF setting, Outside, UpAbandoned, Recreate, Flip, Edit
  <1>3. CASE UNCHANGED vars
    BY <1>3 DEF vars, setting
  <1>4. QED
    BY <1>1, <1>2, <1>3 DEF Next, Outside

\* Every step that does not end the exclusion keeps it.
LEMMA NextExclusiveInv ==
  ~overlapped' /\ TypeOK /\ ExclusiveInv /\ [Next]_vars => ExclusiveInv'
  <1> SUFFICES ASSUME ~overlapped', TypeOK, ExclusiveInv, [Next]_vars PROVE ExclusiveInv'
    OBVIOUS
  <1>1. ASSUME NEW r \in Runs, Begin(r) \/ Reject(r) \/ Step(r) \/ Kill(r)
        PROVE  ExclusiveInv'
    <2>1. ServeInv(r)' /\ (Active(r)' => Active(r) \/ Excluded(r))
      BY <1>1, OwnServe
    <2>2. controls' = controls
      BY <1>1 DEF Begin, Reject, Kill, Step, Prepare, PrepareFails, MakePrivate, Config,
                  Pull, Activate, StartUp, UpDone, Ps, Inspect, Return, Fail, CleanTemp,
                  CleanAssets, setting
    <2>3. ASSUME NEW q \in Runs, q # r
          PROVE  ServeInv(q)' /\ (Active(q)' <=> Active(q)) /\ pending'[q] = pending[q]
      BY <1>1, <2>2, <2>3, OtherStep DEF ExclusiveInv, ServeInv, Active
    <2>4. pending'[r] = pending[r] \/ Active(r)
      BY <1>1 DEF TypeOK, Begin, Reject, Kill, Step, Prepare, PrepareFails, MakePrivate,
                  Config, Pull, Activate, StartUp, UpDone, Ps, Inspect, Return, Fail,
                  CleanTemp, CleanAssets, Active, Working, docker, setting
    <2>5. AloneInv'
      <3>1. CASE Active(r)
        BY <2>3, <3>1 DEF ExclusiveInv, AloneInv
      <3>2. CASE ~Active(r) /\ Active(r)'
        BY <2>1, <2>3, <3>2 DEF Excluded, Active, Working, Cleaning, AloneInv
      <3>3. CASE ~Active(r) /\ ~Active(r)'
        BY <2>3, <2>4, <3>3 DEF ExclusiveInv, AloneInv
      <3>4. QED
        BY <3>1, <3>2, <3>3
    <2>6. QED
      BY <2>1, <2>3, <2>5 DEF ExclusiveInv
  <1>2. CASE Outside
    BY <1>2, OutsideServe
  <1>3. CASE UNCHANGED vars
    BY <1>3 DEF vars, locals, disk, docker, setting, ExclusiveInv, AloneInv, ServeInv, Active
  <1>4. QED
    BY <1>1, <1>2, <1>3 DEF Next, Outside

\* While the caller keeps its exclusion it holds.
THEOREM StaticExclusive == Spec => [](~overlapped => ExclusiveInv)
  <1>1. Init => (~overlapped => ExclusiveInv)
    BY DEF Init, ExclusiveInv, AloneInv, ServeInv, Active, Working, Cleaning
  <1>2. TypeOK /\ (~overlapped => ExclusiveInv) /\ [Next]_vars
          => (~overlapped => ExclusiveInv)'
    BY NextExclusiveInv, OverlapStays
  <1>3. QED
    BY <1>1, <1>2, StaticTypeOK, PTL DEF Spec

\* With the caller's exclusion, a run that has its result left every service
\* with a container of its own release.
THEOREM StaticResultServes == Spec => []ResultServes
  <1>1. (~overlapped => ExclusiveInv) => ResultServes
    BY DEF ExclusiveInv, ServeInv, ResultServes
  <1>2. QED
    BY <1>1, StaticExclusive, PTL
=============================================================================
