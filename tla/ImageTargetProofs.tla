-------------------------- MODULE ImageTargetProofs --------------------------
(***************************************************************************)
(* What is proved about ImageTarget, for any number of runs and services:  *)
(* types, reported leftovers and the refinement of Executor without any    *)
(* exclusion; with it, that migrations never overlap and what a result     *)
(* means.                                                                  *)
(***************************************************************************)
EXTENDS ImageTarget, FiniteSetTheorems, TLAPS

\* What is on disk of a run and what it has come to, by where it is.
RunInv(r) ==
    /\ pc[r] \in {"idle", "prepare"} => r \notin temps
    /\ pc[r] = "done" /\ r \in temps => failure[r] = "cleanup_failed"
    /\ pc[r] \in {"idle", "prepare", "config", "pull", "up"} => r \notin asked
    /\ pc[r] \in {"upping", "migrate", "migrating", "ps", "inspect"} => r \in asked
    /\ r \notin asked => seen[r] = {}
    /\ pc[r] \in {"returning", "failing", "done"} =>
         failure[r] # "none" \/ (r \in asked /\ seen[r] = Services)

\* There is no migration where none is to be run.
MigrateInv ==
    MigrateService = None =>
        migrating = {} /\ \A r \in Runs : pc[r] \notin {"migrate", "migrating"}

TypeInv == TypeOK /\ MigrateInv

ImageInv == TypeInv /\ \A r \in Runs : RunInv(r)

-----------------------------------------------------------------------------

\* The invariant holds before any run has begun.
LEMMA InitImageInv == Init => ImageInv
  <1> SUFFICES ASSUME Init PROVE ImageInv
    OBVIOUS
  <1> USE ImageAssumption DEF Init
  <1>1. TypeOK
    BY DEF TypeOK, Working
  <1>2. ASSUME NEW r \in Runs PROVE RunInv(r)
    BY DEF RunInv
  <1>3. QED
    BY <1>1, <1>2 DEF Init, ImageInv, TypeInv, MigrateInv

\* The steps of a run keep the types.
LEMMA RunTypes ==
  ASSUME TypeInv, NEW r \in Runs, Begin(r) \/ Reject(r) \/ Step(r) \/ Kill(r)
  PROVE  TypeInv'
  <1> USE ImageAssumption DEF TypeInv, TypeOK, MigrateInv, Goto, locals, docker, database, setting, Working
  <1>1. CASE Begin(r)
    BY <1>1 DEF Begin
  <1>2. CASE Reject(r)
    BY <1>2 DEF Reject
  <1>3. CASE Prepare(r)
    BY <1>3 DEF Prepare
  <1>4. CASE Config(r)
    BY <1>4 DEF Config
  <1>5. CASE Pull(r)
    BY <1>5 DEF Pull
  <1>6. CASE StartUp(r)
    BY <1>6 DEF StartUp
  <1>7. CASE UpDone(r)
    BY <1>7 DEF UpDone
  <1>8. CASE StartMigration(r)
    BY <1>8 DEF StartMigration
  <1>9. CASE MigrationDone(r)
    BY <1>9 DEF MigrationDone
  <1>10. CASE Ps(r)
    BY <1>10 DEF Ps
  <1>11. CASE \E s \in Services : Inspect(r, s)
    BY <1>11 DEF Inspect
  <1>12. CASE Return(r)
    BY <1>12 DEF Return
  <1>13. CASE Fail(r)
    BY <1>13 DEF Fail
  <1>14. CASE Clean(r)
    BY <1>14 DEF Clean
  <1>15. CASE Kill(r)
    BY <1>15 DEF Kill
  <1>16. QED
    BY <1>1, <1>2, <1>3, <1>4, <1>5, <1>6, <1>7, <1>8, <1>9, <1>10, <1>11,
       <1>12, <1>13, <1>14, <1>15 DEF Step

\* A run's step keeps its own part of the invariant.
LEMMA OwnStep ==
  ASSUME TypeOK, NEW r \in Runs, RunInv(r), Begin(r) \/ Reject(r) \/ Step(r) \/ Kill(r)
  PROVE  RunInv(r)'
  <1> USE DEF TypeOK, RunInv, Goto, locals, docker, database, setting, Working
  <1>1. CASE Begin(r)
    BY <1>1 DEF Begin
  <1>2. CASE Reject(r)
    BY <1>2 DEF Reject
  <1>3. CASE Prepare(r)
    BY <1>3 DEF Prepare
  <1>4. CASE Config(r)
    BY <1>4 DEF Config
  <1>5. CASE Pull(r)
    BY <1>5 DEF Pull
  <1>6. CASE StartUp(r)
    BY <1>6 DEF StartUp
  <1>7. CASE UpDone(r)
    BY <1>7 DEF UpDone
  <1>8. CASE StartMigration(r)
    BY <1>8 DEF StartMigration
  <1>9. CASE MigrationDone(r)
    BY <1>9 DEF MigrationDone
  <1>10. CASE Ps(r)
    BY <1>10 DEF Ps
  <1>11. CASE \E s \in Services : Inspect(r, s)
    BY <1>11 DEF Inspect
  <1>12. CASE Return(r)
    BY <1>12 DEF Return
  <1>13. CASE Fail(r)
    BY <1>13 DEF Fail
  <1>14. CASE Clean(r)
    BY <1>14 DEF Clean
  <1>15. CASE Kill(r)
    BY <1>15 DEF Kill
  <1>16. QED
    BY <1>1, <1>2, <1>3, <1>4, <1>5, <1>6, <1>7, <1>8, <1>9, <1>10, <1>11,
       <1>12, <1>13, <1>14, <1>15 DEF Step

\* A run's step changes nothing of another run, and no container.
LEMMA OtherStep ==
  ASSUME TypeOK, NEW r \in Runs, NEW q \in Runs \ {r},
         Begin(r) \/ Reject(r) \/ Step(r) \/ Kill(r)
  PROVE  /\ pc'[q] = pc[q] /\ failure'[q] = failure[q] /\ seen'[q] = seen[q]
         /\ pending'[q] = pending[q]
         /\ q \in temps' <=> q \in temps
         /\ q \in asked' <=> q \in asked
         /\ made' = made /\ controls' = controls
  <1> USE DEF TypeOK, Goto, locals, docker, database, setting
  <1>1. CASE Begin(r)
    BY <1>1 DEF Begin
  <1>2. CASE Reject(r)
    BY <1>2 DEF Reject
  <1>3. CASE Prepare(r)
    BY <1>3 DEF Prepare
  <1>4. CASE Config(r)
    BY <1>4 DEF Config
  <1>5. CASE Pull(r)
    BY <1>5 DEF Pull
  <1>6. CASE StartUp(r)
    BY <1>6 DEF StartUp
  <1>7. CASE UpDone(r)
    BY <1>7 DEF UpDone
  <1>8. CASE StartMigration(r)
    BY <1>8 DEF StartMigration
  <1>9. CASE MigrationDone(r)
    BY <1>9 DEF MigrationDone
  <1>10. CASE Ps(r)
    BY <1>10 DEF Ps
  <1>11. CASE \E s \in Services : Inspect(r, s)
    BY <1>11 DEF Inspect
  <1>12. CASE Return(r)
    BY <1>12 DEF Return
  <1>13. CASE Fail(r)
    BY <1>13 DEF Fail
  <1>14. CASE Clean(r)
    BY <1>14 DEF Clean
  <1>15. CASE Kill(r)
    BY <1>15 DEF Kill
  <1>16. QED
    BY <1>1, <1>2, <1>3, <1>4, <1>5, <1>6, <1>7, <1>8, <1>9, <1>10, <1>11,
       <1>12, <1>13, <1>14, <1>15 DEF Step

\* What Docker and the migrations do, and what nobody controls.
Outside ==
    \/ \E r \in Runs : \/ UpAbandoned(r) \/ MigrationEnds(r)
                       \/ \E s \in Services : Recreate(r, s)
    \/ \E s \in Services : Flip(s)
    \/ Edit

\* None of it is a run's.
LEMMA OutsideStep == TypeInv /\ Outside => TypeInv' /\ UNCHANGED <<pc, locals>>
  <1> SUFFICES ASSUME TypeInv, Outside PROVE TypeInv' /\ UNCHANGED <<pc, locals>>
    OBVIOUS
  <1> USE ImageAssumption DEF TypeInv, TypeOK, MigrateInv, locals, docker, database, setting
  <1>1. CASE Edit
    BY <1>1 DEF Edit
  <1>2. CASE \E s \in Services : Flip(s)
    BY <1>2 DEF Flip
  <1>3. ASSUME NEW r \in Runs, UpAbandoned(r) PROVE TypeInv' /\ UNCHANGED <<pc, locals>>
    BY <1>3 DEF UpAbandoned
  <1>4. ASSUME NEW r \in Runs, MigrationEnds(r) PROVE TypeInv' /\ UNCHANGED <<pc, locals>>
    BY <1>4 DEF MigrationEnds
  <1>5. ASSUME NEW r \in Runs, NEW s \in Services, Recreate(r, s)
        PROVE  TypeInv' /\ UNCHANGED <<pc, locals>>
    BY <1>5 DEF Recreate
  <1>6. QED
    BY <1>1, <1>2, <1>3, <1>4, <1>5 DEF Outside

\* Every step keeps the invariant.
LEMMA NextImageInv == ImageInv /\ [Next]_vars => ImageInv'
  <1> SUFFICES ASSUME ImageInv, [Next]_vars PROVE ImageInv'
    OBVIOUS
  <1>1. ASSUME NEW r \in Runs, Begin(r) \/ Reject(r) \/ Step(r) \/ Kill(r)
        PROVE  ImageInv'
    <2>1. TypeInv /\ TypeOK /\ TypeInv'
      BY <1>1, RunTypes DEF ImageInv, TypeInv
    <2>2. RunInv(r)'
      BY <1>1, <2>1, OwnStep DEF ImageInv
    <2>3. ASSUME NEW q \in Runs, q # r PROVE RunInv(q)'
      BY <1>1, <2>1, <2>3, OtherStep DEF ImageInv, RunInv
    <2>4. QED
      BY <2>1, <2>2, <2>3 DEF ImageInv
  <1>2. CASE Outside
    BY <1>2, OutsideStep DEF ImageInv, RunInv, locals
  <1>3. CASE UNCHANGED vars
    BY <1>3 DEF vars, locals, docker, database, setting, ImageInv, TypeInv, TypeOK, MigrateInv, RunInv
  <1>4. QED
    BY <1>1, <1>2, <1>3 DEF Next, Outside

\* The inductive invariant of the image executor.
THEOREM ImageInvariant == Spec => []ImageInv
  BY InitImageInv, NextImageInv, PTL DEF Spec

\* Every variable keeps its type, for any runs and services.
THEOREM ImageTypeOK == Spec => []TypeOK
  <1>1. ImageInv => TypeOK
    BY DEF ImageInv, TypeInv
  <1>2. QED
    BY <1>1, ImageInvariant, PTL

\* What a finished run left behind is reported.
THEOREM ImageCleanupReported == Spec => []CleanupReported
  <1>1. ImageInv => CleanupReported
    BY DEF ImageInv, RunInv, CleanupReported
  <1>2. QED
    BY <1>1, ImageInvariant, PTL

-----------------------------------------------------------------------------

\* A step that changes the phase and the effect of one run alone changes the
\* two functions of the abstract specification at that run alone.
LEMMA MappedAt ==
  ASSUME NEW r \in Runs,
         \A q \in Runs \ {r} : Phase(q)' = Phase(q) /\ Effect(q)' = Effect(q)
  PROVE  /\ [q \in Runs |-> Phase(q)]' =
              [[q \in Runs |-> Phase(q)] EXCEPT ![r] = Phase(r)']
         /\ [q \in Runs |-> Effect(q)]' =
              [[q \in Runs |-> Effect(q)] EXCEPT ![r] = Effect(r)']
  OBVIOUS

\* What is left to show of such a step is how it changes that run.
LEMMA AbstractStep ==
  ASSUME NEW r \in Runs,
         \A q \in Runs \ {r} : Phase(q)' = Phase(q) /\ Effect(q)' = Effect(q),
         \/ Phase(r)' = Phase(r) /\ Effect(r)' = Effect(r)
         \/ Phase(r) = "idle" /\ Phase(r)' \in {"working", "failed"}
              /\ Effect(r)' = Effect(r)
         \/ Phase(r) = "working" /\ Phase(r)' = "working"
              /\ \/ Effect(r) = "none" /\ Effect(r)' = "maybe"
                 \/ Effect(r) = "maybe" /\ Effect(r)' = "verified"
         \/ Phase(r) = "working" /\ Phase(r)' \in {"failed", "killed"}
              /\ Effect(r)' = Effect(r)
         \/ Phase(r) = "working" /\ Phase(r)' = "succeeded"
              /\ Effect(r) = "verified" /\ Effect(r)' = Effect(r)
  PROVE  [E!Next]_(E!vars)
  BY MappedAt DEF E!Next, E!vars, E!Enter, E!Refuse, E!Activate, E!Observe, E!Decide, E!Kill

\* Every step of the executor is a step of Executor, or none.
LEMMA ExecutorStep == ImageInv /\ [Next]_vars => [E!Next]_(E!vars)
  <1> SUFFICES ASSUME ImageInv, [Next]_vars PROVE [E!Next]_(E!vars)
    OBVIOUS
  <1>1. ASSUME NEW r \in Runs, Begin(r) \/ Reject(r) \/ Step(r) \/ Kill(r)
        PROVE  [E!Next]_(E!vars)
    <2> USE DEF TypeOK, RunInv, Goto, locals, docker, database, setting, Working, Phase, Effect
    <2>1. \A q \in Runs \ {r} : Phase(q)' = Phase(q) /\ Effect(q)' = Effect(q)
      BY <1>1, OtherStep DEF ImageInv, TypeInv
    <2>2. TypeOK /\ RunInv(r)
      BY DEF ImageInv, TypeInv
    <2>3. CASE Begin(r)
      BY <2>1, <2>2, <2>3, AbstractStep DEF Begin
    <2>4. CASE Reject(r)
      BY <2>1, <2>2, <2>4, AbstractStep DEF Reject
    <2>5. CASE Prepare(r)
      BY <2>1, <2>2, <2>5, AbstractStep DEF Prepare
    <2>6. CASE Config(r)
      BY <2>1, <2>2, <2>6, AbstractStep DEF Config
    <2>7. CASE Pull(r)
      BY <2>1, <2>2, <2>7, AbstractStep DEF Pull
    <2>8. CASE StartUp(r)
      BY <2>1, <2>2, <2>8, AbstractStep, ImageAssumption DEF StartUp
    <2>9. CASE UpDone(r)
      BY <2>1, <2>2, <2>9, AbstractStep DEF UpDone
    <2>10. CASE StartMigration(r)
      BY <2>1, <2>2, <2>10, AbstractStep DEF StartMigration
    <2>11. CASE MigrationDone(r)
      BY <2>1, <2>2, <2>11, AbstractStep DEF MigrationDone
    <2>12. CASE Ps(r)
      BY <2>1, <2>2, <2>12, AbstractStep DEF Ps
    <2>13. CASE \E s \in Services : Inspect(r, s)
      BY <2>1, <2>2, <2>13, AbstractStep, ImageAssumption DEF Inspect
    <2>14. CASE Return(r)
      BY <2>1, <2>2, <2>14, AbstractStep DEF Return
    <2>15. CASE Fail(r)
      BY <2>1, <2>2, <2>15, AbstractStep DEF Fail
    <2>16. CASE Clean(r)
      BY <2>1, <2>2, <2>16, AbstractStep DEF Clean
    <2>17. CASE Kill(r)
      BY <2>1, <2>2, <2>17, AbstractStep DEF Kill
    <2>18. QED
      BY <1>1, <2>3, <2>4, <2>5, <2>6, <2>7, <2>8, <2>9, <2>10, <2>11, <2>12,
         <2>13, <2>14, <2>15, <2>16, <2>17 DEF Step
  <1>2. ASSUME UNCHANGED <<pc, locals>> PROVE UNCHANGED E!vars
    BY <1>2 DEF locals, E!vars, Phase, Effect
  <1>3. CASE Outside
    BY <1>2, <1>3, OutsideStep DEF ImageInv, TypeInv
  <1>4. CASE UNCHANGED vars
    BY <1>2, <1>4 DEF vars
  <1>5. QED
    BY <1>1, <1>3, <1>4 DEF Next, Outside

\* The executor implements the safety part of Executor: nothing is touched
\* before it was asked for, and no success without every service observed.
THEOREM ImageImplementsExecutor == Spec => E!Init /\ [][E!Next]_(E!vars)
  <1>1. Init => E!Init
    BY DEF Init, E!Init, Phase, Effect
  <1>2. QED
    BY <1>1, ExecutorStep, ImageInvariant, PTL DEF Spec

-----------------------------------------------------------------------------

Active(r) == pc[r] \in Working \cup {"returning", "failing"}

\* While a run is active no other is, and Docker works for no other.
AloneInv ==
    \A r \in Runs : Active(r) => \A q \in Runs \ {r} : ~Active(q) /\ pending[q] = {}

\* What an active run can rely on, by where it is. Once its `up` has replaced
\* the container of MigrateService, no migration left behind by an earlier run
\* is alive; after `up` nobody is left to replace a container.
ServeInv(r) ==
    /\ pc[r] \in {"pull", "up", "upping"} => controls # "nonconforming"
    /\ pc[r] = "upping" /\ controls = "conforming" =>
         \A s \in Services \ pending[r] : made[s] = r
    /\ pc[r] = "upping" /\ MigrateService \notin pending[r] => migrating = {}
    /\ pc[r] \in {"migrate", "migrating", "ps", "inspect", "returning"} =>
         pending[r] = {} /\ \A s \in Services : made[s] = r
    /\ pc[r] = "migrating" => migrating \subseteq {r}
    /\ pc[r] \in {"migrate", "ps", "inspect", "returning"} => migrating = {}
    /\ pc[r] \in {"ps", "inspect", "returning"} /\ MigrateService # None => schema = r

ExclusiveInv ==
    /\ AloneInv
    /\ \A r \in Runs : ServeInv(r)
    /\ \A p, q \in migrating : p = q

\* A run that keeps the exclusion begins alone.
LEMMA BeginsAlone ==
  ASSUME ~overlapped', NEW r \in Runs, Begin(r)
  PROVE  Excluded(r)
  BY DEF Begin

\* A run's step keeps its own part, and begins only when it is alone.
LEMMA OwnServe ==
  ASSUME ~overlapped', TypeInv, ExclusiveInv, NEW r \in Runs,
         Begin(r) \/ Reject(r) \/ Step(r) \/ Kill(r)
  PROVE  /\ ServeInv(r)' /\ (Active(r)' => Active(r) \/ Excluded(r))
         /\ \A p, q \in migrating' : p = q
         /\ <<pending, migrating, schema>>' = <<pending, migrating, schema>> \/ Active(r)
  <1> USE ImageAssumption
          DEF TypeInv, TypeOK, MigrateInv, ExclusiveInv, ServeInv, Active, Excluded,
              SnapshotsHold, Goto, locals, docker, database, setting, Working
  <1>1. CASE Begin(r)
    <2>1. pc[r] = "idle" /\ Excluded(r)
      BY <1>1, BeginsAlone DEF Begin
    <2>2. Goto(r, "prepare") /\ UNCHANGED <<locals, docker, database, controls>>
      BY <1>1 DEF Begin
    <2>3. QED
      BY <2>1, <2>2
  <1>2. CASE Reject(r)
    BY <1>2 DEF Reject
  <1>3. CASE Prepare(r)
    BY <1>3 DEF Prepare
  <1>4. CASE Config(r)
    BY <1>4 DEF Config
  <1>5. CASE Pull(r)
    BY <1>5 DEF Pull
  <1>6. CASE StartUp(r)
    BY <1>6 DEF StartUp
  <1>7. CASE UpDone(r)
    BY <1>7 DEF UpDone
  <1>8. CASE StartMigration(r)
    BY <1>8 DEF StartMigration
  <1>9. CASE MigrationDone(r)
    BY <1>9 DEF MigrationDone
  <1>10. CASE Ps(r)
    BY <1>10 DEF Ps
  <1>11. CASE \E s \in Services : Inspect(r, s)
    BY <1>11 DEF Inspect
  <1>12. CASE Return(r)
    BY <1>12 DEF Return
  <1>13. CASE Fail(r)
    BY <1>13 DEF Fail
  <1>14. CASE Clean(r)
    BY <1>14 DEF Clean
  <1>15. CASE Kill(r)
    BY <1>15 DEF Kill
  <1>16. QED
    BY <1>1, <1>2, <1>3, <1>4, <1>5, <1>6, <1>7, <1>8, <1>9, <1>10, <1>11,
       <1>12, <1>13, <1>14, <1>15 DEF Step

\* Docker works for the active run only, and from files whose change that run
\* will notice. A migration without a run to wait for it ends before the next.
LEMMA OutsideServe == TypeInv /\ ExclusiveInv /\ Outside => ExclusiveInv'
  <1> SUFFICES ASSUME TypeInv, ExclusiveInv, Outside PROVE ExclusiveInv'
    OBVIOUS
  <1> USE ImageAssumption
          DEF TypeInv, TypeOK, MigrateInv, ExclusiveInv, AloneInv, ServeInv, Active,
              locals, docker, database, setting, Working
  <1>1. CASE Edit
    BY <1>1 DEF Edit
  <1>2. CASE \E s \in Services : Flip(s)
    BY <1>2 DEF Flip
  <1>3. ASSUME NEW r \in Runs, UpAbandoned(r) PROVE ExclusiveInv'
    BY <1>3 DEF UpAbandoned
  <1>4. ASSUME NEW r \in Runs, MigrationEnds(r) PROVE ExclusiveInv'
    BY <1>4 DEF MigrationEnds
  <1>5. ASSUME NEW r \in Runs, NEW s \in Services, Recreate(r, s) PROVE ExclusiveInv'
    <2>1. AloneInv' /\ \A p, q \in migrating' : p = q
      BY <1>5 DEF Recreate
    <2>2. ASSUME NEW q \in Runs PROVE ServeInv(q)'
      <3>1. CASE q = r
        BY <1>5, <3>1 DEF Recreate
      <3>2. CASE q # r
        BY <1>5, <3>2 DEF Recreate
      <3>3. QED
        BY <3>1, <3>2
    <2>3. QED
      BY <2>1, <2>2
  <1>6. QED
    BY <1>1, <1>2, <1>3, <1>4, <1>5 DEF Outside

\* What overlapped once has overlapped for good.
LEMMA OverlapStays == [Next]_vars /\ overlapped => overlapped'
  <1>1. ASSUME overlapped, NEW r \in Runs, Begin(r) \/ Reject(r) \/ Step(r) \/ Kill(r)
        PROVE  overlapped'
    BY <1>1
       DEF setting, Begin, Reject, Kill, Step, Prepare, Config, Pull, StartUp, UpDone,
           StartMigration, MigrationDone, Ps, Inspect, Return, Fail, Clean
  <1>2. CASE Outside
    BY <1>2 DEF setting, Outside, UpAbandoned, MigrationEnds, Recreate, Flip, Edit
  <1>3. CASE UNCHANGED vars
    BY <1>3 DEF vars, setting
  <1>4. QED
    BY <1>1, <1>2, <1>3 DEF Next, Outside

\* Every step that does not end the exclusion keeps it.
LEMMA NextExclusiveInv ==
  ~overlapped' /\ TypeInv /\ ExclusiveInv /\ [Next]_vars => ExclusiveInv'
  <1> SUFFICES ASSUME ~overlapped', TypeInv, ExclusiveInv, [Next]_vars PROVE ExclusiveInv'
    OBVIOUS
  <1>1. ASSUME NEW r \in Runs, Begin(r) \/ Reject(r) \/ Step(r) \/ Kill(r)
        PROVE  ExclusiveInv'
    <2>1. /\ ServeInv(r)' /\ (Active(r)' => Active(r) \/ Excluded(r))
          /\ \A p, q \in migrating' : p = q
          /\ <<pending, migrating, schema>>' = <<pending, migrating, schema>> \/ Active(r)
      BY <1>1, OwnServe
    <2>2. ASSUME NEW q \in Runs, q # r
          PROVE  /\ Active(q)' <=> Active(q)
                 /\ pending'[q] = pending[q] /\ pc'[q] = pc[q]
                 /\ made' = made /\ controls' = controls
      BY <1>1, <2>2, OtherStep DEF TypeInv, Active
    <2>3. ASSUME NEW q \in Runs, q # r PROVE ServeInv(q)'
      <3>1. CASE Active(q)
        <4>1. <<migrating, schema>>' = <<migrating, schema>>
          BY <2>1, <2>3, <3>1 DEF ExclusiveInv, AloneInv
        <4>2. QED
          BY <2>2, <2>3, <4>1 DEF ExclusiveInv, ServeInv
      <3>2. CASE ~Active(q)
        BY <2>2, <2>3, <3>2 DEF ServeInv, Active, Working
      <3>3. QED
        BY <3>1, <3>2
    <2>4. AloneInv'
      <3>1. CASE Active(r)
        BY <2>2, <3>1 DEF ExclusiveInv, AloneInv
      <3>2. CASE ~Active(r) /\ Active(r)'
        BY <2>1, <2>2, <3>2 DEF Excluded, Active, Working, AloneInv
      <3>3. CASE ~Active(r) /\ ~Active(r)'
        BY <2>1, <2>2, <3>3 DEF ExclusiveInv, AloneInv
      <3>4. QED
        BY <3>1, <3>2, <3>3
    <2>5. QED
      BY <2>1, <2>3, <2>4 DEF ExclusiveInv
  <1>2. CASE Outside
    BY <1>2, OutsideServe
  <1>3. CASE UNCHANGED vars
    BY <1>3 DEF vars, locals, docker, database, setting, ExclusiveInv, AloneInv, ServeInv, Active
  <1>4. QED
    BY <1>1, <1>2, <1>3 DEF Next, Outside

\* While the caller keeps its exclusion it holds.
THEOREM ImageExclusive == Spec => [](~overlapped => ExclusiveInv)
  <1>1. Init => (~overlapped => ExclusiveInv)
    BY DEF Init, ExclusiveInv, AloneInv, ServeInv, Active, Working
  <1>2. TypeInv /\ (~overlapped => ExclusiveInv) /\ [Next]_vars
          => (~overlapped => ExclusiveInv)'
    BY NextExclusiveInv, OverlapStays
  <1>3. ImageInv => TypeInv
    BY DEF ImageInv
  <1>4. QED
    BY <1>1, <1>2, <1>3, ImageInvariant, PTL DEF Spec

\* With the exclusion, no two migrations work on the database at once.
THEOREM ImageOneMigration == Spec => []OneMigration
  <1>1. ImageInv /\ (~overlapped => ExclusiveInv) => OneMigration
    <2> SUFFICES ASSUME ImageInv, ExclusiveInv PROVE Cardinality(migrating) <= 1
      BY DEF OneMigration
    <2>1. CASE migrating = {}
      BY <2>1, FS_EmptySet
    <2>2. CASE migrating # {}
      <3>1. PICK p : migrating = {p}
        BY <2>2 DEF ExclusiveInv
      <3>2. QED
        BY <3>1, FS_Singleton
    <2>3. QED
      BY <2>1, <2>2
  <1>2. QED
    BY <1>1, ImageInvariant, ImageExclusive, PTL

\* With it, a result means every service on the run's release, and the schema.
THEOREM ImageResultServes == Spec => []ResultServes
  <1>1. (~overlapped => ExclusiveInv) => ResultServes
    BY DEF ExclusiveInv, ServeInv, ResultServes
  <1>2. QED
    BY <1>1, ImageExclusive, PTL
=============================================================================
