---------------------------- MODULE StaticTarget ----------------------------
(***************************************************************************)
(* Runs of `execute_static_deployment` (prebuilt_static_target.py) on one  *)
(* Compose project. A run unpacks its bundle into a tree of its own, lets  *)
(* Compose recreate every service, observes the result and cleans up.      *)
(*                                                                         *)
(* The state outside a run is Docker's and the disk's: which run's `up`    *)
(* made the container of a service, what Docker was asked for and has not  *)
(* done yet, and the trees on disk. A run's tree and temporary directory   *)
(* are named by the run. Any check, command, clock or deadline failure of  *)
(* a step is Fail; the model keeps what is left behind, not the code.      *)
(***************************************************************************)
EXTENDS FiniteSets

CONSTANTS
    Runs,            \* calls of execute_static_deployment
    Services,        \* the Compose services of the project
    StaticService,   \* the service that mounts the unpacked assets
    Other            \* a container no run in Runs has made as reviewed

ASSUME StaticAssumption ==
    /\ StaticService \in Services
    /\ Other \notin Runs
    /\ IsFiniteSet(Services)

VARIABLES
    pc,          \* where each run is
    prepared,    \* the local `assets` names a tree
    retain,      \* the local `retain_assets`
    activated,   \* the local `activated`
    failure,     \* the local `failure`
    seen,        \* services the inspection loop has passed
    trees,       \* runs whose asset tree is on disk
    temps,       \* runs whose private temporary directory is on disk
    made,        \* the run whose release each service's container carries
    fit,         \* services whose container is running and healthy
    pending,     \* services Docker may still recreate for a run's `up`
    controls,    \* the reviewed Compose files
    overlapped   \* a run has begun without the exclusion the caller owes (history)

locals == <<prepared, retain, activated, failure, seen>>
disk == <<trees, temps>>
docker == <<made, fit, pending>>
setting == <<controls, overlapped>>
vars == <<pc, locals, disk, docker, setting>>

-----------------------------------------------------------------------------

Working == {"prepare", "private", "config", "pull", "activate", "up",
            "upping", "ps", "inspect"}

Cleaning == {"cleanTemp", "cleanAssets"}

Failures == {"none", "failed", "cleanup_failed", "asset_cleanup_failed"}

TypeOK ==
    /\ pc \in [Runs -> {"idle", "done", "dead"} \cup Working \cup Cleaning]
    /\ prepared \in [Runs -> BOOLEAN]
    /\ retain \in [Runs -> BOOLEAN]
    /\ activated \in [Runs -> BOOLEAN]
    /\ failure \in [Runs -> Failures]
    /\ seen \in [Runs -> SUBSET Services]
    /\ trees \subseteq Runs /\ temps \subseteq Runs
    /\ made \in [Services -> Runs \cup {Other}]
    /\ fit \subseteq Services
    /\ pending \in [Runs -> SUBSET Services]
    /\ controls \in {"conforming", "nonconforming", "edited"}
    /\ overlapped \in BOOLEAN

\* The hashed controls may still render other mounts than the run generates.
Init ==
    /\ pc = [r \in Runs |-> "idle"]
    /\ prepared = [r \in Runs |-> FALSE]
    /\ retain = [r \in Runs |-> FALSE]
    /\ activated = [r \in Runs |-> FALSE]
    /\ failure = [r \in Runs |-> "none"]
    /\ seen = [r \in Runs |-> {}]
    /\ trees = {} /\ temps = {}
    /\ made = [s \in Services |-> Other]
    /\ fit = Services
    /\ pending = [r \in Runs |-> {}]
    /\ controls \in {"conforming", "nonconforming"}
    /\ overlapped = FALSE

Goto(r, label) == pc' = [pc EXCEPT ![r] = label]

\* _check_snapshots, before and after every command.
SnapshotsHold == controls # "edited"

\* The exclusion the caller owes: no other run is active, and Docker has
\* nothing left to do for one that was cut short.
Excluded(r) ==
    \A q \in Runs \ {r} : pc[q] \in {"idle", "done", "dead"} /\ pending[q] = {}

-----------------------------------------------------------------------------
(* The run *)

\* Specification, manifest, bundle, deadline and control hashes are valid.
Begin(r) ==
    /\ pc[r] = "idle"
    /\ SnapshotsHold
    /\ Goto(r, "prepare")
    /\ overlapped' = (overlapped \/ ~Excluded(r))
    /\ UNCHANGED <<locals, disk, docker, controls>>

\* Or they are not: the run raises before it has made anything.
Reject(r) ==
    /\ pc[r] = "idle"
    /\ Goto(r, "done")
    /\ failure' = [failure EXCEPT ![r] = "failed"]
    /\ UNCHANGED <<prepared, retain, activated, seen, disk, docker, setting>>

\* prepare_static_assets returns a new tree.
Prepare(r) ==
    /\ pc[r] = "prepare"
    /\ Goto(r, "private")
    /\ prepared' = [prepared EXCEPT ![r] = TRUE]
    /\ trees' = trees \cup {r}
    /\ UNCHANGED <<retain, activated, failure, seen, temps, docker, setting>>

\* It raises. It removes what it made, unless that fails too: then its own
\* asset_cleanup_failed becomes static_assets_invalid, and `assets` stays None.
PrepareFails(r) ==
    /\ pc[r] = "prepare"
    /\ Goto(r, "cleanTemp")
    /\ failure' = [failure EXCEPT ![r] = "failed"]
    /\ \E left \in SUBSET {r} : trees' = trees \cup left
    /\ UNCHANGED <<prepared, retain, activated, seen, temps, docker, setting>>

\* The temporary directory with override, auth map and interpolation input.
MakePrivate(r) ==
    /\ pc[r] = "private"
    /\ Goto(r, "config")
    /\ temps' = temps \cup {r}
    /\ UNCHANGED <<locals, trees, docker, setting>>

\* Wrong variant: what Compose rendered is not compared with the release.
ConfigUnchecked(r) ==
    /\ pc[r] = "config" /\ SnapshotsHold
    /\ Goto(r, "pull")
    /\ UNCHANGED <<locals, disk, docker, setting>>

\* The rendered services, images and mounts are exactly the expected ones.
Config(r) ==
    /\ pc[r] = "config" /\ SnapshotsHold
    /\ controls = "conforming"
    /\ Goto(r, "pull")
    /\ UNCHANGED <<locals, disk, docker, setting>>

Pull(r) ==
    /\ pc[r] = "pull" /\ SnapshotsHold
    /\ Goto(r, "activate")
    /\ UNCHANGED <<locals, disk, docker, setting>>

\* Wrong variant: `activated` is left to be set once `up` has succeeded.
ActivateLater(r) ==
    /\ pc[r] = "activate"
    /\ Goto(r, "up")
    /\ UNCHANGED <<locals, disk, docker, setting>>

\* `activated` is set before the `up` command is even attempted.
Activate(r) ==
    /\ pc[r] = "activate"
    /\ Goto(r, "up")
    /\ activated' = [activated EXCEPT ![r] = TRUE]
    /\ UNCHANGED <<prepared, retain, failure, seen, disk, docker, setting>>

StartUp(r) ==
    /\ pc[r] = "up" /\ SnapshotsHold
    /\ Goto(r, "upping")
    /\ pending' = [pending EXCEPT ![r] = Services]
    /\ UNCHANGED <<locals, disk, made, fit, setting>>

\* `up` exits with status zero, every service recreated, the controls unchanged.
UpDone(r) ==
    /\ pc[r] = "upping" /\ pending[r] = {} /\ SnapshotsHold
    /\ Goto(r, "ps")
    /\ UNCHANGED <<locals, disk, docker, setting>>

\* _decode_ps: one running container for every service.
Ps(r) ==
    /\ pc[r] = "ps" /\ SnapshotsHold
    /\ fit = Services
    /\ Goto(r, "inspect")
    /\ UNCHANGED <<locals, disk, docker, setting>>

\* One container: pinned image, project, service, running and healthy. The
\* mounts are not looked at again.
Inspect(r, s) ==
    /\ pc[r] = "inspect" /\ SnapshotsHold
    /\ s \in fit \ seen[r]
    /\ seen' = [seen EXCEPT ![r] = @ \cup {s}]
    /\ UNCHANGED <<pc, prepared, retain, activated, failure, disk, docker, setting>>

\* Wrong variant: the result is built as soon as one service was inspected.
ReturnEarly(r) ==
    /\ pc[r] = "inspect" /\ seen[r] # {}
    /\ Goto(r, "cleanTemp")
    /\ retain' = [retain EXCEPT ![r] = TRUE]
    /\ UNCHANGED <<prepared, activated, failure, seen, disk, docker, setting>>

\* Every service inspected: the result is built and retain_assets is set.
Return(r) ==
    /\ pc[r] = "inspect" /\ seen[r] = Services
    /\ Goto(r, "cleanTemp")
    /\ retain' = [retain EXCEPT ![r] = TRUE]
    /\ UNCHANGED <<prepared, activated, failure, seen, disk, docker, setting>>

\* A check, a command, the clock or the deadline fails, or the run is
\* interrupted, after preparation. A failing `up` is killed or has ended, but
\* Docker may still finish what it was asked for.
Fail(r) ==
    /\ pc[r] \in Working \ {"prepare"}
    /\ Goto(r, "cleanTemp")
    /\ failure' = [failure EXCEPT ![r] = "failed"]
    /\ UNCHANGED <<prepared, retain, activated, seen, disk, docker, setting>>

\* Wrong variant: a failing removal is ignored.
CleanTempQuietly(r) ==
    /\ pc[r] = "cleanTemp"
    /\ Goto(r, "cleanAssets")
    /\ temps' \in {temps, temps \ {r}}
    /\ UNCHANGED <<locals, trees, docker, setting>>

\* The temporary directory is removed, or the run fails with cleanup_failed,
\* whatever it had come to before.
CleanTemp(r) ==
    /\ pc[r] = "cleanTemp"
    /\ Goto(r, "cleanAssets")
    /\ \/ /\ temps' = temps \ {r}
          /\ UNCHANGED failure
       \/ /\ r \in temps
          /\ failure' = [failure EXCEPT ![r] = "cleanup_failed"]
          /\ UNCHANGED temps
    /\ UNCHANGED <<prepared, retain, activated, seen, trees, docker, setting>>

\* Only a tree that no container can mount is removed.
Disposable(r) == prepared[r] /\ ~retain[r] /\ ~activated[r]

\* Removal by rmtree, which may fail half-way: the tree then counts as left.
CleanAssets(r) ==
    /\ pc[r] = "cleanAssets"
    /\ Goto(r, "done")
    /\ \/ /\ trees' = IF Disposable(r) THEN trees \ {r} ELSE trees
          /\ UNCHANGED failure
       \/ /\ Disposable(r)
          /\ failure' = [failure EXCEPT ![r] = "asset_cleanup_failed"]
          /\ UNCHANGED trees
    /\ UNCHANGED <<prepared, retain, activated, seen, temps, docker, setting>>

\* Wrong variant: the path is exposed only by a run that reached its result.
HandleOfSuccess(r) == retain[r]

\* The retained_asset_directory the raised error carries.
Handle(r) == activated[r] /\ prepared[r]

-----------------------------------------------------------------------------
(* Docker, the host and the application *)

\* Docker recreates one service: as the run rendered it, or, when the files
\* have changed since, as something else.
Recreate(r, s) ==
    /\ s \in pending[r]
    /\ pending' = [pending EXCEPT ![r] = @ \ {s}]
    /\ \/ made' = [made EXCEPT ![s] = r]
       \/ controls # "conforming" /\ made' = [made EXCEPT ![s] = Other]
    /\ fit' \in {fit \cup {s}, fit \ {s}}
    /\ UNCHANGED <<pc, locals, disk, setting>>

\* The `up` of a run that no longer waits for it comes to its end.
UpAbandoned(r) ==
    /\ pc[r] # "upping" /\ pending[r] # {}
    /\ pending' = [pending EXCEPT ![r] = {}]
    /\ UNCHANGED <<pc, locals, disk, made, fit, setting>>

\* A container becomes healthy, stops or turns unhealthy.
Flip(s) ==
    /\ fit' = IF s \in fit THEN fit \ {s} ELSE fit \cup {s}
    /\ UNCHANGED <<pc, locals, disk, made, pending, setting>>

\* Somebody replaces a reviewed file.
Edit ==
    /\ controls # "edited"
    /\ controls' = "edited"
    /\ UNCHANGED <<pc, locals, disk, docker, overlapped>>

\* The target process is killed: no cleanup is run.
Kill(r) ==
    /\ pc[r] \in Working \cup Cleaning
    /\ Goto(r, "dead")
    /\ UNCHANGED <<locals, disk, docker, setting>>

-----------------------------------------------------------------------------

Step(r) ==
    \/ Prepare(r) \/ PrepareFails(r) \/ MakePrivate(r) \/ Config(r) \/ Pull(r)
    \/ Activate(r) \/ StartUp(r) \/ UpDone(r) \/ Ps(r)
    \/ \E s \in Services : Inspect(r, s)
    \/ Return(r) \/ Fail(r) \/ CleanTemp(r) \/ CleanAssets(r)

Next ==
    \/ \E r \in Runs :
        \/ Begin(r) \/ Reject(r) \/ Step(r) \/ UpAbandoned(r) \/ Kill(r)
        \/ \E s \in Services : Recreate(r, s)
    \/ \E s \in Services : Flip(s)
    \/ Edit

\* Every command has a timeout and the deadline ends the run, so it never
\* stays at a step: at the latest the step fails.
Spec == Init /\ [][Next]_vars /\ \A r \in Runs : WF_vars(Step(r))

-----------------------------------------------------------------------------
(* Properties *)

\* No asset tree disappears under a container: the tree of the run that made
\* the static service's container, or that Docker may still make it from, is
\* on disk, even when `up` was killed, failed half-way or the run is dead.
MountsLive ==
    \A r \in Runs :
        made[StaticService] = r \/ StaticService \in pending[r] => r \in trees

\* What a finished run left behind and nobody is meant to keep is reported: its
\* temporary directory, and the tree of a run whose preparation succeeded and
\* which has asked Docker for nothing. The tree of a preparation that failed is
\* not among it: see FailedPreparationKeepsNothing.
CleanupReported ==
    \A r \in Runs : pc[r] = "done" =>
        /\ r \in temps => failure[r] \in {"cleanup_failed", "asset_cleanup_failed"}
        /\ r \in trees /\ prepared[r] /\ ~activated[r] =>
             failure[r] = "asset_cleanup_failed"

\* A run that fails with its tree in use tells the caller where the tree is,
\* so that a recovery decision can find it.
RecoveryHandle ==
    \A r \in Runs :
        pc[r] = "done" /\ failure[r] # "none"
            /\ (made[StaticService] = r \/ StaticService \in pending[r])
        => Handle(r) /\ r \in trees

\* As long as one deployment runs at a time, a run that has its result left every service
\* with a container made from its own release: no service was missed, rendered
\* from edited files, or made by the late `up` of another run.
ResultServes ==
    ~overlapped => \A r \in Runs :
        pc[r] \in Cleaning /\ retain[r] => \A s \in Services : made[s] = r

\* When a preparation has failed its tree is gone: "On failure no created
\* filesystem path is retained" (prepare_static_assets). The code does not keep
\* this: the tree stays when its removal fails, and the run then ends with
\* static_assets_invalid, which says nothing of it.
FailedPreparationKeepsNothing ==
    \A r \in Runs : pc[r] = "done" /\ ~prepared[r] => r \notin trees

\* The run as the abstract specification sees it.
Phase(r) ==
    CASE pc[r] = "dead" -> "killed"
      [] pc[r] = "done" /\ failure[r] = "none" -> "succeeded"
      [] pc[r] = "done" /\ failure[r] # "none" -> "failed"
      [] pc[r] = "idle" -> "idle"
      [] OTHER -> "working"

Effect(r) ==
    CASE ~activated[r] -> "none"
      [] activated[r] /\ seen[r] = Services -> "verified"
      [] OTHER -> "maybe"

E == INSTANCE Executor WITH
        phase <- [r \in Runs |-> Phase(r)],
        effect <- [r \in Runs |-> Effect(r)]

\* Every run keeps the promise of an SDK, its one report included.
ImplementsExecutor == E!Spec
=============================================================================
