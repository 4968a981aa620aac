---------------------------- MODULE ImageTarget -----------------------------
(***************************************************************************)
(* Runs of `execute_image_deployment` (prebuilt_target.py) on one Compose  *)
(* project: every service is recreated from the release's image, the fixed *)
(* migration is run inside a container of it, and the result is observed.  *)
(*                                                                         *)
(* A run is named by the release it deploys, so `made` also is the image   *)
(* the inspection compares, except of a sidecar, whose pinned image may be *)
(* the same in every release. Killing the `exec` client leaves the         *)
(* migration running in its container until that container is replaced. As *)
(* in StaticTarget, every failing check of a step is Fail.                 *)
(***************************************************************************)
EXTENDS FiniteSets, Naturals

CONSTANTS
    Runs,             \* calls of execute_image_deployment
    Services,         \* the Compose services of the project
    Sidecars,         \* the ones that do not run the release's image
    MigrateService,   \* the service the migration runs in, or None
    None,
    Other             \* a release that is none of Runs

ASSUME ImageAssumption ==
    /\ Sidecars \subseteq Services /\ Sidecars # Services
    /\ None \notin Services
    /\ MigrateService \in (Services \ Sidecars) \cup {None}
    /\ Other \notin Runs
    /\ IsFiniteSet(Services) /\ IsFiniteSet(Runs)

VARIABLES
    pc,          \* where each run is
    failure,     \* the local `failure`
    seen,        \* services the inspection loop has passed
    temps,       \* runs whose override directory is on disk
    asked,       \* runs whose `up` was started (history)
    made,        \* the release each service's container runs
    fit,         \* services whose container is running and healthy
    pending,     \* services Docker may still recreate for a run's `up`
    migrating,   \* runs whose migration process is alive
    schema,      \* the release whose migrations were completed last
    controls,    \* the reviewed Compose files
    overlapped   \* a run has begun without the exclusion the caller owes (history)

locals == <<failure, seen, temps, asked>>
docker == <<made, fit, pending>>
database == <<migrating, schema>>
setting == <<controls, overlapped>>
vars == <<pc, locals, docker, database, setting>>

-----------------------------------------------------------------------------

Working == {"prepare", "config", "pull", "up", "upping", "migrate",
            "migrating", "ps", "inspect"}

TypeOK ==
    /\ pc \in [Runs -> {"idle", "returning", "failing", "done", "dead"} \cup Working]
    /\ failure \in [Runs -> {"none", "failed", "cleanup_failed"}]
    /\ seen \in [Runs -> SUBSET Services]
    /\ temps \subseteq Runs /\ asked \subseteq Runs
    /\ made \in [Services -> Runs \cup {Other}]
    /\ fit \subseteq Services
    /\ pending \in [Runs -> SUBSET Services]
    /\ migrating \subseteq Runs
    /\ schema \in Runs \cup {Other}
    /\ controls \in {"conforming", "nonconforming", "edited"}
    /\ overlapped \in BOOLEAN

Init ==
    /\ pc = [r \in Runs |-> "idle"]
    /\ failure = [r \in Runs |-> "none"]
    /\ seen = [r \in Runs |-> {}]
    /\ temps = {} /\ asked = {}
    /\ made = [s \in Services |-> Other]
    /\ fit = Services
    /\ pending = [r \in Runs |-> {}]
    /\ migrating = {} /\ schema = Other
    /\ controls \in {"conforming", "nonconforming"}
    /\ overlapped = FALSE

Goto(r, label) == pc' = [pc EXCEPT ![r] = label]

\* _check_snapshots, before and after every command.
SnapshotsHold == controls # "edited"

\* The exclusion the caller owes: no other run is active and no `up` of one is
\* still being carried out. It knows nothing of migrations left behind.
Excluded(r) ==
    \A q \in Runs \ {r} : pc[q] \in {"idle", "done", "dead"} /\ pending[q] = {}

-----------------------------------------------------------------------------
(* The run *)

\* Target, manifest, inputs and the registry's digest are valid.
Begin(r) ==
    /\ pc[r] = "idle"
    /\ SnapshotsHold
    /\ Goto(r, "prepare")
    /\ overlapped' = (overlapped \/ ~Excluded(r))
    /\ UNCHANGED <<locals, docker, database, controls>>

\* Or they are not: the run raises before it has made anything.
Reject(r) ==
    /\ pc[r] = "idle"
    /\ Goto(r, "done")
    /\ failure' = [failure EXCEPT ![r] = "failed"]
    /\ UNCHANGED <<seen, temps, asked, docker, database, setting>>

\* The private directory with the override.
Prepare(r) ==
    /\ pc[r] = "prepare"
    /\ Goto(r, "config")
    /\ temps' = temps \cup {r}
    /\ UNCHANGED <<failure, seen, asked, docker, database, setting>>

\* The rendered services and images are exactly the expected ones.
Config(r) ==
    /\ pc[r] = "config" /\ SnapshotsHold
    /\ controls = "conforming"
    /\ Goto(r, "pull")
    /\ UNCHANGED <<locals, docker, database, setting>>

Pull(r) ==
    /\ pc[r] = "pull" /\ SnapshotsHold
    /\ Goto(r, "up")
    /\ UNCHANGED <<locals, docker, database, setting>>

\* Wrong variant: `up` without --force-recreate keeps containers that match.
StartUpAsNeeded(r) ==
    /\ pc[r] = "up" /\ SnapshotsHold
    /\ Goto(r, "upping")
    /\ asked' = asked \cup {r}
    /\ \E some \in SUBSET Services : pending' = [pending EXCEPT ![r] = some]
    /\ UNCHANGED <<failure, seen, temps, made, fit, database, setting>>

\* `up --force-recreate`: every container is replaced.
StartUp(r) ==
    /\ pc[r] = "up" /\ SnapshotsHold
    /\ Goto(r, "upping")
    /\ asked' = asked \cup {r}
    /\ pending' = [pending EXCEPT ![r] = Services]
    /\ UNCHANGED <<failure, seen, temps, made, fit, database, setting>>

UpDone(r) ==
    /\ pc[r] = "upping" /\ pending[r] = {} /\ SnapshotsHold
    /\ Goto(r, IF MigrateService = None THEN "ps" ELSE "migrate")
    /\ UNCHANGED <<locals, docker, database, setting>>

\* `exec` starts the migration in the service's present container.
StartMigration(r) ==
    /\ pc[r] = "migrate" /\ SnapshotsHold
    /\ Goto(r, "migrating")
    /\ migrating' = migrating \cup {r}
    /\ UNCHANGED <<locals, docker, schema, setting>>

\* Wrong variant: `exec` is over when its client is, whatever its status.
MigrationOver(r) ==
    /\ pc[r] = "migrating" /\ SnapshotsHold
    /\ Goto(r, "ps")
    /\ migrating' = migrating \ {r}
    /\ schema' \in {schema, made[MigrateService]}
    /\ UNCHANGED <<locals, docker, setting>>

\* It exits with status zero: the container's release is migrated to.
MigrationDone(r) ==
    /\ pc[r] = "migrating" /\ r \in migrating /\ SnapshotsHold
    /\ Goto(r, "ps")
    /\ migrating' = migrating \ {r}
    /\ schema' = made[MigrateService]
    /\ UNCHANGED <<locals, docker, setting>>

\* _decode_ps: one running container for every service.
Ps(r) ==
    /\ pc[r] = "ps" /\ SnapshotsHold
    /\ fit = Services
    /\ Goto(r, "inspect")
    /\ UNCHANGED <<locals, docker, database, setting>>

\* One container: the pinned image, project, service, running and healthy.
Inspect(r, s) ==
    /\ pc[r] = "inspect" /\ SnapshotsHold
    /\ s \in fit \ seen[r]
    /\ s \in Sidecars \/ made[s] = r
    /\ seen' = [seen EXCEPT ![r] = @ \cup {s}]
    /\ UNCHANGED <<pc, failure, temps, asked, docker, database, setting>>

\* Wrong variant: the result is built as soon as one service was inspected.
ReturnEarly(r) ==
    /\ pc[r] = "inspect" /\ seen[r] # {}
    /\ Goto(r, "returning")
    /\ UNCHANGED <<locals, docker, database, setting>>

\* Every service inspected: the result is built.
Return(r) ==
    /\ pc[r] = "inspect" /\ seen[r] = Services
    /\ Goto(r, "returning")
    /\ UNCHANGED <<locals, docker, database, setting>>

\* A check, a command, the clock or the deadline fails, or the run is
\* interrupted. Neither `up` nor the migration is undone, and a migration
\* whose client was killed goes on.
Fail(r) ==
    /\ pc[r] \in Working
    /\ Goto(r, "failing")
    /\ failure' = [failure EXCEPT ![r] = "failed"]
    /\ UNCHANGED <<seen, temps, asked, docker, database, setting>>

\* The override directory is removed, or the run fails with the error of its
\* cleanup, whatever it had come to before.
Clean(r) ==
    /\ pc[r] \in {"returning", "failing"}
    /\ Goto(r, "done")
    /\ \/ /\ temps' = temps \ {r}
          /\ UNCHANGED failure
       \/ /\ r \in temps
          /\ failure' = [failure EXCEPT ![r] = "cleanup_failed"]
          /\ UNCHANGED temps
    /\ UNCHANGED <<seen, asked, docker, database, setting>>

-----------------------------------------------------------------------------
(* Docker, the migration process, the host and the application *)

\* Docker replaces one container, and with it whatever ran inside.
Recreate(r, s) ==
    /\ s \in pending[r]
    /\ pending' = [pending EXCEPT ![r] = @ \ {s}]
    /\ \/ made' = [made EXCEPT ![s] = r]
       \/ controls # "conforming" /\ made' = [made EXCEPT ![s] = Other]
    /\ fit' \in {fit \cup {s}, fit \ {s}}
    /\ migrating' = IF s = MigrateService THEN {} ELSE migrating
    /\ UNCHANGED <<pc, locals, schema, setting>>

\* The `up` of a run that no longer waits for it comes to its end.
UpAbandoned(r) ==
    /\ pc[r] # "upping" /\ pending[r] # {}
    /\ pending' = [pending EXCEPT ![r] = {}]
    /\ UNCHANGED <<pc, locals, made, fit, database, setting>>

\* A migration ends with nobody waiting for it, or fails while the run waits.
MigrationEnds(r) ==
    /\ r \in migrating
    /\ migrating' = migrating \ {r}
    /\ \/ UNCHANGED schema
       \/ pc[r] # "migrating" /\ schema' = made[MigrateService]
    /\ UNCHANGED <<pc, locals, docker, setting>>

\* A container becomes healthy, stops or turns unhealthy.
Flip(s) ==
    /\ fit' = IF s \in fit THEN fit \ {s} ELSE fit \cup {s}
    /\ UNCHANGED <<pc, locals, made, pending, database, setting>>

\* Somebody replaces a reviewed file.
Edit ==
    /\ controls # "edited"
    /\ controls' = "edited"
    /\ UNCHANGED <<pc, locals, docker, database, overlapped>>

\* The target process is killed: no cleanup is run.
Kill(r) ==
    /\ pc[r] \in Working \cup {"returning", "failing"}
    /\ Goto(r, "dead")
    /\ UNCHANGED <<locals, docker, database, setting>>

-----------------------------------------------------------------------------

Step(r) ==
    \/ Prepare(r) \/ Config(r) \/ Pull(r) \/ StartUp(r) \/ UpDone(r)
    \/ StartMigration(r) \/ MigrationDone(r) \/ Ps(r)
    \/ \E s \in Services : Inspect(r, s)
    \/ Return(r) \/ Fail(r) \/ Clean(r)

Next ==
    \/ \E r \in Runs :
        \/ Begin(r) \/ Reject(r) \/ Step(r)
        \/ UpAbandoned(r) \/ MigrationEnds(r) \/ Kill(r)
        \/ \E s \in Services : Recreate(r, s)
    \/ \E s \in Services : Flip(s)
    \/ Edit

\* Every command has a timeout and the deadline ends the run, so it never
\* stays at a step: at the latest the step fails.
Spec == Init /\ [][Next]_vars /\ \A r \in Runs : WF_vars(Step(r))

-----------------------------------------------------------------------------
(* Properties *)

\* As long as one deployment runs at a time, never do two migrations work on the database
\* at once, although a failed run may leave its own behind: the next `up`
\* replaces the container it runs in before the next migration starts.
OneMigration == ~overlapped => Cardinality(migrating) <= 1

\* As long as one deployment runs at a time, a run that has its result left every service
\* on its release, and the schema on it too: a migration left behind by an
\* earlier run cannot finish in between.
ResultServes ==
    ~overlapped => \A r \in Runs :
        pc[r] = "returning" =>
            /\ \A s \in Services : made[s] = r
            /\ MigrateService # None => schema = r

\* What a finished run left behind is reported, even by a run that succeeded.
CleanupReported ==
    \A r \in Runs : pc[r] = "done" /\ r \in temps => failure[r] = "cleanup_failed"

\* The run as the abstract specification sees it.
Phase(r) ==
    CASE pc[r] = "dead" -> "killed"
      [] pc[r] = "done" /\ failure[r] = "none" -> "succeeded"
      [] pc[r] = "done" /\ failure[r] # "none" -> "failed"
      [] pc[r] = "idle" -> "idle"
      [] OTHER -> "working"

Effect(r) ==
    CASE r \notin asked -> "none"
      [] r \in asked /\ seen[r] = Services -> "verified"
      [] OTHER -> "maybe"

E == INSTANCE Executor WITH
        phase <- [r \in Runs |-> Phase(r)],
        effect <- [r \in Runs |-> Effect(r)]

\* Every run keeps the promise of an SDK, its one report included.
ImplementsExecutor == E!Spec
=============================================================================
