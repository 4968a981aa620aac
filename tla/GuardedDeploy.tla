--------------------------- MODULE GuardedDeploy ---------------------------
(***************************************************************************)
(* A deployment by the deploy-app action: the project's files go to the    *)
(* host first, then guarded_deploy.py, which runs its Docker commands      *)
(* under the guard of the project.                                         *)
(*                                                                         *)
(* Validation of the environment, the Docker probe and every observation   *)
(* of Docker fail as one action, DeployFails. Which images are retired is  *)
(* left out: Docker refuses the ones a container uses.                     *)
(***************************************************************************)
EXTENDS RecoveryGuard

CONSTANT SkipMigrate    \* deployments with SKIP_MIGRATE

VARIABLES
    files,      \* whose Compose file and .env a project has on the host
    box,        \* a project's containers
    override,   \* its .webapp-recovery-compose.json
    migrated    \* the deployment whose migrations its database has

docker == <<box, override, migrated>>

Projects == {Project[d] : d \in Deploys}

\* A startup gate: who compiled it, and from whose files its argv is.
NoGate == [by |-> "none", files |-> "none"]

\* Containers of an earlier life run on each project.
DeployInit ==
    /\ files = [p \in Projects |-> "none"]
    /\ box = [p \in Projects |->
                [state |-> "up", by |-> "none", files |-> "none", gate |-> NoGate]]
    /\ override = [p \in Projects |-> NoGate]
    /\ migrated = [p \in Projects |-> "none"]

\* The commands that matter, in their order: image prune, build or pull;
\* compose create; compose up; migrate; image rm. Between create and up the
\* override is compiled, and before the images go the containers are observed.
Commands == {"fetch", "create", "up", "migrate", "retire"}

After(d, s) ==
    CASE s = "fetch" -> "create"
      [] s = "create" -> "compile"
      [] s = "up" -> IF d \in SkipMigrate THEN "observe" ELSE "migrate"
      [] s = "migrate" -> "observe"
      [] s = "retire" -> "retire"

To(r, s) == adapter' = [adapter EXCEPT ![r] = s]

-----------------------------------------------------------------------------

\* rsync and the transfer of .env, before the host knows of a deployment.
TransferFiles(d) ==
    /\ workflow[d] = "begin"
    /\ workflow' = [workflow EXCEPT ![d] = "ship"]
    /\ files' = [files EXCEPT ![Project[d]] = d]
    /\ UNCHANGED <<guards, host, docker>>

\* The adapter starts, and cannot do without the library. Nothing later on the
\* runner matters to the host: a lost connection leaves the adapter running.
BeginDeploy(d) ==
    /\ workflow[d] = "ship"
    /\ workflow' = [workflow EXCEPT ![d] = "over"]
    /\ To(d, IF contract = "installed" THEN "admit" ELSE "failed")
    /\ UNCHANGED <<command, fd, host, files, docker>>

AdmitWriter(d) ==
    /\ adapter[d] = "admit"
    /\ Admit(d)
    /\ To(d, "fetch")
    /\ UNCHANGED <<command, host, workflow, files, docker>>

DeployCommand(d) ==
    /\ adapter[d] \in Commands
    /\ Start(d, adapter[d])
    /\ UNCHANGED <<adapter, host, workflow, files, docker>>

\* What a command does to the project. Compose reads the files that are there.
Effect(p, d, s) ==
    /\ box' = CASE s = "create" ->
                    [box EXCEPT ![p] = [state |-> "created", by |-> d,
                                        files |-> files[p], gate |-> NoGate]]
                [] s = "up" ->
                    [box EXCEPT ![p] = [state |-> "up", by |-> d,
                                        files |-> files[p], gate |-> override[p]]]
                [] OTHER -> box
    /\ migrated' = IF s = "migrate" /\ box[p].state = "up"
                   THEN [migrated EXCEPT ![p] = box[p].by] ELSE migrated

\* The command succeeds; the adapter goes on, if it is still there.
CommandEnds(d) ==
    /\ command[d] # "none"
    /\ command[d] = "migrate" => box[Project[d]].state = "up"
    /\ Effect(Project[d], d, command[d])
    /\ Ends(d)
    /\ adapter' = IF adapter[d] = command[d]
                  THEN [adapter EXCEPT ![d] = After(d, command[d])] ELSE adapter
    /\ UNCHANGED <<host, workflow, files, override>>

\* Wrong variant: a failed command is no reason to stop.
CommandFailsUnchecked(d) ==
    /\ command[d] # "none"
    /\ \/ Effect(Project[d], d, command[d])
       \/ UNCHANGED <<box, migrated>>
    /\ Ends(d)
    /\ adapter' = IF adapter[d] = command[d]
                  THEN [adapter EXCEPT ![d] = After(d, command[d])] ELSE adapter
    /\ UNCHANGED <<host, workflow, files, override>>

\* check=True: a command that fails, its work done or not, ends the adapter.
\* An image that cannot be removed does not.
CommandFails(d) ==
    /\ command[d] # "none"
    /\ \/ Effect(Project[d], d, command[d])
       \/ UNCHANGED <<box, migrated>>
    /\ command' = [command EXCEPT ![d] = "none"]
    /\ IF adapter[d] = command[d] /\ command[d] # "retire"
       THEN /\ To(d, "failed")
            /\ fd' = [fd EXCEPT ![d] = {}]
       ELSE /\ fd' = [fd EXCEPT ![d] = @ \ {"command"}]
            /\ UNCHANGED adapter
    /\ UNCHANGED <<host, workflow, files, override>>

\* The created containers are inspected and their argv compiled into the gate;
\* the file is replaced in one step.
CompileGate(d) ==
    /\ adapter[d] = "compile"
    /\ override' = [override EXCEPT ![Project[d]] =
                        [by |-> d, files |-> box[Project[d]].files]]
    /\ To(d, "up")
    /\ UNCHANGED <<command, fd, host, workflow, files, box, migrated>>

\* Every container that should run does.
Observe(d) ==
    /\ adapter[d] = "observe" /\ box[Project[d]].state = "up"
    /\ To(d, "retire")
    /\ UNCHANGED <<command, fd, host, workflow, files, docker>>

FinishDeploy(d) ==
    /\ adapter[d] = "retire" /\ command[d] = "none"
    /\ To(d, "done")
    /\ Leave(d)
    /\ UNCHANGED <<command, host, workflow, files, docker>>

\* Refused admission, a Docker that does not answer or a bad observation.
DeployFails(d) ==
    /\ adapter[d] \in {"admit", "fetch", "create", "compile", "up", "migrate", "observe", "retire"}
    /\ command[d] = "none"
    /\ To(d, "failed")
    /\ Leave(d)
    /\ UNCHANGED <<command, host, workflow, files, docker>>

DeployKilled(d) ==
    /\ adapter[d] \in {"admit", "compile", "observe"} \cup Commands
    /\ Killed(d)
    /\ UNCHANGED <<host, workflow, files, docker>>

\* The application stops, or Docker has it up again.
BoxChanges(p) ==
    /\ \/ box[p].state = "up" /\ box' = [box EXCEPT ![p].state = "down"]
       \/ box[p].state = "down" /\ box' = [box EXCEPT ![p].state = "up"]
    /\ UNCHANGED <<guards, host, workflow, files, override, migrated>>

DeployNext(d) ==
    \/ TransferFiles(d) \/ BeginDeploy(d) \/ AdmitWriter(d)
    \/ DeployCommand(d) \/ CommandEnds(d) \/ CommandFails(d)
    \/ CompileGate(d) \/ Observe(d) \/ FinishDeploy(d)
    \/ DeployFails(d) \/ DeployKilled(d)
=============================================================================
