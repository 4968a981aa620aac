---------------------------- MODULE GuardedHost ----------------------------
(***************************************************************************)
(* Deployments and maintenance runs on one host, whose adapters may be     *)
(* killed at any step and which may go down at any step, on request or     *)
(* not. What was started on it does not survive that; files do.            *)
(***************************************************************************)
EXTENDS GuardedDeploy, GuardedMaintenance

deployment == <<files, docker>>
maintenance == <<before, status, machine>>
vars == <<guards, host, workflow, deployment, maintenance>>

Adapters == {"idle", "dead", "failed", "done", "admit", "compile", "observe",
             "admit-apt", "update", "upgrade", "upgraded",
             "admit-reboot", "request", "record", "hold", "failing"} \cup Commands

Gates == [by : Deploys \cup {"none"}, files : Deploys \cup {"none"}]

Boxes == [state : {"created", "up", "down"}, by : Deploys \cup {"none"},
          files : Deploys \cup {"none"}, gate : Gates]

TypeOK ==
    /\ contract \in {"installed", "waived", "missing"}
    /\ adapter \in [Runs -> Adapters]
    /\ command \in [Runs -> Commands \cup {"update", "upgrade", "none"}]
    /\ fd \in [Runs -> SUBSET {"adapter", "command"}]
    /\ boot \in 1..MaxBoots
    /\ reservation \in 0..boot
    /\ workflow \in [Runs -> {"begin", "ship", "over", "kick", "wait", "decide",
                              "trigger", "poll", "return", "status", "boot",
                              "verify", "green", "skipped", "red"}]
    /\ files \in [Projects -> Deploys \cup {"none"}]
    /\ box \in [Projects -> Boxes]
    /\ override \in [Projects -> Gates]
    /\ migrated \in [Projects -> Deploys \cup {"none"}]
    /\ before \in [Maintenances -> 0..boot]
    /\ exit \in [Maintenances -> {"none", "zero", "error"}]
    /\ marker \in [Maintenances -> SUBSET {"acquired", "requested", "failed"}]
    /\ required \in BOOLEAN
    /\ asked \in [Maintenances -> 0..boot]

Init ==
    /\ contract \in {"installed", "waived", "missing"}
    /\ adapter = [r \in Runs |-> "idle"]
    /\ command = [r \in Runs |-> "none"]
    /\ fd = [r \in Runs |-> {}]
    /\ boot = 1 /\ reservation = 0
    /\ workflow = [r \in Runs |-> "begin"]
    /\ DeployInit /\ MaintenanceInit

\* The host goes down, on a request or by itself, and comes back.
Reboot ==
    /\ boot < MaxBoots
    /\ boot' = boot + 1
    /\ required' = FALSE
    /\ adapter' = [r \in Runs |-> IF adapter[r] \in {"idle", "failed", "done"}
                                  THEN adapter[r] ELSE "dead"]
    /\ command' = [r \in Runs |-> "none"]
    /\ fd' = [r \in Runs |-> {}]
    /\ UNCHANGED <<contract, reservation, workflow, deployment, before, status, asked>>

Next ==
    \/ \E d \in Deploys : DeployNext(d) /\ UNCHANGED maintenance
    \/ \E p \in Projects : BoxChanges(p) /\ UNCHANGED maintenance
    \/ \E m \in Maintenances : MaintenanceNext(m) /\ UNCHANGED deployment
    \/ Reboot

Spec == Init /\ [][Next]_vars

-----------------------------------------------------------------------------
(* Properties *)

\* No two commands of runs in conflict are at work at the same time, whatever
\* became of the adapters that started them: a command inherits its adapter's
\* guard (guarded_deploy.py 42-60, guarded_maintenance.py 35-39). On a host
\* without the contract only maintenance runs, and unguarded.
CommandsExclusive ==
    \A r, q \in Runs :
        Conflict(r, q) /\ command[r] # "none" /\ command[q] # "none"
            => contract = "waived" /\ {r, q} \subseteq Maintenances

\* Under its guard, a deployment that observes its containers observes what it
\* has itself created, started under its own gate and migrated, whatever other
\* deployments of the project, their orphans or a reboot have done meanwhile.
DeploysItsOwn ==
    \A d \in Deploys : adapter[d] \in {"observe", "retire"} =>
        LET p == Project[d]
        IN  /\ box[p].by = d /\ box[p].state # "created"
            /\ box[p].gate.by = d
            /\ d \notin SkipMigrate => migrated[p] = d

\* A reboot is only ever requested when nothing is at work under a guard: no
\* deployment or upgrade that is under way or that a killed adapter left behind.
RequestsAlone ==
    [][asked' # asked /\ contract = "installed"
           => \A r \in Runs : command[r] = "none"]_vars

\* Where the contract is installed, a maintenance run that ends well after a
\* reboot has requested one, and the host has booted since: other boots between
\* the decision and the request do not count (action.yml 294-300).
GreenMeansRebooted ==
    contract = "installed" =>
        \A m \in Maintenances : workflow[m] = "green" => asked[m] \in 1..(boot - 1)

\* "post-reconnect checks must prove the host rebooted" (action.yml 253), also
\* where the inventory needs no contract.
GreenProvesReboot ==
    \A m \in Maintenances : workflow[m] = "green" => asked[m] < boot

\* The gate of running containers has their "existing argv" (guarded_deploy.py
\* 147-148): it was compiled from the files they were started from.
GateFitsFiles ==
    \A p \in Projects : box[p].gate.by # "none" => box[p].gate.files = box[p].files

\* "No reboot required. Finishing maintenance run." (action.yml 207).
SkippedNeedsNone ==
    \A m \in Maintenances : workflow[m] = "skipped" => ~required
=============================================================================
