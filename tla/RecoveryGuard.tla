--------------------------- MODULE RecoveryGuard ---------------------------
(***************************************************************************)
(* One destination host and the library that guards it, stack_recovery,    *)
(* as its callers use it: writer_guard(project) admits one writer of a     *)
(* project, maintenance_guard(operation) one maintenance and no writer.    *)
(* The library is not part of this repository.                             *)
(*                                                                         *)
(* A guard is an open file: it is held by the adapter that opened it and   *)
(* by every command the adapter passes it to, until the last of them ends. *)
(* A reboot under the guard leaves a reservation, which only a later boot  *)
(* resolves.                                                               *)
(***************************************************************************)
EXTENDS Naturals

CONSTANTS
    Deploys,        \* runs of the deploy-app action for this host
    Maintenances,   \* runs of the maintenance action for this host
    Project,        \* the Compose project of a deployment
    MaxBoots        \* bound on `boot`

ASSUME RunsAssumption == Deploys \cap Maintenances = {}
ASSUME BootsAssumption == MaxBoots \in Nat \ {0}

Runs == Deploys \cup Maintenances

VARIABLES
    workflow,       \* where a run is, on the CI runner
    contract,       \* is the library there, and does the inventory ask for it
    adapter,        \* what the adapter of a run does next
    command,        \* the command it has started
    fd,             \* which of the two hold the run's guard
    boot,           \* the host's boot identity
    reservation     \* the boot in which a reboot was reserved, or 0

guards == <<adapter, command, fd>>
host == <<contract, boot, reservation>>

\* Two writers of one project, and maintenance and anything, exclude each other.
Conflict(r, q) ==
    /\ r # q
    /\ \/ r \in Maintenances \/ q \in Maintenances
       \/ Project[r] = Project[q]

Held(r) == fd[r] # {}

\* What a reboot guard reserves.
Reserved == boot

\* Entering the guard: nobody in conflict holds one.
Admit(r) ==
    /\ \A q \in Runs : Conflict(r, q) => ~Held(q)
    /\ fd' = [fd EXCEPT ![r] = {"adapter"}]

\* Leaving it, on the way out or as the adapter dies.
Leave(r) == fd' = [fd EXCEPT ![r] = @ \ {"adapter"}]

\* Wrong variant: the command is started without pass_fds.
StartAlone(r, what) ==
    /\ command[r] = "none"
    /\ command' = [command EXCEPT ![r] = what]
    /\ fd' = fd

\* subprocess.run(argv, pass_fds=(guard.fd,)).
Start(r, what) ==
    /\ command[r] = "none"
    /\ command' = [command EXCEPT ![r] = what]
    /\ fd' = [fd EXCEPT ![r] = @ \cup (IF "adapter" \in @ THEN {"command"} ELSE {})]

\* The command is over, and its descriptor closed.
Ends(r) ==
    /\ command' = [command EXCEPT ![r] = "none"]
    /\ fd' = [fd EXCEPT ![r] = @ \ {"command"}]

\* reconcile_completed_maintenance_reboot: a reservation of an earlier boot.
Reconciled == IF reservation = boot THEN reservation ELSE 0

\* The adapter is killed alone; what it has started goes on without it.
Killed(r) ==
    /\ adapter' = [adapter EXCEPT ![r] = "dead"]
    /\ Leave(r)
    /\ UNCHANGED command
=============================================================================
