------------------------- MODULE GuardedMaintenance -------------------------
(***************************************************************************)
(* The maintenance action (its steps on the CI runner) and                 *)
(* guarded_maintenance.py, which it starts detached on the host: once for  *)
(* the upgrade, once for the reboot. The two meet in files of a directory  *)
(* of the run, which outlives a reboot.                                    *)
(*                                                                         *)
(* The reboot guard reserves the boot it is in (external).                 *)
(***************************************************************************)
EXTENDS RecoveryGuard

VARIABLES
    before,     \* BOOT_ID_BEFORE, 0 until it is read
    exit,       \* the exit code the detached upgrade left behind
    marker,     \* the markers of the reboot
    required,   \* /var/run/reboot-required
    asked       \* history: the boot in which the run's reboot was accepted, or 0

status == <<exit, marker>>
machine == <<required, asked>>

MaintenanceInit ==
    /\ before = [m \in Maintenances |-> 0]
    /\ exit = [m \in Maintenances |-> "none"]
    /\ marker = [m \in Maintenances |-> {}]
    /\ required \in BOOLEAN
    /\ asked = [m \in Maintenances |-> 0]

Step(m, from, to) ==
    /\ workflow[m] = from
    /\ workflow' = [workflow EXCEPT ![m] = to]

Adapts(m, s) == adapter' = [adapter EXCEPT ![m] = s]

Mark(m, what) == marker' = [marker EXCEPT ![m] = @ \cup {what}]

-----------------------------------------------------------------------------
(* The action, on the runner *)

\* The adapter is copied; apply_updates decides what comes next.
Ship(m) ==
    /\ \E next \in {"kick", "decide"} : Step(m, "begin", next)
    /\ UNCHANGED <<guards, host, before, status, machine>>

\* The upgrade is started, detached. The connection may be lost after that.
Kick(m) ==
    /\ \E next \in {"wait", "red"} : Step(m, "kick", next)
    /\ Adapts(m, "admit-apt")
    /\ UNCHANGED <<command, fd, host, before, status, machine>>

\* One of the polls finds the upgrade done.
Upgraded(m) ==
    /\ exit[m] # "none"
    /\ Step(m, "wait", IF exit[m] = "zero" THEN "decide" ELSE "red")
    /\ UNCHANGED <<guards, host, before, status, machine>>

\* A reboot is forced or asked for by a package. The boot identity is read.
Decide(m) ==
    /\ Step(m, "decide", "trigger")
    /\ before' = [before EXCEPT ![m] = boot]
    /\ UNCHANGED <<guards, host, status, machine>>

\* The file is not there, or the question did not get through.
Skip(m) ==
    /\ Step(m, "decide", "skipped")
    /\ UNCHANGED <<guards, host, before, status, machine>>

\* The markers are cleared and the reboot is started, detached.
Trigger(m) ==
    /\ \E next \in {"poll", "red"} : Step(m, "trigger", next)
    /\ marker' = [marker EXCEPT ![m] = {}]
    /\ Adapts(m, "admit-reboot")
    /\ UNCHANGED <<command, fd, host, before, exit, machine>>

\* A poll reads the markers. A lost connection may be the reboot itself.
Poll(m) ==
    /\ \/ /\ "failed" \in marker[m]
          /\ Step(m, "poll", "red")
       \/ /\ "failed" \notin marker[m] /\ "requested" \in marker[m]
          /\ Step(m, "poll", "return")
       \/ Step(m, "poll", "return")
    /\ UNCHANGED <<guards, host, before, status, machine>>

\* The host answers (again).
Return(m) ==
    /\ Step(m, "return", "status")
    /\ UNCHANGED <<guards, host, before, status, machine>>

\* Post-check 1: the request is on record, and no failure.
CheckStatus(m) ==
    /\ Step(m, "status",
            IF "requested" \in marker[m] /\ "failed" \notin marker[m]
            THEN "boot" ELSE "red")
    /\ UNCHANGED <<guards, host, before, status, machine>>

\* Post-check 2: the boot identity has changed.
CheckBoot(m) ==
    /\ Step(m, "boot", IF boot # before[m] THEN "verify" ELSE "red")
    /\ UNCHANGED <<guards, host, before, status, machine>>

\* Wrong variant: the reservation is resolved and not looked at.
VerifyUnread(m) ==
    /\ Step(m, "verify", IF contract # "missing" THEN "green" ELSE "red")
    /\ reservation' = IF contract = "installed" THEN Reconciled ELSE reservation
    /\ UNCHANGED <<guards, contract, boot, before, status, machine>>

\* Post-check 3: verify-reboot. Without the library it has nothing to say.
Verify(m) ==
    /\ \/ /\ contract = "installed"
          /\ reservation' = Reconciled
          /\ Step(m, "verify", IF Reconciled = 0 THEN "green" ELSE "red")
       \/ /\ contract # "installed"
          /\ Step(m, "verify", IF contract = "waived" THEN "green" ELSE "red")
          /\ UNCHANGED reservation
    /\ UNCHANGED <<guards, contract, boot, before, status, machine>>

\* A step fails: polls that find nothing in time, a lost connection, a
\* container that is missing after the reboot.
RunFails(m) ==
    /\ workflow[m] \notin {"green", "skipped", "red"}
    /\ workflow' = [workflow EXCEPT ![m] = "red"]
    /\ UNCHANGED <<guards, host, before, status, machine>>

-----------------------------------------------------------------------------
(* The adapter, on the host *)

\* Wrong variant: a reboot needs no admission, it ends everything anyway.
AdmitUpgrades(m) ==
    /\ \/ /\ adapter[m] = "admit-apt"
          /\ contract = "installed" /\ Admit(m)
          /\ Adapts(m, "update")
       \/ /\ adapter[m] = "admit-reboot" /\ contract # "missing"
          /\ Adapts(m, "request")
          /\ UNCHANGED fd
    /\ UNCHANGED <<command, host, workflow, before, status, machine>>

\* The all-project guard; none on a host that needs no contract.
AdmitMaintenance(m) ==
    /\ \/ contract = "installed" /\ Admit(m)
       \/ contract = "waived" /\ UNCHANGED fd
    /\ \/ /\ adapter[m] = "admit-apt"
          /\ Adapts(m, "update")
          /\ UNCHANGED <<reservation, marker>>
       \/ /\ adapter[m] = "admit-reboot"
          /\ Adapts(m, "request")
          /\ IF contract = "installed"
             THEN reservation' = Reserved /\ Mark(m, "acquired")
             ELSE UNCHANGED <<reservation, marker>>
    /\ UNCHANGED <<command, contract, boot, workflow, before, exit, machine>>

AptCommand(m) ==
    /\ adapter[m] \in {"update", "upgrade"}
    /\ Start(m, adapter[m])
    /\ UNCHANGED <<adapter, host, workflow, before, status, machine>>

\* Something to upgrade, or nothing. An upgrade may ask for a reboot.
AptEnds(m) ==
    /\ command[m] # "none"
    /\ Ends(m)
    /\ adapter' \in IF adapter[m] = command[m]
                    THEN {[adapter EXCEPT ![m] = s] : s \in {"upgrade", "upgraded"}}
                    ELSE {adapter}
    /\ command[m] = "upgrade" => adapter'[m] # "upgrade"
    /\ \/ UNCHANGED required
       \/ command[m] = "upgrade" /\ required' = TRUE
    /\ UNCHANGED <<host, workflow, before, status, asked>>

\* The shell around the adapter writes its exit code.
AptFinishes(m) ==
    /\ adapter[m] = "upgraded"
    /\ Adapts(m, "idle")
    /\ exit' = [exit EXCEPT ![m] = "zero"]
    /\ Leave(m)
    /\ UNCHANGED <<command, host, workflow, before, marker, machine>>

\* No contract, no admission, or a command that failed.
AptFails(m) ==
    /\ adapter[m] \in {"admit-apt", "update", "upgrade"}
    /\ Adapts(m, "idle")
    /\ exit' = [exit EXCEPT ![m] = "error"]
    /\ fd' = [fd EXCEPT ![m] = {}]
    /\ command' = [command EXCEPT ![m] = "none"]
    /\ UNCHANGED <<host, workflow, before, marker, machine>>

\* systemctl reboot, or the second try, is accepted.
RequestReboot(m) ==
    /\ adapter[m] = "request"
    /\ asked' = [asked EXCEPT ![m] = boot]
    /\ Adapts(m, "record")
    /\ UNCHANGED <<command, fd, host, workflow, before, status, required>>

\* The marker is written, and the guard kept for 120 seconds.
RecordRequest(m) ==
    /\ adapter[m] = "record"
    /\ Mark(m, "requested")
    /\ Adapts(m, "hold")
    /\ UNCHANGED <<command, fd, host, workflow, before, exit, machine>>

\* Refused, or 120 seconds later: the guard is left first, then
\* RecordFailure writes the marker.
RebootFails(m) ==
    /\ adapter[m] \in {"admit-reboot", "request", "record", "hold"}
    /\ Adapts(m, "failing")
    /\ Leave(m)
    /\ UNCHANGED <<command, host, workflow, before, status, machine>>

RecordFailure(m) ==
    /\ adapter[m] = "failing"
    /\ Mark(m, "failed")
    /\ Adapts(m, "idle")
    /\ UNCHANGED <<command, fd, host, workflow, before, exit, machine>>

\* Killed; of the upgrade, the shell around it still reports that.
MaintenanceKilled(m) ==
    /\ adapter[m] \notin {"idle", "dead"}
    /\ Killed(m)
    /\ exit' \in {exit, IF adapter[m] \in {"admit-apt", "update", "upgrade", "upgraded"}
                        THEN [exit EXCEPT ![m] = "error"] ELSE exit}
    /\ UNCHANGED <<host, workflow, before, marker, machine>>

MaintenanceNext(m) ==
    \/ Ship(m) \/ Kick(m) \/ Upgraded(m) \/ Decide(m) \/ Skip(m)
    \/ Trigger(m) \/ Poll(m) \/ Return(m)
    \/ CheckStatus(m) \/ CheckBoot(m) \/ Verify(m) \/ RunFails(m)
    \/ AdmitMaintenance(m) \/ AptCommand(m) \/ AptEnds(m)
    \/ AptFinishes(m) \/ AptFails(m)
    \/ RequestReboot(m) \/ RecordRequest(m)
    \/ RebootFails(m) \/ RecordFailure(m) \/ MaintenanceKilled(m)
=============================================================================
