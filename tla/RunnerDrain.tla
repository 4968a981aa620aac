---------------------------- MODULE RunnerDrain ----------------------------
(***************************************************************************)
(* The drain of a CI host: gh-runner-drain.sh (begin, extend, status, end) *)
(* against the slots, whose units run jit-config.sh before every job, and  *)
(* against GitHub, which keeps one registration per slot name and hands    *)
(* out jobs.                                                               *)
(*                                                                         *)
(* `broker` is how the role was rendered: with the GitHub credential on    *)
(* the host (local), or with an issuer elsewhere that registers for it.    *)
(* One drain command runs at a time; `end`, `extend` and the clock may     *)
(* strike at any of its steps.                                             *)
(***************************************************************************)
EXTENDS Naturals

CONSTANT N      \* number of slots

ASSUME SlotsAssumption == N \in Nat \ {0}

VARIABLES
    broker,     \* github_runner_jit_broker
    marker,     \* /run/gh-runner.drain
    unit,       \* what each slot's unit is doing
    stopping,   \* a restart of the unit is queued
    reg,        \* GitHub's record of the slot's name
    cmd,        \* the drain command at work
    step,       \* what it does next
    at,         \* and for which slot
    listed,     \* the id it has listed is still that of the slot's record
    busy,       \* status has counted a busy slot
    (* History: *)
    drain,      \* since a begin, while its marker is valid
    quiet,      \* the last status of a complete drain found all slots idle
    skipped,    \* slots left alone by begin on their way to a registration
    owed        \* slots that had a job when begin was called, and have it

slots == <<unit, stopping>>
control == <<broker, cmd, step, at, busy>>
history == <<drain, quiet, skipped, owed>>
vars == <<broker, marker, slots, reg, cmd, step, at, busy, listed, history>>

Slots == 1..N

-----------------------------------------------------------------------------

\* Past the marker check and not yet a runner that GitHub can reach.
Registering == {"list", "generate", "start"}

Units == {"gate", "listening", "working"} \cup Registering

TypeOK ==
    /\ broker \in {"local", "issuer"}
    /\ marker \in {"none", "valid", "expired"}
    /\ unit \in [Slots -> Units]
    /\ stopping \in [Slots -> BOOLEAN]
    /\ reg \in [Slots -> {"none", "idle", "busy"}]
    /\ cmd \in {"none", "begin", "status"}
    /\ step \in {"none", "ask", "delete", "worker", "listener", "restart"}
    /\ at \in Slots
    /\ listed \in BOOLEAN
    /\ busy \in BOOLEAN
    /\ drain \in {"none", "beginning", "done"}
    /\ quiet \in BOOLEAN
    /\ skipped \subseteq Slots
    /\ owed \subseteq Slots

\* A host without a drain; GitHub may still have records of an earlier life.
Init ==
    /\ broker \in {"local", "issuer"}
    /\ marker = "none"
    /\ unit = [s \in Slots |-> "gate"]
    /\ stopping = [s \in Slots |-> FALSE]
    /\ reg \in [Slots -> {"none", "idle", "busy"}]
    /\ cmd = "none" /\ step = "none" /\ at = 1 /\ busy = FALSE /\ listed = FALSE
    /\ drain = "none" /\ quiet = FALSE
    /\ skipped = {} /\ owed = {}

Goto(s, place) == unit' = [unit EXCEPT ![s] = place]

\* The record of s is created or deleted; an id listed before is then no use.
Record(s, what) ==
    /\ reg' = [reg EXCEPT ![s] = what]
    /\ listed' = (listed /\ s # at)

-----------------------------------------------------------------------------
(* A slot: ExecStartPre, the runner, Restart=always *)

\* Wrong variant: a marker counts as long as it is there.
PassGateOnceRemoved(s) ==
    /\ unit[s] = "gate" /\ marker = "none"
    /\ Goto(s, IF broker = "local" THEN "list" ELSE "generate")
    /\ UNCHANGED <<marker, stopping, reg, listed, control, history>>

\* The loop over the marker ends: there is none, or it has expired. Its
\* removal is refused, as /run is root's. In issuer mode what follows is one
\* request to the issuer.
PassGate(s) ==
    /\ unit[s] = "gate" /\ marker # "valid"
    /\ Goto(s, IF broker = "local" THEN "list" ELSE "generate")
    /\ UNCHANGED <<marker, stopping, reg, listed, control, history>>

\* Step 2b: list, and delete a record that is not busy. Nobody else creates one
\* of this name, so the id is right. `|| true`: the deletion may fail.
RemoveStale(s) ==
    /\ unit[s] = "list"
    /\ Goto(s, "generate")
    /\ \/ IF reg[s] = "idle" THEN Record(s, "none") ELSE UNCHANGED <<reg, listed>>
       \/ UNCHANGED <<reg, listed>>
    /\ UNCHANGED <<marker, stopping, control, history>>

\* generate-jitconfig, here or at the issuer, is a hard create.
Generate(s) ==
    /\ unit[s] = "generate" /\ reg[s] = "none"
    /\ Record(s, "idle")
    /\ Goto(s, "start")
    /\ UNCHANGED <<marker, stopping, control, history>>

\* The record is created, but the answer with the configuration is lost.
GenerateUnanswered(s) ==
    /\ unit[s] = "generate" /\ reg[s] = "none"
    /\ Record(s, "idle")
    /\ Goto(s, "gate")
    /\ UNCHANGED <<marker, stopping, control, history>>

\* The listener comes up and is online, unless a restart is queued: systemd
\* then starts nothing more of this invocation.
Listen(s) ==
    /\ unit[s] = "start" /\ ~stopping[s]
    /\ Goto(s, "listening")
    /\ UNCHANGED <<marker, stopping, reg, listed, control, history>>

\* The listener starts a worker for the job it was handed.
StartWorker(s) ==
    /\ unit[s] = "listening" /\ reg[s] = "busy"
    /\ Goto(s, "working")
    /\ UNCHANGED <<marker, stopping, reg, listed, control, history>>

\* The unit ends: a failed request or 409, a listener whose registration is
\* gone or that crashes, a finished or broken job. RestartSec later it is back.
Rerun(s) ==
    /\ unit[s] # "gate"
    /\ Goto(s, "gate")
    /\ owed' = owed \ {s}
    /\ UNCHANGED <<marker, stopping, reg, listed, control, drain, quiet, skipped>>

\* systemd carries out the queued restart, with whatever the unit was doing.
Restarted(s) ==
    /\ stopping[s]
    /\ stopping' = [stopping EXCEPT ![s] = FALSE]
    /\ Goto(s, "gate")
    /\ owed' = owed \ {s}
    /\ UNCHANGED <<marker, reg, listed, control, drain, quiet, skipped>>

-----------------------------------------------------------------------------
(* GitHub *)

Assign(s) ==
    /\ unit[s] = "listening" /\ reg[s] = "idle"
    /\ reg' = [reg EXCEPT ![s] = "busy"]
    /\ UNCHANGED <<marker, slots, listed, control, history>>

\* A record without a listener is dropped, sooner or later; that of a running
\* job also when GitHub has lost its runner or already has its result.
Forget(s) ==
    /\ reg[s] # "none" /\ unit[s] \notin {"start", "listening"}
    /\ Record(s, "none")
    /\ UNCHANGED <<marker, slots, control, history>>

\* A busy record of a runner that is gone becomes an idle, offline one.
Clear(s) ==
    /\ reg[s] = "busy" /\ unit[s] \notin {"listening", "working"}
    /\ reg' = [reg EXCEPT ![s] = "idle"]
    /\ UNCHANGED <<marker, slots, listed, control, history>>

-----------------------------------------------------------------------------
(* gh-runner-drain.sh *)

HasJob(s) ==
    \/ unit[s] = "working"
    \/ broker = "local" /\ unit[s] = "listening" /\ reg[s] = "busy"

\* begin writes the marker and turns to the first slot. Without a credential
\* there is nothing to deregister.
Begin ==
    /\ cmd = "none"
    /\ marker' = "valid"
    /\ cmd' = "begin" /\ at' = 1 /\ busy' = FALSE
    /\ step' = IF broker = "local" THEN "ask" ELSE "worker"
    /\ drain' = "beginning" /\ quiet' = FALSE /\ skipped' = {}
    /\ owed' = {s \in Slots : HasJob(s) /\ ~stopping[s]}
    /\ UNCHANGED <<broker, slots, reg, listed>>

Status ==
    /\ cmd = "none"
    /\ cmd' = "status" /\ at' = 1 /\ busy' = FALSE /\ step' = "worker"
    /\ UNCHANGED <<broker, marker, slots, reg, listed, history>>

\* No command is at work any more.
Over == cmd' = "none" /\ step' = "none" /\ at' = 1 /\ busy' = FALSE

\* The loop's next slot, or the end of the command; `found` says that status
\* counts the slot as busy.
NextSlot(found) ==
    IF at < N
    THEN /\ at' = at + 1
         /\ busy' = (busy \/ found)
         /\ step' = IF cmd = "begin" /\ broker = "local" THEN "ask" ELSE "worker"
         /\ UNCHANGED <<cmd, drain, quiet>>
    ELSE /\ Over
         /\ drain' = IF cmd = "begin" /\ drain = "beginning" THEN "done" ELSE drain
         /\ quiet' = IF cmd = "status" THEN drain = "done" /\ ~busy /\ ~found ELSE quiet

\* begin leaves the slot as it is.
LeaveAlone ==
    /\ cmd = "begin"
    /\ skipped' = IF unit[at] \in Registering THEN skipped \cup {at} ELSE skipped
    /\ NextSlot(FALSE)
    /\ UNCHANGED owed

CountIdle == cmd = "status" /\ NextSlot(FALSE) /\ UNCHANGED <<skipped, owed>>
CountBusy == cmd = "status" /\ NextSlot(TRUE) /\ UNCHANGED <<skipped, owed>>

\* `exit 1` of begin, or the command is killed.
Quit ==
    /\ cmd # "none"
    /\ Over /\ listed' = FALSE
    /\ UNCHANGED <<broker, marker, slots, reg, history>>

Then(next) ==
    /\ step' = next
    /\ UNCHANGED <<cmd, at, busy, history>>

\* --deregister-if-idle is through: not registered, or deregistered.
Deregistered ==
    \/ cmd = "begin" /\ Then("worker")
    \/ CountIdle

\* It exits with 3: begin leaves a busy slot alone.
StillBusy == LeaveAlone \/ CountBusy

\* The first half of --deregister-if-idle: list, and look at the record.
Ask ==
    /\ cmd # "none" /\ step = "ask"
    /\ \/ reg[at] = "none" /\ Deregistered
       \/ reg[at] = "busy" /\ StillBusy
       \/ reg[at] = "idle" /\ Then("delete")
    /\ listed' = (reg[at] = "idle")
    /\ UNCHANGED <<broker, marker, slots, reg>>

\* Wrong variant: the refusal of a busy runner passes for a deletion.
DeleteUnlessBusy ==
    /\ cmd # "none" /\ step = "delete"
    /\ listed
    /\ Deregistered
    /\ reg' = IF reg[at] = "idle" THEN [reg EXCEPT ![at] = "none"] ELSE reg
    /\ listed' = FALSE
    /\ UNCHANGED <<broker, marker, slots>>

\* The second half: DELETE by that id, and 422 when it has a job by now.
Delete ==
    /\ cmd # "none" /\ step = "delete"
    /\ listed
    /\ \/ reg[at] = "idle" /\ reg' = [reg EXCEPT ![at] = "none"] /\ Deregistered
       \/ reg[at] = "busy" /\ UNCHANGED reg /\ StillBusy
    /\ listed' = FALSE
    /\ UNCHANGED <<broker, marker, slots>>

\* Any other answer, or none: status counts the slot as busy; begin ends with
\* an error (Quit), whether or not the record was deleted.
DeleteFails ==
    /\ cmd # "none" /\ step \in {"ask", "delete"}
    /\ \/ listed /\ reg[at] = "idle" /\ reg' = [reg EXCEPT ![at] = "none"]
       \/ UNCHANGED reg
    /\ listed' = FALSE
    /\ \/ CountBusy
       \/ cmd = "begin" /\ Over /\ UNCHANGED history
    /\ UNCHANGED <<broker, marker, slots>>

\* Wrong variant: the restart does not depend on what the probe finds.
ProbeNothing ==
    /\ cmd # "none" /\ step = "worker"
    /\ \/ cmd = "begin" /\ Then("restart")
       \/ cmd = "status" /\ Then(IF broker = "local" THEN "ask" ELSE "listener")
       \/ unit[at] = "working" /\ CountBusy
    /\ UNCHANGED <<broker, marker, slots, reg, listed>>

\* worker_for_slot: a worker, none, or metadata that cannot be read (a process
\* that ends during the scan is enough).
ProbeWorker ==
    /\ cmd # "none" /\ step = "worker"
    /\ \/ /\ unit[at] # "working"
          /\ \/ cmd = "begin" /\ Then("restart")
             \/ cmd = "status" /\ Then(IF broker = "local" THEN "ask" ELSE "listener")
       \/ LeaveAlone \/ CountBusy
    /\ UNCHANGED <<broker, marker, slots, reg, listed>>

\* listener_for_slot, in issuer mode. A worker's listener lives as long as it.
ProbeListener ==
    /\ cmd = "status" /\ step = "listener"
    /\ IF unit[at] \in {"listening", "working"} THEN CountBusy ELSE CountIdle \/ CountBusy
    /\ UNCHANGED <<broker, marker, slots, reg, listed>>

\* systemctl restart --no-block
RestartSlot ==
    /\ cmd = "begin" /\ step = "restart"
    /\ stopping' = [stopping EXCEPT ![at] = TRUE]
    /\ NextSlot(FALSE)
    /\ UNCHANGED <<broker, marker, unit, reg, listed, skipped, owed>>

\* extend also writes a marker where there is none; it begins no drain.
Extend ==
    /\ marker # "valid"
    /\ marker' = "valid"
    /\ UNCHANGED <<slots, reg, listed, control, history>>

NoDrain ==
    /\ drain' = "none" /\ quiet' = FALSE
    /\ UNCHANGED <<slots, reg, listed, control, skipped, owed>>

End ==
    /\ marker # "none"
    /\ marker' = "none"
    /\ NoDrain

Expire ==
    /\ marker = "valid"
    /\ marker' = "expired"
    /\ NoDrain

-----------------------------------------------------------------------------

Slot(s) ==
    \/ PassGate(s) \/ RemoveStale(s) \/ Generate(s) \/ GenerateUnanswered(s)
    \/ Listen(s) \/ StartWorker(s) \/ Rerun(s) \/ Restarted(s)

GitHub(s) == Assign(s) \/ Forget(s) \/ Clear(s)

Drain ==
    \/ Begin \/ Status \/ Quit \/ Ask \/ Delete \/ DeleteFails
    \/ ProbeWorker \/ ProbeListener \/ RestartSlot
    \/ Extend \/ End \/ Expire

Next == Drain \/ \E s \in Slots : Slot(s) \/ GitHub(s)

\* No unit stays at a step, and of the requests that a slot repeats for ever
\* one is answered in the end; GitHub drops a record whose runner is gone.
\* Nothing is assumed of the drain commands, nor that jobs come.
Fairness(s) ==
    /\ WF_vars(PassGate(s)) /\ WF_vars(Restarted(s))
    /\ WF_vars(reg[s] = "none" /\ unit[s] # "working" /\ Rerun(s))
    /\ WF_vars(unit[s] # "working" /\ Forget(s))
    /\ SF_vars(RemoveStale(s)) /\ SF_vars(Generate(s)) /\ SF_vars(Listen(s))

Spec == Init /\ [][Next]_vars /\ \A s \in Slots : Fairness(s)

-----------------------------------------------------------------------------
(* Properties *)

\* A slot that GitHub has given a job, or can give one.
Available(s) == unit[s] = "listening" /\ reg[s] # "none"

\* Once begin has succeeded and a later status has counted no busy slot, and
\* as long as the marker is valid, no slot is handed a job: neither the old
\* listeners and registrations nor the units that come back can take one. Left
\* out are the slots that begin itself passed by on their way to registration.
\* In issuer mode no job is running either; with the credential on the host, one
\* may be, whose record GitHub dropped between the two looks of status.
NoJobOnceQuiet ==
    quiet => \A s \in Slots \ skipped :
        ~Available(s) /\ (broker = "issuer" => unit[s] # "working")

\* The same without exception: the drain "blocks every re-registration until
\* the marker is removed or has expired on its own".
QuietForAll == quiet => \A s \in Slots : ~Available(s)

\* "One with a worker is left to finish": a slot that had a job when begin was
\* called is not restarted under it. With the credential on the host that
\* holds from the moment GitHub has assigned the job.
JobsSurvive == \A s \in owed : ~stopping[s]

\* When drains end for good, by `end` or by the clock alone, every slot goes on
\* being a runner again and again, whatever records its name has at GitHub.
Recovers(s) == <>[](marker # "valid") => []<>(unit[s] \in {"listening", "working"})
=============================================================================
