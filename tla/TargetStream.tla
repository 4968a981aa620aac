---------------------------- MODULE TargetStream ----------------------------
(***************************************************************************)
(* One release handed by the controller to an application target: the SSH  *)
(* client `deploy` (prebuilt_target_transport.py), the connection, and the *)
(* target's `run_target_stream` (prebuilt_target_entry.py) with the SDK it *)
(* calls. The SDK is abstracted to the effect it has; ImageTarget and      *)
(* StaticTarget model the two SDKs in detail.                              *)
(*                                                                         *)
(* Bytes are counted in sections of the frame (header, manifest, bundle).  *)
(* A deadline is a member of `late` once it has passed; a clock that       *)
(* fails or runs backwards is the failure branch of the step that reads it.*)
(***************************************************************************)
EXTENDS Naturals

CONSTANTS
    Leases,    \* the invocations the target's launcher may load
    Request,   \* the invocation the controller asks for
    None       \* no invocation, no receipt

\* An invocation is a record of what it binds. Every receipt carries its
\* correlation `corr`, its `source` (repository, sha, run, attempt), its `place`
\* (environment, project) and its `mode`, the output kind; a success carries also
\* the `output` (artifact and hash, or image) and the `services` with their image
\* or migration. The rest of the target specification (control hashes, mounts,
\* paths), its `policy`, is in no receipt.
CommonFields == {"corr", "source", "place", "mode"}

SuccessFields == CommonFields \cup {"output", "services"}

\* What a receipt carries of an invocation.
Bound(l, fields) == [f \in fields |-> l[f]]

Receipts ==
    [bound : {Bound(l, SuccessFields) : l \in Leases},
     status : {"succeeded"}, effect : {"verified"}, recovery : {FALSE}]
    \cup
    [bound : {Bound(l, CommonFields) : l \in Leases},
     status : {"failed"}, effect : {"none", "unknown"}, recovery : BOOLEAN]

ASSUME LeaseAssumption ==
    /\ None \notin Leases \cup Receipts
    /\ \A l \in Leases \cup {Request} : l.mode \in {"image", "static"}

VARIABLES
    ctl,         \* where the controller is in deploy
    sent,        \* sections of the frame written to ssh
    stdin,       \* the controller's end of the request pipe
    link,        \* the ssh connection
    tgt,         \* where the target process is in run_target_stream
    lease,       \* the invocation the launcher loaded
    got,         \* sections of the frame the target has read
    sdkStarted,  \* run_target_stream's sdk_started
    effect,      \* what the SDK has done to the target's containers
    receipt,     \* the receipt the target has built
    wire,        \* the receipt bytes the target has written to its sink
    exit,        \* how the target process ended
    late,        \* the parties whose deadline has passed
    verdict      \* the outcome of deploy

ctlVars == <<ctl, sent, stdin, verdict>>
tgtVars == <<tgt, lease, got, sdkStarted, receipt, wire, exit>>
vars == <<ctlVars, link, tgtVars, effect, late>>

-----------------------------------------------------------------------------
(* Types *)

Verdicts == {"pending", "succeeded", "refused", "error", "ambiguous"}

TypeOK ==
    /\ ctl \in {"validating", "starting", "streaming", "parsing", "done"}
    /\ sent \in 0..3
    /\ stdin \in {"open", "closed"}
    /\ link \in {"none", "up", "down"}
    /\ tgt \in {"none", "reading", "deploying", "receipt", "flushing", "exited"}
    /\ lease \in Leases \cup {None}
    /\ got \in 0..3
    /\ sdkStarted \in BOOLEAN
    /\ effect \in {"none", "maybe", "verified"}
    /\ receipt \in Receipts \cup {None}
    /\ wire \in Receipts \cup {None}
    /\ exit \in {"running", "clean", "dirty"}
    /\ late \subseteq {"controller", "target"}
    /\ verdict \in Verdicts

Init ==
    /\ ctl = "validating" /\ sent = 0 /\ stdin = "open" /\ verdict = "pending"
    /\ link = "none"
    /\ tgt = "none" /\ lease = None /\ got = 0 /\ sdkStarted = FALSE
    /\ receipt = None /\ wire = None /\ exit = "running"
    /\ effect = "none"
    /\ late = {}

\* Sections of the request's frame: header and manifest, and a bundle when static.
FrameLen == IF Request.mode = "static" THEN 3 ELSE 2

-----------------------------------------------------------------------------
(* The controller *)

\* deploy up to the first timer check: the configuration is valid, the files
\* are snapshotted and the frame is built from a verified manifest.
Validate ==
    /\ ctl = "validating"
    /\ "controller" \notin late
    /\ ctl' = "starting"
    /\ UNCHANGED <<sent, stdin, verdict, link, tgtVars, effect, late>>

\* Wrong variant: a failure after Popen is still reported as unambiguous.
LateLocalRefusal ==
    /\ ctl \in {"validating", "starting", "streaming"}
    /\ ctl' = "done"
    /\ verdict' = "error"
    /\ UNCHANGED <<sent, stdin, link, tgtVars, effect, late>>

\* Anything wrong before Popen returns: an unambiguous TransportError.
LocalRefusal ==
    /\ ctl \in {"validating", "starting"}
    /\ ctl' = "done"
    /\ verdict' = "error"
    /\ UNCHANGED <<sent, stdin, link, tgtVars, effect, late>>

\* Snapshots unchanged and time left: one ssh process is started.
Start ==
    /\ ctl = "starting"
    /\ "controller" \notin late
    /\ ctl' = "streaming"
    /\ link' = "up"
    /\ UNCHANGED <<sent, stdin, verdict, tgtVars, effect, late>>

WriteSection ==
    /\ ctl = "streaming"
    /\ "controller" \notin late
    /\ stdin = "open" /\ sent < FrameLen
    /\ sent' = sent + 1
    /\ UNCHANGED <<ctl, stdin, verdict, link, tgtVars, effect, late>>

CloseStdin ==
    /\ ctl = "streaming"
    /\ "controller" \notin late
    /\ stdin = "open" /\ sent = FrameLen
    /\ stdin' = "closed"
    /\ UNCHANGED <<ctl, sent, verdict, link, tgtVars, effect, late>>

\* Every failure after Popen closes the pipes, reaps the child and is ambiguous.
Abandon ==
    /\ ctl' = "done"
    /\ stdin' = "closed"
    /\ verdict' = "ambiguous"
    /\ UNCHANGED <<sent, link, tgtVars, effect, late>>

\* Wrong variant: the deadline is only looked at while there is frame to write.
WriteDeadline ==
    ctl = "streaming" /\ stdin = "open" /\ "controller" \in late /\ Abandon

\* timer.remaining fails in the streaming loop.
StreamDeadline == ctl = "streaming" /\ "controller" \in late /\ Abandon

\* A pipe error, an oversized receipt, a failed clock or a cancellation.
StreamFault == ctl = "streaming" /\ Abandon

\* ssh has ended with the launcher's status: nonzero unless run_target_stream
\* returned normally and the connection carried its exit status back.
SshEnded == exit # "running" \/ link = "down"

ReturnCode == IF exit = "clean" /\ link = "up" THEN 0 ELSE 1

\* Wrong variant: end of output is enough, whatever the exit status.
CompleteAtEof ==
    /\ ctl = "streaming"
    /\ "controller" \notin late
    /\ SshEnded
    /\ stdin = "closed"
    /\ ctl' = "parsing"
    /\ UNCHANGED <<sent, stdin, verdict, link, tgtVars, effect, late>>

\* _run_process needs end of output, the whole frame sent, and status zero.
Complete ==
    /\ ctl = "streaming"
    /\ "controller" \notin late
    /\ SshEnded
    /\ stdin = "closed"
    /\ ReturnCode = 0
    /\ ctl' = "parsing"
    /\ UNCHANGED <<sent, stdin, verdict, link, tgtVars, effect, late>>

\* A nonzero status, or a write to a process that no longer reads.
SshFailed ==
    /\ ctl = "streaming"
    /\ SshEnded
    /\ ReturnCode # 0 \/ stdin = "open"
    /\ Abandon

\* Wrong variant: a success is not compared on its correlation.
UncorrelatedVerdict(rc) ==
    CASE rc = None -> "ambiguous"
      [] rc # None /\ rc.status = "succeeded"
            /\ \A f \in SuccessFields \ {"corr"} : rc.bound[f] = Request[f] -> "succeeded"
      [] rc # None /\ rc.status = "failed" /\ rc.effect = "none" /\ ~rc.recovery
            /\ rc.bound = Bound(Request, CommonFields) -> "refused"
      [] OTHER -> "ambiguous"

\* Wrong variant: every bound failure receipt counts as a refusal.
AnyFailureRefused(rc) ==
    CASE rc = None -> "ambiguous"
      [] rc # None /\ rc.status = "succeeded"
            /\ rc.bound = Bound(Request, SuccessFields) -> "succeeded"
      [] rc # None /\ rc.status = "failed"
            /\ rc.bound = Bound(Request, CommonFields) -> "refused"
      [] OTHER -> "ambiguous"

\* _parse_receipt: exact success, exact clean refusal, everything else ambiguous.
\* The comparison is of what the receipt carries, and of nothing else.
ReceiptVerdict(rc) ==
    CASE rc = None -> "ambiguous"
      [] rc # None /\ rc.status = "succeeded" /\ rc.effect = "verified"
            /\ rc.bound = Bound(Request, SuccessFields) -> "succeeded"
      [] rc # None /\ rc.status = "failed" /\ rc.effect = "none" /\ ~rc.recovery
            /\ rc.bound = Bound(Request, CommonFields) -> "refused"
      [] OTHER -> "ambiguous"

\* Parsing, then the timer once more: a late receipt is ambiguous.
Parse ==
    /\ ctl = "parsing"
    /\ ctl' = "done"
    /\ \/ "controller" \notin late /\ verdict' = ReceiptVerdict(wire)
       \/ verdict' = "ambiguous"
    /\ UNCHANGED <<sent, stdin, link, tgtVars, effect, late>>

-----------------------------------------------------------------------------
(* The connection and time *)

\* The dial fails, or the connection is lost; unread sections are lost with it.
LinkDrop ==
    /\ link = "up"
    /\ link' = "down"
    /\ UNCHANGED <<ctlVars, tgtVars, effect, late>>

Expire(party) ==
    /\ party \notin late
    /\ late' = late \cup {party}
    /\ UNCHANGED <<ctlVars, link, tgtVars, effect>>

-----------------------------------------------------------------------------
(* The target *)

\* sshd starts the launcher, which loads some lease; _validate_invocation passes.
Launch ==
    /\ link = "up" /\ tgt = "none"
    /\ lease' \in Leases
    /\ tgt' = "reading"
    /\ UNCHANGED <<ctlVars, link, got, sdkStarted, receipt, wire, exit, effect, late>>

\* No lease, a disabled or invalid invocation, a missing stream capability:
\* run_target_stream raises and writes no receipt.
LaunchRefused ==
    /\ link = "up" /\ tgt = "none"
    /\ tgt' = "exited" /\ exit' = "dirty"
    /\ UNCHANGED <<ctlVars, link, lease, got, sdkStarted, receipt, wire, effect, late>>

\* The receipt an EntryError before the SDK leads to.
RefusalReceipt == [bound |-> Bound(lease, CommonFields), status |-> "failed",
                   effect |-> "none", recovery |-> FALSE]

Refuse ==
    /\ tgt' = "receipt"
    /\ receipt' = RefusalReceipt
    /\ UNCHANGED <<ctlVars, link, lease, got, sdkStarted, wire, exit, effect, late>>

\* _read_frame takes the next section; the header must be of the lease's kind.
ReadSection ==
    /\ tgt = "reading" /\ "target" \notin late
    /\ link = "up" /\ got < sent
    /\ got = 0 => lease.mode = Request.mode
    /\ got' = got + 1
    /\ UNCHANGED <<ctlVars, link, tgt, lease, sdkStarted, receipt, wire, exit, effect, late>>

KindMismatch ==
    /\ tgt = "reading"
    /\ link = "up" /\ got = 0 /\ sent > 0
    /\ lease.mode # Request.mode
    /\ Refuse

\* The target's stdin is at its end.
AtEof == link = "down" \/ (stdin = "closed" /\ got = sent)

Truncated == tgt = "reading" /\ AtEof /\ got < FrameLen /\ Refuse

\* A failed read, or a deadline or clock check that fails while reading.
ReadFault == tgt = "reading" /\ Refuse

\* The whole frame and nothing after it: the SDK is entered.
EnterSdk ==
    /\ tgt = "reading" /\ "target" \notin late
    /\ AtEof /\ got = FrameLen
    /\ tgt' = "deploying"
    /\ sdkStarted' = TRUE
    /\ UNCHANGED <<ctlVars, link, lease, got, receipt, wire, exit, effect, late>>

\* Docker acts on the activation the SDK requested. It may go on after the
\* SDK failed or died: neither a kill nor a timeout undoes what was asked for.
\* The SDK asks only when the manifest matches the lease's trusted identity and
\* selected output.
SdkActivate ==
    /\ sdkStarted /\ effect = "none"
    /\ lease.source = Request.source /\ lease.output = Request.output
    /\ effect' = "maybe"
    /\ UNCHANGED <<ctlVars, link, tgtVars, late>>

\* The SDK observes every service of the lease's target running the release.
SdkVerify ==
    /\ tgt = "deploying" /\ effect = "maybe"
    /\ effect' = "verified"
    /\ UNCHANGED <<ctlVars, link, tgtVars, late>>

\* The SDK returns its result inside the deadline and the receipt is built.
SdkReturn ==
    /\ tgt = "deploying" /\ effect = "verified"
    /\ "target" \notin late
    /\ tgt' = "receipt"
    /\ receipt' = [bound |-> Bound(lease, SuccessFields), status |-> "succeeded",
                   effect |-> "verified", recovery |-> FALSE]
    /\ UNCHANGED <<ctlVars, link, lease, got, sdkStarted, wire, exit, effect, late>>

\* The SDK raises, its result is refused, or its deadline has passed. Only a
\* static SDK error can carry a retained asset directory.
SdkFail ==
    /\ tgt = "deploying"
    /\ tgt' = "receipt"
    /\ \E r \in BOOLEAN :
        /\ r => lease.mode = "static"
        /\ receipt' = [bound |-> Bound(lease, CommonFields), status |-> "failed",
                       effect |-> "unknown", recovery |-> r]
    /\ UNCHANGED <<ctlVars, link, lease, got, sdkStarted, wire, exit, effect, late>>

\* The last deadline check before output, then one complete write.
WriteReceipt ==
    /\ tgt = "receipt" /\ "target" \notin late
    /\ wire' = receipt
    /\ tgt' = "flushing"
    /\ UNCHANGED <<ctlVars, link, lease, got, sdkStarted, receipt, exit, effect, late>>

\* Encoding, the deadline or the write fails: run_target_stream raises.
WriteFails ==
    /\ tgt = "receipt"
    /\ tgt' = "exited" /\ exit' = "dirty"
    /\ UNCHANGED <<ctlVars, link, lease, got, sdkStarted, receipt, wire, effect, late>>

\* Wrong variant: a run that has written its receipt returns, however late it is.
FinishLate ==
    /\ tgt = "flushing"
    /\ tgt' = "exited" /\ exit' \in {"clean", "dirty"}
    /\ UNCHANGED <<ctlVars, link, lease, got, sdkStarted, receipt, wire, effect, late>>

\* The deadline check after output decides between a return and a raise.
Finish ==
    /\ tgt = "flushing"
    /\ tgt' = "exited"
    /\ \/ "target" \notin late /\ exit' = "clean"
       \/ exit' = "dirty"
    /\ UNCHANGED <<ctlVars, link, lease, got, sdkStarted, receipt, wire, effect, late>>

\* The target process is killed, or its host restarts.
Crash ==
    /\ tgt \in {"reading", "deploying", "receipt", "flushing"}
    /\ tgt' = "exited" /\ exit' = "dirty"
    /\ UNCHANGED <<ctlVars, link, lease, got, sdkStarted, receipt, wire, effect, late>>

-----------------------------------------------------------------------------

Controller ==
    \/ Validate \/ LocalRefusal \/ Start \/ WriteSection \/ CloseStdin
    \/ StreamDeadline \/ StreamFault \/ Complete \/ SshFailed \/ Parse

Target ==
    \/ Launch \/ LaunchRefused \/ ReadSection \/ KindMismatch \/ Truncated
    \/ ReadFault \/ EnterSdk \/ SdkActivate \/ SdkVerify \/ SdkReturn \/ SdkFail
    \/ WriteReceipt \/ WriteFails \/ Finish \/ Crash

Next ==
    \/ Controller
    \/ Target
    \/ LinkDrop
    \/ \E party \in {"controller", "target"} : Expire(party)

\* Time passes for the controller, and its loop wakes every 0.1 s. Nothing is
\* assumed of the connection and the target, which may stop at any place.
Fairness ==
    /\ WF_vars(Expire("controller"))
    /\ WF_vars(Validate \/ Start \/ LocalRefusal)
    /\ WF_vars(StreamDeadline)
    /\ WF_vars(Parse)

Spec == Init /\ [][Next]_vars /\ Fairness

-----------------------------------------------------------------------------
(* Properties *)

\* The lease agrees with the request in all that the receipt of a success tells.
LeaseAgrees == lease # None /\ \A f \in SuccessFields : lease[f] = Request[f]

\* A "succeeded" receipt means that the target observed the requested release
\* running, under a lease with this correlation, source, output, kind, place and
\* services: it never vouches for another run or for an activation that was only
\* attempted. That the lease's policy is the controller's it does not say.
NoFalseSuccess ==
    verdict = "succeeded" => LeaseAgrees /\ effect = "verified"

\* "refused" and an unambiguous TransportError promise that nothing happened:
\* the SDK was not entered, and no process is left that could still enter it.
DefiniteNoIsFinal ==
    verdict \in {"refused", "error"} =>
        /\ effect = "none" /\ ~sdkStarted
        /\ link = "none" \/ tgt = "exited"

\* A target process that raised, died or finished past its deadline is never
\* certified, not even when the receipt it wrote was complete and favourable.
OnlyCleanRunsCount ==
    verdict \in {"succeeded", "refused"} => exit = "clean"

\* A receipt written to the wire tells the truth about the effect.
ReceiptHonest ==
    wire # None =>
        /\ wire.effect = "none" => ~sdkStarted
        /\ wire.effect = "verified" => effect = "verified"

\* The caller gets a verdict even when the target never answers.
Answered == <>(verdict # "pending")

\* A target that runs out of its time before it has returned is never believed,
\* at whatever place it was: reading, in the SDK, with its receipt built, or with
\* a complete and favourable receipt already on the wire.
LateNeverBelieved ==
    []("target" \in late /\ exit = "running" =>
         [](verdict \notin {"succeeded", "refused"}))

\* The delivery as its caller sees it: an effect under a lease that does not
\* agree with the request can never be its verified effect.
D == INSTANCE Delivery WITH
        effect <- IF effect = "verified" /\ ~LeaseAgrees THEN "maybe" ELSE effect,
        verdict <- verdict

\* The protocol implements what deploy promises, its one verdict included.
ImplementsDelivery == D!Spec
=============================================================================
