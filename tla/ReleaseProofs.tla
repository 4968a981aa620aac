--------------------------- MODULE ReleaseProofs ---------------------------
(***************************************************************************)
(* The two ends of a release, for every value of their constants.          *)
(* StaticRelease makes a bundle and its manifest: type correctness and its *)
(* three safety invariants, for any set of assets. TargetStream delivers a *)
(* release to its target: type correctness, its four safety invariants,    *)
(* and the refinement of Delivery, for any set of leases and requests. The *)
(* two share no variable.                                                  *)
(***************************************************************************)
EXTENDS TargetStream, StaticRelease, TLAPS

-----------------------------------------------------------------------------
(* TargetStream *)

\* What the controller's position says about its verdict and the connection.
ControllerInv ==
    /\ (verdict = "pending") <=> (ctl # "done")
    /\ ctl \in {"validating", "starting"} => link = "none"
    /\ verdict = "error" => link = "none"
    /\ ctl = "parsing" => exit = "clean"
    /\ verdict \in {"succeeded", "refused"} =>
         exit = "clean" /\ verdict = ReceiptVerdict(wire)

\* What the target's position says about its lease, its receipt and its end.
TargetInv ==
    /\ link = "none" => tgt = "none"
    /\ tgt = "none" => lease = None /\ ~sdkStarted /\ receipt = None /\ wire = None
    /\ (tgt = "exited") <=> (exit # "running")
    /\ tgt \in {"reading", "deploying", "receipt", "flushing"} => lease \in Leases
    /\ tgt \in {"reading", "deploying"} => receipt = None /\ wire = None
    /\ tgt = "reading" => ~sdkStarted
    /\ tgt = "deploying" => sdkStarted
    /\ tgt \in {"receipt", "flushing"} => receipt # None

\* What a receipt says about the SDK's run, and the SDK about its effect.
EffectInv ==
    /\ ~sdkStarted => effect = "none"
    /\ wire # None => wire = receipt
    /\ receipt # None =>
         /\ lease \in Leases
         /\ receipt.status = "succeeded" => receipt.bound = Bound(lease, SuccessFields)
         /\ receipt.effect = "none" => ~sdkStarted
         /\ receipt.effect = "verified" => effect = "verified"

StreamInv == TypeOK /\ ControllerInv /\ TargetInv /\ EffectInv

-----------------------------------------------------------------------------

\* The invariant holds before anything is validated.
LEMMA InitStreamInv == Init => StreamInv
  <1> SUFFICES ASSUME Init PROVE StreamInv
    OBVIOUS
  <1>1. TypeOK
    <2>1. sent \in 0..3 /\ got \in 0..3
      BY DEF Init
    <2>2. QED
      BY <2>1, Zenon DEF Init, TypeOK, Verdicts
  <1>2. ControllerInv /\ TargetInv /\ EffectInv
    BY DEF Init, ControllerInv, TargetInv, EffectInv
  <1>3. QED
    BY <1>1, <1>2 DEF StreamInv

\* The verdict a parsed receipt leads to, and what it needs of the receipt.
LEMMA ReceiptVerdictFacts ==
  ASSUME NEW rc
  PROVE  /\ ReceiptVerdict(rc) \in {"succeeded", "refused", "ambiguous"}
         /\ ReceiptVerdict(rc) = "succeeded" =>
              /\ rc # None /\ rc.status = "succeeded" /\ rc.effect = "verified"
              /\ rc.bound = Bound(Request, SuccessFields)
         /\ ReceiptVerdict(rc) = "refused" => rc # None /\ rc.effect = "none"
  BY DEF ReceiptVerdict

\* A success that was parsed speaks of a lease that agrees with the request.
LEMMA SuccessAgrees ==
  ASSUME EffectInv, ReceiptVerdict(wire) = "succeeded"
  PROVE  LeaseAgrees /\ effect = "verified"
  <1>1. /\ wire # None /\ wire.status = "succeeded" /\ wire.effect = "verified"
        /\ wire.bound = Bound(Request, SuccessFields)
    BY ReceiptVerdictFacts
  <1>2. lease \in Leases /\ Bound(lease, SuccessFields) = Bound(Request, SuccessFields)
    BY <1>1 DEF EffectInv
  <1>3. ASSUME NEW f \in SuccessFields PROVE lease[f] = Request[f]
    <2>1. Bound(lease, SuccessFields)[f] = lease[f]
      BY DEF Bound
    <2>2. Bound(Request, SuccessFields)[f] = Request[f]
      BY DEF Bound
    <2>3. QED
      BY <1>2, <2>1, <2>2
  <1>4. lease # None
    BY <1>2, LeaseAssumption
  <1>5. effect = "verified"
    BY <1>1 DEF EffectInv
  <1>6. QED
    BY <1>3, <1>4, <1>5 DEF LeaseAgrees

\* The three receipts a target builds are receipts.
LEMMA ReceiptTypes ==
  ASSUME NEW l \in Leases
  PROVE  /\ [bound |-> Bound(l, CommonFields), status |-> "failed", effect |-> "none",
             recovery |-> FALSE] \in Receipts
         /\ [bound |-> Bound(l, SuccessFields), status |-> "succeeded",
             effect |-> "verified", recovery |-> FALSE] \in Receipts
         /\ \A r \in BOOLEAN :
              [bound |-> Bound(l, CommonFields), status |-> "failed",
               effect |-> "unknown", recovery |-> r] \in Receipts
  BY DEF Receipts

\* The controller's steps keep the invariant: they only read the target's state.
LEMMA ControllerStep == StreamInv /\ Controller => StreamInv'
  <1> SUFFICES ASSUME StreamInv, Controller PROVE StreamInv'
    OBVIOUS
  <1> USE DEF StreamInv, TypeOK, ctlVars, tgtVars, Verdicts
  <1>1. CASE Validate
    BY <1>1 DEF Validate, ControllerInv, TargetInv, EffectInv, ReceiptVerdict
  <1>2. CASE LocalRefusal
    BY <1>2 DEF LocalRefusal, ControllerInv, TargetInv, EffectInv, ReceiptVerdict
  <1>3. CASE Start
    BY <1>3 DEF Start, ControllerInv, TargetInv, EffectInv, ReceiptVerdict
  <1>4. CASE WriteSection
    BY <1>4 DEF WriteSection, FrameLen, ControllerInv, TargetInv, EffectInv, ReceiptVerdict
  <1>5. CASE CloseStdin
    BY <1>5 DEF CloseStdin, ControllerInv, TargetInv, EffectInv, ReceiptVerdict
  <1>6. CASE StreamDeadline \/ StreamFault \/ SshFailed
    BY <1>6 DEF StreamDeadline, StreamFault, SshFailed, Abandon,
                ControllerInv, TargetInv, EffectInv, ReceiptVerdict
  <1>7. CASE Complete
    BY <1>7 DEF Complete, ReturnCode, SshEnded,
                ControllerInv, TargetInv, EffectInv, ReceiptVerdict
  <1>8. CASE Parse
    <2>1. ctl = "parsing" /\ ctl' = "done" /\ exit = "clean"
      BY <1>8 DEF Parse, ControllerInv
    <2>2. verdict' = ReceiptVerdict(wire) \/ verdict' = "ambiguous"
      BY <1>8 DEF Parse
    <2>3. UNCHANGED <<sent, stdin, link, tgtVars, effect, late>>
      BY <1>8 DEF Parse
    <2>4. TypeOK'
      BY <2>1, <2>2, <2>3, ReceiptVerdictFacts
    <2>5. ControllerInv'
      BY <2>1, <2>2, <2>3, ReceiptVerdictFacts DEF ControllerInv, ReceiptVerdict
    <2>6. TargetInv' /\ EffectInv'
      BY <2>3 DEF TargetInv, EffectInv
    <2>7. QED
      BY <2>4, <2>5, <2>6
  <1>9. QED
    BY <1>1, <1>2, <1>3, <1>4, <1>5, <1>6, <1>7, <1>8 DEF Controller

\* The target's steps keep the invariant: once a verdict has been read from a
\* receipt, the target has exited and takes no step but an activation that
\* Docker was already asked for.
LEMMA TargetStep == StreamInv /\ Target => StreamInv'
  <1> SUFFICES ASSUME StreamInv, Target PROVE StreamInv'
    OBVIOUS
  <1> USE LeaseAssumption DEF StreamInv, TypeOK, ctlVars, tgtVars, Verdicts
  <1>1. CASE Launch
    BY <1>1 DEF Launch, ControllerInv, TargetInv, EffectInv, ReceiptVerdict
  <1>2. CASE LaunchRefused
    BY <1>2 DEF LaunchRefused, ControllerInv, TargetInv, EffectInv, ReceiptVerdict
  <1>3. CASE ReadSection
    BY <1>3 DEF ReadSection, ControllerInv, TargetInv, EffectInv, ReceiptVerdict
  <1>4. ASSUME NEW rc, rc \in Receipts, rc # None,
               rc.status = "succeeded" => rc.bound = Bound(lease, SuccessFields),
               rc.effect = "none" => ~sdkStarted,
               rc.effect = "verified" => effect = "verified",
               tgt \in {"reading", "deploying"}, tgt' = "receipt", receipt' = rc,
               UNCHANGED <<ctlVars, link, lease, got, sdkStarted, wire, exit, effect, late>>
        PROVE  StreamInv'
    <2>1. TypeOK'
      BY <1>4
    <2>2. ControllerInv'
      BY <1>4 DEF ControllerInv, TargetInv, ReceiptVerdict
    <2>3. TargetInv'
      BY <1>4 DEF TargetInv
    <2>4. EffectInv'
      BY <1>4 DEF EffectInv, TargetInv
    <2>5. QED
      BY <2>1, <2>2, <2>3, <2>4
  <1>5. CASE EnterSdk
    BY <1>5 DEF EnterSdk, ControllerInv, TargetInv, EffectInv, ReceiptVerdict
  <1>6. CASE SdkActivate
    BY <1>6 DEF SdkActivate, ControllerInv, TargetInv, EffectInv, ReceiptVerdict
  <1>7. CASE KindMismatch \/ Truncated \/ ReadFault
    <2>1. tgt = "reading" /\ Refuse
      BY <1>7 DEF KindMismatch, Truncated, ReadFault
    <2>2. RefusalReceipt \in Receipts
      BY <2>1, ReceiptTypes DEF RefusalReceipt, TargetInv
    <2>3. RefusalReceipt # None
      BY <2>2
    <2>4. QED
      BY <2>1, <2>2, <2>3, <1>4 DEF Refuse, RefusalReceipt, TargetInv
  <1>11. CASE SdkVerify
    BY <1>11 DEF SdkVerify, ControllerInv, TargetInv, EffectInv, ReceiptVerdict
  <1>12. CASE SdkReturn
    <2> DEFINE rc == [bound |-> Bound(lease, SuccessFields), status |-> "succeeded",
                      effect |-> "verified", recovery |-> FALSE]
    <2>1. rc \in Receipts
      BY <1>12, ReceiptTypes DEF SdkReturn, TargetInv
    <2>2. rc # None
      BY <2>1
    <2>3. QED
      BY <1>12, <2>1, <2>2, <1>4 DEF SdkReturn
  <1>13. CASE SdkFail
    <2>1. PICK r \in BOOLEAN :
            receipt' = [bound |-> Bound(lease, CommonFields), status |-> "failed",
                        effect |-> "unknown", recovery |-> r]
      BY <1>13 DEF SdkFail
    <2> DEFINE rc == [bound |-> Bound(lease, CommonFields), status |-> "failed",
                      effect |-> "unknown", recovery |-> r]
    <2>2. rc \in Receipts
      BY <1>13, ReceiptTypes DEF SdkFail, TargetInv
    <2>3. rc # None
      BY <2>2
    <2>4. QED
      BY <1>13, <2>1, <2>2, <2>3, <1>4 DEF SdkFail
  <1>8. CASE WriteReceipt
    BY <1>8 DEF WriteReceipt, ControllerInv, TargetInv, EffectInv, ReceiptVerdict
  <1>9. CASE WriteFails \/ Finish \/ Crash
    BY <1>9 DEF WriteFails, Finish, Crash, ControllerInv, TargetInv, EffectInv, ReceiptVerdict
  <1>10. QED
    BY <1>1, <1>2, <1>3, <1>5, <1>6, <1>7, <1>8, <1>9, <1>11, <1>12, <1>13
       DEF Target

\* Every step keeps the invariant.
LEMMA NextStreamInv == StreamInv /\ [Next]_vars => StreamInv'
  <1> SUFFICES ASSUME StreamInv, [Next]_vars PROVE StreamInv'
    OBVIOUS
  <1>1. CASE LinkDrop
    BY <1>1 DEF LinkDrop, StreamInv, TypeOK, ControllerInv, TargetInv, EffectInv,
                ReceiptVerdict, ctlVars, tgtVars
  <1>2. CASE \E party \in {"controller", "target"} : Expire(party)
    BY <1>2 DEF Expire, StreamInv, TypeOK, ControllerInv, TargetInv, EffectInv,
                ReceiptVerdict, ctlVars, tgtVars
  <1>3. CASE UNCHANGED vars
    BY <1>3 DEF vars, StreamInv, TypeOK, ControllerInv, TargetInv, EffectInv,
                ReceiptVerdict, ctlVars, tgtVars
  <1>4. QED
    BY <1>1, <1>2, <1>3, ControllerStep, TargetStep DEF Next

\* The inductive invariant of the delivery protocol.
THEOREM StreamInvariant == Spec => []StreamInv
  BY InitStreamInv, NextStreamInv, PTL DEF Spec

\* Every variable keeps its type, for every set of leases and every request.
THEOREM StreamTypeOK == Spec => []TypeOK
  <1>1. StreamInv => TypeOK
    BY DEF StreamInv
  <1>2. QED
    BY <1>1, StreamInvariant, PTL

\* A success is only reported when the target observed the release running under
\* a lease that agrees with the request in all that the receipt carries.
THEOREM StreamNoFalseSuccess == Spec => []NoFalseSuccess
  <1>1. StreamInv => NoFalseSuccess
    BY SuccessAgrees DEF StreamInv, ControllerInv, NoFalseSuccess
  <1>2. QED
    BY <1>1, StreamInvariant, PTL

\* A refusal and an unambiguous error are only reported when the SDK was not
\* entered and no process is left that could enter it.
THEOREM StreamDefiniteNo == Spec => []DefiniteNoIsFinal
  <1>1. StreamInv => DefiniteNoIsFinal
    BY ReceiptVerdictFacts
       DEF StreamInv, ControllerInv, TargetInv, EffectInv, DefiniteNoIsFinal
  <1>2. QED
    BY <1>1, StreamInvariant, PTL

\* Neither verdict that rests on a receipt is given for a run that did not
\* return normally.
THEOREM StreamOnlyCleanRuns == Spec => []OnlyCleanRunsCount
  <1>1. StreamInv => OnlyCleanRunsCount
    BY DEF StreamInv, ControllerInv, OnlyCleanRunsCount
  <1>2. QED
    BY <1>1, StreamInvariant, PTL

\* What the target writes about its effect is true.
THEOREM StreamReceiptHonest == Spec => []ReceiptHonest
  <1>1. StreamInv => ReceiptHonest
    BY DEF StreamInv, EffectInv, ReceiptHonest
  <1>2. QED
    BY <1>1, StreamInvariant, PTL

-----------------------------------------------------------------------------

\* Every step of the protocol is a step of Delivery, or none.
LEMMA DeliveryStep == StreamInv /\ [Next]_vars => [D!Next]_D!vars
  <1> SUFFICES ASSUME StreamInv, [Next]_vars PROVE [D!Next]_D!vars
    OBVIOUS
  <1> USE DEF D!vars, LeaseAgrees
  <1>1. ASSUME UNCHANGED <<effect, lease, verdict>>
        PROVE  [D!Next]_D!vars
    BY <1>1
  <1>2. ASSUME verdict = "pending", verdict' = "ambiguous", UNCHANGED <<effect, lease>>
        PROVE  [D!Next]_D!vars
    BY <1>2 DEF D!Next, D!Decide, D!GiveUp
  <1>3. CASE LocalRefusal
    BY <1>3 DEF LocalRefusal, StreamInv, ControllerInv, TargetInv, EffectInv, tgtVars,
                D!Next, D!Decide, D!SayNo, D!DefiniteNo
  <1>4. CASE Validate \/ Start \/ WriteSection \/ CloseStdin \/ Complete
    BY <1>4, <1>1 DEF Validate, Start, WriteSection, CloseStdin, Complete, tgtVars
  <1>5. CASE StreamDeadline \/ StreamFault \/ SshFailed
    BY <1>5, <1>2 DEF StreamDeadline, StreamFault, SshFailed, Abandon, tgtVars,
                      StreamInv, ControllerInv
  <1>6. CASE Parse
    <2>1. verdict = "pending" /\ UNCHANGED <<effect, lease, wire>>
      BY <1>6 DEF Parse, StreamInv, ControllerInv, tgtVars
    <2>2. CASE verdict' = "ambiguous"
      BY <2>1, <2>2, <1>2
    <2>3. CASE verdict' = ReceiptVerdict(wire) /\ verdict' = "succeeded"
      BY <2>1, <2>3, SuccessAgrees DEF StreamInv, D!Next, D!Decide, D!Succeed
    <2>4. CASE verdict' = ReceiptVerdict(wire) /\ verdict' = "refused"
      BY <2>1, <2>4, ReceiptVerdictFacts
         DEF StreamInv, EffectInv, D!Next, D!Decide, D!SayNo, D!DefiniteNo
    <2>5. QED
      BY <1>6, <2>2, <2>3, <2>4, ReceiptVerdictFacts DEF Parse
  <1>7. CASE Launch
    BY <1>7 DEF Launch, StreamInv, TargetInv, EffectInv, ctlVars
  <1>8. CASE SdkActivate
    BY <1>8, ReceiptVerdictFacts
       DEF SdkActivate, StreamInv, ControllerInv, TargetInv, EffectInv, ctlVars, tgtVars,
           D!Next, D!Touch, D!DefiniteNo
  <1>9. CASE SdkVerify
    BY <1>9 DEF SdkVerify, ctlVars, tgtVars, D!Next, D!Verify
  <1>10. CASE LaunchRefused \/ ReadSection \/ KindMismatch \/ Truncated \/ ReadFault
              \/ EnterSdk \/ SdkReturn \/ SdkFail \/ WriteReceipt \/ WriteFails
              \/ Finish \/ Crash
    BY <1>10, <1>1 DEF LaunchRefused, ReadSection, KindMismatch, Truncated, ReadFault,
                       Refuse, EnterSdk, SdkReturn, SdkFail, WriteReceipt, WriteFails,
                       Finish, Crash, ctlVars
  <1>11. CASE LinkDrop \/ (\E party \in {"controller", "target"} : Expire(party))
    BY <1>11, <1>1 DEF LinkDrop, Expire, ctlVars, tgtVars
  <1>12. CASE UNCHANGED vars
    BY <1>12, <1>1 DEF vars, ctlVars, tgtVars
  <1>13. QED
    BY <1>3, <1>4, <1>5, <1>6, <1>7, <1>8, <1>9, <1>10, <1>11, <1>12
       DEF Next, Controller, Target

\* The protocol implements the safety part of what deploy promises: one
\* verdict, never against the effect, and no effect after a definite no.
THEOREM StreamImplementsDelivery == Spec => D!Init /\ [][D!Next]_(D!vars)
  <1>1. Init => D!Init
    BY DEF Init, D!Init, tgtVars
  <1>2. QED
    BY <1>1, DeliveryStep, StreamInvariant, PTL DEF Spec

\* What the caller has been told stays true: a verdict is never taken back, and
\* after a definite no nothing is done to the target, whatever of the connection,
\* the target process or its commands is still alive.
THEOREM StreamVerdictStands ==
  Spec => [][verdict # "pending" =>
               /\ verdict' = verdict
               /\ verdict \in {"refused", "error"} => effect' = effect]_vars
  <1>1. ASSUME StreamInv, [Next]_vars, verdict # "pending"
        PROVE  /\ verdict' = verdict
               /\ verdict \in {"refused", "error"} => effect' = effect
    <2>1. [D!Next]_(D!vars)
      BY <1>1, DeliveryStep
    <2>2. verdict' = verdict
      BY <1>1, <2>1
         DEF D!Next, D!vars, D!Touch, D!Verify, D!Decide
    <2>3. ASSUME verdict \in {"refused", "error"} PROVE effect' = effect
      <3>1. effect = "none"
        BY <1>1, <2>3, ReceiptVerdictFacts
           DEF StreamInv, ControllerInv, TargetInv, EffectInv
      <3>2. effect' \in {"none", "maybe", "verified"}
        BY <1>1, NextStreamInv DEF StreamInv, TypeOK
      <3>3. QED
        BY <1>1, <2>1, <2>3, <3>1, <3>2
           DEF D!Next, D!vars, D!Touch, D!Verify, D!Decide, D!DefiniteNo
    <2>4. QED
      BY <2>2, <2>3
  <1>2. QED
    BY <1>1, StreamInvariant, PTL DEF Spec

\* The target's time is up and it has not returned in time.
Belated == "target" \in late /\ exit # "clean"

\* A run that is late once it has not returned will never count as returned.
LEMMA BelatedStays == StreamInv /\ Belated /\ [Next]_vars => Belated'
  <1> SUFFICES ASSUME StreamInv, Belated, [Next]_vars PROVE Belated'
    OBVIOUS
  <1> USE DEF Belated, ctlVars, tgtVars
  <1>1. CASE Finish
    BY <1>1 DEF Finish
  <1>2. CASE Controller
    BY <1>2 DEF Controller, Validate, LocalRefusal, Start, WriteSection, CloseStdin,
                StreamDeadline, StreamFault, Complete, SshFailed, Parse, Abandon
  <1>3. CASE Target /\ ~Finish
    BY <1>3 DEF Target, Launch, LaunchRefused, ReadSection, KindMismatch, Truncated,
                ReadFault, Refuse, EnterSdk, SdkActivate, SdkVerify, SdkReturn, SdkFail,
                WriteReceipt, WriteFails, Crash
  <1>4. CASE LinkDrop \/ (\E party \in {"controller", "target"} : Expire(party))
    BY <1>4 DEF LinkDrop, Expire
  <1>5. CASE UNCHANGED vars
    BY <1>5 DEF vars
  <1>6. QED
    BY <1>1, <1>2, <1>3, <1>4, <1>5 DEF Next

\* A target whose time is up before it returned is never believed afterwards.
THEOREM StreamLateNeverBelieved == Spec => LateNeverBelieved
  <1> DEFINE P == "target" \in late /\ exit = "running"
             Q == verdict \notin {"succeeded", "refused"}
  <1>1. P => Belated
    BY DEF Belated
  <1>2. StreamInv /\ Belated => Q
    BY DEF StreamInv, ControllerInv, Belated
  <1> HIDE DEF P, Q
  <1>3. Spec => [](P => []Q)
    BY <1>1, <1>2, BelatedStays, StreamInvariant, PTL DEF Spec
  <1>4. QED
    BY <1>3 DEF P, Q, LateNeverBelieved

-----------------------------------------------------------------------------
(* StaticRelease *)

\* The places of prepare before the bundle is there, and those of the copy.
Early == {"start", "mkdir", "bare", "mark", "marked", "tell", "scan", "stat"}

Copying == {"open", "first", "rest", "again"}

PlaceInv ==
    /\ step = "prepare" => pc \notin {"check", "produce", "results"}
    /\ step = "finalize" => pc \in {"start", "check", "produce", "results", "ok", "failed"}
    /\ step \in {"upload", "publish"} => pc = "start"
    /\ step = "cleanup" => pc \in {"start", "clean", "sweep", "ok", "failed"}
    /\ step = "over" => pc \in {"ok", "failed"}
    /\ published => step \in {"cleanup", "over"}

\* What prepare has not made yet is not there.
NotYetInv ==
    step = "prepare" =>
        /\ uploaded = NoBytes
        /\ pc \in Early \cup Copying \cup {"digest"} => sealed = NoBytes
        /\ pc \in Early => snapshot = Nothing /\ packed = [f \in Assets |-> <<0, 0>>]
        /\ pc \in {"start", "mkdir"} => ~exists
        /\ pc \in {"bare", "mark", "undo"} => children \subseteq {"other"}

\* The directory is there wherever something is done to its children.
HeldInv ==
    pc \in InTry \cup {"bare", "mark", "undo", "marked", "handover", "check",
                       "produce", "results", "sweep"} => exists

\* A change gives a version that nobody has seen.
FreshInv ==
    /\ \A f \in Assets : disk[f] <= edits + 1 /\ seen[f] <= edits + 1
    /\ file.now <= edits + 1

Packed(f) == packed[f] = <<seen[f], seen[f]>> /\ snapshot[f] = seen[f]

\* What the open file holds is what was found, or a later version for ever; the
\* same for the copies that the two reads gave.
FileInv ==
    pc \in Copying \ {"open"} =>
        LET was == seen[file.name]
        IN  /\ was # 0 /\ file.name \notin todo
            /\ snapshot[file.name] = was
            /\ file.now >= was
            /\ pc # "first" /\ file.now = was => file.first = was
            /\ pc = "again" /\ file.now = was => packed[file.name] = <<was, was>>

\* A file that is as it was found was so when the search ended; the others are
\* packed as they were found then, but for the ones to do and the one at work.
CopyInv ==
    /\ \A f \in Assets : seen[f] = 0 => packed[f] = <<0, 0>> /\ snapshot[f] = 0
    /\ pc \in Copying =>
        /\ \A f \in Assets : seen[f] # 0 /\ disk[f] = seen[f] => snapshot[f] = seen[f]
        /\ \A f \in Assets \ todo :
             seen[f] # 0 /\ (pc = "open" \/ f # file.name) => Packed(f)
        /\ \A f \in todo : seen[f] # 0
    /\ pc = "digest" \/ sealed # NoBytes =>
         \A f \in Assets : packed[f] = <<snapshot[f], snapshot[f]>>

\* The bundle only gets younger, so when it is what was recorded after it was
\* uploaded, it was that when it was uploaded.
SealInv ==
    /\ sealed <= bundle /\ uploaded <= bundle
    /\ step = "finalize" => sealed <= uploaded
    /\ \/ step = "finalize" /\ pc \in {"produce", "results", "ok"}
       \/ step = "publish"
       \/ published
       => uploaded = sealed

\* A directory with nothing of others in it is on its way to its mark, or goes,
\* or is known to the final step, which finds the mark.
DirInv ==
    exists /\ ~cut /\ "other" \notin children =>
        /\ step # "over" /\ ~(step = "cleanup" /\ pc \in {"ok", "failed"})
        /\ \/ pc \in {"bare", "mark", "undo", "sweep"}
           \/ /\ "owned" \in children
              /\ told \/ pc \in {"marked", "tell", "clean"}

SRInv ==
    /\ SRTypeOK /\ PlaceInv /\ NotYetInv /\ HeldInv /\ FreshInv
    /\ FileInv /\ CopyInv /\ SealInv /\ DirInv

-----------------------------------------------------------------------------

\* Each step of StaticRelease keeps the types. A directory that is not there holds
\* nothing, as HeldInv names the places where something is put into it.
LEMMA SRNextTypes == SRInv /\ [SRNext]_SRvars => SRTypeOK'
  <1> SUFFICES ASSUME SRInv, [SRNext]_SRvars PROVE SRTypeOK'
    OBVIOUS
  <1> USE DEF runner, tree, packing, private
  <1>t. SRTypeOK
    BY DEF SRInv
  <1>b. MaxEdits \in Nat /\ MaxDamage \in Nat /\ MaxSignals \in Nat
    BY BoundsAssumption
  <1>h. pc \in {"mark", "stat", "record", "produce"} => exists
    BY DEF SRInv, HeldInv, InTry
  \* Most steps only move on, or change the directory.
  <1>m. ASSUME pc' \in Places, exists' \in BOOLEAN, children' \subseteq Names,
               ~exists' => children' = {},
               UNCHANGED <<runner, tree, packing, bundle, sealed, manifest, cut>>
        PROVE  SRTypeOK'
    BY <1>t, <1>m DEF SRTypeOK
  <1>d. exists \in BOOLEAN /\ children \subseteq Names /\ (~exists => children = {})
    BY <1>t DEF SRTypeOK
  <1>1. CASE CheckInputs \/ EnterTry \/ TakePrivate \/ Pack \/ Handover
    <2>1. pc' \in Places
      BY <1>1 DEF CheckInputs, EnterTry, TakePrivate, Pack, Handover, Goto, Places, InTry
    <2>2. QED
      BY <1>1, <1>m, <1>d, <2>1 DEF CheckInputs, EnterTry, TakePrivate, Pack, Handover
  <1>2. CASE CheckOwned \/ CheckBundle \/ WriteManifestResults
    <2>1. pc' \in Places
      BY <1>2 DEF CheckOwned, CheckBundle, WriteManifestResults, Goto, Places
    <2>2. QED
      BY <1>2, <1>m, <1>d, <2>1 DEF CheckOwned, CheckBundle, WriteManifestResults
  <1>3. CASE BeginCleanup \/ CheckPrivate
    <2>1. pc' \in Places
      BY <1>3 DEF BeginCleanup, CheckPrivate, Cleaned, Goto, Places
    <2>2. QED
      BY <1>3, <1>m, <1>d, <2>1 DEF BeginCleanup, CheckPrivate
  <1>4. CASE MakePrivate \/ MarkOwned \/ WriteRecord
    <2>1. pc' \in Places
      BY <1>4 DEF MakePrivate, MarkOwned, WriteRecord, Goto, Places
    <2>2. exists' \in BOOLEAN /\ children' \subseteq Names /\ (~exists' => children' = {})
      BY <1>4, <1>d, <1>h DEF MakePrivate, MarkOwned, WriteRecord, Names
    <2>3. QED
      BY <1>4, <1>m, <2>1, <2>2 DEF MakePrivate, MarkOwned, WriteRecord
  <1>5. CASE Undo \/ StatAgain \/ Fail \/ Rmdir
    <2>1. pc' \in Places
      BY <1>5 DEF Undo, StatAgain, Fail, Rmdir, Landing, Cleaned, Goto, Reject, Places, InTry
    <2>2. exists' \in BOOLEAN /\ children' \subseteq Names /\ (~exists' => children' = {})
      BY <1>5, <1>d DEF Undo, StatAgain, Fail, Rmdir, Reject
    <2>3. QED
      BY <1>5, <1>m, <2>1, <2>2 DEF Undo, StatAgain, Fail, Rmdir
  <1>6. ASSUME NEW c \in Names, Unlink(c) PROVE SRTypeOK'
    BY <1>6, <1>t, <1>m, <1>d DEF Unlink, SRTypeOK
  <1>7. CASE Intrude
    <2>1. children' \subseteq Names /\ pc' \in Places
      BY <1>7, <1>t DEF Intrude, Names, SRTypeOK
    <2>2. QED
      BY <1>7, <1>m, <1>d, <2>1 DEF Intrude
  <1>8. CASE Tell \/ WriteResults
    <2>1. pc' \in Places
      BY <1>8 DEF Tell, WriteResults, Goto, Places, InTry
    <2>2. QED
      BY <1>8, <1>t, <2>1 DEF Tell, WriteResults, SRTypeOK
  <1>9. CASE Scan
    <2>1. pc' \in Places /\ todo' \subseteq Assets
      BY <1>9 DEF Scan, Goto, Places, InTry
    <2>2. QED
      BY <1>9, <1>t, <2>1 DEF Scan, SRTypeOK
  <1>10. ASSUME NEW f \in Assets, Stat(f) PROVE SRTypeOK'
    <2>1. pc' \in Places
      BY <1>10, <1>t DEF Stat, Goto, Places, SRTypeOK
    <2>2. todo' \subseteq Assets /\ seen' \in [Assets -> 0..(MaxEdits + 1)]
      BY <1>10, <1>t DEF Stat, SRTypeOK
    <2>3. QED
      BY <1>10, <1>t, <2>1, <2>2 DEF Stat, SRTypeOK
  <1>11. CASE CreateBundle
    <2>1. pc' \in Places /\ children' \subseteq Names /\ exists'
      BY <1>11, <1>d, <1>h DEF CreateBundle, Goto, Places, InTry, Names
    <2>2. todo' \subseteq Assets /\ snapshot' \in [Assets -> 0..(MaxEdits + 1)]
      BY <1>11, <1>t, <1>b DEF CreateBundle, SRTypeOK
    <2>3. bundle' \in 0..(MaxDamage + 1)
      BY <1>11, <1>b DEF CreateBundle
    <2>4. QED
      BY <1>11, <1>t, <2>1, <2>2, <2>3 DEF CreateBundle, SRTypeOK
  <1>12. ASSUME NEW f \in Assets, Open(f) PROVE SRTypeOK'
    <2>1. pc' \in Places /\ todo' \subseteq Assets /\ children' \subseteq children
      BY <1>12, <1>t DEF Open, Goto, Reject, Places, InTry, SRTypeOK
    <2>2. disk[f] \in 0..(MaxEdits + 1) /\ 0 \in 0..(MaxEdits + 1)
      BY <1>t, <1>b DEF SRTypeOK
    <2>3. file' \in [name : Assets, now : 0..(MaxEdits + 1), first : 0..(MaxEdits + 1)]
      BY <1>12, <2>2 DEF Open
    <2>4. QED
      BY <1>12, <1>t, <2>1, <2>3 DEF Open, SRTypeOK
  <1>13. CASE ReadFirst
    <2>1. file' \in [name : Assets, now : 0..(MaxEdits + 1), first : 0..(MaxEdits + 1)]
      BY <1>13, <1>t DEF ReadFirst, SRTypeOK
    <2>2. QED
      BY <1>13, <1>t, <2>1 DEF ReadFirst, Goto, SRTypeOK, Places, InTry
  <1>14. CASE ReadRest
    <2>1. packed' \in [Assets -> (0..(MaxEdits + 1)) \X (0..(MaxEdits + 1))]
      BY <1>14, <1>t DEF ReadRest, SRTypeOK
    <2>2. QED
      BY <1>14, <1>t, <2>1 DEF ReadRest, Goto, SRTypeOK, Places, InTry
  <1>15. CASE Digest \/ Produce
    <2>1. pc' \in Places /\ children' \subseteq Names /\ (~exists' => children' = {})
      BY <1>15, <1>d, <1>h DEF Digest, Produce, Goto, Places, InTry, Names
    <2>2. QED
      BY <1>15, <1>t, <2>1 DEF Digest, Produce, SRTypeOK
  <1>16. CASE Interrupt \/ Kill
    <2>1. signals' \in 0..MaxSignals
      BY <1>16, <1>t, <1>b DEF Interrupt, Kill, SRTypeOK
    <2>2. pc' \in Places /\ cut' \in BOOLEAN
      BY <1>16, <1>t DEF Interrupt, Kill, Landing, Goto, Places, InTry, SRTypeOK
    <2>3. QED
      BY <1>16, <1>t, <2>1, <2>2 DEF Interrupt, Kill, SRTypeOK
  <1>17. CASE NextStep \/ Upload \/ Publish
    <2>1. /\ pc' \in Places /\ published' \in BOOLEAN
          /\ step' \in {"prepare", "upload", "finalize", "publish", "cleanup", "over"}
          /\ uploaded' \in {uploaded, bundle}
      BY <1>17, <1>t DEF NextStep, Upload, Publish, Places, SRTypeOK
    <2>2. QED
      BY <1>17, <1>t, <2>1 DEF NextStep, Upload, Publish, SRTypeOK
  <1>18. ASSUME NEW f \in Assets, Edit(f) PROVE SRTypeOK'
    <2>1. /\ edits' \in 0..MaxEdits
          /\ edits + 2 \in 0..(MaxEdits + 1) /\ 0 \in 0..(MaxEdits + 1)
      BY <1>18, <1>t, <1>b DEF Edit, SRTypeOK
    <2>2. disk' \in [Assets -> 0..(MaxEdits + 1)]
      BY <1>18, <1>t, <2>1 DEF Edit, SRTypeOK
    <2>3. file' \in [name : Assets, now : 0..(MaxEdits + 1), first : 0..(MaxEdits + 1)]
      BY <1>18, <1>t, <2>1 DEF Edit, SRTypeOK
    <2>4. QED
      BY <1>18, <1>t, <2>1, <2>2, <2>3 DEF Edit, SRTypeOK
  <1>19. CASE Damage
    <2>1. bundle' \in 0..(MaxDamage + 1)
      BY <1>19, <1>b DEF Damage
    <2>2. QED
      BY <1>19, <1>t, <2>1 DEF Damage, SRTypeOK
  <1>20. CASE UNCHANGED SRvars
    BY <1>20, <1>t, <1>m, <1>d DEF SRvars, SRTypeOK
  <1>21. QED
    BY <1>1, <1>2, <1>3, <1>4, <1>5, <1>6, <1>7, <1>8, <1>9, <1>10, <1>11, <1>12,
       <1>13, <1>14, <1>15, <1>16, <1>17, <1>18, <1>19, <1>20
       DEF SRNext, Advance, Prepare, Finalize, Cleanup

\* Each step of the action has its places, and the manifest is published by the
\* last one before the cleanup.
LEMMA SRNextPlace == SRInv /\ [SRNext]_SRvars => PlaceInv'
  <1> SUFFICES ASSUME SRInv, [SRNext]_SRvars PROVE PlaceInv'
    OBVIOUS
  <1> USE DEF SRTypeOK, PlaceInv, InTry, Landing, Cleaned, Running, Goto, Reject,
              runner
  <1>0. SRTypeOK /\ PlaceInv
    BY BoundsAssumption DEF SRInv
  <1>1. CASE CheckInputs \/ EnterTry \/ TakePrivate \/ Pack \/ Handover
    BY <1>0, <1>1 DEF CheckInputs, EnterTry, TakePrivate, Pack, Handover
  <1>2. CASE CheckOwned \/ CheckBundle \/ WriteManifestResults
    BY <1>0, <1>2 DEF CheckOwned, CheckBundle, WriteManifestResults
  <1>3. CASE BeginCleanup \/ CheckPrivate
    BY <1>0, <1>3 DEF BeginCleanup, CheckPrivate
  <1>4. CASE Tell \/ WriteResults \/ Scan
    BY <1>0, <1>4 DEF Tell, WriteResults, Scan
  <1>5. CASE MakePrivate \/ MarkOwned
    BY <1>0, <1>5 DEF MakePrivate, MarkOwned
  <1>6. CASE Undo
    BY <1>0, <1>6 DEF Undo
  <1>7. CASE WriteRecord
    BY <1>0, <1>7 DEF WriteRecord
  <1>8. ASSUME NEW f \in Assets, Stat(f) PROVE PlaceInv'
    BY <1>0, <1>8 DEF Stat
  <1>9. CASE CreateBundle
    BY <1>0, <1>9 DEF CreateBundle
  <1>10. ASSUME NEW f \in Assets, Open(f) PROVE PlaceInv'
    BY <1>0, <1>10 DEF Open
  <1>11. CASE ReadFirst \/ ReadRest
    BY <1>0, <1>11 DEF ReadFirst, ReadRest
  <1>12. CASE StatAgain
    BY <1>0, <1>12 DEF StatAgain
  <1>13. CASE Digest
    BY <1>0, <1>13 DEF Digest
  <1>14. CASE Produce
    BY <1>0, <1>14 DEF Produce
  <1>15. ASSUME NEW c \in Names, Unlink(c) PROVE PlaceInv'
    BY <1>0, <1>15 DEF Unlink
  <1>16. CASE Rmdir
    BY <1>0, <1>16 DEF Rmdir
  <1>17. CASE Fail
    BY <1>0, <1>17 DEF Fail
  <1>18. CASE Interrupt \/ Kill
    BY <1>0, <1>18 DEF Interrupt, Kill
  <1>19. CASE NextStep
    BY <1>0, <1>19 DEF NextStep
  <1>20. CASE Upload
    BY <1>0, <1>20 DEF Upload
  <1>21. CASE Publish
    BY <1>0, <1>21 DEF Publish
  <1>22. ASSUME NEW f \in Assets, Edit(f) PROVE PlaceInv'
    BY <1>0, <1>22 DEF Edit
  <1>23. CASE Damage \/ Intrude
    BY <1>0, <1>23 DEF Damage, Intrude
  <1>24. CASE UNCHANGED SRvars
    BY <1>0, <1>24 DEF SRvars
  <1>25. QED
    BY <1>1, <1>2, <1>3, <1>4, <1>5, <1>6, <1>7, <1>8, <1>9, <1>10, <1>11, <1>12,
       <1>13, <1>14, <1>15, <1>16, <1>17, <1>18, <1>19, <1>20, <1>21, <1>22, <1>23,
       <1>24
       DEF SRNext, Advance, Prepare, Finalize, Cleanup

\* Prepare's places are passed in their order: nothing is recorded before the
\* digest, and nothing packed before the collection is complete.
LEMMA SRNextNotYet == SRInv /\ [SRNext]_SRvars => NotYetInv'
  <1> SUFFICES ASSUME SRInv, [SRNext]_SRvars PROVE NotYetInv'
    OBVIOUS
  <1> USE DEF SRTypeOK, Places, InTry, NotYetInv, PlaceInv, HeldInv, Early, Copying,
              Landing, Cleaned, NoBytes, Goto, Reject, runner, tree, packing, private
  <1>0. SRTypeOK /\ PlaceInv /\ NotYetInv /\ HeldInv
    BY BoundsAssumption DEF SRInv
  <1>1. CASE CheckInputs \/ EnterTry \/ TakePrivate \/ Pack \/ Handover
    BY <1>0, <1>1 DEF CheckInputs, EnterTry, TakePrivate, Pack, Handover
  <1>2. CASE CheckOwned \/ CheckBundle \/ WriteManifestResults
    BY <1>0, <1>2 DEF CheckOwned, CheckBundle, WriteManifestResults
  <1>3. CASE BeginCleanup \/ CheckPrivate
    BY <1>0, <1>3 DEF BeginCleanup, CheckPrivate
  <1>4. CASE Tell \/ WriteResults \/ Scan
    BY <1>0, <1>4 DEF Tell, WriteResults, Scan
  <1>5. CASE MakePrivate \/ MarkOwned
    BY <1>0, <1>5 DEF MakePrivate, MarkOwned
  <1>6. CASE Undo
    BY <1>0, <1>6 DEF Undo
  <1>7. CASE WriteRecord
    BY <1>0, <1>7 DEF WriteRecord
  <1>8. ASSUME NEW f \in Assets, Stat(f) PROVE NotYetInv'
    BY <1>0, <1>8 DEF Stat
  <1>9. CASE CreateBundle
    BY <1>0, <1>9 DEF CreateBundle
  <1>10. ASSUME NEW f \in Assets, Open(f) PROVE NotYetInv'
    BY <1>0, <1>10 DEF Open
  <1>11. CASE ReadFirst \/ ReadRest
    BY <1>0, <1>11 DEF ReadFirst, ReadRest
  <1>12. CASE StatAgain
    BY <1>0, <1>12 DEF StatAgain
  <1>13. CASE Digest
    BY <1>0, <1>13 DEF Digest
  <1>14. CASE Produce
    BY <1>0, <1>14 DEF Produce
  <1>15. ASSUME NEW c \in Names, Unlink(c) PROVE NotYetInv'
    BY <1>0, <1>15 DEF Unlink
  <1>16. CASE Rmdir
    BY <1>0, <1>16 DEF Rmdir
  <1>17. CASE Fail
    BY <1>0, <1>17 DEF Fail
  <1>18. CASE Interrupt \/ Kill
    BY <1>0, <1>18 DEF Interrupt, Kill
  <1>19. CASE NextStep
    BY <1>0, <1>19 DEF NextStep
  <1>20. CASE Upload
    BY <1>0, <1>20 DEF Upload
  <1>21. CASE Publish
    BY <1>0, <1>21 DEF Publish
  <1>22. ASSUME NEW f \in Assets, Edit(f) PROVE NotYetInv'
    BY <1>0, <1>22 DEF Edit
  <1>23. CASE Damage \/ Intrude
    BY <1>0, <1>23 DEF Damage, Intrude
  <1>24. CASE UNCHANGED SRvars
    BY <1>0, <1>24 DEF SRvars
  <1>25. QED
    BY <1>1, <1>2, <1>3, <1>4, <1>5, <1>6, <1>7, <1>8, <1>9, <1>10, <1>11, <1>12,
       <1>13, <1>14, <1>15, <1>16, <1>17, <1>18, <1>19, <1>20, <1>21, <1>22, <1>23,
       <1>24
       DEF SRNext, Advance, Prepare, Finalize, Cleanup

\* The directory goes only where the process leaves it.
LEMMA SRNextHeld == SRInv /\ [SRNext]_SRvars => HeldInv'
  <1> SUFFICES ASSUME SRInv, [SRNext]_SRvars PROVE HeldInv'
    OBVIOUS
  <1> USE DEF HeldInv, PlaceInv, NotYetInv, InTry, Landing, Cleaned, Goto, Reject,
              runner, private
  <1>0. SRTypeOK /\ PlaceInv /\ NotYetInv /\ HeldInv
    BY BoundsAssumption DEF SRInv
  <1>1. CASE CheckInputs \/ EnterTry \/ TakePrivate \/ Pack \/ Handover
    BY <1>0, <1>1 DEF CheckInputs, EnterTry, TakePrivate, Pack, Handover
  <1>2. CASE CheckOwned \/ CheckBundle \/ WriteManifestResults
    BY <1>0, <1>2 DEF CheckOwned, CheckBundle, WriteManifestResults
  <1>3. CASE BeginCleanup \/ CheckPrivate
    BY <1>0, <1>3 DEF BeginCleanup, CheckPrivate
  <1>4. CASE Tell \/ WriteResults \/ Scan
    BY <1>0, <1>4 DEF Tell, WriteResults, Scan
  <1>5. CASE MakePrivate \/ MarkOwned
    BY <1>0, <1>5 DEF MakePrivate, MarkOwned
  <1>6. CASE Undo
    BY <1>0, <1>6 DEF Undo
  <1>7. CASE WriteRecord
    BY <1>0, <1>7 DEF WriteRecord
  <1>8. ASSUME NEW f \in Assets, Stat(f) PROVE HeldInv'
    BY <1>0, <1>8 DEF Stat
  <1>9. CASE CreateBundle
    BY <1>0, <1>9 DEF CreateBundle
  <1>10. ASSUME NEW f \in Assets, Open(f) PROVE HeldInv'
    BY <1>0, <1>10 DEF Open
  <1>11. CASE ReadFirst \/ ReadRest
    BY <1>0, <1>11 DEF ReadFirst, ReadRest
  <1>12. CASE StatAgain
    BY <1>0, <1>12 DEF StatAgain
  <1>13. CASE Digest
    BY <1>0, <1>13 DEF Digest
  <1>14. CASE Produce
    BY <1>0, <1>14 DEF Produce
  <1>15. ASSUME NEW c \in Names, Unlink(c) PROVE HeldInv'
    BY <1>0, <1>15 DEF Unlink
  <1>16. CASE Rmdir
    BY <1>0, <1>16 DEF Rmdir
  <1>17. CASE Fail
    BY <1>0, <1>17 DEF Fail
  <1>18. CASE Interrupt \/ Kill
    BY <1>0, <1>18 DEF Interrupt, Kill
  <1>19. CASE NextStep
    BY <1>0, <1>19 DEF NextStep
  <1>20. CASE Upload
    BY <1>0, <1>20 DEF Upload
  <1>21. CASE Publish
    BY <1>0, <1>21 DEF Publish
  <1>22. ASSUME NEW f \in Assets, Edit(f) PROVE HeldInv'
    BY <1>0, <1>22 DEF Edit
  <1>23. CASE Damage \/ Intrude
    BY <1>0, <1>23 DEF Damage, Intrude
  <1>24. CASE UNCHANGED SRvars
    BY <1>0, <1>24 DEF SRvars
  <1>25. QED
    BY <1>1, <1>2, <1>3, <1>4, <1>5, <1>6, <1>7, <1>8, <1>9, <1>10, <1>11, <1>12,
       <1>13, <1>14, <1>15, <1>16, <1>17, <1>18, <1>19, <1>20, <1>21, <1>22, <1>23,
       <1>24
       DEF SRNext, Advance, Prepare, Finalize, Cleanup

\* No version is ahead of the changes that were made.
LEMMA SRNextFresh == SRInv /\ [SRNext]_SRvars => FreshInv'
  <1> SUFFICES ASSUME SRInv, [SRNext]_SRvars PROVE FreshInv'
    OBVIOUS
  <1> USE DEF tree, packing, private
  <1>t. SRTypeOK /\ FreshInv
    BY DEF SRInv
  <1>n. /\ edits \in Nat
        /\ \A f \in Assets : disk[f] \in Nat /\ seen[f] \in Nat
        /\ file.name \in Assets /\ file.now \in Nat
    BY <1>t, BoundsAssumption DEF SRTypeOK
  <1>1. ASSUME NEW f \in Assets, Stat(f) PROVE FreshInv'
    BY <1>1, <1>t DEF Stat, FreshInv, SRTypeOK
  <1>2. ASSUME NEW f \in Assets, Open(f) PROVE FreshInv'
    BY <1>2, <1>t DEF Open, FreshInv
  <1>3. CASE ReadFirst
    BY <1>3, <1>t DEF ReadFirst, FreshInv, SRTypeOK
  <1>4. ASSUME NEW f \in Assets, Edit(f) PROVE FreshInv'
    <2>1. edits' = edits + 1 /\ seen' = seen
      BY <1>4 DEF Edit
    <2>2. \A g \in Assets : disk'[g] \in {disk[g], edits + 2, 0}
      BY <1>4, <1>t DEF Edit, SRTypeOK
    <2>3. file'.now \in {file.now, edits + 2}
      BY <1>4, <1>t DEF Edit, SRTypeOK
    <2>4. \A g \in Assets : disk'[g] <= edits' + 1 /\ seen'[g] <= edits' + 1
      BY <1>t, <1>n, <2>1, <2>2 DEF FreshInv
    <2>5. file'.now <= edits' + 1
      BY <1>t, <1>n, <2>1, <2>3 DEF FreshInv
    <2>6. QED
      BY <2>4, <2>5 DEF FreshInv
  <1>5. CASE UNCHANGED <<disk, edits, seen, file>>
    BY <1>5, <1>t DEF FreshInv
  <1>6. QED
    BY <1>1, <1>2, <1>3, <1>4, <1>5
       DEF SRNext, Advance, Prepare, Finalize, Cleanup, SRvars, CheckInputs, EnterTry,
           TakePrivate, Pack, Handover, CheckOwned, CheckBundle, WriteManifestResults,
           BeginCleanup, CheckPrivate, Tell, WriteResults, Scan, MakePrivate,
           MarkOwned, Undo, WriteRecord, CreateBundle, ReadRest, StatAgain, Digest,
           Produce, Unlink, Rmdir, Fail, Interrupt, Kill, NextStep, Upload, Publish,
           Damage, Intrude

\* A change under the open file gives a version that is later than the one found,
\* so a first read, a second read or an fstat that gives the version found proves
\* that there was none before it.
LEMMA SRNextFile == SRInv /\ [SRNext]_SRvars => FileInv'
  <1> SUFFICES ASSUME SRInv, [SRNext]_SRvars PROVE FileInv'
    OBVIOUS
  <1> USE DEF SRTypeOK, PlaceInv, FreshInv, FileInv, Copying, InTry, Landing, Cleaned,
              Goto, Reject, runner, tree, packing, private
  <1>0. /\ SRTypeOK /\ PlaceInv /\ FreshInv /\ FileInv /\ CopyInv /\ MaxEdits \in Nat
    BY BoundsAssumption DEF SRInv
  <1>1. CASE CheckInputs \/ EnterTry \/ TakePrivate \/ Pack \/ Handover
    BY <1>0, <1>1 DEF CheckInputs, EnterTry, TakePrivate, Pack, Handover
  <1>2. CASE CheckOwned \/ CheckBundle \/ WriteManifestResults
    BY <1>0, <1>2 DEF CheckOwned, CheckBundle, WriteManifestResults
  <1>3. CASE BeginCleanup \/ CheckPrivate
    BY <1>0, <1>3 DEF BeginCleanup, CheckPrivate
  <1>4. CASE Tell \/ WriteResults \/ Scan
    BY <1>0, <1>4 DEF Tell, WriteResults, Scan
  <1>5. CASE MakePrivate \/ MarkOwned
    BY <1>0, <1>5 DEF MakePrivate, MarkOwned
  <1>6. CASE Undo
    BY <1>0, <1>6 DEF Undo
  <1>7. CASE WriteRecord
    BY <1>0, <1>7 DEF WriteRecord
  <1>8. ASSUME NEW f \in Assets, Stat(f) PROVE FileInv'
    BY <1>0, <1>8 DEF Stat
  <1>9. CASE CreateBundle
    BY <1>0, <1>9 DEF CreateBundle
  <1>10. ASSUME NEW f \in Assets, Open(f) PROVE FileInv'
    <2>1. /\ file' = [name |-> f, now |-> disk[f], first |-> 0]
          /\ pc = "open" /\ f \in todo /\ todo' = todo \ {f}
          /\ UNCHANGED <<seen, snapshot>>
      BY <1>10 DEF Open
    <2>2. CASE disk[f] = seen[f]
      <3>1. pc' = "first" /\ file'.name = f /\ file'.now = disk[f]
        BY <1>10, <2>1, <2>2 DEF Open
      <3>2. seen[f] # 0 /\ snapshot[f] = seen[f] /\ disk[f] \in Nat
        BY <1>0, <2>1, <2>2 DEF CopyInv
      <3>3. QED
        BY <2>1, <2>2, <3>1, <3>2
    <2>3. CASE disk[f] # seen[f]
      BY <1>10, <2>3 DEF Open
    <2>4. QED
      BY <2>2, <2>3
  <1>11. CASE ReadFirst \/ ReadRest
    BY <1>0, <1>11 DEF ReadFirst, ReadRest
  <1>12. CASE StatAgain
    BY <1>0, <1>12 DEF StatAgain
  <1>13. CASE Digest
    BY <1>0, <1>13 DEF Digest
  <1>14. CASE Produce
    BY <1>0, <1>14 DEF Produce
  <1>15. ASSUME NEW c \in Names, Unlink(c) PROVE FileInv'
    BY <1>0, <1>15 DEF Unlink
  <1>16. CASE Rmdir
    BY <1>0, <1>16 DEF Rmdir
  <1>17. CASE Fail
    BY <1>0, <1>17 DEF Fail
  <1>18. CASE Interrupt \/ Kill
    BY <1>0, <1>18 DEF Interrupt, Kill
  <1>19. CASE NextStep
    BY <1>0, <1>19 DEF NextStep
  <1>20. CASE Upload
    BY <1>0, <1>20 DEF Upload
  <1>21. CASE Publish
    BY <1>0, <1>21 DEF Publish
  <1>22. ASSUME NEW f \in Assets, Edit(f) PROVE FileInv'
    BY <1>0, <1>22 DEF Edit
  <1>23. CASE Damage \/ Intrude
    BY <1>0, <1>23 DEF Damage, Intrude
  <1>24. CASE UNCHANGED SRvars
    BY <1>0, <1>24 DEF SRvars
  <1>25. QED
    BY <1>1, <1>2, <1>3, <1>4, <1>5, <1>6, <1>7, <1>8, <1>9, <1>10, <1>11, <1>12,
       <1>13, <1>14, <1>15, <1>16, <1>17, <1>18, <1>19, <1>20, <1>21, <1>22, <1>23,
       <1>24
       DEF SRNext, Advance, Prepare, Finalize, Cleanup

\* A file leaves the work list packed as it was found, and what is found was there
\* when the search ended: a file that was changed since is never found again.
LEMMA SRNextCopy == SRInv /\ [SRNext]_SRvars => CopyInv'
  <1> SUFFICES ASSUME SRInv, [SRNext]_SRvars PROVE CopyInv'
    OBVIOUS
  <1> USE DEF SRTypeOK, PlaceInv, NotYetInv, FreshInv, FileInv, CopyInv, Packed,
              Early, Copying, InTry, Landing, Cleaned, NoBytes, Nothing, Goto, Reject,
              runner, tree, packing, private
  <1>0. /\ SRTypeOK /\ PlaceInv /\ NotYetInv /\ FreshInv /\ FileInv /\ CopyInv
        /\ MaxEdits \in Nat
    BY BoundsAssumption DEF SRInv
  <1>1. CASE CheckInputs \/ EnterTry \/ TakePrivate \/ Pack \/ Handover
    BY <1>0, <1>1 DEF CheckInputs, EnterTry, TakePrivate, Pack, Handover
  <1>2. CASE CheckOwned \/ CheckBundle \/ WriteManifestResults
    BY <1>0, <1>2 DEF CheckOwned, CheckBundle, WriteManifestResults
  <1>3. CASE BeginCleanup \/ CheckPrivate
    BY <1>0, <1>3 DEF BeginCleanup, CheckPrivate
  <1>4. CASE Tell \/ WriteResults \/ Scan
    BY <1>0, <1>4 DEF Tell, WriteResults, Scan
  <1>5. CASE MakePrivate \/ MarkOwned
    BY <1>0, <1>5 DEF MakePrivate, MarkOwned
  <1>6. CASE Undo
    BY <1>0, <1>6 DEF Undo
  <1>7. CASE WriteRecord
    BY <1>0, <1>7 DEF WriteRecord
  <1>8. ASSUME NEW f \in Assets, Stat(f) PROVE CopyInv'
    BY <1>0, <1>8 DEF Stat
  <1>9. CASE CreateBundle
    BY <1>0, <1>9 DEF CreateBundle
  <1>10. ASSUME NEW f \in Assets, Open(f) PROVE CopyInv'
    BY <1>0, <1>10 DEF Open
  <1>11. CASE ReadFirst \/ ReadRest
    BY <1>0, <1>11 DEF ReadFirst, ReadRest
  <1>12. CASE StatAgain
    BY <1>0, <1>12 DEF StatAgain
  <1>13. CASE Digest
    BY <1>0, <1>13 DEF Digest
  <1>14. CASE Produce
    BY <1>0, <1>14 DEF Produce
  <1>15. ASSUME NEW c \in Names, Unlink(c) PROVE CopyInv'
    BY <1>0, <1>15 DEF Unlink
  <1>16. CASE Rmdir
    BY <1>0, <1>16 DEF Rmdir
  <1>17. CASE Fail
    BY <1>0, <1>17 DEF Fail
  <1>18. CASE Interrupt \/ Kill
    BY <1>0, <1>18 DEF Interrupt, Kill
  <1>19. CASE NextStep
    BY <1>0, <1>19 DEF NextStep
  <1>20. CASE Upload
    BY <1>0, <1>20 DEF Upload
  <1>21. CASE Publish
    BY <1>0, <1>21 DEF Publish
  <1>22. ASSUME NEW f \in Assets, Edit(f) PROVE CopyInv'
    BY <1>0, <1>22 DEF Edit
  <1>23. CASE Damage \/ Intrude
    BY <1>0, <1>23 DEF Damage, Intrude
  <1>24. CASE UNCHANGED SRvars
    BY <1>0, <1>24 DEF SRvars
  <1>25. QED
    BY <1>1, <1>2, <1>3, <1>4, <1>5, <1>6, <1>7, <1>8, <1>9, <1>10, <1>11, <1>12,
       <1>13, <1>14, <1>15, <1>16, <1>17, <1>18, <1>19, <1>20, <1>21, <1>22, <1>23,
       <1>24
       DEF SRNext, Advance, Prepare, Finalize, Cleanup

\* The record is written before the upload and checked after it, and the bundle
\* gets no younger in between: what was uploaded was the bundle of the record.
LEMMA SRNextSeal == SRInv /\ [SRNext]_SRvars => SealInv'
  <1> SUFFICES ASSUME SRInv, [SRNext]_SRvars PROVE SealInv'
    OBVIOUS
  <1> USE DEF SRTypeOK, SealInv, NotYetInv, PlaceInv, Early, Copying, InTry, Landing,
              Cleaned, NoBytes, Goto, Reject, runner, tree, packing, private
  <1>0. SRTypeOK /\ PlaceInv /\ NotYetInv /\ SealInv /\ MaxDamage \in Nat
    BY BoundsAssumption DEF SRInv
  <1>1. CASE CheckInputs \/ EnterTry \/ TakePrivate \/ Pack \/ Handover
    BY <1>0, <1>1 DEF CheckInputs, EnterTry, TakePrivate, Pack, Handover
  <1>2. CASE CheckOwned \/ CheckBundle \/ WriteManifestResults
    BY <1>0, <1>2 DEF CheckOwned, CheckBundle, WriteManifestResults
  <1>3. CASE BeginCleanup \/ CheckPrivate
    BY <1>0, <1>3 DEF BeginCleanup, CheckPrivate
  <1>4. CASE Tell \/ WriteResults \/ Scan
    BY <1>0, <1>4 DEF Tell, WriteResults, Scan
  <1>5. CASE MakePrivate \/ MarkOwned
    BY <1>0, <1>5 DEF MakePrivate, MarkOwned
  <1>6. CASE Undo
    BY <1>0, <1>6 DEF Undo
  <1>7. CASE WriteRecord
    BY <1>0, <1>7 DEF WriteRecord
  <1>8. ASSUME NEW f \in Assets, Stat(f) PROVE SealInv'
    BY <1>0, <1>8 DEF Stat
  <1>9. CASE CreateBundle
    BY <1>0, <1>9 DEF CreateBundle
  <1>10. ASSUME NEW f \in Assets, Open(f) PROVE SealInv'
    BY <1>0, <1>10 DEF Open
  <1>11. CASE ReadFirst \/ ReadRest
    BY <1>0, <1>11 DEF ReadFirst, ReadRest
  <1>12. CASE StatAgain
    BY <1>0, <1>12 DEF StatAgain
  <1>13. CASE Digest
    BY <1>0, <1>13 DEF Digest
  <1>14. CASE Produce
    BY <1>0, <1>14 DEF Produce
  <1>15. ASSUME NEW c \in Names, Unlink(c) PROVE SealInv'
    BY <1>0, <1>15 DEF Unlink
  <1>16. CASE Rmdir
    BY <1>0, <1>16 DEF Rmdir
  <1>17. CASE Fail
    BY <1>0, <1>17 DEF Fail
  <1>18. CASE Interrupt \/ Kill
    BY <1>0, <1>18 DEF Interrupt, Kill
  <1>19. CASE NextStep
    BY <1>0, <1>19 DEF NextStep
  <1>20. CASE Upload
    BY <1>0, <1>20 DEF Upload
  <1>21. CASE Publish
    BY <1>0, <1>21 DEF Publish
  <1>22. ASSUME NEW f \in Assets, Edit(f) PROVE SealInv'
    BY <1>0, <1>22 DEF Edit
  <1>23. CASE Damage \/ Intrude
    BY <1>0, <1>23 DEF Damage, Intrude
  <1>24. CASE UNCHANGED SRvars
    BY <1>0, <1>24 DEF SRvars
  <1>25. QED
    BY <1>1, <1>2, <1>3, <1>4, <1>5, <1>6, <1>7, <1>8, <1>9, <1>10, <1>11, <1>12,
       <1>13, <1>14, <1>15, <1>16, <1>17, <1>18, <1>19, <1>20, <1>21, <1>22, <1>23,
       <1>24
       DEF SRNext, Advance, Prepare, Finalize, Cleanup

\* A directory keeps its mark until a cleanup is about to remove it, and its path
\* is told before any step but a cleanup can end.
LEMMA SRNextDir == SRInv /\ [SRNext]_SRvars => DirInv'
  <1> SUFFICES ASSUME SRInv, [SRNext]_SRvars PROVE DirInv'
    OBVIOUS
  <1> USE DEF SRTypeOK, DirInv, NotYetInv, HeldInv, PlaceInv, InTry, Landing, Cleaned,
              Running, Goto, Reject, runner, tree, packing, private
  <1>0. SRTypeOK /\ PlaceInv /\ NotYetInv /\ HeldInv /\ DirInv
    BY BoundsAssumption DEF SRInv
  <1>1. CASE CheckInputs \/ EnterTry \/ TakePrivate \/ Pack \/ Handover
    BY <1>0, <1>1 DEF CheckInputs, EnterTry, TakePrivate, Pack, Handover
  <1>2. CASE CheckOwned \/ CheckBundle \/ WriteManifestResults
    BY <1>0, <1>2 DEF CheckOwned, CheckBundle, WriteManifestResults
  <1>3. CASE BeginCleanup \/ CheckPrivate
    BY <1>0, <1>3 DEF BeginCleanup, CheckPrivate
  <1>4. CASE Tell \/ WriteResults \/ Scan
    BY <1>0, <1>4 DEF Tell, WriteResults, Scan
  <1>5. CASE MakePrivate \/ MarkOwned
    BY <1>0, <1>5 DEF MakePrivate, MarkOwned
  <1>6. CASE Undo
    BY <1>0, <1>6 DEF Undo
  <1>7. CASE WriteRecord
    BY <1>0, <1>7 DEF WriteRecord
  <1>8. ASSUME NEW f \in Assets, Stat(f) PROVE DirInv'
    BY <1>0, <1>8 DEF Stat
  <1>9. CASE CreateBundle
    BY <1>0, <1>9 DEF CreateBundle
  <1>10. ASSUME NEW f \in Assets, Open(f) PROVE DirInv'
    BY <1>0, <1>10 DEF Open
  <1>11. CASE ReadFirst \/ ReadRest
    BY <1>0, <1>11 DEF ReadFirst, ReadRest
  <1>12. CASE StatAgain
    BY <1>0, <1>12 DEF StatAgain
  <1>13. CASE Digest
    BY <1>0, <1>13 DEF Digest
  <1>14. CASE Produce
    BY <1>0, <1>14 DEF Produce
  <1>15. ASSUME NEW c \in Names, Unlink(c) PROVE DirInv'
    BY <1>0, <1>15 DEF Unlink
  <1>16. CASE Rmdir
    <2>1. /\ pc = "sweep" /\ step' = step /\ children' = children /\ cut' = cut
          /\ exists' => children # {}
      BY <1>16 DEF Rmdir
    <2>2. children \subseteq {"other"}
      BY <1>16 DEF Rmdir
    <2>3. exists' => "other" \in children'
      BY <2>1, <2>2
    <2>4. QED
      BY <2>3
  <1>17. CASE Fail
    BY <1>0, <1>17 DEF Fail
  <1>18. CASE Interrupt \/ Kill
    BY <1>0, <1>18 DEF Interrupt, Kill
  <1>19. CASE NextStep
    BY <1>0, <1>19 DEF NextStep
  <1>20. CASE Upload
    BY <1>0, <1>20 DEF Upload
  <1>21. CASE Publish
    BY <1>0, <1>21 DEF Publish
  <1>22. ASSUME NEW f \in Assets, Edit(f) PROVE DirInv'
    BY <1>0, <1>22 DEF Edit
  <1>23. CASE Damage \/ Intrude
    BY <1>0, <1>23 DEF Damage, Intrude
  <1>24. CASE UNCHANGED SRvars
    BY <1>0, <1>24 DEF SRvars
  <1>25. QED
    BY <1>1, <1>2, <1>3, <1>4, <1>5, <1>6, <1>7, <1>8, <1>9, <1>10, <1>11, <1>12,
       <1>13, <1>14, <1>15, <1>16, <1>17, <1>18, <1>19, <1>20, <1>21, <1>22, <1>23,
       <1>24
       DEF SRNext, Advance, Prepare, Finalize, Cleanup

-----------------------------------------------------------------------------

\* The invariant holds before prepare starts.
LEMMA InitSRInv == SRInit => SRInv
  <1> SUFFICES ASSUME SRInit PROVE SRInv
    OBVIOUS
  <1>0. /\ Assets # {} /\ MaxEdits \in Nat /\ MaxDamage \in Nat /\ MaxSignals \in Nat
    BY BoundsAssumption
  <1>1. SRTypeOK
    <2>1. (CHOOSE f \in Assets : TRUE) \in Assets
      BY <1>0
    <2>2. file \in [name : Assets, now : 0..(MaxEdits + 1), first : 0..(MaxEdits + 1)]
      BY <1>0, <2>1 DEF SRInit
    <2>3. disk \in [Assets -> 0..(MaxEdits + 1)]
      BY <1>0 DEF SRInit
    <2>4. /\ {bundle, sealed, uploaded, manifest} \subseteq 0..(MaxDamage + 1)
          /\ signals \in 0..MaxSignals /\ edits \in 0..MaxEdits
      BY <1>0 DEF SRInit, NoBytes
    <2>5. /\ seen \in [Assets -> 0..(MaxEdits + 1)]
          /\ snapshot \in [Assets -> 0..(MaxEdits + 1)]
          /\ packed \in [Assets -> (0..(MaxEdits + 1)) \X (0..(MaxEdits + 1))]
      BY <1>0 DEF SRInit, Nothing
    <2>6. QED
      BY <2>2, <2>3, <2>4, <2>5 DEF SRInit, SRTypeOK, Places
  <1>2. PlaceInv /\ NotYetInv /\ HeldInv /\ DirInv
    BY DEF SRInit, PlaceInv, NotYetInv, HeldInv, DirInv, Early, Copying, InTry
  <1>3. FreshInv /\ FileInv
    BY <1>0 DEF SRInit, FreshInv, FileInv, Copying, Nothing
  <1>4. CopyInv /\ SealInv
    BY DEF SRInit, CopyInv, SealInv, Copying, Nothing, NoBytes
  <1>5. QED
    BY <1>1, <1>2, <1>3, <1>4 DEF SRInv

\* Every step of the action, of a signal and of the other processes keeps it.
LEMMA NextSRInv == SRInv /\ [SRNext]_SRvars => SRInv'
  BY SRNextTypes, SRNextPlace, SRNextNotYet, SRNextHeld, SRNextFresh, SRNextFile,
     SRNextCopy, SRNextSeal, SRNextDir
     DEF SRInv

\* The inductive invariant of one use of the publish-static-release action.
THEOREM SRInvariant == SRSpec => []SRInv
  BY InitSRInv, NextSRInv, PTL DEF SRSpec

\* Every variable keeps its type, and a directory that is gone has no children,
\* whatever process writes to the assets and the bundle (_private_dir, cleanup).
THEOREM SRTypeCorrect == SRSpec => []SRTypeOK
  <1>1. SRInv => SRTypeOK
    BY DEF SRInv
  <1>2. QED
    BY <1>1, SRInvariant, PTL

\* For any number of files and of changes to them: what _collect and
\* _write_bundle pack, file after file and in two reads each, is the tree as it
\* was at one moment, or nothing is recorded.
THEOREM SRBundleIsSnapshot == SRSpec => []BundleIsSnapshot
  <1>1. SRInv => BundleIsSnapshot
    BY DEF SRInv, CopyInv, BundleIsSnapshot
  <1>2. QED
    BY <1>1, SRInvariant, PTL

\* When the manifest is published, whatever it says of the bundle, the bundle
\* artifact next to it is the one that prepare recorded: finalize's check comes
\* after the upload, and the same bytes never come back.
THEOREM SRPublishedIsSealed == SRSpec => [](published => uploaded = sealed)
  <1>1. SRInv => (published => uploaded = sealed)
    BY DEF SRInv, SealInv
  <1>2. QED
    BY <1>1, SRInvariant, PTL

\* So a consumer that verifies the bundle artifact against the manifest has the
\* bytes of the record (finalize, verify_static_bundle).
THEOREM SRAcceptedIsSealed == SRSpec => []AcceptedIsSealed
  <1>1. SRInv => AcceptedIsSealed
    BY DEF SRInv, SealInv, AcceptedIsSealed
  <1>2. QED
    BY <1>1, SRInvariant, PTL

\* However many interrupts and kills there are: when the action is over, the
\* directory is gone, but for the cuts and the intruders that NothingLeft names
\* (_private_dir, prepare, cleanup and main).
THEOREM SRNothingLeft == SRSpec => []NothingLeft
  <1>1. SRInv => NothingLeft
    BY DEF SRInv, DirInv, NothingLeft
  <1>2. QED
    BY <1>1, SRInvariant, PTL
=============================================================================
