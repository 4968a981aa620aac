-------------------------- MODULE OriginKeysProofs --------------------------
(***************************************************************************)
(* What is proved about transfers of origin keys, for any number of them,  *)
(* overlapping or not, and any size of the batch.                          *)
(***************************************************************************)
EXTENDS OriginKeys, TLAPS

\* Before the payload, and from the moment the input has ended.
Early == {"none", "request", "snapshot"}
Applying == {"recheck", "check", "replace", "verify", "receipt", "exiting"}

InputEnded(t) == stdin[t] = "closed" \/ link[t] = "down"

\* The sender: no key leaves before READY, no verdict before the end.
SenderInv(t) ==
    /\ snd[t] \in {"idle", "header", "ready"} => ~sent[t] /\ payload[t] = 0
    /\ snd[t] \in {"payload", "receipt", "status"} => sent[t]
    /\ payload[t] > 0 => sent[t]
    /\ snd[t] = "idle" => link[t] = "none"
    /\ verdict[t] # "pending" => snd[t] = "done"
    /\ verdict[t] = "error" => ~sent[t]
    /\ verdict[t] = "succeeded" => exit[t] = "clean"

\* The receiver: what is staged was sent, and in the replacing loop the keys
\* before the cursor are replaced and the others are staged.
ReceiverInv(t) ==
    /\ rcv[t] \in Early => temps[t] = {}
    /\ rcv[t] \in Early \cup {"staging", "recheck"} => replaced[t] = {}
    /\ \A k \in temps[t] : k <= payload[t]
    /\ rcv[t] \in Applying => payload[t] = N /\ InputEnded(t)
    /\ rcv[t] = "recheck" => temps[t] = Keys
    /\ rcv[t] \in {"check", "replace"} =>
         \A k \in Keys : (k \in replaced[t] <=> k < cursor[t])
                           /\ (k \in temps[t] <=> k >= cursor[t])
    /\ rcv[t] = "verify" =>
         \A k \in Keys : (k \in replaced[t] <=> k <= cursor[t])
                           /\ (k \in temps[t] <=> k > cursor[t])
    /\ rcv[t] \in {"receipt", "exiting"} \/ exit[t] = "clean" =>
         replaced[t] = Keys /\ temps[t] = {}
    /\ exit[t] # "running" <=> rcv[t] = "ended"
    /\ replaced[t] # {} => payload[t] = N /\ InputEnded(t)

\* An installed key, and a key seen installed, was put there by a replacement.
OwnerInv ==
    /\ \A k \in Keys : dest[k] \in Transfers => k \in replaced[dest[k]]
    /\ \A t \in Transfers, k \in Keys :
        before[t][k] \in Transfers => k \in replaced[before[t][k]]

\* An overtaken receiver has yet to look at a last key that is not the one it
\* saw, and that no later replacement can bring back.
StaleInv ==
    \A t \in stale :
        /\ replaced[t] = {}
        /\ rcv[t] \in {"staging", "recheck", "ended"}
        /\ rcv[t] # "ended" => before[t][N] # dest[N]

KeysInv ==
    /\ TypeOK
    /\ \A t \in Transfers : SenderInv(t) /\ ReceiverInv(t)
    /\ OwnerInv
    /\ StaleInv

-----------------------------------------------------------------------------

\* A step of a sender, its receiver or their connection.
Own(t) == Sender(t) \/ Receiver(t) \/ LinkDrop(t)

\* N is a key.
LEMMA LastKey == N \in Nat /\ N \in Keys /\ \A k \in Keys : k \in Nat /\ k <= N /\ k > 0
  BY KeysAssumption DEF Keys

\* Another transfer notices nothing of it.
LEMMA OtherTransfer ==
  ASSUME TypeOK, NEW t \in Transfers, Own(t), NEW u \in Transfers \ {t}
  PROVE  /\ snd'[u] = snd[u] /\ sent'[u] = sent[u] /\ payload'[u] = payload[u]
         /\ stdin'[u] = stdin[u] /\ verdict'[u] = verdict[u] /\ link'[u] = link[u]
         /\ rcv'[u] = rcv[u] /\ cursor'[u] = cursor[u] /\ before'[u] = before[u]
         /\ temps'[u] = temps[u] /\ exit'[u] = exit[u] /\ replaced'[u] = replaced[u]
  <1> USE DEF TypeOK, SendAt, Decide, ReceiveAt, Advance, Emit, sndVars, rcvVars, installed
  <1>1. CASE Start(t) \/ RefuseRequest(t) \/ SendHeader(t) \/ ReadReady(t)
    BY <1>1 DEF Start, RefuseRequest, SendHeader, ReadReady
  <1>2. CASE SendKey(t) \/ CloseStdin(t) \/ ReadReceipt(t)
    BY <1>2 DEF SendKey, CloseStdin, ReadReceipt
  <1>3. CASE Succeed(t) \/ SenderFails(t) \/ LinkDrop(t)
    BY <1>3 DEF Succeed, SenderFails, LinkDrop
  <1>4. CASE Open(t) \/ ReadHeader(t) \/ Snapshot(t) \/ Stage(t) \/ Eof(t)
    BY <1>4 DEF Open, ReadHeader, Snapshot, Stage, Eof
  <1>5. CASE Recheck(t) \/ Check(t) \/ Replace(t) \/ Verify(t)
    BY <1>5 DEF Recheck, Check, Replace, Verify
  <1>6. CASE Complete(t) \/ Leave(t) \/ Refuse(t) \/ Kill(t)
    BY <1>6 DEF Complete, Leave, Refuse, Kill
  <1>7. QED
    BY <1>1, <1>2, <1>3, <1>4, <1>5, <1>6 DEF Own, Sender, Receiver

\* Advancing keeps to the keys.
LEMMA AdvanceTypes ==
  ASSUME TypeOK, NEW t \in Transfers, NEW label, NEW next, Advance(t, label, next),
         label \in Receiving, next \in Receiving
  PROVE  /\ rcv' \in [Transfers -> {"none", "exiting", "ended"} \cup Receiving]
         /\ cursor' \in [Transfers -> 1..N]
  <1>1. /\ rcv \in [Transfers -> {"none", "exiting", "ended"} \cup Receiving]
        /\ cursor \in [Transfers -> 1..N]
    BY DEF TypeOK
  <1>2. CASE cursor[t] < N
    <2>1. cursor[t] + 1 \in 1..N
      BY <1>1, <1>2, LastKey
    <2>2. /\ rcv' = [rcv EXCEPT ![t] = label]
          /\ cursor' = [cursor EXCEPT ![t] = cursor[t] + 1]
      BY <1>2 DEF Advance, ReceiveAt
    <2>3. QED
      BY <1>1, <2>1, <2>2
  <1>3. CASE ~(cursor[t] < N)
    <2>1. /\ rcv' = [rcv EXCEPT ![t] = next]
          /\ cursor' = [cursor EXCEPT ![t] = 1]
      BY <1>3 DEF Advance, ReceiveAt
    <2>2. 1 \in 1..N
      BY KeysAssumption
    <2>3. QED
      BY <1>1, <2>1, <2>2
  <1>4. QED
    BY <1>2, <1>3

\* A line the receiver writes, or temporary files it has unlinked or not.
LEMMA EmitTypes ==
  ASSUME TypeOK, NEW t \in Transfers, NEW line \in {"ready", "complete", "refused"},
         Emit(t, line) \/ UNCHANGED out
  PROVE  out' \in [Transfers -> SUBSET {"ready", "complete", "refused"}]
  <1>1. out \in [Transfers -> SUBSET {"ready", "complete", "refused"}]
    BY DEF TypeOK
  <1>2. CASE Emit(t, line)
    BY <1>1, <1>2 DEF Emit
  <1>3. CASE UNCHANGED out
    BY <1>1, <1>3
  <1>4. QED
    BY <1>2, <1>3

LEMMA UnlinkTypes ==
  ASSUME TypeOK, NEW t \in Transfers, NEW left \in {{}, temps[t]},
         temps' = [temps EXCEPT ![t] = left]
  PROVE  temps' \in [Transfers -> SUBSET Keys]
  BY DEF TypeOK

\* Every step keeps the types.
LEMMA KeysTypes == TypeOK /\ [Next]_vars => TypeOK'
  <1> SUFFICES ASSUME TypeOK, [Next]_vars PROVE TypeOK'
    OBVIOUS
  <1> USE LastKey, KeysAssumption
          DEF TypeOK, SendAt, Decide, ReceiveAt, Advance, Emit, sndVars, rcvVars, installed,
              Sending, Receiving, Keys
  <1>1. ASSUME NEW t \in Transfers, Own(t) PROVE TypeOK'
    <2>1. CASE Start(t)
      BY <1>1, <2>1 DEF Start
    <2>2. CASE RefuseRequest(t)
      BY <1>1, <2>2 DEF RefuseRequest
    <2>3. CASE SendHeader(t)
      BY <1>1, <2>3 DEF SendHeader
    <2>4. CASE ReadReady(t)
      BY <1>1, <2>4 DEF ReadReady
    <2>5. CASE SendKey(t)
      BY <1>1, <2>5 DEF SendKey
    <2>6. CASE CloseStdin(t)
      BY <1>1, <2>6 DEF CloseStdin
    <2>7. CASE ReadReceipt(t)
      BY <1>1, <2>7 DEF ReadReceipt
    <2>8. CASE Succeed(t)
      BY <1>1, <2>8 DEF Succeed
    <2>9. CASE SenderFails(t)
      BY <1>1, <2>9 DEF SenderFails
    <2>10. CASE LinkDrop(t)
      BY <1>1, <2>10 DEF LinkDrop
    <2>11. CASE Open(t)
      BY <1>1, <2>11 DEF Open
    <2>12. CASE ReadHeader(t)
      BY <1>1, <2>12 DEF ReadHeader
    <2>13. CASE Snapshot(t)
      <3>1. /\ rcv' \in [Transfers -> {"none", "exiting", "ended"} \cup Receiving]
            /\ cursor' \in [Transfers -> 1..N]
        BY <1>1, <2>13, AdvanceTypes DEF Snapshot
      <3>2. before' \in [Transfers -> [Keys -> Transfers \cup {Old}]]
        <4>1. before'[t] \in [Keys -> Transfers \cup {Old}]
          BY <1>1, <2>13 DEF Snapshot
        <4>2. QED
          BY <1>1, <2>13, <4>1 DEF Snapshot
      <3>3. out' \in [Transfers -> SUBSET {"ready", "complete", "refused"}]
        <4>1. Emit(t, "ready") \/ UNCHANGED out
          BY <2>13 DEF Snapshot
        <4>2. QED
          BY <4>1, EmitTypes
      <3>4. QED
        BY <1>1, <2>13, <3>1, <3>2, <3>3 DEF Snapshot
    <2>14. CASE Stage(t)
      BY <1>1, <2>14 DEF Stage
    <2>15. CASE Eof(t)
      BY <1>1, <2>15 DEF Eof
    <2>16. CASE Recheck(t)
      <3>1. /\ rcv' \in [Transfers -> {"none", "exiting", "ended"} \cup Receiving]
            /\ cursor' \in [Transfers -> 1..N]
        BY <1>1, <2>16, AdvanceTypes DEF Recheck
      <3>2. QED
        BY <1>1, <2>16, <3>1 DEF Recheck
    <2>17. CASE Check(t)
      BY <1>1, <2>17 DEF Check
    <2>18. CASE Replace(t)
      BY <1>1, <2>18 DEF Replace
    <2>19. CASE Verify(t)
      <3>1. /\ rcv' \in [Transfers -> {"none", "exiting", "ended"} \cup Receiving]
            /\ cursor' \in [Transfers -> 1..N]
        BY <1>1, <2>19, AdvanceTypes DEF Verify
      <3>2. QED
        BY <1>1, <2>19, <3>1 DEF Verify
    <2>20. CASE Complete(t)
      BY <1>1, <2>20 DEF Complete
    <2>21. CASE Leave(t)
      BY <1>1, <2>21 DEF Leave
    <2>22. CASE Refuse(t)
      <3>1. out' \in [Transfers -> SUBSET {"ready", "complete", "refused"}]
        <4>1. Emit(t, "refused") \/ UNCHANGED out
          BY <2>22 DEF Refuse
        <4>2. QED
          BY <4>1, EmitTypes
      <3>2. temps' \in [Transfers -> SUBSET Keys]
        <4>1. PICK left \in {{}, temps[t]} : temps' = [temps EXCEPT ![t] = left]
          BY <2>22 DEF Refuse
        <4>2. QED
          BY <4>1, UnlinkTypes
      <3>3. QED
        BY <1>1, <2>22, <3>1, <3>2 DEF Refuse
    <2>23. CASE Kill(t)
      BY <1>1, <2>23 DEF Kill
    <2>24. QED
      BY <1>1, <2>1, <2>2, <2>3, <2>4, <2>5, <2>6, <2>7, <2>8, <2>9, <2>10, <2>11,
         <2>12, <2>13, <2>14, <2>15, <2>16, <2>17, <2>18, <2>19, <2>20, <2>21, <2>22,
         <2>23 DEF Own, Sender, Receiver
  <1>2. CASE UNCHANGED vars
    BY <1>2 DEF vars, installed
  <1>3. QED
    BY <1>1, <1>2 DEF Next, Own

-----------------------------------------------------------------------------

\* A step keeps what is known of the sender whose step it is.
LEMMA OwnSender ==
  ASSUME TypeOK, NEW t \in Transfers, SenderInv(t), ReceiverInv(t), Own(t)
  PROVE  SenderInv(t)'
  <1> USE KeysAssumption
          DEF TypeOK, SenderInv, ReceiverInv, SendAt, Decide, ReceiveAt, Advance,
              Emit, sndVars, rcvVars, installed, Sending, Receiving
  <1>1. CASE Start(t)
    BY <1>1 DEF Start
  <1>2. CASE RefuseRequest(t)
    BY <1>2 DEF RefuseRequest
  <1>3. CASE SendHeader(t)
    BY <1>3 DEF SendHeader
  <1>4. CASE ReadReady(t)
    BY <1>4 DEF ReadReady
  <1>5. CASE SendKey(t)
    BY <1>5 DEF SendKey
  <1>6. CASE CloseStdin(t)
    BY <1>6 DEF CloseStdin
  <1>7. CASE ReadReceipt(t)
    BY <1>7 DEF ReadReceipt
  <1>8. CASE Succeed(t)
    BY <1>8 DEF Succeed
  <1>9. CASE SenderFails(t)
    BY <1>9 DEF SenderFails
  <1>10. CASE LinkDrop(t)
    BY <1>10 DEF LinkDrop
  <1>11. CASE Open(t)
    BY <1>11 DEF Open
  <1>12. CASE ReadHeader(t)
    BY <1>12 DEF ReadHeader
  <1>13. CASE Snapshot(t)
    BY <1>13 DEF Snapshot
  <1>14. CASE Stage(t)
    BY <1>14 DEF Stage
  <1>15. CASE Eof(t)
    BY <1>15 DEF Eof
  <1>16. CASE Recheck(t)
    BY <1>16 DEF Recheck
  <1>17. CASE Check(t)
    BY <1>17 DEF Check
  <1>18. CASE Replace(t)
    BY <1>18 DEF Replace
  <1>19. CASE Verify(t)
    BY <1>19 DEF Verify
  <1>20. CASE Complete(t)
    BY <1>20 DEF Complete
  <1>21. CASE Leave(t)
    BY <1>21 DEF Leave
  <1>22. CASE Refuse(t)
    BY <1>22 DEF Refuse
  <1>23. CASE Kill(t)
    BY <1>23 DEF Kill
  <1>24. QED
    BY <1>1, <1>2, <1>3, <1>4, <1>5, <1>6, <1>7, <1>8, <1>9, <1>10, <1>11,
       <1>12, <1>13, <1>14, <1>15, <1>16, <1>17, <1>18, <1>19, <1>20, <1>21, <1>22,
       <1>23 DEF Own, Sender, Receiver

\* The whole batch was sent when its last key was staged.
LEMMA WholePayload == ASSUME NEW p \in 0..N, N <= p PROVE p = N
  BY KeysAssumption

\* And what is known of the receiver.
LEMMA OwnReceiver ==
  ASSUME TypeOK, NEW t \in Transfers, SenderInv(t), ReceiverInv(t), Own(t)
  PROVE  ReceiverInv(t)'
  <1> USE LastKey, KeysAssumption
          DEF TypeOK, SenderInv, ReceiverInv, InputEnded, SendAt, Decide, ReceiveAt,
              Advance, Emit, sndVars, rcvVars, installed, Sending, Receiving, Early, Applying
  <1>1. CASE Start(t)
    BY <1>1 DEF Start
  <1>2. CASE RefuseRequest(t)
    BY <1>2 DEF RefuseRequest
  <1>3. CASE SendHeader(t)
    BY <1>3 DEF SendHeader
  <1>4. CASE ReadReady(t)
    BY <1>4 DEF ReadReady
  <1>5. CASE SendKey(t)
    BY <1>5 DEF SendKey
  <1>6. CASE CloseStdin(t)
    BY <1>6 DEF CloseStdin
  <1>7. CASE ReadReceipt(t)
    BY <1>7 DEF ReadReceipt
  <1>8. CASE Succeed(t)
    BY <1>8 DEF Succeed
  <1>9. CASE SenderFails(t)
    BY <1>9 DEF SenderFails
  <1>10. CASE LinkDrop(t)
    BY <1>10 DEF LinkDrop
  <1>11. CASE Open(t)
    BY <1>11 DEF Open
  <1>12. CASE ReadHeader(t)
    BY <1>12 DEF ReadHeader
  <1>13. CASE Snapshot(t)
    BY <1>13 DEF Snapshot
  <1>14. CASE Stage(t)
    BY <1>14 DEF Stage
  <1>15. CASE Eof(t)
    <2>1. payload[t] = N
      <3>1. N \in temps[t]
        BY <1>15 DEF Eof
      <3>2. N <= payload[t]
        BY <3>1
      <3>3. payload[t] \in 0..N /\ N \in Nat
        OBVIOUS
      <3>4. QED
        BY <3>2, <3>3, WholePayload
    <2>2. /\ rcv' = [rcv EXCEPT ![t] = "recheck"]
          /\ temps[t] = Keys /\ InputEnded(t)
          /\ UNCHANGED <<sndVars, link, temps, exit, replaced>>
      BY <1>15 DEF Eof
    <2>3. rcv'[t] = "recheck"
      BY <2>2
    <2>4. replaced[t] = {} /\ exit[t] = "running"
      BY <1>15 DEF Eof
    <2>5. QED
      BY <2>1, <2>2, <2>3, <2>4
  <1>16. CASE Recheck(t)
    BY <1>16 DEF Recheck
  <1>17. CASE Check(t)
    BY <1>17 DEF Check
  <1>18. CASE Replace(t)
    <2>1. /\ rcv[t] = "replace" /\ rcv'[t] = "verify" /\ cursor'[t] = cursor[t]
          /\ replaced'[t] = replaced[t] \cup {cursor[t]}
          /\ temps'[t] = temps[t] \ {cursor[t]}
          /\ UNCHANGED <<sndVars, link, exit>>
      BY <1>18 DEF Replace
    <2>2. cursor[t] \in Nat
      BY DEF Keys
    <2>3. \A k \in Keys : (k \in replaced'[t] <=> k <= cursor'[t])
                            /\ (k \in temps'[t] <=> k > cursor'[t])
      <3>1. \A k \in Keys : (k \in replaced[t] <=> k < cursor[t])
                              /\ (k \in temps[t] <=> k >= cursor[t])
        BY <2>1
      <3>2. \A k \in Keys : (k < cursor[t] \/ k = cursor[t] <=> k <= cursor[t])
                              /\ (k >= cursor[t] /\ k # cursor[t] <=> k > cursor[t])
        BY ONLY <2>2, LastKey
      <3>3. QED
        BY <2>1, <3>1, <3>2
    <2>4. QED
      BY <2>1, <2>3
  <1>19. CASE Verify(t)
    <2>1. /\ rcv[t] = "verify"
          /\ UNCHANGED <<sndVars, link, temps, exit, replaced>>
      BY <1>19 DEF Verify
    <2>2. cursor[t] \in Nat /\ cursor[t] <= N
      BY DEF Keys
    <2>3. CASE cursor[t] < N
      <3>1. rcv'[t] = "check" /\ cursor'[t] = cursor[t] + 1
        BY <1>19, <2>3 DEF Verify
      <3>2. \A k \in Keys : (k < cursor'[t] <=> k <= cursor[t])
                              /\ (k >= cursor'[t] <=> k > cursor[t])
        BY <2>2, <3>1
      <3>3. QED
        BY <2>1, <3>1, <3>2
    <2>4. CASE ~(cursor[t] < N)
      <3>1. rcv'[t] = "receipt"
        BY <1>19, <2>4 DEF Verify
      <3>2. \A k \in Keys : k \in replaced[t] /\ k \notin temps[t]
        BY <2>1, <2>2, <2>4
      <3>3. replaced[t] = Keys /\ temps[t] = {}
        BY <3>2
      <3>4. QED
        BY <2>1, <3>1, <3>3
    <2>5. QED
      BY <2>3, <2>4
  <1>20. CASE Complete(t)
    BY <1>20 DEF Complete
  <1>21. CASE Leave(t)
    BY <1>21 DEF Leave
  <1>22. CASE Refuse(t)
    BY <1>22 DEF Refuse
  <1>23. CASE Kill(t)
    BY <1>23 DEF Kill
  <1>24. QED
    BY <1>1, <1>2, <1>3, <1>4, <1>5, <1>6, <1>7, <1>8, <1>9, <1>10, <1>11,
       <1>12, <1>13, <1>14, <1>15, <1>16, <1>17, <1>18, <1>19, <1>20, <1>21, <1>22,
       <1>23 DEF Own, Sender, Receiver

\* Only Replace changes an installed key or a history, and only Snapshot what
\* a receiver has seen.
LEMMA OnlyReplace ==
  ASSUME NEW t \in Transfers, Own(t), ~Replace(t)
  PROVE  /\ UNCHANGED <<dest, replaced, stale>>
         /\ Snapshot(t) \/ UNCHANGED before
  <1> USE DEF Decide, rcvVars, installed
  <1>1. CASE Start(t) \/ RefuseRequest(t) \/ SendHeader(t) \/ ReadReady(t)
    BY <1>1 DEF Start, RefuseRequest, SendHeader, ReadReady
  <1>2. CASE SendKey(t) \/ CloseStdin(t) \/ ReadReceipt(t)
    BY <1>2 DEF SendKey, CloseStdin, ReadReceipt
  <1>3. CASE Succeed(t) \/ SenderFails(t) \/ LinkDrop(t)
    BY <1>3 DEF Succeed, SenderFails, LinkDrop
  <1>4. CASE Open(t) \/ ReadHeader(t) \/ Snapshot(t) \/ Stage(t) \/ Eof(t)
    BY <1>4 DEF Open, ReadHeader, Snapshot, Stage, Eof
  <1>5. CASE Recheck(t) \/ Check(t) \/ Verify(t)
    BY <1>5 DEF Recheck, Check, Verify
  <1>6. CASE Complete(t) \/ Leave(t) \/ Refuse(t) \/ Kill(t)
    BY <1>6 DEF Complete, Leave, Refuse, Kill
  <1>7. QED
    BY <1>1, <1>2, <1>3, <1>4, <1>5, <1>6 DEF Own, Sender, Receiver

\* Installed keys keep their owners.
LEMMA StepOwner ==
  ASSUME KeysInv, NEW t \in Transfers, Own(t)
  PROVE  OwnerInv'
  <1> USE DEF KeysInv, TypeOK, OwnerInv
  <1>1. CASE Replace(t)
    <2>1. /\ dest' = [dest EXCEPT ![cursor[t]] = t]
          /\ replaced' = [replaced EXCEPT ![t] = replaced[t] \cup {cursor[t]}]
          /\ before' = before
      BY <1>1 DEF Replace
    <2>2. \A u \in Transfers : replaced[u] \subseteq replaced'[u]
      BY <2>1
    <2>3. \A k \in Keys : dest'[k] \in Transfers => k \in replaced'[dest'[k]]
      BY <2>1, <2>2
    <2>4. QED
      BY <2>1, <2>2, <2>3
  <1>2. CASE Snapshot(t)
    <2>1. /\ before' = [before EXCEPT ![t][cursor[t]] = dest[cursor[t]]]
          /\ UNCHANGED <<dest, replaced>>
      BY <1>2 DEF Snapshot, installed
    <2>2. \A u \in Transfers, k \in Keys :
             before'[u][k] = before[u][k] \/ before'[u][k] = dest[k]
      BY <2>1
    <2>3. QED
      BY <2>1, <2>2
  <1>3. CASE ~Replace(t) /\ ~Snapshot(t)
    BY <1>3, OnlyReplace
  <1>4. QED
    BY <1>1, <1>2, <1>3

\* An overtaken receiver goes no further than the last key.
LEMMA StepStale ==
  ASSUME KeysInv, NEW t \in Transfers, Own(t)
  PROVE  StaleInv'
  <1>1. CASE Replace(t)
    <2>1. /\ rcv[t] = "replace" /\ cursor[t] \in Keys
          /\ rcv' = [rcv EXCEPT ![t] = "verify"]
          /\ dest' = [dest EXCEPT ![cursor[t]] = t]
          /\ replaced' = [replaced EXCEPT ![t] = replaced[t] \cup {cursor[t]}]
          /\ before' = before
      BY <1>1 DEF Replace, ReceiveAt, KeysInv, TypeOK, Keys
    <2>2. \A k \in Keys : k \in replaced[t] <=> k < cursor[t]
      BY <2>1 DEF KeysInv, ReceiverInv
    <2>3. N \notin replaced[t]
      <3>1. cursor[t] \in Nat /\ cursor[t] <= N /\ N \in Nat /\ N \in Keys
        BY <2>1, LastKey
      <3>2. ~(N < cursor[t])
        BY ONLY <3>1
      <3>3. QED
        BY <2>2, <3>1, <3>2
    <2>4. t \notin stale
      BY <2>1 DEF KeysInv, StaleInv
    <2>5. ASSUME NEW u \in Transfers, u # t PROVE before[u][N] # t
      BY <2>3, LastKey DEF KeysInv, OwnerInv
    <2>6. ASSUME NEW u \in stale
          PROVE  /\ replaced'[u] = {}
                 /\ rcv'[u] \in {"staging", "recheck", "ended"}
                 /\ rcv'[u] # "ended" => before'[u][N] # dest'[N]
      <3>1. u \in Transfers /\ u # t
        BY <2>4 DEF KeysInv, TypeOK
      <3>2. dest'[N] = dest[N] \/ dest'[N] = t
        BY <2>1, LastKey DEF KeysInv, TypeOK
      <3>3. rcv'[u] = rcv[u] /\ replaced'[u] = replaced[u]
        BY <2>1, <3>1 DEF KeysInv, TypeOK
      <3>4. QED
        BY <2>1, <2>5, <3>1, <3>2, <3>3 DEF KeysInv, StaleInv
    <2>7. ASSUME NEW u \in Transfers \ {t}, rcv[u] = "staging",
                 replaced[t] \cup {cursor[t]} = Keys
          PROVE  /\ replaced'[u] = {}
                 /\ rcv'[u] \in {"staging", "recheck", "ended"}
                 /\ rcv'[u] # "ended" => before'[u][N] # dest'[N]
      <3>1. cursor[t] = N
        BY <2>3, <2>7, LastKey
      <3>2. dest'[N] = t
        BY <2>1, <3>1 DEF KeysInv, TypeOK
      <3>3. rcv'[u] = rcv[u] /\ replaced'[u] = replaced[u] /\ replaced[u] = {}
        BY <2>1, <2>7 DEF KeysInv, TypeOK, ReceiverInv
      <3>4. QED
        BY <2>1, <2>5, <2>7, <3>2, <3>3
    <2>8. QED
      BY <1>1, <2>6, <2>7 DEF Replace, StaleInv
  <1>2. CASE ~Replace(t)
    <2>1. UNCHANGED <<dest, replaced, stale>> /\ (Snapshot(t) \/ UNCHANGED before)
      BY <1>2, OnlyReplace
    <2>2. ASSUME NEW u \in stale
          PROVE  /\ replaced'[u] = {}
                 /\ rcv'[u] \in {"staging", "recheck", "ended"}
                 /\ rcv'[u] # "ended" => before'[u][N] # dest'[N]
      <3>1. u \in Transfers
        BY DEF KeysInv, TypeOK
      <3>2. CASE u # t
        <4>1. rcv'[u] = rcv[u] /\ before'[u] = before[u]
          BY <3>1, <3>2, OtherTransfer DEF KeysInv
        <4>2. QED
          BY <2>1, <4>1 DEF KeysInv, StaleInv
      <3>3. CASE u = t
        <4>1. /\ rcv[t] \in {"staging", "recheck", "ended"}
              /\ rcv[t] # "ended" => before[t][N] # dest[N]
              /\ replaced[t] = {}
          BY <3>3 DEF KeysInv, StaleInv
        <4>2. ~Snapshot(t) /\ before' = before
          BY <2>1, <4>1 DEF Snapshot
        <4>3. rcv'[t] \in {"staging", "recheck", "ended"}
              /\ (rcv'[t] # "ended" => rcv[t] # "ended")
          <5> USE <4>1 DEF KeysInv, TypeOK, Decide, ReceiveAt, Advance, rcvVars, installed
          <5>1. CASE Start(t) \/ RefuseRequest(t) \/ SendHeader(t) \/ ReadReady(t)
            BY <5>1 DEF Start, RefuseRequest, SendHeader, ReadReady
          <5>2. CASE SendKey(t) \/ CloseStdin(t) \/ ReadReceipt(t)
            BY <5>2 DEF SendKey, CloseStdin, ReadReceipt
          <5>3. CASE Succeed(t) \/ SenderFails(t) \/ LinkDrop(t)
            BY <5>3 DEF Succeed, SenderFails, LinkDrop
          <5>4. CASE Open(t) \/ ReadHeader(t) \/ Snapshot(t)
            BY <5>4 DEF Open, ReadHeader, Snapshot
          <5>5. CASE Stage(t) \/ Eof(t)
            BY <5>5 DEF Stage, Eof
          <5>6. CASE Recheck(t)
            <6>1. rcv[t] = "recheck" /\ dest[cursor[t]] = before[t][cursor[t]]
              BY <5>6 DEF Recheck
            <6>2. cursor[t] # N
              BY <6>1
            <6>3. cursor[t] < N
              <7>1. cursor[t] \in 1..N /\ N \in Nat
                BY LastKey
              <7>2. QED
                BY ONLY <6>2, <7>1
            <6>4. rcv'[t] = "recheck"
              BY <5>6, <6>3 DEF Recheck
            <6>5. QED
              BY <6>1, <6>4
          <5>7. CASE Check(t) \/ Verify(t) \/ Complete(t) \/ Leave(t)
            BY <5>7 DEF Check, Verify, Complete, Leave
          <5>8. CASE Refuse(t) \/ Kill(t)
            BY <5>8 DEF Refuse, Kill
          <5>9. QED
            BY <1>2, <5>1, <5>2, <5>3, <5>4, <5>5, <5>6, <5>7, <5>8
               DEF Own, Sender, Receiver
        <4>4. QED
          BY <2>1, <3>3, <4>1, <4>2, <4>3
      <3>4. QED
        BY <3>2, <3>3
    <2>3. QED
      BY <2>1, <2>2 DEF StaleInv
  <1>3. QED
    BY <1>1, <1>2

\* Every step keeps the invariant.
LEMMA NextKeysInv == KeysInv /\ [Next]_vars => KeysInv'
  <1> SUFFICES ASSUME KeysInv, [Next]_vars PROVE KeysInv'
    OBVIOUS
  <1>1. ASSUME NEW t \in Transfers, Own(t) PROVE KeysInv'
    <2>1. TypeOK'
      BY KeysTypes DEF KeysInv
    <2>2. SenderInv(t)' /\ ReceiverInv(t)'
      BY <1>1, OwnSender, OwnReceiver DEF KeysInv
    <2>3. ASSUME NEW u \in Transfers, u # t PROVE SenderInv(u)' /\ ReceiverInv(u)'
      BY <1>1, <2>3, OtherTransfer DEF KeysInv, SenderInv, ReceiverInv, InputEnded
    <2>4. OwnerInv' /\ StaleInv'
      BY <1>1, StepOwner, StepStale
    <2>5. QED
      BY <2>1, <2>2, <2>3, <2>4 DEF KeysInv
  <1>2. CASE UNCHANGED vars
    BY <1>2 DEF vars, sndVars, rcvVars, installed, KeysInv, TypeOK, SenderInv, ReceiverInv,
                InputEnded, OwnerInv, StaleInv
  <1>3. QED
    BY <1>1, <1>2 DEF Next, Own

\* The invariant holds when no transfer has been called.
LEMMA InitKeysInv == Init => KeysInv
  <1> SUFFICES ASSUME Init PROVE KeysInv
    OBVIOUS
  <1> USE DEF Init
  <1>1. /\ snd \in [Transfers -> {"idle", "done"} \cup Sending]
        /\ sent \in [Transfers -> BOOLEAN]
        /\ stdin \in [Transfers -> {"open", "closed"}]
        /\ verdict \in [Transfers -> {"pending", "succeeded", "error", "ambiguous"}]
        /\ link \in [Transfers -> {"none", "up", "down"}]
    OBVIOUS
  <1>2. /\ payload \in [Transfers -> 0..N]
        /\ cursor \in [Transfers -> 1..N]
    BY KeysAssumption
  <1>3. /\ out \in [Transfers -> SUBSET {"ready", "complete", "refused"}]
        /\ rcv \in [Transfers -> {"none", "exiting", "ended"} \cup Receiving]
        /\ exit \in [Transfers -> {"running", "clean", "dirty"}]
    OBVIOUS
  <1>4. /\ before \in [Transfers -> [Keys -> Transfers \cup {Old}]]
        /\ temps \in [Transfers -> SUBSET Keys]
        /\ dest \in [Keys -> Transfers \cup {Old}]
        /\ replaced \in [Transfers -> SUBSET Keys]
        /\ stale \subseteq Transfers
    OBVIOUS
  <1>5. TypeOK
    BY <1>1, <1>2, <1>3, <1>4 DEF TypeOK
  <1>6. \A t \in Transfers : SenderInv(t) /\ ReceiverInv(t)
    <2>1. ASSUME NEW t \in Transfers PROVE SenderInv(t)
      BY <2>1, KeysAssumption DEF SenderInv
    <2>2. ASSUME NEW t \in Transfers PROVE ReceiverInv(t)
      BY <2>2, KeysAssumption DEF ReceiverInv, Early, Applying
    <2>3. QED
      BY <2>1, <2>2
  <1>7. OwnerInv /\ StaleInv
    BY KeysAssumption DEF OwnerInv, StaleInv
  <1>8. QED
    BY <1>5, <1>6, <1>7 DEF KeysInv

\* The invariant holds throughout.
THEOREM KeysInvariant == Spec => []KeysInv
  BY InitKeysInv, NextKeysInv, PTL DEF Spec

\* Every state of every transfer has the stated types.
THEOREM KeysTypeOK == Spec => []TypeOK
  <1>1. KeysInv => TypeOK
    BY DEF KeysInv
  <1>2. QED
    BY <1>1, KeysInvariant, PTL

\* Nothing is installed from a batch that was cut short on its way.
THEOREM KeysWholeBatchFirst == Spec => []WholeBatchFirst
  <1>1. KeysInv => WholeBatchFirst
    <2> SUFFICES ASSUME KeysInv, NEW t \in Transfers, replaced[t] # {}
                 PROVE  /\ sent[t] /\ payload[t] = N /\ InputEnded(t)
                        /\ replaced[t] \cup temps[t] = Keys \/ exit[t] # "running"
      BY DEF WholeBatchFirst, InputEnded
    <2>1. TypeOK /\ SenderInv(t) /\ ReceiverInv(t)
      BY DEF KeysInv
    <2>2. payload[t] = N /\ InputEnded(t)
      BY <2>1 DEF ReceiverInv
    <2>3. sent[t]
      BY <2>1, <2>2, LastKey DEF SenderInv
    <2>4. CASE rcv[t] \in {"check", "replace"}
      <3>1. \A k \in Keys : (k \in replaced[t] <=> k < cursor[t])
                              /\ (k \in temps[t] <=> k >= cursor[t])
        BY <2>1, <2>4 DEF ReceiverInv
      <3>2. \A k \in Keys : k < cursor[t] \/ k >= cursor[t]
        BY <2>1, LastKey DEF TypeOK
      <3>3. QED
        BY <2>1, <2>2, <2>3, <3>1, <3>2 DEF TypeOK
    <2>5. CASE rcv[t] = "verify"
      <3>1. \A k \in Keys : (k \in replaced[t] <=> k <= cursor[t])
                              /\ (k \in temps[t] <=> k > cursor[t])
        BY <2>1, <2>5 DEF ReceiverInv
      <3>2. \A k \in Keys : k <= cursor[t] \/ k > cursor[t]
        BY <2>1, LastKey DEF TypeOK
      <3>3. QED
        BY <2>1, <2>2, <2>3, <3>1, <3>2 DEF TypeOK
    <2>6. CASE rcv[t] \in {"receipt", "exiting", "ended"}
      BY <2>1, <2>2, <2>3, <2>6 DEF ReceiverInv
    <2>7. QED
      BY <2>1, <2>4, <2>5, <2>6 DEF TypeOK, ReceiverInv, Early, Receiving
  <1>2. QED
    BY <1>1, KeysInvariant, PTL

\* A failure that is not called ambiguous has left every installed key alone.
THEOREM KeysDefiniteNo == Spec => []DefiniteNoIsFinal
  <1>1. KeysInv => DefiniteNoIsFinal
    BY LastKey DEF KeysInv, SenderInv, ReceiverInv, DefiniteNoIsFinal
  <1>2. QED
    BY <1>1, KeysInvariant, PTL

\* A transfer that returns has replaced every key of its batch.
THEOREM KeysSuccess == Spec => []SuccessIsWhole
  <1>1. KeysInv => SuccessIsWhole
    BY DEF KeysInv, SenderInv, ReceiverInv, SuccessIsWhole
  <1>2. QED
    BY <1>1, KeysInvariant, PTL

\* A receiver overtaken by a whole batch replaces nothing.
THEOREM KeysOvertaken == Spec => []OvertakenReceiverStops
  <1>1. KeysInv => OvertakenReceiverStops
    BY DEF KeysInv, StaleInv, OvertakenReceiverStops
  <1>2. QED
    BY <1>1, KeysInvariant, PTL

-----------------------------------------------------------------------------

\* While no transfers overlap there is one receiver at a time; what it has
\* replaced is still in place, and so is a key of a transfer that stopped
\* half way, unless all keys are of one batch.
Partial(t) == (\E k \in Keys : dest[k] = t) /\ replaced[t] \notin {{}, Keys}

Uniform == \A k, j \in Keys : dest[k] = dest[j]

AloneInv ==
    ~overlapped =>
        /\ \A t, u \in Transfers : Alive(t) /\ Alive(u) => t = u
        /\ \A t \in Transfers : Alive(t) => \A k \in replaced[t] : dest[k] = t
        /\ Uniform \/ \E t \in Transfers : Partial(t)

\* Nobody but Start brings a receiver to life or changes `overlapped`.
LEMMA OnlyStart ==
  ASSUME TypeOK, NEW t \in Transfers, Own(t), ~Start(t)
  PROVE  /\ overlapped' = overlapped
         /\ Alive(t)' => Alive(t)
  <1> USE DEF TypeOK, Alive, SendAt, Decide, ReceiveAt, Advance, sndVars, rcvVars,
              installed, Receiving
  <1>1. CASE RefuseRequest(t) \/ SendHeader(t) \/ ReadReady(t)
    BY <1>1 DEF RefuseRequest, SendHeader, ReadReady
  <1>2. CASE SendKey(t) \/ CloseStdin(t) \/ ReadReceipt(t)
    BY <1>2 DEF SendKey, CloseStdin, ReadReceipt
  <1>3. CASE Succeed(t) \/ SenderFails(t) \/ LinkDrop(t)
    BY <1>3 DEF Succeed, SenderFails, LinkDrop
  <1>4. CASE Open(t) \/ ReadHeader(t) \/ Snapshot(t) \/ Stage(t) \/ Eof(t)
    BY <1>4 DEF Open, ReadHeader, Snapshot, Stage, Eof
  <1>5. CASE Recheck(t) \/ Check(t) \/ Replace(t) \/ Verify(t)
    BY <1>5 DEF Recheck, Check, Replace, Verify
  <1>6. CASE Complete(t) \/ Leave(t) \/ Refuse(t) \/ Kill(t)
    BY <1>6 DEF Complete, Leave, Refuse, Kill
  <1>7. QED
    BY <1>1, <1>2, <1>3, <1>4, <1>5, <1>6 DEF Own, Sender, Receiver

\* A step keeps transfers that do not overlap apart.
LEMMA StepAlone ==
  ASSUME KeysInv, AloneInv, NEW t \in Transfers, Own(t)
  PROVE  AloneInv'
  <1> SUFFICES ASSUME ~overlapped'
               PROVE  /\ \A u, v \in Transfers : Alive(u)' /\ Alive(v)' => u = v
                      /\ \A u \in Transfers :
                           Alive(u)' => \A k \in replaced'[u] : dest'[k] = u
                      /\ Uniform' \/ \E u \in Transfers : Partial(u)'
    BY DEF AloneInv
  <1>1. TypeOK /\ \A u \in Transfers : ReceiverInv(u)
    BY DEF KeysInv
  <1>2. \A u \in Transfers \ {t} : Alive(u)' <=> Alive(u)
    BY <1>1, OtherTransfer DEF Alive
  <1>3. CASE Start(t)
    <2>1. ~overlapped /\ \A u \in Transfers : ~Alive(u)
      BY <1>3 DEF Start
    <2>2. UNCHANGED <<dest, replaced, rcv>>
      BY <1>3 DEF Start, rcvVars
    <2>3. Alive(t)' => replaced[t] = {}
      BY <1>1, <2>1, <2>2 DEF Alive, ReceiverInv, Early
    <2>4. Uniform' \/ \E u \in Transfers : Partial(u)'
      BY <2>1, <2>2 DEF AloneInv, Uniform, Partial
    <2>5. QED
      BY <1>2, <2>1, <2>2, <2>3, <2>4
  <1>4. CASE Replace(t)
    <2>1. /\ rcv[t] = "replace" /\ cursor[t] \in Keys
          /\ dest' = [dest EXCEPT ![cursor[t]] = t]
          /\ replaced' = [replaced EXCEPT ![t] = replaced[t] \cup {cursor[t]}]
          /\ overlapped' = overlapped
      BY <1>1, <1>4 DEF Replace, TypeOK, Keys
    <2>2. Alive(t) /\ \A u \in Transfers : Alive(u) => u = t
      BY <2>1 DEF Alive, AloneInv
    <2>3. \A k \in replaced'[t] : dest'[k] = t
      BY <1>1, <2>1, <2>2 DEF AloneInv, TypeOK
    <2>4. CASE replaced'[t] = Keys
      BY <1>2, <2>2, <2>3, <2>4 DEF Uniform
    <2>5. CASE replaced'[t] # Keys
      <3>1. dest'[cursor[t]] = t /\ replaced'[t] # {}
        BY <1>1, <2>1 DEF TypeOK
      <3>2. Partial(t)'
        BY <2>1, <2>5, <3>1 DEF Partial
      <3>3. QED
        BY <1>2, <2>2, <2>3, <3>2
    <2>6. QED
      BY <2>4, <2>5
  <1>5. CASE ~Start(t) /\ ~Replace(t)
    <2>1. UNCHANGED <<dest, replaced>>
      BY <1>5, OnlyReplace
    <2>2. ~overlapped /\ \A u \in Transfers : Alive(u)' => Alive(u)
      BY <1>1, <1>2, <1>5, OnlyStart
    <2>3. Uniform' \/ \E u \in Transfers : Partial(u)'
      BY <2>1, <2>2 DEF AloneInv, Uniform, Partial
    <2>4. QED
      BY <2>1, <2>2, <2>3 DEF AloneInv
  <1>6. QED
    BY <1>3, <1>4, <1>5

\* Transfers that do not overlap never leave keys of two batches silently: a
\* transfer that replaced a part of its batch is the owner of one of them, and
\* its verdict, if it has one, is neither success nor a definite failure.
THEOREM KeysMixedIsAmbiguous == Spec => []MixedIsAmbiguous
  <1>1. Init => AloneInv
    BY DEF Init, AloneInv, Alive, Uniform
  <1>2. KeysInv /\ AloneInv /\ [Next]_vars => AloneInv'
    <2> SUFFICES ASSUME KeysInv, AloneInv, [Next]_vars PROVE AloneInv'
      OBVIOUS
    <2>1. ASSUME NEW t \in Transfers, Own(t) PROVE AloneInv'
      BY <2>1, StepAlone
    <2>2. CASE UNCHANGED vars
      BY <2>2 DEF vars, rcvVars, installed, AloneInv, Alive, Uniform, Partial
    <2>3. QED
      BY <2>1, <2>2 DEF Next, Own
  <1>3. KeysInv /\ AloneInv => MixedIsAmbiguous
    <2> SUFFICES ASSUME KeysInv, AloneInv, NEW t \in Transfers, Partial(t)
                 PROVE  verdict[t] \in {"pending", "ambiguous"}
      BY DEF AloneInv, MixedIsAmbiguous, Uniform, Partial
    <2>1. TypeOK /\ SenderInv(t) /\ ReceiverInv(t)
      BY DEF KeysInv
    <2>2. verdict[t] # "succeeded"
      BY <2>1 DEF SenderInv, ReceiverInv, Partial
    <2>3. verdict[t] # "error"
      BY <2>1, LastKey DEF SenderInv, ReceiverInv, Partial
    <2>4. QED
      BY <2>1, <2>2, <2>3 DEF TypeOK
  <1>4. QED
    BY <1>1, <1>2, <1>3, KeysInvariant, PTL DEF Spec

-----------------------------------------------------------------------------

\* What a transfer has done to the installed keys, as Delivery names it.
Effect(t) ==
    CASE replaced[t] = {} -> "none"
      [] replaced[t] = Keys -> "verified"
      [] OTHER -> "maybe"

\* How one step changes the effect and the verdict of its transfer.
LEMMA DeliveryOwn ==
  ASSUME KeysInv, NEW t \in Transfers, Own(t)
  PROVE  \/ Effect(t)' = Effect(t) /\ verdict'[t] = verdict[t]
         \/ /\ verdict'[t] = verdict[t]
            /\ \/ /\ Effect(t) = "none" /\ verdict[t] # "error"
                  /\ Effect(t)' \in {"maybe", "verified"}
               \/ Effect(t) = "maybe" /\ Effect(t)' = "verified"
         \/ /\ Effect(t)' = Effect(t) /\ verdict[t] = "pending"
            /\ \/ Effect(t) = "verified" /\ verdict'[t] = "succeeded"
               \/ Effect(t) = "none" /\ verdict'[t] = "error"
               \/ verdict'[t] = "ambiguous"
  <1>1. TypeOK /\ SenderInv(t) /\ ReceiverInv(t)
    BY DEF KeysInv
  <1>2. Keys # {}
    BY LastKey
  <1>3. CASE Replace(t)
    <2>1. /\ replaced'[t] = replaced[t] \cup {cursor[t]} /\ cursor[t] \in Keys
          /\ verdict' = verdict /\ rcv[t] = "replace"
      BY <1>1, <1>3 DEF Replace, TypeOK, sndVars, installed, Keys
    <2>2. verdict[t] # "error"
      BY <1>1, <2>1, LastKey DEF SenderInv, ReceiverInv, Applying
    <2>3. N \notin replaced[t]
      <3>1. N \in replaced[t] <=> N < cursor[t]
        BY <1>1, <2>1, LastKey DEF ReceiverInv
      <3>2. cursor[t] \in Nat /\ cursor[t] <= N /\ N \in Nat
        BY <2>1, LastKey
      <3>3. QED
        BY ONLY <3>1, <3>2
    <2>4. Effect(t) # "verified"
      BY <1>2, <2>3, LastKey DEF Effect
    <2>5. Effect(t)' \in {"maybe", "verified"}
      BY <2>1 DEF Effect
    <2>6. Effect(t) \in {"none", "maybe"}
      BY <2>4 DEF Effect
    <2>7. QED
      BY <2>1, <2>2, <2>5, <2>6
  <1>4. CASE ~Replace(t)
    <2>1. Effect(t)' = Effect(t)
      BY <1>4, OnlyReplace DEF Effect
    <2>2. ASSUME NEW v \in {"succeeded", "error", "ambiguous"}, Decide(t, v),
                 verdict[t] = "pending",
                 v = "succeeded" => Effect(t) = "verified",
                 v = "error" => Effect(t) = "none"
          PROVE  /\ verdict[t] = "pending"
                 /\ \/ Effect(t) = "verified" /\ verdict'[t] = "succeeded"
                    \/ Effect(t) = "none" /\ verdict'[t] = "error"
                    \/ verdict'[t] = "ambiguous"
      BY <1>1, <2>2 DEF Decide, TypeOK
    <2>3. CASE RefuseRequest(t)
      <3>1. PICK v \in {"error", "ambiguous"} : Decide(t, v)
        BY <2>3 DEF RefuseRequest
      <3>2. verdict[t] = "pending" /\ Effect(t) = "none"
        BY <1>1, <2>3, LastKey DEF RefuseRequest, SenderInv, ReceiverInv, Effect
      <3>3. QED
        BY <2>1, <2>2, <3>1, <3>2
    <2>4. CASE SenderFails(t)
      <3>1. PICK v \in {"error", "ambiguous"} :
              (sent[t] => v = "ambiguous") /\ Decide(t, v)
        BY <2>4 DEF SenderFails
      <3>2. verdict[t] = "pending"
        BY <1>1, <2>4 DEF SenderFails, SenderInv, Sending
      <3>3. ~sent[t] => Effect(t) = "none"
        BY <1>1, LastKey DEF SenderInv, ReceiverInv, Effect
      <3>4. QED
        BY <2>1, <2>2, <3>1, <3>2, <3>3
    <2>5. CASE Succeed(t)
      <3>1. Decide(t, "succeeded") /\ verdict[t] = "pending"
        BY <1>1, <2>5 DEF Succeed, SenderInv
      <3>2. Effect(t) = "verified"
        BY <1>1, <1>2, <2>5 DEF Succeed, ReceiverInv, Effect
      <3>3. QED
        BY <2>1, <2>2, <3>1, <3>2
    <2>6. CASE ~RefuseRequest(t) /\ ~SenderFails(t) /\ ~Succeed(t)
      <3> USE DEF sndVars, installed
      <3>1. CASE Start(t) \/ SendHeader(t) \/ ReadReady(t) \/ SendKey(t)
        BY <2>1, <3>1 DEF Start, SendHeader, ReadReady, SendKey
      <3>2. CASE CloseStdin(t) \/ ReadReceipt(t) \/ LinkDrop(t)
        BY <2>1, <3>2 DEF CloseStdin, ReadReceipt, LinkDrop
      <3>3. CASE Open(t) \/ ReadHeader(t) \/ Snapshot(t) \/ Stage(t) \/ Eof(t)
        BY <2>1, <3>3 DEF Open, ReadHeader, Snapshot, Stage, Eof
      <3>4. CASE Recheck(t) \/ Check(t) \/ Verify(t) \/ Complete(t) \/ Leave(t)
        BY <2>1, <3>4 DEF Recheck, Check, Verify, Complete, Leave
      <3>5. CASE Refuse(t) \/ Kill(t)
        BY <2>1, <3>5 DEF Refuse, Kill
      <3>6. QED
        BY <1>4, <2>6, <3>1, <3>2, <3>3, <3>4, <3>5 DEF Own, Sender, Receiver
    <2>7. QED
      BY <2>3, <2>4, <2>5, <2>6
  <1>5. QED
    BY <1>3, <1>4

\* What the promise of a delivery is for one transfer: its caller may be any of
\* them, not only the one that OriginKeys tracks.
Promise(t) ==
    INSTANCE Delivery WITH effect <- Effect(t), verdict <- verdict[t]

\* Every step is a step of each transfer's Delivery, or none.
LEMMA PromiseStep ==
  ASSUME KeysInv, [Next]_vars, NEW t \in Transfers
  PROVE  [Promise(t)!Next]_(Promise(t)!vars)
  <1> USE DEF Promise!Next, Promise!vars, Promise!Touch, Promise!Verify, Promise!Decide,
              Promise!Succeed, Promise!SayNo, Promise!GiveUp, Promise!DefiniteNo
  <1>1. CASE Own(t)
    <2>1. verdict[t] \in {"pending", "succeeded", "error", "ambiguous"}
      BY DEF KeysInv, TypeOK
    <2>2. QED
      BY <1>1, <2>1, DeliveryOwn
  <1>2. ASSUME NEW q \in Transfers \ {t}, Own(q) PROVE Promise(t)!vars' = Promise(t)!vars
    BY <1>2, OtherTransfer DEF KeysInv, Effect
  <1>3. CASE UNCHANGED vars
    BY <1>3 DEF vars, sndVars, installed, Effect
  <1>4. QED
    BY <1>1, <1>2, <1>3 DEF Next, Own

\* A transfer implements Delivery, whichever it is and whatever others are under
\* way: it never says that nothing happened once a key was replaced, and never
\* that all went well before the last one was.
THEOREM KeysDeliver ==
  ASSUME NEW t \in Transfers
  PROVE  Spec => Promise(t)!Init /\ [][Promise(t)!Next]_(Promise(t)!vars)
  <1>1. Init => Promise(t)!Init
    BY LastKey DEF Init, Promise!Init, Effect
  <1>2. KeysInv /\ [Next]_vars => [Promise(t)!Next]_(Promise(t)!vars)
    BY PromiseStep
  <1>3. QED
    BY <1>1, <1>2, KeysInvariant, PTL DEF Spec

\* So the tracked one does, for a batch of any length.
THEOREM KeysImplementsDelivery == Transfers # {} => (Spec => ImplementsDelivery)
  <1> SUFFICES ASSUME Transfers # {} PROVE Spec => ImplementsDelivery
    OBVIOUS
  <1>1. Tracked \in Transfers
    BY DEF Tracked
  <1>2. Init => D!Init
    BY <1>1, LastKey DEF Init, D!Init
  <1>3. KeysInv /\ [Next]_vars => [D!Next]_(D!vars)
    <2> SUFFICES ASSUME KeysInv, [Next]_vars PROVE [D!Next]_(D!vars)
      OBVIOUS
    <2>1. [Promise(Tracked)!Next]_(Promise(Tracked)!vars)
      BY <1>1, PromiseStep
    <2>2. QED
      BY <2>1
         DEF Effect, Promise!Next, Promise!vars, Promise!Touch, Promise!Verify,
             Promise!Decide, Promise!Succeed, Promise!SayNo, Promise!GiveUp,
             Promise!DefiniteNo, D!Next, D!vars, D!Touch, D!Verify, D!Decide,
             D!Succeed, D!SayNo, D!GiveUp, D!DefiniteNo
  <1>4. QED
    BY <1>2, <1>3, KeysInvariant, PTL DEF Spec, ImplementsDelivery
=============================================================================
