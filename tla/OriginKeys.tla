----------------------------- MODULE OriginKeys -----------------------------
(***************************************************************************)
(* Transfers of a batch of origin keys (private_origin_keys.py): `transfer`*)
(* on the controller, the ssh connection, and the receiver program it runs *)
(* on the host, which stages the batch, waits for end of input, and then   *)
(* replaces the installed keys one by one.                                 *)
(*                                                                         *)
(* Keys are numbered in name order and an installed key is named by the    *)
(* transfer that put it there: os.replace gives it a new inode, so that is *)
(* also what a snapshot of it compares. All of a step's own checks, its    *)
(* deadline, cancellation and I/O errors are SenderFails and Refuse.       *)
(***************************************************************************)
EXTENDS Naturals

CONSTANTS
    Transfers,   \* attempts, each with a nonce of its own
    N,           \* the number of keys of a batch
    Old          \* a key, or no key, installed by none of Transfers

ASSUME KeysAssumption ==
    /\ N \in Nat \ {0}
    /\ Old \notin Transfers

Keys == 1..N

VARIABLES
    snd,       \* where each sender is in transfer
    sent,      \* the sender's local `sent`
    payload,   \* keys it has written to ssh
    stdin,     \* its end of the pipe
    verdict,   \* how transfer ended
    link,      \* the connection
    out,       \* lines the receiver has written
    rcv,       \* where each receiver is
    cursor,    \* the key its present loop is at
    before,    \* its snapshots of the installed keys
    temps,     \* keys staged in its temporary files
    exit,      \* how the receiver process ended
    dest,      \* the installed keys
    replaced,  \* keys each receiver has replaced (history)
    stale,     \* receivers that a whole batch has overtaken (history)
    overlapped \* an attempt has started while a receiver was at work (history)

sndVars == <<snd, sent, payload, stdin, verdict>>
rcvVars == <<rcv, cursor, before, temps, exit>>
installed == <<dest, replaced, stale, overlapped>>
vars == <<sndVars, link, out, rcvVars, installed>>

-----------------------------------------------------------------------------

Sending == {"header", "ready", "payload", "receipt", "status"}

Receiving == {"request", "snapshot", "staging", "recheck", "check", "replace",
              "verify", "receipt"}

TypeOK ==
    /\ snd \in [Transfers -> {"idle", "done"} \cup Sending]
    /\ sent \in [Transfers -> BOOLEAN]
    /\ payload \in [Transfers -> 0..N]
    /\ stdin \in [Transfers -> {"open", "closed"}]
    /\ verdict \in [Transfers -> {"pending", "succeeded", "error", "ambiguous"}]
    /\ link \in [Transfers -> {"none", "up", "down"}]
    /\ out \in [Transfers -> SUBSET {"ready", "complete", "refused"}]
    /\ rcv \in [Transfers -> {"none", "exiting", "ended"} \cup Receiving]
    /\ cursor \in [Transfers -> 1..N]
    /\ before \in [Transfers -> [Keys -> Transfers \cup {Old}]]
    /\ temps \in [Transfers -> SUBSET Keys]
    /\ exit \in [Transfers -> {"running", "clean", "dirty"}]
    /\ dest \in [Keys -> Transfers \cup {Old}]
    /\ replaced \in [Transfers -> SUBSET Keys]
    /\ stale \subseteq Transfers
    /\ overlapped \in BOOLEAN

Init ==
    /\ snd = [t \in Transfers |-> "idle"]
    /\ sent = [t \in Transfers |-> FALSE]
    /\ payload = [t \in Transfers |-> 0]
    /\ stdin = [t \in Transfers |-> "open"]
    /\ verdict = [t \in Transfers |-> "pending"]
    /\ link = [t \in Transfers |-> "none"]
    /\ out = [t \in Transfers |-> {}]
    /\ rcv = [t \in Transfers |-> "none"]
    /\ cursor = [t \in Transfers |-> 1]
    /\ before = [t \in Transfers |-> [k \in Keys |-> Old]]
    /\ temps = [t \in Transfers |-> {}]
    /\ exit = [t \in Transfers |-> "running"]
    /\ dest = [k \in Keys |-> Old]
    /\ replaced = [t \in Transfers |-> {}]
    /\ stale = {}
    /\ overlapped = FALSE

-----------------------------------------------------------------------------
(* The sender *)

SendAt(t, label) == snd' = [snd EXCEPT ![t] = label]

\* transfer returns or raises; a failing one terminates ssh.
Decide(t, v) ==
    /\ SendAt(t, "done")
    /\ verdict' = [verdict EXCEPT ![t] = v]
    /\ stdin' = [stdin EXCEPT ![t] = "closed"]
    /\ link' = IF v # "succeeded" /\ link[t] = "up"
               THEN [link EXCEPT ![t] = "down"] ELSE link
    /\ UNCHANGED <<sent, payload, out, rcvVars, installed>>

\* A receiver is at work, or may still be started.
Alive(t) == rcv[t] \notin {"none", "ended"} \/ (rcv[t] = "none" /\ link[t] = "up")

\* The batch and the route are valid: ssh is started.
Start(t) ==
    /\ snd[t] = "idle"
    /\ SendAt(t, "header")
    /\ link' = [link EXCEPT ![t] = "up"]
    /\ overlapped' = (overlapped \/ \E u \in Transfers : Alive(u))
    /\ UNCHANGED <<sent, payload, stdin, verdict, out, rcvVars, dest, replaced, stale>>

\* They are not, Popen fails, or the deadline passes, which always is ambiguous.
RefuseRequest(t) ==
    /\ snd[t] = "idle"
    /\ \E v \in {"error", "ambiguous"} : Decide(t, v)

SendHeader(t) ==
    /\ snd[t] = "header"
    /\ SendAt(t, "ready")
    /\ UNCHANGED <<sent, payload, stdin, verdict, link, out, rcvVars, installed>>

\* Wrong variant: `sent` is set only when the payload is out.
ReadReadyUnsent(t) ==
    /\ snd[t] = "ready" /\ "ready" \in out[t]
    /\ SendAt(t, "payload")
    /\ UNCHANGED <<sent, payload, stdin, verdict, link, out, rcvVars, installed>>

\* READY with this attempt's nonce and count: from here on key bytes may leave.
ReadReady(t) ==
    /\ snd[t] = "ready" /\ "ready" \in out[t]
    /\ SendAt(t, "payload")
    /\ sent' = [sent EXCEPT ![t] = TRUE]
    /\ UNCHANGED <<payload, stdin, verdict, link, out, rcvVars, installed>>

SendKey(t) ==
    /\ snd[t] = "payload" /\ payload[t] < N
    /\ payload' = [payload EXCEPT ![t] = @ + 1]
    /\ UNCHANGED <<snd, sent, stdin, verdict, link, out, rcvVars, installed>>

CloseStdin(t) ==
    /\ snd[t] = "payload" /\ payload[t] = N
    /\ SendAt(t, "receipt")
    /\ stdin' = [stdin EXCEPT ![t] = "closed"]
    /\ UNCHANGED <<sent, payload, verdict, link, out, rcvVars, installed>>

\* The exact receipt of the whole batch.
ReadReceipt(t) ==
    /\ snd[t] = "receipt" /\ "complete" \in out[t]
    /\ SendAt(t, "status")
    /\ UNCHANGED <<sent, payload, stdin, verdict, link, out, rcvVars, installed>>

\* ssh exits with status zero, nothing follows, and there is time left.
Succeed(t) ==
    /\ snd[t] = "status"
    /\ exit[t] = "clean" /\ link[t] = "up"
    /\ Decide(t, "succeeded")

\* Wrong variant: the code of the failure alone decides.
SenderFailsPlainly(t) ==
    /\ snd[t] \in Sending
    /\ \E v \in {"error", "ambiguous"} : Decide(t, v)

\* A failure is ambiguous once READY was read. Before that it depends on the
\* code: nothing written of the header, a missing pipe or an interrupt is not,
\* a deadline, a short header, an unreadable or different first line is.
SenderFails(t) ==
    /\ snd[t] \in Sending
    /\ \E v \in {"error", "ambiguous"} :
        /\ sent[t] => v = "ambiguous"
        /\ Decide(t, v)

-----------------------------------------------------------------------------
(* The receiver *)

ReceiveAt(t, label) == rcv' = [rcv EXCEPT ![t] = label]

Emit(t, line) == out' = [out EXCEPT ![t] = @ \cup {line}]

\* The loop over the keys in name order: on to the next key, or to the label.
Advance(t, label, next) ==
    IF cursor[t] < N
    THEN ReceiveAt(t, label) /\ cursor' = [cursor EXCEPT ![t] = @ + 1]
    ELSE ReceiveAt(t, next) /\ cursor' = [cursor EXCEPT ![t] = 1]

\* sshd starts the program; the header is read and the directory checked.
Open(t) ==
    /\ link[t] = "up" /\ rcv[t] = "none"
    /\ ReceiveAt(t, "request")
    /\ UNCHANGED <<sndVars, link, out, cursor, before, temps, exit, installed>>

ReadHeader(t) ==
    /\ rcv[t] = "request" /\ snd[t] \notin {"idle", "header"}
    /\ ReceiveAt(t, "snapshot")
    /\ UNCHANGED <<sndVars, link, out, cursor, before, temps, exit, installed>>

\* target(name) for every key, then READY.
Snapshot(t) ==
    /\ rcv[t] = "snapshot"
    /\ before' = [before EXCEPT ![t][cursor[t]] = dest[cursor[t]]]
    /\ Advance(t, "snapshot", "staging")
    /\ IF cursor[t] = N THEN Emit(t, "ready") ELSE UNCHANGED out
    /\ UNCHANGED <<sndVars, link, temps, exit, installed>>

\* Wrong variant: the last read does not wait for end of input.
StageAndGo(t) ==
    /\ rcv[t] = "staging" /\ cursor[t] <= payload[t]
    /\ temps' = [temps EXCEPT ![t] = @ \cup {cursor[t]}]
    /\ ReceiveAt(t, "recheck")
    /\ cursor' = [cursor EXCEPT ![t] = 1]
    /\ UNCHANGED <<sndVars, link, out, before, exit, installed>>

\* The next key arrives, has its digest, and is in a temporary file.
Stage(t) ==
    /\ rcv[t] = "staging" /\ cursor[t] <= payload[t]
    /\ cursor[t] \notin temps[t]
    /\ temps' = [temps EXCEPT ![t] = @ \cup {cursor[t]}]
    /\ cursor' = [cursor EXCEPT ![t] = IF @ < N THEN @ + 1 ELSE N]
    /\ UNCHANGED <<sndVars, link, out, rcv, before, exit, installed>>

\* The whole batch is staged and the input ends, by the sender or by the link.
Eof(t) ==
    /\ rcv[t] = "staging" /\ temps[t] = Keys
    /\ stdin[t] = "closed" \/ link[t] = "down"
    /\ ReceiveAt(t, "recheck")
    /\ cursor' = [cursor EXCEPT ![t] = 1]
    /\ UNCHANGED <<sndVars, link, out, before, temps, exit, installed>>

\* Wrong variant: the snapshots are taken again instead of compared.
RecheckAfresh(t) ==
    /\ rcv[t] = "recheck"
    /\ before' = [before EXCEPT ![t][cursor[t]] = dest[cursor[t]]]
    /\ Advance(t, "recheck", "check")
    /\ UNCHANGED <<sndVars, link, out, temps, exit, installed>>

\* No installed key has changed since its snapshot; each is looked at in turn.
Recheck(t) ==
    /\ rcv[t] = "recheck"
    /\ dest[cursor[t]] = before[t][cursor[t]]
    /\ Advance(t, "recheck", "check")
    /\ UNCHANGED <<sndVars, link, out, before, temps, exit, installed>>

Check(t) ==
    /\ rcv[t] = "check"
    /\ dest[cursor[t]] = before[t][cursor[t]]
    /\ ReceiveAt(t, "replace")
    /\ UNCHANGED <<sndVars, link, out, cursor, before, temps, exit, installed>>

\* os.replace. A batch that is whole overtakes every receiver that has its
\* snapshots but has not begun to compare them.
Replace(t) ==
    /\ rcv[t] = "replace"
    /\ dest' = [dest EXCEPT ![cursor[t]] = t]
    /\ replaced' = [replaced EXCEPT ![t] = @ \cup {cursor[t]}]
    /\ temps' = [temps EXCEPT ![t] = @ \ {cursor[t]}]
    /\ stale' = IF replaced[t] \cup {cursor[t]} = Keys
                THEN stale \cup {u \in Transfers \ {t} : rcv[u] = "staging"}
                ELSE stale
    /\ ReceiveAt(t, "verify")
    /\ UNCHANGED <<sndVars, link, out, cursor, before, exit, overlapped>>

\* Wrong variant: the loop stops after its first key.
VerifyAndStop(t) ==
    /\ rcv[t] = "verify"
    /\ dest[cursor[t]] = t
    /\ ReceiveAt(t, "receipt")
    /\ cursor' = [cursor EXCEPT ![t] = 1]
    /\ UNCHANGED <<sndVars, link, out, before, temps, exit, installed>>

\* The key in place is the one just renamed.
Verify(t) ==
    /\ rcv[t] = "verify"
    /\ dest[cursor[t]] = t
    /\ Advance(t, "check", "receipt")
    /\ UNCHANGED <<sndVars, link, out, before, temps, exit, installed>>

\* Directory synced, receipt written.
Complete(t) ==
    /\ rcv[t] = "receipt" /\ link[t] = "up"
    /\ Emit(t, "complete")
    /\ ReceiveAt(t, "exiting")
    /\ UNCHANGED <<sndVars, link, cursor, before, temps, exit, installed>>

Leave(t) ==
    /\ rcv[t] = "exiting"
    /\ ReceiveAt(t, "ended")
    /\ exit' = [exit EXCEPT ![t] = "clean"]
    /\ UNCHANGED <<sndVars, link, out, cursor, before, temps, installed>>

\* Wrong variant: the wait for input is not bounded by the deadline.
RefuseButNotWaiting(t) ==
    /\ rcv[t] \in (Receiving \ {"staging"}) \cup {"exiting"}
    /\ ReceiveAt(t, "ended")
    /\ exit' = [exit EXCEPT ![t] = "dirty"]
    /\ temps' = [temps EXCEPT ![t] = {}]
    /\ Emit(t, "refused")
    /\ UNCHANGED <<sndVars, link, cursor, before, installed>>

\* Any failing check, read, write or deadline, or SIGTERM: the temporary files
\* of this attempt are unlinked as far as that works, the replaced keys stay.
Refuse(t) ==
    /\ rcv[t] \in Receiving \cup {"exiting"}
    /\ ReceiveAt(t, "ended")
    /\ exit' = [exit EXCEPT ![t] = "dirty"]
    /\ \E left \in {{}, temps[t]} : temps' = [temps EXCEPT ![t] = left]
    /\ Emit(t, "refused") \/ UNCHANGED out
    /\ UNCHANGED <<sndVars, link, cursor, before, installed>>

\* SIGKILL or power loss: the temporary files stay.
Kill(t) ==
    /\ rcv[t] \in Receiving \cup {"exiting"}
    /\ ReceiveAt(t, "ended")
    /\ exit' = [exit EXCEPT ![t] = "dirty"]
    /\ UNCHANGED <<sndVars, link, out, cursor, before, temps, installed>>

LinkDrop(t) ==
    /\ link[t] = "up"
    /\ link' = [link EXCEPT ![t] = "down"]
    /\ UNCHANGED <<sndVars, out, rcvVars, installed>>

-----------------------------------------------------------------------------

Sender(t) ==
    \/ Start(t) \/ RefuseRequest(t) \/ SendHeader(t) \/ ReadReady(t) \/ SendKey(t)
    \/ CloseStdin(t) \/ ReadReceipt(t) \/ Succeed(t) \/ SenderFails(t)

Receiver(t) ==
    \/ Open(t) \/ ReadHeader(t) \/ Snapshot(t) \/ Stage(t) \/ Eof(t)
    \/ Recheck(t) \/ Check(t) \/ Replace(t) \/ Verify(t) \/ Complete(t)
    \/ Leave(t) \/ Refuse(t) \/ Kill(t)

Next == \E t \in Transfers : Sender(t) \/ Receiver(t) \/ LinkDrop(t)

\* The deadline of either side ends it wherever it is: a sender or a receiver
\* that can do nothing else fails, so neither stays where it is.
Spec ==
    /\ Init /\ [][Next]_vars
    /\ \A t \in Transfers :
        /\ WF_vars(SendHeader(t) \/ SendKey(t) \/ CloseStdin(t) \/ Succeed(t)
                     \/ SenderFails(t))
        /\ WF_vars(Snapshot(t) \/ Check(t) \/ Replace(t) \/ Leave(t) \/ Refuse(t))

-----------------------------------------------------------------------------
(* Properties *)

\* No key is replaced before the whole batch was acknowledged, sent and staged
\* and the input has ended, so a batch cut short on its way installs nothing.
WholeBatchFirst ==
    \A t \in Transfers : replaced[t] # {} =>
        /\ sent[t] /\ payload[t] = N
        /\ stdin[t] = "closed" \/ link[t] = "down"
        /\ replaced[t] \cup temps[t] = Keys \/ exit[t] # "running"

\* A failure that is not called ambiguous leaves every installed key alone,
\* also later, when the receiver may still be running with nobody to hear it.
DefiniteNoIsFinal ==
    \A t \in Transfers : verdict[t] = "error" => replaced[t] = {}

\* A transfer that returns has replaced every key of its batch and left no
\* temporary file, and its receiver ended normally.
SuccessIsWhole ==
    \A t \in Transfers : verdict[t] = "succeeded" =>
        replaced[t] = Keys /\ temps[t] = {} /\ exit[t] = "clean"

\* A receiver that was overtaken by a whole batch between its READY and its
\* last checks replaces nothing.
OvertakenReceiverStops == \A t \in stale : replaced[t] = {}

\* As long as no transfers overlap, keys of two batches are never a silent
\* outcome: one of them is of a transfer that replaced only a part of its
\* batch, and that one is not told that it succeeded, and not that nothing
\* happened either. All transfers are of the same keys 1..N: what a later batch
\* with other names leaves of an earlier one is not looked at.
MixedIsAmbiguous ==
    ~overlapped => ((\E k, j \in Keys : dest[k] # dest[j]) =>
        \E t \in Transfers :
            /\ \E k \in Keys : dest[k] = t
            /\ replaced[t] \notin {{}, Keys}
            /\ verdict[t] \in {"pending", "ambiguous"})

\* transfer always ends, and so does every receiver it has started.
Ends == \A t \in Transfers :
    /\ snd[t] = "header" ~> verdict[t] # "pending"
    /\ rcv[t] = "request" ~> rcv[t] = "ended"

\* One of the interchangeable transfers, as its caller sees it.
Tracked == CHOOSE t \in Transfers : TRUE

D == INSTANCE Delivery WITH
        effect <- CASE replaced[Tracked] = {} -> "none"
                    [] replaced[Tracked] = Keys -> "verified"
                    [] OTHER -> "maybe",
        verdict <- verdict[Tracked]

\* A transfer keeps the promise of a delivery; that it gets its one verdict
\* once it is called is part of Ends.
ImplementsDelivery == D!Init /\ [][D!Next]_(D!vars)
=============================================================================
