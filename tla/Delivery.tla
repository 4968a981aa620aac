------------------------------ MODULE Delivery ------------------------------
(***************************************************************************)
(* What one call of `deploy` promises its caller, with no wire, process or *)
(* deadline in it: a requested release has an effect on the target, the    *)
(* caller is given one verdict, and the two never contradict each other.   *)
(* TargetStream and OriginKeys implement this specification.               *)
(***************************************************************************)

VARIABLES
    effect,   \* what the request has done to the target
    verdict   \* what the caller of deploy has been told

vars == <<effect, verdict>>

Effects == {"none", "maybe", "verified"}

\* "error" is a TransportError with ambiguous=False; "ambiguous" one with
\* ambiguous=True; the other two are the statuses of a DeploymentReceipt.
Verdicts == {"pending", "succeeded", "refused", "error", "ambiguous"}

\* The verdicts that tell the caller nothing happened.
DefiniteNo == {"refused", "error"}

TypeOK == effect \in Effects /\ verdict \in Verdicts

Init == effect = "none" /\ verdict = "pending"

\* The target is touched, which a definite no excludes for ever. What consists of
\* one part is there at once.
Touch ==
    /\ effect = "none"
    /\ verdict \notin DefiniteNo
    /\ effect' \in {"maybe", "verified"}
    /\ UNCHANGED verdict

\* The requested release is observed running.
Verify ==
    /\ effect = "maybe"
    /\ effect' = "verified"
    /\ UNCHANGED verdict

Succeed == effect = "verified" /\ verdict' = "succeeded"

SayNo == effect = "none" /\ verdict' \in DefiniteNo

GiveUp == verdict' = "ambiguous"

\* The one verdict of the call.
Decide ==
    /\ verdict = "pending"
    /\ Succeed \/ SayNo \/ GiveUp
    /\ UNCHANGED effect

Next == Touch \/ Verify \/ Decide

Spec == Init /\ [][Next]_vars /\ WF_vars(Decide)
=============================================================================
