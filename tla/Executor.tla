------------------------------ MODULE Executor ------------------------------
(***************************************************************************)
(* What a target SDK promises of each of its runs, with no file, command   *)
(* or container in it: containers are touched only after the run asked for *)
(* an activation, success is reported only after every service was         *)
(* observed, and every run that is not killed ends with one report.        *)
(* StaticTarget and ImageTarget implement this specification.              *)
(***************************************************************************)

CONSTANT Runs   \* the calls of the SDK

VARIABLES
    phase,    \* where each run is
    effect    \* what each run has asked of the target, and seen of it

vars == <<phase, effect>>

Phases == {"idle", "working", "killed", "succeeded", "failed"}

Effects == {"none", "maybe", "verified"}

TypeOK == phase \in [Runs -> Phases] /\ effect \in [Runs -> Effects]

Init ==
    /\ phase = [r \in Runs |-> "idle"]
    /\ effect = [r \in Runs |-> "none"]

Enter(r) ==
    /\ phase[r] = "idle"
    /\ phase' = [phase EXCEPT ![r] = "working"]
    /\ UNCHANGED effect

\* The call is refused before it has done anything.
Refuse(r) ==
    /\ phase[r] = "idle"
    /\ phase' = [phase EXCEPT ![r] = "failed"]
    /\ UNCHANGED effect

\* The one activation of the run.
Activate(r) ==
    /\ phase[r] = "working" /\ effect[r] = "none"
    /\ effect' = [effect EXCEPT ![r] = "maybe"]
    /\ UNCHANGED phase

\* The last service is observed.
Observe(r) ==
    /\ phase[r] = "working" /\ effect[r] = "maybe"
    /\ effect' = [effect EXCEPT ![r] = "verified"]
    /\ UNCHANGED phase

Decide(r) ==
    /\ phase[r] = "working"
    /\ \/ effect[r] = "verified" /\ phase' = [phase EXCEPT ![r] = "succeeded"]
       \/ phase' = [phase EXCEPT ![r] = "failed"]
    /\ UNCHANGED effect

Kill(r) ==
    /\ phase[r] = "working"
    /\ phase' = [phase EXCEPT ![r] = "killed"]
    /\ UNCHANGED effect

Next ==
    \E r \in Runs :
        Enter(r) \/ Refuse(r) \/ Activate(r) \/ Observe(r) \/ Decide(r) \/ Kill(r)

Spec == Init /\ [][Next]_vars /\ \A r \in Runs : WF_vars(Decide(r))
=============================================================================
