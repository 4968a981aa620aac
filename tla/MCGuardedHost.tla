--------------------------- MODULE MCGuardedHost ---------------------------
(* Two deployments of one project and a maintenance run.                    *)
EXTENDS GuardedHost

CONSTANTS first, second, weekly

MCProject == [d \in {first, second} |-> "app"]
=============================================================================
