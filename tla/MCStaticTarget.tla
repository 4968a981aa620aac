--------------------------- MODULE MCStaticTarget ---------------------------
(* Two releases of one project with a static service and a sidecar.         *)
EXTENDS StaticTarget
=============================================================================
