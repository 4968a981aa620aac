---------------------------- MODULE MCImageTarget ---------------------------
(* Two releases of one project with a web service, where the migration runs, *)
(* and a sidecar.                                                            *)
EXTENDS ImageTarget
=============================================================================
