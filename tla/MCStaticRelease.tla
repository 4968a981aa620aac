-------------------------- MODULE MCStaticRelease --------------------------
(* Two assets, two changes to them and to the bundle, and two signals.      *)
EXTENDS StaticRelease

CONSTANTS page, script
=============================================================================
