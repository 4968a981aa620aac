---------------------------- MODULE MCOriginKeys ----------------------------
(* Batches of two keys, the least number that can be left half replaced.    *)
EXTENDS OriginKeys
=============================================================================
