---------------------------- MODULE MCReaderGate ----------------------------
(* Two calls with capture and one without, in any order and interleaving.   *)
EXTENDS ReaderGate, TLC

CallSymmetry == Permutations(Capture)
=============================================================================
