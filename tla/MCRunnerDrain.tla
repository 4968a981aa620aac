--------------------------- MODULE MCRunnerDrain ---------------------------
(* Two slots, both brokers, any sequence of drain commands. One slot's      *)
(* recovery needs fairness for that slot only.                              *)
EXTENDS RunnerDrain

FirstFair == Init /\ [][Next]_vars /\ Fairness(1)

FirstRecovers == Recovers(1)
=============================================================================
