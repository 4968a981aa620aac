--------------------------- MODULE MCTargetStream ---------------------------
(* A small instance of TargetStream: one static request, its own lease and  *)
(* the seven that differ from it in one field.                              *)
EXTENDS TargetStream

MCRequest == [corr |-> "c1", source |-> "s1", place |-> "p1", mode |-> "static",
              output |-> "o1", services |-> "v1", policy |-> "h1"]

MCLeases == {MCRequest,
             [MCRequest EXCEPT !.corr = "c2"],
             [MCRequest EXCEPT !.source = "s2"],
             [MCRequest EXCEPT !.place = "p2"],
             [MCRequest EXCEPT !.mode = "image"],
             [MCRequest EXCEPT !.output = "o2"],
             [MCRequest EXCEPT !.services = "v2"],
             [MCRequest EXCEPT !.policy = "h2"]}
=============================================================================
