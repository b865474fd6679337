---------------------------- MODULE MCEventStream ----------------------------
(* EventStream with small queues: one of the two clients does not want the   *)
(* second event.                                                             *)
EXTENDS EventStream, TLC

CONSTANTS c1, c2

OneClient  == {c1}
TwoClients == {c1, c2}

Former     == {c1}

WriterSymmetry == Permutations(Writer)

MCWants == [c \in Conn |-> IF c = c1 THEN Event ELSE Event \ {2}]
==============================================================================
