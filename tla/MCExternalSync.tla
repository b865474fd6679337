--------------------------- MODULE MCExternalSync ---------------------------
(* The import on a small source, for TLC.                                   *)
EXTENDS ExternalSync

CONSTANTS w1, w2

TwoRunners == {w1, w2}

RunnerSymmetry == Permutations(TwoRunners)
=============================================================================
