----------------------------- MODULE MCRuntime ------------------------------
(* Runtime on small instances.  A piece of output is named for what it     *)
(* does to the terminal's modes; one of any other name is plain text.      *)
EXTENDS RuntimeRelay, TLC

CONSTANTS k1, k2, k3, k4, q

MCEffect == [c \in Chunks |-> IF c \in Effects THEN c ELSE "text"]

(* Only the reserved key, q, is told from the others.                      *)
KeySymmetry == Permutations(Keys \ DisableKeys)
=============================================================================
