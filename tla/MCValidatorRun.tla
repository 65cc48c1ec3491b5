--------------------------- MODULE MCValidatorRun ---------------------------
(* ValidatorRun on small instances: a run of two endpoints and one of one, or *)
(* one run of more endpoints than its workers and its buffer can hold.        *)
EXTENDS ValidatorRun, TLC

MCTotals == <<2, 1>>
MCOneRun == <<4>>
MCSymmetry == Permutations(Workers)
=============================================================================
