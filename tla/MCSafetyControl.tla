---------------------------- MODULE MCSafetyControl --------------------------
(* SafetyControl on small instances: see the .cfg files for the bounds.    *)
EXTENDS SafetyControl, TLC

CONSTANTS t1, t2

Symmetry == Permutations(Tokens)
=============================================================================
