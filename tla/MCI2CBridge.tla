---------------------------- MODULE MCI2CBridge -----------------------------
(***************************************************************************)
(* I2CBridge for TLC: the callers are interchangeable.                     *)
(***************************************************************************)
EXTENDS I2CBridge, TLC

Symmetry == Permutations(Callers)
=============================================================================
