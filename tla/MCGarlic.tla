----------------------------- MODULE MCGarlic -----------------------------
(***************************************************************************)
(* Small instances of Garlic for TLC.                                      *)
(***************************************************************************)
EXTENDS Garlic, TLC

\* Session objects are interchangeable until one is made.
SessionSymmetry == Permutations(Sessions)
=============================================================================
