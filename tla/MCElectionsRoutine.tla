-------------------------- MODULE MCElectionsRoutine --------------------------
(***************************************************************************)
(* ElectionsRoutine on small instances.  Key hashes are interchangeable:   *)
(* the routine only compares them, so they may be permuted in the runs     *)
(* that check safety.                                                      *)
(***************************************************************************)
EXTENDS ElectionsRoutine, TLC

KeySymmetry == Permutations(Keys)
===============================================================================
