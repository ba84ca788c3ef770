---------------------------- MODULE MCDepoolUpkeep ----------------------------
(***************************************************************************)
(* DepoolUpkeep on small instances.                                        *)
(***************************************************************************)
EXTENDS DepoolUpkeep, TLC
===============================================================================
