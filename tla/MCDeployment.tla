----------------------------- MODULE MCDeployment -----------------------------
(***************************************************************************)
(* Three versions: the second one changes some settings, the third one the *)
(* key as well.                                                            *)
(***************************************************************************)
EXTENDS Deployment

MCOwn == [v \in Versions |->
             CASE v = 1 -> {"connection", "project", "depools"}
               [] v = 2 -> {"connection", "stake", "sync_diff", "mode"}
               [] OTHER -> Fields]
MCKeyOf == [v \in Versions |-> IF v = 3 THEN "k2" ELSE "k1"]
===============================================================================
