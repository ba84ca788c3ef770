----------------------------- MODULE StakeKeeping -----------------------------
(***************************************************************************)
(* What the elections thread promises about our stakes: a stake is kept    *)
(* account of from the moment it is made until it is home again, it comes  *)
(* home once the elector gives it back, and everything given back comes    *)
(* home together.                                                          *)
(***************************************************************************)
CONSTANT Elections

VARIABLES
    kept,    \* the elections accounted for
    locked,  \* those the elector holds our stake for
    due      \* those whose stake the elector has given back, to be fetched

vars == <<kept, locked, due>>

Init == kept = {} /\ locked = {} /\ due = {}

(* A request is sent; the elector takes the stake, or bounces it.          *)
Stake(e) ==
    /\ e \in Elections \ kept
    /\ kept' = kept \cup {e}
    /\ locked' \in {locked, locked \cup {e}}
    /\ UNCHANGED due

GiveBack(e) ==
    /\ e \in locked
    /\ locked' = locked \ {e} /\ due' = due \cup {e}
    /\ UNCHANGED kept

Fetch ==
    /\ due # {} /\ due \subseteq kept
    /\ due' = {}
    /\ UNCHANGED <<kept, locked>>

(* Only what is home, or never was with the elector, is let go.            *)
LetGo(e) ==
    /\ e \in kept \ (locked \cup due)
    /\ kept' = kept \ {e}
    /\ UNCHANGED <<locked, due>>

Next ==
    \/ \E e \in Elections : Stake(e) \/ GiveBack(e) \/ LetGo(e)
    \/ Fetch

Spec == Init /\ [][Next]_vars /\ WF_vars(Fetch)
===============================================================================
