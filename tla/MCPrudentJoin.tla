---------------------------- MODULE MCPrudentJoin ----------------------------
(***************************************************************************)
(* PrudentJoin with one tick for a minute: the intervals are the code's.   *)
(***************************************************************************)
EXTENDS PrudentJoin

MCStakeToMake == [percent |-> TRUE, number |-> 50]
MCStakeParams == [min_stake |-> 2, max_stake |-> 5]
===============================================================================
