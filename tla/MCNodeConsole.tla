---------------------------- MODULE MCNodeConsole ----------------------------
(***************************************************************************)
(* One node and one TonControl; the node's address may change.             *)
(***************************************************************************)
EXTENDS NodeConsole
===============================================================================
