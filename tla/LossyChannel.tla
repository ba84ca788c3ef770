----------------------------- MODULE LossyChannel -----------------------------
(***************************************************************************)
(* What telemetry promises: an event that was sent is received at most     *)
(* once, or lost; nothing is received that was not sent.                   *)
(***************************************************************************)
EXTENDS Naturals

CONSTANT Events

VARIABLES
    sent,      \* events handed to the channel
    receipts,  \* how often each event came out of it
    lost       \* events given up

vars == <<sent, receipts, lost>>

Pending == {e \in sent \ lost : receipts[e] = 0}

Init == sent = {} /\ receipts = [e \in Events |-> 0] /\ lost = {}

Send(e) ==
    /\ e \in Events \ sent
    /\ sent' = sent \cup {e}
    /\ UNCHANGED <<receipts, lost>>

Receive(e) ==
    /\ e \in Pending
    /\ receipts' = [receipts EXCEPT ![e] = @ + 1]
    /\ UNCHANGED <<sent, lost>>

Lose(some) ==
    /\ some \subseteq Pending
    /\ lost' = lost \cup some
    /\ UNCHANGED <<sent, receipts>>

Next ==
    \/ \E e \in Events : Send(e) \/ Receive(e)
    \/ \E some \in SUBSET Events : Lose(some)

Spec == Init /\ [][Next]_vars

(* What the channel is for: nothing comes out twice, and what was given up *)
(* did not come out.                                                       *)
OutOnce ==
    /\ receipts \in [Events -> {0, 1}]
    /\ \A e \in Events : e \in lost \/ e \notin sent => receipts[e] = 0
===============================================================================
