------------------------------- MODULE Telemetry -------------------------------
(***************************************************************************)
(* The LogStash client (logstash/client.py): the routines put events in a  *)
(* queue, a thread of its own takes them out in batches and writes each    *)
(* batch to a connection of its own.  A batch that is out of the queue is  *)
(* tried once.                                                             *)
(***************************************************************************)
EXTENDS Naturals, FiniteSets, Sequences, SequencesExt

CONSTANTS
    Events,    \* events, numbered in the order they are sent
    MaxBatch,  \* _max_batch
    MaxFaults  \* bound: failed connections and writes, resets, crashes

ASSUME EventsAssumption == Events \subseteq Nat /\ IsFiniteSet(Events)
ASSUME BatchAssumption  == MaxBatch \in Nat /\ MaxFaults \in Nat

VARIABLES
    \* the process
    queue,     \* _queue
    pc,        \* where _process_data is
    batch,     \* data_to_send
    room,      \* max_batch
    \* the network
    socket,    \* written to the open connection, not yet received
    closed,    \* what is still on its way on each closed connection
    receipts,  \* how often LogStash received each event
    \* history
    sent, dropped, gone, faults

processVars == <<queue, pc, batch, room>>
vars == <<processVars, socket, closed, receipts, sent, dropped, gone, faults>>

Init ==
    /\ queue = <<>> /\ pc = "get" /\ batch = <<>> /\ room = 0
    /\ socket = {} /\ closed = {} /\ receipts = [e \in Events |-> 0]
    /\ sent = {} /\ dropped = {} /\ gone = {} /\ faults = 0

Fault == faults < MaxFaults /\ faults' = faults + 1

SendData(e) ==
    /\ e \in Events \ sent /\ \A f \in Events \ sent : e <= f
    /\ sent' = sent \cup {e}
    /\ queue' = Append(queue, e)
    /\ UNCHANGED <<pc, batch, room, socket, closed, receipts, dropped, gone, faults>>

-------------------------------------------------------------------------------
(* The sender.                                                             *)

GetFirst ==
    /\ pc = "get" /\ queue # <<>>
    /\ batch' = <<Head(queue)>> /\ queue' = Tail(queue)
    /\ room' = MaxBatch
    /\ pc' = "fill"
    /\ UNCHANGED <<socket, closed, receipts, sent, dropped, gone, faults>>

\* Mutations: max_batch is not looked at; it is not counted down; the event
\* is copied, not taken; the test for an empty queue takes one as well.
RoomAlways == TRUE
NoneLess == room
Untaken == queue
TakenTwice == SubSeq(queue, 3, Len(queue))

RoomLeft == room > 0
OneLess == room - 1
Taken == Tail(queue)

FillBatch ==
    /\ pc = "fill" /\ RoomLeft /\ queue # <<>>
    /\ batch' = Append(batch, Head(queue)) /\ queue' = Taken
    /\ room' = OneLess
    /\ UNCHANGED <<pc, socket, closed, receipts, sent, dropped, gone, faults>>

EndBatch ==
    /\ pc = "fill" /\ (room = 0 \/ queue = <<>>)
    /\ pc' = "connect"
    /\ UNCHANGED <<queue, batch, room, socket, closed, receipts, sent, dropped, gone, faults>>

Connect ==
    /\ pc = "connect"
    /\ pc' = "send"
    /\ UNCHANGED <<queue, batch, room, socket, closed, receipts, sent, dropped, gone, faults>>

\* Mutation: the exception ends the thread.
ThreadEnds == "dead"

NextBatch == "get"

ConnectFails ==
    /\ pc = "connect" /\ Fault
    /\ dropped' = dropped \cup ToSet(batch)
    /\ batch' = <<>> /\ pc' = NextBatch
    /\ UNCHANGED <<queue, room, socket, closed, receipts, sent, gone>>

SendNext ==
    /\ pc = "send" /\ batch # <<>>
    /\ socket' = socket \cup {Head(batch)}
    /\ batch' = Tail(batch)
    /\ UNCHANGED <<queue, pc, room, closed, receipts, sent, dropped, gone, faults>>

(* sock.send may write less than it was given; what it returns is not      *)
(* looked at.                                                              *)
SendShort ==
    /\ pc = "send" /\ batch # <<>> /\ Fault
    /\ dropped' = dropped \cup {Head(batch)}
    /\ batch' = Tail(batch)
    /\ UNCHANGED <<queue, pc, room, socket, closed, receipts, sent, gone>>

CloseSocket == closed' = closed \cup ({socket} \ {{}}) /\ socket' = {}

SendFails ==
    /\ pc = "send" /\ batch # <<>> /\ Fault
    /\ dropped' = dropped \cup ToSet(batch)
    /\ CloseSocket
    /\ batch' = <<>> /\ pc' = "get"
    /\ UNCHANGED <<queue, room, receipts, sent, gone>>

EndSend ==
    /\ pc = "send" /\ batch = <<>>
    /\ CloseSocket
    /\ pc' = "get"
    /\ UNCHANGED <<queue, batch, room, receipts, sent, dropped, gone, faults>>

-------------------------------------------------------------------------------
(* The network, LogStash and the end of the process.                       *)

Without(c, e) == (closed \ {c}) \cup ({c \ {e}} \ {{}})

Receive(e) ==
    /\ \/ e \in socket /\ socket' = socket \ {e} /\ UNCHANGED closed
       \/ \E c \in closed : e \in c /\ closed' = Without(c, e) /\ UNCHANGED socket
    /\ receipts' = [receipts EXCEPT ![e] = @ + 1]
    /\ UNCHANGED <<processVars, sent, dropped, gone, faults>>

(* What is on its way is lost with its connection.                         *)
Reset ==
    /\ Fault
    /\ \E c \in closed : closed' = closed \ {c} /\ dropped' = dropped \cup c
    /\ UNCHANGED <<processVars, socket, receipts, sent, gone>>

(* The queue lives in memory; what was written is the kernel's.            *)
Crash ==
    /\ Fault
    /\ gone' = gone \cup ToSet(queue) \cup ToSet(batch)
    /\ queue' = <<>> /\ batch' = <<>> /\ room' = 0 /\ pc' = "get"
    /\ CloseSocket
    /\ UNCHANGED <<receipts, sent, dropped>>

Sender ==
    \/ GetFirst \/ FillBatch \/ EndBatch
    \/ Connect \/ ConnectFails
    \/ SendNext \/ SendShort \/ SendFails \/ EndSend

Next ==
    \/ \E e \in Events : SendData(e) \/ Receive(e)
    \/ Sender \/ Reset \/ Crash

Spec == Init /\ [][Next]_vars

(* The thread is scheduled, and LogStash reads what arrives.               *)
FairSpec == Spec /\ WF_vars(Sender) /\ \A e \in Events : WF_vars(Receive(e))

-------------------------------------------------------------------------------
(* Properties.                                                             *)

(* Every variable keeps its type.                                          *)
TypeOK ==
    /\ queue \in Seq(Events) /\ batch \in Seq(Events)
    /\ pc \in {"get", "fill", "connect", "send"} /\ room \in 0..MaxBatch
    /\ socket \subseteq Events /\ closed \subseteq SUBSET Events
    /\ receipts \in [Events -> Nat]
    /\ sent \subseteq Events /\ dropped \subseteq Events /\ gone \subseteq Events
    /\ faults \in 0..MaxFaults

(* A failure of the network costs one batch at most, however many events   *)
(* wait (client.py:33-41): the first event and _max_batch more.            *)
LossBounded == Cardinality(dropped) <= (MaxBatch + 1) * faults

(* Queue, batch and connections together are a channel that loses but      *)
(* neither repeats nor invents events (client.py:24-60).                   *)
Channel == INSTANCE LossyChannel WITH lost <- dropped \cup gone
ImplementsChannel == Channel!Spec

(* No event vanishes: one that was sent is received, counted as lost, or   *)
(* still in the queue, in the batch or on its way (client.py:24-60).       *)
Held == ToSet(queue) \cup ToSet(batch) \cup socket \cup UNION closed
PendingIsHeld == Channel!Pending = Held

(* Every event leaves the process: it is received, or lost and done with   *)
(* (client.py:54-60: no exception ends the thread).                        *)
EventsLeave ==
    \A e \in Events : e \in sent ~> (receipts[e] > 0 \/ e \in dropped \cup gone)
===============================================================================
