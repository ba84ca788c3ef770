---------------------------- MODULE TelemetryProofs ----------------------------
(***************************************************************************)
(* Queue, batch and connections implement a channel that loses but neither *)
(* repeats nor invents, for every set of events and size of batch: an      *)
(* event is in one place at a time, and there it is neither received nor   *)
(* lost, and the other way round: none disappears.  A fault costs one batch at most, since what a batch and its       *)
(* connection hold together never grows beyond a batch.                    *)
(***************************************************************************)
EXTENDS Telemetry, TLAPS, FiniteSetTheorems

Distinct(s) == \A i, j \in 1..Len(s) : s[i] = s[j] => i = j

(* Where an event is: in the queue, in the batch, on the open connection   *)
(* or on a closed one.                                                     *)
OnePlace ==
    /\ Distinct(queue) /\ Distinct(batch)
    /\ ToSet(queue) \cap ToSet(batch) = {}
    /\ socket \cap (ToSet(queue) \cup ToSet(batch)) = {}
    /\ \A c \in closed : c \cap (ToSet(queue) \cup ToSet(batch) \cup socket) = {}
    /\ \A c, d \in closed : c # d => c \cap d = {}

(* What is in some place is pending.                                       *)
HeldPending == \A e \in Held : e \in sent \ (dropped \cup gone) /\ receipts[e] = 0

(* What was not sent is neither received nor lost.                         *)
OnlySent == dropped \cup gone \subseteq sent /\ \A e \in Events \ sent : receipts[e] = 0

ChannelInv == TypeOK /\ OnePlace /\ HeldPending /\ OnlySent
-------------------------------------------------------------------------------
(* Sequences without repetition.                                           *)

LEMMA TakeHead ==
  ASSUME NEW S, NEW s \in Seq(S), s # <<>>
  PROVE  /\ Tail(s) \in Seq(S)
         /\ Head(s) \in ToSet(s) /\ ToSet(s) \subseteq S
         /\ ToSet(<<Head(s)>>) = {Head(s)} /\ Distinct(<<Head(s)>>)
         /\ Distinct(s) => ToSet(Tail(s)) = ToSet(s) \ {Head(s)} /\ Distinct(Tail(s))
  <1>1. Len(s) \in Nat /\ Len(s) > 0 /\ Tail(s) \in Seq(S) /\ Head(s) = s[1]
    OBVIOUS
  <1>2. /\ Len(Tail(s)) = Len(s) - 1
        /\ \A i \in 1..Len(s) - 1 : Tail(s)[i] = s[i + 1]
    OBVIOUS
  <1>3. ToSet(s) = {s[i] : i \in 1..Len(s)} /\ \A i \in 1..Len(s) : s[i] \in S
    BY DEF ToSet
  <1>4. ToSet(Tail(s)) = {s[i] : i \in 2..Len(s)}
    <2>0. DOMAIN Tail(s) = 1..Len(s) - 1
      BY <1>1, <1>2
    <2>1. ToSet(Tail(s)) = {Tail(s)[i] : i \in 1..Len(s) - 1}
      BY <2>0 DEF ToSet
    <2>2. \A i \in 2..Len(s) : i - 1 \in 1..Len(s) - 1 /\ Tail(s)[i - 1] = s[i]
      BY <1>1, <1>2
    <2>3. \A i \in 1..Len(s) - 1 : i + 1 \in 2..Len(s) /\ Tail(s)[i] = s[i + 1]
      BY <1>1, <1>2
    <2>4. QED
      BY <2>1, <2>2, <2>3
  <1>5. ToSet(<<Head(s)>>) = {Head(s)} /\ Distinct(<<Head(s)>>)
    BY DEF ToSet, Distinct
  <1>6. ASSUME Distinct(s)
        PROVE  ToSet(Tail(s)) = ToSet(s) \ {Head(s)} /\ Distinct(Tail(s))
    <2>1. ToSet(Tail(s)) = ToSet(s) \ {Head(s)}
      BY <1>1, <1>3, <1>4, <1>6 DEF Distinct
    <2>2. Distinct(Tail(s))
      BY <1>1, <1>2, <1>6 DEF Distinct
    <2>3. QED
      BY <2>1, <2>2
  <1>7. QED
    BY <1>1, <1>3, <1>5, <1>6

LEMMA AppendNew ==
  ASSUME NEW S, NEW s \in Seq(S), NEW e \in S
  PROVE  /\ Append(s, e) \in Seq(S)
         /\ ToSet(Append(s, e)) = ToSet(s) \cup {e}
         /\ Distinct(s) /\ e \notin ToSet(s) => Distinct(Append(s, e))
  <1>1. /\ Append(s, e) \in Seq(S) /\ Len(s) \in Nat /\ Len(Append(s, e)) = Len(s) + 1
        /\ \A i \in 1..Len(s) : Append(s, e)[i] = s[i]
        /\ Append(s, e)[Len(s) + 1] = e
    OBVIOUS
  <1>2. ToSet(s) = {s[i] : i \in 1..Len(s)}
    BY DEF ToSet
  <1>3. ToSet(Append(s, e)) = {Append(s, e)[i] : i \in 1..Len(s) + 1}
    BY <1>1 DEF ToSet
  <1>4. ToSet(Append(s, e)) = ToSet(s) \cup {e}
    BY <1>1, <1>2, <1>3
  <1>5. Distinct(s) /\ e \notin ToSet(s) => Distinct(Append(s, e))
    BY <1>1, <1>2 DEF Distinct
  <1>6. QED
    BY <1>1, <1>4, <1>5

LEMMA EmptySet == ToSet(<<>>) = {} /\ Distinct(<<>>)
  BY DEF ToSet, Distinct

LEMMA SetOfSeq == ASSUME NEW S, NEW s \in Seq(S) PROVE ToSet(s) \subseteq S
  BY DEF ToSet
-------------------------------------------------------------------------------
LEMMA InitChannelInv == Init => ChannelInv
  <1> SUFFICES ASSUME Init PROVE ChannelInv
    OBVIOUS
  <1>1. TypeOK
    BY BatchAssumption DEF Init, TypeOK
  <1>2. OnePlace /\ HeldPending /\ OnlySent
    BY EmptySet DEF Init, OnePlace, HeldPending, Held, OnlySent
  <1>3. QED
    BY <1>1, <1>2 DEF ChannelInv

(* Types.                                                                  *)
LEMMA TypesKept == TypeOK /\ [Next]_vars => TypeOK'
  <1> SUFFICES ASSUME TypeOK, [Next]_vars PROVE TypeOK'
    OBVIOUS
  <1> USE BatchAssumption DEF TypeOK, processVars
  <1>1. ToSet(queue) \subseteq Events /\ ToSet(batch) \subseteq Events
    BY SetOfSeq
  <1>2. ASSUME NEW e \in Events, SendData(e) PROVE TypeOK'
    BY <1>2, AppendNew DEF SendData
  <1>3. ASSUME NEW e \in Events, Receive(e) PROVE TypeOK'
    <2>1. closed' \subseteq SUBSET Events /\ socket' \subseteq Events
      BY <1>3 DEF Receive, Without
    <2>2. receipts' \in [Events -> Nat]
      BY <1>3 DEF Receive
    <2>3. QED
      BY <1>3, <2>1, <2>2 DEF Receive
  <1>4. CASE GetFirst
    <2>1. Head(queue) \in Events /\ Tail(queue) \in Seq(Events)
      BY <1>1, <1>4, TakeHead DEF GetFirst
    <2>2. QED
      BY <1>4, <2>1 DEF GetFirst
  <1>5. CASE FillBatch
    <2>1. Head(queue) \in Events /\ Tail(queue) \in Seq(Events)
      BY <1>1, <1>5, TakeHead DEF FillBatch, RoomLeft, OneLess, Taken
    <2>2. Append(batch, Head(queue)) \in Seq(Events)
      BY <2>1, AppendNew
    <2>3. QED
      BY <1>5, <2>1, <2>2 DEF FillBatch, RoomLeft, OneLess, Taken
  <1>6. CASE EndBatch \/ Connect
    BY <1>6 DEF EndBatch, Connect
  <1>7. CASE ConnectFails
    BY <1>1, <1>7 DEF ConnectFails, Fault, NextBatch
  <1>8. CASE SendNext \/ SendShort
    <2>1. batch # <<>>
      BY <1>8 DEF SendNext, SendShort
    <2>2. Head(batch) \in Events /\ Tail(batch) \in Seq(Events)
      BY <1>1, <2>1, TakeHead
    <2>3. CASE SendNext
      BY <2>2, <2>3 DEF SendNext
    <2>4. CASE SendShort
      BY <2>2, <2>4 DEF SendShort, Fault
    <2>5. QED
      BY <1>8, <2>3, <2>4
  <1>9. CASE SendFails \/ EndSend
    <2>1. socket' = {} /\ closed' \subseteq SUBSET Events
      BY <1>9 DEF SendFails, EndSend, CloseSocket
    <2>2. CASE SendFails
      BY <1>1, <2>1, <2>2 DEF SendFails, Fault
    <2>3. CASE EndSend
      BY <2>1, <2>3 DEF EndSend
    <2>4. QED
      BY <1>9, <2>2, <2>3
  <1>10. CASE Reset
    BY <1>10 DEF Reset, Fault
  <1>11. CASE Crash
    <2>1. socket' = {} /\ closed' \subseteq SUBSET Events
      BY <1>11 DEF Crash, CloseSocket
    <2>2. QED
      BY <1>1, <1>11, <2>1 DEF Crash, Fault
  <1>12. CASE UNCHANGED vars
    BY <1>12 DEF vars
  <1>13. QED
    BY <1>2, <1>3, <1>4, <1>5, <1>6, <1>7, <1>8, <1>9, <1>10, <1>11, <1>12 DEF Next, Sender

(* One event, one place, and there it is pending.                          *)
LEMMA PlacesKept ==
  ASSUME ChannelInv, [Next]_vars PROVE OnePlace' /\ HeldPending' /\ OnlySent'
  <1> DEFINE Q == ToSet(queue)
             B == ToSet(batch)
             Places == OnePlace' /\ HeldPending' /\ OnlySent'
  <1> USE DEF ChannelInv, OnePlace, HeldPending, Held, OnlySent
  <1>1. /\ queue \in Seq(Events) /\ batch \in Seq(Events) /\ receipts \in [Events -> Nat]
        /\ socket \subseteq Events /\ closed \subseteq SUBSET Events
        /\ Q \subseteq Events /\ B \subseteq Events
    BY SetOfSeq DEF TypeOK
  <1>2. ASSUME NEW e \in Events, SendData(e) PROVE Places
    <2>1. e \notin Held /\ e \notin dropped \cup gone /\ receipts[e] = 0
      BY <1>2 DEF SendData
    <2>2. ToSet(queue') = Q \cup {e} /\ Distinct(queue')
      BY <1>1, <1>2, <2>1, AppendNew DEF SendData
    <2>3. UNCHANGED <<batch, socket, closed, receipts, dropped, gone>> /\ sent' = sent \cup {e}
      BY <1>2 DEF SendData
    <2>4. OnePlace'
      BY <2>1, <2>2, <2>3
    <2>5. HeldPending' /\ OnlySent'
      BY <2>1, <2>2, <2>3
    <2>6. QED
      BY <2>4, <2>5
  <1>3. ASSUME NEW e \in Events, Receive(e) PROVE Places
    <2>1. UNCHANGED <<queue, batch, sent, dropped, gone>>
      BY <1>3 DEF Receive, processVars
    <2>2. e \in Held
      BY <1>3 DEF Receive
    <2>3. receipts' = [receipts EXCEPT ![e] = @ + 1]
      BY <1>3 DEF Receive
    <2>4. OnePlace' /\ Held' \subseteq Held \ {e}
      <3>1. CASE e \in socket /\ socket' = socket \ {e} /\ UNCHANGED closed
        BY <2>1, <3>1
      <3>2. ASSUME NEW c \in closed, e \in c, closed' = Without(c, e), UNCHANGED socket
            PROVE  OnePlace' /\ Held' \subseteq Held \ {e}
        <4>1. \A d \in closed' : \E b \in closed : d = b \ {e}
          BY <3>2 DEF Without
        <4>2. \A d \in closed' : e \notin d
          BY <4>1
        <4>3. \A d1, d2 \in closed' : d1 # d2 => d1 \cap d2 = {}
          BY <4>1
        <4>4. e \notin Q \cup B \cup socket
          BY <3>2
        <4>5. QED
          BY <2>1, <3>2, <4>1, <4>2, <4>3, <4>4
      <3>3. QED
        BY <1>3, <3>1, <3>2 DEF Receive
    <2>5. e \in sent /\ \A f \in Events \ {e} : receipts'[f] = receipts[f]
      BY <1>1, <2>2, <2>3
    <2>6. Held \subseteq Events
      BY <1>1
    <2>7. HeldPending'
      BY <2>1, <2>4, <2>5, <2>6
    <2>8. OnlySent'
      BY <2>1, <2>5
    <2>9. QED
      BY <2>4, <2>7, <2>8
  <1>4. CASE GetFirst
    <2>1. /\ ToSet(batch') = {Head(queue)} /\ Distinct(batch')
          /\ ToSet(queue') = Q \ {Head(queue)} /\ Distinct(queue') /\ Head(queue) \in Q
      BY <1>1, <1>4, TakeHead DEF GetFirst
    <2>2. UNCHANGED <<socket, closed, receipts, sent, dropped, gone>>
      BY <1>4 DEF GetFirst
    <2>3. QED
      BY <2>1, <2>2
  <1>5. CASE FillBatch
    <2>1. Head(queue) \in Q /\ ToSet(queue') = Q \ {Head(queue)} /\ Distinct(queue')
      BY <1>1, <1>5, TakeHead DEF FillBatch, RoomLeft, OneLess, Taken
    <2>2. Head(queue) \in Events /\ Head(queue) \notin B
      BY <1>1, <2>1
    <2>3. ToSet(batch') = B \cup {Head(queue)} /\ Distinct(batch')
      BY <1>1, <1>5, <2>2, AppendNew DEF FillBatch, RoomLeft, OneLess, Taken
    <2>4. UNCHANGED <<socket, closed, receipts, sent, dropped, gone>>
      BY <1>5 DEF FillBatch, RoomLeft, OneLess, Taken
    <2>5. QED
      BY <2>1, <2>2, <2>3, <2>4
  <1>6. CASE EndBatch \/ Connect
    BY <1>6 DEF EndBatch, Connect
  <1>7. CASE ConnectFails
    <2>1. ToSet(batch') = {} /\ Distinct(batch') /\ dropped' = dropped \cup B
      BY <1>7, EmptySet DEF ConnectFails, NextBatch
    <2>2. UNCHANGED <<queue, socket, closed, receipts, sent, gone>>
      BY <1>7 DEF ConnectFails, NextBatch
    <2>3. QED
      BY <2>1, <2>2
  <1>8. CASE SendNext
    <2>1. /\ Head(batch) \in B /\ ToSet(batch') = B \ {Head(batch)} /\ Distinct(batch')
          /\ socket' = socket \cup {Head(batch)}
      BY <1>1, <1>8, TakeHead DEF SendNext
    <2>2. UNCHANGED <<queue, closed, receipts, sent, dropped, gone>>
      BY <1>8 DEF SendNext
    <2>3. QED
      BY <2>1, <2>2
  <1>9. CASE SendShort
    <2>1. /\ Head(batch) \in B /\ ToSet(batch') = B \ {Head(batch)} /\ Distinct(batch')
          /\ dropped' = dropped \cup {Head(batch)}
      BY <1>1, <1>9, TakeHead DEF SendShort
    <2>2. UNCHANGED <<queue, socket, closed, receipts, sent, gone>>
      BY <1>9 DEF SendShort
    <2>3. QED
      BY <2>1, <2>2
  <1>10. CASE SendFails
    <2>1. /\ ToSet(batch') = {} /\ Distinct(batch') /\ dropped' = dropped \cup B
          /\ socket' = {} /\ closed' = closed \cup ({socket} \ {{}})
      BY <1>10, EmptySet DEF SendFails, CloseSocket
    <2>2. UNCHANGED <<queue, receipts, sent, gone>>
      BY <1>10 DEF SendFails
    <2>3. QED
      BY <2>1, <2>2
  <1>11. CASE EndSend
    <2>1. socket' = {} /\ closed' = closed \cup ({socket} \ {{}})
      BY <1>11 DEF EndSend, CloseSocket
    <2>2. UNCHANGED <<queue, batch, receipts, sent, dropped, gone>>
      BY <1>11 DEF EndSend
    <2>3. QED
      BY <2>1, <2>2
  <1>12. CASE Reset
    <2>1. PICK c \in closed : closed' = closed \ {c} /\ dropped' = dropped \cup c
      BY <1>12 DEF Reset
    <2>2. UNCHANGED <<queue, batch, socket, receipts, sent, gone>>
      BY <1>12 DEF Reset, processVars
    <2>3. QED
      BY <2>1, <2>2
  <1>13. CASE Crash
    <2>1. /\ ToSet(queue') = {} /\ Distinct(queue') /\ ToSet(batch') = {} /\ Distinct(batch')
          /\ socket' = {} /\ closed' = closed \cup ({socket} \ {{}})
          /\ gone' = gone \cup Q \cup B
      BY <1>13, EmptySet DEF Crash, CloseSocket
    <2>2. UNCHANGED <<receipts, sent, dropped>>
      BY <1>13 DEF Crash
    <2>3. QED
      BY <2>1, <2>2
  <1>14. CASE UNCHANGED vars
    BY <1>14 DEF vars, processVars
  <1>15. QED
    BY <1>2, <1>3, <1>4, <1>5, <1>6, <1>7, <1>8, <1>9, <1>10, <1>11, <1>12, <1>13, <1>14
    DEF Next, Sender

(* An event is in one place at a time, and pending there.                  *)
THEOREM EventsHaveOnePlace == Spec => []ChannelInv
  <1>1. ChannelInv /\ [Next]_vars => ChannelInv'
    BY TypesKept, PlacesKept DEF ChannelInv
  <1>2. QED
    BY InitChannelInv, <1>1, PTL DEF Spec
-------------------------------------------------------------------------------
(* What is pending is in some place.                                       *)

Accounted == \A e \in sent \ (dropped \cup gone) : receipts[e] = 0 => e \in Held

(* The batch before is done with when the next one is begun.               *)
OneBatch == pc = "get" => batch = <<>>

LEMMA OneBatchKept == OneBatch /\ [Next]_vars => OneBatch'
  BY DEF OneBatch, Next, SendData, Receive, processVars, Sender, GetFirst, FillBatch, EndBatch,
     Connect, ConnectFails, NextBatch, SendNext, SendShort, SendFails, EndSend, Reset, Crash, vars

(* Where the events of a place go: to another one, to LogStash or lost.    *)
MovesOn(e) == e \in Held' \/ e \in (dropped \cup gone)' \/ receipts'[e] # 0

LEMMA AccountedKept == ChannelInv /\ OneBatch /\ Accounted /\ [Next]_vars => Accounted'
  <1> SUFFICES ASSUME ChannelInv, OneBatch, Accounted, [Next]_vars PROVE Accounted'
    OBVIOUS
  <1> DEFINE Q == ToSet(queue)
             B == ToSet(batch)
             Lost == dropped \cup gone
  <1>1. /\ queue \in Seq(Events) /\ batch \in Seq(Events) /\ Distinct(queue) /\ Distinct(batch)
        /\ receipts \in [Events -> Nat] /\ sent \subseteq Events
        /\ Q \subseteq Events /\ B \subseteq Events
    BY SetOfSeq DEF ChannelInv, TypeOK, OnePlace
  <1>2. ASSUME \A e \in Held : MovesOn(e), Lost \subseteq Lost', sent' \subseteq sent \cup Held',
               \A e \in Events : receipts'[e] = 0 => receipts[e] = 0
        PROVE  Accounted'
    BY <1>1, <1>2 DEF Accounted, MovesOn
  <1>3. ASSUME NEW e \in Events, SendData(e) PROVE Accounted'
    <2>1. ToSet(queue') = Q \cup {e} /\ sent' = sent \cup {e}
          /\ UNCHANGED <<batch, socket, closed, receipts, dropped, gone>>
      BY <1>1, <1>3, AppendNew DEF SendData
    <2>2. Held' = Held \cup {e}
      BY <2>1 DEF Held
    <2>3. QED
      BY <1>2, <2>1, <2>2 DEF MovesOn
  <1>4. ASSUME NEW e \in Events, Receive(e) PROVE Accounted'
    <2>1. UNCHANGED <<queue, batch, sent, dropped, gone>>
      BY <1>4 DEF Receive, processVars
    <2>2. receipts' = [receipts EXCEPT ![e] = @ + 1]
      BY <1>4 DEF Receive
    <2>3. /\ receipts'[e] # 0
          /\ \A f \in Events : receipts'[f] = 0 => receipts[f] = 0
      BY <1>1, <2>2
    <2>4. Held \subseteq Held' \cup {e}
      <3>1. CASE socket' = socket \ {e} /\ UNCHANGED closed
        BY <2>1, <3>1 DEF Held
      <3>2. ASSUME NEW c \in closed, closed' = Without(c, e), UNCHANGED socket
            PROVE  Held \subseteq Held' \cup {e}
        <4>1. \A d \in closed : \A f \in d : f = e \/ \E b \in closed' : f \in b
          <5> SUFFICES ASSUME NEW d \in closed, NEW f \in d, f # e
                       PROVE  \E b \in closed' : f \in b
            OBVIOUS
          <5>1. CASE d # c
            BY <3>2, <5>1 DEF Without
          <5>2. CASE d = c
            <6>1. f \in c \ {e} /\ c \ {e} # {}
              BY <5>2
            <6>2. c \ {e} \in closed'
              BY <3>2, <6>1 DEF Without
            <6>3. QED
              BY <6>1, <6>2
          <5>3. QED
            BY <5>1, <5>2
        <4>2. QED
          BY <2>1, <3>2, <4>1 DEF Held
      <3>3. QED
        BY <1>4, <3>1, <3>2 DEF Receive
    <2>5. QED
      BY <1>2, <2>1, <2>3, <2>4 DEF MovesOn
  <1>5. ASSUME UNCHANGED <<receipts, sent>>, Lost \subseteq Lost', Held \subseteq Held' \cup Lost'
        PROVE  Accounted'
    BY <1>2, <1>5 DEF MovesOn
  <1>6. CASE GetFirst
    <2>1. ToSet(batch') = {Head(queue)} /\ ToSet(queue') = Q \ {Head(queue)} /\ B = {}
      <3>1. batch = <<>>
        BY <1>6 DEF GetFirst, OneBatch
      <3>2. QED
        BY <1>1, <1>6, <3>1, TakeHead, EmptySet DEF GetFirst
    <2>2. UNCHANGED <<socket, closed, receipts, sent, dropped, gone>>
      BY <1>6 DEF GetFirst
    <2>3. QED
      BY <1>5, <2>1, <2>2 DEF Held
  <1>7. CASE FillBatch
    <2>1. queue # <<>> /\ batch' = Append(batch, Head(queue)) /\ queue' = Tail(queue)
          /\ UNCHANGED <<socket, closed, receipts, sent, dropped, gone>>
      BY <1>7 DEF FillBatch, RoomLeft, OneLess, Taken
    <2>2. Head(queue) \in Q /\ ToSet(queue') = Q \ {Head(queue)}
      BY <1>1, <2>1, TakeHead
    <2>3. ToSet(batch') = B \cup {Head(queue)}
      BY <1>1, <2>1, <2>2, AppendNew
    <2>4. QED
      BY <1>5, <2>1, <2>2, <2>3 DEF Held
  <1>8. CASE EndBatch \/ Connect
    BY <1>5, <1>8 DEF EndBatch, Connect, Held
  <1>9. CASE ConnectFails
    BY <1>5, <1>9 DEF ConnectFails, NextBatch, Held
  <1>10. CASE SendNext \/ SendShort
    <2>1. ToSet(batch') = B \ {Head(batch)}
      BY <1>1, <1>10, TakeHead DEF SendNext, SendShort
    <2>2. CASE SendNext
      BY <1>5, <2>1, <2>2 DEF SendNext, Held
    <2>3. CASE SendShort
      BY <1>5, <2>1, <2>3 DEF SendShort, Held
    <2>4. QED
      BY <1>10, <2>2, <2>3
  <1>11. CASE SendFails \/ EndSend \/ Crash
    <2>1. CloseSocket
      BY <1>11 DEF SendFails, EndSend, Crash
    <2>2. socket \cup UNION closed \subseteq UNION closed'
      BY <2>1 DEF CloseSocket
    <2>3. CASE SendFails
      BY <1>5, <2>2, <2>3 DEF SendFails, Held
    <2>4. CASE EndSend
      BY <1>5, <2>2, <2>4 DEF EndSend, Held
    <2>5. CASE Crash
      BY <1>5, <2>2, <2>5 DEF Crash, Held
    <2>6. QED
      BY <1>11, <2>3, <2>4, <2>5
  <1>12. CASE Reset
    <2>1. PICK c \in closed : closed' = closed \ {c} /\ dropped' = dropped \cup c
      BY <1>12 DEF Reset
    <2>2. UNCHANGED <<queue, batch, socket, receipts, sent, gone>>
      BY <1>12 DEF Reset, processVars
    <2>3. QED
      BY <1>5, <2>1, <2>2 DEF Held
  <1>13. CASE UNCHANGED vars
    BY <1>5, <1>13 DEF vars, processVars, Held
  <1>14. QED
    BY <1>3, <1>4, <1>6, <1>7, <1>8, <1>9, <1>10, <1>11, <1>12, <1>13 DEF Next, Sender

(* No event vanishes: one that was sent is received, counted as lost, or   *)
(* still in the queue, in the batch or on its way (client.py:24-60).       *)
THEOREM NoneVanishes == Spec => []PendingIsHeld
  <1>1. Init => OneBatch /\ Accounted
    BY DEF Init, OneBatch, Accounted
  <1>2. ChannelInv /\ Accounted => PendingIsHeld
    <2> SUFFICES ASSUME ChannelInv, Accounted PROVE Channel!Pending = Held
      BY DEF PendingIsHeld
    <2>1. Held \subseteq Channel!Pending
      BY DEF ChannelInv, HeldPending, Channel!Pending
    <2>2. QED
      BY <2>1 DEF Accounted, Channel!Pending
  <1>3. QED
    BY <1>1, <1>2, OneBatchKept, AccountedKept, EventsHaveOnePlace, PTL DEF Spec
-------------------------------------------------------------------------------
(* The refinement.                                                         *)

LEMMA InitMaps == Init => Channel!Init
  BY DEF Init, Channel!Init

LEMMA StepMaps == ChannelInv /\ [Next]_vars => [Channel!Next]_Channel!vars
  <1> SUFFICES ASSUME ChannelInv, [Next]_vars PROVE [Channel!Next]_Channel!vars
    OBVIOUS
  <1> DEFINE Lost == dropped \cup gone
  <1>1. /\ queue \in Seq(Events) /\ batch \in Seq(Events)
        /\ ToSet(queue) \subseteq Events /\ ToSet(batch) \subseteq Events
        /\ closed \subseteq SUBSET Events
    BY SetOfSeq DEF ChannelInv, TypeOK
  <1>2. Held \subseteq Channel!Pending
    BY DEF ChannelInv, HeldPending, Channel!Pending
  <1>3. ASSUME NEW some \in SUBSET Held, some \subseteq Events,
               Lost' = Lost \cup some, UNCHANGED <<sent, receipts>>
        PROVE  Channel!Next
    BY <1>2, <1>3 DEF Channel!Next, Channel!Lose
  <1>4. ASSUME UNCHANGED <<sent, receipts, dropped, gone>> PROVE UNCHANGED Channel!vars
    BY <1>4 DEF Channel!vars
  <1>5. ASSUME NEW e \in Events, SendData(e) PROVE Channel!Next
    BY <1>5 DEF SendData, Channel!Next, Channel!Send
  <1>6. ASSUME NEW e \in Events, Receive(e) PROVE Channel!Next
    <2>1. e \in Held
      BY <1>6 DEF Receive, Held
    <2>2. QED
      BY <1>2, <1>6, <2>1 DEF Receive, Channel!Next, Channel!Receive
  <1>7. CASE GetFirst \/ FillBatch \/ EndBatch \/ Connect \/ SendNext \/ EndSend
    BY <1>4, <1>7 DEF GetFirst, FillBatch, EndBatch, Connect, SendNext, EndSend,
       RoomLeft, OneLess, Taken
  <1>8. CASE ConnectFails \/ SendFails
    <2>1. /\ ToSet(batch) \in SUBSET Held
          /\ dropped' = dropped \cup ToSet(batch) /\ UNCHANGED <<sent, receipts, gone>>
      BY <1>8 DEF ConnectFails, SendFails, Held, NextBatch
    <2>2. QED
      BY <1>1, <1>3, <2>1
  <1>9. CASE SendShort
    <2>1. Head(batch) \in ToSet(batch)
      BY <1>1, <1>9, TakeHead DEF SendShort
    <2>2. /\ {Head(batch)} \in SUBSET Held
          /\ Lost' = Lost \cup {Head(batch)} /\ UNCHANGED <<sent, receipts>>
      BY <1>9, <2>1 DEF SendShort, Held
    <2>3. {Head(batch)} \subseteq Events
      BY <1>1, <2>1
    <2>4. Channel!Next
      BY <1>3, <2>2, <2>3
    <2>5. QED
      BY <2>4
  <1>10. CASE Reset
    <2>1. PICK c \in closed : dropped' = dropped \cup c /\ UNCHANGED <<sent, receipts, gone>>
      BY <1>10 DEF Reset
    <2>2. c \in SUBSET Held
      BY <2>1 DEF Held
    <2>3. QED
      BY <1>1, <1>3, <2>1, <2>2
  <1>11. CASE Crash
    <2>1. /\ ToSet(queue) \cup ToSet(batch) \in SUBSET Held
          /\ gone' = gone \cup ToSet(queue) \cup ToSet(batch)
          /\ UNCHANGED <<sent, receipts, dropped>>
      BY <1>11 DEF Crash, Held
    <2>2. QED
      BY <1>1, <1>3, <2>1
  <1>12. CASE UNCHANGED vars
    BY <1>4, <1>12 DEF vars
  <1>13. QED
    BY <1>5, <1>6, <1>7, <1>8, <1>9, <1>10, <1>11, <1>12 DEF Next, Sender

(* Queue, sender and connections implement the lossy channel               *)
(* (client.py:24-60).                                                      *)
THEOREM TelemetryIsAChannel == Spec => ImplementsChannel
  <1>1. Spec => Channel!Spec
    BY EventsHaveOnePlace, InitMaps, StepMaps, PTL DEF Spec, Channel!Spec
  <1>2. QED
    BY <1>1 DEF ImplementsChannel
(* What the channel promises of every event, the client keeps: it is       *)
(* received once at most, and not at all if it was counted as lost         *)
(* (client.py:24-60).                                                      *)
THEOREM EventsComeOutOnce == Spec => []Channel!OutOnce
  <1>1. Channel!Init => Channel!OutOnce
    BY DEF Channel!Init, Channel!OutOnce
  <1>2. Channel!OutOnce /\ [Channel!Next]_Channel!vars => Channel!OutOnce'
    <2> SUFFICES ASSUME Channel!OutOnce, [Channel!Next]_Channel!vars PROVE Channel!OutOnce'
      OBVIOUS
    <2> USE DEF Channel!OutOnce
    <2>1. ASSUME NEW e \in Events, Channel!Send(e) PROVE Channel!OutOnce'
      BY <2>1 DEF Channel!Send
    <2>2. ASSUME NEW e \in Events, Channel!Receive(e) PROVE Channel!OutOnce'
      BY <2>2 DEF Channel!Receive, Channel!Pending
    <2>3. ASSUME NEW some \in SUBSET Events, Channel!Lose(some) PROVE Channel!OutOnce'
      BY <2>3 DEF Channel!Lose, Channel!Pending
    <2>4. CASE UNCHANGED Channel!vars
      BY <2>4 DEF Channel!vars
    <2>5. QED
      BY <2>1, <2>2, <2>3, <2>4 DEF Channel!Next
  <1>3. QED
    BY TelemetryIsAChannel, <1>1, <1>2, PTL DEF ImplementsChannel, Channel!Spec
-------------------------------------------------------------------------------
(* Every variable keeps its type.                                          *)
THEOREM TelemetryTypeCorrect == Spec => []TypeOK
  <1>1. ChannelInv => TypeOK
    BY DEF ChannelInv
  <1>2. QED
    BY <1>1, EventsHaveOnePlace, PTL
-------------------------------------------------------------------------------
(* What a fault can cost.                                                  *)

InHand == ToSet(batch) \cup socket
Fits(s) == Cardinality(s) <= MaxBatch + 1

(* While a batch fills up, its room is what is left of it; from then on    *)
(* batch and open connection hold it between them.                         *)
BatchBounded ==
    /\ pc # "send" => socket = {}
    /\ pc = "get" => batch = <<>>
    /\ pc = "fill" => Cardinality(ToSet(batch)) + room <= MaxBatch + 1
    /\ Fits(InHand)
    /\ \A c \in closed : Fits(c)

LossInv == BatchBounded /\ LossBounded

LEMMA Finite ==
  ASSUME NEW s, s \subseteq Events
  PROVE  /\ IsFiniteSet(s) /\ Cardinality(s) \in Nat
         /\ \A t \in SUBSET s : Cardinality(t) <= Cardinality(s)
  BY EventsAssumption, FS_Subset, FS_CardinalityType

LEMMA OneMore ==
  ASSUME NEW s, s \subseteq Events, NEW e
  PROVE  Cardinality(s \cup {e}) <= Cardinality(s) + 1
  BY Finite, FS_AddElement

LEMMA UnionFits ==
  ASSUME NEW s, NEW t, s \subseteq Events, t \subseteq Events
  PROVE  Cardinality(s \cup t) <= Cardinality(s) + Cardinality(t)
  <1>1. /\ IsFiniteSet(s) /\ IsFiniteSet(t) /\ IsFiniteSet(s \cap t)
        /\ {Cardinality(s), Cardinality(t), Cardinality(s \cap t)} \subseteq Nat
    <2>1. s \cap t \subseteq Events
      OBVIOUS
    <2>2. QED
      BY <2>1, Finite
  <1>2. Cardinality(s \cup t) = Cardinality(s) + Cardinality(t) - Cardinality(s \cap t)
    BY <1>1, FS_Union
  <1>3. QED
    BY <1>1, <1>2

(* A fault that loses no more than a batch keeps to the bound.             *)
LEMMA OneFault ==
  ASSUME TypeOK, LossBounded, Fault, NEW s, s \subseteq Events, Fits(s),
         dropped' = dropped \cup s
  PROVE  LossBounded'
  <1>1. /\ {MaxBatch, faults, Cardinality(dropped), Cardinality(s)} \subseteq Nat
        /\ faults' = faults + 1
    BY BatchAssumption, Finite DEF TypeOK, Fault
  <1>2. Cardinality(dropped') <= Cardinality(dropped) + Cardinality(s)
    BY UnionFits DEF TypeOK
  <1>3. dropped' \subseteq Events
    BY DEF TypeOK
  <1>4. Cardinality(dropped') \in Nat
    BY <1>3, Finite
  <1>5. (MaxBatch + 1) * (faults + 1) = (MaxBatch + 1) * faults + (MaxBatch + 1)
    BY <1>1
  <1>6. Cardinality(dropped) <= (MaxBatch + 1) * faults
    BY DEF LossBounded
  <1>7. Cardinality(s) <= MaxBatch + 1
    BY DEF Fits
  <1>8. (MaxBatch + 1) * faults \in Nat
    BY <1>1
  <1>9. QED
    BY <1>1, <1>2, <1>4, <1>5, <1>6, <1>7, <1>8 DEF LossBounded

LEMMA LossUnchanged ==
  ASSUME TypeOK, LossBounded, dropped' = dropped,
         faults' = faults \/ (faults' = faults + 1)
  PROVE  LossBounded'
  <1>1. {MaxBatch, faults, Cardinality(dropped)} \subseteq Nat
    BY BatchAssumption, Finite DEF TypeOK
  <1>2. (MaxBatch + 1) * (faults + 1) = (MaxBatch + 1) * faults + (MaxBatch + 1)
    BY <1>1
  <1>3. (MaxBatch + 1) * faults \in Nat
    BY <1>1
  <1>4. QED
    BY <1>1, <1>2, <1>3 DEF LossBounded

LEMMA TailWithin ==
  ASSUME NEW S, NEW s \in Seq(S), s # <<>>
  PROVE  ToSet(Tail(s)) \subseteq ToSet(s)
  <1>1. /\ Len(s) \in Nat /\ Len(Tail(s)) = Len(s) - 1 /\ Tail(s) \in Seq(S)
        /\ \A i \in 1..Len(s) - 1 : Tail(s)[i] = s[i + 1] /\ i + 1 \in 1..Len(s)
    OBVIOUS
  <1>2. DOMAIN s = 1..Len(s) /\ DOMAIN Tail(s) = 1..Len(s) - 1
    BY <1>1
  <1>3. QED
    BY <1>1, <1>2 DEF ToSet

LEMMA InitLoss == Init => LossInv
  <1> SUFFICES ASSUME Init PROVE LossInv
    OBVIOUS
  <1>1. InHand = {} /\ dropped = {} /\ Cardinality({}) = 0
    BY EmptySet, FS_EmptySet DEF Init, InHand
  <1>2. QED
    BY <1>1, BatchAssumption DEF Init, LossInv, BatchBounded, LossBounded, Fits

(* The sender starts anew: what is closed is what was open.                *)
LEMMA StartsAnew ==
  ASSUME TypeOK, BatchBounded, CloseSocket, batch' = <<>>, pc' = "get"
  PROVE  BatchBounded'
  <1>1. socket \subseteq InHand /\ InHand \subseteq Events
    BY SetOfSeq DEF TypeOK, InHand
  <1>2. Fits(socket)
    BY <1>1, Finite, BatchAssumption DEF BatchBounded, Fits
  <1>3. socket' = {} /\ \A c \in closed' : c = socket \/ c \in closed
    BY DEF CloseSocket
  <1>4. Fits(InHand)'
    <2>1. InHand' = {}
      BY <1>3, EmptySet DEF InHand
    <2>2. QED
      BY <2>1, FS_EmptySet, BatchAssumption DEF Fits
  <1>5. \A c \in closed' : Fits(c)'
    BY <1>2, <1>3 DEF BatchBounded, Fits
  <1>6. QED
    BY <1>3, <1>4, <1>5 DEF BatchBounded

LEMMA LossStep == TypeOK /\ LossInv /\ [Next]_vars => LossInv'
  <1> SUFFICES ASSUME TypeOK, LossInv, [Next]_vars PROVE LossInv'
    OBVIOUS
  <1> DEFINE B == ToSet(batch)
  <1>1. /\ MaxBatch \in Nat /\ room \in Nat /\ queue \in Seq(Events) /\ batch \in Seq(Events)
        /\ B \subseteq Events /\ socket \subseteq Events /\ InHand \subseteq Events
        /\ closed \subseteq SUBSET Events /\ faults \in Nat
    BY BatchAssumption, SetOfSeq DEF TypeOK, InHand
  <1>2. /\ BatchBounded /\ LossBounded
        /\ B \subseteq InHand /\ socket \subseteq InHand /\ Fits(InHand)
    BY DEF LossInv, BatchBounded, InHand
  <1>3. \A s \in SUBSET InHand : Fits(s)
    BY <1>1, <1>2, Finite DEF Fits
  <1>4. ASSUME NEW e \in Events, SendData(e) PROVE LossInv'
    BY <1>1, <1>2, <1>4, LossUnchanged DEF SendData, LossInv, BatchBounded, InHand, Fits
  <1>5. ASSUME NEW e \in Events, Receive(e) PROVE LossInv'
    <2>1. /\ UNCHANGED <<queue, pc, batch, room, dropped, faults>>
          /\ socket' \subseteq socket
      BY <1>5 DEF Receive, processVars
    <2>2. \A d \in closed' : \E c \in closed : d \subseteq c
      BY <1>5 DEF Receive, Without
    <2>3. \A d \in closed' : Fits(d)
      BY <1>1, <1>2, <2>2, Finite DEF BatchBounded, Fits
    <2>4. InHand' \subseteq InHand
      BY <2>1 DEF InHand
    <2>5. Fits(InHand')
      BY <1>3, <2>4
    <2>6. BatchBounded'
      BY <1>2, <2>1, <2>3, <2>5 DEF BatchBounded, Fits
    <2>7. QED
      BY <1>2, <2>1, <2>6, LossUnchanged DEF LossInv
  <1>6. CASE GetFirst
    <2>1. ToSet(batch') = {Head(queue)} /\ Cardinality({Head(queue)}) = 1
      BY <1>1, <1>6, TakeHead, FS_Singleton DEF GetFirst
    <2>2. /\ pc = "get" /\ pc' = "fill" /\ room' = MaxBatch
          /\ UNCHANGED <<socket, closed, dropped, faults>> /\ socket = {}
      BY <1>2, <1>6 DEF GetFirst, BatchBounded
    <2>3. InHand' = {Head(queue)}
      BY <2>1, <2>2 DEF InHand
    <2>4. BatchBounded'
      BY <1>1, <1>2, <2>1, <2>2, <2>3 DEF BatchBounded, Fits
    <2>5. QED
      BY <1>2, <2>2, <2>4, LossUnchanged DEF LossInv
  <1>7. CASE FillBatch
    <2>1. /\ pc = "fill" /\ room > 0 /\ queue # <<>> /\ room' = room - 1
          /\ batch' = Append(batch, Head(queue))
          /\ UNCHANGED <<pc, socket, closed, dropped, faults>>
      BY <1>7 DEF FillBatch, RoomLeft, OneLess, Taken
    <2>2. socket = {} /\ Cardinality(B) + room <= MaxBatch + 1
      BY <1>2, <2>1 DEF BatchBounded
    <2>3. Head(queue) \in Events
      BY <1>1, <2>1, TakeHead
    <2>4. ToSet(batch') = B \cup {Head(queue)}
      BY <1>1, <2>1, <2>3, AppendNew
    <2>5. B \cup {Head(queue)} \subseteq Events
      BY <1>1, <2>3
    <2>6. /\ Cardinality(B) \in Nat /\ Cardinality(ToSet(batch')) \in Nat
          /\ Cardinality(ToSet(batch')) <= Cardinality(B) + 1
      BY <1>1, <2>4, <2>5, Finite, OneMore
    <2>7. Cardinality(ToSet(batch')) + room' <= MaxBatch + 1 /\ room' \in Nat
      BY <1>1, <2>1, <2>2, <2>6
    <2>8. InHand' = ToSet(batch')
      BY <2>1, <2>2 DEF InHand
    <2>9. Cardinality(ToSet(batch')) <= MaxBatch + 1
      BY <1>1, <2>6, <2>7
    <2>10. BatchBounded'
      <3>1. pc' = "fill" /\ socket' = {} /\ \A c \in closed' : Fits(c)'
        BY <1>2, <2>1, <2>2 DEF BatchBounded, Fits
      <3>2. Fits(InHand)'
        BY <2>8, <2>9 DEF Fits
      <3>3. QED
        BY <2>7, <3>1, <3>2 DEF BatchBounded
    <2>11. QED
      BY <1>2, <2>1, <2>10, LossUnchanged DEF LossInv
  <1>8. CASE EndBatch \/ Connect
    <2>1. /\ pc' # "get" /\ pc' # "fill" /\ socket = {}
          /\ UNCHANGED <<batch, socket, closed, dropped, faults>>
      BY <1>2, <1>8 DEF EndBatch, Connect, BatchBounded
    <2>2. BatchBounded'
      BY <1>2, <2>1 DEF BatchBounded, InHand, Fits
    <2>3. QED
      BY <1>2, <2>1, <2>2, LossUnchanged DEF LossInv
  <1>9. CASE ConnectFails
    <2>1. /\ dropped' = dropped \cup B /\ Fault /\ Fits(B)
          /\ batch' = <<>> /\ pc' = "get" /\ socket' = {} /\ UNCHANGED closed
      BY <1>2, <1>3, <1>9 DEF ConnectFails, NextBatch, BatchBounded
    <2>2. InHand' = {}
      BY <2>1, EmptySet DEF InHand
    <2>3. BatchBounded'
      BY <1>2, <1>3, <2>1, <2>2 DEF BatchBounded, Fits
    <2>4. QED
      BY <1>1, <1>2, <2>1, <2>3, OneFault DEF LossInv
  <1>10. CASE SendNext \/ SendShort
    <2>1. /\ pc = "send" /\ batch # <<>> /\ batch' = Tail(batch) /\ UNCHANGED <<pc, closed>>
      BY <1>10 DEF SendNext, SendShort
    <2>2. Head(batch) \in B /\ ToSet(batch') \subseteq B
      <3>1. Head(batch) \in B
        BY <1>1, <2>1, TakeHead
      <3>2. ToSet(Tail(batch)) \subseteq B
        BY <1>1, <2>1, TailWithin
      <3>3. QED
        BY <2>1, <3>1, <3>2
    <2>3. InHand' \subseteq InHand
      BY <1>10, <2>2 DEF SendNext, SendShort, InHand
    <2>4. BatchBounded'
      BY <1>2, <1>3, <2>1, <2>3 DEF BatchBounded, Fits
    <2>5. LossBounded'
      <3>1. CASE SendNext
        BY <1>2, <3>1, LossUnchanged DEF SendNext
      <3>2. CASE SendShort
        <4>1. Fits({Head(batch)}) /\ {Head(batch)} \subseteq Events
          BY <1>1, <1>2, <1>3, <2>2
        <4>2. QED
          BY <1>2, <3>2, <4>1, OneFault DEF SendShort
      <3>3. QED
        BY <1>10, <3>1, <3>2
    <2>6. QED
      BY <2>4, <2>5 DEF LossInv
  <1>11. CASE SendFails
    <2>1. BatchBounded'
      BY <1>2, <1>11, StartsAnew DEF SendFails
    <2>2. Fault /\ dropped' = dropped \cup B /\ Fits(B)
      BY <1>2, <1>3, <1>11 DEF SendFails
    <2>3. QED
      BY <1>1, <1>2, <2>1, <2>2, OneFault DEF LossInv
  <1>12. CASE EndSend
    BY <1>2, <1>12, StartsAnew, LossUnchanged DEF EndSend, LossInv
  <1>13. CASE Reset
    <2>1. PICK c \in closed : closed' = closed \ {c} /\ dropped' = dropped \cup c
      BY <1>13 DEF Reset
    <2>2. Fits(c) /\ c \subseteq Events
      BY <1>1, <1>2 DEF BatchBounded
    <2>3. BatchBounded'
      BY <1>2, <1>13, <2>1 DEF Reset, processVars, BatchBounded, InHand, Fits
    <2>4. QED
      BY <1>2, <1>13, <2>1, <2>2, <2>3, OneFault DEF Reset, LossInv
  <1>14. CASE Crash
    <2>1. BatchBounded'
      BY <1>2, <1>14, StartsAnew DEF Crash
    <2>2. QED
      BY <1>2, <1>14, <2>1, LossUnchanged DEF Crash, Fault, LossInv
  <1>15. CASE UNCHANGED vars
    <2>1. BatchBounded'
      BY <1>2, <1>15 DEF vars, processVars, BatchBounded, InHand, Fits
    <2>2. QED
      BY <1>2, <1>15, <2>1, LossUnchanged DEF vars, LossInv
  <1>16. QED
    BY <1>4, <1>5, <1>6, <1>7, <1>8, <1>9, <1>10, <1>11, <1>12, <1>13, <1>14, <1>15
    DEF Next, Sender

(* A failure of the network costs one batch at most, however many events   *)
(* wait (client.py:33-41).                                                 *)
THEOREM LossIsBounded == Spec => []LossBounded
  <1>1. LossInv => LossBounded
    BY DEF LossInv
  <1>2. QED
    BY <1>1, TelemetryTypeCorrect, InitLoss, LossStep, PTL DEF Spec
===============================================================================
