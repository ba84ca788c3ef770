-------------------------- MODULE DepoolUpkeepProofs --------------------------
(***************************************************************************)
(* The two rate limits of DepoolUpkeep, for any number of depools and any  *)
(* periods, with restarts and lost answers.                                *)
(*                                                                         *)
(* A limit is checked against the time the process remembers and speaks of *)
(* the time the chain has seen, so the inductive invariant relates the     *)
(* two: what is remembered of a top-up is never longer ago than the top-up *)
(* itself plus the time its calls took, and while a call is under way the  *)
(* check that led to it still counts.                                      *)
(***************************************************************************)
EXTENDS DepoolUpkeep, TLAPS

(* Where the loop is: the depool a call is for, how long the call took.    *)
LoopShape ==
    /\ pc \in Calls \cup {"paceTicktock"} => depool \in Depools
    /\ pc = "sleep" => timer <= Poll
    /\ pc \in Calls => timer <= MaxCall
    /\ pc \in {"depool", "paceTicktock"} => timer = 0
    /\ pc \in {"confirmReplenish", "confirmTicktock"} => Custodians

TopUpsPaced ==
    /\ \A d \in Depools \ forgotTopUps :
          sinceReplenishment[d] <= topUpAge[d] + CallTime
    /\ pc = "replenish" => sinceReplenishment[depool] <= timer
    /\ pc = "confirmReplenish" => sinceReplenishment[depool] <= MaxCall + timer
    /\ pc \in {"replenish", "confirmReplenish"} =>
          depool \in forgotTopUps \/ topUpAge[depool] + CallTime >= ReplenishPeriod

PingsPaced ==
    /\ \A d \in Depools \ forgotPings : sinceTicktock[d] <= pingAge[d]
    /\ pc \in {"ticktock", "confirmTicktock"} => sinceTicktock[depool] >= TicktockPeriod

UpkeepInv == TypeOK /\ LoopShape /\ TopUpsPaced /\ PingsPaced
-------------------------------------------------------------------------------
LEMMA TimesAreNumbers ==
  /\ Poll \in Nat /\ MaxCall \in Nat /\ ReplenishPeriod \in Nat /\ TicktockPeriod \in Nat
  /\ MaxFaults \in Nat
  /\ CallTime \in Nat /\ CallTime >= MaxCall
  /\ Custodians => CallTime = MaxCall + MaxCall
  BY TimesAssumption, DepoolsAssumption DEF CallTime

(* An age grows by one, up to its limit.                                   *)
LEMMA OlderAges ==
  ASSUME NEW limit \in Nat, NEW age \in [Depools -> 0..limit]
  PROVE  /\ Older(age, limit) \in [Depools -> 0..limit]
         /\ \A d \in Depools : /\ age[d] <= Older(age, limit)[d]
                               /\ Older(age, limit)[d] <= age[d] + 1
                               /\ age[d] < limit => Older(age, limit)[d] = age[d] + 1
  BY DEF Older

LEMMA InitUpkeep == Init => UpkeepInv
  <1> SUFFICES ASSUME Init PROVE UpkeepInv
    OBVIOUS
  <1>1. TypeOK
    <2>1. /\ ReplenishPeriod \in 0..ReplenishPeriod /\ TicktockPeriod \in 0..TicktockPeriod
          /\ 0 \in 0..Poll /\ 0 \in 0..MaxFaults
      BY TimesAreNumbers
    <2>2. /\ sinceReplenishment \in [Depools -> 0..ReplenishPeriod]
          /\ topUpAge \in [Depools -> 0..ReplenishPeriod]
          /\ sinceTicktock \in [Depools -> 0..TicktockPeriod]
          /\ pingAge \in [Depools -> 0..TicktockPeriod]
      BY <2>1 DEF Init
    <2>3. lastEvent \in [Depools -> {"low", "other"}]
      BY DEF Init
    <2>4. QED
      BY <2>1, <2>2, <2>3 DEF Init, TypeOK
  <1>2. LoopShape
    BY TimesAreNumbers DEF Init, LoopShape, Calls
  <1>3. TopUpsPaced
    BY TimesAreNumbers DEF Init, TopUpsPaced
  <1>4. PingsPaced
    BY TimesAreNumbers DEF Init, PingsPaced
  <1>5. QED
    BY <1>1, <1>2, <1>3, <1>4 DEF UpkeepInv

-------------------------------------------------------------------------------
(* Time.                                                                   *)

LEMMA TickUpkeep == UpkeepInv /\ Tick => UpkeepInv'
  <1> SUFFICES ASSUME UpkeepInv, Tick PROVE UpkeepInv'
    OBVIOUS
  <1>1. /\ \A d \in Depools :
              /\ sinceReplenishment'[d] \in 0..ReplenishPeriod
              /\ sinceReplenishment'[d] <= sinceReplenishment[d] + 1
        /\ sinceReplenishment' \in [Depools -> 0..ReplenishPeriod]
    BY OlderAges, TimesAreNumbers DEF UpkeepInv, TypeOK, Tick
  <1>2. /\ topUpAge' \in [Depools -> 0..ReplenishPeriod]
        /\ \A d \in Depools : /\ topUpAge[d] <= topUpAge'[d]
                              /\ topUpAge[d] < ReplenishPeriod => topUpAge'[d] = topUpAge[d] + 1
    BY OlderAges, TimesAreNumbers DEF UpkeepInv, TypeOK, Tick
  <1>3. /\ sinceTicktock' \in [Depools -> 0..TicktockPeriod]
        /\ \A d \in Depools : /\ sinceTicktock[d] <= sinceTicktock'[d]
                              /\ sinceTicktock'[d] <= sinceTicktock[d] + 1
    BY OlderAges, TimesAreNumbers DEF UpkeepInv, TypeOK, Tick
  <1>4. /\ pingAge' \in [Depools -> 0..TicktockPeriod]
        /\ \A d \in Depools : /\ pingAge[d] <= pingAge'[d]
                              /\ pingAge[d] < TicktockPeriod => pingAge'[d] = pingAge[d] + 1
    BY OlderAges, TimesAreNumbers DEF UpkeepInv, TypeOK, Tick
  <1>5. depool' = depool
    BY DEF Tick, depool
  <1>6. LoopShape'
    BY <1>5, TimesAreNumbers DEF UpkeepInv, TypeOK, LoopShape, Tick, Calls
  <1>7. TypeOK'
    BY <1>1, <1>2, <1>3, <1>4, TimesAreNumbers
    DEF UpkeepInv, TypeOK, Tick, Calls, chainVars
  <1>8. TopUpsPaced'
    <2>1. \A d \in Depools \ forgotTopUps :
             sinceReplenishment'[d] <= topUpAge'[d] + CallTime
      <3> SUFFICES ASSUME NEW d \in Depools \ forgotTopUps
                   PROVE  sinceReplenishment'[d] <= topUpAge'[d] + CallTime
        OBVIOUS
      <3>1. sinceReplenishment[d] <= topUpAge[d] + CallTime
        BY DEF UpkeepInv, TopUpsPaced
      <3>2. /\ sinceReplenishment[d] \in Nat /\ topUpAge[d] \in 0..ReplenishPeriod
            /\ sinceReplenishment'[d] \in 0..ReplenishPeriod /\ topUpAge'[d] \in 0..ReplenishPeriod
        BY <1>1, <1>2, TimesAreNumbers DEF UpkeepInv, TypeOK
      <3>3. QED
        BY <1>1, <1>2, <3>1, <3>2, TimesAreNumbers
    <2>2. pc \in Calls => /\ timer' = timer + 1 /\ depool \in Depools
                          /\ sinceReplenishment[depool] \in Nat /\ timer \in Nat
                          /\ sinceReplenishment'[depool] <= sinceReplenishment[depool] + 1
                          /\ sinceReplenishment'[depool] \in Nat
                          /\ topUpAge[depool] \in Nat /\ topUpAge'[depool] \in Nat
                          /\ topUpAge[depool] <= topUpAge'[depool]
      BY <1>1, <1>2, TimesAreNumbers DEF UpkeepInv, TypeOK, LoopShape, Tick, Calls
    <2>3. QED
      BY <1>5, <2>1, <2>2, TimesAreNumbers DEF UpkeepInv, TopUpsPaced, Tick, Calls, CallTime
  <1>9. PingsPaced'
    <2>1. \A d \in Depools \ forgotPings : sinceTicktock'[d] <= pingAge'[d]
      <3> SUFFICES ASSUME NEW d \in Depools \ forgotPings
                   PROVE  sinceTicktock'[d] <= pingAge'[d]
        OBVIOUS
      <3>1. sinceTicktock[d] <= pingAge[d]
        BY DEF UpkeepInv, PingsPaced
      <3>2. /\ sinceTicktock[d] \in Nat /\ pingAge[d] \in 0..TicktockPeriod
            /\ sinceTicktock'[d] \in 0..TicktockPeriod /\ pingAge'[d] \in 0..TicktockPeriod
        BY <1>3, <1>4, TimesAreNumbers DEF UpkeepInv, TypeOK
      <3>3. QED
        BY <1>3, <1>4, <3>1, <3>2, TimesAreNumbers
    <2>2. pc \in Calls => /\ depool \in Depools
                          /\ sinceTicktock[depool] \in Nat /\ sinceTicktock'[depool] \in Nat
                          /\ sinceTicktock[depool] <= sinceTicktock'[depool]
      BY <1>3, TimesAreNumbers DEF UpkeepInv, TypeOK, LoopShape
    <2>3. QED
      BY <1>5, <2>1, <2>2, TimesAreNumbers DEF UpkeepInv, PingsPaced, Tick, Calls
  <1>10. QED
    BY <1>6, <1>7, <1>8, <1>9 DEF UpkeepInv

-------------------------------------------------------------------------------
(* The chain and the steps between two calls.                              *)

(* A step that touches neither the times nor the ages, and does not lead   *)
(* into a call, keeps the two rates.                                       *)
LEMMA NoCallUpkeep ==
  ASSUME UpkeepInv, TypeOK', LoopShape',
         UNCHANGED <<memory, topUpAge, pingAge, forgotTopUps, forgotPings>>,
         \/ pc' \notin Calls
         \/ UNCHANGED <<pc, timer, todo>>
  PROVE  UpkeepInv'
  BY DEF UpkeepInv, TopUpsPaced, PingsPaced, memory, Calls, depool

LEMMA ChainUpkeep == UpkeepInv /\ Chain => UpkeepInv'
  <1> SUFFICES ASSUME UpkeepInv, Chain PROVE UpkeepInv'
    OBVIOUS
  <1> DEFINE Frame == UNCHANGED <<pc, timer, todo, memory, topUpAge, pingAge,
                                  forgotTopUps, forgotPings, faults>>
  <1>1. Frame /\ TypeOK'
    <2> USE DEF TypeOK, UpkeepInv, memory, historyVars, UnchangedProcess
    <2>1. CASE OpenElection
      BY <2>1 DEF OpenElection
    <2>2. CASE CloseElection
      BY <2>2 DEF CloseElection
    <2>3. ASSUME NEW d \in Depools, RunShort(d)
          PROVE  Frame /\ TypeOK'
      BY <2>3 DEF RunShort
    <2>4. ASSUME NEW d \in Depools, PingFromElsewhere(d)
          PROVE  Frame /\ TypeOK'
      BY <2>4 DEF PingFromElsewhere
    <2>5. ASSUME NEW d \in Depools, Work(d)
          PROVE  Frame /\ TypeOK'
      BY <2>5 DEF Work
    <2>6. QED
      BY <2>1, <2>2, <2>3, <2>4, <2>5 DEF Chain
  <1>2. LoopShape'
    BY <1>1 DEF UpkeepInv, LoopShape, depool
  <1>3. QED
    BY <1>1, <1>2, NoCallUpkeep

(* Sleeping and going on to the next depool leave no call under way.       *)
LEMMA BetweenCalls ==
  ASSUME TypeOK, Sleep \/ NextDepool
  PROVE  /\ pc' \in {"sleep", "depool"} /\ timer' \in 0..Poll
         /\ todo' \subseteq Depools
         /\ LoopShape'
  BY TimesAreNumbers DEF TypeOK, Sleep, NextDepool, LoopShape, Calls

LEMMA QuietUpkeep ==
  ASSUME UpkeepInv, Sleep \/ NextDepool \/ StartPass,
         joined' \in BOOLEAN, UNCHANGED <<chainVars, memory, historyVars>>
  PROVE  UpkeepInv'
  <1>1. CASE Sleep \/ NextDepool
    <2>1. TypeOK'
      BY <1>1, BetweenCalls, TimesAreNumbers DEF UpkeepInv, TypeOK, chainVars, memory, historyVars
    <2>2. QED
      BY <1>1, <2>1, BetweenCalls, NoCallUpkeep DEF UpkeepInv, historyVars, Calls
  <1>2. CASE StartPass
    <2>1. TypeOK'
      BY <1>2, TimesAreNumbers DEF UpkeepInv, TypeOK, StartPass, chainVars, memory, historyVars
    <2>2. LoopShape'
      BY <1>2 DEF UpkeepInv, LoopShape, StartPass, Calls
    <2>3. QED
      BY <1>2, <2>1, <2>2, NoCallUpkeep DEF StartPass, historyVars, Calls
  <1>3. QED
    BY <1>1, <1>2

-------------------------------------------------------------------------------
(* Into, through and out of the calls.                                     *)

(* A step into a call, or out of one, leaves the chain's types alone.      *)
LEMMA CallTypes ==
  ASSUME TypeOK, NEW c \in Calls \cup {"paceTicktock"}, Call(c)
  PROVE  /\ pc' = c /\ timer' = 0 /\ todo' = todo /\ depool' = depool
         /\ timer' \in 0..Poll \cup 0..MaxCall
  BY TimesAreNumbers DEF Call, depool

LEMMA ReplenishUpkeep ==
  ASSUME UpkeepInv, NEW d \in Depools, ReplenishLow(d) PROVE UpkeepInv'
  <1>1. /\ d = depool /\ pc' = "replenish" /\ timer' = 0 /\ todo' = todo /\ depool' = d
        /\ sinceReplenishment[d] >= ReplenishPeriod
    BY DEF ReplenishLow, LooksAt, TopUpDue, Call, depool, Stamped
  <1>2. /\ sinceReplenishment' = [sinceReplenishment EXCEPT ![d] = 0]
        /\ UNCHANGED <<chainVars, joined, sinceTicktock, enabled, historyVars>>
    BY DEF ReplenishLow, Stamped
  <1>3. TypeOK'
    BY <1>1, <1>2, TimesAreNumbers DEF UpkeepInv, TypeOK, chainVars, historyVars, Calls
  <1>4. LoopShape'
    BY <1>1, TimesAreNumbers DEF LoopShape, Calls
  <1>5. TopUpsPaced'
    <2>1. \A e \in Depools : /\ topUpAge[e] \in Nat /\ sinceReplenishment[e] \in Nat
                             /\ sinceReplenishment'[e] = IF e = d THEN 0 ELSE sinceReplenishment[e]
      BY <1>2, TimesAreNumbers DEF UpkeepInv, TypeOK
    <2>2. d \in forgotTopUps \/ topUpAge[d] + CallTime >= ReplenishPeriod
      BY <1>1, <2>1, TimesAreNumbers DEF UpkeepInv, TopUpsPaced
    <2>3. \A e \in Depools \ forgotTopUps : sinceReplenishment'[e] <= topUpAge[e] + CallTime
      BY <2>1, TimesAreNumbers DEF UpkeepInv, TopUpsPaced
    <2>4. QED
      BY <1>1, <1>2, <2>1, <2>2, <2>3 DEF TopUpsPaced, historyVars
  <1>6. PingsPaced'
    BY <1>1, <1>2 DEF UpkeepInv, PingsPaced, historyVars
  <1>7. QED
    BY <1>3, <1>4, <1>5, <1>6 DEF UpkeepInv

(* The top-up is executed.                                                 *)
LEMMA TopUpUpkeep ==
  ASSUME UpkeepInv, pc \in {"replenish", "confirmReplenish"}, TopUp(depool),
         pc = "replenish" \/ Custodians,
         TypeOK', LoopShape', pc' \notin Calls, UNCHANGED memory
  PROVE  UpkeepInv'
  <1>1. depool \in Depools
    BY DEF UpkeepInv, LoopShape, Calls
  <1>2. sinceReplenishment[depool] <= CallTime
    <2>1. sinceReplenishment[depool] \in Nat /\ timer \in Nat /\ timer <= MaxCall
      BY <1>1, TimesAreNumbers DEF UpkeepInv, TypeOK, LoopShape, Calls
    <2>2. QED
      BY <2>1, TimesAreNumbers DEF UpkeepInv, TopUpsPaced, LoopShape
  <1>3. \A d \in Depools : /\ topUpAge[d] \in Nat /\ topUpAge'[d] \in Nat
                           /\ topUpAge'[d] = IF d = depool THEN 0 ELSE topUpAge[d]
    BY <1>1, TimesAreNumbers DEF UpkeepInv, TypeOK, TopUp
  <1>4. TopUpsPaced'
    <2>1. \A d \in Depools \ forgotTopUps' :
             sinceReplenishment'[d] <= topUpAge'[d] + CallTime
      BY <1>2, <1>3, TimesAreNumbers DEF UpkeepInv, TopUpsPaced, TopUp, memory
    <2>2. QED
      BY <2>1 DEF TopUpsPaced, Calls
  <1>5. PingsPaced'
    BY DEF UpkeepInv, PingsPaced, TopUp, memory, Calls
  <1>6. QED
    BY <1>4, <1>5 DEF UpkeepInv

(* The ticktock is executed: either the process notes the time, or the     *)
(* depool is one whose ticktock it does not know of.                       *)
LEMMA PingUpkeep ==
  ASSUME UpkeepInv, pc \in {"ticktock", "confirmTicktock"}, NEW known \in BOOLEAN,
         Ping(depool, known), TypeOK', LoopShape', pc' \notin Calls,
         UNCHANGED sinceReplenishment,
         IF known THEN StampTicktock ELSE UNCHANGED sinceTicktock
  PROVE  UpkeepInv'
  <1>1. depool \in Depools
    BY DEF UpkeepInv, LoopShape, Calls
  <1>2. TopUpsPaced'
    BY DEF UpkeepInv, TopUpsPaced, Ping, Calls
  <1>3. PingsPaced'
    <2>1. \A d \in Depools : /\ pingAge[d] \in Nat /\ sinceTicktock[d] \in Nat
                             /\ d # depool => /\ pingAge'[d] = pingAge[d]
                                              /\ sinceTicktock'[d] = sinceTicktock[d]
      BY <1>1, TimesAreNumbers DEF UpkeepInv, TypeOK, Ping, StampTicktock
    <2>2. known => sinceTicktock'[depool] = 0 /\ pingAge'[depool] = 0
      BY <1>1 DEF UpkeepInv, TypeOK, Ping, StampTicktock
    <2>3. \A d \in Depools \ forgotPings' : sinceTicktock'[d] <= pingAge'[d]
      BY <2>1, <2>2 DEF UpkeepInv, PingsPaced, Ping
    <2>4. QED
      BY <2>3 DEF PingsPaced, Calls
  <1>4. QED
    BY <1>2, <1>3 DEF UpkeepInv

(* The types of the chain after a top-up or a ticktock.                    *)
LEMMA ExecutedTypes ==
  ASSUME UpkeepInv, depool \in Depools,
         TopUp(depool) \/ \E known \in BOOLEAN : Ping(depool, known),
         pc' \in {"sleep", "depool", "paceTicktock"}, timer' \in 0..Poll, todo' \subseteq Depools,
         UNCHANGED joined, faults' \in 0..MaxFaults,
         UNCHANGED <<sinceReplenishment, enabled>>,
         UNCHANGED sinceTicktock \/ StampTicktock
  PROVE  TypeOK'
  <1> USE TimesAreNumbers DEF UpkeepInv, TypeOK
  <1>1. sinceTicktock' \in [Depools -> 0..TicktockPeriod]
    BY DEF StampTicktock
  <1>2. CASE TopUp(depool)
    BY <1>1, <1>2 DEF TopUp
  <1>3. ASSUME NEW known \in BOOLEAN, Ping(depool, known) PROVE TypeOK'
    BY <1>1, <1>3 DEF Ping
  <1>4. QED
    BY <1>2, <1>3

LEMMA LookAtUpkeep ==
  ASSUME UpkeepInv, NEW d \in Depools, LookAt(d) \/ JoinRaises(d) PROVE UpkeepInv'
  <1>1. CASE ReplenishLow(d)
    BY <1>1, ReplenishUpkeep
  <1>2. CASE LeaveLow(d) \/ LeaveDisabled(d)
    BY <1>2, QuietUpkeep DEF LeaveLow, LeaveDisabled, UpkeepInv, TypeOK, NotStamped, memory
  <1>3. CASE JoinThrough(d)
    BY <1>3, QuietUpkeep DEF JoinThrough, UpkeepInv, TypeOK
  <1>4. CASE JoinRaises(d)
    BY <1>4, QuietUpkeep DEF JoinRaises
  <1>5. CASE NothingToSign(d)
    <2>1. /\ depool = d /\ pc' = "paceTicktock" /\ timer' = 0 /\ todo' = todo /\ depool' = d
          /\ UNCHANGED <<chainVars, joined, memory, historyVars>>
      BY <1>5 DEF NothingToSign, LooksAt, Call, depool
    <2>2. TypeOK'
      BY <2>1, TimesAreNumbers DEF UpkeepInv, TypeOK, chainVars, memory, historyVars
    <2>3. LoopShape'
      BY <2>1 DEF LoopShape, Calls
    <2>4. QED
      BY <2>1, <2>2, <2>3, NoCallUpkeep DEF historyVars, Calls
  <1>6. QED
    BY <1>1, <1>2, <1>3, <1>4, <1>5 DEF LookAt

LEMMA SubmitReplenishUpkeep ==
  ASSUME UpkeepInv, SubmitReplenish PROVE UpkeepInv'
  <1>1. pc = "replenish" /\ depool \in Depools /\ UNCHANGED <<joined, memory>>
    BY DEF SubmitReplenish, UpkeepInv, LoopShape, Calls, AfterReplenish
  <1>2. CASE Custodians
    <2>1. /\ pc' = "confirmReplenish" /\ timer' = 0 /\ depool' = depool /\ todo' = todo
          /\ UNCHANGED <<chainVars, historyVars>>
      BY <1>2 DEF SubmitReplenish, Call, depool, AfterReplenish
    <2>2. TypeOK'
      BY <1>1, <2>1, TimesAreNumbers
      DEF UpkeepInv, TypeOK, chainVars, memory, historyVars, Calls
    <2>3. LoopShape'
      BY <1>1, <1>2, <2>1, TimesAreNumbers DEF LoopShape, Calls
    <2>4. sinceReplenishment[depool] <= MaxCall
      <3>1. sinceReplenishment[depool] \in Nat /\ timer \in Nat /\ timer <= MaxCall
        BY <1>1, TimesAreNumbers DEF UpkeepInv, TypeOK, LoopShape, Calls
      <3>2. QED
        BY <1>1, <3>1, TimesAreNumbers DEF UpkeepInv, TopUpsPaced
    <2>5. TopUpsPaced'
      BY <1>1, <2>1, <2>4, TimesAreNumbers DEF UpkeepInv, TopUpsPaced, memory, historyVars
    <2>6. PingsPaced'
      BY <1>1, <2>1 DEF UpkeepInv, PingsPaced, memory, historyVars
    <2>7. QED
      BY <2>2, <2>3, <2>5, <2>6 DEF UpkeepInv
  <1>3. CASE ~Custodians
    <2>1. /\ TopUp(depool) /\ UNCHANGED faults
          /\ pc' = "paceTicktock" /\ timer' = 0 /\ depool' = depool /\ todo' = todo
      BY <1>3 DEF SubmitReplenish, Call, depool, AfterReplenish
    <2>2. TypeOK'
      BY <1>1, <2>1, ExecutedTypes, TimesAreNumbers DEF UpkeepInv, TypeOK, memory
    <2>3. LoopShape'
      BY <1>1, <2>1 DEF LoopShape, Calls
    <2>4. QED
      BY <1>1, <2>1, <2>2, <2>3, TopUpUpkeep DEF Calls
  <1>4. QED
    BY <1>2, <1>3 DEF UpkeepInv, TypeOK

LEMMA ConfirmReplenishUpkeep ==
  ASSUME UpkeepInv, ConfirmReplenish PROVE UpkeepInv'
  <1>1. /\ pc = "confirmReplenish" /\ depool \in Depools /\ Custodians
        /\ UNCHANGED <<joined, memory, faults>>
        /\ TopUp(depool)
        /\ pc' = "paceTicktock" /\ timer' = 0 /\ depool' = depool /\ todo' = todo
    BY DEF ConfirmReplenish, UpkeepInv, LoopShape, Calls, Call, depool, AfterReplenish
  <1>2. TypeOK'
    BY <1>1, ExecutedTypes, TimesAreNumbers DEF UpkeepInv, TypeOK, memory
  <1>3. LoopShape'
    BY <1>1 DEF LoopShape, Calls
  <1>4. QED
    BY <1>1, <1>2, <1>3, TopUpUpkeep DEF Calls

LEMMA PaceUpkeep ==
  ASSUME UpkeepInv, PaceTicktock PROVE UpkeepInv'
  <1>1. CASE sinceTicktock[depool] >= TicktockPeriod
    <2>1. /\ depool \in Depools /\ pc' = "ticktock" /\ timer' = 0 /\ todo' = todo /\ depool' = depool
          /\ UNCHANGED <<chainVars, joined, memory, historyVars>>
      BY <1>1 DEF PaceTicktock, UpkeepInv, LoopShape, Call, depool
    <2>2. TypeOK'
      BY <2>1, TimesAreNumbers DEF UpkeepInv, TypeOK, chainVars, memory, historyVars, Calls
    <2>3. LoopShape'
      BY <2>1, TimesAreNumbers DEF LoopShape, Calls
    <2>4. TopUpsPaced' /\ PingsPaced'
      BY <1>1, <2>1 DEF UpkeepInv, TopUpsPaced, PingsPaced, memory, historyVars
    <2>5. QED
      BY <2>2, <2>3, <2>4 DEF UpkeepInv
  <1>2. CASE ~(sinceTicktock[depool] >= TicktockPeriod)
    BY <1>2, QuietUpkeep DEF PaceTicktock, UpkeepInv, TypeOK
  <1>3. QED
    BY <1>1, <1>2

LEMMA TicktockUpkeep ==
  ASSUME UpkeepInv, SubmitTicktock \/ ConfirmTicktock PROVE UpkeepInv'
  <1>1. pc \in {"ticktock", "confirmTicktock"} /\ depool \in Depools /\ UNCHANGED joined
    BY DEF SubmitTicktock, ConfirmTicktock, UpkeepInv, LoopShape, Calls
  <1>2. CASE SubmitTicktock /\ Custodians
    <2>1. /\ pc = "ticktock" /\ pc' = "confirmTicktock" /\ timer' = 0
          /\ depool' = depool /\ todo' = todo
          /\ UNCHANGED <<chainVars, memory, historyVars>>
      BY <1>2 DEF SubmitTicktock, Call, depool
    <2>2. TypeOK'
      BY <1>1, <2>1, TimesAreNumbers
      DEF UpkeepInv, TypeOK, chainVars, memory, historyVars, Calls
    <2>3. LoopShape'
      BY <1>1, <1>2, <2>1, TimesAreNumbers DEF LoopShape, Calls
    <2>4. TopUpsPaced' /\ PingsPaced'
      BY <1>1, <2>1 DEF UpkeepInv, TopUpsPaced, PingsPaced, memory, historyVars
    <2>5. QED
      BY <2>2, <2>3, <2>4 DEF UpkeepInv
  <1>3. CASE ConfirmTicktock \/ (SubmitTicktock /\ ~Custodians)
    <2>1. Ping(depool, TRUE) /\ StampTicktock /\ NextDepool /\ UNCHANGED faults
      BY <1>3 DEF SubmitTicktock, ConfirmTicktock
    <2>2. /\ pc' \in {"sleep", "depool"} /\ timer' \in 0..Poll /\ todo' \subseteq Depools
          /\ LoopShape'
      BY <2>1, BetweenCalls DEF UpkeepInv
    <2>3. TypeOK'
      BY <1>1, <2>1, <2>2, ExecutedTypes DEF UpkeepInv, TypeOK, StampTicktock
    <2>4. QED
      BY <1>1, <2>1, <2>2, <2>3, PingUpkeep DEF Calls, StampTicktock
  <1>4. QED
    BY <1>2, <1>3

LEMMA AnswerLostUpkeep ==
  ASSUME UpkeepInv, AnswerLost PROVE UpkeepInv'
  <1>1. /\ depool \in Depools /\ Sleep /\ UNCHANGED <<joined, memory>>
        /\ faults' \in 0..MaxFaults
    <2>1. pc \in Calls
      BY DEF AnswerLost, Calls, TopUpCall, PingCall
    <2>2. depool \in Depools
      BY <2>1 DEF UpkeepInv, LoopShape
    <2>3. faults' \in 0..MaxFaults
      BY TimesAreNumbers DEF AnswerLost, UpkeepInv, TypeOK
    <2>4. QED
      BY <2>2, <2>3 DEF AnswerLost
  <1>2. /\ pc' \in {"sleep", "depool"} /\ timer' \in 0..Poll /\ todo' \subseteq Depools
        /\ LoopShape'
    BY <1>1, BetweenCalls DEF UpkeepInv
  <1>3. CASE pc = TopUpCall /\ TopUp(depool)
    <2>1. TypeOK'
      BY <1>1, <1>2, <1>3, ExecutedTypes DEF memory
    <2>2. QED
      BY <1>1, <1>2, <1>3, <2>1, TopUpUpkeep DEF Calls, TopUpCall
  <1>4. CASE pc = PingCall /\ Ping(depool, FALSE)
    <2>1. TypeOK'
      BY <1>1, <1>2, <1>4, ExecutedTypes DEF memory
    <2>2. QED
      BY <1>1, <1>2, <1>4, <2>1, PingUpkeep DEF Calls, PingCall, memory
  <1>5. QED
    BY <1>3, <1>4 DEF AnswerLost

LEMMA RestartUpkeep ==
  ASSUME UpkeepInv, Restart PROVE UpkeepInv'
  <1>1. TypeOK'
    <2>1. /\ sinceReplenishment' \in [Depools -> 0..ReplenishPeriod]
          /\ sinceTicktock' \in [Depools -> 0..TicktockPeriod]
      BY TimesAreNumbers DEF Restart
    <2>2. timer' \in 0..Poll \cup 0..MaxCall /\ faults' \in 0..MaxFaults
      BY TimesAreNumbers DEF Restart, UpkeepInv, TypeOK
    <2>3. QED
      BY <2>1, <2>2 DEF Restart, UpkeepInv, TypeOK, chainVars
  <1>2. LoopShape'
    BY TimesAreNumbers DEF Restart, LoopShape, Calls
  <1>3. TopUpsPaced' /\ PingsPaced'
    BY DEF Restart, TopUpsPaced, PingsPaced
  <1>4. QED
    BY <1>1, <1>2, <1>3 DEF UpkeepInv

LEMMA UpkeepStep == UpkeepInv /\ [Next]_vars => UpkeepInv'
  <1> SUFFICES ASSUME UpkeepInv, [Next]_vars PROVE UpkeepInv'
    OBVIOUS
  <1>1. CASE StartPass \/ PassWithoutJoins \/ EndPass \/ ReadRaises \/ CallRaises
    BY <1>1, QuietUpkeep
    DEF StartPass, PassWithoutJoins, EndPass, ReadRaises, CallRaises, UpkeepInv, TypeOK, memory
  <1>2. CASE UNCHANGED vars
    BY <1>2, NoCallUpkeep
    DEF vars, chainVars, memory, historyVars, UpkeepInv, TypeOK, LoopShape, depool
  <1>3. QED
    BY <1>1, <1>2, TickUpkeep, ChainUpkeep, LookAtUpkeep, SubmitReplenishUpkeep,
       ConfirmReplenishUpkeep, PaceUpkeep, TicktockUpkeep, AnswerLostUpkeep, RestartUpkeep
    DEF Next, Pass

-------------------------------------------------------------------------------
(* The theorems.                                                           *)

(* The invariant holds in every state of every behaviour.                  *)
THEOREM UpkeepInvariance == Spec => []UpkeepInv
  BY InitUpkeep, UpkeepStep, PTL DEF Spec

(* Every variable keeps its type.                                          *)
THEOREM UpkeepTypeCorrect == Spec => []TypeOK
  <1>1. UpkeepInv => TypeOK
    BY DEF UpkeepInv
  <1>2. QED
    BY UpkeepInvariance, <1>1, PTL

(* Two top-ups of a depool by one process are max_period apart, but for    *)
(* the time the first one was under way (elections.py:451-452).            *)
THEOREM ReplenishmentsKeepTheirPeriod == Spec => ReplenishmentsSpaced
  <1> DEFINE Spaced == \A d \in Depools : ToppedUp(d) =>
                          d \in forgotTopUps \/ topUpAge[d] + CallTime >= ReplenishPeriod
  <1>1. UpkeepInv /\ [Next]_vars => Spaced
    BY DEF UpkeepInv, TopUpsPaced, LoopShape, ToppedUp, TopUpCall, Calls
  <1>2. QED
    BY UpkeepInvariance, <1>1, PTL DEF Spec, ReplenishmentsSpaced

(* Two ticktocks the process knows of are max_ticktock_period apart        *)
(* (elections.py:507-515).                                                 *)
THEOREM TicktocksKeepTheirPeriod == Spec => TicktocksSpaced
  <1> DEFINE Spaced == \A d \in Depools : Ticktocked(d) =>
                          d \in forgotPings \/ pingAge[d] >= TicktockPeriod
  <1>1. ASSUME UpkeepInv, [Next]_vars, NEW d \in Depools, Ticktocked(d)
        PROVE  d \in forgotPings \/ pingAge[d] >= TicktockPeriod
    <2>1. pc \in {"ticktock", "confirmTicktock"} /\ d = depool
      BY <1>1 DEF Ticktocked, PingCall
    <2>2. sinceTicktock[d] >= TicktockPeriod
      BY <1>1, <2>1 DEF UpkeepInv, PingsPaced
    <2>3. sinceTicktock[d] \in Nat /\ pingAge[d] \in Nat
      BY <1>1, TimesAreNumbers DEF UpkeepInv, TypeOK
    <2>4. QED
      BY <1>1, <2>2, <2>3, TimesAreNumbers DEF UpkeepInv, PingsPaced
  <1>2. UpkeepInv /\ [Next]_vars => Spaced
    BY <1>1
  <1>3. QED
    BY UpkeepInvariance, <1>2, PTL DEF Spec, TicktocksSpaced
===============================================================================
