----------------------------- MODULE DepoolUpkeep -----------------------------
(***************************************************************************)
(* What the elections thread does for its depools in a pass of depool      *)
(* mode: it tops up a depool whose last event says its balance is low,     *)
(* joins through one that asks for a signature, and pings ("ticktock") one *)
(* that does neither, the top-ups and the pings at a limited rate.  The    *)
(* rates rest on two times kept in the settings objects of the process.    *)
(*                                                                         *)
(* Time is counted in ticks.  The two times are kept as the time that has  *)
(* passed since, which stops counting where it no longer matters.          *)
(***************************************************************************)
EXTENDS Naturals, FiniteSets, FiniteSetsExt

CONSTANTS
    Depools,          \* DEPOOL_LIST, numbered in its order
    Replenished,      \* those with replenish_settings
    Custodians,       \* TRUE: the wallet executes what custodians confirmed
    Poll,             \* the sleep between two passes
    ReplenishPeriod,  \* AutoReplenishSettings.max_period
    TicktockPeriod,   \* DePoolSettings.max_ticktock_period
    MaxCall,          \* bound: how long one call to tonos-cli may last
    MaxFaults         \* bound: restarts and lost answers

ASSUME DepoolsAssumption ==
    /\ Depools \subseteq Nat /\ IsFiniteSet(Depools)
    /\ Replenished \subseteq Depools
    /\ Custodians \in BOOLEAN
ASSUME TimesAssumption ==
    /\ {Poll, ReplenishPeriod, TicktockPeriod, MaxCall, MaxFaults} \subseteq Nat

VARIABLES
    \* the chain
    open,                \* an election takes stakes
    short,               \* depools whose balance is too low to operate
    lastEvent,           \* depool_events[0]: "low" balance or another one
    signing,             \* depools with a signing event for the latest election
    pinged,              \* depools with a message to work on
    \* the process
    pc,
    timer,               \* what is left of the sleep, what a call has taken
    joined,              \* the latest election is in _active_elections
    todo,                \* depools the pass has still to look at
    sinceReplenishment,  \* time.time() - _last_replenishment_time
    sinceTicktock,       \* time.time() - _last_ticktock
    enabled,             \* depools with enable_elections, as read at the start
    \* history
    topUpAge, pingAge,   \* time since the last executed top-up, ticktock
    forgotTopUps,        \* depools whose last top-up, or last ticktock, the
    forgotPings,         \*   process knows nothing of
    faults

chainVars   == <<open, short, lastEvent, signing, pinged>>
memory      == <<sinceReplenishment, sinceTicktock, enabled>>
historyVars == <<topUpAge, pingAge, forgotTopUps, forgotPings, faults>>
vars == <<chainVars, pc, timer, joined, todo, memory, historyVars>>

Calls == {"replenish", "confirmReplenish", "ticktock", "confirmTicktock"}

\* depool_data of the loop
depool == Min(todo)

Older(age, limit) == [d \in Depools |-> IF age[d] < limit THEN age[d] + 1 ELSE age[d]]

Init ==
    /\ open = FALSE /\ short = {} /\ signing = {} /\ pinged = {}
    /\ lastEvent = [d \in Depools |-> "other"]
    /\ pc = "sleep" /\ timer = 0 /\ joined = FALSE /\ todo = {}
    /\ sinceReplenishment = [d \in Depools |-> ReplenishPeriod]
    /\ sinceTicktock = [d \in Depools |-> TicktockPeriod]
    /\ enabled \in SUBSET Depools
    /\ topUpAge = [d \in Depools |-> ReplenishPeriod]
    /\ pingAge = [d \in Depools |-> TicktockPeriod]
    /\ forgotTopUps = {} /\ forgotPings = {} /\ faults = 0

-------------------------------------------------------------------------------
(* Time, the elector and the depool contracts.                             *)

Tick ==
    /\ \/ pc = "sleep" /\ timer > 0 /\ timer' = timer - 1
       \/ pc \in Calls /\ timer < MaxCall /\ timer' = timer + 1
    /\ sinceReplenishment' = Older(sinceReplenishment, ReplenishPeriod)
    /\ sinceTicktock' = Older(sinceTicktock, TicktockPeriod)
    /\ topUpAge' = Older(topUpAge, ReplenishPeriod)
    /\ pingAge' = Older(pingAge, TicktockPeriod)
    /\ UNCHANGED <<chainVars, pc, joined, todo, enabled, forgotTopUps, forgotPings,
                   faults>>

UnchangedProcess == UNCHANGED <<pc, timer, joined, todo, memory>>

OpenElection ==
    /\ ~open
    /\ open' = TRUE /\ signing' = {} /\ joined' = FALSE
    /\ UNCHANGED <<short, lastEvent, pinged, pc, timer, todo, memory, historyVars>>

CloseElection ==
    /\ open
    /\ open' = FALSE
    /\ UnchangedProcess
    /\ UNCHANGED <<short, lastEvent, signing, pinged, historyVars>>

(* The depool's fees eat its balance.                                      *)
RunShort(d) ==
    /\ d \notin short
    /\ short' = short \cup {d}
    /\ UnchangedProcess
    /\ UNCHANGED <<open, lastEvent, signing, pinged, historyVars>>

(* Depositors and other validators make the depool work too.               *)
PingFromElsewhere(d) ==
    /\ d \notin pinged
    /\ pinged' = pinged \cup {d}
    /\ UnchangedProcess
    /\ UNCHANGED <<open, short, lastEvent, signing, historyVars>>

(* A depool that works says that it is short, or goes on to the election.  *)
Work(d) ==
    /\ d \in pinged
    /\ pinged' = pinged \ {d}
    /\ IF d \in short
       THEN /\ lastEvent' = [lastEvent EXCEPT ![d] = "low"]
            /\ UNCHANGED signing
       ELSE /\ lastEvent' = [lastEvent EXCEPT ![d] = "other"]
            /\ signing' = IF open THEN signing \cup {d} ELSE signing
    /\ UnchangedProcess
    /\ UNCHANGED <<open, short, topUpAge, pingAge, forgotTopUps, forgotPings, faults>>

(* The wallet pays the top-up.                                             *)
TopUp(d) ==
    /\ short' = short \ {d}
    /\ topUpAge' = [topUpAge EXCEPT ![d] = 0]
    /\ forgotTopUps' = forgotTopUps \ {d}
    /\ UNCHANGED <<open, lastEvent, signing, pinged, pingAge, forgotPings>>

(* The wallet sends the ticktock; known: the process hears of it.          *)
Ping(d, known) ==
    /\ pinged' = pinged \cup {d}
    /\ pingAge' = [pingAge EXCEPT ![d] = 0]
    /\ forgotPings' = IF known THEN forgotPings \ {d} ELSE forgotPings \cup {d}
    /\ UNCHANGED <<open, short, lastEvent, signing, topUpAge, forgotTopUps>>

-------------------------------------------------------------------------------
(* The pass: elections.py:427-516.  A step is what happens between two     *)
(* calls to tonos-cli.                                                     *)

\* Mutation: a pass sleeps twice.
SleepTwice == pc' = "sleep" /\ timer' = Poll + Poll /\ todo' = {}

Sleep == pc' = "sleep" /\ timer' = Poll /\ todo' = {}
NextDepool == pc' = "depool" /\ timer' = 0 /\ todo' = todo \ {depool}
Call(c) == pc' = c /\ timer' = 0 /\ UNCHANGED todo

StartPass ==
    /\ pc = "sleep" /\ timer = 0 /\ open /\ ~joined
    /\ pc' = "depool" /\ todo' = Depools
    /\ UNCHANGED <<chainVars, timer, joined, memory, historyVars>>

(* Out of sync, unreadable, or nothing to join: no depool is looked at.    *)
PassWithoutJoins ==
    /\ pc = "sleep" /\ timer = 0
    /\ Sleep
    /\ UNCHANGED <<chainVars, joined, memory, historyVars>>

EndPass ==
    /\ pc = "depool" /\ todo = {}
    /\ Sleep
    /\ UNCHANGED <<chainVars, joined, memory, historyVars>>

LooksAt(d) == pc = "depool" /\ todo # {} /\ d = depool
Low(d)     == lastEvent[d] = "low"
TopUpDue(d) == d \in Replenished /\ sinceReplenishment[d] >= ReplenishPeriod

\* Mutation: the time is not set before the call.
Unstamped(d) == sinceReplenishment

Stamped(d) == [sinceReplenishment EXCEPT ![d] = 0]

ReplenishLow(d) ==
    /\ LooksAt(d) /\ Low(d) /\ TopUpDue(d)
    /\ sinceReplenishment' = Stamped(d)
    /\ Call("replenish")
    /\ UNCHANGED <<chainVars, joined, sinceTicktock, enabled, historyVars>>

\* Mutation: the time is set whether or not the top-up is made.
StampedAnyway(d) == sinceReplenishment' = Stamped(d)

NotStamped(d) == UNCHANGED sinceReplenishment

LeaveLow(d) ==
    /\ LooksAt(d) /\ Low(d) /\ ~TopUpDue(d)
    /\ NotStamped(d)
    /\ NextDepool
    /\ UNCHANGED <<chainVars, joined, sinceTicktock, enabled, historyVars>>

LeaveDisabled(d) ==
    /\ LooksAt(d) /\ ~Low(d) /\ d \notin enabled
    /\ NextDepool
    /\ UNCHANGED <<chainVars, joined, memory, historyVars>>

(* The join itself is ElectionsRoutine's; the prudent settings may defer   *)
(* it.                                                                     *)
JoinThrough(d) ==
    /\ LooksAt(d) /\ ~Low(d) /\ d \in enabled /\ d \in signing
    /\ joined' \in {joined, TRUE}
    /\ NextDepool
    /\ UNCHANGED <<chainVars, memory, historyVars>>

JoinRaises(d) ==
    /\ LooksAt(d) /\ ~Low(d) /\ d \in enabled /\ d \in signing
    /\ joined' = FALSE
    /\ Sleep
    /\ UNCHANGED <<chainVars, memory, historyVars>>

NothingToSign(d) ==
    /\ LooksAt(d) /\ ~Low(d) /\ d \in enabled /\ d \notin signing
    /\ Call("paceTicktock")
    /\ UNCHANGED <<chainVars, joined, memory, historyVars>>

(* The info, the events or the account of a depool cannot be read: the     *)
(* depools behind it are not looked at either.                             *)
ReadRaises ==
    /\ pc = "depool" /\ todo # {}
    /\ Sleep
    /\ UNCHANGED <<chainVars, joined, memory, historyVars>>

\* Mutation: no ticktock after a top-up.
AfterReplenishOnly == NextDepool

AfterReplenish == Call("paceTicktock")

(* depool_replenish: with custodians the wallet executes when they confirm. *)
SubmitReplenish ==
    /\ pc = "replenish"
    /\ IF Custodians
       THEN Call("confirmReplenish") /\ UNCHANGED <<chainVars, historyVars>>
       ELSE TopUp(depool) /\ AfterReplenish /\ UNCHANGED faults
    /\ UNCHANGED <<joined, memory>>

ConfirmReplenish ==
    /\ pc = "confirmReplenish"
    /\ TopUp(depool)
    /\ AfterReplenish
    /\ UNCHANGED <<joined, memory, faults>>

PaceTicktock ==
    /\ pc = "paceTicktock"
    /\ IF sinceTicktock[depool] >= TicktockPeriod THEN Call("ticktock") ELSE NextDepool
    /\ UNCHANGED <<chainVars, joined, memory, historyVars>>

\* Mutation: the time is not set.
StampNothing == UNCHANGED memory

StampTicktock ==
    /\ sinceTicktock' = [sinceTicktock EXCEPT ![depool] = 0]
    /\ UNCHANGED <<sinceReplenishment, enabled>>

(* depool_ticktock, and set_last_ticktock once it returned.                *)
SubmitTicktock ==
    /\ pc = "ticktock"
    /\ IF Custodians
       THEN Call("confirmTicktock") /\ UNCHANGED <<chainVars, memory, historyVars>>
       ELSE Ping(depool, TRUE) /\ StampTicktock /\ NextDepool /\ UNCHANGED faults
    /\ UNCHANGED joined

ConfirmTicktock ==
    /\ pc = "confirmTicktock"
    /\ Ping(depool, TRUE) /\ StampTicktock /\ NextDepool
    /\ UNCHANGED <<joined, faults>>

(* A call fails before the wallet executes anything.                       *)
CallRaises ==
    /\ pc \in Calls
    /\ Sleep
    /\ UNCHANGED <<chainVars, joined, memory, historyVars>>

\* the calls that make the wallet pay
TopUpCall == IF Custodians THEN "confirmReplenish" ELSE "replenish"
PingCall  == IF Custodians THEN "confirmTicktock" ELSE "ticktock"

(* The wallet executed, and the call failed all the same.                  *)
AnswerLost ==
    /\ faults < MaxFaults /\ faults' = faults + 1
    /\ \/ pc = TopUpCall /\ TopUp(depool)
       \/ pc = PingCall /\ Ping(depool, FALSE)
    /\ Sleep
    /\ UNCHANGED <<joined, memory>>

(* The settings are read anew, their times with them, and may be others; a *)
(* record not saved yet is lost.                                           *)
Restart ==
    /\ faults < MaxFaults /\ faults' = faults + 1
    /\ pc' = "sleep" /\ timer' = 0 /\ todo' = {}
    /\ joined' \in {joined, FALSE}
    /\ sinceReplenishment' = [d \in Depools |-> ReplenishPeriod]
    /\ sinceTicktock' = [d \in Depools |-> TicktockPeriod]
    /\ enabled' \in SUBSET Depools
    /\ forgotTopUps' = Depools /\ forgotPings' = Depools
    /\ UNCHANGED <<chainVars, topUpAge, pingAge>>

-------------------------------------------------------------------------------
Chain ==
    \/ OpenElection \/ CloseElection
    \/ \E d \in Depools : RunShort(d) \/ PingFromElsewhere(d) \/ Work(d)

LookAt(d) ==
    ReplenishLow(d) \/ LeaveLow(d) \/ LeaveDisabled(d) \/ JoinThrough(d) \/ NothingToSign(d)

Pass ==
    \/ StartPass \/ PassWithoutJoins \/ EndPass
    \/ \E d \in Depools : LookAt(d) \/ JoinRaises(d)
    \/ ReadRaises
    \/ SubmitReplenish \/ ConfirmReplenish \/ PaceTicktock \/ SubmitTicktock \/ ConfirmTicktock
    \/ CallRaises \/ AnswerLost

Next == Tick \/ Chain \/ Pass \/ Restart

Spec == Init /\ [][Next]_vars

(* The thread runs, time passes, a depool works on its messages, and calls *)
(* made again and again succeed again and again.                           *)
ProgressFairness ==
    /\ WF_vars(Tick) /\ WF_vars(Pass)
    /\ SF_vars(StartPass)
    /\ SF_vars(SubmitReplenish) /\ SF_vars(ConfirmReplenish)
    /\ SF_vars(SubmitTicktock) /\ SF_vars(ConfirmTicktock)
    /\ \A d \in Depools : SF_vars(LookAt(d)) /\ WF_vars(Work(d))

FairSpec == Spec /\ ProgressFairness

-------------------------------------------------------------------------------
(* Properties.                                                             *)

(* Every variable keeps its type.                                          *)
TypeOK ==
    /\ open \in BOOLEAN /\ joined \in BOOLEAN
    /\ {short, signing, pinged, todo, enabled, forgotTopUps, forgotPings}
            \subseteq SUBSET Depools
    /\ lastEvent \in [Depools -> {"low", "other"}]
    /\ pc \in {"sleep", "depool", "paceTicktock"} \cup Calls
    /\ timer \in 0..Poll \cup 0..MaxCall
    /\ sinceReplenishment \in [Depools -> 0..ReplenishPeriod]
    /\ topUpAge \in [Depools -> 0..ReplenishPeriod]
    /\ sinceTicktock \in [Depools -> 0..TicktockPeriod]
    /\ pingAge \in [Depools -> 0..TicktockPeriod]
    /\ faults \in 0..MaxFaults

\* The step is one in which the wallet pays for d.
ToppedUp(d) ==
    pc = TopUpCall /\ d = depool /\ (SubmitReplenish \/ ConfirmReplenish \/ AnswerLost)
Ticktocked(d) ==
    pc = PingCall /\ d = depool /\ (SubmitTicktock \/ ConfirmTicktock \/ AnswerLost)

\* how long a top-up may be under way after its time is set
CallTime == IF Custodians THEN 2 * MaxCall ELSE MaxCall

(* A process does not top a depool up twice within max_period, failed and  *)
(* unanswered top-ups included, but for the time the first one was under   *)
(* way (elections.py:451-452: the time is set before the call).            *)
ReplenishmentsSpaced ==
    [][\A d \in Depools : ToppedUp(d) =>
          d \in forgotTopUps \/ topUpAge[d] + CallTime >= ReplenishPeriod]_vars

(* Ticktocks the process knows of are max_ticktock_period apart: their     *)
(* time is set after the call, when it is already behind (elections.py:    *)
(* 507-515).                                                               *)
TicktocksSpaced ==
    [][\A d \in Depools : Ticktocked(d) =>
          d \in forgotPings \/ pingAge[d] >= TicktockPeriod]_vars

(* A depool that says it is short gets its top-up while there is an        *)
(* election to join, whatever failed before (elections.py:446-459).        *)
LowIsReplenished ==
    \A d \in Replenished :
        (open /\ ~joined /\ Low(d) /\ d \in short) ~> (d \notin short \/ ~open \/ joined)

(* A depool that was topped up is woken, so that its low-balance event is  *)
(* not the last one for ever (elections.py:459, 507-516).                  *)
ToppedUpResumes ==
    \A d \in Replenished :
        (open /\ ~joined /\ Low(d) /\ d \notin short) ~>
            (~Low(d) \/ d \in short \/ ~open \/ joined)
===============================================================================
