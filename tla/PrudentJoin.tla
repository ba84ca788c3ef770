------------------------------ MODULE PrudentJoin ------------------------------
(***************************************************************************)
(* When the elections thread makes its stake, and how much it offers, in   *)
(* validator mode.  It looks at the elections at intervals; the prudent    *)
(* settings tell it not to join an election before                         *)
(* election_end_join_offset is left of it, nor when too few of the stakes  *)
(* made so far are lower than its own.  Whether there is still a pass in   *)
(* what is left depends on the interval, on how long the calls of a pass   *)
(* take and on the offset.                                                 *)
(*                                                                         *)
(* Time is counted in ticks; elections follow each other, one at a time.   *)
(***************************************************************************)
EXTENDS Naturals, Sequences, FiniteSets

CONSTANTS
    Window,         \* how long an election takes stakes
    Offset,         \* election_end_join_offset; 0 for none
    Threshold,      \* join_threshold, in percent
    Poll,           \* _check_elections_interval_seconds
    SyncPoll,       \* _check_node_sync_interval_seconds
    MaxPass,        \* bound: how long the calls of one pass take together
    MaxValidators,  \* max_validators of config parameter 16
    StakeToMake,    \* _stake_to_make: [percent |-> BOOLEAN, number |-> Nat]
    StakeParams,    \* config parameter 17: [min_stake |-> Nat, max_stake |-> Nat]
    Amounts,        \* the stakes others make, and the sums our wallet and records hold
    MaxOthers       \* bound: how many others stake in an election

ASSUME TicksAssumption ==
    {Window, Offset, Poll, SyncPoll, MaxPass} \subseteq Nat /\ SyncPoll <= Poll
ASSUME StakesAssumption ==
    /\ StakeToMake \in [percent : BOOLEAN, number : Nat]
    /\ StakeParams \in [min_stake : Nat, max_stake : Nat]
    /\ Amounts \subseteq Nat
    /\ {Threshold, MaxOthers} \subseteq Nat /\ MaxValidators \in Nat \ {0}

VARIABLES
    left,      \* get_election_finishes_in; 0 when no election takes stakes
    accepted,  \* our request reached the latest election while it took stakes
    others,    \* the stakes of the others in the latest election, as they came
    pc,        \* where the thread is
    timer,     \* what is left of the sleep
    spent,     \* what the calls of this pass have taken
    known,     \* participant_stakes
    joined,    \* the latest election is in _active_elections
    offer,     \* election_stake, as the record counts it
    sent,      \* the value of the message to the elector
    hindered   \* history: a pass failed, was out of sync or was outbid since it opened

clockVars == <<left, timer, spent>>
bidVars == <<accepted, joined, sent>>
vars == <<clockVars, bidVars, others, pc, known, offer, hindered>>

OneCoin == 1
None == <<>>  \* no stakes, or none that could be read

Init ==
    /\ left = 0 /\ accepted = FALSE /\ others = None
    /\ pc = "sleep" /\ timer = 0 /\ spent = 0
    /\ known = None /\ joined = FALSE /\ offer = 0 /\ sent = 0 /\ hindered = TRUE

OneLess(n) == IF n = 0 THEN 0 ELSE n - 1

Tick ==
    /\ \/ pc = "sleep" /\ timer > 0 /\ timer' = timer - 1 /\ UNCHANGED spent
       \/ pc # "sleep" /\ spent < MaxPass /\ spent' = spent + 1 /\ UNCHANGED timer
    /\ left' = OneLess(left)
    /\ UNCHANGED <<bidVars, others, pc, known, offer, hindered>>

(* No election closes and the next one opens within one pass.              *)
OpenElection ==
    /\ left = 0 /\ pc \in {"sleep", "read"}
    /\ left' = Window
    /\ accepted' = FALSE /\ joined' = FALSE /\ sent' = 0 /\ offer' = 0 /\ others' = None
    /\ hindered' = FALSE
    /\ UNCHANGED <<pc, timer, spent, known>>

OtherStakes(amount) ==
    /\ left > 0 /\ Len(others) < MaxOthers
    /\ others' = Append(others, amount)
    /\ UNCHANGED <<clockVars, bidVars, pc, known, offer, hindered>>

-------------------------------------------------------------------------------
(* The amounts of a pass.                                                  *)

AtMost(limit, amount) == IF amount < limit THEN amount ELSE limit

ComputeStake(balance) ==
    IF StakeToMake.percent THEN (balance * StakeToMake.number) \div 100
                           ELSE AtMost(balance, StakeToMake.number)

\* Mutation: sorted the other way round.
RankedBeforeAscending(stakes, i, j) == stakes[i] < stakes[j] \/ (stakes[i] = stakes[j] /\ i < j)

RankedBefore(stakes, i, j) == stakes[i] > stakes[j] \/ (stakes[i] = stakes[j] /\ i < j)

(* The places of the max_validators highest stakes in the list.            *)
ValidStakes(stakes) ==
    {i \in DOMAIN stakes :
        Cardinality({j \in DOMAIN stakes : RankedBefore(stakes, j, i)}) < MaxValidators}

\* Mutation: off by one.
TooEarlyByOne == Offset # 0 /\ Offset <= left

TooEarly == Offset # 0 /\ Offset < left

LowerThanMine(stakes, mine) == {i \in ValidStakes(stakes) : stakes[i] < mine}

(* Without stakes to compare with, the offset is not looked at either.     *)
SatisfiesPrudentSettings(stakes, mine) ==
    \/ stakes = None
    \/ /\ ~TooEarly
       /\ \/ MaxValidators > Cardinality(ValidStakes(stakes))
          \/ Cardinality(LowerThanMine(stakes, mine)) * 100
                >= Threshold * Cardinality(ValidStakes(stakes))

-------------------------------------------------------------------------------
(* One pass.                                                               *)

\* Mutation: the handler of a failed pass sleeps too.
SleepTwice(interval) ==
    pc' = "sleep" /\ timer' = interval + interval /\ spent' = 0 /\ known' = None

Sleep(interval) == pc' = "sleep" /\ timer' = interval /\ spent' = 0 /\ known' = None

StartPass ==
    /\ pc = "sleep" /\ timer = 0
    /\ pc' = "read"
    /\ UNCHANGED <<clockVars, bidVars, others, known, offer, hindered>>

NotSynced ==
    /\ pc = "sleep" /\ timer = 0
    /\ Sleep(SyncPoll)
    /\ hindered' = TRUE
    /\ UNCHANGED <<left, bidVars, others, offer>>

(* A list that cannot be read is an empty one.                             *)
ReadElectionIds(stakes) ==
    /\ pc = "read"
    /\ IF left > 0 /\ ~joined
       THEN pc' = "decide" /\ known' = stakes /\ UNCHANGED <<timer, spent>>
       ELSE Sleep(Poll)
    /\ UNCHANGED <<left, bidVars, others, offer, hindered>>

(* stake: what the settings make of the balance and of what the records    *)
(* count as staked or recovered.  A stake above the maximum is reduced     *)
(* after it was compared with the others'.                                 *)
Fits(stake, balance) ==
    /\ SatisfiesPrudentSettings(known, stake)
    /\ stake <= balance
    /\ stake >= StakeParams.min_stake

Decide(stake, balance) ==
    /\ pc = "decide"
    /\ IF Fits(stake, balance)
       THEN /\ pc' = "submit" /\ offer' = AtMost(StakeParams.max_stake, stake)
            /\ UNCHANGED <<timer, spent, known, hindered>>
       ELSE /\ Sleep(Poll)
            /\ hindered' = IF TooEarly THEN hindered ELSE TRUE
            /\ UNCHANGED offer
    /\ UNCHANGED <<left, bidVars, others>>

(* One token goes with the request, whatever the elector makes of it.  A   *)
(* request that comes too late bounces; the election is recorded all the   *)
(* same.                                                                   *)
Submit ==
    /\ pc = "submit"
    /\ accepted' = IF left > 0 THEN TRUE ELSE accepted
    /\ joined' = TRUE /\ sent' = OneCoin
    /\ Sleep(Poll)
    /\ UNCHANGED <<left, others, offer, hindered>>

(* A read or the join fails.                                               *)
PassRaises ==
    /\ pc # "sleep"
    /\ Sleep(Poll)
    /\ hindered' = TRUE
    /\ UNCHANGED <<left, bidVars, others, offer>>

Next ==
    \/ Tick \/ OpenElection \/ \E amount \in Amounts : OtherStakes(amount)
    \/ StartPass \/ NotSynced
    \/ \E stakes \in {others, None} : ReadElectionIds(stakes)
    \/ \E balance, counted \in Amounts : Decide(ComputeStake(balance + counted), balance)
    \/ Submit \/ PassRaises

Spec == Init /\ [][Next]_vars

-------------------------------------------------------------------------------
(* Every variable keeps its type.                                          *)
TypeOK ==
    /\ left \in 0..Window /\ accepted \in BOOLEAN
    /\ {others, known} \subseteq Seq(Amounts)
    /\ pc \in {"sleep", "read", "decide", "submit"}
    /\ timer \in 0..Poll /\ spent \in 0..MaxPass
    /\ joined \in BOOLEAN /\ {offer, sent} \subseteq Nat
    /\ hindered \in BOOLEAN

(* No election ends without our stake unless a pass failed, was out of     *)
(* sync or was outbid while it took stakes: deferring by the prudent       *)
(* settings never costs the election (elections.py:271-295, 526-528).      *)
(* README.md:326 promises it for any offset: "stake will be made in 10 or  *)
(* less minutes before election ends".                                     *)
NotMissed == left = 0 => accepted \/ hindered

\* the places of the stakes that are at least mine
NotLower(stakes, mine) == {i \in DOMAIN stakes : stakes[i] >= mine}

(* A stake that leaves under a join_threshold is among the first N of the  *)
(* stakes that were read, and every stake the others made meanwhile, or    *)
(* that could not be read, costs it one place at most (elections.py:       *)
(* 274-295, 380; README.md:301-302).  A stake that is then reduced to the  *)
(* maximum is exempt: the settings compared the larger one                 *)
(* (elections.py:157-160).                                                 *)
WinsSlot ==
    pc = "submit" /\ Threshold > 0 /\ offer < StakeParams.max_stake =>
        Cardinality(NotLower(others, offer)) < MaxValidators + (Len(others) - Len(known))

(* The elector gets the stake that the record counts and the log announces *)
(* (README.md:227: "percent or absolute value(in tokens) of the stake that *)
(* elector should make"; elections.py:145, 163, 258).                      *)
StakeIsSent == joined => sent = offer
===============================================================================
