--------------------------- MODULE PrudentJoinProofs ---------------------------
(***************************************************************************)
(* How large election_end_join_offset has to be: with an offset of at      *)
(* least the interval between two passes and the time a pass takes, no     *)
(* election is missed, whatever the three are; and a stake that passed the *)
(* comparison with the participants has a place among the top ones.        *)
(***************************************************************************)
EXTENDS PrudentJoin, FiniteSetTheorems, WellFoundedInduction, TLAPS

(* The settings leave room for a pass.                                     *)
RoomForAPass ==
    /\ Offset = 0 \/ Offset >= Poll + MaxPass
    /\ Window > Poll + MaxPass

(* An election that has our stake neither taken nor excused lasts until    *)
(* the end of the next pass, or of this one.                               *)
AnotherPass ==
    left > 0 /\ ~accepted /\ ~hindered =>
        IF pc = "sleep" THEN left > timer + MaxPass ELSE left + spent > MaxPass

FlagsOK == accepted \in BOOLEAN /\ joined \in BOOLEAN /\ hindered \in BOOLEAN

ClockOK ==
    /\ left \in 0..Window /\ timer \in 0..Poll /\ spent \in 0..MaxPass
    /\ pc \in {"sleep", "read", "decide", "submit"}

StakesOK ==
    /\ others \in Seq(Amounts) /\ known \in Seq(Amounts)
    /\ offer \in Nat /\ sent \in Nat

PrudentInv ==
    /\ FlagsOK /\ ClockOK
    /\ pc = "sleep" => spent = 0
    /\ pc # "sleep" => timer = 0
    /\ joined => accepted \/ hindered
    /\ AnotherPass
    /\ NotMissed
-------------------------------------------------------------------------------
LEMMA TicksAreNumbers ==
  /\ Window \in Nat /\ Offset \in Nat /\ Poll \in Nat /\ SyncPoll \in Nat /\ MaxPass \in Nat
  /\ SyncPoll <= Poll
  BY TicksAssumption

(* What the settings make of a balance is a number of tokens.              *)
LEMMA ComputeStakeNat ==
  ASSUME NEW balance \in Nat PROVE ComputeStake(balance) \in Nat
  <1>1. StakeToMake.percent \in BOOLEAN /\ StakeToMake.number \in Nat
    BY StakesAssumption
  <1>2. CASE StakeToMake.percent
    <2>1. balance * StakeToMake.number \in Nat
      BY <1>1
    <2>2. (balance * StakeToMake.number) \div 100 \in Nat
      BY <2>1
    <2>3. QED
      BY <1>2, <2>2 DEF ComputeStake
  <1>3. CASE ~StakeToMake.percent
    BY <1>1, <1>3 DEF ComputeStake, AtMost
  <1>4. QED
    BY <1>2, <1>3

LEMMA StakesStep == ASSUME StakesOK, [Next]_vars PROVE StakesOK'
  <1> USE DEF StakesOK
  <1>1. None \in Seq(Amounts)
    BY DEF None
  <1>2. ASSUME NEW interval, Sleep(interval) PROVE known' \in Seq(Amounts)
    BY <1>1, <1>2 DEF Sleep
  <1>3. ASSUME NEW amount \in Amounts, OtherStakes(amount) PROVE StakesOK'
    BY <1>3 DEF OtherStakes, bidVars
  <1>4. CASE OpenElection
    BY <1>1, <1>4 DEF OpenElection
  <1>5. CASE Tick \/ StartPass
    BY <1>5 DEF Tick, StartPass, bidVars
  <1>6. CASE NotSynced \/ PassRaises
    BY <1>2, <1>6 DEF NotSynced, PassRaises, bidVars
  <1>7. ASSUME NEW stakes \in {others, None}, ReadElectionIds(stakes) PROVE StakesOK'
    <2>1. known' \in Seq(Amounts)
      BY <1>1, <1>2, <1>7 DEF ReadElectionIds
    <2>2. QED
      BY <1>7, <2>1 DEF ReadElectionIds, bidVars
  <1>8. ASSUME NEW balance \in Amounts, NEW counted \in Amounts,
               Decide(ComputeStake(balance + counted), balance)
        PROVE  StakesOK'
    <2>1. balance + counted \in Nat /\ StakeParams.max_stake \in Nat
      BY StakesAssumption
    <2>2. ComputeStake(balance + counted) \in Nat
      BY <2>1, ComputeStakeNat
    <2>3. AtMost(StakeParams.max_stake, ComputeStake(balance + counted)) \in Nat
      BY <2>1, <2>2 DEF AtMost
    <2>4. offer' \in Nat /\ known' \in Seq(Amounts)
      BY <1>2, <1>8, <2>3 DEF Decide
    <2>5. QED
      BY <1>8, <2>4 DEF Decide, bidVars
  <1>9. CASE Submit
    BY <1>2, <1>9 DEF Submit, OneCoin
  <1>10. CASE UNCHANGED vars
    BY <1>10 DEF vars, bidVars
  <1>11. QED
    BY <1>3, <1>4, <1>5, <1>6, <1>7, <1>8, <1>9, <1>10 DEF Next

LEMMA TypesStep == ASSUME ClockOK, FlagsOK, [Next]_vars PROVE ClockOK' /\ FlagsOK'
  <1> USE TicksAreNumbers DEF ClockOK, FlagsOK, Sleep, clockVars, bidVars
  <1>1. CASE Tick
    BY <1>1 DEF Tick, OneLess
  <1>2. CASE OpenElection
    <2>1. FlagsOK'
      BY ONLY <1>2, FlagsOK, Zenon DEF OpenElection, FlagsOK
    <2>2. ClockOK'
      BY <1>2 DEF OpenElection
    <2>3. QED
      BY <2>1, <2>2
  <1>3. CASE StartPass
    BY <1>3 DEF StartPass
  <1>4. CASE NotSynced
    BY <1>4 DEF NotSynced
  <1>5. ASSUME NEW stakes, ReadElectionIds(stakes) PROVE ClockOK' /\ FlagsOK'
    BY <1>5 DEF ReadElectionIds
  <1>6. ASSUME NEW stake, NEW balance, Decide(stake, balance) PROVE ClockOK' /\ FlagsOK'
    <2>1. CASE Fits(stake, balance)
      BY <1>6, <2>1 DEF Decide
    <2>2. CASE ~Fits(stake, balance)
      <3>1. hindered' \in BOOLEAN
        BY ONLY <1>6, <2>2, FlagsOK, Zenon DEF Decide, FlagsOK
      <3>2. QED
        BY <1>6, <2>2, <3>1 DEF Decide
    <2>3. QED
      BY <2>1, <2>2
  <1>7. CASE Submit
    <2>1. FlagsOK'
      BY ONLY <1>7, FlagsOK, Zenon DEF Submit, FlagsOK
    <2>2. ClockOK'
      BY <1>7 DEF Submit
    <2>3. QED
      BY <2>1, <2>2
  <1>8. CASE PassRaises
    BY <1>8 DEF PassRaises
  <1>9. ASSUME NEW amount, OtherStakes(amount) PROVE ClockOK' /\ FlagsOK'
    BY <1>9 DEF OtherStakes
  <1>10. CASE UNCHANGED vars
    BY <1>10 DEF vars
  <1>11. QED
    BY <1>1, <1>2, <1>3, <1>4, <1>5, <1>6, <1>7, <1>8, <1>9, <1>10 DEF Next

LEMMA InitPrudent == Init => PrudentInv /\ StakesOK
  <1> SUFFICES ASSUME Init PROVE PrudentInv /\ StakesOK
    OBVIOUS
  <1>1. FlagsOK
    BY Zenon DEF Init, FlagsOK
  <1>2. ClockOK
    BY TicksAreNumbers DEF Init, ClockOK
  <1>3. StakesOK
    BY DEF Init, StakesOK, None
  <1>4. AnotherPass /\ NotMissed
    BY DEF Init, AnotherPass, NotMissed
  <1>5. QED
    BY <1>1, <1>2, <1>3, <1>4 DEF Init, PrudentInv

LEMMA PrudentStep ==
  ASSUME RoomForAPass, PrudentInv, [Next]_vars PROVE PrudentInv'
  <1> USE TicksAreNumbers
      DEF PrudentInv, FlagsOK, ClockOK, AnotherPass, NotMissed, RoomForAPass, Sleep,
          clockVars, bidVars
  <1>1. CASE Tick
    <2>1. CASE pc = "sleep" /\ timer > 0 /\ timer' = timer - 1 /\ UNCHANGED spent
      BY <1>1, <2>1 DEF Tick, OneLess
    <2>2. CASE pc # "sleep" /\ spent < MaxPass /\ spent' = spent + 1 /\ UNCHANGED timer
      BY <1>1, <2>2 DEF Tick, OneLess
    <2>3. QED
      BY <1>1, <2>1, <2>2 DEF Tick
  <1>2. CASE OpenElection
    <2>1. accepted' \in BOOLEAN /\ joined' \in BOOLEAN /\ hindered' \in BOOLEAN
      BY <1>2, Zenon DEF OpenElection
    <2>2. ~accepted' /\ ~joined' /\ ~hindered'
      BY <1>2, Zenon DEF OpenElection
    <2>3. left' = Window /\ pc \in {"sleep", "read"} /\ UNCHANGED <<pc, timer, spent>>
      BY <1>2 DEF OpenElection
    <2>4. QED
      BY <2>1, <2>2, <2>3
  <1>3. CASE StartPass
    BY <1>3 DEF StartPass
  <1>4. CASE NotSynced
    BY <1>4 DEF NotSynced
  <1>5. ASSUME NEW stakes, ReadElectionIds(stakes) PROVE PrudentInv'
    BY <1>5 DEF ReadElectionIds
  <1>6. ASSUME NEW stake, NEW balance, Decide(stake, balance) PROVE PrudentInv'
    <2>1. CASE Fits(stake, balance)
      BY <1>6, <2>1 DEF Decide
    <2>2. CASE ~Fits(stake, balance) /\ TooEarly
      BY <1>6, <2>2 DEF Decide, TooEarly
    <2>3. CASE ~Fits(stake, balance) /\ ~TooEarly
      BY <1>6, <2>3 DEF Decide
    <2>4. QED
      BY <2>1, <2>2, <2>3
  <1>7. CASE Submit
    <2>1. /\ accepted' \in BOOLEAN /\ joined' \in BOOLEAN /\ joined'
          /\ left > 0 => accepted'
          /\ ~(left > 0) => accepted' = accepted
          /\ hindered' = hindered
      BY <1>7, Zenon DEF Submit
    <2>2. /\ pc' = "sleep" /\ timer' = Poll /\ spent' = 0
          /\ left' = left /\ hindered' = hindered
      BY <1>7 DEF Submit
    <2>3. left = 0 => accepted \/ hindered
      OBVIOUS
    <2>4. ~(left > 0) => left = 0
      OBVIOUS
    <2>5. accepted' \/ hindered'
      <3>1. CASE left > 0
        BY <2>1, <3>1, Zenon
      <3>2. CASE ~(left > 0)
        <4>1. accepted' = accepted /\ hindered' = hindered
          BY <2>1, <3>2
        <4>2. accepted \/ hindered
          BY <2>3, <2>4, <3>2
        <4>3. CASE accepted
          BY <4>1, <4>3
        <4>4. CASE hindered
          BY <4>1, <4>4
        <4>5. QED
          BY <4>2, <4>3, <4>4
      <3>3. QED
        BY <3>1, <3>2
    <2>6. FlagsOK' /\ ClockOK'
      BY <2>1, <2>2
    <2>7. QED
      BY <2>2, <2>5, <2>6
  <1>8. CASE PassRaises
    <2>1. hindered' \in BOOLEAN /\ hindered'
      BY <1>8, Zenon DEF PassRaises
    <2>2. /\ pc' = "sleep" /\ timer' = Poll /\ spent' = 0
          /\ UNCHANGED <<left, accepted, joined>>
      BY <1>8 DEF PassRaises
    <2>3. FlagsOK' /\ ClockOK'
      BY <2>1, <2>2
    <2>4. AnotherPass' /\ NotMissed' /\ (joined' => accepted' \/ hindered')
      BY <2>1, Zenon
    <2>5. QED
      BY <2>2, <2>3, <2>4
  <1>9. ASSUME NEW amount, OtherStakes(amount) PROVE PrudentInv'
    BY <1>9 DEF OtherStakes
  <1>10. CASE UNCHANGED vars
    BY <1>10 DEF vars
  <1>11. QED
    BY <1>1, <1>2, <1>3, <1>4, <1>5, <1>6, <1>7, <1>8, <1>9, <1>10 DEF Next

(* Every variable keeps its type, for all settings and amounts.            *)
THEOREM PrudentTypeCorrect == Spec => []TypeOK
  <1>1. ClockOK /\ FlagsOK /\ StakesOK /\ [Next]_vars => (ClockOK /\ FlagsOK /\ StakesOK)'
    BY TypesStep, StakesStep
  <1>2. Init => ClockOK /\ FlagsOK /\ StakesOK
    BY InitPrudent DEF PrudentInv
  <1>3. ClockOK /\ FlagsOK /\ StakesOK => TypeOK
    BY DEF FlagsOK, ClockOK, StakesOK, TypeOK
  <1>4. QED
    BY <1>1, <1>2, <1>3, PTL DEF Spec

(* With an offset of at least the interval and the length of a pass, and   *)
(* an election longer than that, no election ends without our stake for    *)
(* having been deferred (elections.py:271-295, 526-528).                   *)
THEOREM NoElectionMissed == ASSUME RoomForAPass PROVE Spec => []NotMissed
  <1>1. PrudentInv /\ [Next]_vars => PrudentInv'
    BY PrudentStep
  <1>2. PrudentInv => NotMissed
    BY DEF PrudentInv
  <1>3. QED
    BY InitPrudent, <1>1, <1>2, PTL DEF Spec

-------------------------------------------------------------------------------
(* The ranked stakes.                                                      *)

\* the places ranked before place i
Before(stakes, i) == {j \in DOMAIN stakes : RankedBefore(stakes, j, i)}

LEMMA Places ==
  ASSUME NEW stakes \in Seq(Amounts)
  PROVE  /\ IsFiniteSet(DOMAIN stakes) /\ DOMAIN stakes \subseteq Nat
         /\ \A i \in DOMAIN stakes : stakes[i] \in Nat
         /\ \A ids \in SUBSET DOMAIN stakes : /\ IsFiniteSet(ids)
                                              /\ Cardinality(ids) \in Nat
  <1>1. Len(stakes) \in Nat /\ DOMAIN stakes = 1..Len(stakes)
    OBVIOUS
  <1>2. IsFiniteSet(1..Len(stakes))
    BY <1>1, FS_Interval
  <1>3. \A i \in DOMAIN stakes : stakes[i] \in Nat
    <2>1. \A i \in 1..Len(stakes) : stakes[i] \in Amounts
      OBVIOUS
    <2>2. QED
      BY <1>1, <2>1, StakesAssumption
  <1>4. \A ids \in SUBSET DOMAIN stakes : IsFiniteSet(ids) /\ Cardinality(ids) \in Nat
    BY <1>1, <1>2, FS_Subset, FS_CardinalityType
  <1>5. QED
    BY <1>1, <1>2, <1>3, <1>4

(* A place ranked before another one has strictly fewer before it.         *)
LEMMA BeforeShrinks ==
  ASSUME NEW stakes \in Seq(Amounts), NEW i \in DOMAIN stakes, NEW j \in Before(stakes, i)
  PROVE  Before(stakes, j) \subseteq Before(stakes, i) /\ Before(stakes, j) # Before(stakes, i)
  <1>1. j \in DOMAIN stakes /\ RankedBefore(stakes, j, i)
    BY DEF Before
  <1>2. \A k \in DOMAIN stakes : RankedBefore(stakes, k, j) => RankedBefore(stakes, k, i)
    BY <1>1, Places DEF RankedBefore
  <1>3. ~RankedBefore(stakes, j, j)
    BY <1>1, Places DEF RankedBefore
  <1>4. QED
    BY <1>1, <1>2, <1>3 DEF Before

(* If a stake of the list has no place, max_validators others have one.    *)
LEMMA FullOrAll ==
  ASSUME NEW stakes \in Seq(Amounts), Cardinality(ValidStakes(stakes)) < MaxValidators
  PROVE  ValidStakes(stakes) = DOMAIN stakes
  <1> DEFINE Out == DOMAIN stakes \ ValidStakes(stakes)
             Befores == {Before(stakes, i) : i \in Out}
             Smaller == StrictSubsetOrdering(DOMAIN stakes)
  <1>1. MaxValidators \in Nat
    BY StakesAssumption
  <1>2. ValidStakes(stakes) \subseteq DOMAIN stakes
    BY DEF ValidStakes
  <1>3. SUFFICES ASSUME Out # {} PROVE FALSE
    BY <1>2
  <1>4. PICK i \in Out : \A j \in Out : ~(<<Before(stakes, j), Before(stakes, i)>> \in Smaller)
    <2>1. IsWellFoundedOn(Smaller, SUBSET DOMAIN stakes)
      BY Places, FS_StrictSubsetOrderingWellFounded, FS_FiniteSubsetsOfFinite
    <2>2. Befores \subseteq SUBSET DOMAIN stakes /\ Befores # {}
      BY <1>3 DEF Before
    <2>3. \E x \in Befores : \A y \in Befores : ~(<<y, x>> \in Smaller)
      <3> HIDE DEF Befores, Smaller
      <3>1. QED
        BY <2>1, <2>2, WFMin
    <2>4. QED
      BY <2>3
  <1>5. Before(stakes, i) \subseteq ValidStakes(stakes)
    <2>1. SUFFICES ASSUME NEW j \in Before(stakes, i), j \notin ValidStakes(stakes) PROVE FALSE
      OBVIOUS
    <2>2. j \in Out
      BY <2>1 DEF Before
    <2>3. /\ Before(stakes, j) \subseteq DOMAIN stakes /\ Before(stakes, i) \subseteq DOMAIN stakes
      BY DEF Before
    <2>4. <<Before(stakes, j), Before(stakes, i)>> \in Smaller
      BY <2>3, BeforeShrinks DEF StrictSubsetOrdering
    <2>5. QED
      BY <1>4, <2>2, <2>4
  <1>6. Cardinality(Before(stakes, i)) <= Cardinality(ValidStakes(stakes))
    BY <1>2, <1>5, Places, FS_Subset
  <1>7. ~(Cardinality(Before(stakes, i)) < MaxValidators)
    BY DEF ValidStakes, Before
  <1>8. Cardinality(Before(stakes, i)) \in Nat /\ Cardinality(ValidStakes(stakes)) \in Nat
    BY <1>2, Places DEF Before
  <1>9. QED
    BY <1>1, <1>6, <1>7, <1>8

(* A stake that is larger than one with a place has a place.               *)
LEMMA AboveAPlace ==
  ASSUME NEW stakes \in Seq(Amounts), NEW mine \in Nat, LowerThanMine(stakes, mine) # {}
  PROVE  Cardinality(NotLower(stakes, mine)) < MaxValidators
  <1>1. PICK i \in ValidStakes(stakes) : stakes[i] < mine
    BY DEF LowerThanMine
  <1>2. i \in DOMAIN stakes /\ Cardinality(Before(stakes, i)) < MaxValidators
    BY DEF ValidStakes, Before
  <1>3. NotLower(stakes, mine) \subseteq Before(stakes, i)
    BY <1>1, <1>2, Places DEF NotLower, Before, RankedBefore
  <1>4. Before(stakes, i) \subseteq DOMAIN stakes
    BY DEF Before
  <1>5. Cardinality(NotLower(stakes, mine)) <= Cardinality(Before(stakes, i))
    BY <1>3, <1>4, Places, FS_Subset
  <1>6. /\ Cardinality(NotLower(stakes, mine)) \in Nat
        /\ Cardinality(Before(stakes, i)) \in Nat /\ MaxValidators \in Nat
    BY <1>3, <1>4, Places, StakesAssumption
  <1>7. QED
    BY <1>2, <1>5, <1>6

(* A stake the prudent settings let pass under a threshold has a place     *)
(* among the stakes it was compared with.                                  *)
LEMMA PrudentStakeHasPlace ==
  ASSUME NEW stakes \in Seq(Amounts), NEW mine \in Nat, Threshold > 0,
         SatisfiesPrudentSettings(stakes, mine)
  PROVE  Cardinality(NotLower(stakes, mine)) < MaxValidators
  <1>1. /\ MaxValidators \in Nat /\ MaxValidators > 0 /\ Threshold \in Nat
    BY StakesAssumption
  <1>2. NotLower(stakes, mine) \subseteq DOMAIN stakes
    BY DEF NotLower
  <1>3. CASE stakes = None
    <2>1. NotLower(stakes, mine) = {}
      BY <1>3 DEF NotLower, None
    <2>2. QED
      BY <1>1, <2>1, FS_EmptySet
  <1>4. CASE MaxValidators > Cardinality(ValidStakes(stakes))
    <2>1. ValidStakes(stakes) \subseteq DOMAIN stakes
      BY DEF ValidStakes
    <2>2. /\ Cardinality(ValidStakes(stakes)) \in Nat
          /\ Cardinality(NotLower(stakes, mine)) \in Nat
      BY <1>2, <2>1, Places
    <2>3. ValidStakes(stakes) = DOMAIN stakes
      BY <1>1, <1>4, <2>2, FullOrAll
    <2>4. Cardinality(NotLower(stakes, mine)) <= Cardinality(ValidStakes(stakes))
      BY <1>2, <2>3, Places, FS_Subset
    <2>5. QED
      BY <1>1, <1>4, <2>2, <2>4
  <1>5. CASE /\ ~(MaxValidators > Cardinality(ValidStakes(stakes)))
             /\ Cardinality(LowerThanMine(stakes, mine)) * 100
                   >= Threshold * Cardinality(ValidStakes(stakes))
    <2>1. /\ ValidStakes(stakes) \subseteq DOMAIN stakes
          /\ LowerThanMine(stakes, mine) \subseteq DOMAIN stakes
      BY DEF ValidStakes, LowerThanMine
    <2>2. /\ Cardinality(ValidStakes(stakes)) \in Nat
          /\ Cardinality(LowerThanMine(stakes, mine)) \in Nat
      BY <2>1, Places
    <2>3. Threshold * Cardinality(ValidStakes(stakes)) > 0
      BY <1>1, <1>5, <2>2
    <2>4. Cardinality(LowerThanMine(stakes, mine)) # 0
      <3>1. SUFFICES ASSUME Cardinality(LowerThanMine(stakes, mine)) = 0 PROVE FALSE
        OBVIOUS
      <3>2. 0 * 100 >= Threshold * Cardinality(ValidStakes(stakes))
        BY <1>5, <3>1
      <3>3. Threshold * Cardinality(ValidStakes(stakes)) \in Nat
        BY <1>1, <2>2
      <3>4. QED
        BY <2>3, <3>2, <3>3
    <2>5. LowerThanMine(stakes, mine) # {}
      BY <2>4, FS_EmptySet
    <2>6. QED
      BY <2>5, AboveAPlace
  <1>6. QED
    BY <1>3, <1>4, <1>5 DEF SatisfiesPrudentSettings

(* What is about to be sent was let pass with the list that was read.      *)
Compared ==
    pc = "submit" /\ Threshold > 0 /\ offer < StakeParams.max_stake =>
        Cardinality(NotLower(known, offer)) < MaxValidators

LEMMA ComparedStep ==
  ASSUME StakesOK, Compared, [Next]_vars PROVE Compared'
  <1>1. CASE Tick \/ UNCHANGED vars
    BY <1>1 DEF Compared, NotLower, Tick, vars, bidVars, clockVars
  <1>2. ASSUME NEW amount, OtherStakes(amount) PROVE Compared'
    BY <1>2 DEF Compared, NotLower, OtherStakes, bidVars, clockVars
  <1>3. CASE OpenElection \/ StartPass \/ NotSynced \/ Submit \/ PassRaises
    BY <1>3 DEF Compared, OpenElection, StartPass, NotSynced, Submit, PassRaises, Sleep
  <1>4. ASSUME NEW stakes, ReadElectionIds(stakes) PROVE Compared'
    BY <1>4 DEF Compared, ReadElectionIds, Sleep
  <1>5. ASSUME NEW balance \in Amounts, NEW counted \in Amounts,
               Decide(ComputeStake(balance + counted), balance)
        PROVE  Compared'
    <2> DEFINE stake == ComputeStake(balance + counted)
    <2>1. balance + counted \in Nat /\ StakeParams.max_stake \in Nat
      BY StakesAssumption
    <2>2. stake \in Nat
      BY <2>1, ComputeStakeNat
    <2> HIDE DEF stake
    <2>3. CASE ~Fits(stake, balance)
      BY <1>5, <2>3 DEF Compared, Decide, Sleep, stake
    <2>4. CASE Fits(stake, balance)
      <3>1. known' = known /\ offer' = AtMost(StakeParams.max_stake, stake)
        BY <1>5, <2>4 DEF Decide, stake
      <3>2. offer' < StakeParams.max_stake => offer' = stake
        BY <2>1, <2>2, <3>1 DEF AtMost
      <3>3. Threshold > 0 => Cardinality(NotLower(known, stake)) < MaxValidators
        BY <2>2, <2>4, PrudentStakeHasPlace DEF Fits, StakesOK
      <3>4. QED
        BY <3>1, <3>2, <3>3 DEF Compared
    <2>5. QED
      BY <2>3, <2>4
  <1>6. QED
    BY <1>1, <1>2, <1>3, <1>4, <1>5 DEF Next

(* What was read is what had come by then.                                 *)
ReadBefore ==
    /\ pc \in {"sleep", "read"} => known = None
    /\ Len(known) <= Len(others)
    /\ \A i \in 1..Len(known) : known[i] = others[i]

LEMMA ReadBeforeStep ==
  ASSUME StakesOK, ReadBefore, [Next]_vars PROVE ReadBefore'
  <1> USE DEF StakesOK, ReadBefore
  <1>1. Len(None) = 0
    BY DEF None
  <1>2. ASSUME NEW interval, Sleep(interval), UNCHANGED others PROVE ReadBefore'
    BY <1>1, <1>2 DEF Sleep
  <1>3. CASE Tick \/ StartPass \/ UNCHANGED vars
    BY <1>3 DEF Tick, StartPass, vars, bidVars, clockVars
  <1>4. CASE OpenElection
    BY <1>1, <1>4 DEF OpenElection
  <1>5. ASSUME NEW amount \in Amounts, OtherStakes(amount) PROVE ReadBefore'
    <2>1. /\ Len(others') = Len(others) + 1
          /\ \A i \in 1..Len(others) : others'[i] = others[i]
          /\ UNCHANGED <<pc, known>>
      BY <1>5 DEF OtherStakes
    <2>2. Len(known) \in Nat /\ Len(others) \in Nat
      OBVIOUS
    <2>3. QED
      BY <2>1, <2>2
  <1>6. CASE NotSynced \/ Submit \/ PassRaises
    BY <1>2, <1>6 DEF NotSynced, Submit, PassRaises
  <1>7. ASSUME NEW stakes \in {others, None}, ReadElectionIds(stakes) PROVE ReadBefore'
    BY <1>1, <1>2, <1>7 DEF ReadElectionIds
  <1>8. ASSUME NEW stake, NEW balance, Decide(stake, balance) PROVE ReadBefore'
    BY <1>2, <1>8 DEF Decide
  <1>9. QED
    BY <1>3, <1>4, <1>5, <1>6, <1>7, <1>8 DEF Next

(* A stake more in the list is a place less at most.                       *)
LEMMA ArrivalsCostPlaces ==
  ASSUME StakesOK, ReadBefore, NEW mine \in Nat
  PROVE  Cardinality(NotLower(others, mine)) <=
            Cardinality(NotLower(known, mine)) + (Len(others) - Len(known))
  <1> DEFINE Late == (Len(known) + 1)..Len(others)
             Early == NotLower(known, mine)
  <1>1. Len(known) \in Nat /\ Len(others) \in Nat /\ Len(known) <= Len(others)
    BY DEF StakesOK, ReadBefore
  <1>2. NotLower(others, mine) \subseteq Early \cup Late
    BY <1>1 DEF StakesOK, ReadBefore, NotLower
  <1>3. IsFiniteSet(Late) /\ Cardinality(Late) = Len(others) - Len(known)
    <2>1. /\ IsFiniteSet(Late)
          /\ Cardinality(Late) = IF Len(known) + 1 > Len(others) THEN 0
                                 ELSE Len(others) - (Len(known) + 1) + 1
      <3>1. Len(known) + 1 \in Int /\ Len(others) \in Int
        BY <1>1
      <3>2. QED
        BY <3>1, FS_Interval
    <2>2. QED
      BY <1>1, <2>1
  <1>4. IsFiniteSet(Early) /\ Cardinality(Early) \in Nat
    BY Places DEF StakesOK, NotLower
  <1>5. /\ IsFiniteSet(Early \cup Late)
        /\ Cardinality(Early \cup Late) =
              Cardinality(Early) + Cardinality(Late) - Cardinality(Early \cap Late)
    BY <1>3, <1>4, FS_Union
  <1>6. Cardinality(Early \cap Late) \in Nat
    BY <1>4, FS_Subset, FS_CardinalityType
  <1>7. Cardinality(NotLower(others, mine)) <= Cardinality(Early \cup Late)
    BY <1>2, <1>5, FS_Subset
  <1>8. Cardinality(NotLower(others, mine)) \in Nat
    BY Places DEF StakesOK, NotLower
  <1>9. QED
    BY <1>1, <1>3, <1>4, <1>5, <1>6, <1>7, <1>8

(* A stake that leaves under a join_threshold is among the first           *)
(* max_validators of the stakes that were read, and each stake made        *)
(* meanwhile costs it one place at most (elections.py:274-295, 380).       *)
THEOREM PrudentStakeWins == Spec => []WinsSlot
  <1> DEFINE Inv == StakesOK /\ ReadBefore /\ Compared
  <1>1. Init => Inv
    BY InitPrudent DEF Init, Compared, ReadBefore, None
  <1>2. Inv /\ [Next]_vars => Inv'
    BY StakesStep, ReadBeforeStep, ComparedStep
  <1>3. Inv => WinsSlot
    <2> SUFFICES ASSUME Inv, pc = "submit", Threshold > 0, offer < StakeParams.max_stake
                 PROVE  Cardinality(NotLower(others, offer)) <
                            MaxValidators + (Len(others) - Len(known))
      BY DEF WinsSlot
    <2>1. Cardinality(NotLower(known, offer)) < MaxValidators
      BY DEF Compared
    <2>2. Cardinality(NotLower(others, offer)) <=
             Cardinality(NotLower(known, offer)) + (Len(others) - Len(known))
      BY ArrivalsCostPlaces DEF StakesOK
    <2>3. /\ Cardinality(NotLower(known, offer)) \in Nat
          /\ Cardinality(NotLower(others, offer)) \in Nat
      BY Places DEF StakesOK, NotLower
    <2>4. /\ Len(known) \in Nat /\ Len(others) \in Nat /\ Len(known) <= Len(others)
          /\ MaxValidators \in Nat
      BY StakesAssumption DEF StakesOK, ReadBefore
    <2>5. QED
      BY <2>1, <2>2, <2>3, <2>4
  <1>4. QED
    BY <1>1, <1>2, <1>3, PTL DEF Spec
===============================================================================
