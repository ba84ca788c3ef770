------------------------------ MODULE OneWayProofs ------------------------------
(***************************************************************************)
(* What ElectionsRoutine guarantees when there is one way to stake: the    *)
(* wallet, or a single depool.  For every set of elections and keys and    *)
(* every number of crashes, lost answers and restakes,                     *)
(*   - no election is bid for more often than its restakes and the faults  *)
(*     account for (BidsAccountedFor), and                                 *)
(*   - the engine of a C++ node keeps the keys of every stake the elector  *)
(*     holds (LiveKeysKept).                                               *)
(*                                                                         *)
(* Both rest on JoinedApart: an election that has a record is joined for   *)
(* a restake only.  The bids are accounted for by whether an election is   *)
(* settled, that is whether its next bid takes a fault or a restake; the   *)
(* keys by their being different for different elections.                  *)
(***************************************************************************)
EXTENDS ElectionsRoutineProofs

OneWay == \A m \in Modes : \A v, w \in ViasOf(m) : v = w

InJoin(e) == pc \in JoinLabels /\ e = job.election

(* A flag was asked for.                                                   *)
FlagsAsked == \A e \in Elections : rec[e].restake \/ file[e].restake => restakes[e] > 0

(* What is looked at has been opened.                                      *)
Opened ==
    \A e \in Elections :
        e \in seen \/ InJoin(e) \/ (\E j \in todo : j.election = e) => phase[e] # "future"

(* A join without a restake is of an election without a record.            *)
JoinedApart ==
    /\ \A i, j \in todo : i.election = j.election => i = j
    /\ \A j \in todo : ~InJoin(j.election)
    /\ todo # {} => pc \in {"join"} \cup JoinLabels
    /\ \A j \in todo : j.election \in active => restakes[j.election] > 0
    /\ \A e \in active : InJoin(e) => restakes[e] > 0

(* A join has reset its flag.                                              *)
FlagsTaken == \A e \in Elections : InJoin(e) \/ (\E j \in todo : j.election = e) => ~rec[e].restake

(* The next bid for e takes a fault or a restake.                          *)
Settled(e) ==
    /\ (e \in active /\ ~InJoin(e)) \/ (pc = "record" /\ e = job.election)
    /\ ~rec[e].restake /\ \A j \in todo : j.election # e

SettledBids ==
    \A e \in Elections \ matured :
        \/ bids[e] <= restakes[e] + faults
        \/ Settled(e) /\ bids[e] <= 1 + restakes[e] + faults

KeysApart == \A d, e \in Elections : d # e => bidKeys[d] \cap bidKeys[e] = {}

(* What is not recorded has no key.                                        *)
NoSpareKeys ==
    /\ \A e \in Elections : e \in active \/ InJoin(e) \/ rec[e].key = NoKey
    /\ \A e \in Elections : e \in saved \/ file[e].key = NoKey

(* The key of the join in progress.                                        *)
JoinKey ==
    \A d, e \in Elections :
        InJoin(d) /\ rec[d].key \in bidKeys[e] =>
            d = e /\ (pc = "record" \/ restakes[e] > 0 \/ e \in lost)

SignedInEngine == pc \in {"submit", "confirm"} => req.key \in engineKeys

(* A bid that was not taken came too late.                                 *)
TakenOrLate == \A e \in Elections : stake[e] = "none" /\ bidKeys[e] # {} => phase[e] = "closed"

OneWayInv == IInv /\ FlagsAsked /\ JoinedApart /\ FlagsTaken /\ SettledBids

LiveInv ==
    /\ OneWayInv /\ Opened
    /\ KeysApart /\ NoSpareKeys /\ JoinKey
    /\ SignedInEngine /\ TakenOrLate
    /\ LiveKeysKept
-------------------------------------------------------------------------------
LEMMA InitOneWay == ASSUME Init PROVE OneWayInv
  <1>1. FlagsAsked /\ JoinedApart /\ FlagsTaken /\ SettledBids
    BY DEF Init, FlagsAsked, JoinedApart, FlagsTaken, SettledBids, InJoin, JoinLabels, Blanks,
       Blank
  <1>2. QED
    BY <1>1, InitIInv DEF OneWayInv

LEMMA InitLive == ASSUME Init PROVE LiveInv
  BY InitOneWay
  DEF Init, LiveInv, Opened, KeysApart, NoSpareKeys, JoinKey, SignedInEngine, TakenOrLate,
      LiveKeysKept, InJoin, JoinLabels, Blanks, Blank

(* Faults, restakes and lost answers are only counted up.                  *)
LEMMA HistoryGrows ==
  ASSUME TypeOK, PassShape, [Next]_vars
  PROVE  /\ \A e \in Elections : restakes[e] <= restakes'[e]
         /\ \A e \in Elections : restakes[e] > 0 => restakes'[e] > 0
         /\ faults <= faults'
         /\ lost \subseteq lost'
         /\ matured \subseteq matured'
  <1> USE DEF TypeOK, chainVars, historyVars, outsideVars
  <1>1. CASE Chain
    BY <1>1 DEF Chain, OpenElection, CloseElection, Mature, CreditStake
  <1>2. CASE CleanStep
    BY <1>2
    DEF CleanStep, ScanActiveElections, CleanupDepoolElection, DepoolElectionsCleaned,
        RecoverStakes, NothingToRecover, RecoverRaises, ForgetRecovered, SelectElections, PayCredits
  <1>3. CASE JoinStep
    <2>1. /\ restakes' = restakes /\ matured' = matured /\ lost \subseteq lost'
          /\ faults' \in {faults, faults + 1}
      BY <1>3
      DEF JoinStep, StartJoin, SkipJoin, EndJoins, UseRecordedKeys, GetNewKeys, NoKeyMade,
          PrepareElection, SignRequest, SubmitTransaction, ConfirmTransaction, AnswerLost,
          JoinRaises, RecordElection, FailedJoinCleanup, PassRaises, ExecuteBid
    <2>2. QED
      BY <2>1
  <1>4. CASE SaveStep
    BY <1>4 DEF SaveStep, TruncateFile, WriteFile, SaveRaises
  <1>5. CASE Operator \/ Crash
    BY <1>5 DEF Operator, Boot, RestartDead, RequestRestake, Crash
  <1>6. CASE UNCHANGED vars
    BY <1>6 DEF vars
  <1>7. QED
    BY <1>1, <1>2, <1>3, <1>4, <1>5, <1>6 DEF Next, RoutineStep, ReadElectionIds

(* A record's fields after each way to change it.                          *)
LEMMA ChangedRecord ==
  ASSUME NEW r \in Record
  PROVE  /\ FlagReset(r).restake = FALSE /\ FlagReset(r).key = r.key
         /\ \A k : [r EXCEPT !.key = k].restake = r.restake /\ [r EXCEPT !.key = k].key = k
         /\ \A n : [r EXCEPT !.staked = n].restake = r.restake /\ [r EXCEPT !.staked = n].key = r.key
         /\ \A m : [r EXCEPT !.mode = m].restake = r.restake /\ [r EXCEPT !.mode = m].key = r.key
         /\ \A v : Joining(r, v).restake = r.restake /\ Joining(r, v).key = r.key
  BY DEF FlagReset, Joining, Record

(* What a step does to the keys and flags of the records in memory.        *)
LEMMA RecordEffect ==
  ASSUME TypeOK, PassShape, [Next]_vars
  PROVE  \/ \A e \in Elections : rec'[e].key = rec[e].key
                                 /\ (rec'[e].restake => rec[e].restake)
         \/ \E ids : rec' = Recorded(ids)
         \/ Boot \/ rec' = Blanks
         \/ /\ \A e \in Elections : rec'[e].restake = rec[e].restake
            /\ \E k \in Keys \cup {NoKey} : GetNewKeys(k)
  <1> USE DEF TypeOK, diskVars, joinVars, recordVars, passVars, outsideVars, historyVars
  <1>1. CASE UNCHANGED rec
    BY <1>1
  <1>2. CASE SelectElections
    BY <1>2, ChangedRecord DEF SelectElections
  <1>3. ASSUME NEW j \in Job, StartJoin(j) \/ SkipJoin(j)
        PROVE  \A e \in Elections : rec'[e].key = rec[e].key /\ rec'[e].restake = rec[e].restake
    <2>1. rec \in [Elections -> Record] /\ j.election \in Elections
      BY DEF TypeOK, Job
    <2>2. \/ rec' = rec
          \/ rec' = [rec EXCEPT ![j.election] = Joining(rec[j.election], j.via)]
          \/ rec' = [rec EXCEPT ![j.election] = [rec[j.election] EXCEPT !.mode = mode]]
      BY <1>3 DEF StartJoin, SkipJoin
    <2>3. PICK r : /\ rec' = [rec EXCEPT ![j.election] = r]
                   /\ r.key = rec[j.election].key /\ r.restake = rec[j.election].restake
      <3>1. rec = [rec EXCEPT ![j.election] = rec[j.election]]
        BY <2>1
      <3>2. rec[j.election] \in Record
        BY <2>1
      <3>3. CASE rec' = rec
        BY <3>1, <3>3
      <3>4. CASE rec' = [rec EXCEPT ![j.election] = Joining(rec[j.election], j.via)]
        <4>1. /\ Joining(rec[j.election], j.via).key = rec[j.election].key
              /\ Joining(rec[j.election], j.via).restake = rec[j.election].restake
          BY <3>2, ChangedRecord
        <4>2. QED
          BY <3>4, <4>1
      <3>5. CASE rec' = [rec EXCEPT ![j.election] = [rec[j.election] EXCEPT !.mode = mode]]
        <4>1. /\ [rec[j.election] EXCEPT !.mode = mode].key = rec[j.election].key
              /\ [rec[j.election] EXCEPT !.mode = mode].restake = rec[j.election].restake
          BY <3>2, ChangedRecord
        <4>2. QED
          BY <3>5, <4>1
      <3>6. QED
        BY <2>2, <3>3, <3>4, <3>5
    <2>4. QED
      BY <2>1, <2>3
  <1>4. ASSUME NEW k \in Keys \cup {NoKey}, GetNewKeys(k)
        PROVE  \A e \in Elections : rec'[e].restake = rec[e].restake
    <2>1. rec \in [Elections -> Record] /\ job.election \in Elections
      BY <1>4 DEF GetNewKeys, PassShape, JoinLabels, Job
    <2>2. rec' = [rec EXCEPT ![job.election] = [rec[job.election] EXCEPT !.key = k]]
      BY <1>4 DEF GetNewKeys
    <2>3. QED
      BY <2>1, <2>2, ChangedRecord
  <1>5. CASE RecordElection
    <2>1. rec \in [Elections -> Record] /\ job.election \in Elections
      BY <1>5 DEF RecordElection, PassShape, JoinLabels, Job
    <2>2. rec' = [rec EXCEPT ![job.election] = [rec[job.election] EXCEPT !.staked = 
                     IF mode = "depool" THEN rec[job.election].staked + 1
                                        ELSE rec[job.election].staked]]
      BY <1>5 DEF RecordElection
    <2>3. QED
      BY <2>1, <2>2, ChangedRecord
  <1>6. CASE FailedJoinCleanup \/ PassRaises
    BY <1>6 DEF FailedJoinCleanup, CleanupElection, PassRaises
  <1>7. CASE Chain
    BY <1>1, <1>7 DEF Chain, OpenElection, CloseElection, Mature, CreditStake, UnchangedProcess
  <1>8. CASE CleanStep
    BY <1>1, <1>2, <1>8
    DEF CleanStep, ScanActiveElections, CleanupDepoolElection, DepoolElectionsCleaned,
        RecoverStakes, NothingToRecover, RecoverRaises, ForgetRecovered, CleanupElection
  <1>9. CASE JoinStep
    BY <1>1, <1>3, <1>4, <1>5, <1>6, <1>9
    DEF JoinStep, EndJoins, UseRecordedKeys, NoKeyMade,
        PrepareElection, SignRequest, SubmitTransaction, ConfirmTransaction, AnswerLost,
        JoinRaises
  <1>10. CASE SaveStep
    BY <1>1, <1>10 DEF SaveStep, TruncateFile, WriteFile, SaveRaises
  <1>11. CASE Operator \/ Crash
    BY <1>1, <1>11 DEF Operator, RestartDead, RequestRestake, UnchangedProcess, Crash
  <1>12. CASE UNCHANGED vars
    BY <1>1, <1>12 DEF vars
  <1>13. QED
    BY <1>1, <1>7, <1>8, <1>9, <1>10, <1>11, <1>12 DEF Next, RoutineStep, ReadElectionIds

(* What a step does to the file.                                           *)
LEMMA FileEffect ==
  ASSUME TypeOK, [Next]_vars
  PROVE  \/ UNCHANGED <<file, saved>>
         \/ file' = Blanks /\ saved' = {}
         \/ file' = Recorded(active) /\ saved' = active
         \/ /\ UNCHANGED saved
            /\ \E e \in Elections : RequestRestake(e)
  <1> USE DEF diskVars, outsideVars
  <1>1. CASE Chain
    BY <1>1 DEF Chain, OpenElection, CloseElection, Mature, CreditStake
  <1>2. CASE CleanStep
    BY <1>2
    DEF CleanStep, ScanActiveElections, CleanupDepoolElection, DepoolElectionsCleaned,
        RecoverStakes, NothingToRecover, RecoverRaises, ForgetRecovered, SelectElections
  <1>3. CASE JoinStep
    BY <1>3
    DEF JoinStep, StartJoin, SkipJoin, EndJoins, UseRecordedKeys, GetNewKeys, NoKeyMade,
        PrepareElection, SignRequest, SubmitTransaction, ConfirmTransaction, AnswerLost,
        JoinRaises, RecordElection, FailedJoinCleanup, PassRaises
  <1>4. CASE SaveStep
    BY <1>4 DEF SaveStep, TruncateFile, WriteFile, SaveRaises
  <1>5. CASE Operator \/ Crash
    BY <1>5 DEF Operator, Boot, RestartDead, RequestRestake, Crash
  <1>6. CASE UNCHANGED vars
    BY <1>6 DEF vars
  <1>7. QED
    BY <1>1, <1>2, <1>3, <1>4, <1>5, <1>6 DEF Next, RoutineStep, ReadElectionIds

(* A request to restake sets a flag and counts it.                         *)
LEMMA RestakeEffect ==
  ASSUME TypeOK, NEW e \in Elections, RequestRestake(e)
  PROVE  \A d \in Elections : /\ file'[d].key = file[d].key
                              /\ d # e => file'[d] = file[d]
                              /\ d = e => restakes'[d] > 0
  BY DEF RequestRestake, TypeOK, Record

LEMMA BlankFields ==
  /\ \A e \in Elections : Blanks[e].key = NoKey /\ Blanks[e].restake = FALSE
  /\ \A ids : \A e \in Elections :
        /\ e \in ids => Recorded(ids)[e] = rec[e]
        /\ e \notin ids => Recorded(ids)[e].key = NoKey /\ Recorded(ids)[e].restake = FALSE
  BY DEF Blanks, Blank, Recorded

LEMMA FlagsStep ==
  ASSUME TypeOK, PassShape, FlagsAsked, [Next]_vars
  PROVE  FlagsAsked'
  <1>1. ASSUME NEW e \in Elections, file'[e].restake PROVE restakes'[e] > 0
    <2>1. CASE UNCHANGED <<file, saved>> \/ file' = Blanks
      BY <1>1, <2>1, HistoryGrows, BlankFields DEF FlagsAsked
    <2>2. CASE file' = Recorded(active)
      BY <1>1, <2>2, HistoryGrows, BlankFields DEF FlagsAsked
    <2>3. ASSUME NEW d \in Elections, RequestRestake(d) PROVE restakes'[e] > 0
      BY <1>1, <2>3, RestakeEffect, HistoryGrows DEF FlagsAsked
    <2>4. QED
      BY <2>1, <2>2, <2>3, FileEffect
  <1>2. ASSUME NEW e \in Elections, rec'[e].restake PROVE restakes'[e] > 0
    <2>1. CASE rec'[e].restake => rec[e].restake
      BY <1>2, <2>1, HistoryGrows DEF FlagsAsked
    <2>2. ASSUME NEW ids, rec' = Recorded(ids) PROVE restakes'[e] > 0
      BY <1>2, <2>2, HistoryGrows, BlankFields DEF FlagsAsked
    <2>3. CASE Boot
      BY <1>2, <2>3, HistoryGrows DEF FlagsAsked, Boot, recordVars
    <2>4. CASE rec' = Blanks
      BY <1>2, <2>4, BlankFields
    <2>5. QED
      BY <2>1, <2>2, <2>3, <2>4, RecordEffect
  <1>3. QED
    BY <1>1, <1>2 DEF FlagsAsked

(* Elections do not go back to the future.                                 *)
LEMMA PhaseStep ==
  ASSUME TypeOK, [Next]_vars, NEW e \in Elections
  PROVE  /\ phase[e] # "future" => phase'[e] # "future"
         /\ phase[e] = "closed" => phase'[e] = "closed"
  <1> USE DEF TypeOK, chainVars, outsideVars
  <1>1. CASE Chain
    BY <1>1 DEF Chain, OpenElection, CloseElection, Mature, CreditStake
  <1>2. CASE CleanStep
    BY <1>2
    DEF CleanStep, ScanActiveElections, CleanupDepoolElection, DepoolElectionsCleaned,
        RecoverStakes, NothingToRecover, RecoverRaises, ForgetRecovered, SelectElections, PayCredits
  <1>3. CASE JoinStep
    BY <1>3
    DEF JoinStep, StartJoin, SkipJoin, EndJoins, UseRecordedKeys, GetNewKeys, NoKeyMade,
        PrepareElection, SignRequest, SubmitTransaction, ConfirmTransaction, AnswerLost,
        JoinRaises, RecordElection, FailedJoinCleanup, PassRaises, ExecuteBid
  <1>4. CASE SaveStep
    BY <1>4 DEF SaveStep, TruncateFile, WriteFile, SaveRaises
  <1>5. CASE Operator \/ Crash
    BY <1>5 DEF Operator, Boot, RestartDead, RequestRestake, Crash
  <1>6. CASE UNCHANGED vars
    BY <1>6 DEF vars
  <1>7. QED
    BY <1>1, <1>2, <1>3, <1>4, <1>5, <1>6 DEF Next, RoutineStep, ReadElectionIds

(* What is joined was read as open.                                        *)
LEMMA OpenedStep ==
  ASSUME TypeOK, PassShape, Opened, [Next]_vars
  PROVE  Opened'
  <1> DEFINE Looked(e) == e \in seen \/ InJoin(e) \/ \E j \in todo : j.election = e
  <1>1. \A e \in Elections : Looked(e)' => Looked(e) \/ phase[e] # "future"
    <2> USE DEF InJoin, JoinLabels, joinVars, recordVars, passVars
    <2>1. CASE Chain
      BY <2>1 DEF Chain, OpenElection, CloseElection, Mature, CreditStake, UnchangedProcess
    <2>2. CASE CleanStep
      <3>1. CASE SelectElections
        <4>1. \A j \in todo' : j.election \in seen
          BY <3>1 DEF SelectElections, ToJoin
        <4>2. pc' \notin JoinLabels /\ seen' = {}
          BY <3>1 DEF SelectElections
        <4>3. QED
          BY <4>1, <4>2
      <3>2. CASE UNCHANGED <<seen, joinVars>> /\ pc' \notin JoinLabels
        BY <3>2
      <3>3. QED
        BY <2>2, <3>1, <3>2
        DEF CleanStep, ScanActiveElections, CleanupDepoolElection, DepoolElectionsCleaned,
            RecoverStakes, NothingToRecover, RecoverRaises, LeaveForNextPass, ForgetRecovered
    <2>3. CASE JoinStep
      BY <2>3
      DEF JoinStep, StartJoin, SkipJoin, EndJoins, UseRecordedKeys, GetNewKeys, NoKeyMade,
          PrepareElection, SignRequest, SubmitTransaction, ConfirmTransaction, AnswerLost,
          JoinRaises, RecordElection, FailedJoinCleanup, PassRaises, ForgetJoins, NextSleep
    <2>4. CASE SaveStep
      BY <2>4 DEF SaveStep, TruncateFile, WriteFile, SaveRaises
    <2>5. CASE Operator \/ Crash
      BY <2>5
      DEF Operator, Boot, RestartDead, RequestRestake, UnchangedProcess, Crash, ForgetJoins
    <2>6. ASSUME NEW ids \in {OpenIds, {}}, ReadElectionIds(ids)
          PROVE  \A e \in Elections : Looked(e)' => Looked(e) \/ phase[e] # "future"
      BY <2>6 DEF ReadElectionIds, OpenIds
    <2>7. CASE UNCHANGED vars
      BY <2>7 DEF vars
    <2>8. QED
      BY <2>1, <2>2, <2>3, <2>4, <2>5, <2>6, <2>7 DEF Next, RoutineStep
  <1>2. QED
    BY <1>1, PhaseStep DEF Opened

-------------------------------------------------------------------------------
(* Joins and records.                                                      *)

LEMMA SelectedApart ==
  ASSUME OneWay, TypeOK, FlagsAsked, SelectElections
  PROVE  /\ \A i, j \in todo' : i.election = j.election => i = j
         /\ \A j \in todo' : j.election \in active => restakes[j.election] > 0
  <1>1. todo' = [via : ViasOf(mode), election : ToJoin(seen)] /\ mode \in Modes
    BY DEF SelectElections, TypeOK
  <1>2. \A i, j \in todo' : i.via = j.via
    BY <1>1 DEF OneWay
  <1>3. \A i, j \in todo' : i.election = j.election => i = j
    BY <1>1, <1>2
  <1>4. \A e \in ToJoin(seen) : e \in Elections /\ (e \in active => restakes[e] > 0)
    BY DEF ToJoin, FlagsAsked, TypeOK
  <1>5. QED
    BY <1>1, <1>3, <1>4

LEMMA ApartStep ==
  ASSUME OneWay, TypeOK, PassShape, FlagsAsked, JoinedApart, [Next]_vars
  PROVE  JoinedApart'
  <1> USE DEF JoinedApart, InJoin, JoinLabels, joinVars, recordVars, passVars, outsideVars,
          historyVars
  <1>1. CASE Chain
    BY <1>1 DEF Chain, OpenElection, CloseElection, Mature, CreditStake, UnchangedProcess
  <1>2. CASE CleanStep
    <2>1. CASE SelectElections
      BY <2>1, SelectedApart DEF SelectElections
    <2>2. CASE ~SelectElections
      BY <1>2, <2>2
      DEF CleanStep, ScanActiveElections, CleanupDepoolElection, DepoolElectionsCleaned,
          RecoverStakes, NothingToRecover, RecoverRaises, LeaveForNextPass, ForgetRecovered,
          CleanupElection
    <2>3. QED
      BY <2>1, <2>2
  <1>3. CASE JoinStep
    <2>1. ASSUME NEW j \in Job, StartJoin(j) PROVE JoinedApart'
      BY <2>1 DEF StartJoin
    <2>2. ASSUME NEW j \in Job, SkipJoin(j) PROVE JoinedApart'
      BY <2>2 DEF SkipJoin
    <2>3. CASE RecordElection
      BY <2>3 DEF RecordElection, Appended
    <2>4. CASE FailedJoinCleanup \/ PassRaises
      BY <2>4 DEF FailedJoinCleanup, CleanupElection, PassRaises, ForgetJoins, NextSleep
    <2>5. CASE EndJoins
      BY <2>5 DEF EndJoins
    <2>6. CASE /\ UNCHANGED <<todo, job, active, restakes>>
               /\ pc \in JoinLabels /\ pc' \in JoinLabels
      BY <2>6
    <2>7. QED
      BY <1>3, <2>1, <2>2, <2>3, <2>4, <2>5, <2>6
      DEF JoinStep, UseRecordedKeys, GetNewKeys, NoKeyMade, PrepareElection, SignRequest,
          SubmitTransaction, ConfirmTransaction, AnswerLost, JoinRaises, JoinEnds
  <1>4. CASE SaveStep
    BY <1>4 DEF SaveStep, TruncateFile, WriteFile, SaveRaises
  <1>5. CASE Operator \/ Crash
    <2>1. ASSUME NEW e \in Elections, RequestRestake(e) PROVE JoinedApart'
      BY <2>1 DEF RequestRestake, UnchangedProcess
    <2>2. CASE Boot \/ RestartDead \/ Crash
      BY <2>2 DEF Boot, RestartDead, Crash, ForgetJoins
    <2>3. QED
      BY <1>5, <2>1, <2>2 DEF Operator
  <1>6. CASE UNCHANGED vars
    BY <1>6 DEF vars
  <1>7. QED
    BY <1>1, <1>2, <1>3, <1>4, <1>5, <1>6 DEF Next, RoutineStep, ReadElectionIds

(* The file has keys for what it lists only.                               *)
LEMMA FileKeysStep ==
  ASSUME TypeOK, NoSpareKeys, [Next]_vars
  PROVE  \A e \in Elections : e \in saved' \/ file'[e].key = NoKey
  <1>1. CASE UNCHANGED <<file, saved>> \/ (file' = Blanks /\ saved' = {})
    BY <1>1, BlankFields DEF NoSpareKeys
  <1>2. CASE file' = Recorded(active) /\ saved' = active
    BY <1>2, BlankFields
  <1>3. ASSUME UNCHANGED saved, NEW d \in Elections, RequestRestake(d)
        PROVE  \A e \in Elections : e \in saved' \/ file'[e].key = NoKey
    BY <1>3, RestakeEffect DEF NoSpareKeys
  <1>4. QED
    BY <1>1, <1>2, <1>3, FileEffect

(* Records that are dropped lose their keys.                               *)
LEMMA SpareKeysStep ==
  ASSUME TypeOK, PassShape, NoSpareKeys, [Next]_vars
  PROVE  NoSpareKeys'
  <1> DEFINE Blanked == \A e \in Elections : e \in active' \/ InJoin(e)' \/ rec'[e].key = NoKey
             SameKeys == \A e \in Elections : rec'[e].key = rec[e].key
  <1> USE DEF NoSpareKeys, InJoin, JoinLabels, joinVars, recordVars, passVars, outsideVars
  <1>1. CASE Chain
    BY <1>1, FileKeysStep
    DEF Chain, OpenElection, CloseElection, Mature, CreditStake, UnchangedProcess
  <1>2. CASE rec' = Recorded(active')
    BY <1>2, BlankFields, FileKeysStep
  <1>3. CASE CleanStep
    <2>1. CASE SelectElections
      <3>1. SameKeys
        BY <2>1, ChangedRecord DEF SelectElections, TypeOK
      <3>2. QED
        BY <2>1, <3>1, FileKeysStep DEF SelectElections
    <2>2. CASE UNCHANGED <<rec, active>> /\ pc \notin JoinLabels
      BY <2>2, FileKeysStep
    <2>3. QED
      BY <1>2, <1>3, <2>1, <2>2
      DEF CleanStep, ScanActiveElections, CleanupDepoolElection, DepoolElectionsCleaned,
          RecoverStakes, NothingToRecover, RecoverRaises, LeaveForNextPass, ForgetRecovered,
          CleanupElection
  <1>4. CASE JoinStep
    <2>1. ASSUME NEW j \in Job, StartJoin(j) \/ SkipJoin(j) PROVE Blanked
      <3>1. pc = "join" /\ UNCHANGED active
        BY <2>1 DEF StartJoin, SkipJoin
      <3>2. ASSUME NEW e \in Elections, e \notin active PROVE rec'[e].key = NoKey
        <4>1. \/ SameKeys
              \/ (\E ids : rec' = Recorded(ids)) \/ rec' = Blanks
          BY <3>1, RecordEffect DEF Boot, GetNewKeys
        <4>2. QED
          BY <3>1, <3>2, <4>1, BlankFields
      <3>3. QED
        BY <3>1, <3>2
    <2>2. ASSUME NEW k \in Keys \cup {NoKey}, GetNewKeys(k) PROVE Blanked
      BY <2>2 DEF GetNewKeys, TypeOK
    <2>3. CASE RecordElection
      <3>1. SameKeys \/ (\E ids : rec' = Recorded(ids)) \/ rec' = Blanks
        BY <2>3, RecordEffect DEF RecordElection, Boot, GetNewKeys
      <3>2. ASSUME NEW e \in Elections PROVE rec'[e].key \in {rec[e].key, NoKey}
        BY <3>1, BlankFields
      <3>3. QED
        BY <2>3, <3>2, FileKeysStep DEF RecordElection, Appended
    <2>4. CASE FailedJoinCleanup \/ PassRaises
      BY <1>2, <2>4 DEF FailedJoinCleanup, CleanupElection, PassRaises
    <2>5. CASE UNCHANGED <<rec, active, job>> /\ (pc \in JoinLabels => pc' \in JoinLabels)
      BY <2>5, FileKeysStep
    <2>6. QED
      BY <1>4, <2>1, <2>2, <2>3, <2>4, <2>5, FileKeysStep
      DEF JoinStep, EndJoins, UseRecordedKeys, NoKeyMade, PrepareElection, SignRequest,
          SubmitTransaction, ConfirmTransaction, AnswerLost, JoinRaises, JoinEnds
  <1>5. CASE SaveStep
    BY <1>2, <1>5, FileKeysStep DEF SaveStep, TruncateFile, WriteFile, SaveRaises
  <1>6. CASE Operator \/ Crash
    BY <1>6, FileKeysStep, BlankFields
    DEF Operator, Boot, RestartDead, RequestRestake, UnchangedProcess, Crash
  <1>7. CASE UNCHANGED vars
    BY <1>7, FileKeysStep DEF vars
  <1>8. QED
    BY <1>1, <1>3, <1>4, <1>5, <1>6, <1>7, FileKeysStep DEF Next, RoutineStep, ReadElectionIds

-------------------------------------------------------------------------------
(* Bids and keys.                                                          *)

Bids ==
    /\ pc \in {"submit", "confirm"} /\ ExecuteBid(req)
    /\ \/ pc' = "record"
       \/ pc' = "fail" /\ faults' = faults + 1 /\ req.election \in lost'
    /\ UNCHANGED <<rec, job, todo, engineKeys, active, restakes>>

(* Only a bid, the payment of the credits and the elector itself change    *)
(* what the chain says of our stakes.                                      *)
LEMMA BidEffect ==
  ASSUME TypeOK, PassShape, [Next]_vars
  PROVE  \/ Bids
         \/ Chain
         \/ PayCredits /\ UNCHANGED engineKeys
         \/ UNCHANGED chainVars
  <1> USE DEF diskVars, joinVars, recordVars, passVars, outsideVars, historyVars
  <1>1. CASE CleanStep
    BY <1>1
    DEF CleanStep, ScanActiveElections, CleanupDepoolElection,
        DepoolElectionsCleaned, RecoverStakes, NothingToRecover, RecoverRaises, ForgetRecovered,
        SelectElections, chainVars
  <1>2. CASE JoinStep
    <2>1. CASE SubmitTransaction \/ ConfirmTransaction
      BY <2>1 DEF SubmitTransaction, ConfirmTransaction, Bids
    <2>2. CASE AnswerLost
      BY <2>2 DEF AnswerLost, Bids
    <2>3. QED
      BY <1>2, <2>1, <2>2
      DEF JoinStep, StartJoin, SkipJoin, EndJoins, UseRecordedKeys, GetNewKeys,
          NoKeyMade, PrepareElection, SignRequest, JoinRaises, RecordElection,
          FailedJoinCleanup, PassRaises
  <1>3. CASE SaveStep
    BY <1>3 DEF SaveStep, TruncateFile, WriteFile, SaveRaises
  <1>4. CASE Operator \/ Crash
    BY <1>4 DEF Operator, Boot, RestartDead, RequestRestake, Crash
  <1>5. CASE UNCHANGED vars
    BY <1>5 DEF vars
  <1>6. QED
    BY <1>1, <1>2, <1>3, <1>4, <1>5 DEF Next, RoutineStep, ReadElectionIds

(* A bid names the election and the key of the join in progress.           *)
LEMMA BidNames ==
  ASSUME TypeOK, PassShape, Bids
  PROVE  /\ job.election \in Elections /\ InJoin(job.election)
         /\ req.election = job.election /\ req.key = rec[job.election].key
         /\ bidKeys' = [bidKeys EXCEPT ![job.election] = @ \cup {rec[job.election].key}]
         /\ stake' = IF phase[job.election] = "open" /\ stake[job.election] = "none"
                     THEN [stake EXCEPT ![job.election] = "locked"] ELSE stake
         /\ UNCHANGED <<phase, matured>>
  <1>1. /\ job.election \in Elections /\ InJoin(job.election)
        /\ req.election = job.election /\ req.key = rec[job.election].key
    BY DEF Bids, PassShape, SignsItsOwnElection, InJoin, JoinLabels, Job
  <1>2. QED
    BY <1>1 DEF Bids, ExecuteBid

LEMMA BidKeysOtherwise ==
  ASSUME Chain \/ PayCredits \/ UNCHANGED chainVars
  PROVE  UNCHANGED bidKeys
  BY DEF Chain, OpenElection, CloseElection, Mature, CreditStake, PayCredits, chainVars

LEMMA KeysApartStep ==
  ASSUME TypeOK, PassShape, JoinKey, KeysApart, [Next]_vars
  PROVE  KeysApart'
  <1>1. CASE Bids
    <2>1. \A e \in Elections \ {job.election} : rec[job.election].key \notin bidKeys[e]
      BY <1>1, BidNames DEF JoinKey
    <2>2. \A e \in Elections :
             bidKeys'[e] = IF e = job.election THEN bidKeys[e] \cup {rec[e].key} ELSE bidKeys[e]
      BY <1>1, BidNames DEF TypeOK
    <2>3. ASSUME NEW d \in Elections, NEW e \in Elections, d # e PROVE bidKeys'[d] \cap bidKeys'[e] = {}
      <3>1. bidKeys[d] \cap bidKeys[e] = {}
        BY <2>3 DEF KeysApart
      <3>2. CASE job.election \notin {d, e}
        <4>1. bidKeys'[d] = bidKeys[d] /\ bidKeys'[e] = bidKeys[e]
          BY <2>2, <3>2
        <4>2. QED
          BY <3>1, <4>1
      <3>3. CASE job.election = d
        <4>1. bidKeys'[d] = bidKeys[d] \cup {rec[d].key} /\ bidKeys'[e] = bidKeys[e]
          BY <2>2, <2>3, <3>3
        <4>2. rec[d].key \notin bidKeys[e]
          BY <2>1, <2>3, <3>3
        <4>3. QED
          BY <3>1, <4>1, <4>2
      <3>4. CASE job.election = e
        <4>1. bidKeys'[e] = bidKeys[e] \cup {rec[e].key} /\ bidKeys'[d] = bidKeys[d]
          BY <2>2, <2>3, <3>4
        <4>2. rec[e].key \notin bidKeys[d]
          BY <2>1, <2>3, <3>4
        <4>3. QED
          BY <3>1, <4>1, <4>2
      <3>5. QED
        BY <3>2, <3>3, <3>4
    <2>4. QED
      BY <2>3 DEF KeysApart
  <1>2. QED
    BY <1>1, BidEffect, BidKeysOtherwise DEF KeysApart

(* A bid comes after the election was opened.                              *)
LEMMA TakenStep ==
  ASSUME TypeOK, PassShape, Opened, TakenOrLate, [Next]_vars
  PROVE  TakenOrLate'
  <1>1. CASE Bids
    <2>1. phase[job.election] # "future"
      BY <1>1, BidNames DEF Opened
    <2>2. ASSUME NEW e \in Elections, stake'[e] = "none", bidKeys'[e] # {}
          PROVE  phase'[e] = "closed"
      <3>1. stake[e] = "none"
        BY <1>1, <2>2, BidNames DEF TypeOK
      <3>2. CASE e = job.election
        BY <1>1, <2>1, <2>2, <3>1, <3>2, BidNames DEF TypeOK
      <3>3. CASE e # job.election
        BY <1>1, <2>2, <3>1, <3>3, BidNames DEF TypeOK, TakenOrLate
      <3>4. QED
        BY <3>2, <3>3
    <2>3. QED
      BY <2>2 DEF TakenOrLate
  <1>2. CASE Chain \/ PayCredits \/ UNCHANGED chainVars
    <2>1. \A e \in Elections : stake'[e] = "none" => stake[e] = "none"
      BY <1>2 DEF Chain, OpenElection, CloseElection, Mature, CreditStake, PayCredits, chainVars,
         TypeOK
    <2>2. QED
      BY <1>2, <2>1, BidKeysOtherwise, PhaseStep DEF TakenOrLate
  <1>3. QED
    BY <1>1, <1>2, BidEffect

(* What is signed for is signed with a key of the engine.                  *)
LEMMA SignedStep ==
  ASSUME Provider = "cpp", TypeOK, PassShape, SignedInEngine, [Next]_vars
  PROVE  SignedInEngine'
  <1> USE DEF SignedInEngine, joinVars, recordVars, passVars, outsideVars
  <1>1. CASE Chain
    BY <1>1 DEF Chain, OpenElection, CloseElection, Mature, CreditStake, UnchangedProcess
  <1>2. CASE CleanStep
    BY <1>2
    DEF CleanStep, ScanActiveElections, CleanupDepoolElection, DepoolElectionsCleaned,
        RecoverStakes, NothingToRecover, RecoverRaises, LeaveForNextPass, ForgetRecovered,
        SelectElections
  <1>3. CASE JoinStep
    <2>1. CASE SignRequest
      <3>1. /\ req' = [election |-> job.election, key |-> rec[job.election].key]
            /\ rec[job.election].key \in engineKeys /\ UNCHANGED engineKeys
        BY <2>1 DEF SignRequest
      <3>2. QED
        BY <3>1
    <2>2. CASE SubmitTransaction
      BY <2>2 DEF SubmitTransaction
    <2>3. CASE pc' \notin {"submit", "confirm"}
      BY <2>3
    <2>4. QED
      BY <1>3, <2>1, <2>2, <2>3
      DEF JoinStep, StartJoin, SkipJoin, EndJoins, UseRecordedKeys, GetNewKeys, NoKeyMade,
          PrepareElection, ConfirmTransaction, AnswerLost, JoinEnds,
          JoinRaises, RecordElection, FailedJoinCleanup, PassRaises, NextSleep
  <1>4. CASE SaveStep
    BY <1>4 DEF SaveStep, TruncateFile, WriteFile, SaveRaises
  <1>5. CASE Operator \/ Crash
    BY <1>5 DEF Operator, Boot, RestartDead, RequestRestake, UnchangedProcess, Crash
  <1>6. CASE UNCHANGED vars
    BY <1>6 DEF vars
  <1>7. QED
    BY <1>1, <1>2, <1>3, <1>4, <1>5, <1>6 DEF Next, RoutineStep, ReadElectionIds

(* The key of a join was not bid with before, unless it is a restake.      *)
LEMMA JoinKeyStep ==
  ASSUME Provider = "cpp", TypeOK, PassShape, BidBacked, JoinedApart, KeysApart, NoSpareKeys, JoinKey,
         [Next]_vars
  PROVE  JoinKey'
  <1> DEFINE Spent(d, e) == InJoin(d) /\ rec[d].key \in bidKeys[e]
             Excused(d, e) == d = e /\ (pc = "record" \/ restakes[e] > 0 \/ e \in lost)
  <1>1. \A e \in Elections : bidKeys[e] \subseteq Keys /\ NoKey \notin bidKeys[e]
    BY KeysAssumption DEF BidBacked
  <1>2. \A d, e \in Elections : Spent(d, e) => Excused(d, e)
    BY DEF JoinKey
  <1>3. ASSUME NEW j \in Job, StartJoin(j), NEW d \in Elections, NEW e \in Elections, Spent(d, e)'
        PROVE  Excused(d, e)'
    <2>1. d = j.election /\ j \in todo /\ UNCHANGED <<bidKeys, restakes, active>>
      BY <1>3 DEF StartJoin, InJoin, outsideVars, chainVars, historyVars
    <2>2. rec'[d].key = rec[d].key
      BY <1>3, JoiningKey DEF StartJoin, TypeOK
    <2>3. rec[d].key \in bidKeys[e]
      BY <1>3, <2>1, <2>2
    <2>4. d \in active
      BY <1>1, <1>3, <2>3 DEF NoSpareKeys, InJoin, JoinLabels, StartJoin
    <2>5. restakes[d] > 0
      BY <2>1, <2>4 DEF JoinedApart
    <2>6. d = e
      BY <2>3, <2>4 DEF BidBacked, RecordMatchesBid, KeysApart, TypeOK
    <2>7. QED
      BY <2>1, <2>5, <2>6
  <1>4. ASSUME NEW k \in Keys \cup {NoKey}, GetNewKeys(k), NEW d \in Elections,
               NEW e \in Elections, Spent(d, e)'
        PROVE  FALSE
    <2>1. d = job.election /\ rec'[d].key = k /\ bidKeys' = bidKeys
      <3>1. d = job.election
        BY <1>4 DEF GetNewKeys, InJoin, passVars, joinVars
      <3>2. rec' = [rec EXCEPT ![d] = [rec[d] EXCEPT !.key = k]] /\ rec[d] \in Record
        BY <1>4, <3>1 DEF GetNewKeys, TypeOK
      <3>3. [rec[d] EXCEPT !.key = k].key = k
        BY <3>2, ChangedRecord
      <3>4. QED
        BY <1>4, <3>1, <3>2, <3>3 DEF GetNewKeys, chainVars, TypeOK
    <2>2. k \in FreshKeys
      BY <1>4 DEF GetNewKeys
    <2>3. k \notin bidKeys[e]
      BY <2>2 DEF FreshKeys
    <2>4. QED
      BY <1>4, <2>1, <2>3
  <1>5. ASSUME Bids, NEW d \in Elections, NEW e \in Elections, Spent(d, e)'
        PROVE  Excused(d, e)'
    <2>1. d = job.election /\ InJoin(d) /\ rec' = rec /\ restakes' = restakes
          /\ (pc' = "record" \/ (pc' = "fail" /\ d \in lost'))
      BY <1>5, BidNames DEF Bids, InJoin
    <2>2. CASE d = e
      BY <2>1, <2>2
    <2>3. CASE d # e
      <3>1. bidKeys'[e] = bidKeys[e]
        BY <1>5, <2>1, <2>3, BidNames DEF TypeOK
      <3>2. QED
        BY <1>2, <1>5, <2>1, <2>3, <3>1
    <2>4. QED
      BY <2>2, <2>3
  <1>6. CASE UNCHANGED <<rec, job, bidKeys>> /\ pc \in JoinLabels \ {"record"}
    <2>1. ASSUME NEW d \in Elections, NEW e \in Elections, Spent(d, e)' PROVE Excused(d, e)'
      <3>1. Excused(d, e)
        BY <1>2, <1>6, <2>1 DEF InJoin
      <3>2. QED
        BY <1>6, <3>1, HistoryGrows
    <2>2. QED
      BY <2>1 DEF JoinKey
  <1>7. CASE UNCHANGED <<rec, job, bidKeys, pc>>
    <2>1. ASSUME NEW d \in Elections, NEW e \in Elections, Spent(d, e)' PROVE Excused(d, e)'
      <3>1. Excused(d, e)
        BY <1>2, <1>7, <2>1 DEF InJoin
      <3>2. QED
        BY <1>7, <3>1, HistoryGrows
    <2>2. QED
      BY <2>1 DEF JoinKey
  <1>8. CASE pc' \notin JoinLabels
    BY <1>8 DEF JoinKey, InJoin
  <1>9. CASE Chain
    BY <1>7, <1>9 DEF Chain, OpenElection, CloseElection, Mature, CreditStake, UnchangedProcess,
       recordVars, passVars, joinVars
  <1>10. CASE CleanStep
    BY <1>8, <1>10
    DEF CleanStep, ScanActiveElections, CleanupDepoolElection, DepoolElectionsCleaned,
        RecoverStakes, NothingToRecover, RecoverRaises, LeaveForNextPass, ForgetRecovered,
        SelectElections, JoinLabels
  <1>11. CASE JoinStep
    <2>1. CASE SubmitTransaction \/ ConfirmTransaction \/ AnswerLost
      <3>1. CASE Bids
        BY <1>5, <3>1 DEF JoinKey
      <3>2. CASE ~Bids
        BY <1>6, <2>1, <3>2
        DEF SubmitTransaction, ConfirmTransaction, AnswerLost, Bids, JoinLabels, chainVars,
            recordVars, passVars, joinVars, historyVars
      <3>3. QED
        BY <3>1, <3>2
    <2>2. CASE UseRecordedKeys \/ NoKeyMade \/ PrepareElection \/ SignRequest \/ JoinRaises
      BY <1>6, <2>2
      DEF UseRecordedKeys, NoKeyMade, PrepareElection, SignRequest, JoinRaises, JoinLabels,
          outsideVars, chainVars, recordVars, passVars, joinVars
    <2>3. CASE \/ \E j \in Job : SkipJoin(j)
               \/ EndJoins \/ RecordElection \/ FailedJoinCleanup \/ PassRaises
      BY <1>8, <2>3
      DEF SkipJoin, EndJoins, RecordElection, FailedJoinCleanup, PassRaises, NextSleep, JoinLabels
    <2>4. CASE \E j \in Job : StartJoin(j)
      BY <1>3, <2>4 DEF JoinKey
    <2>5. CASE \E k \in Keys \cup {NoKey} : GetNewKeys(k)
      BY <1>4, <2>5 DEF JoinKey
    <2>6. QED
      BY <1>11, <2>1, <2>2, <2>3, <2>4, <2>5 DEF JoinStep
  <1>12. CASE SaveStep
    BY <1>8, <1>12 DEF SaveStep, TruncateFile, WriteFile, SaveRaises, JoinLabels
  <1>13. CASE Operator \/ Crash
    BY <1>8, <1>13 DEF Operator, Boot, RestartDead, RequestRestake, UnchangedProcess, Crash,
       JoinLabels
  <1>14. CASE UNCHANGED vars
    BY <1>7, <1>14 DEF vars, outsideVars, chainVars, recordVars, passVars, joinVars
  <1>15. QED
    BY <1>8, <1>9, <1>10, <1>11, <1>12, <1>13, <1>14
    DEF Next, RoutineStep, ReadElectionIds, JoinLabels

(* The engine loses a key only in the cleanup of an election that is due,  *)
(* or in that of a failed join.                                            *)
LEMMA EngineEffect ==
  ASSUME TypeOK, PassShape, [Next]_vars
  PROVE  \/ engineKeys \subseteq engineKeys'
         \/ /\ UNCHANGED <<stake, bidKeys>>
            /\ \E d \in Elections : /\ d \in finished \/ (pc = "fail" /\ d = job.election)
                                    /\ engineKeys' = engineKeys \ {rec[d].key}
  <1> USE DEF outsideVars
  <1>1. CASE Chain
    BY <1>1 DEF Chain, OpenElection, CloseElection, Mature, CreditStake
  <1>2. CASE CleanStep
    BY <1>2
    DEF CleanStep, ScanActiveElections, CleanupDepoolElection, DepoolElectionsCleaned,
        RecoverStakes, NothingToRecover, RecoverRaises, ForgetRecovered, SelectElections,
        CleanupElection, DeleteKeys, chainVars
  <1>3. CASE JoinStep
    <2>1. CASE FailedJoinCleanup
      BY <2>1
      DEF FailedJoinCleanup, CleanupElection, DeleteKeys, chainVars, PassShape, JoinLabels, Job
    <2>2. CASE \E k \in Keys \cup {NoKey} : GetNewKeys(k)
      BY <2>2 DEF GetNewKeys
    <2>3. QED
      BY <1>3, <2>1, <2>2
      DEF JoinStep, StartJoin, SkipJoin, EndJoins, UseRecordedKeys, NoKeyMade,
          PrepareElection, SignRequest, SubmitTransaction, ConfirmTransaction, AnswerLost,
          JoinRaises, RecordElection, PassRaises
  <1>4. CASE SaveStep
    BY <1>4 DEF SaveStep, TruncateFile, WriteFile, SaveRaises
  <1>5. CASE Operator \/ Crash
    BY <1>5 DEF Operator, Boot, RestartDead, RequestRestake, Crash
  <1>6. CASE UNCHANGED vars
    BY <1>6 DEF vars
  <1>7. QED
    BY <1>1, <1>2, <1>3, <1>4, <1>5, <1>6 DEF Next, RoutineStep, ReadElectionIds

(* A key that is deleted is not one of a stake that is kept.               *)
LEMMA DeletedIsNotLive ==
  ASSUME TypeOK, PassShape, BidBacked, KeysApart, JoinKey,
         NEW d \in Elections, d \in finished \/ (pc = "fail" /\ d = job.election),
         NEW e \in Elections \ (lost \cup matured), restakes[e] = 0
  PROVE  rec[d].key \notin bidKeys[e]
  <1>1. CASE d \in finished
    <2>1. d \in active /\ d # e
      BY <1>1 DEF TypeOK, PassShape
    <2>2. rec[d].key \in bidKeys[d] /\ bidKeys[d] \cap bidKeys[e] = {}
      BY <2>1 DEF BidBacked, RecordMatchesBid, KeysApart
    <2>3. QED
      BY <2>2
  <1>2. CASE pc = "fail" /\ d = job.election
    BY <1>2 DEF JoinKey, InJoin, JoinLabels
  <1>3. QED
    BY <1>1, <1>2

LEMMA LiveKeysStep ==
  ASSUME TypeOK, PassShape, BidBacked, KeysApart, JoinKey, SignedInEngine, TakenOrLate,
         LiveKeysKept, [Next]_vars
  PROVE  LiveKeysKept'
  <1> SUFFICES ASSUME NEW e \in Elections \ (lost' \cup matured'),
                      stake'[e] = "locked", restakes'[e] = 0
               PROVE  bidKeys'[e] \subseteq engineKeys'
    BY DEF LiveKeysKept
  <1>1. e \notin lost \cup matured /\ restakes[e] = 0
    <2>1. restakes[e] \in Nat /\ ~(restakes'[e] > 0)
      BY DEF TypeOK
    <2>2. QED
      BY <2>1, HistoryGrows
  <1>2. stake[e] = "locked" => bidKeys[e] \subseteq engineKeys
    BY <1>1 DEF LiveKeysKept
  <1>3. CASE Bids
    <2>1. bidKeys'[e] = IF e = job.election THEN bidKeys[e] \cup {rec[e].key} ELSE bidKeys[e]
      BY <1>3, BidNames DEF TypeOK
    <2>2. engineKeys' = engineKeys /\ (e = job.election => rec[e].key \in engineKeys)
      BY <1>3, BidNames DEF Bids, SignedInEngine
    <2>3. CASE stake[e] = "locked"
      BY <1>2, <2>1, <2>2, <2>3
    <2>4. CASE stake[e] # "locked"
      <3>1. e = job.election /\ phase[e] = "open" /\ stake[e] = "none"
        BY <1>3, <2>4, BidNames DEF TypeOK
      <3>2. bidKeys[e] = {}
        BY <3>1 DEF TakenOrLate
      <3>3. QED
        BY <2>1, <2>2, <3>1, <3>2
    <2>5. QED
      BY <2>3, <2>4
  <1>4. CASE Chain \/ PayCredits \/ UNCHANGED chainVars
    <2>1. stake[e] = "locked" /\ bidKeys'[e] = bidKeys[e]
      <3>1. stake[e] = "locked"
        BY <1>4 DEF Chain, OpenElection, CloseElection, Mature, CreditStake, PayCredits,
           chainVars, TypeOK
      <3>2. QED
        BY <1>4, <3>1, BidKeysOtherwise
    <2>2. bidKeys[e] \subseteq engineKeys
      BY <1>2, <2>1
    <2>3. ASSUME NEW d \in Elections, d \in finished \/ (pc = "fail" /\ d = job.election),
                 engineKeys' = engineKeys \ {rec[d].key}
          PROVE  bidKeys[e] \subseteq engineKeys'
      BY <1>1, <2>2, <2>3, DeletedIsNotLive
    <2>4. QED
      BY <2>1, <2>2, <2>3, EngineEffect
  <1>5. QED
    BY <1>3, <1>4, BidEffect

-------------------------------------------------------------------------------
(* Bids and what accounts for them.                                        *)

(* A join resets the flag before it starts.                                *)
LEMMA FlagsTakenStep ==
  ASSUME OneWay, TypeOK, PassShape, JoinedApart, FlagsTaken, [Next]_vars
  PROVE  FlagsTaken'
  <1> DEFINE Joined(e) == InJoin(e) \/ \E j \in todo : j.election = e
  <1> USE DEF InJoin, JoinLabels, joinVars, recordVars, passVars, outsideVars
  <1>1. ASSUME \A e \in Elections : Joined(e)' => Joined(e) /\ (rec'[e].restake => rec[e].restake)
        PROVE  FlagsTaken'
    BY <1>1 DEF FlagsTaken
  <1>2. ASSUME \A e \in Elections : ~Joined(e)' PROVE FlagsTaken'
    BY <1>2 DEF FlagsTaken
  <1>3. CASE Chain
    BY <1>1, <1>3 DEF Chain, OpenElection, CloseElection, Mature, CreditStake, UnchangedProcess
  <1>4. CASE CleanStep
    <2>1. CASE SelectElections
      <3>1. /\ todo' = [via : ViasOf(mode), election : ToJoin(seen)] /\ pc' \notin JoinLabels
            /\ \A e \in Elections : e \in ToJoin(seen) => rec'[e] = FlagReset(rec[e])
        BY <2>1 DEF SelectElections
      <3>2. \A e \in Elections : Joined(e)' => e \in ToJoin(seen)
        BY <3>1
      <3>3. ASSUME NEW e \in Elections, e \in ToJoin(seen) PROVE rec'[e].restake = FALSE
        <4>1. rec[e] \in Record /\ rec'[e] = FlagReset(rec[e])
          BY <3>1, <3>3 DEF TypeOK
        <4>2. FlagReset(rec[e]).restake = FALSE
          BY <4>1 DEF FlagReset, Record
        <4>3. QED
          BY <4>1, <4>2
      <3>4. QED
        BY <3>2, <3>3 DEF FlagsTaken
    <2>2. CASE pc \notin JoinLabels /\ pc' \notin JoinLabels /\ todo = {} /\ UNCHANGED todo
      BY <1>2, <2>2
    <2>3. QED
      BY <1>4, <2>1, <2>2
      DEF CleanStep, ScanActiveElections, CleanupDepoolElection, DepoolElectionsCleaned,
          RecoverStakes, NothingToRecover, RecoverRaises, LeaveForNextPass, ForgetRecovered,
          JoinedApart
  <1>5. CASE JoinStep
    <2>1. \A e \in Elections : Joined(e)' => Joined(e)
      BY <1>5
      DEF JoinStep, StartJoin, SkipJoin, EndJoins, UseRecordedKeys, GetNewKeys, NoKeyMade,
          PrepareElection, SignRequest, SubmitTransaction, ConfirmTransaction, AnswerLost,
          JoinRaises, RecordElection, FailedJoinCleanup, PassRaises, ForgetJoins, NextSleep
    <2>2. \A e \in Elections : rec'[e].restake => rec[e].restake
      <3>1. ~Boot
        BY <1>5
        DEF Boot, JoinStep, StartJoin, SkipJoin, EndJoins, UseRecordedKeys, GetNewKeys, NoKeyMade,
            PrepareElection, SignRequest, SubmitTransaction, ConfirmTransaction, AnswerLost,
            JoinRaises, RecordElection, FailedJoinCleanup, PassRaises
      <3>2. QED
        BY <3>1, RecordEffect, BlankFields
    <2>3. QED
      BY <1>1, <2>1, <2>2
  <1>6. CASE SaveStep
    BY <1>2, <1>6 DEF SaveStep, TruncateFile, WriteFile, SaveRaises, JoinedApart
  <1>7. CASE Operator \/ Crash
    BY <1>2, <1>7 DEF Operator, Boot, RestartDead, RequestRestake, UnchangedProcess, Crash,
       ForgetJoins, JoinedApart
  <1>8. CASE UNCHANGED vars
    BY <1>1, <1>8 DEF vars
  <1>9. ASSUME NEW ids, ReadElectionIds(ids) PROVE FlagsTaken'
    BY <1>2, <1>9 DEF ReadElectionIds, JoinedApart
  <1>10. QED
    BY <1>3, <1>4, <1>5, <1>6, <1>7, <1>8, <1>9 DEF Next, RoutineStep

(* What is settled stays settled, but for the end of the process.          *)
LEMMA SettledStep ==
  ASSUME TypeOK, PassShape, [Next]_vars, NEW e \in Elections \ matured, Settled(e)
  PROVE  Settled(e)' \/ faults < faults'
  <1> USE DEF InJoin, JoinLabels, joinVars, recordVars, passVars, outsideVars
  <1>1. CASE Chain
    BY <1>1
    DEF Settled, Chain, OpenElection, CloseElection, Mature, CreditStake, UnchangedProcess
  <1>2. ASSUME rec'[e].restake => rec[e].restake, UNCHANGED todo,
               pc \notin JoinLabels, pc' \notin JoinLabels, e \in active => e \in active'
        PROVE  Settled(e)'
    BY <1>2 DEF Settled
  <1>3. ASSUME NEW ids, rec' = Recorded(ids) PROVE rec'[e].restake => rec[e].restake
    BY <1>3, BlankFields
  <1>4. CASE CleanStep
    <2>1. CASE SelectElections
      <3>1. e \in active /\ ~rec[e].restake /\ pc' \notin JoinLabels
        BY <2>1 DEF SelectElections, Settled
      <3>2. e \notin ToJoin(seen) /\ rec'[e] = rec[e]
        BY <2>1, <3>1 DEF SelectElections, ToJoin
      <3>3. \A j \in todo' : j.election # e
        BY <2>1, <3>2 DEF SelectElections
      <3>4. QED
        BY <2>1, <3>1, <3>2, <3>3 DEF SelectElections, Settled
    <2>2. ASSUME NEW d \in Elections, CleanupDepoolElection(d) \/ ForgetRecovered(d)
          PROVE  Settled(e)'
      <3>1. d # e
        BY <2>2 DEF CleanupDepoolElection, ForgetRecovered, PassShape
      <3>2. QED
        BY <1>2, <1>3, <2>2, <3>1
        DEF CleanupDepoolElection, ForgetRecovered, CleanupElection
    <2>3. QED
      BY <1>2, <1>4, <2>1, <2>2
      DEF CleanStep, ScanActiveElections, DepoolElectionsCleaned, RecoverStakes,
          NothingToRecover, RecoverRaises, LeaveForNextPass
  <1>5. CASE JoinStep
    <2>1. rec'[e].restake => rec[e].restake
      <3>1. ~Boot
        BY <1>5
        DEF Boot, JoinStep, StartJoin, SkipJoin, EndJoins, UseRecordedKeys, GetNewKeys, NoKeyMade,
            PrepareElection, SignRequest, SubmitTransaction, ConfirmTransaction, AnswerLost,
            JoinRaises, RecordElection, FailedJoinCleanup, PassRaises
      <3>2. QED
        BY <3>1, RecordEffect, BlankFields
    <2>2. ASSUME NEW j \in Job, StartJoin(j) \/ SkipJoin(j) PROVE Settled(e)'
      BY <2>1, <2>2 DEF StartJoin, SkipJoin, Settled
    <2>3. CASE RecordElection
      BY <2>1, <2>3, ElectionsAssumption DEF RecordElection, Appended, Settled, NoJob
    <2>4. CASE FailedJoinCleanup
      BY <2>1, <2>4, ElectionsAssumption
      DEF FailedJoinCleanup, CleanupElection, ForgetJoins, Settled, NoJob
    <2>5. CASE PassRaises
      BY <2>1, <2>5 DEF PassRaises, ForgetJoins, NextSleep, Settled
    <2>6. CASE EndJoins
      BY <2>1, <2>6 DEF EndJoins, Settled
    <2>7. CASE UNCHANGED <<active, job, todo>> /\ pc \in JoinLabels /\ pc' \in JoinLabels
               /\ pc # "record"
      BY <2>1, <2>7 DEF Settled
    <2>8. QED
      BY <1>5, <2>2, <2>3, <2>4, <2>5, <2>6, <2>7
      DEF JoinStep, UseRecordedKeys, GetNewKeys, NoKeyMade, PrepareElection, SignRequest,
          SubmitTransaction, ConfirmTransaction, AnswerLost, JoinRaises, JoinEnds
  <1>6. CASE SaveStep
    BY <1>2, <1>3, <1>6 DEF SaveStep, TruncateFile, WriteFile, SaveRaises
  <1>7. CASE Operator \/ Crash
    <2>1. CASE Crash
      BY <2>1 DEF Crash, TypeOK
    <2>2. CASE Operator
      BY <2>2
      DEF Operator, Boot, RestartDead, RequestRestake, UnchangedProcess, Settled, PassShape
    <2>3. QED
      BY <1>7, <2>1, <2>2
  <1>8. CASE UNCHANGED vars
    BY <1>8 DEF Settled, vars
  <1>9. ASSUME NEW ids, ReadElectionIds(ids) PROVE Settled(e)'
    BY <1>2, <1>9 DEF ReadElectionIds
  <1>10. QED
    BY <1>1, <1>4, <1>5, <1>6, <1>7, <1>8, <1>9 DEF Next, RoutineStep

(* A bid settles its election, or its answer was lost.                     *)
LEMMA SettledBidsStep ==
  ASSUME OneWay, TypeOK, PassShape, JoinedApart, FlagsTaken, SettledBids, [Next]_vars
  PROVE  SettledBids'
  <1> SUFFICES ASSUME NEW e \in Elections \ matured'
               PROVE  \/ bids'[e] <= restakes'[e] + faults'
                      \/ Settled(e)' /\ bids'[e] <= 1 + restakes'[e] + faults'
    BY DEF SettledBids
  <1>1. /\ e \notin matured /\ restakes[e] <= restakes'[e] /\ faults <= faults'
        /\ {bids[e], restakes[e], faults, bids'[e], restakes'[e], faults'} \subseteq Nat
    BY HistoryGrows, TypeStep DEF TypeOK
  <1>2. \/ bids[e] <= restakes[e] + faults
        \/ Settled(e) /\ bids[e] <= 1 + restakes[e] + faults
    BY <1>1 DEF SettledBids
  <1>3. CASE bids'[e] = bids[e]
    BY <1>1, <1>2, <1>3, SettledStep
  <1>4. CASE Bids /\ e = job.election
    <2>1. bids'[e] = bids[e] + 1
      BY <1>1, <1>4, BidNames DEF Bids, ExecuteBid, TypeOK
    <2>2. InJoin(e) /\ pc # "record"
      BY <1>4, BidNames DEF Bids
    <2>3. bids[e] <= restakes[e] + faults
      BY <1>2, <2>2 DEF Settled
    <2>4. CASE pc' = "record"
      <3>1. Settled(e)'
        BY <1>4, <2>2, <2>4 DEF Bids, Settled, FlagsTaken, JoinedApart
      <3>2. QED
        BY <1>1, <2>1, <2>3, <3>1
    <2>5. CASE faults' = faults + 1
      BY <1>1, <2>1, <2>3, <2>5
    <2>6. QED
      BY <1>4, <2>4, <2>5 DEF Bids
  <1>5. CASE Bids /\ e # job.election
    <2>1. bids'[e] = bids[e]
      BY <1>5, BidNames DEF Bids, ExecuteBid, TypeOK
    <2>2. QED
      BY <1>3, <2>1
  <1>6. CASE Chain \/ PayCredits \/ UNCHANGED chainVars
    <2>1. bids' = bids
      BY <1>6 DEF Chain, OpenElection, CloseElection, Mature, CreditStake, PayCredits, chainVars
    <2>2. QED
      BY <1>3, <2>1
  <1>7. QED
    BY <1>4, <1>5, <1>6, BidEffect

LEMMA OneWayStep ==
  ASSUME OneWay, OneWayInv, [Next]_vars PROVE OneWayInv'
  <1>1. TypeOK /\ PassShape /\ BidBacked /\ FlagsAsked /\ JoinedApart /\ FlagsTaken /\ SettledBids
    BY DEF OneWayInv, IInv
  <1>2. IInv'
    BY <1>1, TypeStep, ShapeStep, BackedStep DEF IInv
  <1>3. FlagsAsked' /\ JoinedApart'
    BY <1>1, FlagsStep, ApartStep
  <1>4. FlagsTaken' /\ SettledBids'
    BY <1>1, FlagsTakenStep, SettledBidsStep
  <1>5. QED
    BY <1>2, <1>3, <1>4 DEF OneWayInv

-------------------------------------------------------------------------------
(* The theorems.                                                           *)

(* Whether an election's next bid takes a fault or a restake accounts for  *)
(* its bids, in an inductive invariant.                                    *)
THEOREM OneWayInvariance == ASSUME OneWay PROVE Spec => []OneWayInv
  <1>1. ASSUME OneWayInv, [Next]_vars PROVE OneWayInv'
    BY <1>1, OneWayStep
  <1>2. QED
    BY InitOneWay, <1>1, PTL DEF Spec

(* With one way to stake, no order of passes, failures and saves bids      *)
(* twice for an election on its own.                                       *)
THEOREM BidsAreAccountedFor == ASSUME OneWay PROVE Spec => []BidsAccountedFor
  <1>1. OneWayInv => BidsAccountedFor
    <2>1. SUFFICES ASSUME OneWayInv, NEW e \in Elections \ matured
                   PROVE  bids[e] <= 1 + restakes[e] + faults
      BY DEF BidsAccountedFor
    <2>2. bids[e] \in Nat /\ restakes[e] \in Nat /\ faults \in Nat
      BY <2>1 DEF OneWayInv, IInv, TypeOK
    <2>3. QED
      BY <2>1, <2>2 DEF OneWayInv, SettledBids
  <1>2. QED
    BY OneWayInvariance, <1>1, PTL

(* On a C++ node, LiveInv strengthens it to one that keeps the keys.       *)
THEOREM KeysInvariance == ASSUME OneWay, Provider = "cpp" PROVE Spec => []LiveInv
  <1>1. ASSUME LiveInv, [Next]_vars PROVE LiveInv'
    <2>1. /\ OneWayInv /\ TypeOK /\ PassShape /\ BidBacked /\ JoinedApart /\ FlagsAsked /\ Opened
          /\ KeysApart /\ NoSpareKeys /\ JoinKey /\ SignedInEngine /\ TakenOrLate /\ LiveKeysKept
      BY <1>1 DEF LiveInv, OneWayInv, IInv
    <2>2. OneWayInv' /\ Opened'
      BY <1>1, <2>1, OneWayStep, OpenedStep
    <2>3. KeysApart' /\ NoSpareKeys' /\ JoinKey'
      BY <1>1, <2>1, KeysApartStep, SpareKeysStep, JoinKeyStep
    <2>4. SignedInEngine' /\ TakenOrLate' /\ LiveKeysKept'
      BY <1>1, <2>1, SignedStep, TakenStep, LiveKeysStep
    <2>5. QED
      BY <2>2, <2>3, <2>4 DEF LiveInv
  <1>2. QED
    BY InitLive, <1>1, PTL DEF Spec

(* The engine keeps the keys of every stake the elector holds until the    *)
(* election is due, whatever crashes, unless an answer was lost or a       *)
(* restake was asked for.                                                  *)
THEOREM KeysOfStakesStay == ASSUME OneWay, Provider = "cpp" PROVE Spec => []LiveKeysKept
  <1>1. LiveInv => LiveKeysKept
    BY DEF LiveInv
  <1>2. QED
    BY KeysInvariance, <1>1, PTL
===============================================================================
