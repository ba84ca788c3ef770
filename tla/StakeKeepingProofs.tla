--------------------------- MODULE StakeKeepingProofs ---------------------------
(***************************************************************************)
(* ElectionsRoutine keeps account of its stakes as StakeKeeping promises:  *)
(* for every set of elections and keys and both providers, as long as      *)
(* nothing crashes or gets lost, the wallet is our own, stakes are sent    *)
(* directly and the elector credits them before their reward time.  The    *)
(* custodians and crash runs show what is lost when one of these fails.    *)
(*                                                                         *)
(* The inductive invariant adds Kept to that of ElectionsRoutineProofs:    *)
(* joins still to do are of elections without a record, and an election    *)
(* that is being forgotten has been paid.                                  *)
(***************************************************************************)
EXTENDS ElectionsRoutineProofs

\* The circumstances the promise is made under.
Undisturbed ==
    /\ MaxFaults = 0 /\ MaxRestakes = 0
    /\ Modes \subseteq {"off", "validator"}
    /\ Prompt /\ ~Custodians

(* Records are neither marked nor of a depool.                             *)
Direct(r) == r.restake = FALSE /\ r.mode # "depool"

DirectRecords == \A e \in Elections : Direct(rec[e]) /\ Direct(file[e])

(* The process starts once.                                                *)
OneStart ==
    /\ pc \notin {"dead", "confirm"}
    /\ pc = "down" => fileState = "absent" /\ saved = {}

(* The reward time finds the stake back.                                   *)
PaidInTime == \A e \in matured : phase[e] = "closed" /\ stake[e] # "locked"

PaidWhenForgotten == pc = "forget" => \A e \in finished : stake[e] # "credited"

(* What is to be joined, or being joined, has no record.                   *)
JoinedOnce ==
    /\ \A j \in todo : j.via = Wallet /\ j.election \notin active
    /\ pc \in JoinLabels => /\ job.election \notin active
                            /\ \A j \in todo : j.election # job.election

Kept == DirectRecords /\ OneStart /\ PaidInTime /\ PaidWhenForgotten /\ JoinedOnce /\ StakeTracked

KInv == IInv /\ Kept

-------------------------------------------------------------------------------
LEMMA InitKept == ASSUME Undisturbed, Init PROVE Kept
  BY DEF Init, Kept, DirectRecords, Direct, OneStart, PaidInTime, PaidWhenForgotten,
     JoinedOnce, StakeTracked, JoinLabels, Blanks, Blank

(* There are no faults to happen.                                          *)
LEMMA NoFaults ==
  ASSUME Undisturbed, TypeOK
  PROVE  /\ ~(faults < MaxFaults)
         /\ \A e \in Elections : ~(restakes[e] < MaxRestakes)
         /\ mode # "depool"
  BY DEF Undisturbed, TypeOK

(* Setting a field leaves a record of no depool as it was.                 *)
LEMMA StillDirect ==
  ASSUME Undisturbed, NEW r \in Record, Direct(r)
  PROVE  /\ Direct(FlagReset(r))
         /\ \A k : Direct([r EXCEPT !.key = k])
         /\ \A n : Direct([r EXCEPT !.staked = n])
         /\ \A v : mode # "depool" => Direct(Joining(r, v)) /\ Direct([r EXCEPT !.mode = mode])
  BY DEF Direct, FlagReset, Joining, Record

(* So does dropping records.                                               *)
LEMMA RecordedDirect ==
  ASSUME NEW ids, DirectRecords
  PROVE  \A e \in Elections : Direct(Recorded(ids)[e])
  BY DEF DirectRecords, Direct, Recorded, Blank

-------------------------------------------------------------------------------
(* The records stay direct.                                                *)
LEMMA DirectStep ==
  ASSUME Undisturbed, TypeOK, PassShape, DirectRecords, [Next]_vars
  PROVE  DirectRecords'
  <1> USE NoFaults DEF chainVars, diskVars, joinVars, recordVars, passVars, outsideVars, historyVars
  <1>1. CASE UNCHANGED <<rec, file>>
    BY <1>1 DEF DirectRecords, Direct
  <1>2. CASE Boot \/ WriteFile
    BY <1>2, RecordedDirect DEF Boot, WriteFile, DirectRecords, Direct
  <1>3. CASE TruncateFile
    BY <1>3 DEF TruncateFile, DirectRecords, Direct, Blanks, Blank
  <1>3a. CASE FailedJoinCleanup \/ PassRaises
    BY <1>3a, RecordedDirect
    DEF FailedJoinCleanup, PassRaises, CleanupElection, DirectRecords, Direct
  <1>4. ASSUME NEW e \in Elections, CleanupDepoolElection(e) \/ ForgetRecovered(e)
        PROVE  DirectRecords'
    BY <1>4, RecordedDirect
    DEF CleanupDepoolElection, ForgetRecovered, CleanupElection, DirectRecords, Direct
  <1>5. CASE SelectElections
    BY <1>5, StillDirect DEF SelectElections, DirectRecords, Direct, TypeOK
  <1>6. ASSUME NEW j \in Job, StartJoin(j) \/ SkipJoin(j) PROVE DirectRecords'
    <2>1. /\ rec \in [Elections -> Record] /\ j.election \in Elections
          /\ Direct(rec[j.election])
      BY DEF TypeOK, Job, DirectRecords
    <2>2. /\ Direct(Joining(rec[j.election], j.via))
          /\ Direct([rec[j.election] EXCEPT !.mode = mode])
      BY <2>1, StillDirect
    <2>3. \/ rec' = rec
          \/ rec' = [rec EXCEPT ![j.election] = Joining(rec[j.election], j.via)]
          \/ rec' = [rec EXCEPT ![j.election] = [rec[j.election] EXCEPT !.mode = mode]]
      BY <1>6 DEF StartJoin, SkipJoin
    <2>4. UNCHANGED file
      BY <1>6 DEF StartJoin, SkipJoin
    <2>5. QED
      BY <2>1, <2>2, <2>3, <2>4 DEF DirectRecords
  <1>7. ASSUME NEW k, GetNewKeys(k) PROVE DirectRecords'
    <2>1. /\ rec \in [Elections -> Record] /\ job.election \in Elections
          /\ Direct(rec[job.election])
      BY <1>7 DEF GetNewKeys, PassShape, JoinLabels, TypeOK, Job, DirectRecords
    <2>2. Direct([rec[job.election] EXCEPT !.key = k])
      BY <2>1, StillDirect
    <2>3. /\ rec' = [rec EXCEPT ![job.election] = [rec[job.election] EXCEPT !.key = k]]
          /\ UNCHANGED file
      BY <1>7 DEF GetNewKeys
    <2>4. QED
      BY <2>1, <2>2, <2>3 DEF DirectRecords
  <1>8. CASE RecordElection
    <2>1. /\ rec \in [Elections -> Record] /\ job.election \in Elections
          /\ Direct(rec[job.election])
      BY <1>8 DEF RecordElection, PassShape, JoinLabels, TypeOK, Job, DirectRecords
    <2>2. Direct([rec[job.election] EXCEPT !.staked = rec[job.election].staked])
      BY <2>1, StillDirect
    <2>3. /\ rec' = [rec EXCEPT ![job.election] =
                        [rec[job.election] EXCEPT !.staked = rec[job.election].staked]]
          /\ UNCHANGED file
      BY <1>8 DEF RecordElection
    <2>4. QED
      BY <2>1, <2>2, <2>3 DEF DirectRecords
  <1>9. CASE Chain
    BY <1>1, <1>9 DEF Chain, OpenElection, CloseElection, Mature, CreditStake, UnchangedProcess
  <1>10. CASE CleanStep
    BY <1>1, <1>4, <1>5, <1>10
    DEF CleanStep, ScanActiveElections, DepoolElectionsCleaned, RecoverStakes, NothingToRecover,
        RecoverRaises
  <1>11. CASE JoinStep
    BY <1>1, <1>3a, <1>6, <1>7, <1>8, <1>11
    DEF JoinStep, EndJoins, UseRecordedKeys, NoKeyMade, PrepareElection, SignRequest,
        SubmitTransaction, ConfirmTransaction, AnswerLost, JoinRaises
  <1>12. CASE SaveStep
    BY <1>2, <1>3, <1>12 DEF SaveStep, SaveRaises
  <1>13. CASE Operator \/ Crash
    BY <1>1, <1>2, <1>13 DEF Operator, RestartDead, RequestRestake, Crash
  <1>14. CASE UNCHANGED vars
    BY <1>1, <1>14 DEF vars
  <1>15. QED
    BY <1>1, <1>9, <1>10, <1>11, <1>12, <1>13, <1>14 DEF Next, RoutineStep, ReadElectionIds

-------------------------------------------------------------------------------
(* The variables the rest of the invariant speaks of, step by step.        *)

(* The file and the thread.                                                *)
LEMMA StartStep ==
  ASSUME Undisturbed, TypeOK, OneStart, [Next]_vars
  PROVE  OneStart'
  <1> USE NoFaults DEF OneStart, chainVars, diskVars, joinVars, recordVars, passVars,
          outsideVars, historyVars
  <1>1. CASE Chain
    BY <1>1 DEF Chain, OpenElection, CloseElection, Mature, CreditStake, UnchangedProcess
  <1>2. CASE CleanStep
    BY <1>2
    DEF CleanStep, ScanActiveElections, CleanupDepoolElection, DepoolElectionsCleaned,
        RecoverStakes, NothingToRecover, RecoverRaises, LeaveForNextPass, ForgetRecovered,
        SelectElections
  <1>3. CASE JoinStep
    BY <1>3
    DEF Undisturbed, JoinStep, StartJoin, SkipJoin, EndJoins, UseRecordedKeys, GetNewKeys,
        NoKeyMade, PrepareElection, SignRequest, SubmitTransaction, ConfirmTransaction,
        AnswerLost, JoinRaises, JoinEnds, RecordElection, FailedJoinCleanup, PassRaises, NextSleep
  <1>4. CASE SaveStep
    BY <1>4 DEF SaveStep, TruncateFile, WriteFile, SaveRaises
  <1>5. CASE Operator \/ Crash
    BY <1>5 DEF Operator, Boot, RestartDead, RequestRestake, Crash
  <1>6. CASE UNCHANGED vars
    BY <1>6 DEF vars
  <1>7. QED
    BY <1>1, <1>2, <1>3, <1>4, <1>5, <1>6 DEF Next, RoutineStep, ReadElectionIds

(* What the chain does.                                                    *)
LEMMA ChainEffect ==
  ASSUME Undisturbed, TypeOK, PassShape, OneStart, [Next]_vars
  PROVE  \/ Chain
         \/ pc = "recover" /\ PayCredits /\ pc' = "forget" /\ UNCHANGED <<active, job, finished>>
         \/ pc = "submit" /\ ExecuteBid(req) /\ pc' = "record" /\ UNCHANGED <<active, job, finished>>
         \/ UNCHANGED chainVars
  <1> USE NoFaults DEF diskVars, joinVars, recordVars, passVars, outsideVars, historyVars
  <1>1. CASE CleanStep
    BY <1>1
    DEF Undisturbed, CleanStep, ScanActiveElections, CleanupDepoolElection,
        DepoolElectionsCleaned, RecoverStakes, NothingToRecover, RecoverRaises, ForgetRecovered,
        SelectElections, chainVars
  <1>2. CASE JoinStep
    BY <1>2
    DEF Undisturbed, OneStart, JoinStep, StartJoin, SkipJoin, EndJoins, UseRecordedKeys, GetNewKeys,
        NoKeyMade, PrepareElection, SignRequest, SubmitTransaction, ConfirmTransaction,
        AnswerLost, JoinRaises, RecordElection, FailedJoinCleanup, PassRaises
  <1>3. CASE SaveStep
    BY <1>3 DEF SaveStep, TruncateFile, WriteFile, SaveRaises
  <1>4. CASE Operator \/ Crash
    BY <1>4 DEF Operator, Boot, RestartDead, RequestRestake, Crash
  <1>5. CASE UNCHANGED vars
    BY <1>5 DEF vars
  <1>6. QED
    BY <1>1, <1>2, <1>3, <1>4, <1>5 DEF Next, RoutineStep, ReadElectionIds

(* A stake is locked in an open election only, and an election that is due *)
(* is closed.                                                              *)
LEMMA PaidStep ==
  ASSUME Undisturbed, TypeOK, PassShape, OneStart, PaidInTime, [Next]_vars
  PROVE  PaidInTime'
  <1> USE DEF PaidInTime, TypeOK
  <1>1. ASSUME NEW e \in Elections,
               OpenElection(e) \/ CloseElection(e) \/ Mature(e) \/ CreditStake(e)
        PROVE  PaidInTime'
    BY <1>1 DEF Undisturbed, OpenElection, CloseElection, Mature, CreditStake
  <1>2. CASE PayCredits
    BY <1>2 DEF PayCredits
  <1>3. CASE pc = "submit" /\ ExecuteBid(req)
    BY <1>3 DEF ExecuteBid, PassShape, Request
  <1>4. CASE UNCHANGED chainVars
    BY <1>4 DEF chainVars
  <1>5. QED
    BY <1>1, <1>2, <1>3, <1>4, ChainEffect DEF Chain

(* While records are forgotten nothing else happens but on the chain.      *)
LEMMA ForgetEffect ==
  ASSUME Undisturbed, TypeOK, [Next]_vars, pc' = "forget"
  PROVE  \/ Chain
         \/ pc = "recover" /\ PayCredits
         \/ pc = "forget" /\ finished' \subseteq finished /\ UNCHANGED chainVars
  <1> USE NoFaults DEF joinVars, recordVars, passVars, outsideVars
  <1>1. CASE CleanStep
    BY <1>1
    DEF Undisturbed, CleanStep, ScanActiveElections, CleanupDepoolElection, DepoolElectionsCleaned,
        RecoverStakes, NothingToRecover, RecoverRaises, LeaveForNextPass, ForgetRecovered, Done,
        SelectElections
  <1>2. CASE JoinStep
    BY <1>2
    DEF JoinStep, StartJoin, SkipJoin, EndJoins, UseRecordedKeys, GetNewKeys,
        NoKeyMade, PrepareElection, SignRequest, SubmitTransaction, ConfirmTransaction,
        AnswerLost, JoinRaises, JoinEnds, RecordElection, FailedJoinCleanup, PassRaises, NextSleep
  <1>3. CASE SaveStep
    BY <1>3 DEF SaveStep, TruncateFile, WriteFile, SaveRaises
  <1>4. CASE Operator \/ Crash
    BY <1>4 DEF Operator, Boot, RestartDead, RequestRestake, UnchangedProcess, Crash
  <1>5. CASE UNCHANGED vars
    BY <1>5 DEF vars
  <1>6. QED
    BY <1>1, <1>2, <1>3, <1>4, <1>5 DEF Next, RoutineStep, ReadElectionIds

(* What is forgotten is due, so that no credit comes after the payment.    *)
LEMMA ForgottenStep ==
  ASSUME Undisturbed, TypeOK, PassShape, PaidInTime, PaidWhenForgotten, [Next]_vars
  PROVE  PaidWhenForgotten'
  <1> SUFFICES ASSUME pc' = "forget" PROVE \A e \in finished' : stake'[e] # "credited"
    BY DEF PaidWhenForgotten
  <1>1. finished \subseteq matured /\ finished \subseteq Elections
    BY DEF PassShape, TypeOK
  <1>2. CASE Chain
    <2>1. UNCHANGED <<pc, finished>>
      BY <1>2 DEF Chain, OpenElection, CloseElection, Mature, CreditStake, UnchangedProcess,
         passVars
    <2>2. \A e \in Elections : stake'[e] # stake[e] => stake[e] = "locked"
      BY <1>2 DEF Chain, OpenElection, CloseElection, Mature, CreditStake, TypeOK
    <2>3. QED
      BY <1>1, <2>1, <2>2 DEF PaidWhenForgotten, PaidInTime
  <1>3. CASE pc = "recover" /\ PayCredits
    <2>1. finished' \subseteq Elections
      BY <1>3, TypeStep DEF TypeOK
    <2>2. QED
      BY <1>3, <2>1 DEF PayCredits
  <1>4. CASE pc = "forget" /\ finished' \subseteq finished /\ UNCHANGED chainVars
    BY <1>4 DEF PaidWhenForgotten, chainVars
  <1>5. QED
    BY <1>2, <1>3, <1>4, ForgetEffect

-------------------------------------------------------------------------------
(* Joins.                                                                  *)

(* With direct stakes only, an election is joined one way.                 *)
LEMMA SelectedOnce ==
  ASSUME Undisturbed, TypeOK, DirectRecords, SelectElections
  PROVE  \A j \in todo' : j.via = Wallet /\ j.election \notin active
  <1>1. ViasOf(mode) \subseteq {Wallet}
    BY NoFaults DEF ViasOf
  <1>2. \A e \in ToJoin(seen) : e \notin active
    BY DEF ToJoin, TypeOK, DirectRecords, Direct
  <1>3. QED
    BY <1>1, <1>2 DEF SelectElections

(* The jobs of a join.                                                     *)
LEMMA JoinedStep ==
  ASSUME Undisturbed, TypeOK, PassShape, DirectRecords, OneStart, JoinedOnce, [Next]_vars
  PROVE  JoinedOnce'
  <1> USE NoFaults DEF JoinedOnce, JoinLabels, joinVars, recordVars, passVars, outsideVars
  <1>1. CASE Chain
    BY <1>1 DEF Chain, OpenElection, CloseElection, Mature, CreditStake, UnchangedProcess
  <1>2. CASE CleanStep
    <2>1. CASE SelectElections
      BY <2>1, SelectedOnce DEF SelectElections
    <2>2. CASE ~SelectElections
      BY <1>2, <2>2
      DEF CleanStep, ScanActiveElections, CleanupDepoolElection, DepoolElectionsCleaned,
          RecoverStakes, NothingToRecover, RecoverRaises, LeaveForNextPass, ForgetRecovered,
          CleanupElection
    <2>3. QED
      BY <2>1, <2>2
  <1>3. CASE JoinStep
    <2>1. ASSUME NEW j \in Job, StartJoin(j) PROVE JoinedOnce'
      <3>1. \A i \in todo : i.election = j.election => i = j
        <4>1. \A i \in todo : i \in Job /\ i.via = j.via
          BY <2>1 DEF StartJoin, TypeOK
        <4>2. QED
          BY <4>1 DEF Job
      <3>2. QED
        BY <2>1, <3>1 DEF StartJoin
    <2>2. ASSUME NEW j \in Job, SkipJoin(j) PROVE JoinedOnce'
      BY <2>2 DEF SkipJoin
    <2>3. CASE RecordElection
      BY <2>3 DEF RecordElection, Appended
    <2>4. CASE FailedJoinCleanup \/ PassRaises
      BY <2>4 DEF FailedJoinCleanup, CleanupElection, PassRaises, ForgetJoins, NextSleep
    <2>5. CASE EndJoins
      BY <2>5 DEF EndJoins
    <2>6. CASE UNCHANGED <<todo, job, active>> /\ pc \in JoinLabels
      BY <2>6
    <2>7. QED
      BY <1>3, <2>1, <2>2, <2>3, <2>4, <2>5, <2>6
      DEF JoinStep, UseRecordedKeys, GetNewKeys, NoKeyMade, PrepareElection, SignRequest,
          SubmitTransaction, ConfirmTransaction, AnswerLost, JoinRaises
  <1>4. CASE SaveStep
    BY <1>4 DEF SaveStep, TruncateFile, WriteFile, SaveRaises
  <1>5. CASE Operator \/ Crash
    BY <1>5 DEF OneStart, Operator, Boot, RestartDead, RequestRestake, UnchangedProcess, Crash
  <1>6. CASE UNCHANGED vars
    BY <1>6 DEF vars
  <1>7. QED
    BY <1>1, <1>2, <1>3, <1>4, <1>5, <1>6 DEF Next, RoutineStep, ReadElectionIds

-------------------------------------------------------------------------------
(* The stakes and the records.                                             *)

Owed == {e \in Elections : stake[e] \in {"locked", "credited"}}
InHand == active \cup IF pc = "record" THEN {job.election} ELSE {}

LEMMA TrackedIsInHand == StakeTracked <=> Owed \subseteq InHand
  BY DEF StakeTracked, Owed, InHand

(* What a step that is not on the chain does to the records.               *)
LEMMA HandEffect ==
  ASSUME Undisturbed, TypeOK, PassShape, DirectRecords, OneStart, JoinedOnce, [Next]_vars
  PROVE  \/ UNCHANGED InHand
         \/ /\ pc = "submit" /\ ExecuteBid(req) /\ job.election \notin active
            /\ job.election \in Elections /\ req.election = job.election
            /\ InHand = active /\ InHand' = active \cup {job.election}
         \/ /\ UNCHANGED chainVars
            /\ \E e \in finished : /\ pc = "forget" /\ e \in active
                                   /\ InHand = active /\ InHand' = active \ {e}
  <1> USE NoFaults DEF InHand, joinVars, recordVars, passVars, outsideVars
  <1>1. CASE Chain
    BY <1>1 DEF Chain, OpenElection, CloseElection, Mature, CreditStake, UnchangedProcess
  <1>2. CASE CleanStep
    <2>1. ASSUME NEW e \in Elections, CleanupDepoolElection(e) PROVE FALSE
      BY <2>1 DEF CleanupDepoolElection, DirectRecords, Direct
    <2>2. ASSUME NEW e \in Elections, ForgetRecovered(e)
          PROVE  /\ UNCHANGED chainVars
                 /\ e \in finished /\ pc = "forget" /\ e \in active
                 /\ InHand = active /\ InHand' = active \ {e}
      BY <2>2 DEF ForgetRecovered, CleanupElection, TypeOK
    <2>3. CASE UNCHANGED active /\ pc # "record" /\ pc' # "record"
      BY <2>3
    <2>4. QED
      BY <1>2, <2>1, <2>2, <2>3
      DEF CleanStep, ScanActiveElections, DepoolElectionsCleaned, RecoverStakes,
          NothingToRecover, RecoverRaises, LeaveForNextPass, SelectElections
  <1>3. CASE JoinStep
    <2>1. CASE SubmitTransaction
      <3>1. job \in Job /\ req.election = job.election /\ job.election \notin active
        BY <2>1 DEF SubmitTransaction, PassShape, SignsItsOwnElection, JoinedOnce, JoinLabels
      <3>2. QED
        BY <2>1, <3>1 DEF Undisturbed, SubmitTransaction, Job
    <2>2. CASE RecordElection
      BY <2>2 DEF RecordElection, Appended
    <2>3. CASE FailedJoinCleanup
      BY <2>3 DEF FailedJoinCleanup, CleanupElection, JoinedOnce, JoinLabels
    <2>4. CASE UNCHANGED active /\ pc # "record" /\ pc' # "record"
      BY <2>4
    <2>5. QED
      BY <1>3, <2>1, <2>2, <2>3, <2>4
      DEF OneStart, JoinStep, StartJoin, SkipJoin, EndJoins, UseRecordedKeys, GetNewKeys,
          NoKeyMade, PrepareElection, SignRequest, ConfirmTransaction,
          AnswerLost, JoinRaises, JoinEnds, PassRaises, NextSleep
  <1>4. CASE SaveStep
    BY <1>4 DEF SaveStep, TruncateFile, WriteFile, SaveRaises
  <1>5. CASE Operator \/ Crash
    BY <1>5 DEF OneStart, PassShape, Operator, Boot, RestartDead, RequestRestake,
       UnchangedProcess, Crash
  <1>6. CASE UNCHANGED vars
    BY <1>6 DEF vars
  <1>7. QED
    BY <1>1, <1>2, <1>3, <1>4, <1>5, <1>6 DEF Next, RoutineStep, ReadElectionIds

(* An election that is being forgotten owes nothing.                       *)
LEMMA ForgottenOwesNothing ==
  ASSUME TypeOK, PassShape, PaidInTime, PaidWhenForgotten, pc = "forget", NEW e \in finished
  PROVE  e \in Elections \ Owed
  BY DEF TypeOK, PassShape, PaidInTime, PaidWhenForgotten, Owed

(* Only a bid adds to what is owed, and only to its election.              *)
LEMMA OwedStep ==
  ASSUME Undisturbed, TypeOK, PassShape, OneStart, [Next]_vars
  PROVE  \/ Owed' \subseteq Owed
         \/ /\ pc = "submit" /\ ExecuteBid(req) /\ pc' = "record" /\ UNCHANGED <<active, job>>
            /\ Owed' \subseteq Owed \cup {req.election}
  <1>1. ASSUME NEW e \in Elections,
               OpenElection(e) \/ CloseElection(e) \/ Mature(e) \/ CreditStake(e)
        PROVE  Owed' \subseteq Owed
    BY <1>1 DEF OpenElection, CloseElection, Mature, CreditStake, TypeOK, Owed
  <1>2. CASE PayCredits
    BY <1>2 DEF PayCredits, Owed
  <1>3. CASE pc = "submit" /\ ExecuteBid(req) /\ pc' = "record" /\ UNCHANGED <<active, job>>
    BY <1>3 DEF ExecuteBid, TypeOK, Owed
  <1>4. CASE UNCHANGED chainVars
    BY <1>4 DEF chainVars, Owed
  <1>5. QED
    BY <1>1, <1>2, <1>3, <1>4, ChainEffect DEF Chain

LEMMA TrackedStep ==
  ASSUME Undisturbed, TypeOK, PassShape, Kept, [Next]_vars
  PROVE  StakeTracked'
  <1>1. Owed \subseteq InHand
    BY TrackedIsInHand DEF Kept
  <1>2. Owed' \subseteq InHand'
    <2>1. CASE pc = "submit" /\ ExecuteBid(req) /\ pc' = "record" /\ UNCHANGED <<active, job>>
      <3>1. Owed' \subseteq Owed \cup {req.election}
        BY <2>1 DEF ExecuteBid, TypeOK, Owed
      <3>2. req.election = job.election
        BY <2>1 DEF PassShape, SignsItsOwnElection
      <3>3. QED
        BY <1>1, <2>1, <3>1, <3>2 DEF InHand
    <2>2. CASE /\ Owed' \subseteq Owed
               /\ \/ InHand \subseteq InHand'
                  \/ \E e \in finished : pc = "forget" /\ InHand' = active \ {e} /\ InHand = active
      BY <1>1, <2>2, ForgottenOwesNothing DEF Kept
    <2>3. \/ InHand \subseteq InHand'
          \/ \E e \in finished : pc = "forget" /\ InHand' = active \ {e} /\ InHand = active
      <3>1. DirectRecords /\ OneStart /\ JoinedOnce
        BY DEF Kept
      <3>2. CASE UNCHANGED InHand
        BY <3>2
      <3>3. CASE InHand = active /\ InHand' = active \cup {job.election}
        BY <3>3
      <3>4. QED
        BY <3>1, <3>2, <3>3, HandEffect
    <2>4. OneStart
      BY DEF Kept
    <2>5. QED
      BY <2>1, <2>2, <2>3, <2>4, OwedStep
  <1>3. QED
    BY <1>2 DEF StakeTracked, Owed, InHand

-------------------------------------------------------------------------------
(* What is bid and what is counted.  A join that has not bid yet is the    *)
(* first of its election: what was read as open and has no record was not  *)
(* bid for, since a record is only given up once its election is over.     *)

(* The ids read last are looked at until the joins are known, and records  *)
(* that are given up are of other elections.                               *)
SeenApart ==
    /\ pc \notin {"scan", "clean", "recover", "forget", "select"} => seen = {}
    /\ finished \cap seen = {}

FirstBid ==
    /\ \A e \in seen \ active : bids[e] = 0
    /\ \A j \in todo : bids[j.election] = 0
    /\ pc \in JoinLabels \ {"record"} => bids[job.election] = 0
    /\ pc = "record" => bids[job.election] = 1
    /\ \A e \in Elections \ active :
          bids[e] # 0 => e \in matured \/ (pc = "record" /\ e = job.election)

(* A join counts its stake once, and what is neither recorded nor being    *)
(* joined counts none.                                                     *)
CountedOnce ==
    /\ pc \in JoinLabels \ {"fail"} => rec[job.election].staked = 1
    /\ \A e \in Elections \ active :
          rec[e].staked = 0 \/ (pc \in JoinLabels /\ e = job.election)
    /\ \A e \in Elections \ saved : file[e].staked = 0

Exact == SeenApart /\ FirstBid /\ CountedOnce /\ StakeExact

LEMMA InitExact == Init => Exact
  BY DEF Init, Exact, SeenApart, FirstBid, CountedOnce, StakeExact, JoinLabels, Blanks, Blank

(* What each way to change a record does to the stake it counts.           *)
LEMMA StakeField ==
  ASSUME Undisturbed, TypeOK, NEW r \in Record
  PROVE  /\ FlagReset(r).staked = r.staked
         /\ \A k : [r EXCEPT !.key = k].staked = r.staked
         /\ [r EXCEPT !.mode = mode].staked = r.staked
         /\ \A n : [r EXCEPT !.staked = n].staked = n
         /\ \A v : Joining(r, v).staked = r.staked + 1
  BY NoFaults DEF FlagReset, Joining, Record

LEMMA RecordedStake ==
  \A ids : \A e \in Elections :
      Recorded(ids)[e].staked = IF e \in ids THEN rec[e].staked ELSE 0
  BY DEF Recorded, Blank

(* The invariant, for the steps of the chain and for the steps of a pass   *)
(* that neither bid nor count.                                             *)
LEMMA ExactFrame ==
  ASSUME TypeOK, Exact, UNCHANGED <<bids, active, saved, file, todo, job>>,
         \A e \in Elections : rec'[e].staked = rec[e].staked,
         matured \subseteq matured', SeenApart', seen' \subseteq seen,
         pc = "record" <=> pc' = "record",
         pc \in JoinLabels <=> pc' \in JoinLabels, pc = "fail" => pc' = "fail",
         pc \in JoinLabels => job.election \in Elections
  PROVE  Exact'
  <1> USE DEF Exact, TypeOK, JoinLabels
  <1>1. FirstBid'
    BY DEF FirstBid
  <1>2. CountedOnce'
    BY DEF CountedOnce
  <1>3. StakeExact'
    BY DEF StakeExact
  <1>4. QED
    BY <1>1, <1>2, <1>3

(* The steps of a pass up to the joins.                                    *)
LEMMA ExactReading ==
  ASSUME TypeOK, PassShape, PaidInTime, Exact, NEW ids \in {OpenIds, {}}, ReadElectionIds(ids)
  PROVE  Exact'
  <1> USE DEF Exact, ReadElectionIds, recordVars, passVars, joinVars, outsideVars, chainVars,
          diskVars
  <1>1. finished = {}
    BY DEF PassShape
  <1>2. \A e \in OpenIds \ active : bids[e] = 0
    BY DEF OpenIds, FirstBid, PaidInTime
  <1>3. SeenApart'
    BY <1>1 DEF SeenApart
  <1>4. FirstBid'
    BY <1>2 DEF FirstBid, JoinLabels
  <1>5. CountedOnce' /\ StakeExact'
    BY DEF CountedOnce, StakeExact, JoinLabels
  <1>6. QED
    BY <1>3, <1>4, <1>5

LEMMA ExactCleaning ==
  ASSUME Undisturbed, TypeOK, PassShape, DirectRecords, Exact, CleanStep
  PROVE  Exact'
  <1> USE DEF recordVars, passVars, joinVars, outsideVars, chainVars, diskVars
  <1>1. CASE ScanActiveElections
    <2>1. SeenApart'
      BY <1>1 DEF ScanActiveElections, OverIn, Exact, SeenApart
    <2>2. QED
      BY <1>1, <2>1, ExactFrame DEF ScanActiveElections, JoinLabels
  <1>2. CASE DepoolElectionsCleaned \/ RecoverStakes \/ NothingToRecover \/ RecoverRaises
    <2>1. /\ pc \in {"clean", "recover"} /\ pc' \in {"recover", "select", "forget"}
          /\ UNCHANGED <<bids, active, saved, file, rec, todo, job, matured, seen>>
          /\ finished' \subseteq finished
      BY <1>2 DEF DepoolElectionsCleaned, RecoverStakes, NothingToRecover, RecoverRaises,
         PayCredits, LeaveForNextPass
    <2>2. SeenApart'
      BY <2>1 DEF Exact, SeenApart
    <2>3. QED
      BY <2>1, <2>2, ExactFrame DEF JoinLabels
  <1>3. ASSUME NEW e \in Elections, CleanupDepoolElection(e) PROVE FALSE
    BY <1>3 DEF CleanupDepoolElection, DirectRecords, Direct
  <1>4. ASSUME NEW e \in Elections, ForgetRecovered(e) PROVE Exact'
    <2>1. /\ pc = "forget" /\ pc' \in {"forget", "select"} /\ e \in finished
          /\ active' = active \ {e} /\ rec' = Recorded(active') /\ finished' = finished \ {e}
          /\ UNCHANGED <<bids, saved, file, todo, job, matured, seen>>
      BY <1>4 DEF ForgetRecovered, CleanupElection, Done
    <2>2. e \in matured /\ e \notin seen
      BY <2>1 DEF PassShape, Exact, SeenApart
    <2>3. SeenApart'
      BY <2>1 DEF Exact, SeenApart
    <2>4. FirstBid'
      BY <2>1, <2>2 DEF Exact, FirstBid, JoinLabels
    <2>5. \A d \in Elections : rec'[d].staked = IF d \in active' THEN rec[d].staked ELSE 0
      BY <2>1, RecordedStake
    <2>6. CountedOnce' /\ StakeExact'
      BY <2>1, <2>5 DEF Exact, CountedOnce, StakeExact, JoinLabels, TypeOK
    <2>7. QED
      BY <2>3, <2>4, <2>6 DEF Exact
  <1>5. CASE SelectElections
    <2>1. /\ pc = "select" /\ pc' \in {"save", "join"} /\ seen' = {} /\ UNCHANGED finished
          /\ UNCHANGED <<bids, active, saved, file, job, matured>>
      BY <1>5 DEF SelectElections
    <2>2. \A d \in Elections : rec'[d].staked = rec[d].staked
      BY <1>5, StakeField DEF SelectElections, TypeOK
    <2>3. \A j \in todo' : bids[j.election] = 0
      <3>1. \A j \in todo' : j.election \in seen /\ j.election \notin active
        BY <1>5, SelectedOnce DEF SelectElections, ToJoin
      <3>2. QED
        BY <3>1 DEF Exact, FirstBid
    <2>4. SeenApart' /\ FirstBid'
      BY <2>1, <2>3 DEF Exact, SeenApart, FirstBid, JoinLabels
    <2>5. CountedOnce' /\ StakeExact'
      BY <2>1, <2>2 DEF Exact, CountedOnce, StakeExact, JoinLabels, TypeOK
    <2>6. QED
      BY <2>4, <2>5 DEF Exact
  <1>6. QED
    BY <1>1, <1>2, <1>3, <1>4, <1>5 DEF CleanStep

(* A join, from its start to its bid and its record.                       *)
LEMMA ExactJoining ==
  ASSUME Undisturbed, TypeOK, PassShape, OneStart, JoinedOnce, RecordMatchesBid, Exact, JoinStep
  PROVE  Exact'
  <1> USE DEF recordVars, passVars, joinVars, outsideVars, chainVars, diskVars
  <1>1. pc \in JoinLabels => job.election \in Elections /\ job.election \notin active
    BY DEF PassShape, Job, JoinedOnce
  <1>2. ASSUME UNCHANGED <<bids, active, saved, file, todo, job, matured, seen, finished>>,
               \A e \in Elections : rec'[e].staked = rec[e].staked,
               pc \in JoinLabels \ {"record", "fail"}, pc' \in JoinLabels \ {"record"}
        PROVE  Exact'
    <2>1. SeenApart'
      BY <1>2 DEF Exact, SeenApart, JoinLabels
    <2>2. QED
      BY <1>1, <1>2, <2>1, ExactFrame DEF JoinLabels
  <1>3. ASSUME NEW j \in Job, StartJoin(j) PROVE Exact'
    <2>1. /\ pc = "join" /\ pc' = "keys" /\ j \in todo /\ job' = j /\ todo' \subseteq todo
          /\ UNCHANGED <<bids, active, saved, file, matured, seen, finished>>
          /\ rec' = [rec EXCEPT ![j.election] = Joining(rec[j.election], j.via)]
      BY <1>3 DEF StartJoin
    <2>2. /\ j.election \in Elections /\ j.election \notin active /\ bids[j.election] = 0
          /\ rec \in [Elections -> Record] /\ rec[j.election].staked = 0
      BY <2>1 DEF Job, JoinedOnce, Exact, FirstBid, CountedOnce, JoinLabels, TypeOK
    <2>3. /\ rec'[j.election].staked = 1
          /\ \A d \in Elections \ {j.election} : rec'[d].staked = rec[d].staked
      <3>1. rec[j.election] \in Record
        BY <2>2
      <3>2. Joining(rec[j.election], j.via).staked = rec[j.election].staked + 1
        BY <3>1, StakeField
      <3>3. QED
        BY <2>1, <2>2, <3>2
    <2>4. SeenApart' /\ FirstBid'
      BY <2>1, <2>2 DEF Exact, SeenApart, FirstBid, JoinLabels
    <2>5. CountedOnce' /\ StakeExact'
      BY <2>1, <2>2, <2>3 DEF Exact, CountedOnce, StakeExact, JoinLabels, TypeOK
    <2>6. QED
      BY <2>4, <2>5 DEF Exact
  <1>4. ASSUME NEW j \in Job, SkipJoin(j) PROVE Exact'
    <2>1. /\ pc = "join" /\ pc' = pc /\ todo' \subseteq todo
          /\ UNCHANGED <<bids, active, saved, file, job, matured, seen, finished>>
      BY <1>4 DEF SkipJoin
    <2>2. \A d \in Elections : rec'[d].staked = rec[d].staked
      <3>1. rec \in [Elections -> Record] /\ j.election \in Elections
        BY DEF TypeOK, Job
      <3>2. \/ rec' = rec
            \/ rec' = [rec EXCEPT ![j.election] = [rec[j.election] EXCEPT !.mode = mode]]
        BY <1>4 DEF SkipJoin
      <3>3. [rec[j.election] EXCEPT !.mode = mode].staked = rec[j.election].staked
        BY <3>1, StakeField
      <3>4. QED
        BY <3>1, <3>2, <3>3
    <2>3. SeenApart' /\ FirstBid'
      BY <2>1 DEF Exact, SeenApart, FirstBid, JoinLabels
    <2>4. CountedOnce' /\ StakeExact'
      BY <2>1, <2>2 DEF Exact, CountedOnce, StakeExact, JoinLabels, TypeOK
    <2>5. QED
      BY <2>3, <2>4 DEF Exact
  <1>5. CASE EndJoins
    <2>1. SeenApart'
      BY <1>5 DEF EndJoins, Exact, SeenApart
    <2>2. QED
      BY <1>5, <2>1, ExactFrame DEF EndJoins, JoinLabels
  <1>6. ASSUME NEW k \in Keys \cup {NoKey}, GetNewKeys(k) PROVE Exact'
    <2>1. /\ pc = "keys" /\ pc' = "prepare"
          /\ UNCHANGED <<bids, active, saved, file, todo, job, matured, seen, finished>>
          /\ rec' = [rec EXCEPT ![job.election] = [rec[job.election] EXCEPT !.key = k]]
      BY <1>6 DEF GetNewKeys
    <2>2. job.election \in Elections /\ rec \in [Elections -> Record]
      BY <1>1, <2>1 DEF JoinLabels, TypeOK
    <2>3. [rec[job.election] EXCEPT !.key = k].staked = rec[job.election].staked
      BY <2>2, StakeField
    <2>4. \A e \in Elections : rec'[e].staked = rec[e].staked
      BY <2>1, <2>2, <2>3
    <2>5. QED
      BY <1>2, <2>1, <2>4 DEF JoinLabels
  <1>7. CASE \/ UseRecordedKeys \/ NoKeyMade \/ PrepareElection \/ SignRequest \/ JoinRaises
    BY <1>2, <1>7 DEF OneStart, UseRecordedKeys, NoKeyMade, PrepareElection, SignRequest,
       JoinRaises, JoinEnds, JoinLabels
  <1>8. CASE SubmitTransaction
    <2>1. /\ pc = "submit" /\ pc' = "record"
          /\ UNCHANGED <<active, rec, saved, file, todo, job, matured, seen, finished>>
          /\ req.election = job.election
          /\ bids' = [bids EXCEPT ![job.election] = bids[job.election] + 1]
      BY <1>8 DEF Undisturbed, SubmitTransaction, ExecuteBid, PassShape, SignsItsOwnElection
    <2>2. bids[job.election] = 0 /\ job.election \in Elections /\ job.election \notin saved
      BY <1>1, <2>1 DEF Exact, FirstBid, JoinLabels, RecordMatchesBid
    <2>3. /\ bids'[job.election] = 1
          /\ \A d \in Elections \ {job.election} : bids'[d] = bids[d]
      BY <2>1, <2>2 DEF TypeOK
    <2>4. SeenApart'
      BY <2>1 DEF Exact, SeenApart
    <2>5. FirstBid'
      <3>1. seen = {} /\ \A j \in todo : j.election \in Elections \ {job.election}
        BY <2>1 DEF Exact, SeenApart, JoinedOnce, JoinLabels, TypeOK, Job
      <3>2. QED
        BY <2>1, <2>3, <3>1 DEF Exact, FirstBid, JoinLabels
    <2>6. CountedOnce'
      BY <2>1 DEF Exact, CountedOnce, JoinLabels
    <2>7. StakeExact'
      BY <1>1, <2>1, <2>2, <2>3 DEF Exact, StakeExact, TypeOK, JoinLabels
    <2>8. QED
      BY <2>4, <2>5, <2>6, <2>7 DEF Exact
  <1>9. CASE ConfirmTransaction \/ AnswerLost
    BY <1>9, NoFaults DEF OneStart, ConfirmTransaction, AnswerLost
  <1>10. CASE RecordElection
    <2>1. /\ pc = "record" /\ pc' = "join" /\ active' = active \cup {job.election}
          /\ job' = NoJob
          /\ UNCHANGED <<bids, saved, file, todo, matured, seen, finished>>
          /\ rec' = [rec EXCEPT ![job.election] =
                        [rec[job.election] EXCEPT !.staked = rec[job.election].staked]]
      BY <1>10, NoFaults DEF RecordElection, Appended
    <2>2. job.election \in Elections /\ rec \in [Elections -> Record]
      BY <1>1, <2>1 DEF JoinLabels, TypeOK
    <2>3. \A d \in Elections : rec'[d].staked = rec[d].staked
      BY <2>1, <2>2, StakeField
    <2>4. bids[job.election] = 1 /\ rec[job.election].staked = 1
      BY <2>1 DEF Exact, FirstBid, CountedOnce, JoinLabels
    <2>5. SeenApart' /\ FirstBid'
      BY <2>1, <2>2, <2>4 DEF Exact, SeenApart, FirstBid, JoinLabels
    <2>6. CountedOnce' /\ StakeExact'
      BY <2>1, <2>2, <2>3, <2>4 DEF Exact, CountedOnce, StakeExact, JoinLabels, TypeOK
    <2>7. QED
      BY <2>5, <2>6 DEF Exact
  <1>11. CASE FailedJoinCleanup \/ PassRaises
    <2>1. /\ pc \in {"fail", "select", "join"} /\ pc' = "idle" /\ active' = active
          /\ rec' = Recorded(active) /\ todo' = {}
          /\ UNCHANGED <<bids, saved, file, matured, finished>> /\ seen' = {}
      BY <1>1, <1>11 DEF FailedJoinCleanup, CleanupElection, PassRaises, ForgetJoins, NextSleep,
         Exact, SeenApart, JoinLabels
    <2>2. \A d \in Elections : rec'[d].staked = IF d \in active THEN rec[d].staked ELSE 0
      BY <2>1, RecordedStake
    <2>3. SeenApart' /\ FirstBid'
      BY <2>1 DEF Exact, SeenApart, FirstBid, JoinLabels
    <2>4. CountedOnce' /\ StakeExact'
      BY <2>1, <2>2 DEF Exact, CountedOnce, StakeExact, JoinLabels, TypeOK
    <2>5. QED
      BY <2>3, <2>4 DEF Exact
  <1>12. QED
    BY <1>3, <1>4, <1>5, <1>6, <1>7, <1>8, <1>9, <1>10, <1>11 DEF JoinStep

(* Saving, and the start.                                                  *)
LEMMA ExactSaving ==
  ASSUME Undisturbed, TypeOK, PassShape, OneStart, Exact, SaveStep \/ Boot
  PROVE  Exact'
  <1> USE NoFaults DEF recordVars, passVars, joinVars, outsideVars, chainVars, diskVars
  <1>1. CASE TruncateFile
    <2>1. /\ pc = "save" /\ pc' = "write" /\ saved' = {} /\ file' = Blanks
          /\ UNCHANGED <<bids, active, rec, todo, job, matured, seen, finished>>
      BY <1>1 DEF TruncateFile
    <2>2. SeenApart' /\ FirstBid' /\ CountedOnce' /\ StakeExact'
      BY <2>1 DEF Exact, SeenApart, FirstBid, CountedOnce, StakeExact, JoinLabels, Blanks, Blank
    <2>3. QED
      BY <2>2 DEF Exact
  <1>2. CASE WriteFile
    <2>1. /\ pc = "write" /\ pc' = "idle" /\ saved' = active
          /\ file' = Recorded(active) /\ rec' = Recorded(active)
          /\ UNCHANGED <<bids, active, todo, job, matured, seen, finished>>
      BY <1>2 DEF WriteFile
    <2>2. \A d \in Elections :
              /\ rec'[d].staked = IF d \in active THEN rec[d].staked ELSE 0
              /\ file'[d].staked = IF d \in active THEN rec[d].staked ELSE 0
      BY <2>1, RecordedStake
    <2>3. SeenApart' /\ FirstBid'
      BY <2>1 DEF Exact, SeenApart, FirstBid, JoinLabels
    <2>4. CountedOnce' /\ StakeExact'
      BY <2>1, <2>2 DEF Exact, CountedOnce, StakeExact, JoinLabels, TypeOK
    <2>5. QED
      BY <2>3, <2>4 DEF Exact
  <1>3. CASE SaveRaises
    BY <1>3 DEF SaveRaises
  <1>4. CASE Boot
    <2>1. /\ pc = "down" /\ pc' = "idle" /\ saved = {} /\ active = {} /\ active' = {}
          /\ rec' = file
          /\ UNCHANGED <<bids, saved, file, todo, job, matured, seen, finished>>
      BY <1>4 DEF Boot, OneStart, PassShape
    <2>2. SeenApart' /\ FirstBid' /\ CountedOnce' /\ StakeExact'
      BY <2>1 DEF Exact, SeenApart, FirstBid, CountedOnce, StakeExact, JoinLabels
    <2>3. QED
      BY <2>2 DEF Exact
  <1>5. QED
    BY <1>1, <1>2, <1>3, <1>4 DEF SaveStep

LEMMA ExactStep ==
  ASSUME Undisturbed, KInv, Exact, [Next]_vars
  PROVE  Exact'
  <1>1. /\ TypeOK /\ PassShape /\ RecordMatchesBid /\ DirectRecords /\ OneStart /\ PaidInTime
        /\ JoinedOnce
    BY DEF KInv, IInv, BidBacked, Kept
  <1>2. pc \in JoinLabels => job.election \in Elections
    BY <1>1 DEF PassShape, Job
  <1>3. ASSUME UNCHANGED <<bids, recordVars, saved, file, passVars, pc>>, matured \subseteq matured'
        PROVE  Exact'
    <2>1. /\ UNCHANGED <<bids, active, saved, file, todo, job, rec, pc, seen, finished>>
          /\ SeenApart'
      BY <1>3 DEF recordVars, passVars, joinVars, Exact, SeenApart
    <2>2. QED
      BY <1>1, <1>2, <1>3, <2>1, ExactFrame
  <1>4. CASE Chain
    BY <1>3, <1>4 DEF Chain, OpenElection, CloseElection, Mature, CreditStake, UnchangedProcess,
       diskVars
  <1>5. CASE RoutineStep
    BY <1>1, <1>5, ExactReading, ExactCleaning, ExactJoining, ExactSaving DEF RoutineStep
  <1>6. CASE Operator \/ Crash
    BY <1>1, <1>6, NoFaults, ExactSaving DEF OneStart, Operator, RestartDead, RequestRestake, Crash
  <1>7. CASE UNCHANGED vars
    BY <1>3, <1>7 DEF vars, outsideVars, chainVars, diskVars
  <1>8. QED
    BY <1>4, <1>5, <1>6, <1>7 DEF Next

-------------------------------------------------------------------------------
(* The theorems.                                                           *)

(* With the records kept, the invariant is inductive.                      *)
THEOREM KeepingInvariance == ASSUME Undisturbed PROVE Spec => []KInv
  <1>1. Init => KInv
    BY InitIInv, InitKept DEF KInv
  <1>2. ASSUME KInv, [Next]_vars PROVE KInv'
    <2>1. TypeOK /\ PassShape /\ BidBacked /\ Kept
      BY <1>2 DEF KInv, IInv
    <2>2. IInv'
      BY <1>2, <2>1, TypeStep, ShapeStep, BackedStep DEF IInv
    <2>3. DirectRecords'
      BY <1>2, <2>1, DirectStep DEF Kept
    <2>4. OneStart' /\ PaidInTime'
      BY <1>2, <2>1, StartStep, PaidStep DEF Kept
    <2>5. PaidWhenForgotten' /\ JoinedOnce'
      BY <1>2, <2>1, ForgottenStep, JoinedStep DEF Kept
    <2>6. StakeTracked'
      BY <1>2, <2>1, TrackedStep
    <2>7. QED
      BY <2>2, <2>3, <2>4, <2>5, <2>6 DEF KInv, Kept
  <1>3. QED
    BY <1>1, <1>2, PTL DEF Spec

(* Undisturbed, a stake the elector holds or has given back is in the      *)
(* records or about to be.                                                 *)
THEOREM StakesAreTracked == ASSUME Undisturbed PROVE Spec => []StakeTracked
  <1>1. KInv => StakeTracked
    BY DEF KInv, Kept
  <1>2. QED
    BY KeepingInvariance, <1>1, PTL

(* Undisturbed, an election is bid for once, and memory and file count     *)
(* exactly that stake (elections.py:163, 193-199, 362-373).                *)
THEOREM StakesAreExact == ASSUME Undisturbed PROVE Spec => []StakeExact
  <1>1. ASSUME KInv, Exact, [Next]_vars PROVE Exact'
    BY <1>1, ExactStep
  <1>2. Exact => StakeExact
    BY DEF Exact
  <1>3. QED
    BY KeepingInvariance, InitExact, <1>1, <1>2, PTL DEF Spec

(* A record is given up only when the elector has paid.                    *)
THEOREM ForgottenIsPaid == ASSUME Undisturbed PROVE Spec => ForgetsOnlyPaid
  <1>1. ASSUME KInv, [Next]_vars
        PROVE  \A e \in active \ active' : pc = "forget" => stake[e] # "credited"
    <2>1. TypeOK /\ PassShape /\ Kept
      BY <1>1 DEF KInv, IInv
    <2>2. SUFFICES ASSUME NEW e \in active \ active', pc = "forget" PROVE stake[e] # "credited"
      OBVIOUS
    <2>3. e \in finished
      <3>1. PICK d \in Elections : CleanupDepoolElection(d) \/ ForgetRecovered(d)
        BY <1>1, <2>1, <2>2, OtherStepsKeepRecords, NoFaults
        DEF FailedJoinCleanup, Boot, Crash, RecordElection
      <3>2. d \in finished /\ active' = active \ {d}
        BY <3>1 DEF CleanupDepoolElection, ForgetRecovered, CleanupElection
      <3>3. QED
        BY <2>2, <3>2
    <2>4. QED
      BY <2>1, <2>2, <2>3 DEF Kept, PaidWhenForgotten
  <1>2. QED
    BY KeepingInvariance, <1>1, PTL DEF Spec, ForgetsOnlyPaid

(* The initial states of the routine are those of the promise.             *)
LEMMA InitKeeps == ASSUME Init PROVE Keeping!Init
  BY DEF Init, Keeping!Init, Credited

Locked == {e \in Elections : stake[e] = "locked"}

LEMMA KeepingVars ==
  ASSUME UNCHANGED <<InHand, Locked, Credited>> PROVE UNCHANGED Keeping!vars
  BY DEF Keeping!vars, InHand, Locked

(* The chain gives stakes back.                                            *)
LEMMA ChainKeeps ==
  ASSUME TypeOK, Chain PROVE [Keeping!Next]_Keeping!vars
  <1>1. UNCHANGED InHand
    BY DEF Chain, OpenElection, CloseElection, Mature, CreditStake, UnchangedProcess, recordVars,
       passVars, joinVars, InHand
  <1>2. ASSUME NEW e \in Elections, OpenElection(e) \/ CloseElection(e) \/ Mature(e)
        PROVE  UNCHANGED Keeping!vars
    BY <1>1, <1>2, KeepingVars DEF OpenElection, CloseElection, Mature, Locked, Credited
  <1>3. ASSUME NEW e \in Elections, CreditStake(e) PROVE Keeping!GiveBack(e)
    <2>1. e \in Locked /\ Locked' = Locked \ {e} /\ Credited' = Credited \cup {e}
      BY <1>3 DEF CreditStake, TypeOK, Locked, Credited
    <2>2. QED
      BY <1>1, <2>1 DEF Keeping!GiveBack, InHand, Locked
  <1>4. QED
    BY <1>2, <1>3 DEF Chain, Keeping!Next

(* A recovery fetches all that is due.                                     *)
LEMMA RecoveryKeeps ==
  ASSUME TypeOK, StakeTracked, PayCredits, UNCHANGED InHand
  PROVE  [Keeping!Next]_Keeping!vars
  <1>1. Locked' = Locked /\ Credited' = {}
    BY DEF PayCredits, TypeOK, Locked, Credited
  <1>2. Credited \subseteq InHand
    BY DEF StakeTracked, Credited, InHand
  <1>3. CASE Credited = {}
    BY <1>1, <1>3, KeepingVars
  <1>4. CASE Credited # {}
    BY <1>1, <1>2, <1>4 DEF Keeping!Fetch, Keeping!Next, InHand, Locked
  <1>5. QED
    BY <1>3, <1>4

(* A bid stakes in an election that was not accounted for.                 *)
LEMMA BidKeeps ==
  ASSUME TypeOK, NEW e \in Elections, ExecuteBid(req), req.election = e,
         e \notin InHand, InHand' = InHand \cup {e}
  PROVE  Keeping!Next
  <1>1. Credited' = Credited /\ Locked' \in {Locked, Locked \cup {e}}
    BY DEF ExecuteBid, TypeOK, Locked, Credited
  <1>2. Keeping!Stake(e)
    BY <1>1 DEF Keeping!Stake, InHand, Locked
  <1>3. QED
    BY <1>2 DEF Keeping!Next

(* What is forgotten is home, or was never with the elector.               *)
LEMMA ForgettingKeeps ==
  ASSUME NEW e \in Elections \ Owed, UNCHANGED chainVars, e \in InHand, InHand' = InHand \ {e}
  PROVE  Keeping!Next
  <1>1. Locked' = Locked /\ Credited' = Credited /\ e \notin Locked \cup Credited
    BY DEF chainVars, Locked, Credited, Owed
  <1>2. Keeping!LetGo(e)
    BY <1>1 DEF Keeping!LetGo, InHand, Locked
  <1>3. QED
    BY <1>2 DEF Keeping!Next

(* Every step of the routine is a step of the promise or none.             *)
LEMMA StepKeeps ==
  ASSUME Undisturbed, KInv, [Next]_vars
  PROVE  [Keeping!Next]_Keeping!vars
  <1>1. TypeOK /\ PassShape /\ DirectRecords /\ OneStart /\ PaidInTime /\ PaidWhenForgotten
        /\ JoinedOnce /\ StakeTracked
    BY DEF KInv, IInv, Kept
  <1>2. CASE Chain
    BY <1>1, <1>2, ChainKeeps
  <1>3. CASE pc = "recover" /\ PayCredits /\ pc' = "forget" /\ UNCHANGED <<active, job, finished>>
    BY <1>1, <1>3, RecoveryKeeps DEF InHand
  <1>4. CASE /\ pc = "submit" /\ ExecuteBid(req) /\ job.election \notin active
             /\ job.election \in Elections /\ req.election = job.election
             /\ InHand = active /\ InHand' = active \cup {job.election}
    BY <1>1, <1>4, BidKeeps
  <1>5. CASE UNCHANGED chainVars /\ UNCHANGED InHand
    BY <1>5, KeepingVars DEF chainVars, Locked, Credited
  <1>6. CASE /\ UNCHANGED chainVars
             /\ \E e \in finished : /\ pc = "forget" /\ e \in active
                                    /\ InHand = active /\ InHand' = active \ {e}
    BY <1>1, <1>6, ForgottenOwesNothing, ForgettingKeeps
  <1>7. CASE pc = "submit" /\ ExecuteBid(req) /\ pc' = "record" /\ UNCHANGED <<active, job>>
    <2>1. job \in Job /\ req.election = job.election /\ job.election \notin active
      BY <1>1, <1>7 DEF PassShape, SignsItsOwnElection, JoinedOnce, JoinLabels
    <2>2. QED
      BY <1>4, <1>7, <2>1 DEF Job, InHand
  <1>8. QED
    BY <1>1, <1>2, <1>3, <1>4, <1>5, <1>6, <1>7, ChainEffect, HandEffect

(* Undisturbed, the routine implements the promise of StakeKeeping, its    *)
(* fairness apart.                                                         *)
THEOREM StakesAreKept == ASSUME Undisturbed PROVE Spec => Keeping!Init /\ [][Keeping!Next]_Keeping!vars
  <1>1. Spec => [][Keeping!Next]_Keeping!vars
    BY KeepingInvariance, StepKeeps, PTL DEF Spec
  <1>2. QED
    BY InitKeeps, <1>1, PTL DEF Spec
===============================================================================
