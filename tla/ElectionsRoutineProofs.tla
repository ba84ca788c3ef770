------------------------ MODULE ElectionsRoutineProofs ------------------------
(***************************************************************************)
(* Proofs about ElectionsRoutine for every set of elections, depools and   *)
(* keys, both validator providers, with and without custodians, and every  *)
(* bound on faults, restakes and bids.                                     *)
(*                                                                         *)
(* The inductive invariant is TypeOK /\ PassShape /\ BidBacked: where the  *)
(* thread is decides which of its local variables are in use (PassShape),  *)
(* and what the record of the join in progress may count before and after  *)
(* the wallet has executed its bid (BidBacked).                            *)
(***************************************************************************)
EXTENDS ElectionsRoutine, TLAPS

(* Which locals are in use at which point of a pass.                       *)
PassShape ==
    /\ pc \notin {"clean", "recover", "forget"} => finished = {}
    /\ finished \subseteq matured
    /\ pc \in {"down", "dead"} => active = {}
    /\ IF pc \in JoinLabels THEN job \in Job ELSE job = NoJob
    /\ pc \in {"submit", "confirm", "record"} => req \in Request
    /\ Provider = "rust" => \A e \in Elections : rec[e].key = NoKey /\ file[e].key = NoKey
    /\ Provider = "rust" /\ pc = "sign" => rustData = job.election
    /\ SignsItsOwnElection

(* Depool mode counts a stake once its bid is out, the other before.       *)
CountedAhead  == IF mode = "depool" THEN 0 ELSE 1
CountedBehind == IF mode = "depool" THEN 1 ELSE 0

BidBacked ==
    /\ Provider = "cpp" => \A e \in Elections : bidKeys[e] \subseteq Keys
    /\ Provider = "cpp" /\ pc \in {"submit", "confirm"} => req.key \in Keys
    /\ pc = "record" => bids[req.election] > 0 /\ req.key \in bidKeys[req.election]
    /\ RecordMatchesBid
    /\ \A e \in Elections \ {job.election} : rec[e].staked <= bids[e]
    /\ \A e \in Elections : file[e].staked <= bids[e]
    /\ pc \in JoinLabels \ {"record", "fail"} =>
           rec[job.election].staked <= bids[job.election] + CountedAhead
    /\ pc = "record" =>
           rec[job.election].staked + CountedBehind <= bids[job.election]

IInv == TypeOK /\ PassShape /\ BidBacked
-------------------------------------------------------------------------------
(* The blank record is a record.                                           *)
LEMMA BlankType == Blank \in Record /\ Blanks \in [Elections -> Record]
  BY DEF Blank, Blanks, Record, Vias

(* Setting a field to a value of its type keeps a record a record.         *)
LEMMA RecordFields ==
  ASSUME NEW r \in Record
  PROVE  /\ \A k \in Keys \cup {NoKey} : [r EXCEPT !.key = k] \in Record
         /\ \A b \in BOOLEAN : [r EXCEPT !.restake = b] \in Record
         /\ \A m \in Modes : [r EXCEPT !.mode = m] \in Record
  BY DEF Record

LEMMA RecordStake ==
  ASSUME NEW r \in Record
  PROVE  /\ r.staked \in Nat
         /\ [r EXCEPT !.staked = r.staked + 1] \in Record
  BY DEF Record

LEMMA JoiningType ==
  ASSUME NEW r \in Record, NEW v \in Vias, mode \in Modes
  PROVE  Joining(r, v) \in Record
  <1>1. [r EXCEPT !.mode = mode, !.via = v] \in Record
    BY DEF Record
  <1>2. [r EXCEPT !.mode = mode, !.staked = r.staked + 1] \in Record
    <2>1. \A n \in Nat : [r EXCEPT !.mode = mode, !.staked = n] \in Record
      BY DEF Record
    <2>2. QED
      BY <2>1, RecordStake
  <1>3. QED
    BY <1>1, <1>2 DEF Joining

(* Dropping what is not recorded keeps the type.                           *)
LEMMA RecordedType ==
  ASSUME NEW ids, rec \in [Elections -> Record]
  PROVE  Recorded(ids) \in [Elections -> Record]
  BY BlankType DEF Recorded

LEMMA InitIInv == Init => IInv
  <1> SUFFICES ASSUME Init PROVE IInv
    OBVIOUS
  <1>1. TypeOK
    BY BlankType, SettingsAssumption
    DEF Init, TypeOK, PassLabels, NoJob, NoRequest
  <1>2. PassShape
    BY DEF Init, PassShape, SignsItsOwnElection, JoinLabels, Blanks, Blank
  <1>3. BidBacked
    BY DEF Init, BidBacked, RecordMatchesBid, JoinLabels, Blanks, Blank
  <1>4. QED
    BY <1>1, <1>2, <1>3 DEF IInv

-------------------------------------------------------------------------------
(* Types.                                                                  *)

(* Deleting keys leaves keys.                                              *)
LEMMA DeleteKeysType ==
  ASSUME NEW k, engineKeys \subseteq Keys, DeleteKeys(k)
  PROVE  engineKeys' \subseteq Keys
  BY DEF DeleteKeys

(* A bid executed for a well-formed request keeps the chain well-typed.    *)
LEMMA ExecuteBidType ==
  ASSUME TypeOK, NEW r \in Request, ExecuteBid(r)
  PROVE  /\ phase' \in [Elections -> {"future", "open", "closed"}]
         /\ matured' \subseteq Elections
         /\ stake' \in [Elections -> {"none", "locked", "credited", "returned"}]
         /\ bids' \in [Elections -> Nat]
         /\ bidKeys' \in [Elections -> SUBSET (Keys \cup {NoKey})]
  BY DEF TypeOK, ExecuteBid, Request

(* So does the payment of the credits.                                     *)
LEMMA PayCreditsType ==
  ASSUME TypeOK, PayCredits
  PROVE  /\ phase' \in [Elections -> {"future", "open", "closed"}]
         /\ matured' \subseteq Elections
         /\ stake' \in [Elections -> {"none", "locked", "credited", "returned"}]
         /\ bids' \in [Elections -> Nat]
         /\ bidKeys' \in [Elections -> SUBSET (Keys \cup {NoKey})]
  BY DEF TypeOK, PayCredits

LEMMA CleanupType ==
  ASSUME TypeOK, NEW e, CleanupElection(e)
  PROVE  /\ engineKeys' \subseteq Keys
         /\ active' = active \ {e}
         /\ rec' \in [Elections -> Record]
  BY DeleteKeysType, RecordedType DEF TypeOK, CleanupElection

LEMMA ChainType ==
  ASSUME TypeOK, Chain PROVE TypeOK'
  <1> USE DEF TypeOK, UnchangedProcess, diskVars, historyVars, joinVars, recordVars, passVars, outsideVars
  <1>1. ASSUME NEW e \in Elections, OpenElection(e) PROVE TypeOK'
    BY <1>1 DEF OpenElection
  <1>2. ASSUME NEW e \in Elections, CloseElection(e) PROVE TypeOK'
    BY <1>2 DEF CloseElection
  <1>3. ASSUME NEW e \in Elections, Mature(e) PROVE TypeOK'
    BY <1>3 DEF Mature
  <1>4. ASSUME NEW e \in Elections, CreditStake(e) PROVE TypeOK'
    BY <1>4 DEF CreditStake
  <1>5. QED
    BY <1>1, <1>2, <1>3, <1>4 DEF Chain

LEMMA ProcessType ==
  ASSUME TypeOK, PassShape, Operator \/ Crash PROVE TypeOK'
  <1> USE DEF TypeOK, chainVars, joinVars, recordVars, passVars, outsideVars, diskVars, historyVars
  <1>1. CASE Boot
    BY <1>1 DEF Boot, PassShape
  <1>2. CASE RestartDead
    BY <1>2 DEF RestartDead
  <1>3. ASSUME NEW e \in Elections, RequestRestake(e) PROVE TypeOK'
    <2>1. file' \in [Elections -> Record]
      BY <1>3 DEF RequestRestake, Record
    <2>2. restakes' \in [Elections -> Nat]
      BY <1>3 DEF RequestRestake
    <2>3. QED
      BY <1>3, <2>1, <2>2 DEF RequestRestake, UnchangedProcess, recordVars, passVars
  <1>4. CASE Crash
    BY <1>4, BlankType DEF Crash, ForgetJoins
  <1>5. QED
    BY <1>1, <1>2, <1>3, <1>4 DEF Operator

LEMMA CleanStepType ==
  ASSUME TypeOK, PassShape, CleanStep PROVE TypeOK'
  <1> USE DEF TypeOK, chainVars, joinVars, recordVars, passVars, outsideVars, diskVars, historyVars, PassLabels
  <1>1. CASE ScanActiveElections
    BY <1>1 DEF ScanActiveElections, OverIn
  <1>2. ASSUME NEW e \in Elections, CleanupDepoolElection(e) PROVE TypeOK'
    BY <1>2, CleanupType DEF CleanupDepoolElection
  <1>3. CASE DepoolElectionsCleaned
    BY <1>3 DEF DepoolElectionsCleaned
  <1>4. CASE RecoverStakes
    BY <1>4, PayCreditsType DEF RecoverStakes
  <1>5. CASE NothingToRecover
    BY <1>5 DEF NothingToRecover, LeaveForNextPass
  <1>6. CASE RecoverRaises
    BY <1>6, PayCreditsType DEF RecoverRaises, LeaveForNextPass
  <1>7. ASSUME NEW e \in Elections, ForgetRecovered(e) PROVE TypeOK'
    BY <1>7, CleanupType DEF ForgetRecovered, Done
  <1>8. CASE SelectElections
    <2>1. rec' \in [Elections -> Record]
      BY <1>8, RecordFields DEF SelectElections, FlagReset
    <2>2. ViasOf(mode) \subseteq Vias
      BY DEF ViasOf
    <2>3. todo' \subseteq Job
      BY <1>8, <2>2 DEF SelectElections, ToJoin, Job, FlagReset
    <2>4. QED
      BY <1>8, <2>1, <2>3 DEF SelectElections, FlagReset
  <1>9. QED
    BY <1>1, <1>2, <1>3, <1>4, <1>5, <1>6, <1>7, <1>8 DEF CleanStep

LEMMA JoinStepType ==
  ASSUME TypeOK, PassShape, JoinStep PROVE TypeOK'
  <1> USE DEF TypeOK, chainVars, joinVars, recordVars, passVars, outsideVars, diskVars, historyVars, PassLabels
  <1>1. ASSUME NEW j \in Job, StartJoin(j) PROVE TypeOK'
    <2>1. j.election \in Elections /\ j.via \in Vias
      BY DEF Job
    <2>2. rec' \in [Elections -> Record]
      BY <1>1, <2>1, JoiningType DEF StartJoin
    <2>3. QED
      BY <1>1, <2>2 DEF StartJoin
  <1>2. ASSUME NEW j \in Job, SkipJoin(j) PROVE TypeOK'
    <2>1. rec' \in [Elections -> Record]
      <3>1. j.election \in Elections
        BY DEF Job
      <3>2. [rec[j.election] EXCEPT !.mode = mode] \in Record
        BY <3>1, RecordFields
      <3>3. QED
        BY <1>2, <3>1, <3>2 DEF SkipJoin
    <2>2. QED
      BY <1>2, <2>1 DEF SkipJoin
  <1>3. CASE EndJoins
    BY <1>3 DEF EndJoins
  <1>4. CASE UseRecordedKeys
    BY <1>4 DEF UseRecordedKeys
  <1>5. ASSUME NEW k \in Keys \cup {NoKey}, GetNewKeys(k) PROVE TypeOK'
    <2>1. rec' \in [Elections -> Record]
      BY <1>5, RecordFields DEF GetNewKeys, PassShape, JoinLabels, Job
    <2>2. QED
      BY <1>5, <2>1 DEF GetNewKeys
  <1>6. CASE NoKeyMade
    BY <1>6 DEF NoKeyMade
  <1>7. CASE PrepareElection
    BY <1>7 DEF PrepareElection, PassShape, JoinLabels, Job, ElectionData
  <1>8. CASE SignRequest
    <2>1. job \in Job
      BY <1>8 DEF SignRequest, PassShape, JoinLabels
    <2>2. req' \in Request
      BY <1>8, <2>1 DEF SignRequest, Request, Job, Record
    <2>3. QED
      BY <1>8, <2>2 DEF SignRequest
  <1>9. CASE SubmitTransaction
    BY <1>9, ExecuteBidType DEF SubmitTransaction, PassShape
  <1>10. CASE ConfirmTransaction
    BY <1>10, ExecuteBidType DEF ConfirmTransaction, PassShape
  <1>11. CASE AnswerLost
    <2>1. req \in Request
      BY <1>11 DEF AnswerLost, PassShape
    <2>2. lost' \subseteq Elections
      BY <1>11, <2>1 DEF AnswerLost, Request
    <2>3. QED
      BY <1>11, <2>1, <2>2, ExecuteBidType DEF AnswerLost
  <1>12. CASE JoinRaises
    BY <1>12 DEF JoinRaises, JoinEnds
  <1>13. CASE RecordElection
    <2>1. job \in Job
      BY <1>13 DEF RecordElection, PassShape, JoinLabels, Appended
    <2>2. rec' \in [Elections -> Record]
      <3>1. job.election \in Elections
        BY <2>1 DEF Job
      <3>2. [rec[job.election] EXCEPT !.staked = rec[job.election].staked + 1] \in Record
        BY <3>1, RecordStake
      <3>3. \/ rec' = [rec EXCEPT ![job.election] =
                         [rec[job.election] EXCEPT !.staked = rec[job.election].staked + 1]]
            \/ rec' = [rec EXCEPT ![job.election] =
                         [rec[job.election] EXCEPT !.staked = rec[job.election].staked]]
        BY <1>13 DEF RecordElection, Appended
      <3>4. [rec[job.election] EXCEPT !.staked = rec[job.election].staked] \in Record
        BY <3>1 DEF Record
      <3>5. QED
        BY <3>1, <3>2, <3>3, <3>4
    <2>3. QED
      BY <1>13, <2>1, <2>2 DEF RecordElection, Job, Appended
  <1>14. CASE FailedJoinCleanup
    BY <1>14, CleanupType DEF FailedJoinCleanup, ForgetJoins, PassShape
  <1>15. CASE PassRaises
    BY <1>15, RecordedType DEF PassRaises, ForgetJoins, NextSleep
  <1>16. QED
    BY <1>1, <1>2, <1>3, <1>4, <1>5, <1>6, <1>7, <1>8, <1>9, <1>10, <1>11, <1>12,
       <1>13, <1>14, <1>15 DEF JoinStep

LEMMA SaveStepType ==
  ASSUME TypeOK, PassShape, SaveStep PROVE TypeOK'
  <1> USE DEF TypeOK, chainVars, joinVars, recordVars, passVars, outsideVars, diskVars, historyVars, PassLabels
  <1>1. CASE TruncateFile
    BY <1>1, BlankType DEF TruncateFile
  <1>2. CASE WriteFile
    BY <1>2, RecordedType DEF WriteFile
  <1>3. CASE SaveRaises
    BY <1>3, RecordedType DEF SaveRaises
  <1>4. QED
    BY <1>1, <1>2, <1>3 DEF SaveStep

LEMMA TypeStep ==
  ASSUME TypeOK, PassShape, [Next]_vars PROVE TypeOK'
  <1>1. ASSUME NEW ids \in {OpenIds, {}}, ReadElectionIds(ids) PROVE TypeOK'
    BY <1>1 DEF ReadElectionIds, OpenIds, TypeOK, PassLabels, chainVars, joinVars, recordVars, passVars, outsideVars, diskVars,
                historyVars
  <1>2. CASE UNCHANGED vars
    BY <1>2 DEF vars, TypeOK, chainVars, joinVars, recordVars, passVars, outsideVars, diskVars, historyVars
  <1>3. QED
    BY <1>1, <1>2, ChainType, ProcessType, CleanStepType, JoinStepType, SaveStepType
    DEF Next, RoutineStep

-------------------------------------------------------------------------------
(* Where the thread is.                                                    *)

(* PassShape speaks of these variables only.                               *)
LEMMA ShapeFrame ==
  ASSUME PassShape, UNCHANGED <<pc, active, finished, job, req, rec, file, rustData>>,
         matured \subseteq matured'
  PROVE  PassShape'
  BY DEF PassShape, SignsItsOwnElection

LEMMA ChainShape ==
  ASSUME PassShape, Chain PROVE PassShape'
  BY ShapeFrame DEF Chain, OpenElection, CloseElection, Mature, CreditStake, UnchangedProcess,
     joinVars, recordVars, passVars, outsideVars, diskVars

LEMMA ProcessShape ==
  ASSUME TypeOK, PassShape, Operator \/ Crash PROVE PassShape'
  <1> USE DEF PassShape, SignsItsOwnElection, JoinLabels, PassLabels, chainVars, joinVars, recordVars, passVars, outsideVars, diskVars
  <1>1. CASE Boot
    BY <1>1 DEF Boot
  <1>2. CASE RestartDead
    BY <1>2 DEF RestartDead
  <1>3. ASSUME NEW e \in Elections, RequestRestake(e) PROVE PassShape'
    <2>1. \A d \in Elections : file'[d].key = file[d].key
      BY <1>3 DEF RequestRestake, TypeOK, Record
    <2>2. QED
      BY <1>3, <2>1 DEF RequestRestake, UnchangedProcess, recordVars, passVars
  <1>4. CASE Crash
    BY <1>4 DEF Crash, ForgetJoins, Blanks, Blank
  <1>5. QED
    BY <1>1, <1>2, <1>3, <1>4 DEF Operator

(* A cleanup only blanks records.                                          *)
LEMMA RecordedKeys ==
  ASSUME NEW ids, NEW e \in Elections
  PROVE  Recorded(ids)[e].key \in {rec[e].key, NoKey}
  BY DEF Recorded, Blank

LEMMA CleanStepShape ==
  ASSUME TypeOK, PassShape, CleanStep PROVE PassShape'
  <1> USE DEF PassShape, SignsItsOwnElection, JoinLabels, chainVars, joinVars, recordVars, passVars, outsideVars, diskVars
  <1>1. CASE ScanActiveElections
    BY <1>1 DEF ScanActiveElections, OverIn, CanReturn
  <1>2. ASSUME NEW e \in Elections, CleanupDepoolElection(e) PROVE PassShape'
    BY <1>2, RecordedKeys DEF CleanupDepoolElection, CleanupElection
  <1>3. CASE DepoolElectionsCleaned
    BY <1>3 DEF DepoolElectionsCleaned
  <1>4. CASE RecoverStakes
    BY <1>4 DEF RecoverStakes, PayCredits
  <1>5. CASE NothingToRecover
    BY <1>5 DEF NothingToRecover, LeaveForNextPass
  <1>6. CASE RecoverRaises
    BY <1>6 DEF RecoverRaises, PayCredits, LeaveForNextPass
  <1>7. ASSUME NEW e \in Elections, ForgetRecovered(e) PROVE PassShape'
    BY <1>7, RecordedKeys DEF ForgetRecovered, CleanupElection, Done
  <1>8. CASE SelectElections
    <2>1. \A e \in Elections : rec'[e].key = rec[e].key
      BY <1>8 DEF SelectElections, TypeOK, Record, FlagReset
    <2>2. QED
      BY <1>8, <2>1 DEF SelectElections, FlagReset
  <1>9. QED
    BY <1>1, <1>2, <1>3, <1>4, <1>5, <1>6, <1>7, <1>8 DEF CleanStep

LEMMA JoiningKey ==
  ASSUME NEW r \in Record, NEW v
  PROVE  Joining(r, v).key = r.key
  BY DEF Joining, Record

LEMMA JoinStepShape ==
  ASSUME TypeOK, PassShape, JoinStep PROVE PassShape'
  <1> USE DEF PassShape, SignsItsOwnElection, JoinLabels, chainVars, joinVars, recordVars, passVars, outsideVars, diskVars
  <1>1. ASSUME NEW j \in Job, StartJoin(j) PROVE PassShape'
    <2>1. \A e \in Elections : rec'[e].key = rec[e].key
      BY <1>1, JoiningKey DEF StartJoin, TypeOK
    <2>2. QED
      BY <1>1, <2>1 DEF StartJoin
  <1>2. ASSUME NEW j \in Job, SkipJoin(j) PROVE PassShape'
    <2>1. \A e \in Elections : rec'[e].key = rec[e].key
      BY <1>2 DEF SkipJoin, TypeOK, Record
    <2>2. QED
      BY <1>2, <2>1 DEF SkipJoin
  <1>3. CASE EndJoins
    BY <1>3 DEF EndJoins
  <1>4. CASE UseRecordedKeys
    BY <1>4 DEF UseRecordedKeys, Job
  <1>5. ASSUME NEW k \in Keys \cup {NoKey}, GetNewKeys(k) PROVE PassShape'
    <2>1. Provider = "rust" => \A e \in Elections : rec'[e].key = NoKey
      BY <1>5, SettingsAssumption DEF GetNewKeys, TypeOK, Record, Job
    <2>2. QED
      BY <1>5, <2>1 DEF GetNewKeys
  <1>6. CASE NoKeyMade
    BY <1>6 DEF NoKeyMade
  <1>7. CASE PrepareElection
    BY <1>7 DEF PrepareElection, ElectionData
  <1>8. CASE SignRequest
    <2>1. job \in Job /\ job.election \in Elections
      BY <1>8 DEF SignRequest, Job
    <2>2. req' = [election |-> job.election, key |-> rec[job.election].key]
      BY <1>8, <2>1 DEF SignRequest
    <2>3. req' \in Request
      BY <2>1, <2>2 DEF TypeOK, Request, Record
    <2>4. QED
      BY <1>8, <2>2, <2>3 DEF SignRequest
  <1>9. CASE SubmitTransaction
    BY <1>9 DEF SubmitTransaction, ExecuteBid
  <1>10. CASE ConfirmTransaction
    BY <1>10 DEF ConfirmTransaction, ExecuteBid
  <1>11. CASE AnswerLost
    BY <1>11 DEF AnswerLost, ExecuteBid
  <1>12. CASE JoinRaises
    BY <1>12 DEF JoinRaises, JoinEnds
  <1>13. CASE RecordElection
    <2>1. \A e \in Elections : rec'[e].key = rec[e].key
      BY <1>13 DEF RecordElection, TypeOK, Record, Appended
    <2>2. QED
      BY <1>13, <2>1 DEF RecordElection, Appended
  <1>14. CASE FailedJoinCleanup
    BY <1>14, RecordedKeys DEF FailedJoinCleanup, CleanupElection, ForgetJoins
  <1>15. CASE PassRaises
    BY <1>15, RecordedKeys DEF PassRaises, ForgetJoins, NextSleep
  <1>16. QED
    BY <1>1, <1>2, <1>3, <1>4, <1>5, <1>6, <1>7, <1>8, <1>9, <1>10, <1>11, <1>12,
       <1>13, <1>14, <1>15 DEF JoinStep

LEMMA SaveStepShape ==
  ASSUME TypeOK, PassShape, SaveStep PROVE PassShape'
  <1> USE DEF PassShape, SignsItsOwnElection, JoinLabels, chainVars, joinVars, recordVars, passVars, outsideVars, diskVars
  <1>1. CASE TruncateFile
    BY <1>1 DEF TruncateFile, Blanks, Blank
  <1>2. CASE WriteFile
    BY <1>2, RecordedKeys DEF WriteFile
  <1>3. CASE SaveRaises
    BY <1>3, RecordedKeys DEF SaveRaises
  <1>4. QED
    BY <1>1, <1>2, <1>3 DEF SaveStep

LEMMA ShapeStep ==
  ASSUME TypeOK, PassShape, [Next]_vars PROVE PassShape'
  <1>1. ASSUME NEW ids \in {OpenIds, {}}, ReadElectionIds(ids) PROVE PassShape'
    BY <1>1 DEF ReadElectionIds, PassShape, SignsItsOwnElection, JoinLabels, chainVars, joinVars, recordVars, passVars, outsideVars,
                diskVars
  <1>2. CASE UNCHANGED vars
    BY <1>2, ShapeFrame DEF vars, chainVars, joinVars, recordVars, passVars,
       outsideVars, diskVars, historyVars
  <1>3. QED
    BY <1>1, <1>2, ChainShape, ProcessShape, CleanStepShape, JoinStepShape, SaveStepShape
    DEF Next, RoutineStep

-------------------------------------------------------------------------------
(* What is recorded was bid.                                               *)

LEMMA BackedFrame ==
  ASSUME BidBacked, UNCHANGED <<pc, mode, active, rec, job, req, saved, file, bids, bidKeys>>
  PROVE  BidBacked'
  BY DEF BidBacked, RecordMatchesBid, CountedAhead, CountedBehind

(* Between the joins the memory and the disk may be exchanged and records  *)
(* dropped or changed in what is neither key nor stake.                    *)
LEMMA BackedBetweenJoins ==
  ASSUME TypeOK, BidBacked, UNCHANGED <<bids, bidKeys>>,
         pc' \notin JoinLabels,
         \A e \in active' : bids[e] > 0 /\ rec'[e].key \in bidKeys[e],
         \A e \in saved' : bids[e] > 0 /\ file'[e].key \in bidKeys[e],
         \A e \in Elections : rec'[e].staked <= bids[e],
         \A e \in Elections : file'[e].staked <= bids[e]
  PROVE  BidBacked'
  BY DEF BidBacked, RecordMatchesBid, JoinLabels

(* Outside a join every record's stake is backed.                          *)
LEMMA IdleStakes ==
  ASSUME TypeOK, PassShape, BidBacked, pc \notin JoinLabels
  PROVE  \A e \in Elections : rec[e].staked <= bids[e]
  <1>1. job.election = NoElection
    BY DEF PassShape, NoJob
  <1>2. NoElection \notin Elections
    BY ElectionsAssumption
  <1>3. QED
    BY <1>1, <1>2 DEF BidBacked

(* Forgetting a record forgets its stake.                                  *)
LEMMA RecordedStakes ==
  ASSUME TypeOK, NEW ids, \A e \in ids \cap Elections : rec[e].staked <= bids[e]
  PROVE  \A e \in Elections : Recorded(ids)[e].staked <= bids[e]
  BY DEF TypeOK, Recorded, Blank

LEMMA RecordedMatch ==
  ASSUME TypeOK, BidBacked, NEW ids \in SUBSET active
  PROVE  \A e \in ids : bids[e] > 0 /\ Recorded(ids)[e].key \in bidKeys[e]
  BY DEF TypeOK, BidBacked, RecordMatchesBid, Recorded

LEMMA ProcessBacked ==
  ASSUME TypeOK, PassShape, BidBacked, Operator \/ Crash PROVE BidBacked'
  <1> USE DEF chainVars, diskVars, recordVars, passVars, outsideVars
  <1>1. CASE Boot
    BY <1>1, BackedBetweenJoins, IdleStakes DEF Boot, BidBacked, RecordMatchesBid, JoinLabels
  <1>2. CASE RestartDead
    BY <1>2, BackedBetweenJoins, IdleStakes
    DEF RestartDead, BidBacked, RecordMatchesBid, JoinLabels
  <1>3. ASSUME NEW e \in Elections, RequestRestake(e) PROVE BidBacked'
    <2>1. \A d \in Elections : file'[d].key = file[d].key /\ file'[d].staked = file[d].staked
      BY <1>3 DEF RequestRestake, TypeOK, Record
    <2>2. QED
      BY <1>3, <2>1, BackedBetweenJoins, IdleStakes
      DEF RequestRestake, UnchangedProcess, TypeOK, BidBacked, RecordMatchesBid,
       JoinLabels, recordVars, passVars
  <1>4. CASE Crash
    <2>1. \A e \in Elections : rec'[e].staked <= bids[e]
      BY <1>4 DEF Crash, Blanks, Blank, TypeOK
    <2>2. QED
      BY <1>4, <2>1, BackedBetweenJoins DEF Crash, BidBacked, RecordMatchesBid, JoinLabels
  <1>5. QED
    BY <1>1, <1>2, <1>3, <1>4 DEF Operator

LEMMA CleanStepBacked ==
  ASSUME TypeOK, PassShape, BidBacked, CleanStep PROVE BidBacked'
  <1> USE DEF chainVars, diskVars, JoinLabels, BidBacked, RecordMatchesBid, recordVars,
       passVars, outsideVars
  <1>1. CASE ScanActiveElections
    BY <1>1, BackedBetweenJoins, IdleStakes DEF ScanActiveElections
  <1>2. ASSUME NEW e \in Elections, CleanupDepoolElection(e) PROVE BidBacked'
    BY <1>2, BackedBetweenJoins, IdleStakes, RecordedStakes, RecordedMatch
    DEF CleanupDepoolElection, CleanupElection
  <1>3. CASE DepoolElectionsCleaned
    BY <1>3, BackedBetweenJoins, IdleStakes DEF DepoolElectionsCleaned
  <1>4. CASE RecoverStakes
    BY <1>4, BackedBetweenJoins, IdleStakes DEF RecoverStakes, PayCredits
  <1>5. CASE NothingToRecover
    BY <1>5, BackedBetweenJoins, IdleStakes DEF NothingToRecover, LeaveForNextPass
  <1>6. CASE RecoverRaises
    BY <1>6, BackedBetweenJoins, IdleStakes DEF RecoverRaises, PayCredits,
       LeaveForNextPass
  <1>7. ASSUME NEW e \in Elections, ForgetRecovered(e) PROVE BidBacked'
    BY <1>7, BackedBetweenJoins, IdleStakes, RecordedStakes, RecordedMatch
    DEF ForgetRecovered, CleanupElection, Done
  <1>8. CASE SelectElections
    <2>1. \A d \in Elections : rec'[d].key = rec[d].key /\ rec'[d].staked = rec[d].staked
      BY <1>8 DEF SelectElections, TypeOK, Record, FlagReset
    <2>2. QED
      BY <1>8, <2>1, BackedBetweenJoins, IdleStakes DEF SelectElections, TypeOK,
       FlagReset
  <1>9. QED
    BY <1>1, <1>2, <1>3, <1>4, <1>5, <1>6, <1>7, <1>8 DEF CleanStep

LEMMA SaveStepBacked ==
  ASSUME TypeOK, PassShape, BidBacked, SaveStep PROVE BidBacked'
  <1> USE DEF chainVars, diskVars, JoinLabels, BidBacked, RecordMatchesBid, recordVars,
       passVars, outsideVars
  <1>1. CASE TruncateFile
    <2>1. \A e \in Elections : file'[e].staked <= bids[e]
      BY <1>1 DEF TruncateFile, Blanks, Blank, TypeOK
    <2>2. QED
      BY <1>1, <2>1, BackedBetweenJoins, IdleStakes DEF TruncateFile
  <1>2. CASE WriteFile
    BY <1>2, BackedBetweenJoins, IdleStakes, RecordedStakes, RecordedMatch DEF WriteFile
  <1>3. CASE SaveRaises
    BY <1>3, BackedBetweenJoins, IdleStakes, RecordedStakes, RecordedMatch DEF SaveRaises
  <1>4. QED
    BY <1>1, <1>2, <1>3 DEF SaveStep

LEMMA JoiningStake ==
  ASSUME NEW r \in Record, NEW v
  PROVE  Joining(r, v).staked = r.staked + CountedAhead
  <1>1. r.staked \in Nat
    BY RecordStake
  <1>2. CASE mode = "depool"
    BY <1>1, <1>2 DEF Joining, Record, CountedAhead
  <1>3. CASE mode # "depool"
    BY <1>1, <1>3 DEF Joining, Record, CountedAhead
  <1>4. QED
    BY <1>2, <1>3

(* Stakes are numbers.                                                     *)
LEMMA StakesAreNumbers ==
  ASSUME TypeOK
  PROVE  \A e \in Elections : rec[e].staked \in Nat /\ file[e].staked \in Nat /\ bids[e] \in Nat
  <1>1. \A e \in Elections : rec[e] \in Record /\ file[e] \in Record /\ bids[e] \in Nat
    BY DEF TypeOK
  <1>2. QED
    BY <1>1, RecordStake

(* The wallet executes the bid of the join in progress.                    *)
LEMMA ExecuteBacked ==
  ASSUME TypeOK, PassShape, BidBacked, pc \in {"submit", "confirm"}, ExecuteBid(req),
         pc' \in {"record", "fail"},
         UNCHANGED <<mode, active, rec, job, req, saved, file>>
  PROVE  BidBacked'
  <1> DEFINE e == job.election
  <1>1. /\ e \in Elections /\ req.election = e
        /\ req \in Request
    BY DEF PassShape, SignsItsOwnElection, JoinLabels, Job
  <1>2. /\ bids' = [bids EXCEPT ![e] = @ + 1]
        /\ bidKeys' = [bidKeys EXCEPT ![e] = @ \cup {req.key}]
    BY <1>1 DEF ExecuteBid
  <1>3. \A d \in Elections : bids[d] <= bids'[d] /\ bidKeys[d] \subseteq bidKeys'[d]
    BY <1>1, <1>2 DEF TypeOK
  <1>4. RecordMatchesBid'
    <2>1. \A d \in Elections : bids[d] > 0 => bids'[d] > 0
      BY <1>1, <1>2 DEF TypeOK
    <2>2. QED
      BY <1>3, <2>1 DEF RecordMatchesBid, BidBacked, TypeOK
  <1>5. Provider = "cpp" => \A d \in Elections : bidKeys'[d] \subseteq Keys
    BY <1>1, <1>2 DEF BidBacked, TypeOK
  <1>6. bids'[e] = bids[e] + 1 /\ bids'[e] > 0 /\ req.key \in bidKeys'[e]
    BY <1>1, <1>2 DEF TypeOK
  <1>7. /\ \A d \in Elections \ {e} : rec[d].staked <= bids'[d]
        /\ \A d \in Elections : file[d].staked <= bids'[d]
    <2>1. \A d \in Elections : rec[d].staked \in Nat /\ file[d].staked \in Nat /\ bids'[d] \in Nat
      BY <1>1, <1>2, StakesAreNumbers DEF TypeOK
    <2>2. /\ \A d \in Elections \ {e} : rec[d].staked <= bids[d]
          /\ \A d \in Elections : file[d].staked <= bids[d]
      BY DEF BidBacked
    <2>3. \A d \in Elections : bids[d] \in Nat /\ bids[d] <= bids'[d]
      BY <1>3, StakesAreNumbers
    <2>4. \A d \in Elections \ {e} : rec[d].staked <= bids'[d]
      BY <2>1, <2>2, <2>3
    <2>5. \A d \in Elections : file[d].staked <= bids'[d]
      BY <2>1, <2>2, <2>3
    <2>6. QED
      BY <2>4, <2>5
  <1>8. rec[e].staked + CountedBehind <= bids'[e]
    BY <1>1, <1>6, StakesAreNumbers DEF BidBacked, JoinLabels, CountedAhead, CountedBehind
  <1>9. QED
    BY <1>1, <1>4, <1>5, <1>6, <1>7, <1>8 DEF BidBacked, CountedBehind, JoinLabels

LEMMA JoinStepBacked ==
  ASSUME TypeOK, PassShape, BidBacked, JoinStep PROVE BidBacked'
  <1> USE DEF chainVars, diskVars, joinVars, recordVars, passVars, outsideVars, JoinLabels
  <1>1. ASSUME NEW j \in Job, StartJoin(j) PROVE BidBacked'
    <2>1. j.election \in Elections
      BY DEF Job
    <2>2. /\ \A e \in Elections : rec'[e].key = rec[e].key
          /\ \A e \in Elections \ {j.election} : rec'[e] = rec[e]
          /\ rec'[j.election].staked = rec[j.election].staked + CountedAhead
      BY <1>1, <2>1, JoiningKey, JoiningStake DEF StartJoin, TypeOK
    <2>3. \A e \in Elections : rec[e].staked <= bids[e]
      BY <1>1, IdleStakes DEF StartJoin
    <2>4. rec'[j.election].staked <= bids[j.election] + CountedAhead
      BY <2>1, <2>2, <2>3, StakesAreNumbers DEF CountedAhead
    <2>5. QED
      BY <1>1, <2>1, <2>2, <2>3, <2>4 DEF StartJoin, BidBacked, RecordMatchesBid, CountedAhead,
         TypeOK
  <1>2. ASSUME NEW j \in Job, SkipJoin(j) PROVE BidBacked'
    <2>1. \A e \in Elections : rec'[e].key = rec[e].key /\ rec'[e].staked = rec[e].staked
      <3>1. \A r \in Record : /\ [r EXCEPT !.mode = mode].key = r.key
                              /\ [r EXCEPT !.mode = mode].staked = r.staked
        BY DEF Record
      <3>2. rec \in [Elections -> Record] /\ j.election \in Elections
        BY DEF TypeOK, Job
      <3>3. \/ rec' = rec
            \/ rec' = [rec EXCEPT ![j.election] = [rec[j.election] EXCEPT !.mode = mode]]
        BY <1>2 DEF SkipJoin
      <3>4. QED
        BY <3>1, <3>2, <3>3
    <2>2. QED
      BY <1>2, <2>1, BackedBetweenJoins, IdleStakes DEF SkipJoin, TypeOK, BidBacked, RecordMatchesBid
  <1>3. CASE EndJoins
    BY <1>3, BackedBetweenJoins, IdleStakes DEF EndJoins, BidBacked, RecordMatchesBid
  <1>4. CASE UseRecordedKeys
    BY <1>4 DEF UseRecordedKeys, BidBacked, RecordMatchesBid, CountedAhead
  <1>5. ASSUME NEW k \in Keys \cup {NoKey}, GetNewKeys(k) PROVE BidBacked'
    <2>1. job.election \in Elections
      BY <1>5 DEF GetNewKeys, PassShape, Job
    <2>2. \A e \in Elections : /\ rec'[e].staked = rec[e].staked
                               /\ e # job.election => rec'[e] = rec[e]
      BY <1>5, <2>1 DEF GetNewKeys, TypeOK, Record
    <2>3. Provider = "rust" => \A e \in Elections : rec'[e].key = rec[e].key
      BY <1>5, <2>1, SettingsAssumption DEF GetNewKeys, TypeOK, Record
    <2>4. Provider = "cpp" => job.election \notin active
      BY <1>5, KeysAssumption DEF GetNewKeys, BidBacked, RecordMatchesBid, TypeOK
    <2>5. RecordMatchesBid'
      BY <1>5, <2>2, <2>3, <2>4, SettingsAssumption
      DEF GetNewKeys, BidBacked, RecordMatchesBid, TypeOK
    <2>6. QED
      BY <1>5, <2>1, <2>2, <2>5 DEF GetNewKeys, BidBacked, CountedAhead
  <1>6. CASE NoKeyMade
    BY <1>6 DEF NoKeyMade, BidBacked, RecordMatchesBid
  <1>7. CASE PrepareElection
    BY <1>7 DEF PrepareElection, BidBacked, RecordMatchesBid, CountedAhead, ElectionData
  <1>8. CASE SignRequest
    <2>1. Provider = "cpp" => req'.key \in Keys
      BY <1>8 DEF SignRequest, TypeOK
    <2>2. QED
      BY <1>8, <2>1 DEF SignRequest, BidBacked, RecordMatchesBid, CountedAhead
  <1>9. CASE SubmitTransaction
    <2>1. CASE Custodians
      BY <1>9, <2>1 DEF SubmitTransaction, BidBacked, RecordMatchesBid, CountedAhead
    <2>2. CASE ~Custodians
      BY <1>9, <2>2, ExecuteBacked DEF SubmitTransaction
    <2>3. QED
      BY <2>1, <2>2
  <1>10. CASE ConfirmTransaction
    BY <1>10, ExecuteBacked DEF ConfirmTransaction
  <1>11. CASE AnswerLost
    BY <1>11, ExecuteBacked DEF AnswerLost
  <1>12. CASE JoinRaises
    BY <1>12 DEF JoinRaises, BidBacked, RecordMatchesBid, JoinEnds
  <1>13. CASE RecordElection
    <2>1. /\ job.election \in Elections
          /\ req.election = job.election /\ req.key = rec[job.election].key
      BY <1>13 DEF RecordElection, PassShape, SignsItsOwnElection, Job, Appended
    <2>2. /\ \A e \in Elections : rec'[e].key = rec[e].key
          /\ \A e \in Elections \ {job.election} : rec'[e].staked = rec[e].staked
          /\ rec'[job.election].staked = rec[job.election].staked + CountedBehind
      BY <1>13, <2>1, RecordStake DEF RecordElection, TypeOK, Record, CountedBehind,
       Appended
    <2>3. \A e \in Elections : rec'[e].staked <= bids[e]
      BY <1>13, <2>1, <2>2 DEF RecordElection, BidBacked, Appended
    <2>4. \A e \in active' : bids[e] > 0 /\ rec'[e].key \in bidKeys[e]
      BY <1>13, <2>1, <2>2 DEF RecordElection, BidBacked, RecordMatchesBid, TypeOK,
       Appended
    <2>5. QED
      BY <1>13, <2>3, <2>4, BackedBetweenJoins DEF RecordElection, BidBacked,
       RecordMatchesBid, Appended
  <1>14. CASE FailedJoinCleanup
    <2>1. \A e \in active' : rec[e].staked <= bids[e]
      BY <1>14 DEF FailedJoinCleanup, CleanupElection, BidBacked, TypeOK
    <2>2. \A e \in Elections : rec'[e].staked <= bids[e]
      BY <1>14, <2>1, RecordedStakes DEF FailedJoinCleanup, CleanupElection
    <2>3. \A e \in active' : bids[e] > 0 /\ rec'[e].key \in bidKeys[e]
      BY <1>14, RecordedMatch DEF FailedJoinCleanup, CleanupElection
    <2>4. QED
      BY <1>14, <2>2, <2>3, BackedBetweenJoins
      DEF FailedJoinCleanup, CleanupElection, BidBacked, RecordMatchesBid
  <1>15. CASE PassRaises
    BY <1>15, BackedBetweenJoins, IdleStakes, RecordedStakes, RecordedMatch
    DEF PassRaises, BidBacked, RecordMatchesBid, NextSleep
  <1>16. QED
    BY <1>1, <1>2, <1>3, <1>4, <1>5, <1>6, <1>7, <1>8, <1>9, <1>10, <1>11, <1>12,
       <1>13, <1>14, <1>15 DEF JoinStep

LEMMA BackedStep ==
  ASSUME TypeOK, PassShape, BidBacked, [Next]_vars PROVE BidBacked'
  <1>1. CASE Chain
    BY <1>1, BackedFrame DEF Chain, OpenElection, CloseElection, Mature, CreditStake,
       UnchangedProcess, joinVars, recordVars, passVars, outsideVars, diskVars
  <1>2. ASSUME NEW ids \in {OpenIds, {}}, ReadElectionIds(ids) PROVE BidBacked'
    BY <1>2, BackedBetweenJoins, IdleStakes
    DEF ReadElectionIds, BidBacked, RecordMatchesBid, JoinLabels, chainVars, diskVars,
       recordVars, passVars, outsideVars
  <1>3. CASE UNCHANGED vars
    BY <1>3, BackedFrame DEF vars, chainVars, joinVars, recordVars, passVars,
       outsideVars, diskVars, historyVars
  <1>4. QED
    BY <1>1, <1>2, <1>3, ProcessBacked, CleanStepBacked, JoinStepBacked, SaveStepBacked
    DEF Next, RoutineStep

-------------------------------------------------------------------------------
(* The theorems.                                                           *)

(* The invariant holds in every state of every behaviour.                  *)
THEOREM Invariance == Spec => []IInv
  <1>1. ASSUME IInv, [Next]_vars PROVE IInv'
    BY <1>1, TypeStep, ShapeStep, BackedStep DEF IInv
  <1>2. QED
    BY InitIInv, <1>1, PTL DEF Spec

(* Every variable keeps its type.                                          *)
THEOREM TypeCorrect == Spec => []TypeOK
  <1>1. IInv => TypeOK
    BY DEF IInv
  <1>2. QED
    BY Invariance, <1>1, PTL

(* What is recorded, in memory or on disk, was bid for with the recorded   *)
(* key.                                                                    *)
THEOREM RecordsAreBids == Spec => []RecordMatchesBid
  <1>1. IInv => RecordMatchesBid
    BY DEF IInv, BidBacked
  <1>2. QED
    BY Invariance, <1>1, PTL

(* A record never counts more joins than the wallet executed bids, the     *)
(* join in progress aside.                                                 *)
THEOREM StakesAreBids == Spec => []StakeBacked
  <1>1. IInv => StakeBacked
    BY DEF IInv, BidBacked, StakeBacked, TypeOK
  <1>2. QED
    BY Invariance, <1>1, PTL

(* The signed request is for the election and the key being joined, with   *)
(* either provider.                                                        *)
THEOREM SignsItsOwn == Spec => []SignsItsOwnElection
  <1>1. IInv => SignsItsOwnElection
    BY DEF IInv, PassShape
  <1>2. QED
    BY Invariance, <1>1, PTL

(* Every other step leaves the list of records alone.                      *)
LEMMA OtherStepsKeepRecords ==
  ASSUME [Next]_vars
  PROVE  \/ \E e \in Elections : CleanupDepoolElection(e) \/ ForgetRecovered(e)
         \/ FailedJoinCleanup \/ Boot \/ Crash \/ RecordElection
         \/ UNCHANGED active
  <1>1. Chain => UNCHANGED active
    BY DEF Chain, OpenElection, CloseElection, Mature, CreditStake, UnchangedProcess,
       recordVars, passVars
  <1>2. (RestartDead \/ \E e \in Elections : RequestRestake(e)) => UNCHANGED active
    BY DEF RestartDead, RequestRestake, UnchangedProcess, recordVars, passVars
  <1>3. CleanStep => \/ \E e \in Elections : CleanupDepoolElection(e) \/ ForgetRecovered(e)
                     \/ UNCHANGED active
    BY DEF CleanStep, ScanActiveElections, DepoolElectionsCleaned, RecoverStakes,
       NothingToRecover, RecoverRaises, SelectElections, LeaveForNextPass, recordVars
  <1>4. JoinStep => FailedJoinCleanup \/ RecordElection \/ UNCHANGED active
    BY DEF JoinStep, StartJoin, SkipJoin, EndJoins, UseRecordedKeys, GetNewKeys,
       NoKeyMade, PrepareElection, SignRequest, SubmitTransaction, ConfirmTransaction,
       AnswerLost, JoinRaises, PassRaises, recordVars
  <1>5. SaveStep => UNCHANGED active
    BY DEF SaveStep, TruncateFile, WriteFile, SaveRaises, recordVars
  <1>6. UNCHANGED vars => UNCHANGED active
    BY DEF vars, recordVars, passVars, outsideVars, chainVars, joinVars, diskVars,
       historyVars
  <1>7. (\E ids \in {OpenIds, {}} : ReadElectionIds(ids)) => UNCHANGED active
    BY DEF ReadElectionIds, recordVars
  <1>8. QED
    BY <1>1, <1>2, <1>3, <1>4, <1>5, <1>6, <1>7 DEF Next, RoutineStep, Operator

(* A record of an election that still runs goes only with its own failed   *)
(* join or with the process.                                               *)
THEOREM RunningRecordsStay == Spec => RunningKept
  <1> DEFINE Keeps == \A e \in active \ active' :
                          e \notin matured => pc' = "down" \/ (pc = "fail" /\ job.election = e)
  <1>1. ASSUME IInv, [Next]_vars PROVE Keeps
    <2>1. TypeOK /\ PassShape
      BY <1>1 DEF IInv
    <2>2. ASSUME NEW e \in Elections, CleanupDepoolElection(e) \/ ForgetRecovered(e) PROVE Keeps
      BY <2>1, <2>2 DEF CleanupDepoolElection, ForgetRecovered, CleanupElection,
       PassShape, Keeps, Done
    <2>3. CASE FailedJoinCleanup
      BY <2>3 DEF FailedJoinCleanup, CleanupElection, Keeps
    <2>4. CASE Boot
      BY <2>1, <2>4 DEF Boot, PassShape, Keeps
    <2>5. CASE Crash
      BY <2>5 DEF Crash, Keeps
    <2>6. CASE RecordElection
      BY <2>6 DEF RecordElection, Keeps, Appended
    <2>7. CASE UNCHANGED active
      BY <2>7 DEF Keeps
    <2>8. QED
      BY <1>1, <2>2, <2>3, <2>4, <2>5, <2>6, <2>7, OtherStepsKeepRecords
  <1>2. QED
    BY Invariance, <1>1, PTL DEF Spec, RunningKept
===============================================================================
