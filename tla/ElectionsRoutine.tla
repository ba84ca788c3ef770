--------------------------- MODULE ElectionsRoutine ---------------------------
(***************************************************************************)
(* The elections thread of TonControl: routines/elections.py with the      *)
(* records of routines/models/elections.py and the two validator providers *)
(* it drives.  One pass of the loop reads the chain, cleans up the         *)
(* elections that are over, recovers the returned stakes, joins the open   *)
(* elections and saves its records; between any two of these steps the     *)
(* chain moves on and the process may be killed.                           *)
(*                                                                         *)
(* Stakes are counted in units of one join: what a record or a file says   *)
(* was staked is the number of joins it counted.                           *)
(***************************************************************************)
EXTENDS Naturals, FiniteSets

CONSTANTS
    Elections,     \* election ids: the unix time validation starts at
    Depools,       \* DEPOOL_LIST, as positive numbers
    Keys,          \* key hashes the C++ engine can mint
    NoKey,         \* the falsy key: None from the C++ engine, "" from the Rust provider
    Provider,      \* TON_VALIDATOR_TYPE: "rust" or "cpp"
    Modes,         \* the TON_CONTROL_ELECTION_MODE values the settings may hold at a start
    Custodians,    \* TRUE: the wallet waits for confirmations, seeds are configured
    SkipsAllowed,  \* TRUE: balance, min stake, prudent settings or events may veto a join
    Prompt,        \* TRUE: the elector credits stakes before the local clock says "reward"
    MaxFaults,     \* bound: crashes, lost answers and failed saves
    MaxRestakes,   \* bound: restake requests per election
    MaxBids        \* bound: bids the wallet executes per election

NoElection == 0
Wallet     == 0    \* the way a direct stake goes: no depool in between
Vias       == {Wallet} \cup Depools

ASSUME ElectionsAssumption == Elections \subseteq Nat \ {NoElection}
ASSUME DepoolsAssumption   == Depools \subseteq Nat \ {Wallet}
ASSUME KeysAssumption      == NoKey \notin Keys
ASSUME SettingsAssumption  == /\ Provider \in {"cpp", "rust"}
                              /\ Modes \subseteq {"off", "validator", "depool"}
                              /\ Modes # {}
                              /\ {Custodians, SkipsAllowed, Prompt} \subseteq BOOLEAN
ASSUME BoundsAssumption    == {MaxFaults, MaxRestakes, MaxBids} \subseteq Nat

VARIABLES
    \* the chain: the elector, the wallet contract and the local clock
    phase,       \* where the elector stands with each election
    matured,     \* elections whose reward time is behind the local clock
    stake,       \* our stake in each election, as the elector sees it
    bids,        \* how many of our bid transactions the wallet executed
    bidKeys,     \* the keys those bids named
    \* the validator engine
    engineKeys,
    \* the process
    pc,          \* where the thread is; "down" when there is no process
    mode,        \* _election_mode
    active,      \* ids of the records in _active_elections
    rec,         \* the Election objects, recorded or being joined
    seen,        \* election_ids, as read at the start of the pass
    finished,    \* finished_elections still to be dealt with
    todo,        \* joins still to do: depool by depool, election by election
    job,         \* the join in progress
    rustData,    \* RustValidator._election_data
    req,         \* the signed request about to be sent
    \* active_elections.json
    fileState, saved, file,
    \* history: what happened that bounds and properties speak of
    faults, restakes, lost

chainVars   == <<phase, matured, stake, bids, bidKeys>>
joinVars    == <<todo, job, rustData, req>>
diskVars    == <<fileState, saved, file>>
historyVars == <<faults, restakes, lost>>
recordVars  == <<active, rec>>
passVars    == <<seen, finished, joinVars>>
outsideVars == <<chainVars, engineKeys, diskVars, historyVars>>
vars == <<outsideVars, pc, mode, recordVars, passVars>>

Record == [key : Keys \cup {NoKey}, staked : Nat, restake : BOOLEAN,
           mode : {"none"} \cup Modes, via : Vias]
Blank  == [key |-> NoKey, staked |-> 0, restake |-> FALSE,
           mode |-> "none", via |-> Wallet]
Blanks == [e \in Elections |-> Blank]
Job    == [via : Vias, election : Elections]
NoJob  == [via |-> Wallet, election |-> NoElection]
Request == [election : Elections, key : Keys \cup {NoKey}]
NoRequest == [election |-> NoElection, key |-> NoKey]

PassLabels == {"scan", "clean", "recover", "forget", "select", "join", "keys",
               "prepare", "sign", "submit", "confirm", "record", "fail", "save", "write"}
JoinLabels == {"keys", "prepare", "sign", "submit", "confirm", "record", "fail"}

Init ==
    /\ phase = [e \in Elections |-> "future"]
    /\ matured = {}
    /\ stake = [e \in Elections |-> "none"]
    /\ bids = [e \in Elections |-> 0]
    /\ bidKeys = [e \in Elections |-> {}]
    /\ engineKeys = {}
    /\ pc = "down" /\ mode \in Modes
    /\ active = {} /\ rec = Blanks /\ seen = {} /\ finished = {}
    /\ todo = {} /\ job = NoJob /\ rustData = NoElection /\ req = NoRequest
    /\ fileState = "absent" /\ saved = {} /\ file = Blanks
    /\ faults = 0 /\ restakes = [e \in Elections |-> 0] /\ lost = {}

-------------------------------------------------------------------------------
(* The chain.  The elector runs one election at a time; validation, the    *)
(* hold of the stake and the next elections overlap.                       *)

OpenIds  == {e \in Elections : phase[e] = "open"}
Credited == {e \in Elections : stake[e] = "credited"}

UnchangedProcess == UNCHANGED <<pc, mode, recordVars, passVars>>

OpenElection(e) ==
    /\ phase[e] = "future" /\ OpenIds = {}
    /\ \A d \in Elections : d < e => phase[d] # "future"
    /\ phase' = [phase EXCEPT ![e] = "open"]
    /\ UnchangedProcess
    /\ UNCHANGED <<matured, stake, bids, bidKeys, engineKeys, diskVars, historyVars>>

CloseElection(e) ==
    /\ phase[e] = "open"
    /\ phase' = [phase EXCEPT ![e] = "closed"]
    /\ UnchangedProcess
    /\ UNCHANGED <<matured, stake, bids, bidKeys, engineKeys, diskVars, historyVars>>

(* A postponed election may still be open when its planned reward time     *)
(* passes, unless Prompt.                                                  *)
Mature(e) ==
    /\ phase[e] # "future" /\ e \notin matured
    /\ Prompt => phase[e] = "closed" /\ stake[e] # "locked"
    /\ matured' = matured \cup {e}
    /\ UnchangedProcess
    /\ UNCHANGED <<phase, stake, bids, bidKeys, engineKeys, diskVars, historyVars>>

CreditStake(e) ==
    /\ phase[e] = "closed" /\ stake[e] = "locked"
    /\ stake' = [stake EXCEPT ![e] = "credited"]
    /\ UnchangedProcess
    /\ UNCHANGED <<phase, matured, bids, bidKeys, engineKeys, diskVars, historyVars>>

(* The wallet executes the bid of request r: the elector takes the stake   *)
(* of an open election and bounces any other.                              *)
ExecuteBid(r) ==
    /\ bids[r.election] < MaxBids
    /\ bids' = [bids EXCEPT ![r.election] = @ + 1]
    /\ bidKeys' = [bidKeys EXCEPT ![r.election] = @ \cup {r.key}]
    /\ stake' = IF phase[r.election] = "open" /\ stake[r.election] = "none"
                THEN [stake EXCEPT ![r.election] = "locked"] ELSE stake
    /\ UNCHANGED <<phase, matured>>

(* The wallet executes a recover request: every credited stake comes home. *)
PayCredits ==
    /\ stake' = [e \in Elections |->
                    IF stake[e] = "credited" THEN "returned" ELSE stake[e]]
    /\ UNCHANGED <<phase, matured, bids, bidKeys>>

-------------------------------------------------------------------------------
(* Start, restart and the file.                                            *)

ForgetJoins == todo' = {} /\ job' = NoJob /\ req' = NoRequest

(* load_active_elections runs before the loop's try: a file that does not  *)
(* parse ends the thread, while main keeps printing that it is alive.      *)
Boot ==
    /\ pc = "down"
    /\ mode' \in Modes
    /\ IF fileState = "torn"
       THEN pc' = "dead" /\ UNCHANGED recordVars
       ELSE pc' = "idle" /\ active' = saved /\ rec' = file
    /\ UNCHANGED <<outsideVars, passVars>>

Crash ==
    /\ pc \in {"idle"} \cup PassLabels /\ faults < MaxFaults
    /\ pc' = "down" /\ active' = {} /\ rec' = Blanks
    /\ seen' = {} /\ finished' = {} /\ rustData' = NoElection /\ ForgetJoins
    /\ faults' = faults + 1
    /\ UNCHANGED <<chainVars, engineKeys, mode, diskVars, restakes, lost>>

(* A restart of the container whose thread is dead. *)
RestartDead ==
    /\ pc = "dead" /\ pc' = "down"
    /\ UNCHANGED <<outsideVars, mode, recordVars, passVars>>

(* Nothing in the program sets "restake": it is an edit of the file.       *)
RequestRestake(e) ==
    /\ pc = "down" /\ fileState = "ok" /\ e \in saved /\ ~file[e].restake
    /\ restakes[e] < MaxRestakes
    /\ file' = [file EXCEPT ![e].restake = TRUE]
    /\ restakes' = [restakes EXCEPT ![e] = @ + 1]
    /\ UnchangedProcess
    /\ UNCHANGED <<chainVars, engineKeys, fileState, saved, faults, lost>>

-------------------------------------------------------------------------------
(* One pass.  A pass that is not synced, or fails before the ids are read, *)
(* changes nothing and has no action.                                      *)

CanReturn(e) == e \in matured

\* Mutation: the reward time is not checked.
OverInWithoutCanReturn(ids) == {e \in active : e \notin ids}

\* Mutation: clean up only when some election is open.
OverInDuringElections(ids) == {e \in active : ids # {} /\ e \notin ids /\ CanReturn(e)}

OverIn(ids) == {e \in active : e \notin ids /\ CanReturn(e)}

(* An answer without a "Result" reads as "no elections".                   *)
ReadElectionIds(ids) ==
    /\ pc = "idle"
    /\ seen' = ids
    /\ pc' = "scan"
    /\ UNCHANGED <<outsideVars, mode, recordVars, finished, joinVars>>

ScanActiveElections ==
    /\ pc = "scan"
    /\ finished' = OverIn(seen)
    /\ pc' = "clean"
    /\ UNCHANGED <<outsideVars, mode, recordVars, seen, joinVars>>

(* delete_temp_key and delete_key: the Rust provider does nothing, the C++ *)
(* one ignores the command's return code.                                  *)
DeleteKeys(k) ==
    \/ Provider = "cpp" /\ k # NoKey /\ engineKeys' = engineKeys \ {k}
    \/ UNCHANGED engineKeys

(* The Election objects _active_elections still refers to.                 *)
Recorded(ids) == [e \in Elections |-> IF e \in ids THEN rec[e] ELSE Blank]

\* Mutation: the keys go, the record stays.
CleanupKeysOnly(e) ==
    DeleteKeys(rec[e].key) /\ active' = active /\ rec' = Recorded(active)

CleanupElection(e) ==
    /\ DeleteKeys(rec[e].key)
    /\ active' = active \ {e}
    /\ rec' = Recorded(active')

CleanupDepoolElection(e) ==
    /\ pc = "clean" /\ e \in finished /\ rec[e].mode = "depool"
    /\ CleanupElection(e)
    /\ finished' = finished \ {e}
    /\ UNCHANGED <<chainVars, pc, mode, seen, joinVars, diskVars, historyVars>>

DepoolElectionsCleaned ==
    /\ pc = "clean" /\ \A e \in finished : rec[e].mode # "depool"
    /\ pc' = IF finished = {} THEN "select" ELSE "recover"
    /\ UNCHANGED <<outsideVars, mode, recordVars, passVars>>

(* compute_returned_stakes: the lite client drops a zero amount, the Rust  *)
(* provider returns [0], which is true.                                    *)
SomethingToRecover == Provider = "rust" \/ Credited # {}

\* Mutation: the keys and records go whether or not the request was made.
ForgetAnyway == UNCHANGED finished /\ pc' = IF finished = {} THEN "select" ELSE "forget"

\* what is kept for the next pass
LeaveForNextPass == finished' = {} /\ pc' = "select"

RecoverStakes ==
    /\ pc = "recover" /\ SomethingToRecover
    /\ IF Custodians THEN UNCHANGED chainVars ELSE PayCredits
    /\ pc' = "forget"
    /\ UNCHANGED <<engineKeys, mode, recordVars, passVars, diskVars, historyVars>>

NothingToRecover ==
    /\ pc = "recover" /\ ~SomethingToRecover
    /\ LeaveForNextPass
    /\ UNCHANGED <<outsideVars, mode, recordVars, seen, joinVars>>

(* The exception is logged and the pass goes on with the records kept; the *)
(* request may have been executed all the same.                            *)
RecoverRaises ==
    /\ pc = "recover"
    /\ \/ UNCHANGED <<chainVars, faults>>
       \/ /\ SomethingToRecover /\ ~Custodians /\ faults < MaxFaults
          /\ PayCredits
          /\ faults' = faults + 1
    /\ LeaveForNextPass
    /\ UNCHANGED <<engineKeys, mode, recordVars, seen, joinVars, diskVars, restakes,
                   lost>>

\* Mutation: the list is not consumed.
NotDone(e) == UNCHANGED finished

Done(e) == finished' = finished \ {e}

ForgetRecovered(e) ==
    /\ pc = "forget" /\ e \in finished
    /\ CleanupElection(e)
    /\ Done(e)
    /\ pc' = IF finished' = {} THEN "select" ELSE "forget"
    /\ UNCHANGED <<chainVars, mode, seen, joinVars, diskVars, historyVars>>

\* Mutation: what is recorded is joined again.
ToJoinAgain(ids) == ids

ToJoin(ids) == {e \in ids : e \notin active \/ rec[e].restake}

ViasOf(m) == {v \in Vias : \/ m = "validator" /\ v = Wallet
                           \/ m = "depool" /\ v \in Depools}

\* Mutation: the restake flag is not reset.
FlagKept(r) == r

FlagReset(r) == [r EXCEPT !.restake = FALSE]

SelectElections ==
    /\ pc = "select"
    /\ rec' = [e \in Elections |->
                  IF e \in ToJoin(seen) THEN FlagReset(rec[e]) ELSE rec[e]]
    /\ todo' = [via : ViasOf(mode), election : ToJoin(seen)]
    /\ pc' = IF todo' = {} THEN "save" ELSE "join"
    /\ seen' = {}
    /\ UNCHANGED <<outsideVars, mode, active, finished, job, rustData, req>>

-------------------------------------------------------------------------------
(* Joining one election: _join_elections_*_mode and                        *)
(* _sign_and_join_elections.                                               *)

\* Mutation: the stake is counted in advance in both modes.
JoiningCounted(r, via) == [r EXCEPT !.mode = mode, !.via = via, !.staked = r.staked + 1]

(* What each mode notes in the Election object r before it signs; only     *)
(* validator mode counts the stake already.                                *)
Joining(r, via) ==
    IF mode = "depool" THEN [r EXCEPT !.mode = mode, !.via = via]
                       ELSE [r EXCEPT !.mode = mode, !.staked = r.staked + 1]

(* tonos-cli answers the minimal stake as text, which no stake compares    *)
(* with: on a Rust node validator mode gets no further (PassRaises).       *)
StartJoin(j) ==
    /\ pc = "join" /\ j \in todo
    /\ mode = "validator" => Provider = "cpp"
    /\ job' = j
    /\ todo' = todo \ {j}
    /\ rec' = [rec EXCEPT ![j.election] = Joining(@, j.via)]
    /\ pc' = "keys"
    /\ UNCHANGED <<outsideVars, mode, active, seen, finished, rustData, req>>

(* No signing event in the depool, a deferral by the prudent settings or   *)
(* too small a balance; below the minimal stake the mode is set already.   *)
SkipJoin(j) ==
    /\ pc = "join" /\ j \in todo /\ SkipsAllowed
    /\ todo' = todo \ {j}
    /\ \/ UNCHANGED rec
       \/ mode = "validator" /\ rec' = [rec EXCEPT ![j.election].mode = mode]
    /\ UNCHANGED <<outsideVars, pc, mode, active, seen, finished, job, rustData, req>>

EndJoins ==
    /\ pc = "join" /\ todo = {}
    /\ pc' = "save"
    /\ UNCHANGED <<outsideVars, mode, recordVars, passVars>>

(* newkey never answers with a hash a bid, a record or the file refers to. *)
(* Keys in the engine that nothing refers to any more are not told apart.  *)
FreshKeys == Keys \ UNION {bidKeys[e] \cup {rec[e].key, file[e].key} : e \in Elections}

UseRecordedKeys ==
    /\ pc = "keys" /\ rec[job.election].key # NoKey
    /\ pc' = "sign"
    /\ UNCHANGED <<outsideVars, mode, recordVars, passVars>>

GetNewKeys(k) ==
    /\ pc = "keys" /\ rec[job.election].key = NoKey
    /\ k \in IF Provider = "cpp" THEN FreshKeys ELSE {NoKey}
    /\ rec' = [rec EXCEPT ![job.election].key = k]
    /\ engineKeys' = engineKeys \cup ({k} \ {NoKey})
    /\ pc' = "prepare"
    /\ UNCHANGED <<chainVars, mode, active, passVars, diskVars, historyVars>>

(* newkey's output holds no key: None is used as if it were one and the    *)
(* engine refuses to prepare it.                                           *)
NoKeyMade ==
    /\ pc = "keys" /\ rec[job.election].key = NoKey /\ Provider = "cpp"
    /\ pc' = "fail"
    /\ UNCHANGED <<outsideVars, mode, recordVars, passVars>>

\* Mutation: the election data of the first preparation is kept.
FirstElectionData == IF rustData = NoElection THEN job.election ELSE rustData

ElectionData == job.election

PrepareElection ==
    /\ pc = "prepare"
    /\ rustData' = IF Provider = "rust" THEN ElectionData ELSE rustData
    /\ pc' = "sign"
    /\ UNCHANGED <<outsideVars, mode, recordVars, seen, finished, todo, job, req>>

(* The Rust console signs for the election of the last preparation.        *)
SignRequest ==
    /\ pc = "sign"
    /\ IF Provider = "rust" THEN rustData # NoElection
                            ELSE rec[job.election].key \in engineKeys
    /\ req' = IF Provider = "rust"
              THEN [election |-> rustData, key |-> NoKey]
              ELSE [election |-> job.election, key |-> rec[job.election].key]
    /\ pc' = "submit"
    /\ UNCHANGED <<outsideVars, mode, recordVars, seen, finished, todo, job, rustData>>

(* A wallet with custodians only queues the transaction.                   *)
SubmitTransaction ==
    /\ pc = "submit"
    /\ IF Custodians THEN pc' = "confirm" /\ UNCHANGED chainVars
                     ELSE pc' = "record" /\ ExecuteBid(req)
    /\ UNCHANGED <<engineKeys, mode, recordVars, passVars, diskVars, historyVars>>

ConfirmTransaction ==
    /\ pc = "confirm"
    /\ ExecuteBid(req)
    /\ pc' = "record"
    /\ UNCHANGED <<engineKeys, mode, recordVars, passVars, diskVars, historyVars>>

(* The call that makes the wallet execute was carried out, its answer was  *)
(* lost: to the routine it failed.                                         *)
AnswerLost ==
    /\ pc = IF Custodians THEN "confirm" ELSE "submit"
    /\ faults < MaxFaults
    /\ ExecuteBid(req)
    /\ faults' = faults + 1 /\ lost' = lost \cup {req.election}
    /\ pc' = "fail"
    /\ UNCHANGED <<engineKeys, mode, recordVars, passVars, diskVars, restakes>>

\* Mutation: the exception is swallowed.
JoinGoesOn == "record"

JoinEnds == "fail"

JoinRaises ==
    /\ pc \in {"prepare", "sign", "submit", "confirm"}
    /\ pc' = JoinEnds
    /\ UNCHANGED <<outsideVars, mode, recordVars, passVars>>

\* Mutation: the election is not appended.
NotAppended(e) == active

Appended(e) == active \cup {e}

RecordElection ==
    /\ pc = "record"
    /\ active' = Appended(job.election)
    /\ rec' = [rec EXCEPT ![job.election].staked = IF mode = "depool" THEN @ + 1 ELSE @]
    /\ job' = NoJob /\ req' = NoRequest
    /\ pc' = "join"
    /\ UNCHANGED <<outsideVars, mode, seen, finished, todo, rustData>>

(* The failed join takes its keys, its record and the rest of the pass     *)
(* with it, the save included.                                             *)
FailedJoinCleanup ==
    /\ pc = "fail"
    /\ CleanupElection(job.election)
    /\ ForgetJoins
    /\ pc' = "idle"
    /\ UNCHANGED <<chainVars, mode, seen, finished, rustData, diskVars, historyVars>>

(* A read of the chain or of a depool raises.                              *)
\* Mutation: the exception leaves the loop.
ThreadEnds == "dead"

NextSleep == "idle"

PassRaises ==
    /\ pc \in {"select", "join"}
    /\ pc' = NextSleep /\ seen' = {}
    /\ ForgetJoins
    /\ rec' = Recorded(active)
    /\ UNCHANGED <<outsideVars, mode, active, finished, rustData>>

-------------------------------------------------------------------------------
(* save_active_elections: open(.., "w") truncates, the write follows.      *)

TruncateFile ==
    /\ pc = "save"
    /\ fileState' = "torn" /\ saved' = {} /\ file' = Blanks
    /\ pc' = "write"
    /\ UNCHANGED <<chainVars, engineKeys, mode, recordVars, passVars, historyVars>>

WriteFile ==
    /\ pc = "write"
    /\ fileState' = "ok" /\ saved' = active
    /\ file' = Recorded(active)
    /\ rec' = file'
    /\ pc' = "idle"
    /\ UNCHANGED <<chainVars, engineKeys, mode, active, passVars, historyVars>>

SaveRaises ==
    /\ pc \in {"save", "write"} /\ faults < MaxFaults
    /\ faults' = faults + 1
    /\ rec' = Recorded(active)
    /\ pc' = "idle"
    /\ UNCHANGED <<chainVars, engineKeys, mode, active, passVars, diskVars, restakes,
                   lost>>

-------------------------------------------------------------------------------
Chain ==
    \E e \in Elections : OpenElection(e) \/ CloseElection(e) \/ Mature(e) \/ CreditStake(e)

CleanStep ==
    \/ ScanActiveElections
    \/ \E e \in Elections : CleanupDepoolElection(e)
    \/ DepoolElectionsCleaned
    \/ RecoverStakes \/ NothingToRecover \/ RecoverRaises
    \/ \E e \in Elections : ForgetRecovered(e)
    \/ SelectElections

JoinStep ==
    \/ \E j \in Job : StartJoin(j) \/ SkipJoin(j)
    \/ EndJoins
    \/ UseRecordedKeys \/ (\E k \in Keys \cup {NoKey} : GetNewKeys(k)) \/ NoKeyMade
    \/ PrepareElection \/ SignRequest
    \/ SubmitTransaction \/ ConfirmTransaction \/ AnswerLost \/ JoinRaises
    \/ RecordElection \/ FailedJoinCleanup \/ PassRaises

SaveStep == TruncateFile \/ WriteFile \/ SaveRaises

RoutineStep ==
    \/ \E ids \in {OpenIds, {}} : ReadElectionIds(ids)
    \/ CleanStep \/ JoinStep \/ SaveStep

Operator == Boot \/ RestartDead \/ \E e \in Elections : RequestRestake(e)

Next == Chain \/ RoutineStep \/ Operator \/ Crash

Spec == Init /\ [][Next]_vars

-------------------------------------------------------------------------------
(* Properties.                                                             *)

(* Every variable keeps its type.                                          *)
TypeOK ==
    /\ phase \in [Elections -> {"future", "open", "closed"}]
    /\ matured \subseteq Elections
    /\ stake \in [Elections -> {"none", "locked", "credited", "returned"}]
    /\ bids \in [Elections -> Nat]
    /\ bidKeys \in [Elections -> SUBSET (Keys \cup {NoKey})]
    /\ engineKeys \subseteq Keys
    /\ pc \in PassLabels \cup {"down", "dead", "idle"}
    /\ mode \in Modes
    /\ active \subseteq Elections /\ rec \in [Elections -> Record]
    /\ seen \subseteq Elections /\ finished \subseteq active
    /\ todo \subseteq Job /\ job \in Job \cup {NoJob}
    /\ rustData \in Elections \cup {NoElection}
    /\ req \in Request \cup {NoRequest}
    /\ fileState \in {"absent", "ok", "torn"}
    /\ saved \subseteq Elections /\ file \in [Elections -> Record]
    /\ faults \in Nat /\ restakes \in [Elections -> Nat] /\ lost \subseteq Elections

(* Whatever is recorded, in memory or in the file, was bid for with the    *)
(* recorded key: no crash, lost answer or failed pass makes the routine    *)
(* count itself in an election it sent nothing to (elections.py:165-170,   *)
(* 193-199: the record is appended only after the join returned).          *)
RecordMatchesBid ==
    /\ \A e \in active : bids[e] > 0 /\ rec[e].key \in bidKeys[e]
    /\ \A e \in saved : bids[e] > 0 /\ file[e].key \in bidKeys[e]

(* The stake a record counts was bid as often as it is counted, except for *)
(* the join in progress, which validator mode counts in advance            *)
(* (elections.py:163, 197).                                                *)
StakeBacked ==
    /\ \A e \in active \ {job.election} : rec[e].staked <= bids[e]
    /\ \A e \in saved : file[e].staked <= bids[e]

(* The request that leaves for the wallet names the election and the key   *)
(* of the join in progress, with the data kept in the Rust provider        *)
(* (rust_validator.py:39-57) or in the record (elections.py:220-253).      *)
SignsItsOwnElection ==
    pc \in {"submit", "confirm", "record"} =>
        req = [election |-> job.election, key |-> rec[job.election].key]

(* The engine keeps the keys of every stake the elector holds until the    *)
(* election is over, whatever crashes in between; only a lost answer or a  *)
(* restake that fails may cost them (elections.py:90-96, 172-176).         *)
LiveKeysKept ==
    \A e \in Elections \ (lost \cup matured) :
        stake[e] = "locked" /\ restakes[e] = 0 => bidKeys[e] \subseteq engineKeys

(* One bid per election, one more for each restake asked for, and one more *)
(* for each fault: no order of passes, failures and saves bids twice on    *)
(* its own (elections.py:362-373, with one way to stake).  An election past *)
(* its planned reward time is exempt: if it was postponed, an unreadable   *)
(* answer makes it look over and a readable one makes it look new.         *)
BidsAccountedFor ==
    \A e \in Elections \ matured : bids[e] <= 1 + restakes[e] + faults

(* Without faults a stake the elector holds for us is in the records, or   *)
(* about to be (elections.py:343-353, 530-571).                            *)
StakeTracked ==
    \A e \in Elections :
        stake[e] \in {"locked", "credited"} =>
            e \in active \/ (pc = "record" /\ job.election = e)

(* Without faults an election is bid for once, and memory and file count   *)
(* exactly that stake, whichever passes and saves lie in between           *)
(* (elections.py:163, 193-199, 362-373).                                   *)
StakeExact ==
    /\ \A e \in Elections : bids[e] <= 1
    /\ \A e \in active : rec[e].staked = bids[e]
    /\ \A e \in saved : file[e].staked = bids[e]

(* No step but a failed join of its own or the end of the process drops a  *)
(* record whose election still runs or is not yet due (elections.py:336).  *)
RunningKept ==
    [][\A e \in active \ active' :
          e \notin matured => pc' = "down" \/ (pc = "fail" /\ job.election = e)]_vars

(* A record is given up after a recovery only once the elector has paid    *)
(* what it owed for it (elections.py:546-560).                             *)
ForgetsOnlyPaid ==
    [][\A e \in active \ active' : pc = "forget" => stake[e] # "credited"]_vars

-------------------------------------------------------------------------------
(* Fairness.  The routine's thread is always scheduled and the container   *)
(* restarts.  Every pass repeats the calls of the last one, so a call that *)
(* is made again and again succeeds again and again.                       *)

ProgressFairness ==
    /\ WF_vars(RoutineStep)
    /\ WF_vars(Boot)
    /\ SF_vars(ReadElectionIds(OpenIds))
    /\ SF_vars(RecoverStakes)
    /\ SF_vars(SelectElections /\ todo' # {})
    /\ SF_vars(\E j \in Job : StartJoin(j))
    /\ SF_vars(\E k \in Keys \cup {NoKey} : GetNewKeys(k))
    /\ SF_vars(PrepareElection) /\ SF_vars(SignRequest)
    /\ SF_vars(SubmitTransaction) /\ SF_vars(ConfirmTransaction)
    /\ \A e \in Elections : WF_vars(Mature(e)) /\ WF_vars(CreditStake(e))

FairSpec == Spec /\ ProgressFairness

(* An election that stays open is joined in the end.                       *)
OpenIsJoined ==
    \A e \in Elections : phase[e] = "open" ~> (phase[e] # "open" \/ e \in active)

(* A stake the elector gives back comes home in the end.                   *)
CreditComesHome ==
    \A e \in Elections : stake[e] = "credited" ~> stake[e] = "returned"

(* Without faults, with a prompt elector and a wallet of its own, the      *)
(* routine keeps account of its stakes as StakeKeeping promises: from the  *)
(* bid, before the record is appended, until the stake is home             *)
(* (elections.py:163-172, 336-353, 537-566).                               *)
Keeping ==
    INSTANCE StakeKeeping
    WITH kept   <- active \cup IF pc = "record" THEN {job.election} ELSE {},
         locked <- {e \in Elections : stake[e] = "locked"},
         due    <- Credited

ImplementsStakeKeeping == Keeping!Spec
===============================================================================
