# Verification of SUTON's TonControl

SUTON deploys and runs a TON validator: a node in one container, *TonControl* in another.
TonControl decides, every fifteen minutes, which elections to stake in, through which depool and
with which keys, keeps its records in a file, tops depools up, wakes them, recovers stakes, and
reports to logstash. It talks to the chain and to the node through command line tools, any of
which may fail, or fail after the chain executed what it asked for. These modules model that
program, check it with TLC on small instances and prove the central invariants for all of them
with TLAPS. Paths below are relative to `src/src/suton/`.

## 1. The system

| Part | State it keeps | Operations | Interacts with |
|---|---|---|---|
| Elections routine (`toncontrol/routines/elections.py`), one thread | `_active_elections`, the file `active_elections.json` | one pass: sync check, reads, cleanup, recovery, selection, joins, top-ups, ticktocks, save | everything below |
| Election records (`routines/models/elections.py`) | ids, key, stake, join time, restake flag, times | `can_return`, JSON form; an operator may set `restake` in the file | routine, file |
| Validator providers (`routines/validator_providers/`) | Rust: `_election_data` | keys, preparation, signing, ids, returned stakes | engine console, tonos-cli, lite client |
| Depool and replenish settings (`settings/depool_settings/`) | `_last_ticktock`, `_last_replenishment_time`, in memory | set and read by the routine | routine |
| Prudent settings | none | offset and threshold | routine |
| tonos-cli wrapper (`tonlibs/tonoscli/core.py`) | its configuration file, ABI files | submit, confirm, replenish, ticktock, queries | wallet, elector, depools |
| Rust console wrapper (`tonlibs/rustconsole/core.py`) | key cache, `conf_*` files | `_read_key`, `_get_exec_config`, `_run_command` | the node, the key volume |
| Lite client, C++ console, fift (`tonlibs/tonliteclient`, `tonvalidator`, `tonfift`) | none (keys are the engine's) | newkey, delpermkey, sign, ids, returned stakes | C++ node |
| Node container (`docker/rustvalidator/entry.sh`) | `config.json` in the container, the database on the host, the keys on a volume | bring-up | docker, TonControl |
| TonControl process (`toncontrol/main.py`, `docker/toncontrol/entry.sh`) | none | checks the keys, starts the routines, says "Still alive" | docker |
| Telemetry (`toncontrol/logstash/client.py`), one thread | a queue | `send_data`, `_process_data` | routine, logstash |
| Queue routine, wallet management, election providers | none | the first sleeps for ever, the second is not started, the third is never called | - |
| Manage tool (`core.py`, `services.py`, `ssh_client.py`) | none | uploads over SSH, `docker-compose up` | the host, the containers |
| Settings and their JSON form (`settings/`, `toncommon/serialization/json.py`) | `NodeSettings` beside `manage.py` | to JSON, through the environment and the arguments of `main.py` | TonControl |
| Secrets (`toncontrol/secrets/`, `toncommon/contextmanager.py`) | the key they are encrypted with, in a volume | decryption, log filter | settings, TonControl's `entry.sh` |

What is hard here: the process and the chain move at the same time, and the process may be killed
between any two of its steps while its file is written in place; a call may fail after it had
its effect; an unreadable answer reads as "no elections"; an exception anywhere ends the pass and
skips its save; all depools, and both ways of staking, share records and keys; rates and offsets
are measured against a pass whose length nobody controls; the node's bring-up writes several
files that only belong together when all of them were written; and caches hold what other
containers change. `PROJECT.json` lists these as hazards, each at its line.

What makes each part correct:

- **Elections routine and records.** What is recorded was bid for, with the recorded key; a bid is
  not repeated by the program's own doing; keys of stakes at the elector are kept; a record stays
  until its stake is paid; an open election is joined, a credited stake comes home.
- **Providers.** A request names the election and the key of its own join.
- **Depool upkeep.** Top-ups and ticktocks keep their periods; a depool that is short is topped up
  and then woken.
- **Prudent settings and amounts.** Deferring a stake does not miss the election; a stake that
  passes the comparison with the others' is among the winning ones; what is announced is sent.
- **Telemetry.** Nothing is sent twice or invented, none disappears uncounted, losses are bounded,
  nothing stays for ever.
- **Bring-up and console.** The keys on the volume open the node; restarts do not change them;
  a cached key is what its file holds; caches do not shut TonControl out.
- **Deployment.** A key that was put is not lost and gets into use; the process works with the
  settings its container was made with; the configuration of tonos-cli is complete when it is used.

## 2. Modules

`MC*` modules extend the module of their name for TLC; the `.cfg` files name their runs.

**ElectionsRoutine** is one thread of control with a program counter (`pc`), one action per step
of `_routine`, plus the chain (`OpenElection`, `CloseElection`, `Mature`, `CreditStake`,
`ExecuteBid`, `PayCredits`), the operator (`Boot`, `RestartDead`, `RequestRestake`) and `Crash`.
`active` and `rec` are `_active_elections`; `fileState`, `saved` and `file` the JSON file, which is
`torn` between its truncation (`TruncateFile`) and its write (`WriteFile`); `engineKeys` the keys of
the engine; `rustData` the Rust provider's `_election_data`; `req` the signed request. A tool call
appears in up to three forms: it succeeds, it raises before it had an effect (`JoinRaises`,
`RecoverRaises`, `PassRaises`), or it was executed and its answer lost (`AnswerLost`). Stakes are
counted in joins; whether a balance, an event or a prudent setting vetoes a join is a choice
(`SkipJoin`), except where a later module makes the decision itself. The chain's four times of an
election are one event, `Mature`: its planned reward time has passed on the local clock, which may
be before the elector has credited anything, and before a postponed election has even closed. On a
Rust node the minimal stake is text, so that a direct join is never started (`StartJoin`).

**StakeKeeping** is what the routine promises about stakes, in four actions: a stake is kept account
of from the bid on (`Stake`), the elector gives it back (`GiveBack`), what was given back comes home
together (`Fetch`), and only what is home, or never was with the elector, is let go (`LetGo`).
`ElectionsRoutine!ImplementsStakeKeeping` maps `kept` to the records together with the join that is
about to be recorded, and `locked` and `due` to the elector's view of our stakes.

**DepoolUpkeep** is the depool loop of the same pass over a clock: the two times kept in the
settings objects, the low-balance and signing events, top-up and ticktock with their confirmations,
and restarts that forget the times and may find `enable_elections` changed. Joins are one step here;
their inside is ElectionsRoutine's. Times are kept as ages that stop at their period, where
comparisons no longer tell them apart.

**PrudentJoin** is the decision to stake, in validator mode: the two intervals of the loop, the offset,
the time a pass takes, and the amounts. `ComputeStake`, `ValidStakes`, `LowerThanMine` and
`SatisfiesPrudentSettings` are the functions of `elections.py` and `prudent_elections.py` on amounts;
the list of the others' stakes grows while the pass decides, and may be unreadable, which reads as
an empty one. The stake is compared first and reduced to the maximum afterwards, as in the code. The
message to the elector is a variable of its own (`sent`), since it carries one token whatever the
stake is. Its tick is a minute, so the code's 15 and 2 minute intervals appear as 15 and 2. Depool
mode makes the same comparison with the depool's balance.

**Telemetry** is the queue and the sender thread, with a connection per batch, short writes,
failures, resets, and crashes of the process; **LossyChannel** is what it promises: an event is
received once at most, or lost. `Telemetry!ImplementsChannel` maps `lost` to what the network
dropped together with what was gone with the process.

**NodeConsole** composes the bring-up of the node's container with the two caches of the Rust
console wrapper. Keys are numbered by the configuration they were made with; a file on the volume
is its content and its modification time, and `cp` truncates it in one step and writes it in
another, while `_read_key` takes the time in one step and the content in another. Configurations
made for keys that do not belong together are left out, since the node refuses them whatever they
say (`MismatchedKeys`). Every write gives a file a time of its own: two writes within the
resolution of the file system's clock, which `_read_key` could not tell apart, are not modelled. The
history variable `interrupted` says that the bring-up of this container was cut short, or of the one
whose configuration it uses again; a new container that makes its own configuration clears it.

**SettingsFlow** is how a field of the settings reaches the process: exported by the manage tool,
handed on by docker-compose, turned into arguments by `entry.sh`, parsed by `main.py`, where an
argument beats the JSON text and an argument nobody passes has its default. It is a module of
operators on functions from fields to versions; whether a field arrives is what matters, its nested
values are abstracted.

**Deployment** composes SettingsFlow with the manage tool, TonControl's `entry.sh`, the start of
`main.py` and the first call to tonos-cli, which configures that tool. A version of the settings
stands for everything beside `manage.py` at one time. What the code does that surprises: the return
code of docker-compose is not looked at (`UpFails` leaves everything as it was); `up` leaves a
container alone whose settings did not change, although a new key was put before; `main.py` swallows
exceptions, so that its process ends with 0 and `restart: always` starts the container again at any
time, in the middle of an upload, too; a `--service` that is none of the three runs all of them; the
configuration of tonos-cli is made where its file does not exist, so that one made in part is used
until the container is made anew (`marred`). The history variables `given`, `raced`, `fresh` and
`marred` say what has disturbed a start; nothing reads them but the properties.

**ElectionsRoutineProofs**, **StakeKeepingProofs**, **OneWayProofs**, **DepoolUpkeepProofs**,
**PrudentJoinProofs**, **TelemetryProofs**, **NodeConsoleProofs** and **DeploymentProofs** hold the
theorems.

## 3. Runs

| Run | Instance | What it shows |
|---|---|---|
| `elections_crash` | direct stakes on a C++ engine, 2 elections, 3 keys, 2 faults, 1 restake | records and files match bids (`RecordMatchesBid`, `StakeBacked`), keys of held stakes are kept (`LiveKeysKept`), bids are accounted for (`BidsAccountedFor`) over crashes, torn files and lost answers |
| `elections_live` | the same without faults or restakes, with fairness | `OpenIsJoined`, `CreditComesHome`, `StakeTracked`, `StakeExact`, `RunningKept`, `ForgetsOnlyPaid`, and the refinement `ImplementsStakeKeeping` |
| `elections_depools` | 2 depools, custodians, Rust provider, 1 fault | `SignsItsOwnElection`, `RunningKept` and the record invariants when joins share a record and a provider |
| `elections_custodians` | a wallet with custodians | violates `ForgetsOnlyPaid` (section 6) |
| `elections_rust` | the default settings: Rust, validator mode | violates `OpenIsJoined` (section 6) |
| `upkeep` | 1 depool with top-ups, custodians, 1 fault, fairness | `ReplenishmentsSpaced`, `TicktocksSpaced`, `LowIsReplenished`, `ToppedUpResumes` |
| `prudent_made` | offset 17 minutes, threshold 10 percent, 2 validators, up to 3 other stakes | `NotMissed`, `WinsSlot` |
| `prudent_interval` | offset 10 minutes | violates `NotMissed` (section 6) |
| `stake_sent` | the same instance as `prudent_made` | violates `StakeIsSent` (section 6) |
| `telemetry` | 4 events, batches of 2, 2 faults | `LossBounded`, `PendingIsHeld`, `EventsLeave`, and the refinement `ImplementsChannel` |
| `console` | 2 addresses, 2 faults | `VolumeOpensNode`, `CacheIsCurrent`, `KeysSurviveRestart`, `ControlGetsIn` |
| `deployment` | 3 versions, 2 keys, 2 config commands, 2 rounds, 2 faults | `GivenKeyKept`, `FreshKeyFits`, `SettingsInForce`, `UsesFullConfiguration`, `GivenKeyServes` |

Each module's `TypeOK` is checked in one run. Every property of a passing run has a mutant in
`PROJECT.json`: an operator in the module, marked "Mutation", that replaces a definition by a
plausible mistake, under which the run fails.

**Bounds and why they are enough.** Two elections are what the chain has at a time (one running, one
taking stakes), and what records, file and keys can confuse. Three keys allow a bid, its failed
repetition and the other election; two faults allow a lost answer followed by a crash, or a crash in
the middle of what another crash left. `elections_crash` allows four bids per election, what one
restake and two faults explain, so that one bid too many is seen whenever fewer of them happened.
`MaxRestakes`, `MaxFaults` and `MaxCall`/`MaxPass` bound the environment only. The upkeep has one
depool, since the loop keeps two times per depool and treats each by itself; the proofs cover any
list. Its period of 4 ticks exceeds a call with its confirmation (2) and the poll (1), so that a
pass may fall inside, on and beyond it. In PrudentJoin the intervals are the code's; a pass takes up
to 2 minutes and an election 40, so that several passes fall into it; two places and three other
stakes of three amounts make lists that are short, full and longer than there are places, with ties.
In Deployment the second version changes settings and keeps the key and the third changes the key;
two rounds of two commands make a round that is repeated and one that is the last; two faults allow
a cut upload followed by a stopped start. In Telemetry a batch of two and four events make full,
partial and waiting batches. In NodeConsole two faults allow a re-creation that is itself cut short,
or a supplied configuration used after a re-creation. Keys are symmetric in `elections_crash`, which
checks no liveness.

**Deadlock** is checked wherever the system goes on for ever. `telemetry` ends when all its events
are accounted for. `console` does stop: a first bring-up that is killed between the copies of
the client and the server key leaves a volume on which `main.py:149-154` misses a key at every
start, and a node that finds everything it looks for and never repeats the bring-up. In the code
both go on, docker restarting TonControl for ever to no effect.

## 4. Fairness

- *ElectionsRoutine*: the thread runs and the container restarts (`restart: always`); every pass
  repeats the calls of the one before, so a call that is made again and again succeeds again and
  again (strong fairness of the successful form of each call, not of its failures); reward times
  pass and the elector credits what it owes. No assumption says *when* a call succeeds, and none
  covers a call that hangs (only the lite client's calls pass a timeout, `toncommon/core.py:20`) or an
  ABI whose download was bad (`tonoscli/core.py:85-92`).
- *DepoolUpkeep*: time passes, the thread runs, calls succeed again and again as above, and a
  depool that got a message works on it once it can.
- *Telemetry*: the sender thread runs and logstash reads what arrived.
- *Deployment*: the container runs (weak), and a start that may succeed again and again does: whether
  `main.py` gets past its checks also depends on the console keys, which are NodeConsole's (strong
  fairness of `Main`). Nothing is assumed of the operator or the manage tool.
- *NodeConsole*: docker restarts both containers and the routine keeps asking. `ControlGetsIn`
  assumes nothing about faults but that the keys fit from some time on.

Safety runs use no fairness.

## 5. Proofs

Checked by TLAPS for every value of the constants that satisfies the modules' named assumptions.

*ElectionsRoutineProofs.* The properties are not inductive by themselves: that a record was bid for
depends on where the pass is, since a record is appended after its bid was sent and validator mode
counts the stake before. `IInv` adds what the program counter says of the
locals (`PassShape`) and what each request, key and counted stake stands for while a join is under
way (`BidBacked`, which contains the record invariant). There is one lemma per conjunct and group
of actions (`...Type`, `...Shape`, `...Backed`). `Invariance` is `Spec => []IInv`; from it follow
`TypeCorrect`, `RecordsAreBids`, `StakesAreBids`, `SignsItsOwn`, and the action property
`RunningRecordsStay` (`RunningKept`).

*StakeKeepingProofs.* Under `Undisturbed` (no faults, no restakes, direct stakes, a wallet of our own,
an elector that credits before the reward time) the routine implements the safety of StakeKeeping:
`StakesAreKept` is `Spec => Keeping!Init /\ [][Keeping!Next]_Keeping!vars`. The steps that need an
invariant are the bid, which must be of an election not yet kept, and the forgetting, which must be
of a paid one. `KInv` adds to `IInv` that joins still to do are of elections without a record, that
the process starts once, and that the elections being forgotten are paid; it is inductive
(`KeepingInvariance`) and gives `StakesAreTracked` and `ForgottenIsPaid` as well. `StakesAreExact` says
more than `StakesAreBids` does with faults: one bid per election, counted once. It needs that a join
that has not bid yet is the first of its election (`FirstBid`), which holds since the ids a pass works
with and the records it gives up are of different elections (`SeenApart`) and a record is only given
up when its election is over; and that what is neither recorded nor being joined counts no stake
(`CountedOnce`). `elections_custodians` and `elections_crash` show what is lost when a hypothesis fails.

*OneWayProofs.* Under `OneWay` (one way to stake per mode: the wallet, or one depool), with any number of
crashes, lost answers and restakes. `JoinedApart` says that an election with a record is only
joined for a restake. Bids are accounted for by whether an election is settled, that is whether its
next bid takes a fault or a restake (`SettledBids`): `OneWayInvariance` and `BidsAreAccountedFor`. On a
C++ node `LiveInv` adds that elections have different keys (`KeysApart`) and that what is not recorded
has none, so that deleting the keys of one election spares the others': `KeysInvariance` and
`KeysOfStakesStay`. The hypothesis is needed: with two depools a failing join through the second
takes keys and record of the first one's with it (`elections.py:202`), and the program bids through the
first again.

*DepoolUpkeepProofs.* `UpkeepInv` adds the shape of the loop and the relation between the times the
process keeps and the true ages: the kept time of a top-up is never older than the top-up by more
than a call, the kept time of a ticktock never older than the ticktock, for depools the process
remembers. From `UpkeepInvariance` follow `UpkeepTypeCorrect` and the two rates
`ReplenishmentsKeepTheirPeriod` and `TicktocksKeepTheirPeriod`.

*PrudentJoinProofs.* Under `RoomForAPass` (the offset is none, or at least the interval plus the
length of a pass, and the election is longer than that) an election that has our stake neither
taken nor excused lasts until the end of the next pass (`AnotherPass`); `NoElectionMissed` follows.
`prudent_interval` shows that the hypothesis cannot be dropped, `prudent_made` instantiates it with
equality. `PrudentStakeWins` speaks of places, without any hypothesis: a stake that passed the comparison
has fewer stakes of others before it than there are places, those that arrived since it read the list
counted in (`WinsSlot`). The code compares with the stake in the last place, so the proof has to find
the stakes above a given place of the ranking and count them: `Places` is that ranking,
`FullOrAll` that its first places are filled or hold everything, by picking the first stake outside
them (finite sets are well-founded, so no induction over the list is needed), and `AboveAPlace` and
`PrudentStakeHasPlace` count. `ReadBeforeStep` and `ArrivalsCostPlaces` carry the count from the list
that was read to the list at the time of the bid.

*TelemetryProofs.* That every step maps to a step of the channel or to a stutter needs to know that
an event on its way was not received or lost before. `ChannelInv` says so: queue and batch hold no
event twice, the queue, the batch and the connections share none (`OnePlace`), what one of them
holds is pending (`HeldPending`), and what was not sent is neither received nor lost (`OnlySent`).
`EventsHaveOnePlace` is `Spec => []ChannelInv`, `TelemetryIsAChannel` the refinement; the lemmas
about sequences without repetition come first. What holds of every lossy channel then holds of the
client: `EventsComeOutOnce` is proved of LossyChannel's steps alone. The other way round, what is
pending is in some place (`Accounted`), since each step moves an event to another place, to LogStash
or to the lost ones: with `HeldPending` this is `NoneVanishes`, the safety half of `EventsLeave`.
`LossIsBounded` needs `BatchBounded`: while a batch fills up, what it holds and its room are a batch
together, and from then on it shares that bound with its open connection, so that a fault can cost
no more; `OneFault` does the arithmetic. `TelemetryTypeCorrect` is a part of `ChannelInv`.

*NodeConsoleProofs.* `BringUp` says, for each place in the node's script, which files are there and
that they belong to the configuration being made; `MadeCounted` bounds the configurations by the
faults. With the types they are inductive as long as the bring-up of this container was not cut
short; a new container starts over (`BringUpAnew`), unless it is given a configuration that was copied
from one that was. `ConsoleInvariance` gives `ConsoleTypeCorrect`, `VolumeOpens` and the action property
`KeysStay`. `CacheStaysCurrent` rests on the order of `_read_key`: the time is taken before the content,
so that it is never later than the file's (`TimesTaken`), and a time that is still the file's belongs to
the content that was read.

*DeploymentProofs.* `InForceIsSettings` follows a field through SettingsFlow, for every choice of own
fields. `GivenInPlace` says where a key that was put is at each step of `entry.sh`, `FreshInPlace` where
the key a start found is; both need that an upload no start knows of overlaps no start (`PutAlone`).
`ConfMade` says that a round without an error has run every command it came to. Together with the
types they are inductive (`DeploymentInvariance`), and `GivenKeyStays`, `UndisturbedKeyFits`,
`SettingsArrive`, `TimeoutsAreMadeUpFor` and `DeploymentTypeCorrect` follow.

*Assumptions.* The theorems hold for every value of the constants under the named assumptions of the
modules, which say little more than the types of the constants. `NoElectionMissed` assumes
`RoomForAPass`, the theorems of StakeKeepingProofs `Undisturbed`, those of OneWayProofs `OneWay`
and, for the keys, a C++ node.

*Model-checked only.* Everything about liveness, the fairness of StakeKeeping included (the prover
has neither fairness nor ENABLED): `OpenIsJoined`, `CreditComesHome`, `LowIsReplenished`,
`ToppedUpResumes`, `EventsLeave`, `ControlGetsIn`, `GivenKeyServes`. All invariants and action
properties of the passing runs are theorems; `StakeTracked`, `StakeExact`, `ForgetsOnlyPaid`,
`LiveKeysKept`, `BidsAccountedFor` and `NotMissed` under the hypotheses above, which the runs that
check them satisfy.

## 6. Where the code and its documents disagree

- `elections_custodians`: the recovery of a stake is submitted but, unlike every other transaction,
  never confirmed, and record and keys are dropped at once (`elections.py:559`), although
  custodians are there "to automate approvals" (README.md:186).
- `elections_rust`: in validator mode on a Rust node the minimal stake is the text tonos-cli printed,
  and comparing with it raises in every pass (`elections.py:151`); the README announces support.
- `stake_sent`: the message to the elector carries one token whatever stake was computed, compared and
  recorded (`elections.py:258`), while `TON_CONTROL_DEFAULT_STAKE` is "percent or absolute value(in
  tokens) of the stake that elector should make" (README.md:227).
- `prudent_interval`: an offset of 600 seconds, the README's example, is shorter than the interval of
  the passes; the stake "in 10 or less minutes before election ends" may not be made at all.

Not listed as findings, but worth knowing:

- Three settings (`VALIDATOR_MAX_SYNC_DIFF` and the paths of the queue and secret providers) are undone
  by arguments that nobody passes (`main.py:119-144`), although `settings/core.py:17` has the settings
  meant to be overridden and README.md:102 and 179 speak of a secret manager for Keyvaults, which
  no setting can select. No document names the three fields, so this stays the named exemption of
  `SettingsInForce`.
- `stake_max_factor` is parsed and not used; the times between top-ups are forgotten at a restart
  (`forgotTopUps`), and a ticktock that failed after it was executed is sent again (`forgotPings`).
- A restake that is deferred has lost its flag (`elections.py:372`). One that fails costs the record
  and the keys of the stake made before it, a join that fails through one depool those of the
  depool before, and an unreadable answer the record of a postponed election past its planned
  reward time: the exemptions of `RunningKept`, `LiveKeysKept` and `BidsAccountedFor`.
- A new key put for unchanged settings waits for the next restart of the container, and a restart in
  the middle of a put picks up half a key: the properties of Deployment begin with a put that
  no start ran into.

Where a property exempts what a hazard of `PROJECT.json` names, the hazard does not list the property,
or its note says which part is covered.

## 7. Not modelled, and why

Where amounts are not the subject they are counted in joins, and except in PrudentJoin the elector
accepts a request as if it carried its stake. Left out altogether: texts and parsing of tool output,
log formats; decryption itself and the filter of secrets, which are pure functions on text; the ABI
cache, which keeps the first answer to a download whatever it was; the queue routine, wallet
management and the election providers, which do nothing that the program uses; the fift wrapper,
which runs a script and reads the file it wrote; optional pip packages; Dockerfiles and logstash
pipelines, which configure third-party programs. The C++ provider is modelled from its code although
`main.py:189` reads an option that does not exist, so that it cannot be started as shipped. How
logstash splits what a connection carried into events is external, and so is what docker does with
an unchanged container. A hidden assumption of all models is that a tool call ends: no call to
tonos-cli or the console passes a timeout, and a thread that hangs in one is a thread that is not
scheduled.

Hazards without a property are listed in `PROJECT.json` with the reason: a call that hangs and an ABI
that was downloaded badly are excluded by the fairness the models state; the stale address in the
console's cache is the condition `ControlGetsIn` names, and what it does is what the code does; depools
behind one that joined are not looked at, on purpose or not, and the documents are silent.

## 8. State of the plan

| # | Modules | Content | State |
|---|---|---|---|
| 1 | ElectionsRoutine | the pass, its records, file, keys and joins | done, safety proved |
| 2 | StakeKeeping | abstract account of the stakes | done, safety of the refinement proved |
| 3 | DepoolUpkeep | top-ups and ticktocks over time | done, safety proved |
| 4 | PrudentJoin | deferring a stake, and its amount | done, safety proved |
| 5 | Telemetry, LossyChannel | the sender and its abstract channel | done, safety and refinement proved |
| 6 | NodeConsole | bring-up, keys, console caches | done, safety proved |
| 7 | SettingsFlow, Deployment | manage tool, settings, secrets' key, configuration of tonos-cli | done, safety proved |

Left for later: the four times of an election as numbers (`models/elections.py`), which ElectionsRoutine
joins in one event; the parsing of accounts and depool events; a composition of DepoolUpkeep with the
joins of ElectionsRoutine, which are one step there.
