# TLA+ models of crypto-quant-core

This directory holds TLA+ models of the parts of crypto-quant-core that keep state over
time: the System Paper forward test with its write-ahead-log scheduler, its slot economics
and its simulated broker; the life of an order and the position executor; the context cycle
over the paper and context schedulers; the private order runtime against an exchange; the
event store of the replacement strategy with the three-stage runtime above it; and the
Challenger's forward runner with the tools that turn its files into the verdict on a cohort.
TLC checks small instances. TLAPS proves every safety property that holds in a run, three
refinements among them, for every value of the constants; liveness is model-checked only.

    tlc -workers 2 -config SystemPaperSafety.cfg MCSystemPaperScheduler.tla
    tlapm SystemPaperScheduler_proofs.tla

`PROJECT.json` maps every modelling definition to the source lines it stands for.

## 1. The system

crypto-quant-core is a Python library and a set of command-line programs around one idea:
a trading strategy has to earn its promotion by evidence that cannot be changed afterwards.
Almost everything is a pure function from frozen inputs to a hashed artifact. State over
time is kept in few places.

| Part | State it keeps | Operations | Hard behaviour |
|---|---|---|---|
| System Paper scheduler (`system_paper_scheduler.py`) | SQLite event log, `prepared_inputs`, `prepared_results`, artifact directory | `recoverable_slot`, `record_gaps`, `claim`, `prepare_input`, `prepare_result`, `succeed`, `fail`, `run_due_system_paper_slot` | launchd starts invocations that may overlap; leases; crashes between commits; reads outside transactions |
| Artifact publication (`market_data_cli.py`) | files | `_publish_in_directory`, `_rollback_publication` | crash between link and unlink, failing directory sync, concurrent publishers |
| Slot runtime (`system_paper_runtime.py`) | the snapshot: cash, position, cost, peak, lock, active order | `run_system_paper_slot` | rounding, risk lock, slippage and fee against caps |
| Simulated broker (`system_paper_broker.py`) | one order per slot | `submit`, `reconcile` | fill scenarios: partial, disconnect, timeout, overfill |
| Order aggregate (`orders.py`) | order state, cumulative fill, processed events | `apply` | late, repeated, reordered events; UNKNOWN and reconciliation |
| Position executor (`orders.py` 433-553) | current target, unknown attempts, last order state | `accept_target`, `on_order_state`, ... | reports of several attempts |
| Targets and risk gate (`execution.py`, `risk.py`) | target book, reservations | `accept`, `reserve`, ... | stale targets, reservation limits |
| Offline paper scheduler (`paper_scheduler.py`) | SQLite event log | `claim`, `prepare`, `succeed`, `record_gaps` | as the System Paper scheduler, with other lease checks |
| Context cycle (`paper_context_scheduler.py`, `context_cycle_orchestrator.py`) | SQLite logs, files | cycle steps | two schedulers and files that must agree |
| Ledger (`ledger.py`) | journal, lots | post, reverse, replay | long sequences of corrections |
| Challenger forward runner (`challenger_forward*.py`) | SQLite chain with its WAL, source bundles, two logs; launchd's record of the service | `run_challenger_forward_cycle`, the command line | kills and restarts between bundle, append, checkpoint and log line; clock against slot |
| Challenger cohort (`challenger_cohort_*.py`) | receipts, results, evaluations; it reads the runner's files | `observe_..._episodes`, `publish_all_...`, `evaluate_...`, `observe_..._failure`, `decommission_...` | files read one after the other while the runner writes them; a bootout that races a start |
| Replacement event store (`challenger_replacement_events.py`) | a directory with one file per event | `publish_...`, `replay_...` | any number of writers without a lock; every system call may be the last one before a loss of power |
| Replacement runtime (`challenger_replacement_runtime.py`, `..._installed_runtime.py`, `..._live_input.py`) | the projection of those events | `replay`, `append`, `resume_...`, `_run_challenger_replacement_slot`, the installed entry | crashes between three durable stages, stale tokens, two processes |
| Private order runtime (`challenger_replacement_binance_private_*.py`) | private event log; the order, stops and position at the exchange | `run_..._private_intent` and what it calls | requests lost or late, crashes around each send, stop replacement without a gap, two processes |
| Challenger replacement ceremonies (`challenger_replacement_*`) | canary ledger, installed files, receipts | install, start, supersede, recover | partial install, one-shot steps |
| Evaluation, observation, operations, statistics, release | none of their own | pure functions, read-only views | - |

How they interact: launchd (outside the repository) starts the runner every few minutes;
the runner calls the scheduler, which calls the public input provider (the network), the
slot runtime (a pure function), and the publication primitive. The runtime drives the
simulated broker, which applies events to an order aggregate. The artifacts of one slot are
the parents of the next: a slot's input embeds the snapshot of the slot before it.
Evaluation and dashboards only read the chain.

The context cycle calls the offline paper scheduler and the context sidecar in turn, each
with a log of its own; anybody may run the paper scheduler alone at the same time, or the
sidecar alone, with documents captured by hand or by other slots. The
replacement runtime is started by launchd through the installed entry, and may be started by
hand besides; it captures the market, and every durable fact goes through the event store.
The Challenger runner is started by launchd every four hours and on load; the evidence
maintenance by launchd, too, and evaluator, failure observer and decommission by hand. They
share nothing with the runner but its files and launchd, and none takes a lock.
The private runtime is launched by an operator, once for each thing there is to do about an
intent: it appends to a private log and talks to the exchange.

`PROJECT.json` lists every part with its files and why a part is not modelled, and under
`hazards` what is hard to test in the parts above.

## 2. Modules

| Module | Models |
|---|---|
| `ResultChain` | the abstract specification of a schedule: one gap-free chain of sealed slots |
| `SystemPaperScheduler` | the scheduler with the publication primitive, several invocations |
| `MCSystemPaperScheduler` | its instances: crash points and symmetry |
| `SystemPaperScheduler_proofs` | its inductive invariant, and the theorems about its states and its steps, the refinement of `ResultChain` among them |
| `SystemPaperRuntime`, `MCSystemPaperRuntime` | the economics from slot to slot, with the simulated broker |
| `SystemPaperRuntime_proofs` | theorems about them |
| `OrderAggregate` | the order state machine |
| `OrderAtVenue`, `MCOrderAtVenue` | the order composed with an external venue and a lossy wire |
| `OrderAtVenue_proofs` | theorems about the order under any events, and about the two together |
| `PositionExecutor`, `MCPositionExecutor` | targets, attempts and positions of one executor |
| `PositionExecutor_proofs` | theorems about it |
| `PaperLog` | the transactions of the offline paper scheduler |
| `ContextLog` | the transactions of the context sidecar, on the same slots |
| `ContextCycle`, `MCContextCycle` | the orchestrator and the drivers of both, composed with the two logs |
| `ContextCycle_proofs` | theorems about it |
| `PrivateOrderLog` | what the private event contract accepts, and its projection |
| `BinanceVenue` | the exchange as the private runtime meets it (external) |
| `PrivateRuntime`, `MCPrivateRuntime` | the runtime composed with its log and the exchange, several processes |
| `PrivateRuntime_proofs` | theorems about it |
| `EventLog` | the abstract specification of the event store: one sequence that only grows |
| `EventStore` | the directory of event files, system call by system call, with deaths and losses of power |
| `ReplacementRuntime`, `MCReplacementRuntime` | the three-stage runtime and the installed entry over the store |
| `ReplacementRuntime_proofs` | theorems about it, the refinement of `EventLog` among them |
| `CohortLife` | the abstract specification of a cohort's verdict |
| `ChallengerForward` | the forward runner under launchd: one process at a time, its files, kills and restarts |
| `ChallengerCohort`, `MCChallengerCohort` | the four tools of the cohort beside that runner |
| `ChallengerCohort_proofs` | theorems about them, the refinement of `CohortLife` among them |

### SystemPaperScheduler

Several invocations of `run_due_system_paper_slot` run at once. `worker[w].pc` is the place
an invocation has reached; one action is one BEGIN IMMEDIATE transaction, one read made
outside a transaction, or one file operation that others can see. The clock sample
(`worker[w].at`) is taken once at the start, as in the code, and stamps every event of the
invocation, so that the log may refuse an invocation that others overtook (`TimeOrdered`).
When an invocation ends it may start again: that is launchd's next start, with a fresh
worker id.

The event log is represented by its replay: `proj` is what `_event_projection` computes,
`inputs` and `results` are the two tables. Every transaction replays the log before and
after its append (`Integrity`, from `verify_integrity`) and is rolled back when it does not
fit, and so does the model. Hashes are the values they hash; equal bytes are equal values.
Time is counted from the due time of slot 1 in ticks; `_CLOSE_DELAY` disappears in it.

| Code | Action |
|---|---|
| start of `run_due_system_paper_slot`, clock sample | `Start` |
| `recoverable_slot`, outside a transaction | `Recover` |
| `record_gaps` | `RecordGaps` |
| `claim` | `Claim` |
| `public_input_provider` | `CallProvider`, `ProviderFails` |
| `_runner_parent_result_bodies` before the input | `ReadParents` |
| `prepare_input` | `PrepareInput` |
| load the input, read the parents, `run_system_paper_slot` | `ExecuteSlot` |
| `prepare_result` | `PrepareResult` |
| `_load_runner_result`, `_publish_in_directory` up to `os.link` | `Publish` |
| first directory sync and unlink of the temporary name | `UnlinkTemporary` |
| second directory sync | `SyncDirectory` |
| either sync fails | `RollbackPublication` |
| `succeed`, with the artifact read back | `Succeed` |
| `fail` on the way out, best effort | `Fail` |
| BEGIN IMMEDIATE while another invocation is inside of a transaction (`timeout=0`) | `DatabaseLocked` |
| the process dies, or an OSError passes through | `Crash` |

`run_system_paper_slot` is a function of the durable input; for the schedule only one thing
about it matters, whether the slot leaves an order active, and the input's scenario says so
("settles" or "unresolved").

`ResultChain` is what the schedule promises with no log, lease, worker or file: a slot opens
only on top of the last sealed one, never after a slot that was given up, one at a time;
durable work ends by being sealed only. `ImplementsResultChain` is the refinement, with
`sealed`, `pending` and `closed` read off the projection.

### SystemPaperRuntime

One action, `RunSlot`, is one call of `run_system_paper_slot` on the snapshot the previous
slot left: verification of that snapshot, mark and drawdown, approved target, order plan,
fill by the broker, new snapshot. Refusals (`outcome`) leave the snapshot where it is and
end the behaviour, since the slot would be run again on the same durable input. The
market's decision and the prices are inputs. Everything that decides is there: 10 bps
slippage rounded against the order to the tick, 15 bps fee, quantity steps, notional cap,
minimum notional, drawdown bands (10, 12, 15 and 20 %), and the rounding of Decimal to
`Precision` significant digits where the code divides. Integers stand for decimals: cash in
1/2000 of tick times step, in which the fee is exact, cost in 1/1000. A precision of 5
instead of 28 digits makes quotients inexact within small numbers; what the rounding does is
the same; `PrecisionAssumption` asks that the digits count ten times the quantity steps that the risk
bucket can buy, as 28 digits do for any account of this system. The command line always passes PARTIAL_THEN_FULL with 40 %; the model allows every
scenario the broker knows.

### OrderAggregate and OrderAtVenue

`Apply(e)` is `OrderAggregate.apply`: repeated events, admissibility of reconciliation
evidence, and the cases of `_apply_unchecked` in its order: absorbed after FILLED, late fill
after CANCELED, uncertain events, reconciliation out of UNKNOWN, the transition table. A
refused event raises in the code and is not taken here. The proofs are about any set of
events; the run takes the events of the venue.

`OrderAtVenue` puts the aggregate opposite a venue. The venue is not in the repository; it
does what the event types and the simulated broker say an exchange does. Requests can be
lost or wait; every report stays on the wire and may be delivered late, repeatedly, in any
order or never; a reconciliation result is the venue's state when it was queried and may be
applied much later.

### PositionExecutor

One action per method of `PositionExecutor`; `accept_target` is two, for targets that
`TargetBook.accept` takes (`AcceptTarget`) and for those it reports as stale or repeated
(`IgnoreTarget`). The book's current target and the executor's are always the same and are
one variable. `now >= valid_until` is the only use of the clock, so that a choice
(`expired`) stands for it. No code in the repository calls the executor except its tests:
every method may be called at any time, the exchange may report any position, attempts may
overlap, and an ended attempt may report again (`MayReport`). `order` and `inTurn` record
what the attempts really came to; the executor does not see them.

### PaperLog, ContextLog and ContextCycle

`PaperLog` and `ContextLog` hold one operator per transaction of `PaperScheduleState` and of
the sidecar's state, over the replay of their logs. `ContextCycle` is the orchestrator's own
log, the directory, and the three drivers: `run_context_complete_orchestration` calls
`run_due_paper_cycle` and `run_context_complete_paper_cycle` in turn, and either of these two
may be launched on its own. An action is one transaction or one publication.

| Code | Action |
|---|---|
| `claim` of the orchestration | `ClaimCycle` |
| account rates: capture with `prepare_blob`, publish | `PrepareAccount`, `PublishAccount` |
| paper: `current_slot` with `record_gaps`, `claim`, capture with `prepare` | `RecordGaps`, `PaperClaim`, `CapturePaper` |
| paper: publish, `succeed`, snapshot, `fail` | `PublishPaper`, `SucceedPaper`, `SnapshotPaper`, `PaperFail` |
| `reference_paper` | `ReferencePaper` |
| perpetual context, cost binding | `PreparePerpetual`, `PublishPerpetual`, `PrepareBinding`, `PublishBinding` |
| sidecar: `claim`, `prepare`, publish, `succeed`, snapshot, `fail` | `ContextClaim`, `PrepareBundle`, `PublishContext`, `SucceedContext`, `SnapshotContext`, `ContextFail` |
| `succeed`, `fail` of the orchestration | `SealCycle`, `FailCycle` |
| an exception, a process that dies | `Raise`, `Crash` |

The sidecar's own command line (`Sidecars`) binds whatever documents its operator names:
captures made by hand at `HandTimes`, or account rates, paper runs and perpetual contexts of the
schedules, in any mixture whose times fit (`Supplied`), or none (`PAPER_CONTEXT_SOURCES_REQUIRED`).
The scheduled documents are there for it from the step that makes them durable, which is one before
they are published. Nothing compares a bundle that is stored with the sources of a later call, and
the orchestration takes the bundle that the sidecar returns (section 4). `supplied` in a row of
the sidecar is history, for the properties: whether its bundle came from that command line. All
calls name one output directory (another is refused with OUTPUT_ROOT_MISMATCH), and what is
captured by hand is published into another one: in the same one, under the name of a slot's own
paper run, it would make the scheduler's publication fail for good with ARTIFACT_CONFLICT.

A capture is the attempt that made it and its time; equal bytes are equal captures. An
attempt number takes the place of the worker's id. The clock sample of a call and its first
transaction are one step; a sample that is used again is kept. A publication is one step
here, its inner steps are in `SystemPaperScheduler`. SQLite runs with `timeout=0`, so that a
lock that is held is an error like any other (`Raise`). The perpetual capture and the
account capture go over the network while nothing is locked; what they may fail with is
`Raise`, too.

### PrivateOrderLog, BinanceVenue and PrivateRuntime

`PrivateOrderLog` translates the projection and the acceptance rules of the private event
contract: the order, the protective stop with its replacement, the emergency flatten and the
cleanup. `BinanceVenue` is what the queries and answer classes of the runtime take the
exchange to be: requests are acknowledged, refused, or unanswered, and one that got no
answer may have been carried out, may arrive arbitrarily late, or never; orders are filled
in parts, ended, and stops triggered at any time. `PrivateRuntime` has one step per query,
per request and per append (a look at the log and the write after it).

| Code | Actions |
|---|---|
| entry and resume by the last event | `Authorize`, `Launch`, `ResumeFills`, `ResumeStop` |
| proof of absence, signed request, send | `ProveAbsent` ... `Send`, `RecordUnknown` |
| `_observe_order` | `QueryOrder`, `QueryPosition`, `RecordQueried`, `PlanEvents`, `ApplyEvent`, `ReplayFills` |
| `_ensure_stop`, `_create_stop`, `_resume_stop` | `Ensure` ... `ReconcileStop` |
| `_finish_stop_replacement` | `VerifyCandidate`, `StartCancel`, `CancelOld`, `CheckOld`, `FinishReplacement` |
| `_emergency_flatten` | `Flatten` ... `AuthorizeRemainder` |
| `_cleanup_perpetual_stop` | `Cleanup` ... `ReconcileCleanup` |
| `_finish_spot`, `_finish_perpetual`, `_capture`, `_reconcile_captured` | `SampleOrder` ... `Succeed` |
| anything that raises, and a process that dies | `Stop` |

Represented by less: CANCELED and EXPIRED are handled alike everywhere and are one status; a
request is named by the run that built it; a quantity is a number of units, and a stop is
named by the quantity it protects, with 0 for the stop that a CLOSE_SHORT inherits; the
position before an OPEN_SHORT is flat. Capital limits, time evidence and document checks
only ever refuse, which `Stop` covers: any process may end between any two steps.
`STOP_REPLACEMENT_FAILED` is accepted by the contract but appended nowhere.

### EventLog, EventStore and ReplacementRuntime

`EventStore` is the directory. An event names its number and the hash of its parent; it is
represented by the whole history it closes, so that two events are equal exactly when their
bytes are. A final file carries whether its bytes were synced, and `synced` says which names a loss
of power leaves. `ReplacementRuntime` adds the projection (`Accepts` is `_apply_event`), the
append with its token, the three stages and the installed entry.

| Code | Action |
|---|---|
| a call of `replay_...`: `os.listdir` | part of the step before (`ReplayFor`) |
| the files are read and checked, the directory is synced, the caller decides | `Step` with `Returns` and one of the decisions below, or `Raises` |
| `_load_fixed_runtime_sources` refuses | `LaunchRefused` |
| `resume_challenger_replacement_slot` | `LaunchResumes`, `LaunchReports` |
| `acquire_challenger_replacement_live_capture` | `LaunchCaptures`, `LaunchReports` |
| `_run_challenger_replacement_slot`, a stage and its end | `RunStage`, `RunEnds` |
| `append`: token, candidate projection, up to the synced staging file | `AppendPublishes`, `AppendRaises` |
| `RENAME_NOREPLACE` | `Rename`, `RenameRepeats`, `RenameConflicts` |
| the directory is synced and the file read back | `Appended` |
| the observer publishes the start receipt | `PublishStart` |
| a process dies, or the power fails | `Fault` |

The names are listed at the step that asks for the replay, so that any number of steps of others lie
between the listing and the reading; the reading is one step because a final file never
changes. A loss of power keeps any subset of the names that were not synced, and takes the
content of files that were not synced. The order of two steps matters only where another process can see it:
the check of the name, the write and the sync of the staging file are one step. The replays
of a launch and of the capture after it are one; the last replay before a report is left
out, which reports earlier. When a capture is due is a choice. `worker_id` and the eligible
window of the first slot are left out of the prefix check. Only the installed entry is
modelled: the older command line loads a contract that it always refuses.

`EventLog` is what the store promises: a sequence that grows at its end, only after an event
that a loss of power cannot take back.

### ChallengerForward, ChallengerCohort and CohortLife

`ChallengerForward` is one run of `run_challenger_forward_cycle` after another. Slots are
counted from the first slot of the forward test, so that decision number s + 1 is the one of
slot s, and the chain has no holes by its own continuity rule. A position is the slot it was
entered in, which is what the episode's identity and its two limits come from. What the closes
say is an input: `Choices` gives the actions that some closes lead to.

| Code | Action |
|---|---|
| `StartCalendarInterval`, `RunAtLoad` | `Tick`, `StartRunner` |
| `open_verified_runtime_gate` fails | `GateBlocked` |
| the clock sample, the database is opened and replayed, NOT_DUE and MISSED_SLOT | `OpenGate` |
| request, receipt, closes, `build_challenger_forward_decision` | `Fetch` |
| `publish_challenger_source_bundle` | `PublishBundle` |
| `ChallengerForwardState.append` | `AppendDecision` |
| leaving the `with`: the last connection checkpoints the WAL and removes it | `CloseState` |
| `main` prints its line and returns | `Report` |
| an exception on the way | `RunFails` |
| the process is killed; the machine restarts, or the user logs in again | `KillRunner`, `Restart` |

The tools of `ChallengerCohort` are sequences of reads with one publication at the end; a read
of one kind of file is one step, since the code checks each file against changes while it
reads it, and between two reads the runner may do anything.

| Code | Actions |
|---|---|
| `observe_challenger_cohort_episodes`, `observe_challenger_cohort_continuity`: chain and clock with `_partition`, bundles and logs, launchctl | `Observe`, `CheckEvidence`, `CheckService` |
| the receipts of completed episodes, one file at a time | `PublishReceipt` |
| `publish_all_cohort_economic_results` | `PublishResult` |
| `evaluate_challenger_cohort` after the tail | `Evaluate` |
| `observe_challenger_cohort_missed_slot_failure` | `BeginAudit` ... `PublishFailure` |
| `decommission_failed_challenger_cohort` | `LoadFailure`, `CheckBefore`, `BootOut`, `CheckAfter`, `PublishDecommission` |
| what goes wrong after the bootout was tried | `PublishForensics` |
| an error, or archives that are not there yet | `Leave`, `AbandonAudit`, `AbandonRemoval` |

Represented by less: a file snapshot is what the files hold, and files that only grow are
their length; `_partition` is written as a predicate over the chain (`Accepted`, `Lawful`)
with `Stop`, the slot at which its loop ends; results and indexes are counted. The tools' clock
is the local one and may be ahead of or behind the runner's verified time (`LocalSlots`). The
failure receipt's count of launchd runs is not compared again, since every run leaves a line
or another exit status; that a replacement service is already loaded is one more reason of
`AbandonRemoval`. The daily archives come from the network, and when they are there is a
choice.

`CohortLife` is what the tools promise together: decisions are kept one after another; a
cohort becomes complete, for good, and may then be evaluated, or fails before that, and then
nothing is added to it. `ImplementsCohortLife` reads `kept` and `complete` off the chain, and
`failed` and `evaluated` off the published receipts.
## 3. Runs

| Run | Instance | Shows |
|---|---|---|
| `SystemPaperSafety` | 2 invocations, 3 slots of 2 ticks, lease 1, crash anywhere or one failing provider or sync or locked database, orders that may stay unresolved | never two recoverable slots; durable work on an intact chain; nothing built on an unresolved order; live leases honoured; only the owner writes; durable facts stay; a sealed file is lost to the rollback of an overtaken publisher only; the refinement of `ResultChain` |
| `SystemPaperLiveness` | 2 invocations, 2 slots of 3 ticks, lease 2, one crash at a frozen fault point, failing provider or locked database | durable work of every slot is sealed |
| `SystemPaperPublishCrash` | 1 invocation, crash anywhere | violated: see finding 1 |
| `OrderAtVenue` | quantity 3, 2 uncertain answers, 2 queries | FILLED is exactly a whole fill; never ahead of the venue; ended here means ended there; fills and ends are final |
| `SystemPaperRuntime` | 4 slots, 3 prices, 2 targets, all scenarios | open orders are locked; cash is never overdrawn; the lock is for good; exposure grows only inside the approved target |
| `SystemPaperSnapshot` | 3 slots, the production scenario | violated: see finding 2 |
| `PositionExecutor` | 12 targets in a tree, 3 attempts, 5 order states, positions -2..2 | nothing is planned over an unknown attempt; reversal through flat; cancels asked for |
| `ContextCycle` | 2 invocations, each orchestrating or running the paper cycle or the sidecar alone, the latter with documents of other captures; a slot of 3 ticks and the start of the next; one exception or crash | what an orchestration bound is what the other logs hold, and a bundle of other captures comes from the sidecar's command line only; a complete slot can be read back from the directory; durable evidence is final |
| `PrivateRuntime` | 2 processes, quantity 2, 2 generations of the flatten, the three intents | no name is sent twice; nothing is sent that is not in the log; the log never runs ahead of the exchange; no gap while a stop is replaced; a reconciled end is true at the exchange; one flatten order at a time |
| `PrivateFlatStop` | 1 process, quantity 1, CLOSE_SHORT | violated: see finding 3 |
| `ReplacementRuntime` | 2 processes, 2 slots (6 events), a good and a bad capture, one death or loss of power | the directory always replays; what was reported is durable; the refinement of `EventLog`; a durable input is brought to its end |
| `ChallengerCohort` | 5 slots, a cohort of 3 with its tail, one failed request, kill or restart, one tool at a time beside the runner | what the runner writes is accepted; receipts stay loadable; an evaluation leaves nothing out; a decommission says what is; the refinement of `CohortLife` |

Bounds of the System Paper runs, and why they are enough. Two invocations are every kind of
overlap the code tells apart: an active claim has one owner, and a third worker meets the
same claim as the second. Three slots give a parent, a slot and a successor, and a gap
between two known slots; the clock stops in the last slot (`Horizon`). A lease shorter than
the cadence is what the code has (15 minutes in 4 hours), and one tick of it is enough for a
takeover inside the window. In the liveness run `Crash` is bounded so that a lease it leaves
behind can run out before the horizon: it would otherwise be the horizon and not the code
that leaves work unfinished. In `SystemPaperRuntime` prices fall by more than half, so that a
position of at most a quarter of the equity can cross every drawdown band, and rise again.
The executor tells order states apart only as UNKNOWN, terminal or neither, positions only by
sign and distance to the target, and attempts only one by one; three attempts let two be
unknown while a third reports. The targets hold every action and direction, a conflict, stale
ones and gaps.

Bounds of the context cycle. `Horizon` is the first tick of the second slot, so that an
orchestration may cross the end of its slot at every place; an invocation that ended may be
launched again in the next tick only, which bounds launches and leaves two overlapping ones
in every tick. A lease of two ticks in a slot of three is taken over inside the slot, and the
lease of a late attempt is cut off. `MaxSkew` is shorter than a slot and not shorter than
the lease, as 15 minutes are to 4 hours and 15 minutes.
The sidecar that runs alone multiplies
the states: its operator has documents captured at one time of his own (`HandTimes`), the last
tick of the first slot, besides what the schedules captured. Two constraints of `MCContextCycle`
bound the rest: no orchestration of the second slot begins (`OneOrchestratedSlot`; nested and
lone calls enter it), and a sidecar that runs alone meets orchestrations but no other lone call
(`OneSidecarAlone`). The theorems of section 5 have neither bound.

Bounds of the private runtime. Two units give a partial fill and a whole. The constraint
`WholeTogether` cuts where both processes are at work and the exchange has traded in parts: one
process after another meets every partial fill, stop and generation, and two processes at
once meet whole orders, since their races are about who sends, who records and in what order.
A process that was stopped anywhere leaves its log to the next one, so that "one after
another" includes every crash. A flatten has at most two generations instead of 100; the
second one is the first that follows another, and at the bound the runtime refuses. `sends`
counts to two.

Bounds of the replacement runtime. Two slots give a first slot, before which and after which
the start receipt is published, and a successor on its parent. Two tags make two processes
stage equal or different bytes for one name. One fault: a death or a loss of power in any
state; that a second one during the recovery does no more harm is not checked but proved for
the safety properties (section 5).

Bounds of the Challenger cohort. The hold of 8 hours and the limit of 24 are 1 and 2 slots
instead of 2 and 6, with the same three cases before, between and after them. A window of
three slots holds two episodes, one inside and one that reaches into the tail, or one and
rejected entries; the clock ends one slot before the tail does, where the tools' own clock
may already be behind it. The cohort starts with the forward test, so that an episode that is open at
its start, which the property excepts, does not occur. One fault stands for a
failed request, a kill or a restart at any step. With one tool at a time (`OneTool`) every tool
meets the runner at every step; the tools write nothing that another one reads while it works,
but receipts, results and indexes, which only grow. The theorems of section 5 have no
such restriction: any number of faults, and all tools at work at once.

Fairness. `FairSpec` of the scheduler assumes weak fairness of the clock and of `Proceed(w)`,
every step of an invocation that is not a fault: launchd starts the runner again and again,
and a process that does not die goes on. `Spec` of the replacement runtime assumes the same
of `Launch(p) \/ Step(p)`: launchd starts the installed entry every four hours. Faults, the
observer's receipt and the exchange have no fairness. `DatabaseLocked` is a fault, and the bound
on faults is its bound: a lock is held for one transaction, some milliseconds in four hours, and
the next launch gets through. No liveness is stated for the context
cycle, the private runtime and the cohort: a slot may end before it is complete, by intent, the
private runtime is launched by an operator, and a cohort need not come to a verdict (section 4).

`CHECK_DEADLOCK FALSE` is set for orders, which end; for the slot economics and the context
cycle, which stop at their bounds, as the cohort does; and for the private runtime, where an intent that is
reconciled or refused leaves nothing to do. The scheduler, the executor and the replacement
runtime are checked for deadlock: an invocation may always start again.

Each property has a mutant in `PROJECT.json`: a definition changed the way a plausible bug
would change the code, under which the property fails. They stand in the modules, before the
definition they mutate, marked `Mutant:`.

Type invariants are proved for every module with theorems (section 5). Those of `ContextCycle`
and `SystemPaperRuntime` are properties of the runs besides, since they say more than types.

## 4. Findings

1. `SystemPaperPublishCrash`: a process that dies between `os.link` and the unlink of the
   temporary name leaves a file with two names. Every reader requires `st_nlink = 1` and
   nothing removes the orphan, so that the slot never succeeds, although the design document
   says an existing identical file is adopted.
2. `SystemPaperSnapshot`: the average entry price is a rounded quotient and the next slot
   requires cost = position * average exactly. After a second purchase at another price a
   snapshot may be refused by the runtime that wrote it, and the chain ends there. The same
   happens in the code with 28 digits.
3. `PrivateFlatStop`: a CLOSE_SHORT that the exchange cancels or lets expire unfilled goes to
   the cleanup of the stop like a filled one. The cleanup cancels the one active stop and
   records BINANCE_FLAT_STOP_CLEANED, the short stays without protection, and every later
   launch raises.

Observed while modelling, without a run of their own:

- An orphaned staging file stops the replacement runtime for good: every launch refuses it
  (`challenger_replacement_installed_runtime.py:155-158`) and nothing removes it. The crash
  table of the three-stage design says "orphan staging only: ignore the content, rebuild the
  same event", the live-input design says that orphans are counted but not read; the
  observer design demands a refusal, but before the start receipt. `InputIsEnded` therefore
  excepts orphans.
- A HOLD_CURRENT target may close a position: `accept_target` compares directions before it
  looks at the action (`orders.py:497-507`), and the baseline gives HOLD_CURRENT the
  direction FLAT (`offline_paper.py:779`). The contract document (line 359) says that it
  keeps the position.
- A failing directory sync may take away the artifact of a sealed slot. `_publish_in_directory`
  runs outside of any transaction; when its second fsync raises, `_rollback_publication`
  (`market_data_cli.py:286-295`) unlinks the final file. Once the publisher's lease is over,
  another invocation may have claimed the slot, adopted the file and recorded SUCCEEDED. The
  design document says that a final artifact is never deleted by the scheduler
  (`2026-08-02-system-paper-wal-scheduler-design.md:259`). TLC shows it in 19 states when
  `SucceededIsPublished` is made an invariant of `SystemPaperSafety.cfg`. What holds, and is
  checked and proved with failing syncs, is `SealedFileIsLostToOvertakenPublisher`: a slot is
  sealed only on its published file, and nothing else takes that file away.
- A slot of the context cycle may count as complete with another paper run than the scheduled
  one. The sidecar never looks at the paper log: `_slot_and_pit` takes any run with the run id
  and the times of the slot, the paper command line takes any `--run-id`, a stored bundle is
  returned without being compared (`paper_context_scheduler.py:1247-1253`), and `succeed` of
  the orchestration asks only for the form of the hashes. The design document says that the
  run must be the exact scheduled one (`2026-07-28-context-complete-paper-cycle-design.md:40`).
  It takes somebody who runs the sidecar alone with documents of other captures; TLC
  shows it in 26 states when `CompleteSlotHasScheduledRun` is made an invariant of
  `ContextCycle.cfg`. `LogsAgree` says what holds nevertheless.
- A fill delivered after VENUE_EXPIRED or RECON_EXPIRED is refused for good, while one after
  VENUE_CANCELED is taken; the contract document (line 971) says that the economic state does
  not depend on the order of delivery.
- A context cycle that is retried after its lease captures the perpetual context more than 15
  minutes after the paper decision. The capture is durable from then on and never fits the
  bundle (`_slot_and_pit`), so that the slot cannot be completed any more.
- An invocation of the paper scheduler that is delayed by a whole slot between `record_gaps`
  and `claim`, on an empty log, may open a slot earlier than one that is already known.
- The private runtime refuses some stages of a short that has no stop: after ORDER_FILLED,
  and with a stop at AUTHORIZED or ABSENCE_CHECKED, a launch raises
  (`RECOVERY_STAGE_UNSUPPORTED`, `STOP_REPLAY_INVALID`), so that a crash at the wrong place
  leaves the short to the operator.

- The Challenger cohort has several ends that no tool can turn into a verdict, since the tools
  only refuse. A runner killed between bundle and append, and started again in the slot,
  leaves two bundles of that slot; one killed after the append leaves a slot without its line
  on standard output; `_bundle_evidence` and `_logs` ask for exactly one of each, for ever. Any
  other line on standard error before a slot is missed makes the failure receipt impossible
  (`_failure_logs` wants copies of the MISSED_SLOT line and nothing else). An episode that is
  open at the first slot of the cohort makes `_partition` refuse the whole cohort.
- A failure receipt can be loaded only until the runner's next start adds a line to standard
  error, because the loader compares the files with the receipt: the decommission has to follow
  within the slot. A process that dies between the bootout and the publication leaves a
  service that is gone and no receipt, and the next attempt is refused at the first print.
- A decommission does not last: the plist stays in `~/Library/LaunchAgents` with RunAtLoad,
  by design, and the next login loads the service again. The failure-evidence design asks
  (section 1, item 3) that the periodic failures be stopped. The run reaches this state;
  `DecommissionIsTrue` speaks of the moment of the receipt.
- "Publish the one final evaluation" (`challenger_cohort_cumulative_evaluation.py:1564`): an
  evaluation repeated later has another time and state and is a second artifact under
  another name. `EvaluationIsWhole` says that the two agree on slots and episodes.
- A file snapshot contains the device number of each file, which after a restart may be
  another one for the same file (ADR 0054, item 8); the failure receipt would then not load.

## 5. Proofs

All theorems hold for every value of the constants under the named assumptions of the
modules, each as weak as the code justifies: `ScheduleAssumption` (naturals, at least one
slot, `Lease < Cadence`), `NoneAssumption` of the scheduler and of the context cycle (the value
of an absent row is none of the rows), `SlotAssumption` and `SkewAssumption` (naturals, at
least one slot), `BoundAssumption` and `HandAssumption` of the context cycle (it ends before the
last slot does; captures by hand have a time),
`OrderAssumption` (a positive quantity, events of the right form), `VenueAssumption`
(naturals), `ExecutorAssumption` and `TargetAssumption` (what the contract types enforce),
`LogAssumption` (a positive quantity and number of generations), `StoreAssumption`
(naturals), `HoldAssumption`, `BoundAssumption` and `CohortAssumption` of the cohort (naturals,
the minimum hold within the limit, a window that is not empty), and one `RuntimeAssumption` in
each of three runtimes. Two assumptions say more than that a number is a number, and TLC shows
that the theorems need them. With a vertical limit of no slot, an episode would have to leave
in the slot it is entered in, and `RunnerChainsAreAccepted` fails: `HoldAssumption` asks for
one slot, and the code has six. With a `Precision` of 1 or 2 digits and an equity of 400 a sale can leave one unit
at a cost rounded down to nothing, and the type of the snapshot fails: hence
`PrecisionAssumption`, which the 28 digits of the code meet with room to spare. TLC evaluates
all of the assumptions in the runs.

**Scheduler, states** (`SystemPaperScheduler_proofs`). `AtMostOneRecoverable` and
`DurableWorkHasParents` are not inductive: a slot is chosen, its parents are read, and only
later does a transaction commit. `Inv` adds

- `Integrity`: the tables agree with the projection, as every transaction verifies;
- `KnownIsDue`: a known slot is due no later than the last event, so that a slot older than a
  known one is no longer in its window and cannot be claimed for the first time;
- `StatusFits`: which stages and claims go with which statuses;
- `WorkerFits`: what an invocation may still rely on between its transactions; above all, the
  parents it read are still the parents of its slot when `prepare_input` commits, because
  parents that succeeded are terminal and nothing earlier than a known slot can become known
  once everything between is known;
- `PublisherFits`: the file a publisher linked is there, and nobody else is publishing that slot.

The proof goes action by action: steps that only move an invocation (`LocalStep`), file
steps (`FileStep`), and the six transactions (`CommitStep`, with one lemma each). From `Inv`:
`TypeCorrectness`, `ChainUnderDurableWork`, and `RecoveryIsUnambiguous`: of two recoverable
slots the earlier one would have to have succeeded under the later one.

**Scheduler, steps** (the second half of the module). `StepsOfTheStore`: every step
leaves the tables alone (`Rests`) or is one of six moves, one for each transaction (`Closes`,
`Takes`, `Opens`, `Solves`, `Seals`, `Fails`). `RowsAfter` says what each move does to a row,
and `StepKeeps` that none of them touches a durable fact. From that come `DurableIsForever`
and `OnlyTheOwnerWrites`; `LeasesAreHonoured`, with the invariant `ClaimsFit` (a claim that
is not closed is somebody's); and `ScheduleImplementsChain`: moves that open, seal or close
are the actions of `ResultChain`, everything else stutters. `UnresolvedStopsTheChain` needs
`Settled`: every input refers to a slot with a result, and a slot gets a result only when the
result it refers to left no order active. The invocation that is about to commit such a
result has seen that, which is the second half of `Settled`. `SealedFilesAreLostOnlyByOvertaken`
assumes nothing of the syncs. It takes two more invariants: whoever is still at work on
a sealed slot no longer holds its claim (`SealedIsTaken`: the one that sealed it has returned, and
everybody else was overtaken), and a file whose publisher has not yet removed
the temporary name has two names (`LinkedHasTwoNames`), so that nobody can have sealed the slot on
it. So of the two syncs only the second one can fail behind the back of a sealed slot, and only
in an invocation whose claim was taken over.

**Orders.** In the first half of `OrderAtVenue_proofs` the set of delivered events and the set
of ids are arbitrary. `Inv` is the type together with `FilledIsWhole`; `ApplyStep` proves for each case
of `_apply_unchecked` that both survive and that fills and ends are final, which also gives
`EconomicFactsStay`. The second half adds the venue: it delivers events of the right form only,
so that both properties hold opposite the venue, too. The two properties of both together are not
inductive, since a report applied now was made long ago; `VInv` adds `WireFits` (every
message on its way is `Truthful`: what it says of the venue is true and stays true for as
long as it may be delivered), `VenueFits`, and `RequestFits` (the order is submitted once).

**Slot economics** (`SystemPaperRuntime_proofs`). `RInv` says that cash and position are
natural numbers and that the peak never falls below the starting equity. A target is at most
a quarter of that equity, and a slot buys only outside every drawdown band; what remains of
the cash is more than slippage and fee of any purchase. `PurchasesFit` and `SubmissionsFit`
follow the plan through the divisions that round it, `FillsAreAffordable` adds the fill of
each scenario, and `SlotStep` is the whole slot. Every equity, price, spread, quantity and
scenario is covered, and any precision of the quotients: none of these properties depends on it.

The type does, because it says that cost and average are there exactly while something is
held. `TInv` adds that what is held never exceeds the risk bucket in steps. For it the
rounding itself is reasoned about: the powers of ten are well defined and grow (`TenStep`,
`TenGrows`), half-even rounding moves a value by at most half a digit (`HalfEvenIsNear`), and
so a rounded sum or quotient is near the exact one (`RoundedIsNear`, `RoundedIsClose`). The
facts about all powers are inductions, which go by the least counterexample (`LeastElement`).
`PurchasesKeepCost` and `SalesLeaveCost` then say that the cost of what is held covers its
steps and is not rounded away by a sale that leaves something.

**Position executor.** `Inv` adds to the type and `UnknownIsNeverPlannedOver` that the set of
unknown attempts is exactly the attempts whose order is unknown (`UnknownIsRemembered`), and
that the remembered order state is the live attempt's while attempts come in turn
(`OneStateIsEnough`): without the first a report of another attempt could release the block,
without the second `CancelIsAskedFor` says nothing about the step before. The type and the three
properties of the run are theorems.

**Context cycle** (`ContextCycle_proofs`), for any number of invocations, slots and faults.
`LogsAgree` speaks of three logs that no transaction spans, and an invocation writes the third
from what it did to the other two, while others may take its slot over. The invariant has, besides
the types and what a row holds in each status,

- `CycleFits` and `FilesFit`: what an orchestration bound is in the other logs and on disk, and a
  bundle is of the orchestration's own captures unless the sidecar's command line supplied it;
- `SubFits`: a nested call works on the slot that was active when it began, and that was no
  earlier than the orchestrated slot was due. Windows do not overlap (`ActiveOnce`), so that a
  reference accepted within the window of its slot can only be to that slot;
- `Holds` and `Passed`: whatever an invocation has gone past is durable, and it may rely on it.

What makes this stable is that every step only adds to what is durable (`Grows`); then a step
has to be looked at for the one invocation that makes it. `Grows` is `EvidenceIsFinal`, too, and from
the invariant come `LogsAgree` and `CompleteSlotIsOnDisk`.

**Private runtime, sends.** For any number of processes, any quantity and any number of generations:
`TypeCorrectness`, `SendsAreUnique`, `SendsAreWritten`. A name is sent in two steps, the
append that claims it and the request after it, and any number of other processes may take
any step in between. `IInv` adds `LogFits` (which events a log may hold), `VenueFits` (what
the exchange has was sent), `LocalFits` (what a process knows of the log is still true of it)
and `WatchFits` (of all processes only the one whose append the log took stands before a
send). Every append is one `LogMove`; a step that leads to none of the places of `WatchFits`
is a `PlainStep`; the eight actions around the sends have a lemma each.

**Private runtime, what the log says of the exchange** (the second half of the module). A process
asks the exchange, then looks at the log, then appends; the order may be filled, a stop canceled
and the log advanced by another process in between. `JInv` has

- `Facts`, about the log, the exchange and the wire only: `LogFollowsVenue` itself, and what a
  capture, a replacement of the stop and a cancellation on its way say (`CaptureFits`,
  `SwapFits`, `CancelFits`). Before the cleanup of a close, nothing but a replacement cancels a
  stop, and never the new one (`Cancelable`): this is what leaves no gap, however late a
  cancellation arrives. Flatten orders of earlier generations have ended (`GenerationsEnd`);
- `Knows`, for each process wherever it is: the order it saw is not ahead of the order, and an
  end it saw is final (`Sampled`);
- `Due`, for each process at its place: what an answer has shown and the next append says.

`WorldGrows` is what every step of anybody leaves as it was: fills are not taken back, ends are
final, and so is a capture once it is being reconciled. `Knows` and `Due` are stable under it,
so that a step is looked at only for the process that makes it, and most lead to a place where
nothing is due (`LightMove`). From `JInv`: `LogIsNeverAhead`, `ReplacementsLeaveNoGap`,
`ReconciliationsAreTrue` and `FlattensFollowOneAnother`.

**Replacement runtime.** `IInv` is the type of the directory with `FilesFit`, `SyncedFits`,
`CallsFit`, `TasksFit` and `ToldFits`: the names form a chain of prefixes whose last event
was accepted by the projection; only the last name may be lost by a loss of power; an event
that a process carries to its rename stands on a history that is durable already. So a rename
extends the history or meets the equal event (`RenameGrows`), and a loss of power takes at
most the last event and no event that anybody was told of (`PowerLossTakesLast`). These give
`ReplayIsAlwaysAccepted`, `ReportedIsAlwaysDurable` and the refinement
`StoreImplementsEventLog`.

**Challenger cohort** (`ChallengerCohort_proofs`), with every tool at work at once, any
number of faults and any window. `CInv` adds to the type

- `MissIsFinal`: once standard error has its line of a missed slot, or a run has ended with
  MISSED_SLOT, the time is past the slot the chain is due, and no run is between its fetch and
  its append. So nothing is ever appended again, and what was missing stays missing;
- `AuditFits` and `FailureFits`: what the failure observer read, a cohort that lacks a slot and
  a line of a missed slot, still holds when it publishes; with equal snapshots before and after,
  what it read is the whole chain;
- `RemovalFits`: from the bootout to the end of the removal the service is unloaded and nothing
  runs (a restart, which loads the service again, ends the removal too), and before the receipt
  everything was compared.

The one fact about `Stop` that the refinement needs is that it is a minimum (`LeastSlot`), so that
a complete cohort stays complete when the chain grows (`CompleteStays`). From `CInv` come
`DecommissionsAreTrue` and `CohortImplementsLife`; above all, that a cohort which is declared failed
never gets another decision, although the observer's clock is not the runner's.

`EInv`, on top of `CInv`, is about the evidence. `RunnerChainsAreAccepted` relates every slot of a
chain to the one before it. `ChainFits` says slot by slot what the decision rule makes of
it and where an open position was entered, which is all that the tools' partition asks for
(`_partition` refuses a chain with an episode open at the start, and the property excepts it).
`RunFits` and `LinesFit` are about the runner between its decision and its line: a slot has its
line only once its decision is in the chain, and has none while the run that appended it has still
to print it. So a bundle or line that a tool has counted once is the only one for ever
(`EvidencedStays`), and what a tool has read stays true until it publishes (`WatchFits`); a
receipt stands on a prefix of the chain that stays (`ReceiptFits`); an evaluation stands on
a complete one, to which nothing is added (`EvaluationFits`).

**Model-checked only.** The liveness properties, `DurableWorkIsSealed` and `InputIsEnded`:
they follow from fairness, and TLAPS proves nothing about ENABLED. Every other property of a
passing run is a theorem. The three runs that expect a violation check properties that are false.

The provers cannot use the induction theorems of the library, which take an operator as a
parameter. No theorem reaches a RECURSIVE operator; where a theorem needs an induction, over the powers of
ten, it goes by the least counterexample. What the proofs take the place of is the bounds of section 3
and not the abstractions of section 2: the exchange, the venue and launchd are as modelled there.

## 6. Not modelled

Hash chains, canonical JSON, JSON schemas, SQL triggers, path and permission checks are
represented by what they guard: a log, a row or a file is what was written. Tampering from
outside is no behaviour of the models. Ledger legs within a slot, realized profit and fees as
totals, the market decision and market-bundle validation are left out of the runtime. LIMIT
orders of the broker are never submitted by the runtime. In the private runtime, money,
capital limits, time evidence and the shape of documents are left out; in the replacement
runtime, what captures and decisions contain, the install receipt, file metadata, and a disk
that loses data although a sync succeeded. An event directory has one more user, the v3
runtime with its opportunities, which writes under a lock of its own. Of the Challenger, the
installation of both LaunchAgents, the content of closes, results and evaluations, the
download of archives, and the observers of the first slot and the first episode, which ran
once before the cohort, are left out.

The remaining components are listed as `not_modelled` in `PROJECT.json` with the reason: pure
functions and read-only views (evaluation, statistics, health, dashboards), one-shot file
ceremonies with receipts (installation, archive, release), and data pipelines.
The canary controller above the private runtime and the partial-install recovery keep state
of their own and are candidates for further modules.

## 7. Plan

Done, in order of importance: the scheduler with its abstract chain, the order and its
venue, the slot economics, the position executor, the context cycle with both of its logs,
the private runtime against the exchange, the event store and the three-stage runtime with
the refinement of the abstract log, the Challenger's runner and cohort with the refinement of
its life; theorems about all of them, with every safety property of a passing run among them. What is left:

1. The canary controller as one more caller of the private runtime, and the v3 runtime's
   opportunities over the event store.
2. The risk gate's reservations (`execution.py`), and the ledger's posting and reversal
   sequences (`ledger.py`).
3. The executor composed with several order aggregates in place of `MayReport`.
4. Proofs: the theorems that new modules call for; and for the private runtime an abstract
   specification of what an intent comes to, with the refinement that `JInv` would carry.
