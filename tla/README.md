# Formal models of TinkerFin Harness

TLA+ modules, TLC configurations and TLAPS proofs about the parts of this repository
whose correctness depends on the order of events: Automation, Messaging, the Agent
Runtime, remote execution and the sandbox lifecycle. Paths are relative to
`src/packages/<package>/src/<package>/`, with the package named once per section.

`PROJECT.json` holds the machine-readable side: components, runs, the lines each
definition models, hazards with the properties that watch them, findings and theorems.

## 1. The system

| Component | State it keeps | Operations | Interacts with |
| --- | --- | --- | --- |
| Automation Store (`tinkerfin-automation`: `memory.py`, `_rules.py`; `sqlalchemy.py` for databases) | tasks, executions, work items with leases and fences, capacity units, occurrence keys, receipts | submit, claim, renew, authorize, interrupt, finish, cancel, resolve, delete, materialize | workers and clients, by calls |
| Automation Engine (`engine.py`) | the tasks it owns, its failure, its shutdown | dispatch, process a claim, wait, cancel, reap, close | Store, targets, callbacks, Service |
| Automation Service and MemoryScheduler (`service.py`, `scheduler.py`) | which tasks the scheduler knows; one wakeup per task | task commands, materialization, synchronization | Store, Engine, callers |
| Schedule arithmetic (`schedules.py`) | none | next run, materialization under a misfire policy | Service |
| Command receipts (`service.py`, `memory.py`) | request ID, digest and result of each command | create, update, pause, delete, replay | callers, Store |
| Messaging (`tinkerfin-messaging`) | a thread's runs, producer leases and fences, message log, generations | claim, renew, publish, cancel, settle, follow, purge | Runtime, Redis or SQL |
| Agent Runtime (`tinkerfin`) | runs, leases on their keys, native tasks, resources | run, pull, close, cancel, lose the scope | models, tools, Messaging, Redis |
| Remote execution (`tinkerfin-remote`) | two durable ledgers of sessions, operations, events and items to confirm | open, invoke, upload, cancel, deliver, execute, maintain, revoke, close | coordinator and worker processes |
| Sandbox (`tinkerfin-sandbox`) | owner, warm-slot, cleanup, availability and holder rows | get, recreate, delete, fill, drain, pause, resume, close | the sandbox server, other managers |
| Notifications | subscriptions | advisory hints after a commit | Store, Engine |
| AG-UI adapter, native stream, contracts, LangGraph store, SQLAlchemy support, Automation facade | little or none | conversion, queries | Runtime, Messaging |
| Gateway, Tracing | processes, recorded events | I/O | servers, databases |
| Studio server, Studio web, Desktop | application data | HTTP, user interface, processes | all packages |

What is hard, and what makes each modelled component correct:

- **Store.** A worker keeps its claim after it has lost it, and may use it late or twice.
  Five paths release capacity. Correct: capacity is exact; every unfinished execution has
  one work item that moves it on; a lost claim stays lost; outcomes are final.
- **Engine.** Targets ignore cancellation, leases end before a start, workers fail, close
  and crash between any two Store calls. Correct: a target is started once, keeps its unit
  while it runs anywhere, and every execution moves on while some worker is up.
- **Schedules, Service.** A command or a wakeup works on a copy of the task read before an
  await. Correct: accepted changes stay, a stale wakeup creates nothing, nothing due is
  lost, an enabled task is eventually woken.
- **Receipts.** The same command is sent twice, concurrently, beside others with the same
  request ID or revision. Correct: one effect, one true answer, no lost update.
- **Messaging.** Producers are taken over while the old one still writes; followers join
  at any time; generations are erased under them. Correct: one producer writes at a time,
  a source is committed without gap, a cancellation accepted is honoured, every follower
  reaches the last message and then ends.
- **Runtime.** A run can be stopped by its consumer, by `aclose`, by an observer and by the
  loss of its scope, at every await. Correct: scopes of one key exclude each other,
  resources close inside the scope, a lost scope is no success, everybody is answered.
- **Remote.** Two ledgers, a connection that breaks at every point, two worker processes on
  one ledger. Correct: a tool is invoked once, the ledgers tell one history, nothing a peer
  still needs is refused or compacted, everything accepted ends.
- **Sandbox.** Rows have claims with leases, the server knows nothing of them, answers get
  lost, managers crash. Correct: a sandbox has one home and is not destroyed while it has
  it, nothing that runs is forgotten, a paused sandbox is quiet.

The hazards, at the lines where they bite, are in `PROJECT.json`.

## 2. Modules

| Module | Models | Relation |
| --- | --- | --- |
| `AutomationStore` | executions, work items, claims, capacity | refines `ExecutionLifecycle` |
| `ExecutionLifecycle` | abstract: what an observer of executions is promised | |
| `AutomationEngine` | workers on top of the Store | extends `AutomationStore` |
| `CommandReceipts` | repeated commands and their receipts | |
| `Schedules`, `ScheduleWakeups` | schedule arithmetic; one task woken at any time | the second extends the first |
| `AutomationScheduling` | one task, several processes, concurrent commands | extends `Schedules` |
| `MessagingLedger` | durable state of a thread and its transitions | refines `RunJournal` |
| `RunJournal` | abstract: an append-only journal of runs | |
| `MessagingProducers` | producer tasks and follow loops | extends `MessagingLedger` |
| `ExclusiveScopes` | abstract: one body per key at a time | |
| `RedisLease`, `LocalCoordinator` | the two run coordinators | refine `ExclusiveScopes` |
| `RunOwner` | lazy run, supervisor, native task and their settlement | |
| `RemoteLedger`, `RemoteTools` | transactions of one ledger; both sides and the delivery between them | the second extends the first |
| `SandboxOwnership` | which sandbox an owner has, warm pool, cleanup | |
| `SandboxAvailability` | pause and resume of one bound sandbox | |
| `MC*` | instances for TLC | extend what they check |
| `*Proofs` | theorems | extend what they prove about |

An operator called a *faulty variant* is not part of a specification: it is the definition
that follows it with a plausible mistake, kept to show that the properties notice it.

### AutomationStore, AutomationEngine (`tinkerfin-automation`)

Each Store method runs under one lock and reads the clock once, so it is one action
(`EnqueueExecution`, `RetryExecution`, `CancelExecution`, `ResolveExecution`, `DeleteTask`,
`RenewClaim`, `AuthorizeStart`, `MarkInterrupted`, `FinishExecution`), the transition of
`_rules.py` included. `claim_work` loops over candidates whose treatment depends on the
capacity the earlier ones took; it is one action per candidate between `ClaimWork`, which
takes the lock and recovers expired claims, and `ReturnBatch`. A claim is an item and a
fence (the random token changes with the fence); any claim ever issued may be used in any
step, which is how a delayed, repeated or forgotten call appears.

A worker is `up`, `failed`, `closing` or `down`. Each claim it was granted has a task: a
record with its phase of `_process_claim`, why its operation was told to stop, and whether
its cancellation event is set. `owned` is `_owned`, keyed by execution as in the code;
tasks exist independently of it. A target or callback reports anything the code
distinguishes, at any time or never. `Crash` loses the process and keeps the Store.

### CommandReceipts

An attempt reads its receipt, then the definition, then commits; attempts interleave
between these steps. The commit decides under the Store's lock (receipt, revision, limits).
A digest is the tuple that is digested. `effects` is history.

### Schedules, ScheduleWakeups, AutomationScheduling

`NextRunAfter`, `Due` and `MaterializeSchedule` are `next_run_after` and
`materialize_schedule`; one unit of time is the microsecond by which the code steps over
boundaries. A cron expression in its timezone is the set of instants it selects.
`Occurrences` states what a schedule means independently of the arithmetic.

In `AutomationScheduling` each process has a MemoryScheduler job, the scheduler loop's
callback (`DispatchDue`, `ReadDue`, `MaterializeTask`, `SyncMaterialized`) and the
supervisor's refresh (`ListTasks`, `ApplyInventory`, `ReadHinted`, `ApplyHinted`,
`Repair`); each caller has one command. What was read before an await is kept and used
after it. The task and the Store's clock are read in one step: a commit succeeds only if
the definition is still the one read, so reading them apart reaches no other committed
state. `_schedule_revision` is the flag `dirty`. A hint reaches any subset of the
subscribed processes. `StartQueued` stands for the workers of `AutomationEngine`.

### MessagingLedger, MessagingProducers (`tinkerfin-messaging`)

`MessagingLedger` has one action per transition of `_messaging_transition.py`, which
`sqlalchemy.py` applies in one serialized transaction. A refused transition changes nothing
and is no step. Actions are enabled for every reference ever given out. Those who
wait for a change compare the length of `log` and `control`. `MessagingProducers` adds the producer task of
`_producer_runtime.py` (source, committer, cancel watcher, renewal, settlement) and the
follow loop of `_messaging_ledger.py`; every backend call is a ledger transition that may
be refused, fail, or fail after it was committed.

### RedisLease, LocalCoordinator, RunOwner (`tinkerfin`)

`RedisLease` has the three scripts of `redis/_lease_lock.py` as atomic steps of Redis, the
scopes of `hold()`, commands nobody waits for any more, and the manager's lifecycle. Timers
are distances, so the clock is no state. `LocalCoordinator` is `InMemoryRunCoordinator`: a
table of reference-counted locks. `RunOwner` is one run: `_lazy_run.py`, the supervisor and
native task of `_run_owner.py`, and the settlement in `_runtime_streams.py` and
`_run_resources.py`. A task that is cancelled before its first step is `unborn`: asyncio
never enters its coroutine.

### RemoteLedger, RemoteTools (`tinkerfin-remote`)

Both sides keep a ledger of the same shape; an operator of `RemoteLedger` is one
transaction of `_store.py`. `RemoteTools` composes the coordinator (`remote.py`), worker
processes on one ledger (`worker.py`) and duplex delivery (`_transport.py`). A frame is
handled in one step because the host fences connections. What is sent is computed from the
ledger, so loss and repetition are connections that break before the receipt. Abstracted:
payloads and digests (an item is its identity) and byte budgets.

### SandboxOwnership, SandboxAvailability (`tinkerfin-sandbox`, `lifecycle/`)

`SandboxOwnership`: one row per owner, warm slot and sandbox to clean up, each changed under
a claim with a lease; a manager has one owner operation, one maintenance pass and one
cleanup pass, whose steps are its calls of the State and of the server. `left` and
`condemned` record, as history, sandboxes that an operation or a crash forgot and sandboxes
of failed deletions that a close tries again. `SandboxAvailability`: the intent is a row
changed by compare-and-set; managers poll it, close their handle, acknowledge, and only
then is the server asked. `requests` are those the server may still carry out, however
late. A handle has the snapshot its manager knows and, apart from it, the generation of the
connection it uses; `adopted` records, as history, where the first ran ahead of the second.

## 3. What is checked

| Run | Question | Result |
| --- | --- | --- |
| `automation_store` | Do recovery, late claims, cancellation and deletion leave every execution sound, is capacity exact, does the Store implement the lifecycle; do repeated commands take effect once? | holds |
| `automation_engine` | Workers that crash, close and fail: is a target started once, and does it keep its unit? | holds |
| `engine_progress` | Does every execution move on when targets never return? | holds |
| `automation_scheduling` | Is the arithmetic right for all small schedules, periods and policies; with a second process, a caller or a crash, are changes kept, runs neither stale nor lost, and due tasks woken? | holds |
| `messaging_ledger` | Are turns, slices, publication, retention and cleanup consistent under late references, and is the journal implemented? | holds |
| `messaging_producers` | Is what is committed whole, the callback called once, every subscription led to its last message? | holds |
| `agent_runtime` | Do both coordinators exclude, do runs end in order, is everybody answered? | holds |
| `run_owner_close` | Does every `aclose` return? | **violated** |
| `remote_tools` | One effect, one history, nothing refused, quiet maintenance? | holds |
| `remote_tools_progress` | Does everything accepted end? | holds |
| `sandbox` | One home, nothing destroyed in it or forgotten, a paused sandbox quiet, calls on a connection made since the last resume, no request against another intent? | holds |
| `sandbox_publish` | Is an authoritative sandbox kept when the answer to a publication is lost? | **violated** |

### Findings

1. *A close before the first step hangs* (`tinkerfin`, `_run_owner.py:389`). `stop()`
   cancels the native task; if it has not had its first step, `serve()` and its `finally`
   never run, `_release` is never set, and `aclose()` waits with the scope held.
2. *An uncertain publication destroys a bound sandbox* (`tinkerfin-sandbox`,
   `lifecycle/_manager_resources.py:584`). `_fill_warm_pool` destroys its candidate on
   every failure of `publish_warm`, also when the transaction may have been committed and
   another manager has bound the sandbox since.

Met while modelling; the models follow the code, and no run states them:

- `engine.py:470`: an execution claimed again replaces the registration of its first task,
  which `close` then does not join. `engine.close` is therefore not claimed to settle
  every task.
- `service.py:473`: an update stores the `next_run_at` it read; a one-time run
  materialized meanwhile is created again under the new revision. `NothingLost` and
  `WakeupAdvances` speak of one revision.
- `service.py:1151`, `534`, `574`: without notifications a stale synchronization can remove
  a wakeup for good. The progress property is checked with notifications.
- `schedules.py:538`: a `catch_up` task that missed more instants than the queue takes
  stores none of them, again and again.
- `redis/_lease_lock.py`: a reply later than the deadline allows two bodies at once; the
  fencing tokens still order them (`FencingOrder`).
- `lifecycle/_manager_availability.py:181`: `synchronize` takes over a snapshot that is not
  running together with its connection generation. A holder whose poll or refresh missed a
  resume, and which therefore has its handle closed, takes over the new generation from the
  next drain; when that drain is cancelled, line 195 sees no difference and line 214 opens
  the handle on the connection from before the resume. `docs/en/sandbox/lifecycle.md:115`
  says "Each manager refreshes its connection before existing handles accept work again" and
  line 118 "A failed connection refresh leaves the affected handle unavailable";
  `availability.py:27` says that the generation advances "when holders must reconnect before
  accepting operations". `ConnectedSinceResume` states the promise for every other handle:
  its exception, `adopted`, is this behaviour, the bounds of `sandbox` reach it (seven changes
  of the intent), and without the exception TLC finds it. Also: an operation that lost its claim may still register its handle (`late`); a
  crash between the `pausing` change and its request leaves the owner closed until it is
  resumed; the row of a crashed holder blocks a pause; the phase `uncertain` is never set.
- `lifecycle`: `aclose` destroys the pending sandbox of a failed deletion although its
  binding was kept (`condemned`); an operation that fails after it consumed a warm sandbox
  forgets the one it replaces (`left`); a deletion goes on destroying after its claim is
  lost.
- `tinkerfin-remote`: a revocation is not delivered to a worker that is offline; a worker at
  its byte limit refuses the cancel that would free space (`_store.py:219`).
- `tinkerfin-remote`, `_store.py:605`: the worker refuses a chunk of an operation it has
  compacted. A call repeated while the operation is unfinished dispatches it again, which
  moves it only if it is still pending (`_store.py:551`), and uploads (`remote.py:480`). By
  then the worker may have compacted it with the session of the first; the coordinator keeps the
  chunk as unconfirmed and sends it with every frame, and each is refused. Another
  cause of a refusal passes: a frame takes a bounded number of commands
  (`_store.py:984`, `remote.py:263`), and a chunk that overtook its dispatch is accepted
  once a later frame has brought it. `RequestsAccepted` allows these two refusals and no
  other, and its proof says that there is no other.

### Bounds

*Parts.* Components that share no state are checked in one run as a sum: a variable
(`half`, `about`, `subject`, `scene`) chooses in the initial state which of them, or which
cast, a behaviour is about.

*Sizes.* One or two executions, workers, processes, runs, managers and sessions: the
properties speak of one such object, of two that share a scope, or of an owner and its
successor. `automation_store` has three executions so that two share a task and one
competes for the global limit. `agent_runtime` has three scopes of one key: a holder, a
waiter, and one that arrives after the entry could have been dropped.

*Combinations.* Where all pairs are too many, a bound keeps costly pairs apart and each
pair apart is covered: `WorkersOrExecutions` (two workers and one execution, or the
reverse), `OneDisturbance` and `OneInventory` (a second process, a command or a crash),
`SecondProducer` and `SecondRun`, `InScene` (two processes with a fault or with output; an
operation called twice with a fault, with a host that maintains and revokes, or from two
sessions by callers that wait for the answer; a fault and a host), and in `sandbox`
`MaxActive`, `MaxEffort` and `MaxTrouble` (jobs at a time; objects, faults and jobs
together; changes and mishaps together), beside `LongStory` (seven changes of the intent
when one manager alone pauses and resumes, so that another can miss a whole pause, a resume
and a cancelled drain). What is kept apart there is not kept apart in the
theorems.
`PromptReply` is the assumption under which leases exclude, not a bound on the other runs.

*Time.* `LeaseDuration` 1 lets a lease end between any two calls. `MaxTime` is long enough
for a lease, a queue timeout and an execution timeout to end in every order.
`EnqueueHorizon` ends submissions so that what was submitted reaches its deadlines;
`OutageHorizon` ends crashes a lease before the clock stops, because a stopped clock would
make the last lease eternal. The Redis times keep the ratios of the defaults.

*Symmetry* is used in safety runs, for identities no other constant tells apart.
`CHECK_DEADLOCK FALSE` is set because bounded behaviours end: the clock stops, or the runs,
calls and faults are used up.

### Fairness

- `AutomationEngine`: the supervisor polls and `asyncio.Lock` serves waiters in turn, so a
  dispatch possible again and again happens (strong, since commands take the lock too); a
  `claim_work` call runs to its end; an ended task wakes the supervisor; time passes; a
  deadline check makes its one Store call. Nothing is assumed of targets, callbacks,
  callers and restarts; the property asks that some worker stays up.
- `AutomationScheduling`: in one process that keeps running, coroutines that wait for the
  Store go on; queued executions are started; time passes; the 30-second repair comes
  round (strong: hints may always be waiting).
- `MessagingProducers`: tasks that can run do, the clock advances, sources and callbacks
  end. A crashed process stays away.
- `RedisLease`: time passes (strong: it is held up by answers that are due), commands are
  answered or time out, bodies end. `LocalCoordinator`: a free lock is given to a waiter,
  bodies and settlement tasks end.
- `RunOwner`: every task step that is possible is taken, preparation, pulls and cleanup
  steps end (strong for a pull, which cancellation may interrupt and resume). Nobody has
  to pull, close, cancel or fail.
- `RemoteTools`: processes are restarted and connected again, tools and preparations
  return; each side of a connection that keeps coming back gets frames through at times
  (strong: a connection may break between any two frames).

## 4. What is proved

All theorems hold for every value of the constants that satisfies the named `ASSUME`s of
the modules: sets whose members are counted are finite, limits and durations are natural
numbers (positive where the code demands it), and markers such as `None`, `Global` and
`NoWorker` are not members of the sets they mark. They carry no bound on executions, workers, runs, scopes,
managers, time or faults. Four theorems have a hypothesis of their own, given below.

| Module | Theorem | States |
| --- | --- | --- |
| `AutomationProofs` | `StoreInvariant` | `Spec => []IInv` |
| | `StoreTypeOK`, `CapacityConserved`, `NoExecutionStranded` | `TypeOK`; `CapacityExact` and `CapacityHeld`; `NothingStranded` and `StartRecorded` |
| | `OutcomesAreFinal`, `LostClaimsStayLost` | the action properties `OutcomeIsFinal`, `ClaimsStayLost` |
| | `StoreRefinesLifecycle` | `Spec => LifecycleSpec` |
| | `EngineInductive` | `EngineSpec => []EInv` |
| | `WorkersUseTheStore` | `EngineSpec => Spec`: every step is a Store step or stutters |
| | `TargetsStartOnce`, `WorkersPresumeRightly` | `LaunchedOnce`, `EngineInvariant` |
| `AutomationSchedulingProofs` | `InstantsRunOnce` | `WakeupSpec => []NothingRunsTwice` |
| | `WakeupsFollow` | `WakeupsFollowSchedule`: the arithmetic is exact and the policy is kept |
| | `StaleCopiesAreHarmless` | `StaleWorkIsHarmless` |
| | `NoRunIsLost` | `SchedulingInvariant` |
| `CommandReceiptsProofs` | `ReceiptsInductive`, `RepeatedCommands` | `RInv`; `CommandsTakeEffectOnce` |
| `MessagingProofs` | `LedgerInductive`, `LedgerIsSafe` | `LInv`; `LedgerInvariant` |
| | `CancellationIsHonoured`, `ChangesAreAnnounced` | the action properties `CancellationHonoured`, `ChangeIsAnnounced` |
| | `LedgerImplementsJournal` | `LedgerSpec => JournalSpec` |
| | `ProducersInductive` | `ProducersSpec => []PInv` |
| | `ProducersUseTheLedger` | `ProducersSpec => LedgerSpec`: every step is a ledger transition or stutters |
| | `SourcesAreWhole`, `CancellationsAreOrderly` | `SourceIsWhole`, `CancellationIsOrderly` |
| | `FollowersSeeTheEnd` | `FollowedToTheEnd`, the safety part of `FollowedToTheLastMessage` |
| `AgentRuntimeProofs` | `LeaseInvariant`, `LeaseTypeOK`, `FencingOrdersBodies` | the untimed invariant; types; `FencingOrder` |
| | `LeasesEndAsTheyShould` | `ClientOutlivesScopes` and `OwnLeaseOnly`, the safety part of `LeasesEnd` |
| | `LeaseExclusive`, `LeaseRefinesExclusiveScopes` | under `Prompt`: one body at a time; the refinement |
| | `OwnerInductive`, `RunsEndInOrder`, `CleanupIsUninterrupted` | `OwnerInv`; `RunEndsInOrder`; `CleanupUninterrupted` |
| | `LocalInductive`, `TableMatchesUse`, `LocalRefinesExclusiveScopes` | `LocalInv`; `EntriesInUse`; `LocalScopesExclusive` |
| `SandboxOwnershipProofs` | `OwnershipInductive`, `NothingLeaks`, `OneHomeAlways` | `OInv`; `NothingIsLost`; one home per sandbox |
| | `HomesStaySafe` | under `~UncertainPublish`: `HomesAreSafe` |
| `SandboxAvailabilityProofs` | `AvailabilityInductive`, `CallsStayOut`, `RequestsFollowIntent` | `AInv`; `CallsRespectIntent`; `RequestMatchesIntent` |
| `RemoteToolsProofs` | `RemoteInductive` | `RemoteInvariant` |
| | `EffectIsExactAlways`, `LedgersAgreeAlways` | `EffectIsExact`; `LedgersAgree` |
| | `EventsAlwaysAccepted` | `EventsAccepted`: the coordinator refuses no event, with frames of any size |
| | `RequestsAlwaysAccepted` | `RequestsAccepted`: the worker refuses no command, with frames of any size |
| | `MaintenanceStaysQuiet` | under `[]MaintainedAlone`: `MaintenanceIsQuiet` |
| | `SingleProcessIsQuiet` | with one worker process: `MaintenanceIsQuiet` |

The arguments, and why each invariant is stronger than what it proves:

- **Store.** `IInv` joins types, exact capacity, units held, live work items, recorded
  starts and `ScanSound`. That a running execution holds a unit rests on no claim to run
  existing without one; that nothing is stranded rests on a started execution being
  recorded as authorized, so that recovery recognises it; the steps of `claim_work` rely on
  candidates staying pending until they are visited. One lemma per action, over lemmas
  about completing and creating items and about cardinalities of scopes. In the refinement
  grants are `Admit`, recovery is `Doubt`, all settlements are `Settle`.
- **Engine.** `EInv` adds to `IInv` the worker types, `DispatcherOK`, `LaunchesRecorded`
  and `ProcsOK`: at each phase what a task knows of its claim, its fence and whether its
  launch has been counted. `TargetsStartOnce` needs that a launch was authorized and an
  authorization is never undone, across crashes and reclaims.
- **Schedules.** `InstantsRunOnce` rests on `WakeupInv`: every occurrence the Store holds
  belongs to a revision already used, and those of the current revision lie before its next
  wakeup. That a wakeup moves on (`WakeupMovesOn`: the next one is later than everything
  listed) is a fact about recursive functions on the naturals. The library's induction
  theorems take an operator as a parameter, so the module derives induction over a *set*
  (`NaturalInduction`) from the well-foundedness of `<` and instantiates that. In the same
  way the scan is shown to be exact: `NextRunAfter` finds the first selected instant, and
  `Due` lists all of those it may list, in order. `WakeupsFollow` then needs `FollowInv`: the
  next wakeup is the first selected instant after the clock of the last one, and with a
  policy that catches up everything the runs have no gap before it. The properties measure
  against the meaning of a schedule (`Occurrences`) up to twice the horizon; `IsFirstAfter`
  looks as far as the instant it judges, since a far interval starts later than that.
- **Scheduling.** `TaskInv`: a copy somebody read is an enabled task of a revision that has
  passed, or has the definition in force; what is queued was due when its copy was read.
  `StaleCopiesAreHarmless` holds for any number of processes, callers and wakeups.
  `SchedInv` adds types, that a stored task and every replacement a caller holds is on its
  schedule, and `Kept`: each instant the wakeup has passed since the revision began has its
  run. It is the runs and the wakeup being committed together that keeps it, and the queue
  limit that makes the commit all or nothing. `NothingLost` is about policies that catch up
  everything (`CatchesUp`); the others drop runs on purpose.
- **Receipts.** `RInv`: definitions are well formed; a receipt tells which command made it
  and with what result (`ReceiptsOK`); effects counted equal receipts stored (`History`); a
  request ID has one receipt (`Single`); an attempt that is about to commit has seen a
  definition that was, or still is, the stored one (`AttemptsOK`).
- **Ledger.** `LInv` adds to `LedgerInvariant` the order of fences in the log, that the
  active run's slice reaches its end, and that erased generations are empty. The refinement
  maps log entries to their runs; a takeover is a stutter of the journal.
- **Producers.** `PInv` adds to `LInv` what a task knows by itself (`TaskOK`) and of its run
  (`TaskKnows`): whose fence is still the run's writes the message after the last one; the
  winner of the settlement is the run's last producer, and only it invokes the callback.
  `RunTells` reads the same off the log and the record: the n-th message, the checkpoint,
  the tail, the count of callbacks. A takeover is refused while a cancellation is being
  settled; that is why a replaced task has never won. A step is *quiet* for the runs whose
  tasks and loops lose nothing they know; only a start and an append are not, for one run.
- **Leases.** Without time: what each scope waits for, what late commands may still do, and
  the order of tokens. With `Prompt` (the longest reply and the renewal deadline together
  stay below the time to live) `Timed` bounds from below what remains of a lease in a
  scope's hands; exclusion follows. Without `Prompt` it is false, and TLC's late-lease part
  of `agent_runtime` checks what remains true.
- **Run owner, local coordinator.** `OwnerInv` relates the places of supervisor and native
  task (`Places`), how each exit was reached (`Exits`) and what a stop remembers
  (`Remembers`). `LocalInv` counts: an entry's users are exactly the scopes registered at it.
- **Ownership.** `OInv` = types, homes (`OneHomeEach`, `ClaimKnows`, `SlotKnows`,
  `Outdated`, `InDoubt`, `FreshEach`, `OneHand`), `DestructionOK`, `AnsweredFor`, `Kept`. An
  operation that has lost its claim still acts at the server: the proof rests on what such
  an operation may still have in hand. `OneHomeAlways` and `NothingLeaks` need no
  hypothesis. `HomesStaySafe` assumes that publications have certain answers; the run
  `sandbox_publish` shows that it fails without, which is finding 2.
- **Availability.** `AInv`: one author per change of the intent, at most the request the
  intent names, and for each handle what it has acknowledged, polled or kept open.
  `CallsStayOut` adds `ConnectionInv`, which is inductive given `AInv`: outside `adopted` a
  handle never knows a newer generation than its connection's, and from its connection to the
  end of its registration under the claim it has the current one. An open handle knows the
  current generation (`AInv`), hence uses it. Handles in `late` and `adopted` are excepted,
  because the code does open them on older connections or while the sandbox is paused.
- **Remote.** A frame is folded into a ledger, so everything about a frame is an induction
  over its items: a fold over a sequence is a recursive function over sets of indices, and
  with `NaturalInduction` its stages form one sequence of ledgers (`FoldStages`), from which
  `CommandsInTurn`, `ChunksInTurn` and `EventsInTurn` follow. Every transaction keeps
  `LedgerOK`. What one side needs of the other is monotone: on the worker's side a
  transaction `Grows` (histories are extended, what is over stays as it is), on the
  coordinator's it `Advances` and still `Follows` the worker. `RemoteInvariant` is then
  `LedgersOK` (what the worker knows to be acknowledged is at most what the coordinator has,
  and that is a beginning of what the worker has), `ReceiptsOK` (a receipt on its way never
  runs ahead of what the coordinator has, which is why the worker may forget what is
  acknowledged), `Attached`, `Exclusive` (a claim is never given back, so across processes
  and restarts one execution goes through the phases of an operation), `Effects` and `Told`.
  It has no bound on the size of a frame, on connections or on crashes of the worker.
  That no event is refused needs more: histories are `Legal` (the first event is an
  opening one, and no later one is `started`), the coordinator has every operation it `Requested`, and
  the worker has none the coordinator has not. Then every event of a frame is either known
  already or the next one, and the fold over the frame accepts it.
  In the other direction the list of commands is the history. `Agreed`: the worker was given
  a beginning of the coordinator's list, at least up to what is confirmed; each ledger
  `Reflects` its list (which sessions are open and which operations exist can be read off
  the commands issued); and the list is `Lawful` (no command is one that a ledger with the
  commands before it refuses, and none occurs twice). What waits is therefore accepted in
  its order, known or new (`FrameGiven`), whatever part of it a broken connection had
  handled. All other transactions leave the lists as they are (`Alike`). A frame that has
  all waiting commands brings the operation of each of its chunks, so that a chunk can only
  come too late.
- **Maintenance.** `Quiet`: in a body every operation of the ledger is over, every session
  has its answer and the process has nothing under way. New work would come by a frame, and
  the process refuses work in a frame while it maintains (`RefusalRecorded`); another
  process of the ledger would accept it, and all processes schedule what the ledger holds.
  That no other process takes frames while one is in a body is the hypothesis
  `MaintainedAlone`; with one process there is no other.

Each inductive invariant was checked by TLC on the instances of section 3 before it was
proved.

### Only model-checked

- Liveness: `EveryExecutionMovesOn`, `DueTaskIsMaterialized`, `FollowedToTheLastMessage`,
  `LeasesEnd`, `TurnComes`, `WaitersAreAnswered`, `EverythingEnds`. Fairness and `ENABLED`
  are outside the prover's reach. The safety part of the third is `FollowersSeeTheEnd`, that
  of the fourth `LeasesEndAsTheyShould`.
- `MaintenanceIsQuiet` without `MaintainedAlone`: in the run a scene with a host has one
  process.
- `PromptLeaseIsExclusive` is the refinement on the part of the run with prompt replies;
  `LeaseRefinesExclusiveScopes` proves it of `RedisLease` under `Prompt`.

## 5. Not modelled

- SQL transactions, isolation and schema code: the SQL Stores apply the same transitions
  and are covered as far as each method is one serializable transaction. The Redis scripts
  of Messaging likewise.
- Automation: receipts of manual submissions, errors of the Store and the end of the
  scheduler loop after one, the limit on the misfire scan, the cron parser and its
  daylight-saving search, JSON, cursors, queries, handles, facade.
- Messaging: codecs, payload checks, SSE rendering, channel binding, capacity accounting.
- Runtime: construction of agents, plan subflows, compaction, resume claims, fan-out of
  observations.
- Remote: byte budgets, digests, binary results, the filesystem operations of a session.
- Sandbox: workspaces and watches, purposes, the process-local State, notifications, the
  backends' file and command operations, handles in `SandboxOwnership`, a sandbox paused
  from outside, bindings committed after the read that reconciles them.
- The packages and applications that keep little state of their own or only do I/O: see
  the components in `PROJECT.json`.

## 6. Plan

1. Done: the models above, and a proof of every safety property the passing runs check,
   those of the schedules for all horizons and those of remote execution for frames of any
   size; `HomesAreSafe`, `MaintenanceIsQuiet` and the exclusion of leases under the
   hypotheses named in section 4.
2. Open: the SQL Stores and the Redis scripts of Messaging against the transitions, byte
   budgets of the remote ledger, handles of the sandbox across both halves.
