# EcodiaOS admin backend: a TLA+ model of its session core

The backend is one Node.js process (`ecodia-api`, `src/src/server.js`) with two
helpers (`ecodia-factory`, `ecodia-rescue`) under pm2. At its centre is one long
conversation with a language model, the *OS session*; everything else either
sends messages to it, works for it, or watches it. This directory models that
core: how messages reach the session, how turns follow one another, how forks of
the session are admitted, run and report, how scheduled tasks come due, how
actions are queued, approved and executed, and how the sessions of the *Factory*
run in their own process and their work is deployed.

The program runs on one event loop per process, so each model makes a step
of what happens between two awaits, and lets other handlers run in between.

Paths below are relative to the repository root; `services/` is
`src/services/` in it.

## 1. Inventory

### Parts, state, operations

| Part | State it keeps | Operations | What makes it hard |
|---|---|---|---|
| **Forks, admission** (`services/forkService.js` 60-411) | Map `_forks` | `spawnFork`, end, eviction 5 minutes later | a count is taken before an await and used after it; any number of callers |
| **Forks, run** (`forkService.js` 411-693) | `status`, `pendingMessages`, `pendingResolvers`, `input_closed`, row of `os_forks` | stream loop, prompt generator, `sendMessageToFork`, `abortFork` | three parties interleave: loop, generator, senders; an abort meets any await of the loop |
| **Fork report** (`forkService.js` 574-582) | none | two regular expressions on a transcript | order and number of tags |
| **Message queue** (`services/messageQueue.js`, `routes/messageQueue.js`, `routes/osSession.js`) | table `message_queue` | enqueue, edit, cancel, promote, deliver, drain, age sweep | overlapping transactions, the gap between commit and `sendMessage`, lost answers, restarts |
| **OS session** (`services/osSessionService.js`) | `_sendQueue`, `activeQuery`, `activeAbort`, `handoverInProgress`, `ccSessionId` | `sendMessage`, retries, watchdog, `abort`, `restart`, `autoHandover` | a turn is settled while it still runs; the queue is replaced under waiters |
| **Scheduler** (`services/schedulerPollerService.js`, `mcp-servers/scheduler/index.js`) | table `os_scheduled_tasks` | eight tools on tasks, a poller in the API and one in each MCP process | nothing marks a task as taken; one post per poll; put-offs |
| Session handoff, auto-wake (`services/sessionHandoff.js`, `sessionAutoWake.js`) | `kv_store` rows | save, peek, consume; rate-limited wake-up | a restart between two steps |
| Listeners, event bus (`services/listeners/`, `internalEventBusService.js`) | sets of seen ids, a LISTEN connection | dispatch, reconnect | events lost while disconnected, duplicates |
| **Factory runner** (`workers/factoryRunner.js`, with `services/factoryBridge.js`, `factoryTriggerService.js`) | `activeSessions`, child processes, table `cc_sessions` | start, resume, send, stop, watchdog, clean-up, shutdown | two processes, channels without acknowledgement; entries, rows and processes each keyed by the session while calls overlap |
| **Factory pipeline** (`services/factoryOversightService.js`, `deploymentService.js`) | stages of `cc_sessions`, table `deployments`, git directories shared by sessions | test, judge, approve, reject, salvage, deploy, revert | several flows in one directory; one step of several fails |
| Code requests (`services/codeRequestService.js`) | a table | confirm, dispatch | records that lead to a dispatch |
| **Action queue** (`services/actionQueueService.js`) | table `action_queue` | enqueue with consolidation, execute, batch, retry, dismiss, expire | claim, effect and mark are three steps; merges write what they read before |
| Tokens and energy (`services/claudeTokenRefreshService.js`, `usageEnergyService.js`) | credentials file, `kv_store`, timers | refresh, choice of account, level of energy | stale copies, refresh racing use |
| Rescue (`rescue/rescueRunner.js`, `services/rescueService.js`) | a session of its own | start, message, abort over Redis | as the Factory |
| Heartbeat, self-check, alerting, incidents, nightly restart | cooldown stamps | observe, alert, restart | double alerts |
| Knowledge graph, bookkeeping, mail, calendar, CRM, social media, telemetry, capabilities | databases and external services | requests and upserts | outside the scope of a model, see section 8 |

### How they interact

- `POST /api/os-session/message` drains the message queue into the message and
  calls `sendMessage`. The scheduler pollers, the listeners, the wake-up and the
  user interface all come in by this route.
- `message_queue` rows come from the user interface and from forks
  (`fork_report`). They are handed over by the session's signal, by promotion,
  by the sweep or by a direct message, each time through `sendMessage`.
- A fork shares the machine's account with the session; the only coupling is
  the caps on their number and the report.
- `autoHandover` runs inside the session: it asks for a brief in a hidden turn,
  drops the session id and starts a new session with the brief.
- The API commands the runner over Redis channels and hears of a session's end the
  same way; a message to a process that is down is lost. At the end it reads the
  row anew and either hands the session to the conductor for review, starts the
  pipeline, or salvages a failed session's edits. The conductor approves or
  rejects by a route, which leads to `deploySession` or to a clean directory.
- A restart of the process loses every Map and promise and keeps every table.

### What would make each modelled part correct

- admission: no more live forks than the caps allow;
- fork run: accepted messages arrive in order and are not left behind, the row
  ends as the fork ended, the report comes after it, an abort ends the fork;
- message queue: a message is handed over once, as last edited, and never
  marked without being handed over; an old message does leave the queue;
- session: one turn at a time in the order of the calls, an abort meets a live
  query, no message and no handover waits for ever;
- scheduler: one post per due time, a chained task is not lost, every cron
  keeps firing;
- action queue: an approved action takes effect once, whatever overlaps; a failed
  one is found again; a decision stands; a signal is not lost in a merge;
- Factory runner: what `activeSessions` has is the process that runs, the review
  sees the result of the process that ended, a paused session can be resumed, no
  row stays *running* for ever;
- Factory pipeline: what counts as served is on origin and what was reverted is
  not; a session deploys its own work; a stage moves on.

`PROJECT.json` lists every hazard at its line with the properties that cover it.

## 2. Modules

| Module | Models | TLC module / configurations | Proofs |
|---|---|---|---|
| `ForkReport` | `Report`, `NextStep` on transcripts of tokens | itself; `MCForkReport`, `MCForkReportOneLine` | `ForkRunProofs`, last section |
| `ForkSpawn` | `spawnFork` up to the registration, end, eviction, restart | `MCForkSpawn`; `MCForkSpawn` | `ForkSpawnProofs` |
| `ForkRun` | one fork after its registration | itself; `MCForkRun` | `ForkRunProofs` |
| `Inbox` | what the message queue promises, without its mechanism | through `MessageQueue` | `MessageQueueProofs` |
| `MessageQueue` | the table and its handlers; implements `Inbox` | itself; `MCMessageQueue` | `MessageQueueProofs` |
| `OsSession` | turns, watchdogs, abort, restart, handover | itself; `MCOsSession`, `MCOsSessionStaleResultIsRetried` | `OsSessionProofs` |
| `Scheduler` | table, tools and both pollers | `MCScheduler`; `MCScheduler`, `MCSchedulerLive` | `SchedulerProofs` |
| `Approval` | what the action queue promises, without its calls and statements | through `ActionQueue` | `ActionQueueProofs` |
| `ActionQueue` | the table and the functions that change it; implements `Approval` | `MCActionQueue`; `MCActionQueue` | `ActionQueueProofs` |
| `FactoryRunner` | sessions, their processes, rows and channels | itself; `MCFactoryRunner` | `FactoryRunnerProofs` |
| `FactoryPipeline` | what becomes of the work of sessions: oversight, deployment, git | itself; `MCFactoryPipeline` | `FactoryPipelineProofs` |

An operator marked *Mutant* in a module is a plausible bug of the definition
below it. It is not part of any specification: put in place of that definition
it makes the property that `PROJECT.json` names with it fail.

### ForkSpawn

A call is *new*, *counted* (inside `await _energyCap()`), *admitted* or
*refused*. `Enter` takes `_activeCount()` and compares it with the hard cap;
`Admit` and `RefuseEnergy` compare the same, old count with the cap of whatever
level the await returned. `End` is the end of a fork's loop, `Evict` the timer
that drops its entry, `Crash` the loss of the Map. `overlap` is history: the most calls
that one call found in the await when it took its own count. What a live fork does is
the matter of `ForkRun`.

### ForkRun

`pc` follows the loop from `_dbInsert` to the eviction. `gen` is where the
prompt generator stands: at the brief, between two yields, waiting on a promise
in `pendingResolvers`, or ended. `writes` holds the row statement under way; the
loop awaits each one (414, 494, 588, 630), and each swallows its failure. The
SDK is environment: it pulls the generator and delivers stream messages as it
likes, and ends the stream of an aborted query.

### MessageQueue

Rows carry a status, a version of the body, whether they are past their age,
whether they are promoted, and the transaction that holds their lock. A
hand-over is `SelectSome` (with `SKIP LOCKED`), `Marked` at the commit, and
`Dispatch` (`sendMessage`); each UPDATE of another handler waits for the lock and
tests its condition again when it gets it. `LoseConnection`, `LoseCommitAnswer`
and `Restart` are the faults. `MaxBundle` stands for the 200000 characters that
`sendMessage` accepts.

### Inbox

The abstract specification: a message is absent, waits, leaves, is told, is lost
or is withdrawn; it can be changed only while it waits, is told once and as it
stands. `MessageQueue` maps a row to its place by its status and by the bundle
that carries it between commit and call (`Place`): a commit is `Leave`, a
dispatch is `Tell`, and locks, rollbacks, promotions and stamps are stutters.
That a message may be *lost* is in the specification because it is in the code:
a restart between the commit and `sendMessage` loses it.

### OsSession

Message *m* is the *m*-th call of `sendMessage`; `pred[m]` is the message whose
promise it was chained to, `tail` is `_sendQueue`. A turn goes through entry,
setup, stream and end, with `Retry` back to the entry. `Return` settles the
promise; `Watchdog` settles it while the turn goes on. `disturbed` records that
a promise was settled, or the queue replaced, before a turn had ended. Both
outcomes are possible where the code asks for `ccSessionId`. `compact` is a
`restart` and a `sendMessage`.

### Scheduler

Time passes in ticks of `POLL_INTERVAL_MS` (30 s). `next_run_at` is a pair: the
number of ticks it is away (`wait`) and a relation `before` that orders all of
them, so that two tasks due at one poll still have a first. A poller reads the
due tasks, asks whether the session is busy and how much energy there is, and
starts on the first task. The SELECT and the questions are one step, because the
questions touch nothing of the table and their answers are arbitrary. After it
each statement is a step: post, UPDATE, the SELECT of chained tasks, one UPDATE
per put-off. `next_run_at` of a task that is not active is never read, and
`schedule_resume` writes it anew, so it counts as Never. *stopped* is `paused`
or `cancelled`. Chained siblings are fired in any order (the SELECT has no
ORDER BY), each after the chain of the one before or interleaved with it. A task whose
`next_run_at` is *now plus something* goes behind those of its tick; a delayed task
created with an ISO time (`CreateAt`) goes anywhere in its tick, and with a time in the
past maybe in front of all that is due.
`excused` collects tasks hit by a failed call, a resume, a run by hand or two
handlers at once; a task that comes due anew outside any hand starts afresh.

### ActionQueue

A row has the name of the signal whose INSERT made it. `Look` is the SELECT of
`tryConsolidate`, `Merge` its UPDATE, which writes the context that the SELECT
saw, whatever the row has become. `Sender[s]` stands for the score: two signals
of one sender score 50 or more. An execution is `Claim` (UPDATE under
`status = 'pending'`), `Perform` (the capability, which may fail before or after
its effect) and `Record` or `Restore`; `step[c][r]` says how far call `c` has come
with row `r`. `NextWave` is a wave of `batchExecute`, `NextRetry` the loop of
`retryFailed`. The history of decisions and the dismissal cool-down are an
arbitrary refusal in `Enter`. A deferred and a failed action differ only in
the text of the error.

### Approval

The abstract specification of that queue: an action is proposed, is dismissed or
expires while it is pending, or is taken by one execution, which takes effect at most
once (`Act`, or `Break` for a capability that fails after its effect) and then is
noted (`Finish`), gives the action back or leaves it stranded. `ActionQueue` maps a
row by `Standing`: its status and, while it is approved, the step of the call that has it;
approved and in nobody's hands is *stranded*. `performed` is `effects`. Looks,
merges, waves, groups, retries that clear an error and claims that find nothing are
stutters. That an action given back may take effect again is in the
specification because it is in the code: an UPDATE to `executed` may fail after the
effect (`actionQueueService.js:545`).

### FactoryRunner

A *call* is one `startSession` or `resumeSession`; it spawns at most one process,
and `proc`, `known`, `killed`, `stopped`, `timer` and `close` are what the
runner keeps of that process. `tracked` is `activeSessions`. The row is `status`,
`cli` (has it `cc_cli_session_id`) and `beat` (the age of its heartbeat). `Speak` puts the
id of the client in memory and sends its UPDATE off without waiting (`sent`); `WriteId` is
its arrival or failure, and until then close handler and watchdog may write *paused*
by the id in memory, and a resume is refused. Close
handlers go from `CloseEvent` over `Drained` (the output is read, or five seconds
have passed), `Record` and `Publish` to `Review` in the API. `pending` holds
updates that nobody waits for: the route's and the runner's own write of a stop, the
watchdog's verdict, the pauses of a shutdown. The entry is deleted by the id of
the session, as the code does, whichever process it is for. `meddled` collects the
sessions that met an overlap, a stop, the watchdog, a shutdown or a fault; the
properties say of the others what the code can promise them.

### FactoryPipeline

An edit is a change of a tracked file or a new file, by a session or by the OS session,
which works in the same directory. Edits are in the directory (`tree`, some of them
staged: `index`), in the branch (`local`), on `origin`, or gone; a stash is never taken
back and is left out. A *flow* is one run of `runPostSessionPipeline`, a review, an
approval or a rejection. git is called synchronously, so that what a flow does between
two awaits is one step: `Commit` takes everything in the directory (`add -A`), `Clean`
discards it, `Salvage` stashes the tracked part. A commit is the pair of what it adds to
the branch and takes off it, a revert the pair turned round; `sha` is the commit
that a flow takes for its own, `lot` the edits of the one it made. They part in
`Rebase`: after a rejected push HEAD is read anew (`deploymentService.js:128`), and in the
awaits before another flow may have committed or reverted. A rejected push is an arbitrary
choice, since what others push to origin has no content here.

Every git command may fail on the way: `CommitFails` leaves the edits, maybe staged;
`CleanUp` ends without a word at the first of reset, checkout and clean that fails. `Finish`
may find no file changed although the directory has edits (lock files do not count, and
a failing `git diff` is passed over). All these count as mishaps, with restarts, rejected
pushes, the OS session's files (`OsWrites`) and what a client does by itself (`Switch` to
another branch, `ClientCommits`); the noise files need none. The content of other branches
is left out: a commit on one goes nowhere (`astray`), and what is pushed then is main as
it is. `crowded` collects the sessions that were dispatched or decided while another one was
not settled; a conductor who serialises, as `patterns/` asks, has none. `leftover`
collects those whose edits were in the directory when they were done with it.

## 3. Runs

| Run | Bounds | Shows |
|---|---|---|
| `fork_report` | transcripts up to 6 tokens | whatever the order and number of tags, a report on lines of its own comes out whole |
| `fork_report_one_line` (violated) | the same | the one-line form that the prompt asks for comes out empty |
| `fork_spawn` | 5 calls, hard cap 2, energy caps 0-3, 1 restart | the live forks exceed the hard cap by no more than the calls that one found in the await; calls that do not overlap respect both caps |
| `fork_run` | 4 injected messages | order, wake-up, row, report and end of a fork; an abort ends it |
| `message_queue` | 2 handlers and the sweep, 2 rows, 1 edit, 1 fault, bundles of 2 | handed over as edited, accounted for; every step is one of `Inbox` (so at most once, and final); old messages leave |
| `os_session` | 2 messages, 2 retries (the value of the code), 2 handovers | order of turns; `activeQuery` is alive, and refers to every stream an abort should reach; every send settles, handovers end |
| `os_session_stale` (violated) | as in its configuration | a stale resume id in a result is not retried |
| `scheduler` | 1 cron, 1 delayed, 2 chained tasks, both pollers, 1 MCP poll, 1 edit, 1 fault | one post per due time, no stranded chained task, nothing but a task created for a past time gets in front of a due task |
| `scheduler_live` | 2 crons of 3 ticks (the put-off is 2), 1 delayed task, 1 edit, 2 faults, no MCP poll | both crons keep firing, the delayed task settles |
| `action_queue` | 1 row, a second signal of its sender, 3 calls of which 2 overlap, 1 fault | effects are marked, approved rows are held, groups are serial, failed rows are found, no twins, signals are carried, decisions stand; every step is one of `Approval`; every call returns |
| `factory_runner` | 1 session, 2 calls, 1 message or stop, 1 shutdown or crash, 1 failed statement | the tracked process is the running one, the review reads its result, a paused row has its id or will get it; no row runs for ever |
| `factory_pipeline` | 2 sessions, 2 flows, 1 mishap (failing call, rejected push, restart, act of a client or of others) | served is on origin and reverted is off it unless a HEAD read after a rebase was the wrong one; serialised sessions commit their own work and what was left; stages move on |

Types are theorems of every module but `ForkReport`, whose state is one transcript
(section 5); the runs, which TLC passed with them first, do not evaluate them again. `AtMostOnce` and `FinalIsFinal` of `MessageQueue` are theorems, too, and
follow from `ImplementsInbox`, which the run checks.

Why the bounds are enough. An overlap needs two parties, and three callers show
that a third changes nothing; five calls at a cap of two allow two admissions, an
end, an eviction and a restart between them. Four injected messages take both
ways into the generator twice. Two rows and two handlers make every order of
lock, commit, edit and dispatch; a bundle of both rows and of one happen. In
the session a message may wait for the other one, for its retries and for the hidden turn
of a handover, or overlap with any of them when the queue was replaced. In the scheduler the second fault is what makes the
catch's own UPDATE fail. In the action queue two overlapping calls of three meet at every
step of a row, and the second signal merges into it or becomes its twin; the
fault falls between any two of the steps. In the runner two calls are a start
and a resume, with the close of the first process during the second; one more
message or stop, one end of the runner and one failed statement fall anywhere. (Its
invariants held in 24 million states of an instance with three calls, too, before they were
proved.) In the pipeline two sessions and two flows give a deployment beside
another, a clean-up beside an edit and a revert beside a commit, and one mishap
makes each exemption of the properties necessary but one: that a revert brings another's commit
back takes four flows, and is proved rather than reached. (The invariants held with two mishaps,
12.6 million states, too.) Bounds appear as guards on counters only (`MaxCrash`,
`MaxMessage`, `MaxRow`, `MaxEdit`, `MaxFault`, `MaxMsg`, `MaxHandover`, `MaxPoll`,
`MaxDelay`, `MaxCall`, `MaxOverlap`, `MaxOrder`, `MaxDown`, `MaxSession`, `MaxFlow`, `MaxMishap`); `HardCap`,
`EnergyCaps`, `MaxBundle`, `Period`, `Hour` and `Concurrency` are parameters of the code made small. The safety results do not depend on them
where section 5 proves them. Deadlock is checked in the scheduler's runs
(time never stops) and in the queue's; elsewhere the system comes to rest when
all calls are over.

## 4. Fairness

- `fork_run`: the loop's own steps and the database go on; the SDK ends the
  stream of an aborted query. Nothing is assumed of senders or of the stream
  otherwise.
- `message_queue`: the sweep interval fires again and again, and a started
  hand-over proceeds (or meets a fault). Nobody has to signal or to promote.
- `os_session`: a waiting call begins when its promise is settled, and the two
  watchdog timers fire. Nothing is assumed of the SDK, which may hang for ever.
- `scheduler_live`: time passes, the API's poller polls and its statements
  return; for each task, if again and again a poll has it in front, then
  again and again the session is not busy and energy not critical at such a poll
  (strong fairness of `GoAhead`). Without it a session that is busy at every
  poll blocks the scheduler, as the code intends.
- `action_queue`: a call that waits for the database or for a capability goes on
  (`Proceed`). Signals, dismissals, expiry and new calls are free.
- `factory_runner`: handlers go on, updates arrive or fail, the watchdog and the
  clean-up run on their intervals, heartbeats age, and pm2 starts the runner
  again (`max_restarts` aside). Nothing is assumed of the client: it may run silently
  for ever, ignore SIGTERM, or never tell its id.
- `factory_pipeline`: the awaits of a flow return. Nobody has to approve or reject.

## 5. Proofs

Each `...Proofs` module proves, for all values of the constants under the named
assumptions of the module, an inductive invariant and from it the safety
properties. Every invariant was checked by TLC before it was proved. (`ForkReport`'s theorem is
in the module of `ForkRun`'s proofs: the loop of the fork reads that transcript.)

| Theorem | From |
|---|---|
| `HardCapSafe`, `SequentialSpawnsRespectCap`, `EnergyCapSafe` | `CapInv` |
| `OwnLinesAreCaptured` (of `ForkReport`) | the two expressions themselves |
| `InjectionOrderSafe`, `NoLostWakeupSafe`, `RowShowsTheEndSafe`, `ReportFollowsRowSafe`, `EndIsFinalSafe` | `RunInv` |
| `AtMostOnceSafe`, `HandedAsEditedSafe`, `DeliveredIsAccountedForSafe`, `FinalIsFinalSafe`, `QueueIsInbox`, `WaitsEnd` | `QueueInv` |
| `TurnsInOrderSafe`, `ActiveIsAliveSafe`, `RunningIsReachableSafe` | `SessionInv` |
| `NoLockedQueueSafe`, `HandoverHasOwnerSafe` | `SentInv`, `WaitInv` and the types |
| `TypeInvariant`, `OneFirePerSlotSafe`, `NoStrandedChainSafe` | `SchedulerInv` |
| `NobodyOvertakes`, `NobodyIsForgotten` | the types, with `OrderOK` |
| `ActionsTakeEffectOnce`, `ApprovedRowsAreHeld`, `GroupsAreSerial`, `FailedRowsAreFound`, `DecisionsAreFinal`, `QueueIsApproval` | `HandInv` |
| `BusyCallsGoOn` | `HandInv`, `BusyInv` |
| `SendersHaveOneRow`, `SignalsAreCarried` | `SignalInv` |
| `PausedHasItsId` | `Shape`, `Resumable` |
| `UndisturbedStaysTracked`, `ReviewReadsTheResult` | `Shape`, `Apart` |
| `HeartbeatsEnd` | `Shape`, `BeatInv` |
| `ServedStaysOnOrigin`, `RevertedIsOffOrigin` | `CommitInv` |
| `SerialisedOwnWork` | `TidyInv` |
| `NoStageLeftBehind` | `StageInv` |
| `SpawnTypes`, `RunTypes`, `QueueTypes`, `SessionTypes`, `ActionTypes`, `RunnerTypes`, `PipelineTypes` | the types alone |

- **CapInv.** The cap itself is not inductive: a call in the await may admit on
  an old count. `PendingFit` counts these calls with the live forks: each found
  the cap not reached when it came in, and at most `overlap` others were there, so
  that all of them fit under the cap and the overlap. `CountIsSafe` says that, as long as
  no two calls overlapped, the old count is at least the present one, since forks can
  only have ended.
- **OwnLinesAreCaptured.** No invariant but a computation: a tag's first
  occurrence is the least index (`LeastNatural`, `FirstFromIsFirst`), the rest of a
  line that holds the tag only is empty (`LineEndsAtTag`), and the captured group
  stops before the next tag or at the end (`StopAfterTag`). So the bound of six tokens
  in `fork_report` is not needed.
- **RunInv.** `RowIsCurrent` ties the updates under way to the loop's position:
  when the final update is awaited no earlier one is left that could
  overwrite it. `StatusAt` and `PostedOnce` tie the Map and the report to the
  loop.
- **QueueInv.** `LocksMatch`: a lock is held by the handler whose bundle
  contains the row, up to its commit. `CopiesMatch`: nobody edits what is
  locked or marked. `InTransit`: between commit and call a row is in one
  bundle. `UnmarkedIsInside`: a row not marked was not handed over.
- **SessionInv.** Undisturbed, the promises form one chain (`Chain`): each waits
  for the one before, and nothing starts ahead of an unsettled one.
  `SignalsAreOpen` carries `ActiveIsAlive` through aborts and retries. Since one turn
  at a time runs, nobody but the stream itself clears `activeQuery`, and what does so
  on purpose sets its signal: `RunningIsReachable`.
- **WaitInv.** A message waits for an earlier one, and a turn that is over is settled,
  disturbed or not. So, descending from a waiting message along `pred`, one meets
  a message that may begin or a turn whose watchdog is still to fire
  (`NoLockedQueue`); this needs well-founded induction on the number of the message.
- **SchedulerInv.** For a task without excuse, `OneHand`: it is in at most one
  handler's hands. `Posted`: after its post it has either left the next poll's
  sight, or its handler stands right before the UPDATE that takes it out.
  `AbsentInv` keeps tasks that were never created out of all hands.
  `NoStrandedChain` is inductive by itself. The order on `next_run_at` is part
  of the type invariant and needs a lemma on each write. The same lemmas show
  that no write puts a task in front of one that is due, and that an active cron or
  delayed task keeps a `next_run_at` whichever of its statements fails.

- **QueueIsInbox.** Under `QueueInv` every step of the queue is a step of `Inbox`
  or a stutter: one lemma for the steps on a row, one for the commit (the bundle
  leaves; after a lost answer it is lost), one for the dispatch, where
  `CopiesMatch` says that what is told is the present text, one for the restart.
  `LocksMatch` gives `WaitsEnd`, too: who holds a row is at its commit and waits
  for nobody.
- **HandInv.** `ApprovedIsHeld` carries the rest: an approved row is in the hands
  of exactly one call or stuck, because only the claim approves and it asks for
  a pending row. `EffectsAreMarked` counts: performed is unmarked plus one for the
  mark, or for the call that is about to write it.
- **QueueIsApproval.** Under `HandInv` every step of the queue is a step of `Approval` or a
  stutter. `StandsByStep` computes `Standing` from the one call that has an approved
  row, so that a step of that call moves that row only (`HoldMoves`); then one
  lemma per statement, and `Strand` for a restart and for a catch that fails.
- **BusyInv.** A busy call has some row, and only batches and retries keep rows back.
  So a call can always go on: of the rows of a group the first is never held
  back, and a wave of one row fits any concurrency.
- **SignalInv.** Without overlap of its sender's calls (and without a row that came
  back) a merge finds the refs as it read them (`MergeIsCurrent`), an insert is the
  sender's first live row (`InsertIsFirst`), so there are no twins and no ref is lost.
- **Resumable.** Until the runner goes down or a statement fails: the runner knows
  the client's id only when the row has it or its UPDATE is under way, a resume got past its
  check only when the row had it, and nothing on its way to a row is a pause of a row
  that has no id and gets none.
- **Apart.** In a session that is not meddled with only the last call has anything left
  to do (`Alone`): `Resume` without an overlap begins at rest, and what could
  break in from outside (stop, watchdog, shutdown, fault) meddles. So two calls at
  work are one (`OneAtWork`), nobody else deletes the entry or writes the row
  between a result and its review (`ResultInRow`).
- **BeatInv.** A heartbeat timer belongs to a call that has a process and whose end was
  not handled, since both handlers take the timer away first; a process whose end
  came before its handlers is `unheard`, the one case in which it beats for ever.
- **CommitInv.** Each commit took its edits out of the directory, so the lots are
  disjoint (`Apart`, `Loose`); `Kept`, `Sent` and `Off` say for each place of a flow
  whether its commit is in the branch and on origin. What could break them is a revert
  of a commit that is not the flow's: `OwnSha` says that this takes a rebase first, so
  that a flow which takes another's commit keeps it (`ClaimsStand`), and `RevertMoves` that a revert
  touches only lots that its flow takes or restores. A push sends the whole
  branch, and `Kept` makes that harmless.
- **TidyInv.** A settled session has no edits in the directory, or they were left there
  (`Swept`; `SettledIsSwept`): a complete one by its stage (`OpenWhileEdited`), a failed one
  by its salvage (`SalvageIsDue`), and flows past their commit anyway (`SweptByFlow`). Two
  unsettled sessions are crowded (`CrowdsAreKnown`). So a commit outside a crowd finds its own work, the
  OS session's and what was left.
- **StageInv.** Each place of a flow at which the stage says *testing* or *deploying* is one
  from which all ways write it again (`Ahead`), and a flow leaves these places
  only by such a write, by a failed revert or in a restart.

Only model-checked: the liveness properties (`AbortEnds`, `AgedLeaves`,
`EverySendSettles`, `HandoverIsReset`, `DueCronFires`, `DelayedSettles`, `CallReturns`,
`NoZombieRow`, `PipelineEnds`), because the prover has no support for fairness and
ENABLED. For all of them but `AbortEnds` a theorem gives the part that does not need
fairness, for every value of the constants: that a state in which nothing is left to
do for the promise is never reached.

| Liveness property (TLC) | What is proved of it |
|---|---|
| `AgedLeaves` | `WaitsEnd`: hand-overs and sweeps do not wait in a circle |
| `EverySendSettles` | `NoLockedQueueSafe`: behind every waiting message something can move |
| `HandoverIsReset` | `HandoverHasOwnerSafe`: the flag is never left behind |
| `DueCronFires`, `DelayedSettles` | `NobodyOvertakes`, `NobodyIsForgotten`: of the tasks there are, none gets in front of a due one, and an active one comes due |
| `CallReturns` | `BusyCallsGoOn`: a call that has not returned can go on |
| `NoZombieRow` | `HeartbeatsEnd`: nothing beats for a process that is over and handled |
| `PipelineEnds` | `NoStageLeftBehind`: a busy stage has a flow that will write it |

That those steps are then taken is the fairness of section 4.

The refinements `QueueIsInbox` and `QueueIsApproval` are of safety: the abstract
specifications state no fairness.

## 6. Where code and text disagree

Shown by a run:

1. `forkService.js:576`: the report's expression drops the rest of the tag's
   line; the prompt (`:293`) asks for the report on that line.
2. `osSessionService.js:2180`: the sentinel of a stale resume id in a result is
   swallowed; the comment (`:2054`) says the turn is retried fresh.

Stated in the properties by what they except, or seen while modelling:

*Forks and session.* The "absolute concurrency ceiling" (`forkService.js:68`) can be
exceeded by calls that overlap in the await (`:361`), by as many as one of them found
there (`ExcessIsOverlap`). After a watchdog or an abort a turn starts
beside the old one (`osSessionService.js:2711`; `TurnsInOrder` excepts it), while
the comment (`:2726`) says turns never race. `sendMessageToFork` accepts a message in
`reporting`, when nothing reads it (`forkService.js:671`); `abort` says that the
turns it cleared never fire, and they do (`osSessionService.js:3132`); a late end of a
given-up turn is not without effect (`:2717`); `_isQueueBusy` may say free while
a turn runs (`:3165`); a requested handover does not wait for the turn under way
(`:2906` and `routes/osSession.js:165`); a turn stopped before it wrote any text looks
like an empty one and is retried (`:2248`); `abort` clears `handoverInProgress`
while a handover is between two awaits (`:3138`); an error text of 100
characters passes for a brief (`:3009`); messages of the MCP pollers and listeners
count as the user's (`routes/osSession.js:54`); the alert for a hung fork waits for
an event that a hung fork does not cause (`listeners/forkComplete.js:8`).

*Queue and scheduler.* The drain of the queue into a direct message is not atomic with
the send (`routes/osSession.js:61`). Put-offs of 60 s starve every cron beside one
of `every 1m` (`schedulerPollerService.js:205`), while
`patterns/scheduler-no-pregate-trust-os-message-queue.md:41` says a task fires within
30-60 s; `DueCronFires` is therefore about two crons with periods longer than the put-off.
Among three, longer periods do not help: with 4 ticks and polls every 2, two crons take
turns and the third is put off at each poll. Migration 057 allows neither the
types nor the states that the scheduler's tools write (`one_shot` for `delayed` and
`chain`, no `cancelled`), and lacks their columns `prompt`, `run_at` and
`max_runs`; a poller of an MCP process puts the other due crons off by a whole
period (`mcp-servers/scheduler/index.js:263`), so that two crons of one period
can fall behind each other for good while it polls; its tools read and write in two
statements (`:108`, `:142`); the poller of the API takes the first due task only (`schedulerPollerService.js:111`).

*Action queue.* `performAction` uses the row as it was claimed, so that a merge that
arrives meanwhile is in the row and not in the action. `recordDecision` inserts a
suppressed decision without an action, which migration 022 forbids (`action_id NOT
NULL`): the error is swallowed and suppression never learns. `dismiss` broadcasts a
dismissal also when no row matched. A failed action whose row goes back to
*pending* may stand beside a newer row of its sender (`NoTwins` excepts it).

*Factory runner.* A resume kills the old process without marking it; its close
handler, up to five seconds later, deletes the entry of the *new* process, which then
runs unwatched and cannot be stopped, although "this process owns all Claude Code CLI child
processes" (`factoryRunner.js:16`; `UndisturbedIsTracked` excepts the overlap). The id of
the client is written without await (`:773`), so that a row may be *paused* before it has the
id (`PausedIsResumable` counts an UPDATE under way). A
shutdown writes "session paused for resume" (`:1475`) also for a session without
the client's id. `proc.killed` is true as soon as `kill` was called, so that the
SIGKILL after five seconds is never sent. A stop during the assembly of the context finds no entry and is lost:
the process starts afterwards. A resumed process that ends before its handlers
are attached is never heard (`NoZombieRow` excepts it); if it cannot be spawned at
all, its `error` event has no handler and the runner shuts down.

*Factory pipeline.* `cleanWorkingDir` runs `git stash clear`, which drops the stashes
that `runPostSessionPipeline` calls recoverable (`factoryOversightService.js:64`, `:82`),
and new files are never stashed. The branch without changes marks `deployed` also when
its push failed, while `patterns/factory-phantom-session-no-commit.md` says of this
("Mode 3") that it "should no longer occur". `runDeployFromOSApproval` asks for
`pipeline_stage === 'deployed'` (`:1508`), which is never written, so that a second
approval, or one after a rejection, runs and marks the session deployed.
After a rejected push the flow takes HEAD for its commit (`deploymentService.js:128`), which
another flow may have made in the awaits before: a failed health check then reverts that one,
which counts as served, and the flow's own stays on origin while its row says *reverted*
(`ServedIsOnOrigin` and `RevertedStaysOff` except it). The commit goes to the branch that is checked
out and the push sends `meta.branch`, so that a deployment counts as served whose commit
is nowhere on origin; `patterns/factory-approve-no-push-no-commit-sha.md:69` knows that
`deployed` "just means the approve path completed". `cleanWorkingDir` swallows a failure, a failed commit
leaves its edits, possibly staged, and a session whose only changes are lock files is *complete* with
them in the directory: the next deployment commits them, however dispatches are serialised
(`patterns/serialise-factory-dispatches-on-shared-codebase.md:9`; `SerialisedDeploysOwnWork`
excepts them, and the files of the OS session, which `:11` there names).
The self-healing after a failed pm2 restart of a self-modification (`:242-275`) is never reached, for a
self-modification with a pm2 name has returned at `:237`.
`revertDeployment` swallows its failure: the stage stays `deploying` and `deploySession` answers
that it was reverted (`PipelineEnds` excepts it). A failed push leaves the commit in
the branch, and the next deployment pushes it. The cap on self-modifications calls
its check atomic, but its lock is released before the dispatch
(`factoryTriggerService.js:611`).

## 7. Plan

Done, in this order: the message path (queue, session), forks, scheduler; the `Inbox`
with its refinement; the action queue; the Factory's runner and its pipeline with the
deployment; the theorems of section 5, with the refinement of `Approval`.

Next:

1. **Session continuity**: `sessionHandoff.js` and `sessionAutoWake.js` with shutdown,
   crash and boot; whether a handoff text is consumed once and not stale.
2. **Composition**: `Inbox` with `OsSession` (a *told* message is a `sendMessage`, a restart
   hits both) and with the scheduler's busy question; `FactoryRunner` with
   `FactoryPipeline`, so that an overlap of resumes meets the directory.
3. **Listeners**: the database bridge with reconnects, the registry, `forkComplete` and
   `factorySessionComplete` with their sets of seen ids.
4. **Tokens and energy**: the choice of account feeding the session's retries.
5. **Proofs**: `UndisturbedIsTracked` for a resume of a process that ends within the
   grace of its predecessor's close; a bound for the energy cap of overlapping
   calls (none but that of the hard cap holds so far: each level may let every call
   through that counted before); an abstract specification of the scheduler's slots, of
   which `OneFirePerSlot` and `NobodyOvertakes` are parts; one of a fork's life.

## 8. Not modelled

- In modelled parts: the retry after a hang, the grace exit of
  an abort, `_abortInProgress` (off by default, and only logging), the healing of
  a zombie stream in `getStatus`, breadcrumbs, classification of origins and the
  format of messages; the priority branch of `sendMessage` (no caller passes
  `priority: true`); the stretched poll interval at low energy; the answer's
  status in the pollers (the code ignores it).
- Action queue: the scores, priorities and texts; the history of decisions (an
  arbitrary refusal). Groups are serial within one call only, in the code as in
  `SerialInCall`.
- Factory runner: a line of the client's output that is handled after the close
  handler has stopped waiting for it; the assembly of the prompt, the worktree and the choice of
  the account (one await); the session time-out (`CC_TIMEOUT_MINUTES` is 0 by default, which turns it off);
  the runner's report of its own health; caps, deduplication and suppression in
  `factoryTriggerService.js`.
- Factory pipeline: the validation and its score (an arbitrary outcome), learnings,
  follow-ups and notifications; UPDATEs that fail (git commands, inserts and
  restarts of the deployed process do); a session that edits again after its
  first edits; git conflicts (edits touch different places); what others push and the
  content of branches other than main; stashes, which nobody takes back; the
  self-healing revert (`deploymentService.js:242-275`, not reachable, see section 6);
  `revertSession`, which has no caller; background jobs of the oversight.
- Whole parts: those that `PROJECT.json` lists as `not_modelled`. Clients of
  external services (mail, calendar, social media, Xero, Vercel, Canva) and the
  knowledge graph do requests whose behaviour lives elsewhere. The autonomous
  workers are disabled in `ecosystem.config.js`. Telemetry and the web layer
  keep no state that others act on.
