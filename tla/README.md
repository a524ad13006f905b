# AMIDE: TLA+ models, checks and proofs

AMIDE is a coding agent. A *supervisor* daemon owns a socket and starts one
*worker* process per session tree; clients (terminal UI, CLI, editor) talk to the
supervisor; a worker holds the sessions, runs the agent loop against a language
model, and executes tools. This directory models the parts of that system whose
correctness depends on the order of events in several processes or on where a
process dies. Paths below are relative to `src/packages/coding-agent/src` unless
they start with `packages/`.

## 1. Inventory

| Component | State | Operations | Hard because of | What makes it correct | Module |
|---|---|---|---|---|---|
| Supervisor ownership registry (`modes/daemon/daemon-supervisor-ownership.ts`) | directory of owner records, shutdown admission, guard directory | acquire, update phase, assert, release; admit, renew, release of a shutdown | guard can be taken over from a stalled process; deaths at any system call; recycled pids | one owner per socket and descriptor directory; a renewed admission means nobody was elected meanwhile | `SupervisorOwnership` |
| Supervisor command execution (`modes/daemon/daemon-supervisor.ts`, `daemon-client.ts`, `mutation-drain-latch.ts`) | pending requests, command journal, restart phase, eviction fence, drain latch | request, resend, acknowledge; admit, execute, answer; prepare restart; evict | promise continuations, reconnects, crashes, timeouts | a command runs at most once; a restart is prepared alone; an eviction waits for the commands before it (but may overlap another, see section 3); nobody waits for ever | `SupervisorCommands` |
| Command recovery journal (`modes/daemon/command-recovery-journal.ts`) | JSON-lines file, map of entries, record count | load, begin, recordResult, acknowledge, compact | death between or inside writes | the file is a durable map of receipts and results | `CommandJournal` |
| Session lease (`core/session-lease.ts`) | lease directory with `owner.json`, guard directory | acquire (install, read, reclaim), release | as for the registry, without a check of the guard | one writer per session file; dead owners do not block | `SessionLease` |
| Agent loop (`packages/agent/src/agent.ts`, `agent-loop.ts`) | steering and follow-up queues, transcript, context, active run, tool calls | prompt, continue, steer, followUp, remove, clear, abort; the turns of a run | abort and enqueue at every await; parallel tools; throwing listeners | no message lost, doubled or overtaken; requests complete; aborts end runs | `AgentLoop` |
| Event log (`core/event-log.ts`), under the RLM spawn ledger (`modes/daemon/rlm-ledger.ts`) | JSON-lines file shared by processes | append with tail repair, replay | writers that die, overlapping writers | stays readable, keeps what was appended | `EventLog` |
| Session actions (`core/session-action-store.ts`, dispatch in `core/agent-session.ts`) | two lists of actions with lifecycle and ticket, scheduler epoch and pump, commit fence, pauses, messages for the next turn | prompt, admit, select, prepare, commit, roll back, cancel, clear, move, abort, pause, checkpoint, navigate | awaits at every stage; commits race roll-backs, aborts and pauses | each action reaches the transcript once or its ticket says otherwise; checkpoints hold; no dispatch runs while the tree is navigated; the commit fence is passed on | `SessionActions` |
| Worker lifecycle (`daemon-supervisor.ts`, `worker-recovery-journal.ts`) | durable descriptor, registration, recovery, stop and finalizer in flight, recovery journal | close, probe, defer, mark, relaunch, stop, finalize, attach, retry, adopt | crashes of either side; recycled pids; stops that are rescinded | one worker per registration, reachable; recorded work that was interrupted is marked; clean-up only behind a dead worker | `WorkerRecovery` |
| Orphan processes (`core/orphan-process-journal.ts`) | journal of child processes | record, reap | torn records, recycled pids | no child outlives its worker, no stranger is killed | planned |
| Client snapshots (`modes/agent-connection/daemon-agent-connection.ts`) | event cursor, latest snapshot | fetch, assemble, apply events | events during a fetch | a fresh snapshot is one consistent state | planned |
| Session file (`core/session-manager.ts`) | entry tree, leaf, flushed flag | append, branch, rewrite | lazy first flush | the file replays to the tree | planned |
| Scheduled jobs (`core/cron-jobs.ts`) | jobs and dispatches under a lock | claim, record result, pause | death after a claim; timer-driven compromise flag | a due job runs once per claim | planned |
| Kernel manager (`core/kernel/repl-manager.ts`) | start generation, child, pending calls | start, execute, interrupt, tear down | superseded starts | an old start never touches a newer kernel | planned |
| Goals, autonomous mode, agent messages, roster | timers and queues on top of session actions | | | | later |
| Semaphore, file mutation queue | waiters | acquire, abort, release | abort at the moment of the grant | no permit is lost | planned |
| Providers (`packages/ai`), TUI (`packages/tui`), settings, credentials, packages, compaction, export | data conversion, rendering, configuration | | | | not modelled |

How they meet: clients send commands over a socket to the supervisor that holds
the ownership record; the supervisor journals mutating commands, forwards them to
workers and stops idle workers; a worker takes the session lease before it opens
the session file, feeds the agent loop's queues, and, like the supervisor, appends
to the spawn ledger. What links the modules below is therefore small:
`SupervisorCommands` uses the journal as a durable map, which `CommandJournal`
implements; `SessionActions` hands its turns to the agent whose run `AgentLoop`
models; `SupervisorOwnership` and `SessionLease` both extend `Lockfile`;
`CommandJournal`, `EventLog` and `WorkerRecovery` extend `JsonlFile`.

The hazards, each at its line, with the properties that watch it, are listed in
`PROJECT.json`.

## 2. Modules and how they correspond to the code

**`Lockfile`** is the external library proper-lockfile as the code uses it: a lock
is a directory; a contender that finds it stale removes it and makes its own; the
staleness of a living owner's lock (the owner is stalled) is a free choice.
`FindStale` and `RemoveStale` are two steps: the directory removed need not be the
one that was found stale.

**`SupervisorOwnership`**. A process is an element of `Supervisors` or `Tools`; it
lives once. `op` is the guarded operation it is in and `apc` its place there, with
one step per system call that other processes can tell apart. `GuardStolen` is the
code's synchronous inode check; `ino` is whose directory was sampled. `Recycled`
are processes whose dead pid looks alive. Two constants describe the environment:
`StealBeforeSample` (a guard may be removed between its maker's mkdir and its
inode sample) and `InodeReuse`. `Expire` may happen whenever an admission exists.

**`SessionLease`** has the same shape. Its guard is only re-checked through a flag
that a timer sets, and no timer runs in the synchronous code under the guard, so
the model has no check at all. `GuardTheft` says whether the environment takes
guards from living processes. `Torn` is a lease directory without `owner.json`.

**`SupervisorCommands`** models Node's scheduling: `jobs` is the queue of promise
continuations, first in, first out; lines, answers of workers and timers are taken
only when it is empty (`Idle`). A handler is one invocation of `handleLine`, named
by its command and the connection its line came from. `HandleCommand` is the code
up to the first wait; `ResumeFenced`, `Hop` and `AdmitFenced` are the code behind
`await idleEvictionFence`, with the number of continuations the ownership check in
between takes. `PrepareCmds` go through `prepareUpdateRestart` (two drains, then
the fenced preparation, whose code in phase "prepared" may still throw); evictions are
`withEvictionFence`. Three kinds of command are treated apart by `handleLine`: `DrainCmds` pass
a restart that is still draining, `CancelCmds` (`cancel_prompt_admission`) are rejected during a
restart before the journal is asked (`:1747`), and `ShutdownCmds` pass a restart that is
prepared (`:1826`). The client parks its
requests when the connection breaks and writes them again; a broken connection
loses a suffix of what was written; answers to an old connection are lost.

**`CommandJournal`** is the file behind that journal. `Load` folds `Read` over the
lines, exactly as `load` does, and compaction is a step of its own after the append
that asks for it: a crash may come between. A crash in the middle of an append leaves
a prefix of its line (`JsonlFile!CutAppends`), a line without its newline included;
`LaterCrashes` says whether the process may die again after that.
**`DurableReceipts`** is the abstract map; `ImplementsReceipts` is the refinement, where
the map is the one in memory while a supervisor is up and what `load` would make of
the file while none is.

**`EventLog`** takes `appendSync` apart into the look at the last byte, the two
reads, the truncation and the write. `Overlap` says whether two processes may be
in an append together. The byte and record limits are left out.

**`AgentLoop`**. One step is the code between two awaits; `pc` is the await the run
is at. Callers act at every such point. The transcript grows by events, and the
context sent to the model is the loop's own copy, so that `RequestsComplete` can
compare them. Whether a batch of tool calls is sequential is a property of the message
that makes them, as in `executeToolCalls`. A poll takes messages from the queue (`PollSteering`) before the loop
resumes with them (`PollResolved`), and an abort in between is one of the hard
cases (`PollRejected`). Calls that outlive their run after a listener threw are
`orphans`.

**`SessionActions`**. One Node process; a step is the code between two awaits, and
everything the code does synchronously in it is in the step. `act` has every action
with its lifecycle state, the messages attached to it (`prefix`, `next`) and the two
promises of its ticket; `lanes` are `ActionStore`'s lists; `sch` is the scheduler:
the epoch, the request flag, the pumps chained on `_sessionInputPump` with the epoch
each was scheduled under, the suspension by an abort and the two kinds of pause.
`Submit`, `PauseOver`, `FenceGranted`, `AdmitPrompt` and `Handled` are `prompt()`;
`StartPump` to `RunSettled` are `_pumpSessionInputs` with
`_startPreparedTurnActions`, one step per await (idle agent, event queue, validation,
`before_agent_start`, commit fence, run). `MessageStart`, `MessageEnd` and `AgentEnd`
are the events that `_handleAgentEvent` sees at once, `ProcessEvent` is the queue
behind it that writes the session file. A dispatch that is cancelled after
`agent.prompt` keeps its action in the store until its run ends (`captured`). A
message is an action or a note with the number of its clone, since the code restores
clones and compares identities. `busy` is a compaction, a bash command, or the wait
behind a bash command for the agent (`_drainQueuedMessagesAfterBash`): only the first and the last
schedule the pump when they end. `retry` is what follows a failed run: the promise that the pump
waits for, the timer that calls `agent.continue()` and looks at no pause and no fence, and the
run that it starts. `evFailed` says that the last event processed rejected `_agentEventQueue`:
whoever awaits the queue then (pump, checkpoint, navigation) gets that error, until another event
has been processed.

**`WorkerRecovery`**. One client-owned worker. A process is an incarnation numbered by
launch; `Identity` is what `processIdentity` can say of it: a recycled pid is
`replaced` if the start id was known, and `LookupFails` lets any lookup say
`unknown`. `saved` are the sessions whose file holds a reply, the only ones that a mark reaches;
`owed` is accepted work with a record of its acceptance, which may fail to be written
without the client being told. `w` is the `ResidentWorker`, `disk` its descriptor file, and recovery, deferred round,
stop and finalizer are four little programs over them, which is what the code's four
promises are. An admission check takes the registry's lock and may end late
or fail: `CloseChecked`, `Ready` and `CheckFails` are its two outcomes behind a close, at the end of a
recovery, and at any other await of one. `CutWrites` and `SlowCancel` describe the environment:
whether an append may be short, and whether a launch may get on while a stop awaits the
cancellation of scheduled jobs. `Exit` is the worker's answer to a
shutdown request, with the records that closing its sessions writes, if it can write them. The stop inside a
launch that failed (`LaunchFails`) is one step.

The definitions called "faulty variant" in these modules are the bugs against
which the properties are tried: each property is violated when the variant takes
the place of the definition it resembles.

## 3. Runs

| Run | Instance | Shows |
|---|---|---|
| `ownership_shutdown` | 2 rival supervisors (one recycled pid), 1 tool | `MutualExclusion`, `OwnerRecordOnDisk`, `RenewCertifies` |
| `commands_recovery` | 1 command, 1 cancellation, 1 restart, 1 eviction, 2 reconnects, crashes and stops of the supervisor | `TypeOK`, `AtMostOnce`, `RejectedNeverRan`, `RestartIsExclusive` |
| `commands_restart` | 1 restart, 1 drain command, 1 shutdown command, 2 evictions | `RestartIsExclusive`, `LatchCounts`, `WaitersGetOn` |
| `lease_crashes` | 4 processes, one recycled pid | `LeaseExclusive`, `NeverExhausted` |
| `agent_loop` | 2 batches, one of them of two messages, one at a time, 2 runs, 1 tool turn of up to 2 calls in either mode, listeners throw | `TypeOK`, `RequestsComplete`, `NothingLost`, `DeliveredInOrder`, `AbortEndsRun` |
| `journal_restarts` | 3 keys, compaction at 4 records, 2 crashes, the last of which may cut an append | `TypeOK`, `ResultsKept`, `NoSecondStart`, `ImplementsReceipts` |
| `log_restarts` | 2 processes in turn, 4 records, 2 cut appends | `StaysReadable`, `AppendedStay` |
| `session_actions` | 2 prompts (one from an agent), 1 note, mode "all", any 2 of 10 outside operations, retries included | `TypeOK`, `DeliveredOnce`, `RejectedStaysOut`, `Driven`, `TicketsSettled`, `CheckpointHolds`, `DispatchesWait`, `NotesOnce` |
| `session_progress` | 1 prompt, 1 session command, 2 of: abort, restart, navigation, failing run, failing event, retry | `FenceIsPassedOn` |
| `worker_recovery` | 1 session, 2 incarnations, 2 faults, 2 operations, 2 attempts, 1 deferred round, failing checks | `TypeOK`, `CleanupOnlyWhenDead`, `NoStray`, `NoSilentLoss` |
| `evictions_overlap` | 1 command, 2 evictions | violates `EvictionIsExclusive` |
| `worker_cut_stop` | that of `worker_recovery` with 1 fault, 1 operation, start ids always readable | violates `StopFinishes` |

Why the bounds are enough to be interesting: a theft of the guard needs the stalled process, the
thief and a third one whose removal hits the thief's new directory, hence two supervisors
and a tool, which take the same guard; a resend of a resend needs two reconnects; a second eviction is what takes the fence
from under a command that waited for the first; compaction at 4 records happens in the
middle of the life of 3 keys; two cut appends are a repair of a repaired file. A
tool turn of two calls lets a result be missing when the next request is built, in either mode;
two runs let a tool call outlive its run, and a message wait in a queue from one to the next. The queue
mode "all" and a second tool turn are left to the proofs, which hold for both modes and any number of
turns.
Two outside operations are a pause and what breaks it, or a cancellation and the abort of
the run it was cancelled from, or a failed run, its retry and a navigation in the middle of it; a second prompt is what a first one's roll-back can
overtake or double. Two faults are a death during the recovery of a death, or a crash of the
supervisor in the middle of one; a second operation is an attach that rescinds a stop;
a second incarnation is what a stop, a finalizer or
a probe of the first can hit by mistake; a third one would repeat the second's
history with the same descriptor fields.
Bounded resources (`MaxEpoch`, `MaxRuns`, `MaxToolTurns`, `MaxCalls`, `MaxCrashes`,
`MaxCuts`, `MaxOps`, `MaxFaults`, `MaxInc`, `MaxStops`, `MaxLines`) are guards of the model. Most runs switch the deadlock check off because
every process of the instance runs once and may be over; `agent_loop` keeps it on.

### Disagreements between the code and what it says

* `evictions_overlap`: `handleLine` reads `idleEvictionFence` once, awaits it and the ownership
  check, and admits its command without reading it again (`daemon-supervisor.ts:1833`). A second
  eviction that waited for the same promise has taken the fence by then
  (`acquireIdleEvictionFence`), finds the latch empty and decides, and the command executes while that
  eviction stops the worker. The comment at `:1190` says of `withEvictionFence`: "Runs a passivation
  decision under the eviction fence after draining admitted mutations." The harm is
  bounded: both kinds of eviction look at the worker's sessions again before they stop it, and
  the comment at `:1156` counts on a mutation that races a stop to end in a clean error.
* `worker_cut_stop`: `stopWorkerUntracked` tests `worker.client`, awaits the shutdown
  request with rejections swallowed, and then calls `worker.client.close()`
  (`daemon-supervisor.ts:6361`). If the connection closes during the await,
  `handleWorkerClose` has set `worker.client` to undefined by then (so has a recovery's
  probe that was interrupted, `:3895`), and the call throws a `TypeError`. The tombstone is on disk, no
  finalizer is scheduled, and the worker stays registered until someone stops it or attaches
  again; the comment at `:6445` promises a clean-up "instead of leaving a dead worker
  registered forever". With that one step repaired, so that the stop goes on to wait for
  the process, TLC finds `StopFinishes` true on the same instance.

### Further experiments

These are not listed as runs; each is an existing configuration with one change, and
TLC answers each with a short counterexample.

| Change | Violated | What happens |
|---|---|---|
| `StealBeforeSample = TRUE` in `OwnershipShutdown.cfg` | `MutualExclusion` | a guard taken over between mkdir and the inode sample is not noticed: the thief's directory is sampled as one's own |
| `InodeReuse = TRUE` in `OwnershipShutdown.cfg` | `MutualExclusion` | a new guard directory with the old inode number passes the check |
| `GuardTheft = TRUE` in `LeaseCrashes.cfg` | `LeaseExclusive` | a process that stalls under the lease guard for more than 5 s ends up as a second holder |
| `INVARIANT RetryAdviceIsSafe` in `CommandsRecovery.cfg` | `RetryAdviceIsSafe` | a stopping supervisor answers "retry the command" before the journal is asked whether it ran (`daemon-supervisor.ts:6706`) |
| `RejectedNeverRan` for all of `Cmds` in `CommandsRecovery.cfg` | `RejectedNeverRan` | a `cancel_prompt_admission` that ran and is sent again is answered "Daemon is preparing an update restart" before the journal is asked (`:1747`) |
| `PROPERTY EndIsFinal` in `AgentLoop.cfg` | `EndIsFinal` | a listener that throws on `agent_end` makes `handleRunFailure` add a message and a second `agent_end`; one that throws on `tool_execution_end` leaves parallel calls that report later (`packages/agent/README.md:170`: "`agent_end` means no more loop events will be emitted"; `packages/agent/src/agent.ts:251`: "`agent_end` is the final emitted event for a run") |
| `INVARIANT SeenStay` in `LogRestarts.cfg` | `SeenStay` | a last record that lacks only its newline is replayed, then truncated by the next append (`event-log.ts:141`: "never readable data") |
| `Overlap = TRUE` in `LogRestarts.cfg` | `StaysReadable`, `AppendedStay` | a writer that dies between another's look at the tail and its write leaves a broken interior line; a truncation removes a concurrent append (accepted in the comment at `event-log.ts:166`) |
| `LaterCrashes = TRUE` in `JournalRestarts.cfg` | `ImplementsReceipts`, `NoSecondStart` | a receipt appended behind a cut line is skipped by the load after the next crash, and its command is started again (`command-recovery-journal.ts:177`; `:146`: "A crash may leave only the final append truncated.") |
| `Commands = {}`, `Ops = {"pause"}`, `PROPERTY PromptSettles` in `SessionProgress.cfg` | `PromptSettles` | an admission pause taken and released while a turn is prepared: the release finds nothing selectable to schedule, then the pump puts the turn back and returns as blocked (`agent-session.ts:5749`, `:5868`); the turn stays queued until the next submission |
| `Ops = {"restart"}`, `{"busy"}` or `{"event_fails"}` there | `PromptSettles` | the same when an update restart is given up; a bash command ends without a schedule (`:11305`) unless messages wait behind it, so that a prompt put off by it stays; and a pump that awaits a rejected event queue throws, schedules itself and throws again until another event has been processed (`:5777`, `:5909`) |
| `Ops` with one of `"restart"`, `"navigate"`, `"abort"`, `"busy"`, `"pause"`, or `"clear"` with two prompts, `INVARIANT NeverStranded` in `SessionProgress.cfg` | `NeverStranded` | the same through each of the epoch bumps, and through a selected action that a blocked pump leaves (`:5783`); `clearQueue` bumps the epoch without scheduling (`:6367`) |
| `Turns = {t1, t2}` and `Ops` of `"event_fails"` with `"busy"` or `"abort"`, or of `"run_fails"` with `"abort"` and `BatchAll = TRUE`, `INVARIANT Driven` in `SessionProgress.cfg` | `Driven` | a batch of which one turn was delivered fails while the pump is put off: the delivered one is neither rolled back nor failed (`:5851`) |
| `Ops = {"retry", "navigate"}`, `INVARIANT NavigationAlone` in `SessionActions.cfg` | `NavigationAlone` | a navigation takes the fence between a failed run and its retry, waits for an idle agent, and the retry's timer starts a run in the middle of it (`:11186`; the comment at `:11622` gives as reason for the fence that "Branch navigation and turn dispatch mutate the same transcript leaf"). What holds is `DispatchesWait` |
| `MaxOps = 2`, `Ops = {"event_fails", "clear_agent"}` in `SessionActions.cfg` | `NotesOnce` | a note of a cancelled dispatch whose event failed is restored although it was delivered |
| `AgentMsgs = {t1, t2}`, `BatchAll = FALSE`, `Ops = {"clear_agent"}` in `SessionActions.cfg` | `NotesOnce` | the second of two messages that are taken back carries the note; the `agent_end` of the first run releases its capture before it has ended, and the note it then delivers has already been given back |
| `AgentMsgs = {t1, t2}`, `Notes = {}`, `BatchAll = FALSE`, `Ops = {"clear_agent"}`, `MaxOps = 2` in `SessionActions.cfg` | `RejectedStaysOut` | `clearQueuedAgentMessages` takes back two dispatches in a row; the pump does not wait for the event queue while a dispatch is captured (`agent-session.ts:5777`, `:6121`), so the `agent_end` of the first run is processed after the second was taken back, and releases all captures (`:3613`); the second message, whose delivery was rejected, then goes to the session file |
| `SlowCancel = TRUE` in `WorkerRecovery.cfg` | `NoStray`; with `MaxInc = 3` also `NoSilentLoss` | a stop that has seen the old process dead awaits the cancellation of scheduled jobs; the launch under way assigns its new process, and the stop then deletes its registration and descriptor without checking again (`daemon-supervisor.ts:6431`; `:6299` promises to "abort cleanup once the stop no longer applies") |
| `FairSpec`, `PROPERTY RecoverySettles` in `WorkerRecovery.cfg` | `RecoverySettles` | the admission check in the catch of an attempt fails, and the recovery ends with the worker registered, without a connection and with nothing scheduled; also a connection that closes while its recovery is at its last check, since a close that finds a recovery under way leaves it to that (`:3585`, `:3884`) |
| `NoSilentLoss` for all recorded work (`lost` without `\cap saved`) in `WorkerRecovery.cfg` | `NoSilentLoss` | the first prompt of a session is cut short before its first reply: the mark finds no file to append to (`daemon-supervisor.ts:4006`; `core/session-manager.ts:1405`), the catalog answers success, and the journal is cleared (`:4059`) |
| `NoSilentLoss` with unrecorded work counted as owed | `NoSilentLoss` | the append to the recovery journal failed, which is only logged, and the client was told that its prompt is accepted (`daemon-mode.ts:7001`) |
| `CutWrites = TRUE` in `WorkerRecovery.cfg` | `NoSilentLoss` | a record glued to a torn line is skipped, and the busy session is not marked (`worker-recovery-journal.ts:95`) |

A prompt that must be queued visibly takes the notes that wait for the next turn before the
admission pause is checked, and loses them when that check throws (`agent-session.ts:4990`,
`:5629`); the model has this (`AdmitPrompt`), and `NotesOnce` does not forbid it. A stop that begins between the spawn
of a replacement and the assignment of its descriptor loses its tombstone (`Assign`
writes a fresh descriptor): the launch then fails on the stop revision, and a descriptor
without a tombstone may stay on disk.

### Fairness

* `SessionActions!FairSpec`: weak fairness of each client's steps in `prompt()`, of the
  pump, of the agent's run, its retry and the event queue (promise jobs and timers; a run ends or is
  aborted), of a checkpoint that waits (it has a deadline that cancels it), of the navigation that
  holds the fence, and of whoever made the session busy or paused. New submissions, aborts and resumes are
  not assumed.
* `WorkerRecovery!FairSpec`: weak fairness of the recovery's, the stop's and the
  finalizer's next step (each await there is a timer or a request with a timeout), of the
  report of a closed connection, and of adoption at start. Nothing is assumed of workers or
  clients, and a crashed supervisor need not be restarted.
* `SupervisorCommands!FairSpec`: weak fairness of running ready continuations and of
  reading lines (Node's event loop), of each handler's completion and of the end of
  each eviction: worker requests and drains have timeouts of their own
  (`AbortSignal.timeout`), after which `CalledOff`, `Executed` or `EvictionEnds`
  happens. Nothing is assumed of the client or of the network.
* `AgentLoop!FairSpec`: weak fairness of the loop's own steps (listeners return), and
  of the resumption of an awaited tool or callback only once the run is aborted,
  which is what `raceWithAbort` provides. The provider and the tools themselves may
  hang for ever.

## 4. Proofs

All proofs are hierarchical, one lemma per action and one step per conjunct.

* **`SupervisorOwnershipProofs`**: `TypeCorrect`, `ElectionInvariance`,
  `OwnersExclude`, `OwnersAreRecorded`, for every set of processes, conflict relation
  and set of recycled pids, under `NoEarlyTheft` (`~StealBeforeSample /\ ~InodeReuse`);
  the first two experiments above show that both halves are needed. `MutualExclusion` is not inductive: a contender may have scanned all
  records and be about to commit. `ElectionInv` adds that whoever *still holds* the
  guard has every elected rival ahead of its scan (`ScanSeesRivals`); a contender that
  lost the guard may have an outdated scan, but its final check throws, because the
  inode it sampled was its own.
* In the same module, `CertificateInvariance` and `RenewalCertifies`, under
  the same hypothesis and on top of `ElectionInv`. The invariant says that while an
  admission is on disk, unexpired and renewable, nobody was elected since it was
  granted and no contender that holds the guard is past its check of the admission.
* **`SessionLeaseProofs`**: `LeaseInvariance`, `LeaseExcludes`, `HoldersAreRecorded`
  and `RoundsSuffice`, for any number of processes, under `NoTheft` (`~GuardTheft`;
  the third experiment shows the need). The invariant says that who is past the lock holds
  the guard, that what it has seen of the lease is still so, and that a second round
  meets no lease.

* **`WorkerRecoveryProofs`**: `OwnershipInvariance`, `WorkerTypes` and `CleanupIsSafe`
  without hypotheses, for any number of incarnations, faults, operations and attempts;
  `NoWorkerStrays` when a stop's cancellation is not overtaken by a launch
  (`~SlowCancel`); `NothingIsLostSilently` when moreover appends are whole (`~CutWrites`).
  Both hypotheses are needed (see the experiments). What the last one promises is what the code can keep: it
  speaks of work whose acceptance was recorded, in sessions whose file holds a reply; marks
  that fail, checks that fail and records that could not be written are in the model. `OwnershipInv` says which process may
  be alive for each place of the four programs: the descriptor's, or the one a launch has
  spawned and not yet assigned; and that what a probe, a launch and a stop have found out
  about it stays true until they act on it. `JournalTells` adds that the journal tells what is
  unsettled, that a recovery that has read it has read all that is lost and can be marked, and that this is
  marked before the journal is cleared and before the next worker serves.
* **`SupervisorCommandsProofs`**: `CommandsInvariance`, `CommandTypes`, `CommandsRunOnce`,
  `RejectionIsTrue`, `LatchIsRight` and `RestartsAlone`, for any finite set of commands, any
  set of evictions and any number of reconnects and crashes. At-most-once rests on the order
  of copies: the lines of one command are read in the order of the connections they were sent
  on (`CopiesInOrder`), and a command that ran is in the journal or every copy of it is used
  up (`Executions`, `Requests`). That a restart is alone rests on the job queue: the handlers
  that an eviction held back advance together, at most one continuation apart (`LockStep`), so
  the ones that re-check the phase do so before the restart's second drain ends. `RestartsAlone` leaves
  out the shutdown, the one command that the prepared phase lets in; `RejectionIsTrue` leaves out
  cancellations of prompts, which are rejected unseen. That an eviction is alone is not true (run
  `evictions_overlap`).
* **`EventLogProofs`**: `LogInvariance`, `LogStaysReadable`, `LogKeepsRecords`, for any
  processes and records, with deaths at any step and cut appends, while appends do not overlap
  (`~Overlap`; the comment at `event-log.ts:166` accepts that overlapping ones may harm each
  other). `LogInv` says that what a writer has read of the
  tail is still so when it truncates, and that there is no tail when it writes.
* **`CommandJournalProofs`**: `JournalInvariance`, `JournalTyped`, `StartsOnce`,
  `ResultsStay`, and `JournalRefines`: every step of the journal's file is a step of the
  durable map `DurableReceipts` or a stutter. All under `~LaterCrashes`, the case
  the code's comment is about; the experiment shows the need. `FileTellsAll` says that
  the file loads to the map in memory until the last death; `TellsHistory` relates what it
  tells to what was started, answered and acknowledged.
* **`SessionActionsProofs`**: `SessionInvariance`, `SessionTyped`, `TicketsAreSettled`,
  `CheckpointIsKept` and `NavigationsHoldDispatch`, for any prompts, commands, notes and outside
  operations, all twelve kinds included, without hypotheses. `SessionInv` adds to the four
  properties: what the pump's batch may be at each of its awaits (`BatchStates`: a cancellation
  may have come in between, nothing else), that only a cancelled action is captured
  (`NewAreFresh`), that the delivery of what the agent has seen is settled (`DeliveriesHeard`,
  which is why a roll-back, which skips delivered turns, leaves no ticket open), that a
  restart in preparation has its pause and a navigation under way holds the commit fence
  (`PauseInv`). Under a pause the pump only puts work back (`PumpTamed`) and no client
  starts any (`NothingStarts`); without the fence nobody starts a dispatch (`NavUndisturbed`), while a
  retry may start its run, whose only events here are ends.
* In the same module, on top of `SessionInv`, the properties that some outside operations
  break. Each has a hypothesis on `Ops` that keeps the combinations of the experiments
  out and that the run of the property satisfies; prompts, commands, notes, modes and the number
  of operations are arbitrary.
  * `StaysDriven`, without `"run_fails"` and `"event_fails"`. `DrivenInv` says that every turn of
    a dispatch that is under way was delivered, will be, or was taken back (`AllDelivered`), so
    that the roll-back of a deferred batch, which skips what was delivered, leaves nothing.
  * `RefusedStaysOut`, without `"clear_agent"` or with at most one agent's message. A message is
    refused several awaits before its run ends; `RejectedInv` follows it through the agent, the
    event queue and the session file (`BegunIsHeard`, `RefusedIsOut`), and says that a capture
    lasts until the `agent_end` of its own run (`CaptureEnds`): no earlier run's end is queued
    when a dispatch begins, unless another message was taken back (`NoEarlierEnd`).
  * `OnceInvariance`, `DeliversOnce` and `NotesAreOnce`, without `"clear_agent"`, or with at most one
    agent's message and no failing events. `OnceInv` says who holds each note that may
    still be delivered (`Stock`: the notes that wait, the pump, or one unfinished action) and that
    it is one holder only (`StockOnce`); that what the agent has to deliver is new and comes
    from the turns of the dispatch (`MessagesOnce`); that messages of a dispatch that was taken back are in the
    transcript only until its run ends (`CaptureRuns`), so that the clones given back, which
    carry a new number, may be delivered; and that no dispatched prompt outlives its run
    undelivered (`InFlight`), or a roll-back would queue it beside its run.
* **`AgentLoopProofs`**: `LoopInvariance`, `LoopTyped`, `NoMessageLost` and
  `RequestsAreComplete`, for any batches, bounds and both queue modes, with aborts and
  failures at every await, throwing listeners included. `LoopInv` adds to the properties where the loop may hold
  messages that are in no queue any more, and that whatever it holds when it is aborted or fails
  was spoiled (`InHand`: without it a poll that is rejected would lose what it drained); that the
  context is the transcript at every point of a turn, ahead of it by the prompts not yet
  emitted and behind it by the results of the batch under way (`SameContext`); and that a run
  which is not aborted leaves a batch only with all its results (`CallsAnswered`; a request
  is several awaits away from the batch it depends on). That nothing follows `agent_end` is not
  true when a listener throws (see the experiments).
* In the same module, `OrderInvariance` and `DeliversInOrder`, without hypotheses. The property
  speaks of the transcript; a message passes through a queue, a drained list and a pending list
  before it is there. `OrderInv` takes the transcript followed by the pending and the drained messages
  as one sequence (`Line`), which a poll extends at its end and an emission leaves as it is. In that
  line the messages of a batch are together (`Contiguous`), a later batch of a queue is behind an
  earlier one and only when that one has left the queue (`Follows`), and the queues
  are ordered like the calls (`QueueOrder`). A failure cuts the line back to the transcript.

Facts about data (what a filter keeps, what the fold of `Load` returns when a line is
appended, how a queue with its head removed is ordered, what flattening the batches of a queue
yields) are proved where they are needed. The
induction theorems of the library cannot be instantiated here, so these lemmas argue by a least
counterexample (`Least`), with the recursive function of the fold unfolded at that point.

The invariants are not the subject of listed runs: their consequences are, and the faulty
variants break those; TLC agrees with each of them on the instance of its component's run.

Assumptions on constants are `LockfileAssumption`, `OwnershipAssumption`,
`LeaseAssumption`, `WorkerRecoveryAssumption`, `RecordsAssumption`, `CommandsAssumption`,
`LogAssumption`, `JournalAssumption`, `LoopAssumption` and `SessionActionsAssumption`; TLC evaluates them in
the runs. They say that sets of names, or the messages of two batches, are disjoint, that bounds are numbers and that the sets of
commands, keys and notes are finite.

Only model-checked:

* liveness (`WaitersGetOn`, `AbortEndsRun`, `FenceIsPassedOn`), which is beyond the prover.

Outside the hypotheses of a theorem its property is not proved, and where the experiments above refute it
it does not hold.

## 5. Not modelled

Startup fence and socket lease of the supervisor; the parts marked "planned" in the
inventory; the byte and record limits of the event log; read-only commands; message
content and streaming deltas; `Agent.reset`. In `SessionActions`: refinement, the
continuations after a compaction, the coalescing of follow-ups (`agent-session.ts:5642`), goals,
autonomous turns, `restore_actions`, disposal of the session; one compaction or bash command at a time,
a branch summary is part of its navigation, and no abort comes between the sleep of a retry and its timer
of 0 ms. In `WorkerRecovery`: archiving stops, workers
shared by clients or without an owner, passivation, pre-roster workers, orphan reaping, shutdown
admissions in the middle of a launch, stale generations (`SupervisorOwnership` has who owns); a session keeps the
file it has, and an append of a recovery record that fails writes nothing. Providers, TUI, settings, credentials, packages and
export are data conversion, rendering or configuration: most of the repository's
lines, without a protocol a model checker could say anything about.

## 6. Plan

Written: ownership, commands, lease, agent loop, journals, session actions, worker
recovery, with the proofs above. Next, in this order:

1. `StartupFence`, an extension of `SupervisorOwnership`, and the socket lease on
   `Lockfile`; the orphan journal on `JsonlFile`, composed with `WorkerRecovery`.
2. `SpawnLedger`: the fold of ledger records into edges, seeding and its link race, on
   `EventLog`.
3. `CronJobs`, `SessionFile`, `KernelManager`, `SnapshotCatchUp`, `Semaphore`,
   `FileMutationQueue`.
