# Adaptive Pair: a formal model of the session runtime

This directory holds TLA+ modules for the runtime of the Adaptive Pair
harness, the TLC configurations that model-check them, and theorems about them
that the TLA+ proof system (tlapm) checks. Paths below are relative to the
repository.

    tlc -workers 2 -config MCKernelGrowth.cfg MCKernelGrowth
    tlapm PairKernelProofs.tla

## 1. The system

The harness lets a developer and a language model work on one task in an editor
while *authority over effects* stays with the developer. It is built in layers.

| Component | State | Operations | Talks to |
|---|---|---|---|
| **Session kernel** `packages/session-core` | the runtime snapshot: revision, presence, session (mode, learning agreement, entry, work unit, assistance), operations, grants | `decide(snapshot, command)` gives events, `reduce(snapshot, events)` the next snapshot; pure | called by the coordinator, by replay |
| **Runtime coordinator** `packages/runtime/src/coordinator.ts` | the snapshot; the tail promise of the transition queue | `dispatch`, `setPresence`, `observeWorkspace`, `grantUserAction`, `invokeTool`, `reconcile`, `observeResult` | kernel, store, tool executor, the extension's controllers |
| **Tool executor** `toolExecutor.ts`, `toolCommands.ts` | `pendingOperations`: operation id to abort controller | `invoke`, `executeOperation`, `reconcile`, `invalidate` | policy, coordinator (commit, observe), effect ports |
| **Tool catalogue and policy** `packages/harness` | none | which tools a snapshot shows; whether a call is allowed | executor, coordinator |
| **Protocol** `packages/protocol` | none | types, parsers, schemas | everything |
| **Guarded growth turn, response guard** `runtime/guardedGrowthTurn.ts`, `packages/restraint` | a request under way | ask the model, compare the snapshot, validate the answer | participant, coordinator |
| **Pair and durable journals** `journalReplay.ts`, `durable*.ts` | commits, projections | replay, recovery | store |
| **Local journal** `apps/.../storageAdapter.ts` | a hash-chained file, a tail promise | append, replay, clear | presence controller |
| **Presence lifecycle** `presenceController.ts`, `sessionController.ts`, `pairToolContext.ts` | generations, listener, observation window, capture lifetime | enable, quiet, pause, start, join, disable, restore | coordinator, local journal |
| **Growth setup, participant, routes** `growth*.ts` | expected snapshot, chat state | a sequence of confirmations and tool calls | coordinator, UI, model |
| **Verification process** `verification*.ts` | child process, timers, outcome | start, abort, escalate, settle | effect port |
| **Edit episodes, observation window** `packages/evidence`, `packages/presence` | a debounce timer per document, a bounded window | record, cancel, flush | presence controller |
| **Modes, profile, evaluation, test kit, scripts, poc** | none that the runtime reads | value builders, exports, packaging | - |

### How they interact

Calls of one host run concurrently on one thread and interleave at every
`await`. Only the transition queue (`enqueueTransition`) changes the snapshot:
each transition runs alone, asks the kernel for events, appends them to the
store under the revision it expects, replaces the snapshot and lets the
executor abort what lost its authority. A tool call reads a snapshot *before*
its turn and an effect runs *outside* the queue, so what a call decided on may
be out of date when it acts. That gap, and what the code does to close it, is
the subject of `PairCoordinator`.

### What is hard

- **Check and act on different snapshots**: a policy decision, a grant, a
  recovery candidate, a model's answer, a setup confirmation.
- **Authority taken back while effects run**: pause, close, "off", workspace
  change; results that arrive afterwards; identifiers given out again.
- **A sequential kernel with many orders**: presence and session have
  different reducers, agreements can be made in many orders and again.
- **Dialogs**: the developer's answer comes any time later, to a session that
  may have been paused, closed or replaced by one with the same identifiers.
- **Late continuations**: a command whose capture, commit or replay ends after
  the pause or disable that should have ended it.
- **Failure**: a rejected transition in a promise chain; a rejecting effect; a
  crash between two file operations; timers racing one another.

`PROJECT.json` lists each hazard at its line, with the properties that cover it.
Two have none: an effect port that rejects leaves its operation authorised
for good (the code has no answer to this, and recovery covers bounded reads
only), and a result too large to return is reported so only after it was
observed (sizes are abstracted away).

### What makes each component correct

- *Kernel*: presence agrees with the session; the work unit fits the mode, the
  entry and the agreement; the hint ladder; operations belong to authority that
  is still given; a grant pays once; protected paths stay protected; the model
  decides nothing that is the developer's.
- *Coordinator, executor*: only what is still allowed commits; only entitled
  effects run unaborted; an effect runs once at a time; a late result settles
  nothing but its own operation; every call ends.
- *Local journal*: a stop of the host loses at most the append under way, a power
  failure falls back to what the disk held; replay answers what the calls before
  it left; what is read was written, whole and in order.
- *Presence lifecycle*: nothing of a generation is applied after it ended; a
  pause and a disable win over everything that was under way.
- *Growth turn*: nothing is sent that the developer did not agree to share with
  that model in that session, and an answer is published only about the work it
  was asked for, under the authority that holds then.
- *Growth setup*: what is agreed was confirmed, by one request, as it stands.
- *Verification process*: one outcome, and always one; a confirmed termination is true.

## 2. Modules

| Module | What it is |
|---|---|
| `PairKernel` | the kernel: state, one operator per decision and per reducer, the commands of each actor, its properties |
| `OperationLedger` | abstract: what the kernel promises about effects |
| `KernelLedger` | the refinement mapping from kernel to ledger |
| `PairCoordinator` | extends the kernel with calls, pending operations and the queue |
| `GrowthTurn` | extends the kernel with the chat's turns: dialogs, grants, model calls, effects, publishing |
| `GrowthSetup` | extends the kernel with the chat's set-up transaction and checkpoints |
| `PresenceLifecycle` | the presence and session controllers, the edit aggregator and the window, over a reduced runtime |
| `EventLog` | abstract: what the local journal promises |
| `LocalJournal` | the journal's queue and file operations, stops, power failures, damage |
| `VerificationRun` | one verification: checks, question, child process, timers, outcome |
| `PairKernelProofs` | lemmas on the reducers; types, presence, work units, hints |
| `PairKernelAuthority` | operations, grants, protected paths, human choices; the kernel implements the ledger |
| `PairCoordinatorProofs` | the coordinator's invariants and action properties |
| `GrowthTurnProofs` | consent, reveals, answers and checks |
| `GrowthSetupProofs` | the set-up transaction and the checkpoints |
| `PresenceLifecycleProofs` | generations, pauses, disables and gathered edits |
| `LocalJournalProofs` | the journal verifies, replays in call order and implements the event log |
| `VerificationRunProofs` | the safety of a verification |
| `MC*` | instances for TLC |

    EventLog <== LocalJournal        (ImplementsEventLog, checked and proved)
    OperationLedger <== PairKernel   (ImplementsLedger, checked and proved)
    PairKernel <-- PairCoordinator, GrowthTurn, GrowthSetup   (EXTENDS)

A definition whose comment begins with `Fault:` stands beside the one it varies
and is used by nothing: it is a mistake the code could have made (a dropped
guard, an off-by-one, a missing reset). Replacing the definition by its fault
must break the property `PROJECT.json` names for it, which shows that the
property depends on the code.

### PairKernel

`decide` and `reduce` are pure and the coordinator commits the events of one
command together, so **a command is one action**: the decision is its guard
(every `throw` and every empty decision), and the events' reducers are its
primed variables. `SetPresence`, `PauseSession`, `AgreeWorkUnit` and the others
bear the source's names; reducers bear the event's name (`SessionPaused`,
`WorkUnitAgreed`, ...). A refused command is a stuttering step.

The session's lists of operations and grants are functions from identifiers to
a record or `None`. A work unit keeps what transitions read: its mode, owner,
learning value, whether it has an acceptance check, and its status. An entry is
the set of dirty paths and the set of protected ones. Texts, times and
diagnostics are dropped. `checked` stands for a non-empty acceptance-check list;
`hint = 0` for an absent hint level.

The events only a brief confirmation or a recovery would emit are not
modelled: no command produces them. "Reconciling" has no way back to work in
the code: a session that was paused and resumed can only be paused again,
closed or switched off. `docs/design.md` (section 7.2) draws an arrow from
`reconciling` to `active`; `OperationLedger` states what the code does.

### PairCoordinator

Three variables beside the kernel's: `calls` (a call in each slot: its stage,
tool, the revision and grant it was checked with, the operation it was given),
`pending` (`pendingOperations`) and `queue` (the chain of transitions).

A step is what runs between two turns of the queue. The continuation of a
transition is queued as a microtask before the next transition's, so what
follows a commit *without awaiting anything else* happens before the next
turn: authorising an operation, recording it as pending and calling the effect
port are one step (`CommitOperation`), and so are observing a result and the
`finally` block behind it (`ObserveResult`).

| Code | Model |
|---|---|
| `invoke` up to the first await | `InvokeTool` |
| `grantUserAction` before its turn, and in it | `RequestGrant`, `CommitGrant` |
| a local tool's command in its turn | `CommitCommand` |
| `executeOperation` up to the effect | `CommitOperation` (with an abort that came while the store committed) |
| the effect port answers, rejects | `EffectAnswers`, `EffectRejects` |
| `observeResult` and `finally` | `ObserveResult` |
| `reconcile`, `admitReadRecovery` | `AskRecovery`, `AdmitRecovery` |
| stale, aborted, refused or store conflict | `Refuse` (possible at every turn: the store may always fail) |
| the caller's signal | `Cancel` |
| `invalidate`, in every commit | `InvalidatedPending`, `InvalidatedCalls` |
| the developer's commands and the host's observations | `Dispatch` |

`setPresence` of the coordinator enables the workspace and sets the status in
one commit (`EnableAndSet`). Operation identifiers are chosen among those the
kernel does not hold, so after "off" one may be used again: the
identifier source is a port, and the repository's tests reuse identifiers on
purpose ("reused IDs cannot revive an expired operation", `docs/design.md`,
section on the coordinator).

`PairCoordinator` extends the kernel rather than instantiating it: its `Tools`
are a subset of the catalogue, and what a snapshot shows of the catalogue
(`Visible`), the owner a tool asks for and the tools that need a user action
are translated from `packages/harness`.

### GrowthTurn

A turn is a request of the chat: guidance, a hint, a reveal, a transfer, a
check or a recorded attempt. Its steps are what runs between two awaits.

| Code | Model |
|---|---|
| `GrowthParticipant.handle` up to the first await | `AskModel`, `AskAction` |
| the answer to the reveal dialog, to the consent dialog | `RevealAnswered`, `ConsentAnswered` |
| `grantUserAction`, `invokeTool` in their turns | `GrantFor` (`TakeGrant`), `Invoke` |
| `prepareTurn`, `gather`, the compiled instructions | `Prepare` (`Told`, `AuthorizedLevel`) |
| `GrowthModelAdapter`: `request`, `countTokens` and `dispatch`, `consume` | `CallModel`, `Send`, `Answers` |
| `appendToolResults` with a bounded read (one stands for several; `pair_get_state`, which commits nothing, is left out) | `Read` |
| a check or an attempt: the effect's result, what is said of it | `EffectEnds`, `ReportCheck` |
| `guardGrowthResponse`, `finishGuardedGrowthTurn`, the publisher | `Accepts`, `Finalizes`, `Publish` |
| the transfer task was shown and counts as started | `StartTransfer` |
| every `GrowthModelFailure`; the chat's cancel button | `Fail`, `Cancel` |
| the developer, the host, another session meanwhile | `Elsewhere`, `StartOver` |

The coordinator's queue is reduced to a commit at the revision and epoch the
turn was pinned to, or a refusal; `PairCoordinator` has it in full. In an
operational growth session the model may call the bounded reads only, so any
other tool ends the turn. Where the code awaits and then checks only the signal
(`countTokens`, between `captureRuntime` and `sendRequest`) the model's step
checks nothing more. `Cancel` is an action only at dialogs, effects, reports
and transfers; elsewhere it is one of the ways to `Fail`. `StartOver` is "off"
and a whole new set-up in one step: what happens between the two is
`GrowthSetup`'s subject.

`AnswersFitTheMoment` says less of a turn that took a bounded read: `Read` pins
the turn to the revision its result was committed at, past hints and reveals
that other turns committed meanwhile, while the instructions it sent stay the
old ones. The guard on the answer reads the new state.

A set-up proposes hint ceiling 4, and a reveal stands at level 5: `handleReveal`
commits the reveal and then the hint as two actions, and the second is refused
under that ceiling. The instance has ceiling 5 so that a solution can be shown.

### GrowthSetup

| Code | Model |
|---|---|
| `/setup`: the conditions, resuming a proposal that waits | `AskSetup`, `Begins` |
| `collect` (goal, file, check, plan as one objective) | `Collect` |
| `prepareGrowthEntry`: capture and commit | `Prepare` |
| `confirm`, `grant`, `apply` of the three stages | `Confirm`, `TakeGrant`, `Propose`, `Apply` |
| the end of the transaction, stale or failed | `End`, `Fail` |
| what the chat says afterwards | `Report` |
| `/checkpoint`: the question, saving, dropping | `AskCheckpoint`, `SaveCheckpoint`, `DropCheckpoint` |
| the cancel button | `Cancel` |
| commands, proposals and edits meanwhile | `Elsewhere` |

The kernel does not look at objectives, so `goal` and `objective` are kept
beside its state and change with the commands that carry them. A checkpoint
tells an attempt that was recorded from one that was bypassed; the model, like
its kernel, keeps only that there is one, so `CheckpointIsCurrent` does not tell
these apart.

### PresenceLifecycle

| Code | Model |
|---|---|
| enable, quiet, start, join up to the trust question | `Begin` |
| `ensureTrustedWorkspace` refuses; the generation has moved on; let in | `Refuse`, `Supersede`, `Admit` |
| pause, disable, dispose up to the first await | `Pause`, `Disable`, `Dispose` |
| a transition of the coordinator, and the continuation behind it | `CommitNext` (`CommitEnable`, `CommitStart`, `CommitEntry`, `CommitPause`, `CommitOff`, `CommitObservation`) |
| an action ends behind its commit; a start that finds the session paused shows its message; the message is closed | `Complete`, `FindsPaused`, `Acknowledge` |
| the workspace capture of an entry ends | `CaptureEnds` |
| an edit reaches the listener; its debounce timer | `Edit`, `TimerFires` |
| the journal's next operation ends or fails | `TaskDone`, `TaskFails` |
| `reconcileJournal` after a replay | `Reconcile` |
| the chat's `/quiet` | `OthersAct` |

Two initial states: `JustActivated`, with a replay under way, and `LongInUse`.
`/quiet` in the chat (`growthLocalRoutes.ts`, `handleQuiet`) commits a presence
of its own without the controller: no trust question, listener or status bar
go with it, while it answers "Pair Presence remains on". `OthersAct` models it
as it is. `DisableForgets` does not speak of a disable asked for while another
is under way. There the code can leave something behind: when the chat's
`/quiet` turns presence on between the two, the end of the first disable finds
it on and attaches a listener in the generation of the second, which cleared
the window before and does not do so again; an edit that comes then stays in
the window after presence is off.

### LocalJournal

| Code | Model |
|---|---|
| `append`, `replay`/`load`, `clear`: joining the tail promise | `Enqueue` |
| the tail promise lets the next one run | `Turn` |
| `assertSerializable`, `containsAbsolutePath` | `RefusePrivate` |
| `readRecords` and `parse` | `ReadRecords`, `RefuseBroken` |
| `writeFile`, `fsync`, `rename` | `WriteTemp`, `SyncTemp`, `Rename` |
| `clear`: the temporary file, then the journal | `RemoveTemp`, `RemoveJournal` |
| the promise settles; a file operation rejects | `Resolve`, `FileOperationFails` |
| the environment (external) | `HostStops`, `Persist`, `PowerFails`, `Damage` |

A file holds what was written last and whether it is synced. A power failure
leaves what the disk held, a torn file where a write was not synced. The hash of
a record is the history it is computed from, so collisions do not occur.
Damage strikes a file that verifies: a broken one is only ever cleared.
`EventLog` is the promise: `LogOf` maps the journal to its events, or to
`Unreadable` when it does not verify.

### VerificationRun

| Code | Model |
|---|---|
| the effect port, the adapter's checks | `Request` (`Preflight`) |
| declined; accepted; accepted after the abort | `Decline`, `Accepted`, `AcceptTooLate` |
| no npm to invoke; `spawn`; a spawn that fails | `FailInvocation`, `Spawn`, `FailSpawn` |
| `forwardAbort`, the 120 s deadline, both to `onAbort` | `CallerInterrupts`, `DeadlineFires`, `OnAbort` |
| `data`, `close` | `Data`, `OnClose`, `OnCloseAborting` |
| the grace timer, the confirmation timer | `Escalate`, `ConfirmationFires` |
| `settle`, `interpretVerificationOutcome` | `Settle`, `Interpreted` |
| the processes and the caller (external) | `Fork`, `Exit`, `CallerAborts` |

Node emits the `error` of a spawn that failed on the next tick, before any timer
or abort, so `FailSpawn` settles the run in the step that spawns. A started child
is signalled by its process id and not through the child object, so a signal
that cannot be sent emits none.

## 3. What is checked

| Run | Instance | Properties |
|---|---|---|
| `kernel_growth` | a growth unit and four proposals that are wrong in one way each, ceilings 1 and 5, hints 1, 2 and 5, a grant; `MaxRevision` 11 | `TypeOK`, `WorkUnitFitsSession`, `HintLadder`, `AiDecidesNothingAlone` |
| `kernel_authority` | a delivery unit, two operations, two grants; `MaxRevision` 11 | `OpenOperationsAreCurrent`, `GrantPaysForOneOperation`, `AuthorityIsNotRevived`, `ImplementsLedger` |
| `kernel_entry` | two workspaces, two session identifiers, two paths; `MaxRevision` 9 | `PresenceTracksSession`, `ProtectedPathsStay` |
| `coordinator_effects` | two calls, a read and an edit, one operation identifier; `MaxRevision` 15 | `EffectsAreEntitled`, `PendingIsCurrent`, `OneEffectPerOperation`, `ResultsSettleTheirOwn`, `CommandsStayAllowed` |
| `coordinator_growth` | two calls of ten growth tools, one grant; `MaxRevision` 8 | `CommandsStayAllowed` |
| `coordinator_liveness` | two calls, a read and a command, a grant, recoveries; `MaxRevision` 7 | `EveryCallEnds` |
| `growth_turn` | two turns, one model, two model calls a turn, two steps of others, a session with the identifiers of the one before | `ContextIsConsented`, `RevealsAreConfirmed`, `AnswersFitTheMoment`, `CheckIsTheSessions` |
| `growth_setup` | two requests, two objectives, two proposals of a model's, two steps of others | `AgreedWasConfirmed`, `SetupReplacesNothing`, `CompletedIsTrue`, `CheckpointIsCurrent` |
| `presence_lifecycle` | two commands, two edits, one failure, one step of the chat | `ListenerIsCurrent`, `DisableForgets`, `PauseStops`, `EditsAreGathered`, `ActionsEnd` |
| `local_journal` | four calls, one stop, one power failure, one damage | `LocalJournalTypeOK`, `JournalVerifies`, `ReplayInCallOrder`, `ImplementsEventLog`, `EveryRequestEnds` |
| `verification_run` | both kinds of host, a child and a descendant, three pieces of output in a buffer of two | `CancelledHasStopped`, `OutputIsAccounted`, `SettledForGood`, `NothingStartsAfterAbort`, `RunningEnds` |
| `verification_timeout` | the same | `TimeoutIsTheDeadline`, **violated** |

All hold but the last. In words:

- The model may send every kernel command that the protocol types allow and
  still changes none of the developer's choices (mode, learning agreement, help
  on record, the end of the session) without spending a grant, nor does it
  agree, replace or alter an agreed unit. The kernel does let it pause and
  resume: neither decision looks at the actor (`decisions/session.ts:25` and
  `:70`), and a resume takes an agreed unit to `needs-reconcile`
  (`reducers/session.ts:77`), so the model could suspend an agreement. It can
  only lose authority by that, and no tool of the catalogue offers it.
  `AiDecidesNothingAlone` names this one exception (`SuspendsUnit`).
- No order of agreements leaves a work unit in a session it does not fit.
- A pause cancels, in one step, every operation that is open; afterwards none
  is opened again in that session. A closed session may still hear the result
  of an operation that was open when it closed.
- Between the check of a tool call, or of a request for a grant, and its commit,
  nothing that would have changed the verdict commits.
- A call that ends never removes the cancellation of a newer one, and a late
  result never settles a newer operation, even with the same identifier.
- No two effects run for one operation, recoveries included.
- A call ends whatever happens to the others.
- Consent to share and confirmed reveals are of one life of one session: a
  dialog answered after the session was replaced gives nothing to the next one,
  identifiers or not. `/session` never reports the check of another session.
- No answer is shown about work that changed since it was asked for, nor a
  solution without a reveal on record.
- Work agreed by a set-up had its three confirmations given to one request, for
  the objective that is agreed, whoever proposes what meanwhile.
- No continuation, timer, replay or append that was under way brings observation
  back after a pause, or presence, session, window or journal after a disable.
- An append is whole or leaves the journal as it was; replays follow
  the order of the calls; a failure blocks nothing behind it.
- A verification has one outcome and always one; "cancelled" is said only when
  no process is left.

**The finding.** `verificationOutput.ts:101` promises that a caller's
cancellation is never labelled a timeout. The deadline is disarmed only when the
run has settled, and an aborted run may take the grace period (5 s) and the
confirmation behind it: when the deadline falls into that time,
`deadlineFired` becomes true after the cancellation and line 105 reports
`timedOut`. `verification_timeout` shows it on a started child that outlives
SIGTERM: the caller's abort, the deadline within the grace period, SIGKILL when
that ends, and the confirmation timer, which settles the run.

**Bounds.** In the kernel's and the coordinator's runs `MaxRevision` is the only
counter bound: a command that would pass it is not taken. The shortest session
that agrees a unit and authorises an operation takes six to eight revisions, a pause and a resume two more, "off"
and the same again for identifier reuse fourteen; each bound is above the
length its properties need, and each fault named in `PROJECT.json` is found
within it. Sets hold two of whatever must be told apart: two operations and two
grants for "at most one", two calls for every race, two workspaces for a
reset, two paths for "dirty then, clean now". Three calls would only queue a
third behind the two that race.

In the growth runs `MaxRevision` (40) is never reached; turns end, and
`MaxElsewhere` bounds what happens outside them. Two is enough for a session
that ends and another that begins within one dialog. Two turns suffice for one
that waits and one that acts. `growth_turn` uses one model because the
registry is keyed by it and nothing else compares models.

`presence_lifecycle` has two commands besides the chat's step: one that waits
and one that wins. The pause behind a failure takes one of the two places, so
a failure meets one command of the developer's; `PauseStops` and
`DisableForgets` are proved for any number. Two edits are what a replaced timer
needs, one before and one after. `local_journal` needs two
appends, a clear and a replay for an order to matter; one stop between any two
file operations and one power failure reach every torn state, since a second
starts from one that verifies or from the damage that is bounded separately.
`verification_run`: a child and one descendant are what "the child is gone, the
tree is not" needs; one piece more than fits overflows the buffer.

Two coordinator runs also carry a state constraint. `StraightBriefing`
(`coordinator_effects`) leads a briefing straight to its agreement and allows
one observation; presence may be paused, quiet, off and on again at any time.
The orders it leaves out are those of `kernel_growth`, `kernel_entry` and
`coordinator_growth`. `EarlySessions` (`coordinator_growth`) lets sessions begin
among the first four revisions: the first may be paused, closed, turned off
and replaced at any time, one that replaced it is not paused, and there is no
observation and no quiet presence, which `coordinator_effects` has.
`CommandsStayAllowed` is checked by both. Neither constraint is used with
liveness.

**Symmetry** is used in the kernel's and the coordinator's runs, for
identifiers that no constant expression names and without liveness properties:
`ImplementsLedger` is a safety formula (its `Spec` has no fairness).

**Deadlock.** Every cfg says `CHECK_DEADLOCK FALSE`: each of these systems only
reacts, so a session or a run may end and nothing more be asked of it, and the
models stop at their bounds. That nothing waits for ever is `EveryCallEnds`,
`EveryRequestEnds`, `ActionsEnd` and `RunningEnds`.

**Fairness.**

- `FairCoordinatorSpec` is weakly fair to the turn at the head of the queue
  (`Serve`), since promise jobs run until none is left and a transition
  swallows the rejection of the one before it; and to the end of each effect
  (`EffectEnds`): reads are local, `stableEffectPort.ts` declines edits and
  commands at once, and a verification that runs is bounded by its timeout and
  its kill escalation. The modal question before a verification has no timeout,
  and not even the caller's signal closes it: that such a call ends also
  depends on the developer answering it.
- `LocalJournal` is weakly fair to the steps of the request whose turn it is:
  every file operation answers or rejects.
- `PresenceLifecycle` is weakly fair to each command's continuations, to the
  queue of transitions and to the journal's operations: the event loop runs
  them. Two of the controller's messages are awaited. The one a start shows on a
  paused session is a step of its own without fairness (`Acknowledge`): it may
  stand for ever, and `ActionsEnd` says that a command ends or waits for it. The
  warning that the workspace is not trusted has nothing behind it that changes
  any state, so `Refuse` ends the command when it is shown.
- `VerificationRun` is weakly fair to its three timers (deadline, grace,
  confirmation) and to nothing else: the
  child may ignore every signal and never exit.
- `GrowthTurn` and `GrowthSetup` claim no liveness: a dialog may stay open.

Nothing is assumed of the developer's commands, the model or its cancellations.

## 4. What is proved

The theorems hold for every value of the constants that satisfies the named
assumptions of their module. `PairKernel`: proposals are work units, levels lie
in 0..5, operation identifiers form a finite set, `None` is none of the values
it stands in for, and the bound is a natural number (any: the bound is never
used but for `revision` in its range). `PairCoordinator` adds that `None` is
no slot and that the tools that need a user action can be granted; `GrowthTurn`
that operations and grants have the same, numeric identifiers, given out in
turn, that the kernel knows the tools its turns use, that a response is of one of
the five kinds and at a level in 0..5, and that there is room for the two
commits its session was set up by; `GrowthSetup` the same, that the three stages of a set-up need a grant,
that the proposed ceiling is one, and that there is a revision to come;
`PresenceLifecycle` that its bounds are numbers and `None` neither a number nor
an episode; `LocalJournal` and `VerificationRun` that their bounds are
numbers (the output buffer's not zero) and `None` no result.

| Theorem | Property | Argument |
|---|---|---|
| `TypeCorrect` | `TypeOK` | inductive; one lemma per group of reducers |
| `PresenceCorrect` | `PresenceTracksSession` | inductive with `TypeOK` |
| `WorkUnitsCorrect` | `WorkUnitFitsSession` | inductive with `TypeOK` |
| `HintsCorrect` | `HintLadder` | inductive on top of `WorkUnitFitsSession` (no help before a growth unit is agreed, so a new agreement cannot undercut a hint on record) |
| `OpenOperationsCorrect` | `OpenOperationsAreCurrent` | on top of the work-unit invariant |
| `GrantsCorrect` | `GrantPaysForOneOperation` | strengthened: grants and operations are never from a later revision than the present one, so a new grant cannot match an older operation |
| `ProtectedPathsCorrect` | `ProtectedPathsStay` | an action property: only two reducers touch the entry, both by `NormalizeEntry` |
| `AuthorityCorrect` | `AuthorityIsNotRevived` | an action property, with `startedAtRevision` telling sessions apart |
| `HumanChoicesCorrect` | `AiDecidesNothingAlone` | an action property over the commands of the model's, pause and resume treated apart |
| `KernelImplementsLedger` | `ImplementsLedger` | the initial state maps to the ledger's; each command maps to a ledger step or a stutter, using the invariants above |
| `CoordinatorTypeCorrect` | `CoordinatorTypeOK` | from `CoordinatorInv`; no run repeats it |
| `PendingCorrect` | `PendingIsCurrent` | the invalidation in each commit |
| `EffectsCorrect`, `EffectsAreSingle` | `EffectsAreEntitled`, `OneEffectPerOperation` | from `CoordinatorInv` |
| `CommandsCorrect`, `ResultsCorrect` | `CommandsStayAllowed`, `ResultsSettleTheirOwn` | action properties from `CoordinatorInv` |
| `ContextConsented` | `ContextIsConsented` | inductive with the registry's grants |
| `RevealsConfirmed` | `RevealsAreConfirmed` | inductive with the grants and reveals of the kernel |
| `AnswersCorrect` | `AnswersFitTheMoment` | an action property from `MomentInv` and the reveal's invariant |
| `CheckCorrect` | `CheckIsTheSessions` | from `MomentInv` |
| `AgreedCorrect` | `AgreedWasConfirmed` | from `SetupInv` |
| `NothingReplaced`, `CheckpointsCorrect` | `SetupReplacesNothing`, `CheckpointIsCurrent` | action properties from `SetupInv` |
| `CompletedCorrect` | `CompletedIsTrue` | from `SetupInv` |
| `ListenerCorrect`, `EditsCorrect` | `ListenerIsCurrent`, `EditsAreGathered` | conjuncts of `LifecycleInvariant` |
| `PauseCorrect`, `DisableCorrect` | `PauseStops`, `DisableForgets` | from `LifecycleInvariant`, which says the same of every moment in between |
| `JournalTypeCorrect`, `JournalCorrect` | `LocalJournalTypeOK`, `JournalVerifies` | conjuncts of `JournalInv` |
| `ReplayCorrect` | `ReplayInCallOrder` | from `JournalInv` |
| `JournalImplementsLog` | `ImplementsEventLog` | the initial state maps to the empty log; each step maps to a step of the log or a stutter, using `JournalInv` |
| `CancelledRunsHaveStopped` | `CancelledHasStopped` | from `RunIsOrderly` |
| `SettledStaysSettled`, `NothingStartsLate` | `SettledForGood`, `NothingStartsAfterAbort` | action properties |
| `OutputCorrect` | `OutputIsAccounted` | inductive with `VerificationTypeOK` |

Each step proof has one case per action; reducers are treated once, in
lemmas, and cited where a command emits their event.

**The coordinator.** `EffectsAreEntitled` is not inductive: it says nothing of a
call that waits for its turn, nor of which of two operations with one
identifier a call belongs to. `CoordinatorInv` adds that open operations are
current (the kernel's theorem) and differ in the revision they were authorised
at (`OperationsDiffer`); that a waiting call stands on what it was checked
against until something commits (`CallFits`); that a call with an operation
remembers it as it was authorised, that its authorisation revision tells it
from others of the same identifier, and that it is tracked while unaborted
(`EffectFits`, `TrackedFits`); and that no two effects have one operation
(`EffectsDiffer`). Most commands of the kernel are shown `Calm`: they may end
work under way but put no other work in its place, so the invalidation behind
the commit keeps the invariant. Authorising, observing and admitting are
treated one by one.

**Consent and reveals.** `RegistryAgreed` says that every model in the consent
registry has its agreement on record for the life of the session the registry
is for, and `Sound` that every turn past its consent dialog has. `Entitled` says
that a turn which is to reveal had its dialog confirmed for its own intent, and
that while its grant exists the session is still the one it was asked in.
`GrantsStay` and `RevealsStay` say of every other command that no grant already
given out appears or outlives its session, and that no reveal appears.

**Answers and checks.** The property of an answer speaks of the step that shows
it, so the invariant says what a turn may rely on until then. `Steady` is what
every command does, the turn's or anybody's: it moves the revision on, gives an
operation only an identifier that was never used, and either goes on with the
life of the session, in which what is settled stays as it is (`GoesOn`), or
begins one after everything there was (`Begins`). So a turn that is still at
the revision it was compiled at told its model what holds (`ToldFits`); a check
still at the revision its result was committed at finds that result
(`CheckFits`); and the last check stays true of its session's life
(`LastCheckFits`), because the operation it names is settled and no other
operation gets its identifier (`SoFar`). A turn that took a read is counted by
its model calls (`HasCalled`): a check asks no model, which `Sound` says of
its route.

**A set-up.** Every change of the session moves the snapshot's revision on, so a
request that finds the snapshot it saw (`seen`) finds the whole session as
it was. `RequestSound` says of each request that what it saw is not of the
future (`LooksBack`), which step is at which stage (`StepFits`), that the stages
it has behind it were confirmed, for its objective and the session it saw
(`Confirmed`), and what goal, objective, proposal and record are as long as the
runtime is where it saw it (`AsSeen`). `WorkHolds` adds to `AgreedWasConfirmed`
that a briefing has no agreed unit and that a unit has an objective.

**Presence.** Nothing that waits for its continuation may be trusted, so the
invariant says of each command, transition and timer what generation it
belongs to: generations only grow (`NotAhead`), a command's owner is its own
(`OwnersFit`, `OwnersDiffer`) and a capture context fits the generation it was
taken in (`ContextFits`). `PauseHolds` and `DisableHolds` extend `PauseStops` and
`DisableForgets`, which speak of a moment when nothing is under way, to every
moment after the command: what is still queued can no longer attach a
listener, keep an edit or turn presence on. `TimersFit` relates each debounce
timer to the episode it reports.

**The journal.** What a rename installs was written, and synced, by an earlier
step, from records that were read before that. `JournalInv` says, whatever
was damaged: calls leave their queue one at a time (`InOrder`); journal and
disk are synced and, if they verify, hold records of appends that were made,
in call order (`Readable`, `Ordered`); the records a call is about to
write are the journal's or extend it by its own, and the temporary file
holds them whole while it is synced and renamed (`Prepared`). As long as no
damage and no power failure occurred, what was appended and not cleared is in
the journal and nothing else (`Left`), and a replay that answered holds what
its property says (`Answered`). Two facts carry the refinement: a damaged
file that still verifies is a prefix of what it was, because a record's hash
is computed from the events before it and its sequence number is its place; and
a power failure falls back to a file that is whole or to none.

**A verification.** `RunIsOrderly` relates stage, child, timers and result: no
process before the run, a result exactly when it ended, an aborting watch exactly
when somebody interrupted it, no timer armed at the end. With it each way to
settle as cancelled has seen the tree empty, and nothing adds a process after.

**Only model-checked.** Liveness under fairness and `ENABLED` are out of the
prover's reach: `EveryCallEnds`, `EveryRequestEnds`, `ActionsEnd`,
`RunningEnds`. Every invariant and every action property of the runs is proved.

## 5. What is not modelled, and the plan

Not modelled on purpose:

- parsers and schemas (pure validation), prompt assembly, formatting, packaging,
  scripts, examples, the test kit;
- path and file access (`scopeAccess.ts`, `scopeEffect.ts`,
  `workspaceContextAccess.ts`): I/O against one snapshot of the disk. An effect
  port is modelled by what the coordinator sees of it, and the verification
  port in full;
- replay of the pair journal and the durable projection, store and recovery:
  the extension runs on the in-memory store, so nothing calls them between
  two steps of the running system;
- profile, pair modes, evaluation: value builders the runtime does not read.

Of modelled parts: the modal question before a disable, the texts of status bar,
chat and prompts, the read-only routes of the chat, and the vscode-test
verification plan (this host has no testing API; it answers "declined").

Seen while reading, and stated by no property:

- `session.ts:58`: a briefing that was paused stays a briefing, and an entry
  captured then makes presence engaged again;
- `verificationAdapter.ts:129`: dirty buffers are looked for before the modal
  question, and not again after it.

What is left: the durable store's recovery against the kernel, once the
extension uses it.
