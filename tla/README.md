# TLA+ models of nevo

This directory models the parts of the repository whose behaviour depends on
interleavings, crashes, retries and time-outs. Each module is translated from
the source; `PROJECT.json` maps every definition to the lines it stands for,
lists the runs of TLC and the theorems that TLAPS checks, and names the hazards
that the properties are about. Paths below are relative to the repository.

To parse, check and prove:

    tlasany MCSessions.tla
    tlc -workers 2 -config Sessions.cfg MCSessions.tla
    tlapm SessionsProofs.tla

## 1. Inventory

The repository holds two systems.

**A. The specification workflow tooling** (`tools/`, JavaScript): a command
line and a dashboard that drive tasks of a specification through publication,
agent executions, human steps and finish. Both work in one git worktree, at
the same time, in several processes.

| Component | State | Operations | What is hard | Module |
|---|---|---|---|---|
| Lock files: `workspace-writer.mjs` 62-121, `git-finalize-lock.mjs` | one file per lock: absent, created, written | create, judge, reclaim, release, time out | processes die at any point; a judge acts on what it has read earlier | `FileLock` |
| Workspace-writer claim: `workspace-writer.mjs` | one JSON document: owner, pid, kind, request, status | acquire, conditional update, release, flag | the owner dies; reconciliation runs outside the lock | `RequestFlow`, `Admission` |
| Workspace requests: `workspace-request.mjs` | a document per request, with a status | create, compare-and-set | several actors move the same request | `RequestFlow` |
| Request-backed operations: `publish/operation.mjs`, `human-step/operations.mjs`, `dashboard/server/specs/routes.mjs` | a durable record per operation, the task's status, the worktree | record, request, acquire, promote, lease, mutate, settle, release | a crash between any two; retries that reuse the record; time-outs with different handling | `RequestFlow` |
| Reconciliation of claims: `workspace-claim-reconciliation.mjs`, `orchestration/reconciliation.mjs` | a snapshot | check the record, move the request, release or flag the claim | the snapshot is stale when used; no look at the pid at boot | `RequestFlow`, `Admission` |
| Agent admission: `orchestration/admission.mjs` | active executions and a mutex in memory, the claim's `turnStartState` | admit, start, settle, resume | three conditional updates around the start of a turn; the subscription to its end | `Admission` |
| Batch settlement, execution plan, durable queue, reservations: `orchestration/*.mjs`, `workflow/queue/` | settlement records, queue, barriers | settle a batch's members, continue | several tasks, one claim; stages that resume after a crash | `Admission` |
| Start, finish, gates, batch start and finish: `workflow/` | operation record with steps | resumable steps over git | resumption after a crash at any step | - |
| Turns: `ai/sessions/turns/` | the record of a turn, the registrations of running turns | start, answer, cancel, time out, recover | every pending promise goes on with the turn as it finds it | `Turn`, `Turns` |
| Sessions: `ai/sessions/service.mjs`, `binding-service.mjs` | documents with sessions and their bindings, lock files | create, attach, start, change, delete, bind | requests are chains of steps; two kinds of process write | `Sessions` |
| Transcripts: `ai/sessions/transcript-cache.mjs` | memory, file, dirty marks, queue of writes | record, flush, read, delete | flushes, reads and deletion overlap | `Transcript` |
| Event stream and page: `turns/turn-event-stream.mjs`, `ui/features/agent-sessions/runtime/` | buffered events; the page's cursor, snapshot and pending prompt | replay, follow, reload, send | connections break, snapshots arrive late, requests are lost | `Conversation` |
| Codex provider and client: `providers/codex/` | operations by thread, the client's queue of lines | start, cancel, recover, ask, answer | one server for all sessions; one line may stop the queue for all | `Codex` |
| Other providers, interactions' bridge, user interface, library, documents | - | conversion, presentation | parsing and presentation | - |

They interact through files (claim, requests, records, specification and
session documents) and, inside the dashboard, through memory: the parts of the
dashboard share one thread and interleave at every `await`. A request of the
page becomes a call of the session service (`Sessions`), which asks the
admission when there is a task (`Admission`), which starts a turn (`Turns`),
which calls a provider (`Codex`); the turn's changes go to the transcript
(`Transcript`) and, as events, to the page (`Conversation`); its end comes back
to the admission through a subscription.

**B. The NEvo framework** (`src/NEvo.*`, C#): messaging, event sourcing and
orchestration for services.

| Component | State | Operations | What is hard | Module |
|---|---|---|---|---|
| Orchestration: `NEvo.Orchestrating` | state of a run: status, last step, last compensated step; its stored copy | run, execute, compensate, save | crash and resumption; a save that fails; repeated compensation | `Saga` |
| Inbox, transaction middleware: `NEvo.Messaging`, `NEvo.Messaging.EntityFramework` | rows for messages and handlers; an ambient transaction | look, handle, register, commit | concurrent and repeated deliveries; a crash between effect and row | `Inbox` |
| Dispatch and processing: `NEvo.Messaging`, `.Cqrs` | - | middlewares, strategies, handlers | the order of the middlewares | in `Inbox` |
| Outbox: `NEvo.Messaging.EntityFramework` | rows to publish | save, read | the reader is missing; a `TODO: locking` | - |
| Event sourcing: `NEvo.Ddd.EventSourcing` | streams, aggregates | decide, evolve, append | expected version at append | - |
| Authorization, web, core, Entity Framework helpers | - | checks, conversion, registration | stateless | - |

What makes each correct is in section 3, module by module, and every known
hazard, with its line, is in `PROJECT.json`.

## 2. Plan

| | Module | Checked | Proved |
|---|---|---|---|
| 1 | `FileLock` | yes | types, exclusion |
| 2 | `WorkspaceSlot` (abstract), `RequestFlow` | yes | types, all safety properties, the refinement |
| 3 | `Saga` | yes | types, all properties |
| 4 | `Inbox` | yes | types, all safety properties |
| 5 | `Turn`, `Turns` | yes | types, all properties, and that what is settled stands |
| 6 | `Sessions` | yes | types, all properties |
| 7 | `Admission` | yes | types, all safety properties |
| 8 | `Transcript`, `Conversation` | yes | types, all safety properties |
| 9 | `Codex` | yes | types, all properties |
| 10 | start and finish: resumable steps over the record and git | not written | |
| 11 | event sourcing: decide, append with expected version, retry | not written | |
| 12 | claude and antigravity providers: one child process per turn | not written | |

`WorkspaceSlot` is the abstract specification of 2. `Admission` uses the same
slot with what `RequestFlow` leaves out, an agent's enrichments of its claim;
`Codex` and `Turns` meet at the calls of a provider, `Transcript` and
`Conversation` at the transcript. Nothing safe that a run checks is left unproved;
worth doing next are 10 to 12, and a refinement that puts `Turns` between
`Admission`, which starts turns, and `Codex`, which runs them.

## 3. The modules

An action runs from one `await` to the next in the code of the dashboard, and
from one file or database call to the next where several processes meet.

### FileLock

`withWorkspaceControlLock` and `acquireGitFinalizeLease` are the same protocol
over a file created with `O_EXCL`; they differ in what the release compares,
the pid or the acquisition's `ownerId` (`Key`). `lockFile` is the call whose
file is at the path and `written` says whose content is complete; `lockPc` follows
a call from its start through create, write, critical section and `finally`,
and on `EEXIST` through reading, judging, reclaiming or waiting. `alive` are the
running processes; a process may hold several calls (the dashboard). The read
and the write that the code does synchronously in one turn of the event loop are
guarded by `InSyncRun`. `misreclaimed` is a history variable: a file was
unlinked by somebody else while the process that made it was running.

- `ExclusionUnlessMisreclaimed`: two calls are inside at once only after that.
- `StaleFileCleared`: a dead holder's file does not stay while somebody tries.

### RequestFlow and WorkspaceSlot

`RequestFlow` is the slot of a worktree (`claim`), the workspace requests
(`request`, `workspaceOwner`), the durable records (`record`), and everyone who
touches them: calls (`Call`), each of which runs a human-submit, a publish or a
batch-publish from its record to its release; the boot pass; an agent; and
whoever reconciles a dead claim (`rc[a]` is the snapshot it works from).

| Model | Code |
|---|---|
| `SubmitNew`, `SubmitAgain` | `human-step/operations.mjs`: create the record or answer from it |
| `PublishReuses`, `PublishLooks`, `PublishSaves`, `PublishRefused` | `publish/operation.mjs` 192-269 |
| `BatchLooks` | `specs/routes.mjs` 310-386, `TaskOf` its task |
| `CreateRequest`, `Promote`, `PromoteConflict`, `SettleRequest`, `UnsettleRequest` | `createWorkspaceRequest`, `transitionWorkspaceRequest` |
| `Acquire*`, `NoteWaiting`, `NoteBlocked`, `HumanDeadline` | `acquireWorkspaceWriter` and the loop around it |
| `BeginWork` ... `WorkUnsettled`, `LeaseTimeout` | the mutation under the git-finalize lease |
| `ReleaseClaim`, `GiveBack`, `FlagClaim` | `releaseWorkspaceWriterIfOwned`, `markWorkspaceWriterRecoveryRequiredIfOwned` |
| `CheckOperation` ... `ReconcileMark` | `reconcileRequestBackedWorkspaceClaim` |
| `Boot*` | `reconcileBootState` |
| `Agent*` | `admission.mjs`, as a rival for the slot |
| `ControlLockTimeout` | a time-out of the control lock out of any section, with the catch of each |
| `CrashCall`, `CrashDashboard`, `Exit` | the end of processes; a call of the command line is a process |

Modelling decisions:

- A section under the control lock is one action. `FileLock` says when
  that is right: unless a running process's file is reclaimed.
- Owners and request ids are UUIDs in the code; here they are named by the call
  that drew them.
- The dashboard's calls share a thread: between its synchronous look at a
  record and its write no other of them moves (`ThreadIsFree`).
- The boot pass runs before the first AI request; the hook belongs to the AI
  routes, so that the specification routes may run before it or beside it. It
  takes pending requests in their sequence, the model in any order.
- A batch-publish is one of a single task. What matters here is that all batches
  of a change share one record path, attempt 1.
- An agent is admitted, holds the slot and settles. `AgentAdmits` lets it in
  more often than the code does.
- The worktree is a set of operations with uncommitted changes. A publish may
  fail before or after its commit.
- Branches no caller reaches (a request that does not exist, a kind with no
  checker) and `options.retry === false`, which only tests pass, are left out.

`WorkspaceSlot` is the promise: a slot with at most one holder, serving at most
one request; a request moves forward only, runs for a holder that serves it and
is executed at most once; the slot is given up when its request is out of
flight. `SlotPromise` says that `RequestFlow` implements it, by
`Slot == INSTANCE WorkspaceSlot WITH ...`, without the boot pass and without
lock time-outs: either breaks it, for reasons in section 6.

- `AtMostOnce`: no request is executed twice.
- `WorkUnderClaim`: a call that changes the worktree holds the slot.
- `HeldUntilSettled`: the uncommitted changes of a human step are behind a held
  or flagged slot.
- `CompletedWasExecuted`: of a request reported completed the record's operation
  went through.
- `PublisherServed`: a publish that waits is served while nobody dies, unless a
  human step of the dashboard was left with the slot (`Stranded`, section 6).
- `DeadInFlightResolved`: a dead call's claim is released or flagged.

### Saga

`OrchestrationRunner`, `OrchestrationManager` and the step executors: `state`
is the run's state in memory, `stored` its last saved copy, `standing` the steps
whose effects stand and `unsaved` those whose effect stood or was undone without
a saved record. A step is known by its position; `Enlisted` are the steps whose
effects take part in the transaction of `PersistentStepExecutor`, the others
stay whatever becomes of it. `RepositoryMayFail` lets a save return an error:
the transaction is completed all the same, as the code's comment wants. An
exception that leaves `RunAsync` is the same as a crash. Between two runs the
state is loaded from the repository, or a new one begins if nothing was saved.
`StepExecutor`, without persistence, is the case of no crash and no failing
repository. One run at a time: the repository interface has a lock and the code
base has no implementation of it.

- `OutcomeIsTrue`: what a final status says of the effects.
- `UndoneFromTheTop`: effects are undone in reverse order, across runs.
- `RecordedFailureIsFinal`: once the stored status is a failure, nothing is
  executed.

### Inbox

Deliveries of messages, each in a process of its own, through the transaction
middleware (for the messages in `Transactional`), the inbox for the message, and
for every handler in turn the inbox for the handler. That order is the
registration order of the example services, with `MiddlewareHandler` making the
first registered the outermost; `Transactional` is what `ShouldApply` of a
`MessageProcessingMiddlewareConfig` selects. Handlers run one after another
because the inbox forces a single thread; one that fails does not stop the
others. `processedMessages` and `processedHandlers` are the committed rows;
`written[d]` and `registered[d]` are in a delivery's transaction. The database is
external: a unique key that throws, an insert that waits for another
transaction's, and a transaction that may be thrown out when another delivery of
the message is under way. Effects outside the database (not in `Enlisted`)
happen at once.

- `ExactlyOnce`: with the transaction, the database effects of a message's
  handlers come about together, with the message's row, and once.
- `ProcessedIsHandled`: with or without it, a row stands for effects.
- `SomeDeliveryProcesses`: deliveries that meet do not all throw each other out:
  unless a handler fails or a process dies, the message is processed.

### Turn and Turns

`Turn` is the record of one turn and what `TurnLifecycleCoordinator` does to it;
the coordinator's methods are synchronous, so each is an operator from record to
record, and one that the coordinator ignores returns its argument. `Turns` is
`AgentTurnRuntime` around it: `startTurn` with its queue per session and its
registration (`active`), the provider's promise (`run`), the binding of the
provider's session (`bound`), answers to questions (`answering`), the process or
server's turn behind it (`operation`), and everything that stops a turn:
cancellation, the idle watchdog, recovery, shutdown (`stopping`, `aborted`,
`closed`). Providers are of two kinds, one child process per turn or one server
(`AppServer`). `raced` is history: a recovery removed a later turn's
registration.

- `LiveTurnIsRegistered`: a turn that has not ended holds its session, unless
  that session is in `raced`.
- `StatusTellsTheWork`: what a user is shown is what the turn waits for.
- `IntentPrevails`: an accepted intent to stop is not overtaken by the provider.
- `FreedIsStopped`: the watchdog and a recovery free the session of a provider
  with processes only once the operation has stopped. The exceptions are stated
  with the property.
- `CancelledTurnIsAwaited`: something that will end a cancelled turn is pending.

The record's own promise, that the first end of a turn and the first answer to a
question stand, is `SettledStands` in `TurnsProofs`: it is proved, of every step.
A run that loses its operation ends the turn as failed when the provider's session
was not bound yet, and leaves it unknown, to be recovered, when it was
(`RunLosesOperation`).

### Sessions

`BindingService` keeps a JSON document per specification, and one for the
sessions without one (`doc`, `General`), changed by `#mutateSpec`: lock file
(`lock`, `old` for its age), load into `view`, save, unlock, each an action, for
the dashboard's asynchronous methods and the commands' `Sync` twins alike. A
request of `service.mjs` begins with a look-up outside the lock and becomes a list
of items (`todo`): binds, changes, the provider's session, the admission and the
answer. `startTurn` is `StartTurnFinds` and `StartTurnCreates`, a turn that was
admitted is a process of its own which records the provider's id. `acked`,
`removed`, `folded` and `stolen` are history: ids callers were told of, ids
deleted, ids whose creation found another session, and a lock file taken from a
running holder.

A change of the mode or the model of a session whose specification is undefined
loads all documents, one after another (`unread`) and without the locks of any but
General's (`Reads`, `Load`), and saves everything in General's document. So General
has, besides its own sessions, copies of others' as they were when they were read.
Look-ups find them (`Found`), and so does a bind in General; an unbind takes a session out of its own document and leaves the copies.
`WellFormed` says of the documents the program may start from that each names its
own sessions once, and that only General has others; the instance starts with
copies from an earlier change, or without any.

- `SavesWhatItRead`: what is about to be saved of the document's own sessions was
  computed from what is on disk.
- `SessionIsKept`: a session a caller was told of stays recorded until it is
  deleted or was folded into the session of its provider's id.
- `ProviderIdStands`: a provider id is never replaced in the document of the
  session's specification.

All three speak of runs in which no lock file was taken from a running holder, and
of sessions in their own document: of copies nothing is promised.

### Admission

The agents of one specification: `Request` plans an execution of a task
(`Single`) or of several (`Batch`); `line` is the chain of promises that is the
specification's mutex; `pc[e]` follows an execution through the admission
(claim, session, `prepared`, `invoking`, start, `started`, subscription), its turn
and its settlement by the hook; `settling[b]`, `finish[b]` and `barrier[b]` are
the durable stages by which a finished batch gives everything back and
dispatches its members; `boot` is the pass of the first request over the claim
(`snap` its snapshot). `Fault` lists what may go wrong, each with its own catch;
`upsets` counts faults, crashes and rival publishes or submissions (`Other`).
A time-out of the control lock where something is undone or repaired (`Again`: the
release of a failed start, the rollback of a refused batch, the pass at the first
request) is a consequence and not counted. A task that cannot go on by itself
makes its continuation look at the durable queue, purge it and admit from it
(`Continue`). `swept` and `kept` are history: executions that ran when the pass
took their claim, and those whose claim was to be undone when the lock timed out.

- `AdmittedIsCovered`: as long as an admitted agent's turn runs the claim is its
  own and says `started`.
- `NoOrphanClaim`: a claim that nobody will give back is marked for recovery, but
  for what section 6 lists.
- `DispatchAfterRelease`: a batch dispatches a member when its own claim,
  registration and barrier are gone.
- `ReservationAccounted`: a batch that has the claim bars its tasks, and a batch
  that bars its tasks is at work, was broken off, or has a claim that needs
  recovery.
- `EndedIsSettled`, `FinishedBatchIsSettled`: the hook and the settlement end, unless
  the lock times out in them.

### Transcript

`SessionTranscriptCacheService` for one session; a transcript is known by the
last change it contains. `jobs` is the queue of flushes and the deletion,
`reading[r]` what a concurrent `getTranscript` has read of the file and not yet
put into memory. `clobbered`, `deleted` and `failed` are history.

- `NothingForgotten`: what is in memory is in the file, being written or dirty,
  unless a late read has replaced it.
- `DeletedIsGone`: the file of a deleted session does not come back.
- `ChangeIsSaved`: every change reaches the file, with the exceptions stated
  there.

### Conversation

A page and the server for one session: the server's turns, transcript and
buffered events (`buffer`, `sequence`), the page's `EventSource` (`stream`,
`cursor`, `pipe`), its requests for a snapshot (`get`, `answer`) and to start
turns (`post`), and the stored initial prompt (`dispatch`). Connections break,
answers are lost or come late, the page is loaded anew, the server dies.

A death ends the turn that was active, unless it waits for an answer that may
still be given (`Crash` leaves both possible). Such a turn is restored when
somebody answers or cancels it (`Restore`): under the provider's name, so that it
does not bar the session, the page's requests start turns beside it, and what it
does is recorded in the transcript while its events reach no page. It numbers them
on its own, so that the transcript's number may run ahead of the session's
(`ahead`).

`missed` and `orphaned` are history: the page was told of something out of date
or nothing, and the senders of these requests are gone, those of any page that
was left.

- `ShownIsCurrent`: a page that has received all that was under way shows the
  latest turn as it is, unless it missed something: what a dead server lost, what a
  late snapshot overwrote, what a restored turn has done since the page's snapshot,
  or what a number that ran ahead hides.
- `PromptRunsOnce`: the initial prompt starts one turn.
- `WaitsForSomething`: the page does not wait for a turn that will not come.

### Codex

The codex provider and its client: `operations` by thread, the client's queue of
lines with the question (`gate`) that holds it up, the calls that start, cancel
and recover a turn, and the app-server at the other end of two pipes (`stdin`,
`stdout`), which is external. `cancelling`, `ended` and `early` are what the
runtime above knows. `upset` counts what goes wrong in the server.

- `FreedOnProof`: a thread is given back, and a turn ends for the runtime, only
  on proof that the server's turn is over, with the exceptions stated there.
- `NobodyWaitsInVain`: whoever waits has what it waits for on the way.
- `ClientSurvives`: no order of calls and lines breaks the client for all.

## 4. Runs

| Run | Instance | What it shows |
|---|---|---|
| `file_lock_pid` | three calls, two processes, both may crash; releases compare the pid | `ExclusionUnlessMisreclaimed`, `StaleFileCleared` |
| `request_flow_lock_timeout` | two submissions of one human step in the dashboard, a publish, an agent, the boot pass, one crash, lock time-outs | `WorkUnderClaim`, `HeldUntilSettled`, `CompletedWasExecuted` |
| `request_flow_retry` | two publishes of one task, a batch-publish, an agent, one crash | `AtMostOnce`, and the refinement `SlotPromise` |
| `request_flow_liveness` | a human-submit in the dashboard and a publish on the command line, agents, one crash | `PublisherServed`, `DeadInFlightResolved` |
| `saga_resumed` | three steps, the middle one outside the transaction, two crashes, failing saves | the three safety properties |
| `inbox` | three deliveries of a message in the transaction, or of one outside it, two handlers, failures, one crash | `ExactlyOnce`, `ProcessedIsHandled`, `SomeDeliveryProcesses` |
| `turns` | a turn of a process's provider with three texts, a tool and two questions, or two calls of a server's session | the six invariants |
| `sessions` | two requests, their turns, a command, two documents with and without copies, one death | `SavesWhatItRead`, `SessionIsKept`, `ProviderIdStands` |
| `admission` | two tasks of three steps, two single executions and a batch, one upset of any kind, and time-outs of what undoes it | the four invariants, `EndedIsSettled`, `FinishedBatchIsSettled` |
| `conversation` | two turns, a buffer of two events, one reload, one death of the server, after which a turn may go on | `ShownIsCurrent`, `PromptRunsOnce`, `WaitsForSomething` |
| `transcript` | four changes, two readers, one death | `NothingForgotten`, `DeletedIsGone`, `ChangeIsSaved` |
| `codex` | three turns of two threads and one task, two things that go wrong in the server | `FreedOnProof`, `NobodyWaitsInVain`, `ClientSurvives` |

`TypeOK` is an invariant of the runs `turns` and `conversation`, whose records
and events many actions rebuild; the types of the others are proved, without a
run of their own.
Every property has a mutant in `PROJECT.json`, a plausible bug of the code under
which its run fails.

Bounds. Two or three actors: the shared objects are a slot (two rivals and an
onlooker), a record or a document (two users) or a thread (two calls), and a
third adds someone who comes afterwards. Three deliveries are two that collide
and one that comes after; three steps are the fewest with neighbours on both
sides. One crash is enough for every pair of what dies and what meets its
remains; `Saga` has two, so that a resumed run dies too. In `Admission` one upset
(a fault, a crash, a publish) keeps six executions' worth of interleavings in
reach; the proofs have no such bound. In `Sessions` `MaxSlow` is 0: a lock file
grows old only with its owner dead, yet two that judge the same dead file may
still take it from its next holder.

State constraints, each defined in an MC module: `OneMessage` (messages share no
row), `OneSession` (sessions of the runtime share nothing but the shutdown),
`AgentAlone` (the agent works while no call is under way; `request_flow_retry`
has it beside the calls), `TwoCalls`, `OneStop` and `InUse` (two of the codex
calls are made, one is stopped, nothing after the disposal) and `Promising`
(nothing is promised after a lock was taken from a running holder). Two
symmetries, in runs that check invariants only: the two submissions of the human
step, and the two turns of a codex thread. Deadlock is not checked, in any run:
calls end, and everything may come to rest.

## 5. Fairness

- `FileLock`: a running process goes on, and a call that waits wakes again.
- `RequestFlow`: weak fairness of a call's steps, of a reconciliation and of an
  agent's settlement: they are code that runs. Strong fairness of
  `AcquireReconciles`: each acquisition begins with a look at the claim, so that
  one that retries for ever looks for ever. Weak fairness of `Exit`: a
  command-line process ends after its call. The dashboard does not, so that a claim
  of one of its calls is never found dead while it runs. Nobody need submit, be
  admitted, boot or crash.
- `Inbox`: a delivery that was received goes on; nobody need deliver.
- `Admission`: what the event loop has to run is run: the continuation of an
  admission, of a hook and of a settlement (`Handling`, `HandlingBatch`). After a
  start a first request comes, and with it the pass (`Boot`), which may be given up
  at a time-out of the lock (`BootThrows`). Agents need not end, and nobody need ask
  for an execution. A time-out (`HookThrows`) is never forced.
- `Transcript`: the timer fires and the queue of writes goes on.
- The other modules state safety only, and no fairness.

## 6. What the code does otherwise than its documents say

What follows was met while modelling. The models take the steps the code takes,
and the properties say what is true of it.

- The sections under the control lock are atomic (`workspace-writer.mjs:3`); but
  an unreadable file is unlinked, even one its running owner has just created
  (`workspace-writer.mjs:87`). Hence the condition of `ExclusionUnlessMisreclaimed`.
- The claim of a settled operation is released (`owner-decisions.md:3504`); but a
  process that dies between the settlement of its request and the release leaves
  a claim whose reconciliation gives up, since the compare-and-set finds a
  terminal request (`workspace-claim-reconciliation.mjs:71`).
- One workspace-writing operation at a time (`owner-decisions.md:2464`); but all
  batch-publishes of a change share one record (`specs/routes.mjs:386`), and the
  boot pass may judge a running request by an earlier one's failed record and
  take its claim away. The same with a publish that is retried. Hence the hypotheses of
  `WorkNeedsClaim` and `SlotIsKept`.
- A publish whose settlement as failed times out releases its claim with the
  request still `running`: `SlotPromise` needs a lock that does not time out.
- The boot pass takes waiting requests of running processes off the queue as
  `reconciliation-required` (`orchestration/reconciliation.mjs:456`); the
  decision record (D75, `owner-decisions.md:3363`) only restores their
  eligibility.
- A human-submit throws at its deadline and leaves its request waiting with
  nobody to retry it (`human-step/operations.mjs:482`); the decision record (D67,
  `owner-decisions.md:3010`) has no request dropped by the passage of time.
- A human step of the dashboard whose git-finalize lease times out throws with the
  claim active and its request running (`human-step/operations.mjs:510`, outside the
  `try`). The claim's process lives on, so nobody finds it dead: until the dashboard
  ends no publish is served and no agent admitted. Hence `Stranded` in
  `PublisherServed`.
- From `Failed` only compensation goes on, and state is saved before and after
  each step (`orchestration.md:62,76`); but the failure is in memory only until a
  compensation is saved (`OrchestrationRunner.cs:79`). Hence "once the record says
  so" in `RecordedFailureIsFinal`.
- A repeated compensation begins with the step that was compensated last
  (`OrchestrationRunner.cs:126`), so that step is compensated twice. The test
  `RunAsync_WhenInitStateIsCompensationFailed_ShouldOnlyCompenstateRemainingActions`
  expects this, though its name speaks of the remaining steps only.
- A claim is released "only upon proven execution settlement" (`admission.mjs:4`);
  but a start that reports an error although the turn runs releases it
  (`admission.mjs:457`).
  `AdmittedIsCovered` is about executions that were admitted.
- The claim of a start that failed is released, and an error of that release is
  swallowed (`admission.mjs:466`, `754`; `255` lets it through): a time-out of the
  control lock leaves an active claim that nobody will give back before the next
  start. The same with an enrichment that times out (`333`), with the hook, and with
  the pass itself, whose error is logged (`ai/routes.mjs:191`) and which is not
  repeated. `NoOrphanClaim` names each of these, and that there are no others is what
  it says.
- The reservation of a batch is rolled back "if admission/session creation fails
  after reservation" (`queue/reservation.mjs:319`); the route does so when the batch
  was not admitted, and not when its admission threw (`turns/routes.mjs:289`): such a
  batch bars its tasks for good. A refused batch gives its reservation back even if
  its claim could not be released. Both are in `ReservationAccounted`.
- A settlement of a batch whose lock times out in stage 1 or 3
  (`batch-completion-settlement.mjs:435`, `600`) is broken off and not repeated before
  the next start; hence the condition of `FinishedBatchIsSettled`.
- A task without recorded progress counts as completed when its execution is
  settled (`execution-settlement.mjs:194`).
- The initial prompt is stored so that it is sent once; a page that is loaded
  anew while the request is under way sends it again
  (`pending-dispatch-store.ts:84`), and it may run twice. Hence the exception in
  `PromptRunsOnce`.
- Reading, changing and writing back a session document "can never interleave with
  another process's own read-modify-write cycle" (`binding-service.mjs:648`); but for
  a session without a specification all documents are read, with General's lock only,
  and written to General's (`439`). The sessions' own documents do not suffer, which
  is what the properties of `Sessions` say; but the copies stay, fall out of date and
  are found.
- A turn that waits for a restart-resumable answer stays active through a restart
  (`turn-recovery.mjs:147`). What it does then reaches no page, since it is
  registered under the provider's name and not the session's (`runtime.mjs:677-712`):
  a page that answers it shows the answered question until it is loaded anew. Nor does
  it bar its session to another turn. Hence the exceptions of `ShownIsCurrent`.
- The canonical session is recorded before anything runs in its name (comment in
  `createSession`, `service.mjs`); two first turns with one provider id break it,
  as `TurnHasASession` in `Sessions` says, which no run checks since it fails.
- In the codex provider: a question asked after its turn was cancelled holds up
  the queue for all threads; a recovery waits without a bound
  (`provider.mjs:665`); a failed client is never replaced
  (`app-server-client.mjs:873`); two threads may both pass the check for a task
  (`provider.mjs:472`); an unsupported request gives its operation up while the
  server's turn goes on, whose later lines reach another operation
  (`provider.mjs:769-785`, `1110`). `FreedOnProof` and `NobodyWaitsInVain` name
  these cases.

## 7. Proofs

The theorems hold for every value of the constants that meets the named
assumption of the module (`FileLockAssumption`, `SessionsAssumption`, ...), which
say what kind the constants are. Three assumptions say more: `RecordsApart` in
`RequestFlow` (kinds of operations use different record files, as the file names
do), `WellFormed` in `Sessions` (a document on disk names each of its own sessions
once, and only General has others), and `SessionsAssumption` that a request of the
dashboard and a turn are different processes of the model. TLC evaluates them in
the runs.

Each argument is an inductive invariant, checked with TLC before it was proved,
with one lemma per action or group of actions that leave the same things alone.

| Proofs | Theorems | The invariant, and why it is needed |
|---|---|---|
| `WorkspaceProofs`, of `FileLock` | `LockTypeCorrect`, `ExclusionUnlessRaced` | As long as nothing was misreclaimed, a call inside (or about to write its file) is the one whose file is at the path, and a file judged stale is a dead process's. |
| `WorkspaceProofs`, of `RequestFlow` | `TypeCorrect`, `ExecutedAtMostOnce`, `CompletedIsExecuted`, `ChangesAreHeld`, `WorkNeedsClaim`, `SlotIsKept` | `OnceInv`: a call that works has promoted its request, and a promoted request is never pending again. `TruthInv`: verdicts, records and what a reconciler found say "completed" only of what succeeded. `OwnInv`: a call with a record of its own owns the slot while it works and until its changes are settled; a reconciler that judged it came after its end. `HoldInv`: without the boot pass only claims of ended processes are judged. `SlotInv`: when a claim is given up its request is done. |
| `SagaProofs` | `TypeCorrect`, `OutcomeIsTrueAlways`, `UndoneFromTheTopAlways`, `RecordedFailureIsFinalAlways` | `Reach`: how far the state in memory and the record reach says which effects stand, but for the step in progress and unsaved ones; a crash makes the second the first. |
| `InboxProofs` | `TypeCorrect`, `ExactlyOnceAlways`, `ProcessedIsHandledAlways` | `Tidy`: a message that is not registered has no database effect, and one delivery at most is about to commit. `Backed`: what a delivery has passed is in its transaction or has happened. |
| `AdmissionProofs` | `AdmissionTypes`, `RunningAgentOwnsTheWorkspace`, `OneAdmissionAtATime`, `NoClaimIsOrphaned`, `DispatchesAfterRelease`, `ReservationsAreAccounted` | `Chain`: only the first of the mutex's line is inside. `Ended`: a settlement begins after the turn. `Quiet`: before the first request no batch runs that the pass could take for a dead one. `Fits`: for each execution, which stages its claim, its settlement and the pass's snapshot allow. A step of one execution leaves `Fits` of the others alone ((`Alike`). Who gave up at a time-out is in `kept` or at a place of its own, so that the invariant says what is left behind and that nothing else is. |
| `TurnsProofs`, of `Turns` | `TurnTypes`, `StatusAlwaysTellsTheWork`, `IntentAlwaysPrevails`, `FreedIsAlwaysStopped`, `LiveTurnStaysRegistered`, `CancelledTurnIsAlwaysAwaited`, `WhatIsSettledStands` | `Sound`: what the status, the pending question, the open tools and the intents of a record say of each other; one lemma per method of the coordinator (`Reports`, `Settles`). `Own`: the promises, the operation and the stopping calls of a turn fit its record; a step touches one turn. `Lock`: of the callers that wait for a session only the first goes on, and only while nothing is registered there; without it a second caller could register over a live turn. |
| `TurnsProofs`, of `Transcript` | `TranscriptTypes`, `NothingIsForgotten`, `DeletedStaysGone` | `Live`: what was read while nothing was in memory is what the file holds, and memory that is not dirty is the file or what is being written. `Gone`: a deletion is the last job until the next change. |
| `ConversationProofs` | `ConversationTypes`, `ShownIsAlwaysCurrent`, `PromptAlwaysRunsOnce`, `PageWaitsForSomething` | `EndTells`: the last event of the buffer tells of an active turn as it is, the last but one of a turn that has ended, and the same of what is under way. `PipeCovers`: a connected page has on its way all it has not seen of the last two events, whatever was dropped before, so that a buffer of two is enough. `LatestShown`, `UpdateIsDue`: what the page shows of the latest turn, and a page that waits, are right or behind one of these events. `RestoredApart`: a turn of an earlier process that goes on is the latest only until this process has numbered an event, so that what it does unheard touches nothing the buffer tells of. `OnePrompt`: who asks for the prompt has marked it as dispatched. |
| `SessionsProofs` | `SessionsTypes`, `EverySaveIsCurrent`, `ProviderIdsStand`, `SessionsAreKept` | `LockInv`: who is between load and unlock owns the lock file. `DocInv`: a document names each of its own sessions once, only General has others, and what was read without a lock has no session of the document that is saved, so that the own session a change means is the one it changes, if it changes one; `Revises` and `Standing` say what each of the seven changes keeps. `CopyInv`: a copy is of a session that is recorded or was deleted, so that who finds it finds a known id. `AnswerInv`: a request answers last, and until then its session is known or still to be bound. |
| `CodexProofs` | `CodexTypes`, `FreedOnlyOnProof`, `NobodyEverWaitsInVain`, `ClientAlwaysSurvives` | `Orderly`: as long as the client works and no operation was given up, each turn's place in its call, the pipes, the server and the operations agree (`Turn`), and a thread has one operation (`Alone`). `Calm`: a server that keeps the rules makes nobody give up. |

`WorkNeedsClaim` assumes that there is no boot pass or that every call has a
record of its own, `SlotIsKept` that there is no boot pass and no lock time-out;
section 6 says what happens otherwise. Of the runs' properties these theorems
state all the safety ones.

Two components share a proof module where they are of one part of the system; the
definitions of the smaller one have names of their own for it (`LockInit`,
`TranscriptSpec`).

Two attempts changed a model. `PromptRunsOnce` was not inductive: a second reload
forgot the requests of the first page, and two turns could then run the prompt
unexcused; `orphaned` keeps the requests of every page that was left. And what a
connection replays was a filter of the buffer (`SelectSeq`), of which the provers
know nothing; as the buffer is in order, `Connect` now takes its last events.

Only model-checked:

- liveness (`StaleFileCleared`, `PublisherServed`, `DeadInFlightResolved`,
  `SomeDeliveryProcesses`, `EndedIsSettled`, `FinishedBatchIsSettled`,
  `ChangeIsSaved`): the prover has no rules for `ENABLED`, which fairness needs;
- that the guards of `Connect` never keep a page from connecting: the proofs show
  the buffer in order, which makes the last events exist, and TLC runs it.

## 8. Not modelled

The map covers about 15% of the implementation's lines. The rest is the user
interface's presentation, the parsing of provider streams, documents and
definitions, command-line helpers, and C# registration code: sequential or
without state of its own. What would be worth a module and has none is in the
plan. Left out of the parts that are modelled:

- the content of documents, git itself, the formats of records;
- the health of a transcript and unreadable files; the catalogue of models and
  the migration of old session documents;
- dependencies and remedial tasks in the queue's evaluator, the documents a
  batch member's result is written to;
- the claude and antigravity providers: `Turns` has what it needs of them;
- the outbox: nothing in the repository publishes its rows;
- two runs of one orchestration at once, step names that repeat or disappear;
- effects of handlers outside the database happen again at a redelivery whenever
  their rows were rolled back; the code promises nothing else;
- a human-submit that dies after creating its record is answered `pending` for
  good; its resumption is a later task of the design documents;
- a failed publish that reuses its request is refused by the compare-and-set from
  then on: the price of `AtMostOnce`;
- the rest of section 1, with the reasons in `PROJECT.json`.
