----------------------------- MODULE Admission -----------------------------
(***************************************************************************)
(* How the dashboard runs agents on the tasks of one specification:        *)
(*   - ai/sessions/turns/routes.mjs and deterministic-execution-plan.mjs:   *)
(*     a request for a task, or for a batch of tasks reviewed together;     *)
(*   - ai/orchestration/admission.mjs: the mutex of the specification, the  *)
(*     workspace-writer claim and its three enrichments, the start of the   *)
(*     turn, and the hook that settles the execution when the turn ends;    *)
(*   - batch-completion-settlement.mjs: the durable stages by which a       *)
(*     finished batch gives everything back and its tasks go on;            *)
(*   - reconciliation.mjs: the automatic continuation of a task or of the   *)
(*     durable queue, and the pass over the claim at the first request      *)
(*     after a start.                                                       *)
(* One action runs from one await to the next.  An execution is named after *)
(* the slot it takes: its owner id, its session and its turn.  Abstracted:  *)
(* the provider, model and mode of an execution, its session (Sessions),    *)
(* what its turn does besides the workflow commands (Turns), the audit      *)
(* records, and the priorities and times by which the queue orders tasks.   *)
(***************************************************************************)
EXTENDS Naturals, Sequences, FiniteSets

CONSTANTS
  Task,        \* tasks, numbered by their order in the specification
  Single,      \* executions of one task
  Batch,       \* executions of several tasks
  None,        \* no execution
  Other,       \* a request-backed operation: human-submit, publish
  Last,        \* steps are 1..Last; a task past Last is terminal
  HumanStep,   \* the steps a human executes
  Automatic,      \* the steps entered by an automatic continuation
  Start,       \* where the program may start: positions, and the queue
  Selection,   \* the tasks a request may select
  Fault,       \* what may go wrong: see Faults
  MaxUpset     \* how many faults, crashes and request-backed operations there are

Exec == Single \union Batch

\* session, start: creating the session or the turn fails; late: starting the
\* turn reports a failure although the turn runs, as when the last enrichment
\* throws; subscribe: the subscription to the session fails; enrich, hook: the
\* wait for the control lock times out before the start, or in the hook and in
\* the settlement of a batch; again: it times out when what failed or was
\* refused is undone, or in the pass at the first request.
Faults == {"session", "start", "late", "subscribe", "enrich", "hook", "again"}

ASSUME AdmissionAssumption ==
  /\ Task \subseteq Nat /\ IsFiniteSet(Task)
  /\ Single \intersect Batch = {}
  /\ None \notin Exec /\ Other \notin Exec /\ None # Other
  /\ Last \in Nat /\ HumanStep \subseteq 1..Last /\ Automatic \subseteq 1..Last
  /\ Start \subseteq [step : [Task -> 1..Last], queue : SUBSET Task]
  /\ Selection \subseteq SUBSET Task
  /\ Fault \subseteq Faults
  /\ MaxUpset \in Nat

VARIABLES
  \* on disk
  claim,     \* the workspace-writer claim
  queue,     \* the tasks in the durable queue
  barrier,   \* barrier[b]: status of the group reservation of batch b
  finish,    \* finish[b]: the batch-finish record of b is completed
  settling,  \* settling[b]: the completion-settlement record of b
  step,      \* step[t]: the step task t is at
  work,      \* work[t]: how far it is with that step
  \* in the dashboard's memory
  active,    \* activeExecutions: the execution registered, or None
  line,      \* startLocks: the admissions in the mutex's chain, holder first
  pc, job,   \* where an execution is, and what it was planned for
  turn,      \* turn[e]: none, running or ended
  boot,      \* the reconciliation pass: new, sweep, settle, done
  snap,      \* its snapshot of the claim
  \* the rest
  waiting,   \* a workspace request is queued or waits for the workspace
  due,       \* the tasks whose human step is over and not yet continued
  upsets,
  swept,     \* history: executions whose claim the pass took while they ran
  kept       \* history: executions whose claim was to be undone or looked at by
             \* the pass, and the control lock timed out

vars == <<claim, queue, barrier, finish, settling, step, work, active, line,
          pc, job, turn, boot, snap, waiting, due, upsets, swept, kept>>
batches == <<barrier, finish, settling>>
progress == <<step, work>>
outside == <<snap, waiting, due, swept, kept, upsets>>
ours == <<snap, waiting, due, swept, kept>>
others == <<snap, waiting, due, swept, upsets>>

Free == [own |-> None, at |-> "new", recovery |-> FALSE]
\* child: the execution admitted for a member of a settling batch, while its
\* admission lasts.
NoJob == [scope |-> {}, queued |-> {}, base |-> 0, pre |-> FALSE, child |-> None]
Unsettled == [status |-> "none", members |-> {}]
IsBatch(e) == e \in Batch
Only(S) == CHOOSE t \in S : TRUE
Goto(e, p) == pc' = [pc EXCEPT ![e] = p]
Spare == {e \in Single : pc[e] = "idle"}

\* One more of the things that MaxUpset bounds.
Upset == upsets < MaxUpset /\ upsets' = upsets + 1
Fails(f) == f \in Fault /\ Upset

\* The lock times out once more; what it is needed for happens once.
Again == "again" \in Fault
Works == UNCHANGED upsets

\* Where an execution is inside admitAgentExecution, its mutex held from
\* "acquire" on.
InMutex == {"acquire", "session", "undo", "prepare", "invoking",
            "start", "started", "undoStart", "undoSub"}
Admitting == {"planned", "lock"} \union InMutex
Settling == {"release", "resume", "mark", "settle", "barrier", "dispatch"}
Admitted == Settling \union {"running", "continue", "done"}
Over == {"continue", "done", "refused", "back", "threw", "stuck", "broken", "dead"}

(***************************************************************************)
(* Readiness and the choice of the next task.                              *)
(***************************************************************************)
Barriered(t) == \E b \in Batch : barrier[b] = "reserved" /\ t \in job[b].scope
Agents(t) == step[t] \in (1..Last) \ HumanStep

\* A finish that can be replayed and a dirty worktree bar only the activation
\* ("closing"): the task is eligible, and not ready.
Ready(t) == Agents(t) /\ ~Barriered(t) /\ work[t] \in {"idle", "starting", "active"}
Eligible(t) == Ready(t) \/ (Agents(t) /\ ~Barriered(t) /\ work[t] = "closing")

\* The first eligible task of a selection, as a set of at most one.
NextOf(S) == {t \in S : Eligible(t) /\ \A u \in S : Eligible(u) => t <= u}

\* What an automatic continuation admits: an eligible first task that is not
\* ready bars the tasks behind it.
Admissible(S) == {t \in NextOf(S) : Ready(t)}

(***************************************************************************)
(* Requests.  The plan is a look at the task; awaits separate it from what *)
(* it leads to.                                                            *)
(***************************************************************************)
Plan(e, S) ==
  /\ boot = "done" /\ Spare # {} /\ e = Only(Spare)
  /\ \E t \in NextOf(S) :
       job' = [job EXCEPT ![e] = [NoJob EXCEPT !.scope = {t}, !.queued = S,
                                               !.pre = ~Ready(t)]]
  /\ Goto(e, "planned")
  /\ UNCHANGED <<claim, queue, active, line, turn, boot, batches, progress, outside>>

PlanBatch(b, S) ==
  /\ boot = "done" /\ pc[b] = "idle" /\ b \in Batch
  /\ Cardinality(S) > 1
  /\ \A t \in S : Agents(t) /\ work[t] \in {"idle", "starting", "active"}
  /\ \A t, u \in S : step[t] = step[u]
  /\ job' = [job EXCEPT ![b] = [NoJob EXCEPT !.scope = S]]
  /\ Goto(b, "planned")
  /\ UNCHANGED <<claim, queue, active, line, turn, boot, batches, progress, outside>>

\* enqueueTasks, and the end of the chain for the specification's mutex.
Enqueue(e) ==
  /\ pc[e] = "planned" /\ e \in Single
  /\ queue' = queue \union job[e].queued
  /\ job' = [job EXCEPT ![e].queued = {}]
  /\ line' = Append(line, e)
  /\ Goto(e, "lock")
  /\ UNCHANGED <<claim, active, turn, boot, batches, progress, outside>>

\* createGroupReservation: refused when a member is already reserved.
Reserve(b) ==
  /\ pc[b] = "planned" /\ b \in Batch
  /\ IF \E t \in job[b].scope, c \in Batch \ {b} :
          barrier[c] = "reserved" /\ t \in job[c].scope
       THEN Goto(b, "threw") /\ UNCHANGED <<barrier, line>>
       ELSE /\ barrier' = [barrier EXCEPT ![b] = "reserved"]
            /\ line' = Append(line, b)
            /\ Goto(b, "lock")
  /\ UNCHANGED <<claim, queue, finish, settling, active, job, turn, boot, progress, outside>>

\* Mutant: a refused batch keeps its reservation.
RollbackNothing(b) ==
  /\ pc[b] = "refused" /\ b \in Batch
  /\ Goto(b, "back")
  /\ UNCHANGED <<claim, queue, batches, active, line, job, turn, boot, progress, outside>>

\* A batch that was refused gives its reservation back; one whose admission
\* threw does not, nor one for which the lock times out here.
Rollback(b) ==
  /\ pc[b] = "refused" /\ b \in Batch
  /\ \/ /\ barrier' = [barrier EXCEPT ![b] = "released"]
        /\ Goto(b, "back")
     \/ Again /\ Goto(b, "threw") /\ UNCHANGED barrier
  /\ UNCHANGED <<claim, queue, finish, settling, active, line, job, turn, boot, progress, outside>>

(***************************************************************************)
(* admitAgentExecution.                                                    *)
(***************************************************************************)
Owned(e) == claim.own = e

Enriched(at) == [claim EXCEPT !.at = at]

\* releaseWorkspaceWriterIfOwned, markWorkspaceWriterRecoveryRequiredIfOwned.
Released(e) == IF Owned(e) THEN Free ELSE claim

\* Mutant: a claim that needs recovery is not marked.
MarkedNever(e) == claim

Marked(e) == IF Owned(e) THEN [claim EXCEPT !.recovery = TRUE] ELSE claim

Cleared(e) == IF active = e THEN None ELSE active

\* Mutant: a refused admission does not pass the mutex on.
LeaveAdmitted(e, p) == Goto(e, p) /\ line' = IF p = "refused" THEN line ELSE Tail(line)

\* The end of the admission: the mutex goes to the next in the chain.
Leave(e, p) == Goto(e, p) /\ line' = Tail(line)

\* One execution at a time, and none while a workspace request waits.
Enter(e) ==
  /\ pc[e] = "lock" /\ Head(line) = e
  /\ IF active # None \/ waiting THEN Leave(e, "refused")
                                 ELSE Goto(e, "acquire") /\ UNCHANGED line
  /\ UNCHANGED <<claim, queue, active, job, turn, boot, batches, progress, outside>>

\* acquireWorkspaceWriter tries for fifteen seconds, unless the claim needs
\* recovery.
Acquire(e) ==
  /\ pc[e] = "acquire"
  /\ \/ /\ claim = Free /\ Works
        /\ claim' = [Free EXCEPT !.own = e]
        /\ Goto(e, "session") /\ UNCHANGED line
     \/ /\ claim # Free /\ Works
        /\ Leave(e, "refused") /\ UNCHANGED claim
     \/ /\ Fails("enrich")
        /\ Leave(e, "threw") /\ UNCHANGED claim
  /\ UNCHANGED <<queue, active, job, turn, boot, batches, progress, ours>>

CreateSession(e) ==
  /\ pc[e] = "session"
  /\ \/ Works /\ Goto(e, "prepare")
     \/ Fails("session") /\ Goto(e, "undo")
  /\ UNCHANGED <<claim, queue, active, line, job, turn, boot, batches, progress, ours>>

\* The claim of an admission that is given up, unless the lock times out.
GivesBack(e) ==
  \/ claim' = Released(e) /\ UNCHANGED kept
  \/ Again /\ kept' = kept \union {e} /\ UNCHANGED claim

\* A session that is not there, or a claim that is not the execution's own.
Undo(e) ==
  /\ pc[e] = "undo"
  /\ GivesBack(e)
  /\ \E p \in {"refused", "threw"} : Leave(e, p) /\ (p = "refused" => UNCHANGED kept)
  /\ UNCHANGED <<queue, active, job, turn, boot, batches, progress, others>>

\* The execution is registered; the task's position is the baseline its
\* settlement is compared with.
Prepare(e) ==
  /\ pc[e] = "prepare"
  /\ IF Owned(e)
       THEN /\ claim' = Enriched("prepared")
            /\ active' = e
            /\ job' = [job EXCEPT ![e].base = IF IsBatch(e) THEN 0 ELSE step[Only(job[e].scope)]]
            /\ Goto(e, "invoking")
       ELSE Goto(e, "undo") /\ UNCHANGED <<claim, active, job>>
  /\ UNCHANGED <<queue, line, turn, boot, batches, progress, outside>>

\* This enrichment stands outside every try: when it throws, the registration
\* and the claim remain.
Invoking(e) ==
  /\ pc[e] = "invoking"
  /\ \/ /\ Owned(e) /\ Works
        /\ claim' = Enriched("invoking")
        /\ Goto(e, "start") /\ UNCHANGED <<line, active>>
     \/ /\ ~Owned(e) /\ Works
        /\ active' = None
        /\ Leave(e, "refused") /\ UNCHANGED claim
     \/ /\ Fails("enrich")
        /\ Leave(e, "stuck") /\ UNCHANGED <<claim, active>>
  /\ UNCHANGED <<queue, job, turn, boot, batches, progress, ours>>

StartTurn(e) ==
  /\ pc[e] = "start"
  /\ \/ Works /\ turn' = [turn EXCEPT ![e] = "running"] /\ Goto(e, "started")
     \/ Fails("start") /\ Goto(e, "undoStart") /\ UNCHANGED turn
     \/ Fails("late") /\ turn' = [turn EXCEPT ![e] = "running"] /\ Goto(e, "undoStart")
  /\ UNCHANGED <<claim, queue, active, line, job, boot, batches, progress, ours>>

\* The last enrichment, the subscription to the session's events and the end
\* of the mutex.
Started(e) ==
  /\ pc[e] = "started"
  /\ \/ /\ Owned(e)
        /\ claim' = Enriched("started")
        /\ \/ Works /\ Leave(e, "running")
           \/ Fails("subscribe") /\ Goto(e, "undoSub") /\ UNCHANGED line
        /\ UNCHANGED active
     \/ /\ ~Owned(e) /\ Works
        /\ active' = Cleared(e)
        /\ Leave(e, "refused") /\ UNCHANGED claim
  /\ UNCHANGED <<queue, job, turn, boot, batches, progress, ours>>

\* Mutant: a start that failed keeps the claim.
UndoStartKept(e) ==
  /\ pc[e] \in {"undoStart", "undoSub"}
  /\ active' = Cleared(e)
  /\ Leave(e, IF pc[e] = "undoSub" THEN "refused" ELSE "threw")
  /\ UNCHANGED <<claim, queue, job, turn, boot, batches, progress, outside>>

\* The admission goes on as if the claim had been released: an error of the
\* release is swallowed.
UndoStart(e) ==
  /\ pc[e] \in {"undoStart", "undoSub"}
  /\ GivesBack(e)
  /\ active' = Cleared(e)
  /\ Leave(e, IF pc[e] = "undoSub" THEN "refused" ELSE "threw")
  /\ UNCHANGED <<queue, job, turn, boot, batches, progress, others>>

(***************************************************************************)
(* The agent: the workflow commands of its turn, one step of its task.     *)
(***************************************************************************)
Working(e) == turn[e] = "running"

\* step start, and step finish, which moves the task on before its record is
\* completed; that record can be replayed, or not ("stuck").
Work(e) ==
  /\ Working(e) /\ e \in Single
  /\ \E t \in job[e].scope :
       \/ /\ Agents(t) /\ step[t] <= job[e].base
          /\ \/ work[t] = "idle" /\ work' = [work EXCEPT ![t] = "starting"] /\ UNCHANGED step
             \/ work[t] = "starting" /\ work' = [work EXCEPT ![t] = "active"] /\ UNCHANGED step
             \/ /\ work[t] = "active"
                /\ \E w \in {"closing", "stuck"} : work' = [work EXCEPT ![t] = w]
                /\ step' = [step EXCEPT ![t] = @ + 1]
       \/ work[t] = "closing" /\ work' = [work EXCEPT ![t] = "idle"] /\ UNCHANGED step
  /\ UNCHANGED <<claim, queue, active, line, pc, job, turn, boot, batches, outside>>

\* batch finish moves every member on and completes its record last.
FinishBatch(b) ==
  /\ Working(b) /\ b \in Batch /\ ~finish[b]
  /\ \A t \in job[b].scope : Agents(t)
  /\ finish' = [finish EXCEPT ![b] = TRUE]
  /\ step' = [t \in Task |-> IF t \in job[b].scope THEN step[t] + 1 ELSE step[t]]
  /\ work' = [t \in Task |-> IF t \in job[b].scope THEN "idle" ELSE work[t]]
  /\ UNCHANGED <<claim, queue, barrier, settling, active, line, pc, job, turn, boot, outside>>

EndTurn(e) ==
  /\ Working(e)
  /\ turn' = [turn EXCEPT ![e] = "ended"]
  /\ UNCHANGED <<claim, queue, active, line, pc, job, boot, batches, progress, outside>>

(***************************************************************************)
(* Settlement of an execution: assessExecutionSettlement and Hook 1.       *)
(***************************************************************************)
\* Mutant: the end of any turn of the session is taken for this turn's.
HeardOfAny(e) == \E f \in Exec : turn[f] = "ended"

\* The subscription replays the session's events, so the end of a turn that
\* came before it is heard; ends of other turns are not its business.
Heard(e) == turn[e] = "ended"

\* What a task's execution came to.  A finish left dirty files in the task's
\* scope, or it did not.
Outcomes(t, unmoved) ==
  CASE work[t] \in {"starting", "stuck"} -> {"recovery"}
    [] work[t] \in {"closing", "active"} -> {"resumable"}
    [] unmoved -> {"resumable"}
    [] OTHER -> {"completed", "recovery"}

\* A task that was never worked on has no position to compare with: one that
\* is not started at all counts as moved.
Unmoved(e) == \/ job[e].pre
              \/ step[Only(job[e].scope)] = job[e].base /\ job[e].base > 1

Assess(e) ==
  /\ pc[e] = "running" /\ Heard(e)
  /\ IF IsBatch(e)
       THEN Goto(e, IF finish[e] THEN "settle" ELSE "mark")
       ELSE \E o \in Outcomes(Only(job[e].scope), Unmoved(e)) :
              Goto(e, CASE o = "completed" -> "release"
                        [] o = "resumable" -> "resume"
                        [] o = "recovery" -> "mark")
  /\ UNCHANGED <<claim, queue, active, line, job, turn, boot, batches, progress, outside>>

Release(e) ==
  /\ pc[e] = "release"
  /\ claim' = Released(e)
  /\ active' = Cleared(e)
  /\ Goto(e, "continue")
  /\ UNCHANGED <<queue, line, job, turn, boot, batches, progress, outside>>

\* A resumable task leaves the queue: another task's settlement does not
\* admit it again.
Resume(e) ==
  /\ pc[e] = "resume"
  /\ claim' = Released(e)
  /\ active' = Cleared(e)
  /\ queue' = queue \ job[e].scope
  /\ Goto(e, "done")
  /\ UNCHANGED <<line, job, turn, boot, batches, progress, outside>>

Mark(e) ==
  /\ pc[e] = "mark"
  /\ claim' = Marked(e)
  /\ active' = Cleared(e)
  /\ Goto(e, "done")
  /\ UNCHANGED <<queue, line, job, turn, boot, batches, progress, outside>>

\* The lock times out in the hook, or in the first or third stage of a batch's
\* settlement: it ends there, and what it has not done remains.
HookThrows(e) ==
  /\ pc[e] \in {"release", "resume", "mark", "settle", "barrier"} /\ Fails("hook")
  /\ Goto(e, "broken")
  /\ UNCHANGED <<claim, queue, active, line, job, turn, boot, batches, progress, ours>>

(***************************************************************************)
(* reconcileContinuation: the task that has just moved on, or else, when    *)
(* it cannot go on by itself, the durable queue of its specification.      *)
(***************************************************************************)
AutoStep(t) == Agents(t) /\ step[t] \in Automatic
Preview(t) == step[t] \in Automatic \intersect HumanStep

GoesOn(t) == AutoStep(t) /\ Admissible({t}) # {}

\* A task between two steps has the state of a completed one.
Passed(t) == work[t] = "idle" /\ step[t] > 1
Joined(t) == IF AutoStep(t) THEN queue \union {t} ELSE queue
Purged(t) == {u \in Joined(t) : ~Passed(u)}

Queued(t) == IF GoesOn(t) \/ Preview(t) THEN Joined(t) ELSE Purged(t)
ToAdmit(t) == CASE GoesOn(t)  -> Admissible({t})
                [] Preview(t) -> {}
                [] OTHER      -> Admissible(Purged(t))

CanAdmit(t) == ToAdmit(t) # {} /\ Spare # {}

\* The continuation admits a task, if there is one, with a spare execution;
\* the caller goes from pc and job to pcs and jobs.
Continue(t, pcs, jobs) ==
  /\ queue' = Queued(t)
  /\ IF CanAdmit(t)
       THEN /\ line' = Append(line, Only(Spare))
            /\ job' = [jobs EXCEPT ![Only(Spare)].scope = ToAdmit(t)]
            /\ pc' = [pcs EXCEPT ![Only(Spare)] = "lock"]
       ELSE pc' = pcs /\ job' = jobs /\ UNCHANGED line

GoOn(e) ==
  /\ pc[e] = "continue"
  /\ Continue(Only(job[e].scope), [pc EXCEPT ![e] = "done"], job)
  /\ UNCHANGED <<claim, active, turn, boot, batches, progress, outside>>

(***************************************************************************)
(* executeBatchCompletionSettlement.                                       *)
(***************************************************************************)
Settles(b, r) == settling' = [settling EXCEPT ![b] = r]

\* Mutant: the registration outlives the first two stages.
SettleClaimOnly(b) ==
  /\ pc[b] = "settle"
  /\ claim' = Released(b)
  /\ Settles(b, [settling[b] EXCEPT !.status = "pending"])
  /\ Goto(b, "barrier")
  /\ UNCHANGED <<queue, barrier, finish, active, line, job, turn, boot, progress, outside>>

\* Stages 1 and 2: the claim and the registration.  A claim of another
\* execution on a task of the batch is ambiguous and ends the settlement.
SettleClaim(b) ==
  /\ pc[b] = "settle"
  /\ IF claim.own \in Exec \ {b} /\ job[claim.own].scope \intersect job[b].scope # {}
       THEN /\ Settles(b, [settling[b] EXCEPT !.status = "recovery"])
            /\ Goto(b, "done")
            /\ UNCHANGED <<claim, active>>
       ELSE /\ claim' = Released(b)
            /\ active' = Cleared(b)
            /\ Settles(b, [settling[b] EXCEPT !.status = "pending"])
            /\ Goto(b, "barrier")
  /\ UNCHANGED <<queue, barrier, finish, line, job, turn, boot, progress, outside>>

\* Stage 3, and the guard before the first dispatch.
SettleBarrier(b) ==
  /\ pc[b] = "barrier"
  /\ barrier' = [barrier EXCEPT ![b] = "released"]
  /\ Goto(b, IF Owned(b) THEN "broken" ELSE "dispatch")
  /\ UNCHANGED <<claim, queue, finish, settling, active, line, job, turn, boot, progress, outside>>

NextMember(b) == {t \in job[b].scope \ settling[b].members :
                    \A u \in job[b].scope \ settling[b].members : t <= u}
Dispatched(b) == [settling[b] EXCEPT !.members = @ \union NextMember(b)]

\* Stage 4: each member in turn goes on as a task of its own.  A member whose
\* continuation admits nothing is dispatched at once.
SettleMember(b) ==
  /\ pc[b] = "dispatch" /\ job[b].child = None
  /\ \E t \in NextMember(b) :
       IF CanAdmit(t)
         THEN Continue(t, pc, [job EXCEPT ![b].child = Only(Spare)]) /\ UNCHANGED settling
         ELSE Continue(t, pc, job) /\ Settles(b, Dispatched(b))
  /\ UNCHANGED <<claim, barrier, finish, active, turn, boot, progress, outside>>

\* The admission of a member ended: refused or not, the member is dispatched.
MemberAdmitted(b) ==
  /\ pc[b] = "dispatch" /\ job[b].child # None
  /\ pc[job[b].child] \notin Admitting
  /\ job' = [job EXCEPT ![b].child = None]
  /\ IF pc[job[b].child] \in {"threw", "stuck"}
       THEN Goto(b, "broken") /\ UNCHANGED settling
       ELSE Settles(b, Dispatched(b)) /\ UNCHANGED pc
  /\ UNCHANGED <<claim, queue, barrier, finish, active, line, turn, boot, progress, outside>>

SettleEnd(b) ==
  /\ pc[b] = "dispatch" /\ job[b].child = None
  /\ settling[b].members = job[b].scope
  /\ Settles(b, [settling[b] EXCEPT !.status = "completed"])
  /\ Goto(b, "done")
  /\ UNCHANGED <<claim, queue, barrier, finish, active, line, job, turn, boot, progress, outside>>

(***************************************************************************)
(* reconcileBootState, before the first request of a started dashboard.    *)
(***************************************************************************)
BootStart ==
  /\ boot = "new"
  /\ IF claim.own \in Exec THEN snap' = claim /\ boot' = "sweep"
                           ELSE boot' = "done" /\ UNCHANGED snap
  /\ UNCHANGED <<claim, queue, active, line, pc, job, turn, waiting, due, upsets,
                 swept, kept, batches, progress>>

Sweeps(e, c) ==
  /\ claim' = c
  /\ swept' = IF pc[e] = "dead" THEN swept ELSE swept \union {e}

\* A batch that had finished goes on with its settlement.
Resumes(b) == IsBatch(b) /\ snap.at \in {"prepared", "started"} /\ finish[b]

\* The pass does not know the position the execution started from, nor
\* whether the execution runs.
BootSweep ==
  /\ boot = "sweep"
  /\ LET e == snap.own IN
     IF Resumes(e)
       THEN /\ boot' = "settle"
            /\ Goto(e, "settle")
            /\ job' = [job EXCEPT ![e].child = None]
            /\ UNCHANGED <<claim, swept, snap>>
       ELSE /\ boot' = "done" /\ snap' = Free
            /\ CASE snap.at = "new" -> UNCHANGED <<claim, swept>>
                 [] snap.at = "invoking" \/ IsBatch(e) -> Sweeps(e, Marked(e))
                 [] OTHER ->
                      \E o \in Outcomes(Only(job[e].scope), snap.at = "prepared") :
                        Sweeps(e, IF o = "recovery" THEN Marked(e) ELSE Released(e))
            /\ UNCHANGED <<pc, job>>
  /\ UNCHANGED <<queue, active, line, turn, waiting, due, upsets, kept, batches, progress>>

\* When the lock times out the pass is given up, and not repeated before the
\* next start; it does not take the lock for a claim without a session.
BootThrows ==
  /\ boot = "sweep" /\ Again /\ snap.at # "new" /\ ~Resumes(snap.own)
  /\ boot' = "done" /\ snap' = Free /\ kept' = kept \union {snap.own}
  /\ UNCHANGED <<claim, queue, active, line, pc, job, turn, waiting, due, upsets,
                 swept, batches, progress>>

\* A settlement that throws leaves a claim that needs recovery, and an error
\* of this mark is swallowed.
BootSettled ==
  /\ boot = "settle" /\ pc[snap.own] \in {"done", "broken"}
  /\ \/ pc[snap.own] = "broken" /\ claim' = Marked(snap.own)
     \/ (pc[snap.own] = "broken" => Again) /\ UNCHANGED claim
  /\ boot' = "done" /\ snap' = Free
  /\ UNCHANGED <<queue, active, line, pc, job, turn, batches, progress, waiting, due, swept, kept, upsets>>

(***************************************************************************)
(* The rest of the program.                                                *)
(***************************************************************************)
\* The process dies: turns end with it, files stay.
Crash ==
  /\ Upset
  /\ pc' = [e \in Exec |-> IF pc[e] \in {"idle", "done", "back"} THEN pc[e] ELSE "dead"]
  /\ turn' = [e \in Exec |-> IF turn[e] = "running" THEN "ended" ELSE turn[e]]
  /\ active' = None /\ line' = <<>> /\ boot' = "new" /\ due' = {} /\ snap' = Free
  /\ UNCHANGED <<claim, queue, job, waiting, swept, kept, batches, progress>>

\* A human-submit or a publish asks for the workspace, waits, and takes it.
OtherAsks ==
  /\ Upset /\ ~waiting /\ waiting' = TRUE
  /\ UNCHANGED <<claim, queue, active, line, pc, job, turn, boot, snap, due, swept, kept, batches, progress>>

OtherTakes ==
  /\ waiting /\ claim = Free
  /\ claim' = [Free EXCEPT !.own = Other]
  /\ waiting' = FALSE
  /\ UNCHANGED <<queue, active, line, pc, job, turn, boot, snap, due, upsets,
                 swept, kept, batches, progress>>

\* It gives up, or is done; a human-submit has moved its task on.
OtherGivesUp ==
  /\ waiting /\ waiting' = FALSE
  /\ UNCHANGED <<claim, queue, active, line, pc, job, turn, boot, snap, due, upsets,
                 swept, kept, batches, progress>>

OtherEnds ==
  /\ claim.own = Other
  /\ claim' = Free
  /\ \E T \in {{}} \union {{t} : t \in {u \in Task : step[u] \in HumanStep}} :
       /\ step' = [t \in Task |-> IF t \in T THEN step[t] + 1 ELSE step[t]]
       /\ due' = due \union T
  /\ UNCHANGED <<queue, active, line, pc, job, turn, boot, snap, work, waiting, upsets,
                 swept, kept, batches>>

OtherGoesOn ==
  /\ \E t \in due : Continue(t, pc, job) /\ due' = due \ {t}
  /\ UNCHANGED <<claim, active, turn, boot, snap, waiting, upsets, swept, kept,
                 batches, progress>>

(***************************************************************************)
(* The system.                                                             *)
(***************************************************************************)
Init ==
  /\ claim = Free /\ active = None /\ line = <<>>
  /\ barrier = [b \in Batch |-> "none"] /\ finish = [b \in Batch |-> FALSE]
  /\ settling = [b \in Batch |-> Unsettled]
  /\ \E s \in Start : step = s.step /\ queue = s.queue
  /\ work = [t \in Task |-> "idle"]
  /\ pc = [e \in Exec |-> "idle"] /\ job = [e \in Exec |-> NoJob]
  /\ turn = [e \in Exec |-> "none"]
  /\ boot = "new" /\ snap = Free /\ swept = {} /\ kept = {} /\ due = {}
  /\ waiting = FALSE /\ upsets = 0

Request ==
  \/ \E e \in Single, S \in Selection : Plan(e, S)
  \/ \E b \in Batch, S \in Selection : PlanBatch(b, S)

Handling(e) ==
  \/ Enqueue(e) \/ Enter(e) \/ Acquire(e) \/ CreateSession(e) \/ Undo(e)
  \/ Prepare(e) \/ Invoking(e) \/ StartTurn(e) \/ Started(e)
  \/ UndoStart(e) \/ Assess(e) \/ Release(e) \/ Resume(e) \/ Mark(e) \/ GoOn(e)

HandlingBatch(b) ==
  \/ Reserve(b) \/ Rollback(b) \/ SettleClaim(b) \/ SettleBarrier(b)
  \/ SettleMember(b) \/ MemberAdmitted(b) \/ SettleEnd(b)

Agent(e) == Work(e) \/ (e \in Batch /\ FinishBatch(e)) \/ EndTurn(e)
Boot == BootStart \/ BootSweep \/ BootThrows \/ BootSettled
Outside == Crash \/ OtherAsks \/ OtherTakes \/ OtherGivesUp \/ OtherEnds \/ OtherGoesOn

Next ==
  \/ Request
  \/ \E e \in Exec : Handling(e) \/ HookThrows(e) \/ Agent(e)
  \/ \E b \in Batch : HandlingBatch(b)
  \/ Boot \/ Outside

Spec == Init /\ [][Next]_vars

\* The process schedules what it has begun, and after a start a first request
\* comes.  Nothing makes an agent end, or a person ask.
Fairness ==
  /\ \A e \in Exec : WF_vars(Handling(e))
  /\ \A b \in Batch : WF_vars(HandlingBatch(b))
  /\ WF_vars(Boot)
FairSpec == Spec /\ Fairness

(***************************************************************************)
(* Properties.                                                             *)
(***************************************************************************)
Claim == [own : Exec \union {None, Other}, recovery : BOOLEAN,
          at : {"new", "prepared", "invoking", "started"}]
Place == {"idle"} \union Admitting \union Settling \union Over \union {"running"}
Job == [scope : SUBSET Task, queued : SUBSET Task, base : Nat, pre : BOOLEAN,
        child : Exec \union {None}]
Settlement == [status : {"none", "pending", "completed", "recovery"}, members : SUBSET Task]

\* Every variable has a value of its kind.
TypeOK ==
  /\ claim \in Claim /\ snap \in Claim
  /\ queue \subseteq Task /\ due \subseteq Task
  /\ barrier \in [Batch -> {"none", "reserved", "released"}] /\ finish \in [Batch -> BOOLEAN]
  /\ settling \in [Batch -> Settlement]
  /\ step \in [Task -> Nat]
  /\ work \in [Task -> {"idle", "starting", "active", "closing", "stuck"}]
  /\ active \in Exec \union {None} /\ line \in Seq(Exec)
  /\ pc \in [Exec -> Place] /\ job \in [Exec -> Job]
  /\ turn \in [Exec -> {"none", "running", "ended"}]
  /\ boot \in {"new", "sweep", "settle", "done"}
  /\ swept \subseteq Exec /\ kept \subseteq Exec /\ waiting \in BOOLEAN /\ upsets \in Nat

\* As long as the turn of an admitted agent runs, the workspace is claimed for
\* it and the claim names its turn: no one else's agent and no publish works in
\* the worktree (admission.mjs:1-8).  The first-request pass may take the claim
\* from an agent that a human-submit admitted before it; `swept` says so.
AdmittedIsCovered ==
  \A e \in Exec : pc[e] \in Admitted /\ turn[e] = "running" /\ e \notin swept
                    => Owned(e) /\ claim.at = "started"

\* A claim that no one is going to give back is marked for recovery: its
\* execution is being admitted, runs, is being settled, was left by a lock that
\* timed out, or died and waits for the pass at the first request.  What the
\* code leaves unmarked is named: a claim without a session, and one for which
\* the lock timed out where no one tries again: before the start ("stuck"), in
\* the settlement ("broken"), when a failed start is undone (admission.mjs:466)
\* or in the pass (`kept`).
NoOrphanClaim ==
  claim.own \in Exec /\ ~claim.recovery =>
    \/ pc[claim.own] \in InMutex \union Settling \union {"running", "stuck", "broken"}
    \/ pc[claim.own] = "dead" /\ (boot # "done" \/ claim.at = "new")
    \/ claim.own \in kept

\* When a settling batch dispatches a member, its claim, its registration and
\* its barrier are gone (batch-completion-settlement.mjs:622).
DispatchAfterRelease ==
  \A b \in Batch : pc[b] = "dispatch" /\ job[b].child # None =>
    barrier[b] # "reserved" /\ ~Owned(b) /\ active # b

\* As long as the workspace is claimed for a batch its tasks are barred for
\* others, and a barred task has a batch that is at work or a claim that needs
\* recovery, so that someone is told.  The exceptions are the code's: a batch
\* that ended by an error or with the process keeps its reservation, and no one
\* looks for it (turns/routes.mjs:289 rolls back a refusal only, whereas
\* queue/reservation.mjs:319 speaks of any admission that fails), and a refused
\* batch gives it back although its claim could not be released.
AtWork(b) == pc[b] \in {"lock", "refused", "running", "mark", "settle", "barrier"} \union InMutex
BrokenOff(b) == pc[b] \in {"threw", "stuck", "broken", "dead"}
ReservationAccounted ==
  \A b \in Batch :
    /\ Owned(b) /\ b \notin kept => barrier[b] = "reserved"
    /\ barrier[b] = "reserved" => AtWork(b) \/ BrokenOff(b) \/ (Owned(b) /\ claim.recovery)

\* When the turn of the agent the workspace is claimed for has ended, in this
\* process or with it, the workspace becomes free or its claim is marked for
\* recovery, unless the hook or the pass after a restart could not take the lock.
EndedIsSettled ==
  (\E e \in Exec : Owned(e) /\ pc[e] = "running" /\ turn[e] = "ended")
    ~> (claim = Free \/ claim.recovery \/ \E e \in Exec : Owned(e) /\ (pc[e] = "broken" \/ e \in kept))

\* The settlement of a finished batch comes to its end, although each member's
\* admission waits for the mutex of the specification, unless the process dies,
\* an admission throws, or the lock times out in its first or third stage
\* (batch-completion-settlement.mjs:435, 600), which no one repeats.
FinishedBatchIsSettled ==
  \A b \in Batch : pc[b] = "settle"
    ~> (settling[b].status \in {"completed", "recovery"} \/ pc[b] \in {"broken", "dead"})
=============================================================================
