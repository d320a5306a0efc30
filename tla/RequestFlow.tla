---------------------------- MODULE RequestFlow ----------------------------
(***************************************************************************)
(* The one workspace-writer slot of a physical worktree, the durable       *)
(* workspace requests that queue for it, and everyone who touches them:    *)
(*                                                                         *)
(*   - the three request-backed operations: a human-submit                 *)
(*     (activateAndSubmitHumanStep), a publish (publishTask) and a         *)
(*     batch-publish (the dashboard's handleBatchPublish);                 *)
(*   - the reconciler of dead claims, run by whoever finds one             *)
(*     (reconcileRequestBackedWorkspaceClaim);                             *)
(*   - the boot pass of the dashboard (reconcileBootState);                *)
(*   - an agent execution, as far as it holds the slot.                    *)
(*                                                                         *)
(* A section under workspace-control.lock is one action; FileLock is the   *)
(* model of that lock and says when its sections do exclude each other.    *)
(* What happens between two sections interleaves, and a process may die    *)
(* there. Requests and owners carry the name of the call that drew the     *)
(* UUID. A call of the command line is a process of its own; the calls in  *)
(* DashboardCall share the dashboard's.                                    *)
(***************************************************************************)
EXTENDS Naturals, FiniteSets

CONSTANTS
  Call,            \* submissions: each runs its operation once
  Kind,            \* Kind[c]: "human-submit", "publish" or "batch-publish"
  Op,              \* durable operation records, by path
  OpOf,            \* OpOf[c]: the record of the operation that c submits
  Task,
  TaskOf,          \* TaskOf[o]: the task a publish record is about
  DashboardCall,   \* the calls that the dashboard serves
  Agent,           \* an agent execution, as the owner of a claim
  Boot,            \* the boot pass, as one who reconciles
  Others,          \* which of the two take part besides the calls
  NoOne,
  MaxCrash,        \* bound on the crashes of processes
  LockMayTimeOut   \* whether a wait for the control lock may time out

Kinds == {"human-submit", "publish", "batch-publish"}

ASSUME RequestFlowAssumption ==
  /\ Kind \in [Call -> Kinds]
  /\ OpOf \in [Call -> Op]
  /\ TaskOf \in [Op -> Task]
  /\ DashboardCall \subseteq Call
  /\ Agent \notin Call /\ Boot \notin Call /\ NoOne \notin Call
  /\ Agent # Boot /\ Agent # NoOne /\ Boot # NoOne
  /\ Others \subseteq {Agent, Boot}
  /\ MaxCrash \in Nat
  /\ LockMayTimeOut \in BOOLEAN

\* No two kinds of operation share a record file (that of a batch is named
\* after a task '_batch-publish').
ASSUME RecordsApart == \A c, d \in Call : OpOf[c] = OpOf[d] => Kind[c] = Kind[d]

VARIABLES
  claim,           \* the workspace-writer claim
  request,         \* request[r]: status of the workspace request drawn by r
  workspaceOwner,  \* workspaceOwner[r]: who promoted the request to running
  record,          \* record[o]: the durable operation record
  approved,        \* the tasks that have left draft
  dirty,           \* operations with changes not yet committed
  pc,              \* where a call is
  my,              \* my[c]: the request the call works for
  verdict,         \* verdict[c]: the terminal status the call will write
  executed,        \* history: the calls whose mutation has begun
  succeeded,       \* history: the calls whose mutation went through
  rc,              \* rc[a]: the reconciliation the actor is in
  boot,            \* the boot pass of this incarnation of the dashboard
  agent,           \* the agent execution
  gone,            \* the calls whose process is no longer running
  crashes          \* the number of crashes so far

slotVars == <<claim, request, workspaceOwner>>
diskVars == <<record, approved, dirty>>
callVars == <<pc, my, verdict, executed, succeeded>>
procVars == <<boot, agent, gone, crashes>>
vars == <<slotVars, diskVars, callVars, rc, procVars>>

Pending == {"queued", "waiting-for-workspace"}
InFlight == Pending \cup {"running"}
Terminal == {"completed", "failed"}
Status == InFlight \cup Terminal
            \cup {"none", "blocked-by-recovery", "reconciliation-required"}

PC == {"idle", "save", "request", "acquire", "await", "reacquire", "barred",
       "promote", "giveback", "lease", "working", "record", "settle",
       "release", "unsettle", "flag", "recordUnsettled", "ended"}

Actor == Call \cup {Boot, Agent}
Free == [owner |-> NoOne, req |-> NoOne, status |-> "none"]
NotReconciling == [at |-> "off", owner |-> NoOne, req |-> NoOne]
NotBooted == [at |-> "off", snap |-> NoOne, todo |-> {}]

IsPublish(c) == Kind[c] # "human-submit"

-----------------------------------------------------------------------------
(***************************************************************************)
(* The sections under the control lock that several steps share.           *)
(***************************************************************************)

\* transitionWorkspaceRequest: a compare-and-set on the status.
Transition(r, expected, to) ==
  request' = IF request[r] \in expected THEN [request EXCEPT ![r] = to] ELSE request

\* releaseWorkspaceWriterIfOwned, whatever the claim's status.
ReleaseIf(owned) == claim' = IF owned THEN Free ELSE claim

\* markWorkspaceWriterRecoveryRequiredIfOwned
MarkIf(owned) ==
  claim' = IF owned THEN [claim EXCEPT !.status = "recovery-required"] ELSE claim

\* isProcessAlive, negated, of the pid in a request-backed claim.
OwnerIsDead == claim.owner \in gone

-----------------------------------------------------------------------------

Init ==
  /\ claim = Free
  /\ request = [c \in Call |-> "none"]
  /\ workspaceOwner = [c \in Call |-> NoOne]
  /\ record = [o \in Op |-> [status |-> "none", req |-> NoOne]]
  /\ approved = {}
  /\ dirty = {}
  /\ pc = [c \in Call |-> "idle"]
  /\ my = [c \in Call |-> NoOne]
  /\ verdict = [c \in Call |-> "none"]
  /\ executed = {}
  /\ succeeded = {}
  /\ rc = [a \in Actor |-> NotReconciling]
  /\ boot = NotBooted
  /\ agent = "idle"
  /\ gone = {}
  /\ crashes = 0

\* No other call of the dashboard's thread is between its synchronous look at
\* the record and its write of it.
ThreadIsFree(c) ==
  c \in DashboardCall => \A d \in DashboardCall \ {c} : pc[d] # "save"

Goto(c, from, to) ==
  /\ pc[c] = from
  /\ ThreadIsFree(c)
  /\ pc' = [pc EXCEPT ![c] = to]

-----------------------------------------------------------------------------
(***************************************************************************)
(* Submission: the durable operation record, then the paired request.      *)
(***************************************************************************)

\* A human-submit creates its record under the control lock, once per attempt.
SubmitNew(c) ==
  /\ Kind[c] = "human-submit"
  /\ Goto(c, "idle", "request")
  /\ record[OpOf[c]].status = "none"
  /\ record' = [record EXCEPT ![OpOf[c]] = [status |-> "open", req |-> c]]
  /\ my' = [my EXCEPT ![c] = c]
  /\ UNCHANGED <<slotVars, approved, dirty, verdict, executed, succeeded, rc, procVars>>

\* evaluateExistingOp: an existing record answers, whatever its state.
SubmitAgain(c) ==
  /\ Kind[c] = "human-submit"
  /\ Goto(c, "idle", "ended")
  /\ record[OpOf[c]].status # "none"
  /\ UNCHANGED <<slotVars, diskVars, my, verdict, executed, succeeded, rc, procVars>>

\* publishTask looks for a record that is not completed: a failed one, too.
PublishReuses(c) ==
  LET old == record[OpOf[c]] IN
  /\ Kind[c] = "publish"
  /\ Goto(c, "idle", "request")
  /\ old.status \notin {"none", "completed"}
  /\ TaskOf[OpOf[c]] \in approved => old.status = "open"
  /\ my' = [my EXCEPT ![c] = old.req]
  /\ UNCHANGED <<slotVars, diskVars, verdict, executed, succeeded, rc, procVars>>

\* No such record and a draft task: a new record will be written.
PublishLooks(c) ==
  /\ Kind[c] = "publish"
  /\ Goto(c, "idle", "save")
  /\ record[OpOf[c]].status \in {"none", "completed"}
  /\ TaskOf[OpOf[c]] \notin approved
  /\ UNCHANGED <<slotVars, diskVars, my, verdict, executed, succeeded, rc, procVars>>

\* The batch handler overwrites the one record path of its change.
BatchLooks(c) ==
  /\ Kind[c] = "batch-publish"
  /\ Goto(c, "idle", "save")
  /\ TaskOf[OpOf[c]] \notin approved
  /\ UNCHANGED <<slotVars, diskVars, my, verdict, executed, succeeded, rc, procVars>>

\* Refused: the task is not a draft (and there is no open record to resume).
PublishRefused(c) ==
  /\ IsPublish(c)
  /\ Goto(c, "idle", "ended")
  /\ TaskOf[OpOf[c]] \in approved
  /\ Kind[c] = "batch-publish" \/ record[OpOf[c]].status # "open"
  /\ UNCHANGED <<slotVars, diskVars, my, verdict, executed, succeeded, rc, procVars>>

PublishSaves(c) ==
  /\ Goto(c, "save", "request")
  /\ record' = [record EXCEPT ![OpOf[c]] = [status |-> "open", req |-> c]]
  /\ my' = [my EXCEPT ![c] = c]
  /\ UNCHANGED <<slotVars, approved, dirty, verdict, executed, succeeded, rc, procVars>>

\* createWorkspaceRequest: an existing request of that id is reused as it is.
CreateRequest(c) ==
  /\ Goto(c, "request", "acquire")
  /\ Transition(my[c], {"none"}, "queued")
  /\ UNCHANGED <<claim, workspaceOwner, diskVars, my, verdict, executed, succeeded, rc, procVars>>

-----------------------------------------------------------------------------
(***************************************************************************)
(* acquireWorkspaceWriter and the loops around it.                         *)
(***************************************************************************)

Acquiring(c) == pc[c] \in {"acquire", "reacquire"} /\ rc[c].at = "off"

\* Mutant: the claim of a dead process is taken over without reconciliation.
AcquireFromDead(c) ==
  /\ Acquiring(c)
  /\ Goto(c, pc[c], "promote")
  /\ claim = Free \/ OwnerIsDead
  /\ claim' = [owner |-> c, req |-> my[c], status |-> "active"]
  /\ UNCHANGED <<request, workspaceOwner, diskVars, my, verdict, executed, succeeded, rc, procVars>>

Acquire(c) ==
  /\ Acquiring(c)
  /\ Goto(c, pc[c], "promote")
  /\ claim = Free
  /\ claim' = [owner |-> c, req |-> my[c], status |-> "active"]
  /\ UNCHANGED <<request, workspaceOwner, diskVars, my, verdict, executed, succeeded, rc, procVars>>

AcquireBlocked(c) ==
  /\ Acquiring(c)
  /\ Goto(c, pc[c], "barred")
  /\ claim.status = "recovery-required"
  /\ UNCHANGED <<slotVars, diskVars, my, verdict, executed, succeeded, rc, procVars>>

\* Phase A finds the claim of a dead process, phase B reconciles it unlocked.
AcquireReconciles(c) ==
  /\ Acquiring(c)
  /\ Goto(c, pc[c], pc[c])
  /\ claim.status = "active" /\ OwnerIsDead
  /\ rc' = [rc EXCEPT ![c] = [at |-> "check", owner |-> claim.owner, req |-> claim.req]]
  /\ UNCHANGED <<slotVars, diskVars, my, verdict, executed, succeeded, procVars>>

\* The time of one acquireWorkspaceWriter is over with the slot still taken:
\* a batch-publish answers 409, the others note that they wait.
AcquireTimeout(c) ==
  /\ Acquiring(c)
  /\ Goto(c, pc[c], IF Kind[c] = "batch-publish" THEN "ended" ELSE "await")
  /\ pc[c] = "reacquire" => IsPublish(c)
  /\ claim.status = "active"
  /\ UNCHANGED <<slotVars, diskVars, my, verdict, executed, succeeded, rc, procVars>>

\* A human-submit gives up at its deadline.
HumanDeadline(c) ==
  /\ Acquiring(c)
  /\ Kind[c] = "human-submit"
  /\ Goto(c, "reacquire", "ended")
  /\ claim.status = "active"
  /\ UNCHANGED <<slotVars, diskVars, my, verdict, executed, succeeded, rc, procVars>>

NoteWaiting(c) ==
  /\ Goto(c, "await", "reacquire")
  /\ Transition(my[c], Pending, "waiting-for-workspace")
  /\ UNCHANGED <<claim, workspaceOwner, diskVars, my, verdict, executed, succeeded, rc, procVars>>

NoteBlocked(c) ==
  /\ Goto(c, "barred", "ended")
  /\ Transition(my[c], Pending, "blocked-by-recovery")
  /\ UNCHANGED <<claim, workspaceOwner, diskVars, my, verdict, executed, succeeded, rc, procVars>>

\* Mutant: the request's status is not compared before it is set to running.
PromoteUnchecked(c) ==
  /\ Goto(c, "promote", "lease")
  /\ Transition(my[c], Status, "running")
  /\ workspaceOwner' = [workspaceOwner EXCEPT ![my[c]] = c]
  /\ UNCHANGED <<claim, diskVars, my, verdict, executed, succeeded, rc, procVars>>

\* The compare-and-set that decides who executes the request.
Promote(c) ==
  /\ Goto(c, "promote", "lease")
  /\ request[my[c]] \in Pending
  /\ Transition(my[c], Pending, "running")
  /\ workspaceOwner' = [workspaceOwner EXCEPT ![my[c]] = c]
  /\ UNCHANGED <<claim, diskVars, my, verdict, executed, succeeded, rc, procVars>>

PromoteConflict(c) ==
  /\ Goto(c, "promote", "giveback")
  /\ request[my[c]] \notin Pending
  /\ UNCHANGED <<slotVars, diskVars, my, verdict, executed, succeeded, rc, procVars>>

GiveBack(c) ==
  /\ Goto(c, "giveback", "ended")
  /\ ReleaseIf(claim.owner = c)
  /\ UNCHANGED <<request, workspaceOwner, diskVars, my, verdict, executed, succeeded, rc, procVars>>

-----------------------------------------------------------------------------
(***************************************************************************)
(* The mutation under the git-finalize lease, and its settlement.          *)
(***************************************************************************)

\* The lease is acquired and the tracked mutation begins; a publish saves its
\* record and the task's new status.
BeginWork(c) ==
  /\ Goto(c, "lease", "working")
  /\ executed' = executed \cup {c}
  /\ dirty' = dirty \cup {OpOf[c]}
  /\ IF IsPublish(c)
     THEN /\ record' = [record EXCEPT ![OpOf[c]] = [status |-> "open", req |-> my[c]]]
          /\ approved' = approved \cup {TaskOf[OpOf[c]]}
     ELSE UNCHANGED <<record, approved>>
  /\ UNCHANGED <<slotVars, my, verdict, succeeded, rc, procVars>>

\* The lease times out: a publish is inside its try block, a human-submit is
\* not and leaves the claim and the running request behind.
LeaseTimeout(c) ==
  /\ Goto(c, "lease", IF IsPublish(c) THEN "record" ELSE "ended")
  /\ verdict' = [verdict EXCEPT ![c] = IF IsPublish(c) THEN "failed" ELSE "none"]
  /\ UNCHANGED <<slotVars, diskVars, my, executed, succeeded, rc, procVars>>

WorkSucceeds(c) ==
  /\ Goto(c, "working", "record")
  /\ verdict' = [verdict EXCEPT ![c] = "completed"]
  /\ succeeded' = succeeded \cup {c}
  /\ dirty' = dirty \ {OpOf[c]}
  /\ UNCHANGED <<slotVars, record, approved, my, executed, rc, procVars>>

\* A publish may fail before its commit or after it (at the push); a
\* human-submit fails here only if the assessment finds it settled.
WorkFails(c) ==
  /\ Goto(c, "working", "record")
  /\ verdict' = [verdict EXCEPT ![c] = "failed"]
  /\ \/ dirty' = dirty \ {OpOf[c]}
     \/ IsPublish(c) /\ dirty' = dirty
  /\ UNCHANGED <<slotVars, record, approved, my, executed, succeeded, rc, procVars>>

\* assessExecutionSettlement does not find the human step settled.
WorkUnsettled(c) ==
  /\ ~IsPublish(c)
  /\ Goto(c, "working", "unsettle")
  /\ UNCHANGED <<slotVars, diskVars, my, verdict, executed, succeeded, rc, procVars>>

WriteRecord(c) ==
  /\ Goto(c, "record", "settle")
  /\ record' = [record EXCEPT ![OpOf[c]] = [status |-> verdict[c], req |-> my[c]]]
  /\ UNCHANGED <<slotVars, approved, dirty, my, verdict, executed, succeeded, rc, procVars>>

SettleRequest(c) ==
  /\ Goto(c, "settle", "release")
  /\ Transition(my[c], {"running"}, verdict[c])
  /\ UNCHANGED <<claim, workspaceOwner, diskVars, my, verdict, executed, succeeded, rc, procVars>>

ReleaseClaim(c) ==
  /\ Goto(c, "release", "ended")
  /\ ReleaseIf(claim.owner = c)
  /\ UNCHANGED <<request, workspaceOwner, diskVars, my, verdict, executed, succeeded, rc, procVars>>

UnsettleRequest(c) ==
  /\ Goto(c, "unsettle", "flag")
  /\ Transition(my[c], {"running"}, "reconciliation-required")
  /\ UNCHANGED <<claim, workspaceOwner, diskVars, my, verdict, executed, succeeded, rc, procVars>>

\* Mutant: an unsettled human step gives the slot back.
FlagClaimByRelease(c) ==
  /\ Goto(c, "flag", "recordUnsettled")
  /\ ReleaseIf(claim.owner = c)
  /\ UNCHANGED <<request, workspaceOwner, diskVars, my, verdict, executed, succeeded, rc, procVars>>

FlagClaim(c) ==
  /\ Goto(c, "flag", "recordUnsettled")
  /\ MarkIf(claim.owner = c)
  /\ UNCHANGED <<request, workspaceOwner, diskVars, my, verdict, executed, succeeded, rc, procVars>>

WriteUnsettled(c) ==
  /\ Goto(c, "recordUnsettled", "ended")
  /\ record' = [record EXCEPT ![OpOf[c]] =
                  [status |-> "reconciliation-required", req |-> my[c]]]
  /\ UNCHANGED <<slotVars, approved, dirty, my, verdict, executed, succeeded, rc, procVars>>

\* WORKSPACE_CONTROL_LOCK_TIMEOUT out of any locked section of the call: the
\* operation throws, except that a publish that is past its promotion goes
\* through catch (record and request failed) and finally (release), and that
\* a human-submit swallows what its release and its marking throw.
NeedsLock == {"idle", "request", "acquire", "reacquire", "await", "barred", "promote",
              "giveback", "settle", "release", "unsettle", "flag"}

ControlLockTimeout(c) ==
  /\ LockMayTimeOut
  /\ pc[c] \in NeedsLock
  /\ pc[c] = "idle" => ~IsPublish(c)
  /\ Goto(c, pc[c],
          CASE pc[c] = "settle" /\ IsPublish(c) ->
                 IF verdict[c] = "completed" THEN "record" ELSE "release"
            [] pc[c] = "flag" -> "recordUnsettled"
            [] OTHER -> "ended")
  /\ verdict' = [verdict EXCEPT ![c] = IF pc[c] = "settle" THEN "failed" ELSE @]
  /\ rc' = [rc EXCEPT ![c] = NotReconciling]
  /\ UNCHANGED <<slotVars, diskVars, my, executed, succeeded, procVars>>

-----------------------------------------------------------------------------
(***************************************************************************)
(* reconcileRequestBackedWorkspaceClaim, from a snapshot of a claim.       *)
(***************************************************************************)

\* Mutant: a clean worktree is taken for a completed operation.
AssessmentByWorktree(r) == IF OpOf[r] \notin dirty THEN "completed" ELSE "unsettled"

\* The registered checkers read the durable record of the operation.
Assessment(r) ==
  LET o == OpOf[r] IN
  IF record[o].status \in Terminal /\ (Kind[r] = "human-submit" => o \notin dirty)
  THEN record[o].status ELSE "unsettled"

RcGoto(a, from, to) ==
  /\ rc[a].at = from
  /\ rc' = [rc EXCEPT ![a] = IF to = "off" THEN NotReconciling ELSE [@ EXCEPT !.at = to]]

CheckOperation(a) ==
  /\ RcGoto(a, "check", Assessment(rc[a].req))
  /\ UNCHANGED <<slotVars, diskVars, callVars, procVars>>

\* Only who moves the request releases the claim.
ReconcileSettled(a) ==
  \E v \in Terminal :
    /\ RcGoto(a, v, IF request[rc[a].req] \in InFlight THEN "release" ELSE "off")
    /\ Transition(rc[a].req, InFlight, v)
    /\ UNCHANGED <<claim, workspaceOwner, diskVars, callVars, procVars>>

\* Mutant: the release trusts the snapshot and does not compare the claim.
ReconcileReleaseAny(a) ==
  /\ RcGoto(a, "release", "off")
  /\ ReleaseIf(TRUE)
  /\ UNCHANGED <<request, workspaceOwner, diskVars, callVars, procVars>>

ReconcileRelease(a) ==
  /\ RcGoto(a, "release", "off")
  /\ ReleaseIf(claim.owner = rc[a].owner /\ claim.req = rc[a].req)
  /\ UNCHANGED <<request, workspaceOwner, diskVars, callVars, procVars>>

\* Mutant: the request is moved, but the claim is not marked.
ReconcileUnsettledOnly(a) ==
  /\ RcGoto(a, "unsettled", "off")
  /\ Transition(rc[a].req, InFlight, "reconciliation-required")
  /\ UNCHANGED <<claim, workspaceOwner, diskVars, callVars, procVars>>

ReconcileUnsettled(a) ==
  /\ RcGoto(a, "unsettled", "mark")
  /\ Transition(rc[a].req, InFlight, "reconciliation-required")
  /\ UNCHANGED <<claim, workspaceOwner, diskVars, callVars, procVars>>

ReconcileMark(a) ==
  /\ RcGoto(a, "mark", "off")
  /\ MarkIf(claim.owner = rc[a].owner /\ claim.req = rc[a].req)
  /\ UNCHANGED <<request, workspaceOwner, diskVars, callVars, procVars>>

Reconcile(a) ==
  \/ CheckOperation(a)
  \/ ReconcileSettled(a)
  \/ ReconcileRelease(a)
  \/ ReconcileUnsettled(a)
  \/ ReconcileMark(a)

-----------------------------------------------------------------------------
(***************************************************************************)
(* reconcileBootState: once per incarnation of the dashboard, on its first *)
(* AI request, while other processes and the dashboard's own specification *)
(* routes go on. It does not ask whether the claim's process is alive.     *)
(***************************************************************************)

BootTakesSnapshot ==
  /\ Boot \in Others
  /\ boot.at = "off"
  /\ boot' = [boot EXCEPT !.at = IF claim.owner = Agent THEN "agent" ELSE "claim",
                          !.snap = claim.req]
  /\ rc' = [rc EXCEPT ![Boot] =
              IF claim.owner \in Call
              THEN [at |-> "check", owner |-> claim.owner, req |-> claim.req]
              ELSE NotReconciling]
  /\ UNCHANGED <<slotVars, diskVars, callVars, agent, gone, crashes>>

\* An agent's claim is released, marked or left, as its settlement says.
BootSettlesAgent ==
  /\ boot.at = "agent"
  /\ boot' = [boot EXCEPT !.at = "claim"]
  /\ ReleaseIf(claim.owner = Agent) \/ MarkIf(claim.owner = Agent) \/ claim' = claim
  /\ UNCHANGED <<request, workspaceOwner, diskVars, callVars, rc, agent, gone, crashes>>

BootListsRequests ==
  /\ boot.at = "claim"
  /\ rc[Boot].at = "off"
  /\ boot' = [boot EXCEPT !.at = "scan",
                !.todo = {[req |-> r, owner |-> workspaceOwner[r]] :
                            r \in {r \in Call \ {boot.snap} : request[r] \in InFlight}}]
  /\ UNCHANGED <<slotVars, diskVars, callVars, rc, agent, gone, crashes>>

\* In the order of requestSequence; here in any order.
BootReconcilesRequest ==
  /\ boot.at = "scan"
  /\ rc[Boot].at = "off"
  /\ \E t \in boot.todo :
       /\ boot' = [boot EXCEPT !.todo = @ \ {t}]
       /\ rc' = [rc EXCEPT ![Boot] = [at |-> "check", owner |-> t.owner, req |-> t.req]]
  /\ UNCHANGED <<slotVars, diskVars, callVars, agent, gone, crashes>>

\* The list is done, or a control-lock timeout is caught and logged.
BootEnds ==
  /\ \/ boot.at = "scan" /\ boot.todo = {} /\ rc[Boot].at = "off"
     \/ LockMayTimeOut /\ rc[Boot].at \in Terminal \cup {"release", "unsettled", "mark"}
  /\ boot' = [boot EXCEPT !.at = "done", !.todo = {}]
  /\ rc' = [rc EXCEPT ![Boot] = NotReconciling]
  /\ UNCHANGED <<slotVars, diskVars, callVars, agent, gone, crashes>>

-----------------------------------------------------------------------------
(***************************************************************************)
(* An agent execution: admission defers to pending requests, then acquires *)
(* the slot, and settlement releases or marks it.                          *)
(***************************************************************************)

\* Mutant: admission does not look at the pending requests.
AgentAdmitsAtOnce ==
  /\ Agent \in Others
  /\ agent = "idle"
  /\ agent' = "admitting"
  /\ UNCHANGED <<slotVars, diskVars, callVars, rc, boot, gone, crashes>>

AgentAdmits ==
  /\ Agent \in Others
  /\ agent = "idle"
  /\ \A r \in Call : request[r] \notin Pending
  /\ agent' = "admitting"
  /\ UNCHANGED <<slotVars, diskVars, callVars, rc, boot, gone, crashes>>

AgentAcquires ==
  /\ agent = "admitting"
  /\ rc[Agent].at = "off"
  /\ claim = Free
  /\ claim' = [owner |-> Agent, req |-> NoOne, status |-> "active"]
  /\ agent' = "holding"
  /\ UNCHANGED <<request, workspaceOwner, diskVars, callVars, rc, boot, gone, crashes>>

AgentReconciles ==
  /\ agent = "admitting"
  /\ rc[Agent].at = "off"
  /\ claim.status = "active" /\ OwnerIsDead
  /\ rc' = [rc EXCEPT ![Agent] = [at |-> "check", owner |-> claim.owner, req |-> claim.req]]
  /\ UNCHANGED <<slotVars, diskVars, callVars, procVars>>

AgentGivesUp ==
  /\ agent = "admitting"
  /\ rc[Agent].at = "off"
  /\ claim # Free
  /\ agent' = "idle"
  /\ UNCHANGED <<slotVars, diskVars, callVars, rc, boot, gone, crashes>>

AgentSettles ==
  /\ agent = "holding"
  /\ agent' = "idle"
  /\ ReleaseIf(claim.owner = Agent) \/ MarkIf(claim.owner = Agent)
  /\ UNCHANGED <<request, workspaceOwner, diskVars, callVars, rc, boot, gone, crashes>>

-----------------------------------------------------------------------------
(***************************************************************************)
(* Processes end. A command-line process exits when its call is over.      *)
(***************************************************************************)

Kill(dead) ==
  /\ gone' = gone \cup dead
  /\ pc' = [c \in Call |-> IF c \in dead THEN "ended" ELSE pc[c]]

Exit(c) ==
  /\ c \notin DashboardCall \cup gone
  /\ pc[c] = "ended"
  /\ Kill({c})
  /\ UNCHANGED <<slotVars, diskVars, my, verdict, executed, succeeded, rc, boot, agent, crashes>>

CrashCall(c) ==
  /\ crashes < MaxCrash
  /\ c \notin DashboardCall
  /\ pc[c] \notin {"idle", "ended"}
  /\ Kill({c})
  /\ rc' = [rc EXCEPT ![c] = NotReconciling]
  /\ crashes' = crashes + 1
  /\ UNCHANGED <<slotVars, diskVars, my, verdict, executed, succeeded, boot, agent>>

\* The dashboard dies and is started again.
CrashDashboard ==
  LET dead == {c \in DashboardCall : pc[c] # "idle"} IN
  /\ crashes < MaxCrash
  /\ Kill(dead)
  /\ rc' = [a \in Actor |-> IF a \in dead \cup {Boot, Agent} THEN NotReconciling ELSE rc[a]]
  /\ boot' = NotBooted
  /\ agent' = "idle"
  /\ crashes' = crashes + 1
  /\ UNCHANGED <<slotVars, diskVars, my, verdict, executed, succeeded>>

-----------------------------------------------------------------------------

Submit(c) ==
  \/ SubmitNew(c)
  \/ SubmitAgain(c)
  \/ PublishReuses(c)
  \/ PublishLooks(c)
  \/ BatchLooks(c)
  \/ PublishRefused(c)

\* What a call does once it is submitted.
CallStep(c) ==
  \/ PublishSaves(c)
  \/ CreateRequest(c)
  \/ Acquire(c)
  \/ AcquireBlocked(c)
  \/ AcquireReconciles(c)
  \/ AcquireTimeout(c)
  \/ HumanDeadline(c)
  \/ NoteWaiting(c)
  \/ NoteBlocked(c)
  \/ Promote(c)
  \/ PromoteConflict(c)
  \/ GiveBack(c)
  \/ BeginWork(c)
  \/ LeaseTimeout(c)
  \/ WorkSucceeds(c)
  \/ WorkFails(c)
  \/ WorkUnsettled(c)
  \/ WriteRecord(c)
  \/ SettleRequest(c)
  \/ ReleaseClaim(c)
  \/ UnsettleRequest(c)
  \/ FlagClaim(c)
  \/ WriteUnsettled(c)

BootStep ==
  \/ BootTakesSnapshot
  \/ BootSettlesAgent
  \/ BootListsRequests
  \/ BootReconcilesRequest
  \/ BootEnds

AgentStep ==
  \/ AgentAdmits
  \/ AgentAcquires
  \/ AgentReconciles
  \/ AgentGivesUp
  \/ AgentSettles

Next ==
  \/ \E c \in Call : Submit(c) \/ CallStep(c) \/ ControlLockTimeout(c)
                       \/ Exit(c) \/ CrashCall(c)
  \/ \E a \in Actor : Reconcile(a)
  \/ BootStep
  \/ AgentStep
  \/ CrashDashboard

(***************************************************************************)
(* Processes that run go on: a call, a reconciliation and the settlement   *)
(* of an agent make progress, and every acquisition begins with a phase A, *)
(* so a dead claim cannot be passed over by time-outs for ever. Nobody     *)
(* need submit, boot or crash, and no agent need be admitted.              *)
(***************************************************************************)
Fairness ==
  /\ \A c \in Call : WF_vars(CallStep(c)) /\ SF_vars(AcquireReconciles(c)) /\ WF_vars(Exit(c))
  /\ \A a \in Actor : WF_vars(Reconcile(a))
  /\ WF_vars(AgentSettles)

Spec == Init /\ [][Next]_vars
FairSpec == Spec /\ Fairness

-----------------------------------------------------------------------------

TypeOK ==
  /\ claim \in [owner : Call \cup {Agent, NoOne}, req : Call \cup {NoOne},
                status : {"none", "active", "recovery-required"}]
  /\ request \in [Call -> Status]
  /\ workspaceOwner \in [Call -> Call \cup {NoOne}]
  /\ record \in [Op -> [status : {"none", "open", "reconciliation-required"} \cup Terminal,
                      req : Call \cup {NoOne}]]
  /\ approved \subseteq Task
  /\ dirty \subseteq Op
  /\ pc \in [Call -> PC]
  /\ my \in [Call -> Call \cup {NoOne}]
  /\ verdict \in [Call -> {"none"} \cup Terminal]
  /\ executed \subseteq Call
  /\ succeeded \subseteq Call
  /\ rc \in [Actor -> [at : {"off", "check", "release", "unsettled", "mark"} \cup Terminal,
                     owner : Call \cup {NoOne}, req : Call \cup {NoOne}]]
  /\ boot \in [at : {"off", "agent", "claim", "scan", "done"}, snap : Call \cup {NoOne},
               todo : SUBSET [req : Call, owner : Call \cup {NoOne}]]
  /\ agent \in {"idle", "admitting", "holding"}
  /\ gone \subseteq Call
  /\ crashes \in 0 .. MaxCrash

\* No request is executed twice, by whatever calls: not by a publish retried
\* after a crash or a failure, which reuses the request of its record, and not
\* because somebody reconciled the request in between.
AtMostOnce == \A c, d \in executed : my[c] = my[d] => c = d

\* A tracked mutation is in progress only while its call owns the slot, so no
\* two operations ever change the worktree together.
WorkUnderClaim == \A c \in Call : pc[c] = "working" => claim.owner = c

\* The uncommitted changes of a human step are never left behind a free slot:
\* the slot is held, or flagged, until they are settled.
HeldUntilSettled ==
  \A c \in executed : ~IsPublish(c) /\ OpOf[c] \in dirty => claim # Free

\* When a request is reported completed, the operation of its record was
\* executed and went through.
CompletedWasExecuted ==
  \A r \in Call : request[r] = "completed" => \E c \in succeeded : OpOf[c] = OpOf[r]

\* The slot with its requests implements WorkspaceSlot.
Slot == INSTANCE WorkspaceSlot WITH
  Request <- Call,
  Writer <- Call \cup {Agent},
  holder <- claim.owner,
  serving <- claim.req,
  flagged <- claim.status = "recovery-required",
  status <- request,
  executed <- {my[c] : c \in executed}

SlotPromise == Slot!Spec

\* A human-submit of the dashboard whose lease timed out has ended with the slot
\* its own and its request running; its process lives on, so that nobody finds
\* the claim dead: the slot is taken until the dashboard ends.
Stranded(c) ==
  /\ c \in DashboardCall \ gone /\ ~IsPublish(c) /\ pc[c] = "ended"
  /\ claim = [owner |-> c, req |-> my[c], status |-> "active"]
  /\ request[my[c]] = "running"

\* While no process dies, a publication that waits for the slot is served in the
\* end (promoted, barred or settled by somebody else): the agents defer to it,
\* and whoever holds the slot gives it back, but for a human step submitted in
\* the dashboard that was left with the slot when its lease timed out.
PublisherServed ==
  \A c, r \in Call :
    (IsPublish(c) /\ pc[c] = "reacquire" /\ my[c] = r /\ request[r] \in Pending)
      ~> (request[r] \notin Pending \/ crashes > 0 \/ \E d \in Call : Stranded(d))

\* The claim of a process that died with its request in flight does not stay as
\* it is while somebody wants the slot: it is released or flagged.
DeadInFlightResolved ==
  \A c, d, r \in Call :
    (claim.owner = c /\ claim.req = r /\ c \in gone /\ request[r] \in InFlight
       /\ pc[d] = "reacquire")
      ~> (claim.owner # c \/ claim.status = "recovery-required" \/ pc[d] = "ended")
=============================================================================
