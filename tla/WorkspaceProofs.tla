-------------------------- MODULE WorkspaceProofs --------------------------
(***************************************************************************)
(* Proofs about FileLock, for any calls and processes: exclusion is lost   *)
(* only through a reclaim that unlinks the file of a running process. And  *)
(* about RequestFlow, for any calls, operations and tasks, any number of   *)
(* crashes, and with or without time-outs of the control lock:             *)
(*                                                                         *)
(*   - TypeCorrect: the type invariant;                                    *)
(*   - ExecutedAtMostOnce: no request is executed twice;                   *)
(*   - CompletedIsExecuted: what is reported completed was executed;       *)
(*   - ChangesAreHeld: a human step's changes are not left behind a free   *)
(*     slot;                                                               *)
(*   - WorkNeedsClaim: a mutation is in progress only under its claim;     *)
(*   - SlotIsKept: RequestFlow implements WorkspaceSlot.                   *)
(* The last two have a hypothesis on who takes part.                       *)
(***************************************************************************)
EXTENDS RequestFlow, FileLock, TLAPS

-----------------------------------------------------------------------------
(***************************************************************************)
(* The lock file.                                                          *)
(***************************************************************************)

\* The contexts that created the file and have not let go of it.
Owning(c) == lockPc[c] \in {"created", "held", "checked"}

\* A context is dead exactly when its process is.
DeadWithProcess == \A c \in Context : lockPc[c] = "dead" <=> PidOf[c] \notin alive

\* As long as no running process lost its file to a reclaim, a context that
\* believes it owns the file does own the one at the path.
OwnersOwn == ~misreclaimed => \A c \in Context : Owning(c) => lockFile = c

LockInv == LockTypeOK /\ DeadWithProcess /\ OwnersOwn

LEMMA LockInitInv == LockInit => LockInv
BY ContextAssumption
   DEF LockInit, LockInv, LockTypeOK, DeadWithProcess, OwnersOwn, Owning, LockPC

\* A move of one context leaves the places of the others alone, and only a
\* context of a running process moves.
LEMMA GotoFacts ==
  ASSUME LockTypeOK, NEW c \in Context, NEW from, NEW to \in LockPC, LockGoto(c, from, to)
  PROVE  /\ lockPc' \in [Context -> LockPC]
         /\ lockPc[c] = from
         /\ lockPc'[c] = to
         /\ \A d \in Context \ {c} : lockPc'[d] = lockPc[d]
         /\ PidOf[c] \in alive
BY DEF LockGoto, MayRun, LockTypeOK, LockPC

\* The invariant survives a move that touches neither the file nor the
\* history, unless the move makes its context an owner.
LEMMA QuietMove ==
  ASSUME LockInv, NEW c \in Context, NEW from, NEW to \in LockPC \ {"dead"},
         LockGoto(c, from, to), from # "dead",
         to \in {"created", "held", "checked"} =>
           from \in {"created", "held", "checked"},
         written' \in [Context -> BOOLEAN],
         UNCHANGED <<lockFile, alive, misreclaimed>>
  PROVE  LockInv'
<1>1. LockTypeOK /\ DeadWithProcess /\ OwnersOwn
  BY DEF LockInv
<1>2. /\ lockPc' \in [Context -> LockPC]
      /\ lockPc[c] = from
      /\ lockPc'[c] = to
      /\ \A d \in Context \ {c} : lockPc'[d] = lockPc[d]
      /\ PidOf[c] \in alive
  BY <1>1, GotoFacts
<1>3. LockTypeOK'
  BY <1>1, <1>2 DEF LockTypeOK
<1>4. DeadWithProcess'
  BY <1>1, <1>2 DEF DeadWithProcess
<1>5. OwnersOwn'
  BY <1>1, <1>2 DEF OwnersOwn, Owning
<1> QED
  BY <1>3, <1>4, <1>5 DEF LockInv

LEMMA LockNextInv == LockInv /\ [LockNext]_lockVars => LockInv'
<1> SUFFICES ASSUME LockInv, [LockNext]_lockVars
             PROVE  LockInv'
  OBVIOUS
<1>0. LockTypeOK /\ DeadWithProcess /\ OwnersOwn
  BY DEF LockInv
<1>1. CASE UNCHANGED lockVars
  BY <1>1, <1>0
     DEF lockVars, LockInv, LockTypeOK, DeadWithProcess, OwnersOwn, Owning
<1>2. ASSUME NEW c \in Context, Start(c)
      PROVE  LockInv'
  BY <1>2, <1>0, QuietMove DEF Start, LockTypeOK, LockPC
<1>3. ASSUME NEW c \in Context, Create(c)
      PROVE  LockInv'
  <2>1. PICK from \in {"try", "retry"} : LockGoto(c, from, "created")
    BY <1>3 DEF Create
  <2>2. /\ lockPc' \in [Context -> LockPC]
        /\ lockPc[c] = from
        /\ lockPc'[c] = "created"
        /\ \A d \in Context \ {c} : lockPc'[d] = lockPc[d]
        /\ PidOf[c] \in alive
    BY <1>0, <2>1, GotoFacts DEF LockPC
  <2>3. LockTypeOK'
    BY <1>0, <1>3, <2>2 DEF LockTypeOK, Create
  <2>4. DeadWithProcess'
    BY <1>0, <1>3, <2>2 DEF DeadWithProcess, Create
  <2>5. OwnersOwn'
    \* the path was free, so nobody else believed to own it
    BY <1>0, <1>3, <2>2, ContextAssumption DEF OwnersOwn, Owning, Create
  <2> QED
    BY <2>3, <2>4, <2>5 DEF LockInv
<1>4. ASSUME NEW c \in Context, CreateExists(c)
      PROVE  LockInv'
  <2>1. PICK from \in {"try", "retry"} : LockGoto(c, from, "read")
    BY <1>4 DEF CreateExists
  <2> QED
    BY <1>4, <2>1, <1>0, QuietMove DEF CreateExists, LockTypeOK, LockPC
<1>5. ASSUME NEW c \in Context, WriteContent(c)
      PROVE  LockInv'
  BY <1>5, <1>0, QuietMove DEF WriteContent, LockTypeOK, LockPC
<1>6. ASSUME NEW c \in Context, JudgeStale(c)
      PROVE  LockInv'
  BY <1>6, <1>0, QuietMove DEF JudgeStale, LockTypeOK, LockPC
<1>7. ASSUME NEW c \in Context, JudgeLive(c)
      PROVE  LockInv'
  BY <1>7, <1>0, QuietMove DEF JudgeLive, LockTypeOK, LockPC
<1>8. ASSUME NEW c \in Context, Reclaim(c)
      PROVE  LockInv'
  <2>1. /\ lockPc' \in [Context -> LockPC]
        /\ lockPc[c] = "reclaim"
        /\ lockPc'[c] = "retry"
        /\ \A d \in Context \ {c} : lockPc'[d] = lockPc[d]
        /\ PidOf[c] \in alive
    BY <1>0, <1>8, GotoFacts DEF LockPC, Reclaim
  <2>2. LockTypeOK'
    BY <1>0, <1>8, <2>1 DEF LockTypeOK, Reclaim, HolderAlive
  <2>3. DeadWithProcess'
    BY <1>0, <1>8, <2>1 DEF DeadWithProcess, Reclaim
  <2>4. OwnersOwn'
    <3> SUFFICES ASSUME ~misreclaimed', NEW d \in Context, Owning(d)'
                 PROVE  FALSE
      BY DEF OwnersOwn
    <3>1. d # c /\ Owning(d)
      BY <2>1 DEF Owning
    <3>2. lockFile = d /\ PidOf[d] \notin alive
      BY <3>1, <1>0, <1>8, ContextAssumption
         DEF OwnersOwn, Reclaim, HolderAlive
    <3> QED
      BY <3>1, <3>2, <1>0 DEF DeadWithProcess, Owning
  <2> QED
    BY <2>2, <2>3, <2>4 DEF LockInv
<1>9. ASSUME NEW c \in Context, Wake(c)
      PROVE  LockInv'
  BY <1>9, <1>0, QuietMove DEF Wake, LockTypeOK, LockPC
<1>10. ASSUME NEW c \in Context, Timeout(c)
       PROVE  LockInv'
  <2>1. PICK from \in {"sleep", "retry"} : LockGoto(c, from, "idle")
    BY <1>10 DEF Timeout
  <2> QED
    BY <1>10, <2>1, <1>0, QuietMove DEF Timeout, LockTypeOK, LockPC
<1>11. ASSUME NEW c \in Context, FinallyOwned(c)
       PROVE  LockInv'
  BY <1>11, <1>0, QuietMove DEF FinallyOwned, LockTypeOK, LockPC
<1>12. ASSUME NEW c \in Context, FinallyNotOwned(c)
       PROVE  LockInv'
  BY <1>12, <1>0, QuietMove DEF FinallyNotOwned, LockTypeOK, LockPC
<1>13. ASSUME NEW c \in Context, ReleaseUnlink(c)
       PROVE  LockInv'
  <2>1. /\ lockPc' \in [Context -> LockPC]
        /\ lockPc[c] = "checked"
        /\ lockPc'[c] = "idle"
        /\ \A d \in Context \ {c} : lockPc'[d] = lockPc[d]
        /\ PidOf[c] \in alive
    BY <1>0, <1>13, GotoFacts DEF LockPC, ReleaseUnlink
  <2>2. LockTypeOK'
    BY <1>0, <1>13, <2>1 DEF LockTypeOK, ReleaseUnlink
  <2>3. DeadWithProcess'
    BY <1>0, <1>13, <2>1 DEF DeadWithProcess, ReleaseUnlink
  <2>4. OwnersOwn'
    BY <1>0, <1>13, <2>1 DEF OwnersOwn, Owning, ReleaseUnlink
  <2> QED
    BY <2>2, <2>3, <2>4 DEF LockInv
<1>14. ASSUME NEW p \in Pid, Crash(p)
       PROVE  LockInv'
  <2>1. LockTypeOK'
    BY <1>0, <1>14 DEF LockTypeOK, Crash, LockPC
  <2>2. DeadWithProcess'
    BY <1>0, <1>14 DEF DeadWithProcess, Crash, LockTypeOK
  <2>3. OwnersOwn'
    BY <1>0, <1>14 DEF OwnersOwn, Owning, Crash, LockTypeOK
  <2> QED
    BY <2>1, <2>2, <2>3 DEF LockInv
<1> QED
  BY <1>1, <1>2, <1>3, <1>4, <1>5, <1>6, <1>7, <1>8, <1>9, <1>10, <1>11,
     <1>12, <1>13, <1>14 DEF LockNext, Step

\* The variables keep their types: every place of the protocol is one of the
\* listed ones and the file at the path is nobody's or some call's.
THEOREM LockTypeCorrect == LockSpec => []LockTypeOK
<1>1. LockInv => LockTypeOK
  BY DEF LockInv
<1> QED
  BY <1>1, LockInitInv, LockNextInv, PTL DEF LockSpec

\* For any number of calls and processes, crashing anywhere, two calls hold
\* the lock at once only after a reclaim removed the file of a running
\* process (withWorkspaceControlLock, lines 87-98 of workspace-writer.mjs).
THEOREM ExclusionUnlessRaced == LockSpec => []ExclusionUnlessMisreclaimed
<1>1. LockInv => ExclusionUnlessMisreclaimed
  BY DEF LockInv, OwnersOwn, Owning, ExclusionUnlessMisreclaimed, Exclusion,
         Holding
<1> QED
  BY <1>1, LockInitInv, LockNextInv, PTL DEF LockSpec

-----------------------------------------------------------------------------
(***************************************************************************)
(* Type correctness.                                                       *)
(***************************************************************************)

USE DEF slotVars, diskVars, callVars, procVars, Goto, RcGoto, Transition, ReleaseIf, MarkIf,
        Free, NotReconciling, NotBooted, Pending, InFlight, Terminal, Status, PC, Actor

RcState == [at : {"off", "check", "release", "unsettled", "mark"} \cup Terminal,
            owner : Call \cup {NoOne}, req : Call \cup {NoOne}]

RecordState == [status : {"none", "open", "reconciliation-required"} \cup Terminal,
                req : Call \cup {NoOne}]

LEMMA InitTypeOK == Init => TypeOK
  BY RequestFlowAssumption DEF Init, TypeOK

LEMMA SubmitTypeOK ==
  ASSUME TypeOK, NEW c \in Call, Submit(c)
  PROVE  TypeOK'
  <1>1. CASE SubmitNew(c)
    BY <1>1, RequestFlowAssumption DEF SubmitNew, TypeOK
  <1>2. CASE SubmitAgain(c)
    BY <1>2 DEF SubmitAgain, TypeOK
  <1>3. CASE PublishReuses(c)
    BY <1>3, RequestFlowAssumption DEF PublishReuses, TypeOK
  <1>4. CASE PublishLooks(c)
    BY <1>4 DEF PublishLooks, TypeOK
  <1>5. CASE BatchLooks(c)
    BY <1>5 DEF BatchLooks, TypeOK
  <1>6. CASE PublishRefused(c)
    BY <1>6 DEF PublishRefused, TypeOK
  <1> QED BY <1>1, <1>2, <1>3, <1>4, <1>5, <1>6 DEF Submit

LEMMA CallStepTypeOK ==
  ASSUME TypeOK, NEW c \in Call, CallStep(c)
  PROVE  TypeOK'
  <1>1. CASE PublishSaves(c)
    BY <1>1, RequestFlowAssumption DEF PublishSaves, TypeOK
  <1>2. CASE CreateRequest(c)
    BY <1>2 DEF CreateRequest, TypeOK
  <1>3. CASE Acquire(c)
    BY <1>3 DEF Acquire, TypeOK
  <1>4. CASE AcquireBlocked(c)
    BY <1>4 DEF AcquireBlocked, TypeOK
  <1>5. CASE AcquireReconciles(c)
    BY <1>5 DEF AcquireReconciles, Acquiring, OwnerIsDead, TypeOK
  <1>6. CASE AcquireTimeout(c)
    BY <1>6 DEF AcquireTimeout, TypeOK
  <1>7. CASE HumanDeadline(c)
    BY <1>7 DEF HumanDeadline, TypeOK
  <1>8. CASE NoteWaiting(c)
    BY <1>8 DEF NoteWaiting, TypeOK
  <1>9. CASE NoteBlocked(c)
    BY <1>9 DEF NoteBlocked, TypeOK
  <1>10. CASE Promote(c)
    BY <1>10 DEF Promote, TypeOK
  <1>11. CASE PromoteConflict(c)
    BY <1>11 DEF PromoteConflict, TypeOK
  <1>12. CASE GiveBack(c)
    BY <1>12 DEF GiveBack, TypeOK
  <1>13. CASE BeginWork(c)
    <2>1. TaskOf[OpOf[c]] \in Task /\ OpOf[c] \in Op
      BY RequestFlowAssumption
    <2>2. record' \in [Op -> RecordState] /\ approved' \subseteq Task
      BY <1>13, <2>1 DEF BeginWork, TypeOK, RecordState
    <2> QED BY <1>13, <2>1, <2>2 DEF BeginWork, TypeOK, RecordState
  <1>14. CASE LeaseTimeout(c)
    BY <1>14 DEF LeaseTimeout, TypeOK
  <1>15. CASE WorkSucceeds(c)
    BY <1>15 DEF WorkSucceeds, TypeOK
  <1>16. CASE WorkFails(c)
    BY <1>16 DEF WorkFails, TypeOK
  <1>17. CASE WorkUnsettled(c)
    BY <1>17 DEF WorkUnsettled, TypeOK
  <1>18. CASE WriteRecord(c)
    BY <1>18, RequestFlowAssumption DEF WriteRecord, TypeOK
  <1>19. CASE SettleRequest(c)
    BY <1>19 DEF SettleRequest, TypeOK
  <1>20. CASE ReleaseClaim(c)
    BY <1>20 DEF ReleaseClaim, TypeOK
  <1>21. CASE UnsettleRequest(c)
    BY <1>21 DEF UnsettleRequest, TypeOK
  <1>22. CASE FlagClaim(c)
    BY <1>22 DEF FlagClaim, TypeOK
  <1>23. CASE WriteUnsettled(c)
    BY <1>23, RequestFlowAssumption DEF WriteUnsettled, TypeOK
  <1> QED BY <1>1, <1>2, <1>3, <1>4, <1>5, <1>6, <1>7, <1>8, <1>9, <1>10, <1>11, <1>12, <1>13,
             <1>14, <1>15, <1>16, <1>17, <1>18, <1>19, <1>20, <1>21, <1>22, <1>23 DEF CallStep

LEMMA ReconcileTypeOK ==
  ASSUME TypeOK, NEW a \in Actor, Reconcile(a)
  PROVE  TypeOK'
  <1>1. CASE CheckOperation(a)
    <2> DEFINE found == Assessment(rc[a].req)
    <2>1. found \in Terminal \cup {"unsettled"}
      BY DEF Assessment
    <2> HIDE DEF found
    <2>2. rc' = [rc EXCEPT ![a] = IF found = "off" THEN NotReconciling ELSE [@ EXCEPT !.at = found]]
      BY <1>1 DEF CheckOperation, found
    <2>3. rc'[a] \in [at : {"off", "check", "release", "unsettled", "mark"} \cup Terminal,
                     owner : Call \cup {NoOne}, req : Call \cup {NoOne}]
      BY <2>1, <2>2 DEF TypeOK
    <2> QED BY <1>1, <2>2, <2>3 DEF CheckOperation, TypeOK
  <1>2. CASE ReconcileSettled(a)
    <2>1. PICK v \in Terminal :
            /\ RcGoto(a, v, IF request[rc[a].req] \in InFlight THEN "release" ELSE "off")
            /\ Transition(rc[a].req, InFlight, v)
            /\ UNCHANGED <<claim, workspaceOwner, diskVars, callVars, procVars>>
      BY <1>2 DEF ReconcileSettled
    <2>2. request' \in [Call -> Status]
      BY <2>1 DEF TypeOK
    <2>3. rc' \in [Actor -> RcState]
      BY <2>1 DEF TypeOK, RcState
    <2> QED BY <2>1, <2>2, <2>3 DEF TypeOK, RcState
  <1>3. CASE ReconcileRelease(a)
    BY <1>3 DEF ReconcileRelease, TypeOK
  <1>4. CASE ReconcileUnsettled(a)
    <2>1. request' \in [Call -> Status]
      BY <1>4 DEF ReconcileUnsettled, TypeOK
    <2>2. rc' \in [Actor -> RcState]
      BY <1>4 DEF ReconcileUnsettled, TypeOK, RcState
    <2> QED BY <1>4, <2>1, <2>2 DEF ReconcileUnsettled, TypeOK, RcState
  <1>5. CASE ReconcileMark(a)
    BY <1>5 DEF ReconcileMark, TypeOK
  <1> QED BY <1>1, <1>2, <1>3, <1>4, <1>5 DEF Reconcile

LEMMA BootTypeOK == ASSUME TypeOK, BootStep PROVE TypeOK'
  <1>1. CASE BootTakesSnapshot
    BY <1>1, RequestFlowAssumption DEF BootTakesSnapshot, TypeOK
  <1>2. CASE BootSettlesAgent
    BY <1>2 DEF BootSettlesAgent, TypeOK
  <1>3. CASE BootListsRequests
    <2> DEFINE listed == {r \in Call \ {boot.snap} : request[r] \in InFlight}
               todo == {[req |-> r, owner |-> workspaceOwner[r]] : r \in listed}
    <2>1. todo \subseteq [req : Call, owner : Call \cup {NoOne}]
      BY DEF TypeOK
    <2>2. boot' = [boot EXCEPT !.at = "scan", !.todo = todo]
      BY <1>3 DEF BootListsRequests
    <2> HIDE DEF todo
    <2>3. boot' \in [at : {"off", "agent", "claim", "scan", "done"}, snap : Call \cup {NoOne},
                     todo : SUBSET [req : Call, owner : Call \cup {NoOne}]]
      BY <2>1, <2>2 DEF TypeOK
    <2> QED BY <1>3, <2>3 DEF BootListsRequests, TypeOK
  <1>4. CASE BootReconcilesRequest
    BY <1>4 DEF BootReconcilesRequest, TypeOK
  <1>5. CASE BootEnds
    BY <1>5 DEF BootEnds, TypeOK
  <1> QED BY <1>1, <1>2, <1>3, <1>4, <1>5 DEF BootStep

LEMMA AgentTypeOK == ASSUME TypeOK, AgentStep PROVE TypeOK'
  <1>1. CASE AgentAdmits
    BY <1>1 DEF AgentAdmits, TypeOK
  <1>2. CASE AgentAcquires
    BY <1>2 DEF AgentAcquires, TypeOK
  <1>3. CASE AgentReconciles
    BY <1>3 DEF AgentReconciles, OwnerIsDead, TypeOK
  <1>4. CASE AgentGivesUp
    BY <1>4 DEF AgentGivesUp, TypeOK
  <1>5. CASE AgentSettles
    BY <1>5 DEF AgentSettles, TypeOK
  <1> QED BY <1>1, <1>2, <1>3, <1>4, <1>5 DEF AgentStep

LEMMA EndTypeOK ==
  ASSUME TypeOK, NEW c \in Call, ControlLockTimeout(c) \/ Exit(c) \/ CrashCall(c)
  PROVE  TypeOK'
  <1>1. CASE ControlLockTimeout(c)
    BY <1>1 DEF ControlLockTimeout, TypeOK
  <1>2. CASE Exit(c)
    BY <1>2 DEF Exit, Kill, TypeOK
  <1>3. CASE CrashCall(c)
    BY <1>3, RequestFlowAssumption DEF CrashCall, Kill, TypeOK
  <1> QED BY <1>1, <1>2, <1>3

LEMMA CrashDashboardTypeOK == ASSUME TypeOK, CrashDashboard PROVE TypeOK'
  BY RequestFlowAssumption DEF CrashDashboard, Kill, TypeOK

LEMMA NextTypeOK == TypeOK /\ [Next]_vars => TypeOK'
  <1> SUFFICES ASSUME TypeOK, [Next]_vars PROVE TypeOK'
    OBVIOUS
  <1>1. CASE UNCHANGED vars
    BY <1>1 DEF vars, TypeOK
  <1>2. ASSUME NEW c \in Call, Submit(c) PROVE TypeOK'
    BY <1>2, SubmitTypeOK
  <1>3. ASSUME NEW c \in Call, CallStep(c) PROVE TypeOK'
    BY <1>3, CallStepTypeOK
  <1>4. ASSUME NEW c \in Call, ControlLockTimeout(c) \/ Exit(c) \/ CrashCall(c) PROVE TypeOK'
    BY <1>4, EndTypeOK
  <1>5. ASSUME NEW a \in Actor, Reconcile(a) PROVE TypeOK'
    BY <1>5, ReconcileTypeOK
  <1>6. CASE CrashDashboard
    BY <1>6, CrashDashboardTypeOK
  <1> QED BY <1>1, <1>2, <1>3, <1>4, <1>5, <1>6, BootTypeOK, AgentTypeOK DEF Next

\* Every variable of RequestFlow keeps its type, for any calls and crashes.
THEOREM TypeCorrect == Spec => []TypeOK
  BY InitTypeOK, NextTypeOK, PTL DEF Spec

-----------------------------------------------------------------------------
(***************************************************************************)
(* A request is executed at most once. A call is promoted when it has won  *)
(* the compare-and-set; from then on the request is no longer one that a   *)
(* compare-and-set to running accepts, whoever moves it, so no later call  *)
(* that works for the same request can be promoted.                        *)
(***************************************************************************)

Over == {"working", "record", "settle", "release", "unsettle", "flag", "recordUnsettled", "ended"}

Untouched == Pending \cup {"none"}

Promoted(c) == c \in executed \/ pc[c] = "lease"

\* A call under way knows its request, and its verdict when it settles it; so
\* does a record know its request.
RequestKnown ==
  /\ \A c \in Call : pc[c] \notin {"idle", "save", "ended"} => my[c] \in Call
  /\ \A o \in Op : record[o].status # "none" => record[o].req \in Call
  /\ \A c \in Call : pc[c] \in {"record", "settle"} => verdict[c] \in Terminal

ExecutedIsOver == \A c \in executed : pc[c] \in Over /\ my[c] \in Call

PromotedIsMoved == \A c \in Call : Promoted(c) => request[my[c]] \notin Untouched

PromotedOnce ==
  \A c, d \in Call : Promoted(c) /\ Promoted(d) /\ my[c] = my[d] => c = d

OnceInv == RequestKnown /\ ExecutedIsOver /\ PromotedIsMoved /\ PromotedOnce

\* What every step does but a promotion and the beginning of the mutation.
Calm ==
  /\ executed' = executed
  /\ \A c \in Call : pc'[c] = "lease" => pc[c] = "lease"
  /\ \A c \in Call : pc[c] \in Over => pc'[c] \in Over
  /\ \A c \in Call : my'[c] # my[c] => pc[c] \in {"idle", "save"}
  /\ \A r \in Call : request[r] \notin Untouched => request'[r] \notin Untouched

LEMMA CalmStep ==
  ASSUME TypeOK, OnceInv, Calm, RequestKnown'
  PROVE  OnceInv'
  <1>1. \A c \in Call : Promoted(c)' => Promoted(c) /\ my'[c] = my[c] /\ my[c] \in Call
    BY DEF OnceInv, ExecutedIsOver, RequestKnown, Calm, Promoted, Over, TypeOK
  <1>2. ExecutedIsOver'
    BY DEF OnceInv, ExecutedIsOver, Calm, Over, TypeOK
  <1>3. PromotedIsMoved'
    BY <1>1 DEF OnceInv, PromotedIsMoved, Calm
  <1>4. PromotedOnce'
    BY <1>1 DEF OnceInv, PromotedOnce
  <1> QED BY <1>2, <1>3, <1>4 DEF OnceInv

\* A compare-and-set from an in-flight status (or from none to queued) leaves
\* a request that was moved before among the moved ones.
LEMMA TransitionKeepsMoved ==
  ASSUME TypeOK, NEW q, NEW expected, NEW to, Transition(q, expected, to),
         expected \subseteq Untouched \/ to \notin Untouched
  PROVE  \A r \in Call : request[r] \notin Untouched => request'[r] \notin Untouched
  BY DEF TypeOK

LEMMA SubmitOnce ==
  ASSUME TypeOK, OnceInv, NEW c \in Call, Submit(c)
  PROVE  OnceInv'
  <1>1. Calm
    BY RequestFlowAssumption DEF Submit, SubmitNew, SubmitAgain, PublishReuses, PublishLooks,
       BatchLooks, PublishRefused, Calm, Over, TypeOK
  <1>2. RequestKnown'
    <2>1. CASE SubmitNew(c)
      BY <2>1, RequestFlowAssumption DEF SubmitNew, OnceInv, RequestKnown, TypeOK
    <2>2. CASE PublishReuses(c)
      BY <2>2, RequestFlowAssumption DEF PublishReuses, OnceInv, RequestKnown, TypeOK
    <2>3. CASE SubmitAgain(c) \/ PublishLooks(c) \/ BatchLooks(c) \/ PublishRefused(c)
      BY <2>3 DEF SubmitAgain, PublishLooks, BatchLooks, PublishRefused, OnceInv, RequestKnown,
                  TypeOK
    <2> QED BY <2>1, <2>2, <2>3 DEF Submit
  <1> QED BY <1>1, <1>2, CalmStep

\* The compare-and-set: the request was pending, so nobody was promoted for it.
LEMMA PromoteOnce ==
  ASSUME TypeOK, OnceInv, NEW c \in Call, Promote(c)
  PROVE  OnceInv'
  <1>1. my[c] \in Call /\ request[my[c]] \in Pending /\ pc[c] = "promote"
    BY DEF Promote, OnceInv, RequestKnown
  <1>2. request' = [request EXCEPT ![my[c]] = "running"]
    BY <1>1 DEF Promote
  <1>3. pc' = [pc EXCEPT ![c] = "lease"] /\ UNCHANGED <<record, my, executed, verdict>>
    BY DEF Promote
  <1>4. \A d \in Call : Promoted(d)' <=> Promoted(d) \/ d = c
    BY <1>1, <1>3 DEF Promoted, TypeOK
  <1>5. \A d \in Call : Promoted(d) => my[d] # my[c] /\ my[d] \in Call
    BY <1>1 DEF OnceInv, PromotedIsMoved, ExecutedIsOver, RequestKnown, Promoted, Untouched
  <1>6. RequestKnown'
    BY <1>1, <1>3 DEF OnceInv, RequestKnown, TypeOK
  <1>7. ExecutedIsOver'
    BY <1>1, <1>3 DEF OnceInv, ExecutedIsOver, Over, TypeOK
  <1>8. PromotedIsMoved'
    BY <1>1, <1>2, <1>3, <1>4, <1>5 DEF OnceInv, PromotedIsMoved, Untouched, TypeOK
  <1>9. PromotedOnce'
    BY <1>3, <1>4, <1>5 DEF OnceInv, PromotedOnce
  <1> QED BY <1>6, <1>7, <1>8, <1>9 DEF OnceInv

\* The promoted call becomes an executed one: the same calls are promoted.
LEMMA BeginWorkOnce ==
  ASSUME TypeOK, OnceInv, NEW c \in Call, BeginWork(c)
  PROVE  OnceInv'
  <1>1. pc[c] = "lease" /\ pc' = [pc EXCEPT ![c] = "working"] /\ my[c] \in Call
    BY DEF BeginWork, OnceInv, RequestKnown
  <1>2. executed' = executed \cup {c} /\ UNCHANGED <<request, my, verdict>>
    BY DEF BeginWork
  <1>3. \A d \in Call : Promoted(d)' <=> Promoted(d)
    BY <1>1, <1>2 DEF Promoted, TypeOK
  <1>4. \A o \in Op : record'[o].status # "none" => record'[o].req \in Call
    <2>1. CASE IsPublish(c)
      BY <1>1, <2>1, RequestFlowAssumption DEF BeginWork, OnceInv, RequestKnown, TypeOK
    <2>2. CASE ~IsPublish(c)
      BY <2>2 DEF BeginWork, OnceInv, RequestKnown
    <2> QED BY <2>1, <2>2
  <1>5. RequestKnown'
    BY <1>1, <1>2, <1>4 DEF OnceInv, RequestKnown, TypeOK
  <1>6. ExecutedIsOver'
    BY <1>1, <1>2 DEF OnceInv, ExecutedIsOver, Over, TypeOK
  <1>7. PromotedIsMoved' /\ PromotedOnce'
    BY <1>2, <1>3 DEF OnceInv, PromotedIsMoved, PromotedOnce
  <1> QED BY <1>5, <1>6, <1>7 DEF OnceInv

LEMMA CallStepOnce ==
  ASSUME TypeOK, OnceInv, NEW c \in Call, CallStep(c)
  PROVE  OnceInv'
  <1>1. ASSUME PublishSaves(c) PROVE Calm /\ RequestKnown'
    BY <1>1, RequestFlowAssumption DEF PublishSaves, Calm, Over, OnceInv, RequestKnown, TypeOK
  <1>2. ASSUME WriteRecord(c) \/ WriteUnsettled(c) PROVE Calm /\ RequestKnown'
    <2>1. Calm
      BY <1>2 DEF WriteRecord, WriteUnsettled, Calm, Over, TypeOK
    <2>2. my[c] \in Call /\ UNCHANGED <<my, verdict>>
      BY <1>2 DEF WriteRecord, WriteUnsettled, OnceInv, RequestKnown
    <2>3. \A o \in Op : record'[o].status # "none" => record'[o].req \in Call
      BY <1>2, <2>2, RequestFlowAssumption
         DEF WriteRecord, WriteUnsettled, OnceInv, RequestKnown, TypeOK
    <2>4. \A d \in Call : pc'[d] \in {"record", "settle"} => pc[d] \in {"record", "settle"}
      BY <1>2 DEF WriteRecord, WriteUnsettled, TypeOK
    <2>5. \A d \in Call : pc'[d] \notin {"idle", "save", "ended"} =>
                             pc[d] \notin {"idle", "save", "ended"}
      BY <1>2 DEF WriteRecord, WriteUnsettled, TypeOK
    <2> QED BY <2>1, <2>2, <2>3, <2>4, <2>5 DEF OnceInv, RequestKnown
  <1>3. ASSUME UNCHANGED <<record, my, executed>>,
               NEW to \in PC \ {"lease", "idle", "save"},
               pc' = [pc EXCEPT ![c] = to],
               pc[c] \notin {"idle", "save", "ended"},
               pc[c] \in Over => to \in Over,
               to \in {"record", "settle"} => verdict'[c] \in Terminal,
               \A d \in Call : d # c => verdict'[d] = verdict[d],
               \A r \in Call : request[r] \notin Untouched => request'[r] \notin Untouched
        PROVE  Calm /\ RequestKnown'
    <2>1. \A d \in Call : pc'[d] = IF d = c THEN to ELSE pc[d]
      BY <1>3 DEF TypeOK
    <2>2. Calm
      BY <1>3, <2>1 DEF Calm
    <2>3. RequestKnown'
      BY <1>3, <2>1 DEF OnceInv, RequestKnown
    <2> QED BY <2>2, <2>3
  <1>4. ASSUME \/ AcquireBlocked(c) \/ AcquireReconciles(c) \/ AcquireTimeout(c)
               \/ HumanDeadline(c) \/ PromoteConflict(c) \/ Acquire(c)
        PROVE  Calm /\ RequestKnown'
    BY <1>4, <1>3 DEF AcquireBlocked, AcquireReconciles, AcquireTimeout, HumanDeadline,
       PromoteConflict, Acquire, Acquiring, Over, TypeOK
  <1>5. ASSUME GiveBack(c) \/ WorkUnsettled(c) \/ ReleaseClaim(c) \/ FlagClaim(c)
        PROVE  Calm /\ RequestKnown'
    BY <1>5, <1>3 DEF GiveBack, WorkUnsettled, ReleaseClaim, FlagClaim, Over
  <1>6. ASSUME LeaseTimeout(c) \/ WorkSucceeds(c) \/ WorkFails(c)
        PROVE  Calm /\ RequestKnown'
    BY <1>6, <1>3 DEF LeaseTimeout, WorkSucceeds, WorkFails, Over, TypeOK
  <1>7. ASSUME CreateRequest(c) \/ NoteWaiting(c) \/ NoteBlocked(c) \/ UnsettleRequest(c)
        PROVE  Calm /\ RequestKnown'
    <2>1. \A r \in Call : request[r] \notin Untouched => request'[r] \notin Untouched
      BY <1>7 DEF CreateRequest, NoteWaiting, NoteBlocked, UnsettleRequest, Untouched, TypeOK
    <2> QED BY <1>7, <1>3, <2>1 DEF CreateRequest, NoteWaiting, NoteBlocked, UnsettleRequest, Over
  <1>8. ASSUME SettleRequest(c) PROVE Calm /\ RequestKnown'
    <2>1. verdict[c] \in Terminal
      BY <1>8 DEF SettleRequest, OnceInv, RequestKnown
    <2>2. \A r \in Call : request[r] \notin Untouched => request'[r] \notin Untouched
      BY <1>8, <2>1 DEF SettleRequest, Untouched, TypeOK
    <2> QED BY <1>8, <1>3, <2>2 DEF SettleRequest, Over
  <1> QED BY <1>1, <1>2, <1>4, <1>5, <1>6, <1>7, <1>8, CalmStep, PromoteOnce, BeginWorkOnce
          DEF CallStep

\* Whoever leaves the calls and the records alone and moves a request only by a
\* reconciler's compare-and-set.
LEMMA AsideOnce ==
  ASSUME TypeOK, OnceInv, UNCHANGED <<record, callVars>>,
         \A r \in Call : request[r] \notin Untouched => request'[r] \notin Untouched
  PROVE  OnceInv'
  <1>1. Calm /\ RequestKnown'
    BY DEF Calm, OnceInv, RequestKnown
  <1> QED BY <1>1, CalmStep

LEMMA ReconcileOnce ==
  ASSUME TypeOK, OnceInv, NEW a \in Actor, Reconcile(a)
  PROVE  OnceInv'
  <1>1. UNCHANGED <<record, callVars>>
    BY DEF Reconcile, CheckOperation, ReconcileSettled, ReconcileRelease, ReconcileUnsettled,
       ReconcileMark
  <1>2. \A r \in Call : request[r] \notin Untouched => request'[r] \notin Untouched
    <2>1. CASE ReconcileSettled(a)
      BY <2>1 DEF ReconcileSettled, Untouched, TypeOK
    <2>2. CASE ReconcileUnsettled(a)
      BY <2>2 DEF ReconcileUnsettled, Untouched, TypeOK
    <2>3. CASE CheckOperation(a) \/ ReconcileRelease(a) \/ ReconcileMark(a)
      BY <2>3 DEF CheckOperation, ReconcileRelease, ReconcileMark
    <2> QED BY <2>1, <2>2, <2>3 DEF Reconcile
  <1> QED BY <1>1, <1>2, AsideOnce

LEMMA BootOrAgentOnce ==
  ASSUME TypeOK, OnceInv, BootStep \/ AgentStep
  PROVE  OnceInv'
  <1>1. UNCHANGED <<request, record, callVars>>
    BY DEF BootStep, BootTakesSnapshot, BootSettlesAgent, BootListsRequests,
       BootReconcilesRequest, BootEnds, AgentStep, AgentAdmits, AgentAcquires, AgentReconciles,
       AgentGivesUp, AgentSettles
  <1> QED BY <1>1, AsideOnce

\* A call that ends early (a time-out, an exit, a crash) promotes nobody.
LEMMA EndOnce ==
  ASSUME TypeOK, OnceInv,
         \/ \E c \in Call : Exit(c) \/ CrashCall(c)
         \/ CrashDashboard
  PROVE  OnceInv'
  <1>1. PICK dead \in SUBSET Call : Kill(dead) /\ UNCHANGED <<slotVars, diskVars, my, verdict,
                                                           executed, succeeded>>
    <2>1. CASE CrashDashboard
      BY <2>1, RequestFlowAssumption DEF CrashDashboard
    <2>2. CASE \E c \in Call : Exit(c) \/ CrashCall(c)
      BY <2>2 DEF Exit, CrashCall
    <2> QED BY <2>1, <2>2
  <1>2. \A c \in Call : pc'[c] = IF c \in dead THEN "ended" ELSE pc[c]
    BY <1>1 DEF Kill
  <1>3. Calm
    BY <1>1, <1>2 DEF Calm, Over
  <1>4. RequestKnown'
    BY <1>1, <1>2 DEF OnceInv, RequestKnown
  <1> QED BY <1>3, <1>4, CalmStep

LEMMA ControlLockTimeoutOnce ==
  ASSUME TypeOK, OnceInv, NEW c \in Call, ControlLockTimeout(c)
  PROVE  OnceInv'
  <1>1. PICK to \in {"record", "release", "recordUnsettled", "ended"} :
          /\ pc' = [pc EXCEPT ![c] = to]
          /\ to = "record" => pc[c] = "settle"
          /\ pc[c] \in {"idle", "save", "ended"} => to = "ended"
    BY DEF ControlLockTimeout, NeedsLock
  <1>2. /\ UNCHANGED <<slotVars, diskVars, my, executed>>
        /\ verdict' = [verdict EXCEPT ![c] = IF pc[c] = "settle" THEN "failed" ELSE @]
    BY DEF ControlLockTimeout
  <1>3. pc[c] \in Over => to \in Over
    BY <1>1 DEF Over
  <1>4. \A d \in Call : pc'[d] = IF d = c THEN to ELSE pc[d]
    BY <1>1 DEF TypeOK
  <1>5. Calm
    BY <1>1, <1>2, <1>3, <1>4 DEF Calm
  <1>6. RequestKnown'
    BY <1>1, <1>2, <1>4 DEF OnceInv, RequestKnown, TypeOK
  <1> QED BY <1>5, <1>6, CalmStep

LEMMA NextOnce == TypeOK /\ OnceInv /\ [Next]_vars => OnceInv'
  <1> SUFFICES ASSUME TypeOK, OnceInv, [Next]_vars PROVE OnceInv'
    OBVIOUS
  <1>1. CASE UNCHANGED vars
    BY <1>1, AsideOnce DEF vars
  <1>2. ASSUME NEW c \in Call, Submit(c) PROVE OnceInv'
    BY <1>2, SubmitOnce
  <1>3. ASSUME NEW c \in Call, CallStep(c) PROVE OnceInv'
    BY <1>3, CallStepOnce
  <1>4. ASSUME NEW c \in Call, ControlLockTimeout(c) PROVE OnceInv'
    BY <1>4, ControlLockTimeoutOnce
  <1>5. ASSUME NEW a \in Actor, Reconcile(a) PROVE OnceInv'
    BY <1>5, ReconcileOnce
  <1>6. CASE \/ \E c \in Call : Exit(c) \/ CrashCall(c)
             \/ CrashDashboard
    BY <1>6, EndOnce
  <1> QED BY <1>1, <1>2, <1>3, <1>4, <1>5, <1>6, BootOrAgentOnce DEF Next

LEMMA InitOnce == Init => OnceInv
  BY RequestFlowAssumption
     DEF Init, OnceInv, RequestKnown, ExecutedIsOver, PromotedIsMoved, PromotedOnce, Promoted

LEMMA OnceImplies == TypeOK /\ OnceInv => AtMostOnce
  BY DEF OnceInv, PromotedOnce, Promoted, AtMostOnce, TypeOK

\* No request is executed twice: the compare-and-set of Promote is enough,
\* whatever crashes, times out, is retried or is reconciled meanwhile.
THEOREM ExecutedAtMostOnce == Spec => []AtMostOnce
  <1>1. Init => TypeOK /\ OnceInv
    BY InitTypeOK, InitOnce
  <1>2. TypeOK /\ OnceInv /\ [Next]_vars => (TypeOK /\ OnceInv)'
    BY NextTypeOK, NextOnce
  <1> QED BY <1>1, <1>2, OnceImplies, PTL DEF Spec

-----------------------------------------------------------------------------
(***************************************************************************)
(* A request that is reported completed was executed with success. The     *)
(* verdict of a call, the record of an operation, what a reconciler found  *)
(* in that record and the status of a request are written one after the    *)
(* other, each from the one before; the request of a call is one of its    *)
(* own operation, also when it was found in the record of an earlier try.  *)
(***************************************************************************)

Succeeded(o) == \E c \in succeeded : OpOf[c] = o

\* Whose request it is.
OfItsOperation ==
  /\ \A c \in Call : my[c] \in Call => OpOf[my[c]] = OpOf[c]
  /\ \A o \in Op : record[o].status # "none" => record[o].req \in Call /\ OpOf[record[o].req] = o

VerdictIsTrue == \A c \in Call : verdict[c] = "completed" => c \in succeeded
RecordIsTrue == \A o \in Op : record[o].status = "completed" => Succeeded(o)
FoundIsTrue ==
  \A a \in Actor : rc[a].at = "completed" /\ rc[a].req \in Call => Succeeded(OpOf[rc[a].req])

TruthInv ==
  OfItsOperation /\ VerdictIsTrue /\ RecordIsTrue /\ FoundIsTrue /\ CompletedWasExecuted

\* What a step has to do to keep it.
Truthful ==
  /\ succeeded \subseteq succeeded'
  /\ OfItsOperation'
  /\ VerdictIsTrue'
  /\ \A o \in Op : record'[o].status = "completed" =>
        record[o].status = "completed" \/ \E c \in Call : verdict[c] = "completed" /\ OpOf[c] = o
  /\ \A a \in Actor : rc'[a].at = "completed" =>
        \/ rc'[a] = rc[a]
        \/ rc'[a].req \in Call => record[OpOf[rc'[a].req]].status = "completed"
  /\ \A r \in Call : request'[r] = "completed" =>
        \/ request[r] = "completed"
        \/ \E c \in Call : verdict[c] = "completed" /\ my[c] = r
        \/ \E a \in Actor : rc[a].at = "completed" /\ rc[a].req = r

LEMMA TruthfulKeeps == TypeOK /\ TruthInv /\ Truthful => TruthInv'
  <1> SUFFICES ASSUME TypeOK, TruthInv, Truthful PROVE TruthInv'
    OBVIOUS
  <1> USE RequestFlowAssumption DEF TruthInv
  <1>1. \A o \in Op : Succeeded(o) => Succeeded(o)'
    BY DEF Truthful, Succeeded
  <1>2. \A c \in Call : verdict[c] = "completed" => Succeeded(OpOf[c])
    BY DEF VerdictIsTrue, Succeeded
  <1>3. RecordIsTrue'
    BY <1>1, <1>2 DEF Truthful, RecordIsTrue
  <1>4. FoundIsTrue'
    <2>1. ASSUME NEW a \in Actor, NEW r \in Call, rc'[a].at = "completed", rc'[a].req = r
          PROVE  Succeeded(OpOf[r])'
      <3>1. OpOf[r] \in Op
        OBVIOUS
      <3>2. Succeeded(OpOf[r])
        BY <2>1, <3>1 DEF Truthful, FoundIsTrue, RecordIsTrue
      <3> QED BY <1>1, <3>1, <3>2
    <2> QED BY <2>1 DEF FoundIsTrue
  <1>5. ASSUME NEW r \in Call, request'[r] = "completed" PROVE \E c \in succeeded' : OpOf[c] = OpOf[r]
    <2>1. OpOf[r] \in Op
      OBVIOUS
    <2>2. CASE request[r] = "completed"
      BY <2>2 DEF CompletedWasExecuted, Truthful
    <2>3. ASSUME NEW c \in Call, verdict[c] = "completed", my[c] = r
          PROVE  \E d \in succeeded' : OpOf[d] = OpOf[r]
      BY <2>3 DEF VerdictIsTrue, OfItsOperation, Truthful
    <2>4. ASSUME NEW a \in Actor, rc[a].at = "completed", rc[a].req = r
          PROVE  \E d \in succeeded' : OpOf[d] = OpOf[r]
      BY <2>4 DEF FoundIsTrue, Succeeded, Truthful
    <2> QED BY <1>5, <2>2, <2>3, <2>4 DEF Truthful
  <1>6. CompletedWasExecuted'
    BY <1>5 DEF CompletedWasExecuted
  <1> QED BY <1>3, <1>4, <1>6 DEF Truthful

LEMMA SubmitTruth == ASSUME TypeOK, RequestKnown, TruthInv, NEW c \in Call, Submit(c) PROVE Truthful
  <1> USE RequestFlowAssumption DEF TruthInv
  <1>1. UNCHANGED <<verdict, succeeded, request, rc>>
    BY DEF Submit, SubmitNew, SubmitAgain, PublishReuses, PublishLooks, BatchLooks, PublishRefused
  <1>2. OfItsOperation' /\ \A o \in Op : record'[o].status = "completed" => record[o].status = "completed"
    <2>1. CASE SubmitNew(c)
      BY <2>1 DEF SubmitNew, OfItsOperation, TypeOK
    <2>2. CASE PublishReuses(c)
      <3>1. my' = [my EXCEPT ![c] = record[OpOf[c]].req] /\ record' = record
        BY <2>2 DEF PublishReuses
      <3>2. OpOf[record[OpOf[c]].req] = OpOf[c]
        BY <2>2 DEF PublishReuses, OfItsOperation
      <3> QED BY <3>1, <3>2 DEF OfItsOperation, TypeOK
    <2>3. CASE SubmitAgain(c) \/ PublishLooks(c) \/ BatchLooks(c) \/ PublishRefused(c)
      BY <2>3 DEF SubmitAgain, PublishLooks, BatchLooks, PublishRefused, OfItsOperation
    <2> QED BY <2>1, <2>2, <2>3 DEF Submit
  <1> QED BY <1>1, <1>2 DEF Truthful, VerdictIsTrue

\* A step that writes a record writes its own operation's, with its request.
LEMMA WritesOwnRecord ==
  ASSUME TypeOK, RequestKnown, OfItsOperation, NEW c \in Call, my[c] \in Call \/ my'[c] = c,
         NEW st, record' = [record EXCEPT ![OpOf[c]] = [status |-> st, req |-> my'[c]]],
         \/ my' = my
         \/ my' = [my EXCEPT ![c] = c]
  PROVE  OfItsOperation'
  <1>1. OpOf[c] \in Op /\ my'[c] \in Call /\ OpOf[my'[c]] = OpOf[c]
    BY RequestFlowAssumption DEF TypeOK, OfItsOperation
  <1>2. \A d \in Call : my'[d] \in Call => OpOf[my'[d]] = OpOf[d]
    BY <1>1 DEF TypeOK, OfItsOperation
  <1>3. \A o \in Op : IF o = OpOf[c] THEN record'[o].req = my'[c] ELSE record'[o] = record[o]
    BY <1>1 DEF TypeOK
  <1> QED BY <1>1, <1>2, <1>3 DEF OfItsOperation

LEMMA CallTruth == ASSUME TypeOK, RequestKnown, TruthInv, NEW c \in Call, CallStep(c) PROVE Truthful
  <1> USE RequestFlowAssumption DEF TruthInv
  <1>1. CASE PublishSaves(c)
    <2>1. OfItsOperation'
      BY <1>1, WritesOwnRecord DEF PublishSaves, TypeOK
    <2> QED BY <1>1, <2>1 DEF PublishSaves, Truthful, VerdictIsTrue, TypeOK
  <1>2. CASE BeginWork(c)
    <2>1. my[c] \in Call /\ UNCHANGED <<my, verdict, succeeded, request, rc>>
      BY <1>2 DEF BeginWork, RequestKnown
    <2>2. OfItsOperation' /\ \A o \in Op : record'[o].status = "completed" => record[o].status = "completed"
      <3>1. CASE record' = record
        BY <2>1, <3>1 DEF OfItsOperation
      <3>2. CASE record' = [record EXCEPT ![OpOf[c]] = [status |-> "open", req |-> my[c]]]
        BY <2>1, <3>2, WritesOwnRecord DEF TypeOK
      <3> QED BY <1>2, <3>1, <3>2 DEF BeginWork
    <2> QED BY <2>1, <2>2 DEF Truthful, VerdictIsTrue
  <1>3. CASE WriteRecord(c) \/ WriteUnsettled(c)
    <2>1. my[c] \in Call /\ UNCHANGED <<my, verdict, succeeded, request, rc>>
      BY <1>3 DEF WriteRecord, WriteUnsettled, RequestKnown
    <2>2. PICK st \in {verdict[c], "reconciliation-required"} :
            record' = [record EXCEPT ![OpOf[c]] = [status |-> st, req |-> my[c]]]
      BY <1>3 DEF WriteRecord, WriteUnsettled
    <2>3. OfItsOperation'
      BY <2>1, <2>2, WritesOwnRecord
    <2>4. \A o \in Op : record'[o].status = "completed" =>
            record[o].status = "completed" \/ (verdict[c] = "completed" /\ OpOf[c] = o)
      BY <2>2 DEF TypeOK
    <2> QED BY <2>1, <2>3, <2>4 DEF Truthful, VerdictIsTrue
  <1>4. CASE SettleRequest(c)
    <2>1. UNCHANGED <<my, verdict, record, succeeded, rc>>
      BY <1>4 DEF SettleRequest
    <2>2. \A r \in Call : request'[r] = "completed" =>
            request[r] = "completed" \/ (verdict[c] = "completed" /\ my[c] = r)
      BY <1>4 DEF SettleRequest, TypeOK
    <2> QED BY <2>1, <2>2 DEF Truthful, VerdictIsTrue, OfItsOperation
  <1>5. CASE LeaseTimeout(c) \/ WorkSucceeds(c) \/ WorkFails(c)
    <2>1. UNCHANGED <<my, record, request, rc>> /\ succeeded \subseteq succeeded'
      BY <1>5 DEF LeaseTimeout, WorkSucceeds, WorkFails
    <2>2. VerdictIsTrue'
      BY <1>5 DEF LeaseTimeout, WorkSucceeds, WorkFails, VerdictIsTrue, TypeOK
    <2> QED BY <2>1, <2>2 DEF Truthful, OfItsOperation
  <1>6. ASSUME UNCHANGED <<my, record, verdict, succeeded>>,
               \A a \in Actor : rc'[a].at = "completed" => rc'[a] = rc[a],
               \A r \in Call : request'[r] = "completed" => request[r] = "completed"
        PROVE  Truthful
    BY <1>6 DEF Truthful, VerdictIsTrue, OfItsOperation
  <1>7. CASE AcquireReconciles(c)
    BY <1>6, <1>7 DEF AcquireReconciles, TypeOK
  <1>8. CASE CreateRequest(c) \/ NoteWaiting(c) \/ NoteBlocked(c) \/ Promote(c) \/ UnsettleRequest(c)
    <2>1. \A r \in Call : request'[r] = "completed" => request[r] = "completed"
      BY <1>8 DEF CreateRequest, NoteWaiting, NoteBlocked, Promote, UnsettleRequest, TypeOK
    <2> QED BY <1>6, <1>8, <2>1 DEF CreateRequest, NoteWaiting, NoteBlocked, Promote, UnsettleRequest
  <1>9. CASE \/ Acquire(c) \/ AcquireBlocked(c) \/ AcquireTimeout(c) \/ HumanDeadline(c)
             \/ PromoteConflict(c) \/ GiveBack(c) \/ WorkUnsettled(c) \/ ReleaseClaim(c) \/ FlagClaim(c)
    BY <1>6, <1>9 DEF Acquire, AcquireBlocked, AcquireTimeout, HumanDeadline, PromoteConflict,
                      GiveBack, WorkUnsettled, ReleaseClaim, FlagClaim
  <1> QED BY <1>1, <1>2, <1>3, <1>4, <1>5, <1>7, <1>8, <1>9 DEF CallStep

\* The reconciler reports what it found in the record.
LEMMA ReconcileTruth == ASSUME TypeOK, TruthInv, NEW a \in Actor, Reconcile(a) PROVE Truthful
  <1> USE RequestFlowAssumption DEF TruthInv
  <1>1. UNCHANGED <<record, callVars>>
    BY DEF Reconcile, CheckOperation, ReconcileSettled, ReconcileRelease, ReconcileUnsettled,
       ReconcileMark
  <1>2. \A b \in Actor : rc'[b].at = "completed" =>
          \/ rc'[b] = rc[b]
          \/ rc'[b].req \in Call => record[OpOf[rc'[b].req]].status = "completed"
    BY DEF Reconcile, CheckOperation, ReconcileSettled, ReconcileRelease, ReconcileUnsettled,
       ReconcileMark, Assessment, TypeOK
  <1>3. \A r \in Call : request'[r] = "completed" =>
          request[r] = "completed" \/ (rc[a].at = "completed" /\ rc[a].req = r)
    BY DEF Reconcile, CheckOperation, ReconcileSettled, ReconcileRelease, ReconcileUnsettled,
       ReconcileMark, TypeOK
  <1> QED BY <1>1, <1>2, <1>3 DEF Truthful, VerdictIsTrue, OfItsOperation

LEMMA OthersTruth ==
  ASSUME TypeOK, TruthInv,
         \/ \E c \in Call : ControlLockTimeout(c) \/ Exit(c) \/ CrashCall(c)
         \/ BootStep \/ AgentStep \/ CrashDashboard \/ UNCHANGED vars
  PROVE  Truthful
  <1> USE DEF TruthInv
  <1>1. UNCHANGED <<my, record, request, succeeded>>
    BY DEF ControlLockTimeout, Exit, CrashCall, BootStep, BootTakesSnapshot, BootSettlesAgent,
       BootListsRequests, BootReconcilesRequest, BootEnds, AgentStep, AgentAdmits, AgentAcquires,
       AgentReconciles, AgentGivesUp, AgentSettles, CrashDashboard, vars
  <1>2. VerdictIsTrue' /\ \A a \in Actor : rc'[a].at = "completed" => rc'[a] = rc[a]
    <2>1. CASE \E c \in Call : ControlLockTimeout(c)
      BY <2>1 DEF ControlLockTimeout, VerdictIsTrue, TypeOK
    <2>2. CASE CrashDashboard
      BY <2>2 DEF CrashDashboard, VerdictIsTrue, TypeOK
    <2>3. CASE \E c \in Call : Exit(c) \/ CrashCall(c)
      BY <2>3 DEF Exit, CrashCall, VerdictIsTrue, TypeOK
    <2>4. CASE BootStep
      BY <2>4 DEF BootStep, BootTakesSnapshot, BootSettlesAgent, BootListsRequests,
         BootReconcilesRequest, BootEnds, VerdictIsTrue, TypeOK
    <2>5. CASE AgentStep
      BY <2>5 DEF AgentStep, AgentAdmits, AgentAcquires, AgentReconciles, AgentGivesUp,
         AgentSettles, VerdictIsTrue, TypeOK
    <2>6. CASE UNCHANGED vars
      BY <2>6 DEF vars, VerdictIsTrue
    <2> QED BY <2>1, <2>2, <2>3, <2>4, <2>5, <2>6
  <1> QED BY <1>1, <1>2 DEF Truthful, OfItsOperation

LEMMA NextTruth == TypeOK /\ OnceInv /\ TruthInv /\ [Next]_vars => TruthInv'
  <1> SUFFICES ASSUME TypeOK, OnceInv, TruthInv, [Next]_vars PROVE TruthInv'
    OBVIOUS
  <1>1. Truthful
    BY SubmitTruth, CallTruth, ReconcileTruth, OthersTruth DEF Next, OnceInv
  <1> QED BY <1>1, TruthfulKeeps

LEMMA InitTruth == Init => TruthInv
  BY RequestFlowAssumption DEF Init, TruthInv, OfItsOperation, VerdictIsTrue, RecordIsTrue,
     FoundIsTrue, CompletedWasExecuted

\* A request is reported completed only if its operation was executed and went
\* through, whoever reports it: the call, a later try of the same operation,
\* or a reconciler, of which there may be any number.
THEOREM CompletedIsExecuted == Spec => []CompletedWasExecuted
  <1>1. Init => TypeOK /\ OnceInv /\ TruthInv
    BY InitTypeOK, InitOnce, InitTruth
  <1>2. TypeOK /\ OnceInv /\ TruthInv /\ [Next]_vars => (TypeOK /\ OnceInv /\ TruthInv)'
    BY NextTypeOK, NextOnce, NextTruth
  <1>3. TruthInv => CompletedWasExecuted
    BY DEF TruthInv
  <1> QED BY <1>1, <1>2, <1>3, PTL DEF Spec

-----------------------------------------------------------------------------
(***************************************************************************)
(* A call whose record no publish of another call writes: each human-      *)
(* submit, and a publish that is not tried again. Its claim is given back  *)
(* by others only when its record tells them that the work is over, so     *)
(* that neither the boot pass, which does not look whether the process     *)
(* runs, nor a time-out of the lock takes the slot from it before.         *)
(***************************************************************************)

OwnRecord(c) == \A d \in Call \ {c} : OpOf[d] = OpOf[c] => ~IsPublish(c) /\ ~IsPublish(d)

Wrapping == {"record", "settle", "release"}
Busy == PC \ (Wrapping \cup {"idle", "save", "ended"})
Judged == Terminal \cup {"release"}

Owns(c) == claim.owner = c /\ claim.req = c

\* Nobody will work for the operation of c any more.
Past(c) ==
  /\ record[OpOf[c]].status # "none"
  /\ ~IsPublish(c) => OpOf[c] \notin dirty
  /\ \A d \in Call : OpOf[d] = OpOf[c] => pc[d] \in Wrapping \cup {"idle", "ended"}

\* The record of a call is its own from the submission on, and open until the
\* call writes it.
Recorded(c) ==
  /\ pc[c] \in Busy \cup Wrapping => my[c] = c /\ record[OpOf[c]].req = c
  /\ pc[c] \in Busy => record[OpOf[c]].status = "open"
  /\ pc[c] \in Wrapping => record[OpOf[c]].status \in Terminal \cup {"open"}
  /\ pc[c] = "save" => IsPublish(c)
  /\ pc[c] \in {"idle", "save"} /\ IsPublish(c) => record[OpOf[c]].status = "none"
  /\ ~IsPublish(c) /\ c \in executed => record[OpOf[c]].status # "none" /\ record[OpOf[c]].req = c

\* It has the slot for its work and until its changes are settled.
Covered(c) ==
  /\ pc[c] \in {"promote", "lease", "working"} => Owns(c)
  /\ ~IsPublish(c) /\ c \in executed /\ OpOf[c] \in dirty => Owns(c)
  /\ ~IsPublish(c) /\ pc[c] \in Wrapping => OpOf[c] \notin dirty

Fits(c) ==
  /\ Recorded(c)
  /\ Covered(c)
  /\ \A a \in Actor : rc[a].at \in Judged /\ rc[a].req = c => Past(c)

OwnInv == \A c \in Call : OwnRecord(c) => Fits(c)

\* Where a step that leaves the records alone may take a call.
Moves(d) ==
  \/ pc'[d] = pc[d]
  \/ pc'[d] = "ended"
  \/ pc[d] = "idle" /\ pc'[d] = "save" /\ IsPublish(d)
  \/ pc[d] \in Wrapping /\ pc'[d] \in Wrapping
  \/ pc[d] \in Busy /\ pc'[d] \in Busy \ {"promote", "lease", "working"}
  \/ pc[d] = "promote" /\ pc'[d] = "lease"
  \/ pc[d] \in Busy /\ pc'[d] = "record" /\ IsPublish(d)

\* What most steps do: they leave the records alone, and the slot of those who
\* need it.
Frame ==
  /\ UNCHANGED <<my, record, dirty, executed>>
  /\ \A d \in Call : Moves(d)
  /\ \A d \in Call : OwnRecord(d) /\ Owns(d) =>
       \/ Owns(d)'
       \/ /\ pc'[d] \notin {"promote", "lease", "working"}
          /\ IsPublish(d) \/ d \notin executed \/ OpOf[d] \notin dirty
  /\ \A a \in Actor : \A d \in Call :
       OwnRecord(d) /\ rc'[a].at \in Judged /\ rc'[a].req = d => Past(d)

LEMMA Sharers ==
  ASSUME NEW c \in Call, NEW d \in Call, OwnRecord(c), OpOf[d] = OpOf[c], d # c
  PROVE  OwnRecord(d) /\ ~IsPublish(c) /\ ~IsPublish(d)
  BY DEF OwnRecord

\* What is past stays past.
LEMMA PastStays ==
  ASSUME TypeOK, OwnInv, Frame, NEW c \in Call, OwnRecord(c), Past(c)
  PROVE  Past(c)'
  <1>1. ASSUME NEW d \in Call, OpOf[d] = OpOf[c] PROVE pc'[d] \in Wrapping \cup {"idle", "ended"}
    <2>1. pc[d] \in Wrapping \cup {"idle", "ended"} /\ record[OpOf[d]].status # "none"
      BY <1>1 DEF Past
    <2>2. ~(IsPublish(d) /\ pc[d] = "idle")
      BY <1>1, <2>1, Sharers DEF OwnInv, Fits, Recorded
    <2> QED BY <2>1, <2>2 DEF Frame, Moves, Busy, Wrapping
  <1> QED BY <1>1 DEF Past, Frame

LEMMA FrameKeeps == TypeOK /\ OwnInv /\ Frame => OwnInv'
  <1> SUFFICES ASSUME TypeOK, OwnInv, Frame, NEW c \in Call, OwnRecord(c) PROVE Fits(c)'
    BY DEF OwnInv, OwnRecord
  <1>0. Fits(c) /\ Moves(c)
    BY DEF OwnInv, Frame
  <1>1. Recorded(c)'
    BY <1>0 DEF Fits, Recorded, Frame, Moves, Busy, Wrapping
  <1>2. Covered(c)'
    <2>1. pc'[c] \in {"promote", "lease", "working"} => Owns(c)'
      BY <1>0 DEF Fits, Covered, Frame, Moves, Busy, Wrapping
    <2>2. ~IsPublish(c) /\ c \in executed' /\ OpOf[c] \in dirty' => Owns(c)'
      BY <1>0 DEF Fits, Covered, Frame
    <2>3. ~IsPublish(c) /\ pc'[c] \in Wrapping => OpOf[c] \notin dirty'
      BY <1>0 DEF Fits, Covered, Frame, Moves, Busy, Wrapping
    <2> QED BY <2>1, <2>2, <2>3 DEF Covered
  <1>3. ASSUME NEW a \in Actor, rc'[a].at \in Judged, rc'[a].req = c PROVE Past(c)'
    BY <1>3, PastStays DEF Frame
  <1> QED BY <1>1, <1>2, <1>3 DEF Fits

LEMMA InitOwn == Init => OwnInv
  BY RequestFlowAssumption
     DEF Init, OwnInv, Fits, Recorded, Covered, Past, Owns, Busy, Wrapping, Judged

\* One call moves, and the slot and the verdicts stay as they are.
LEMMA CallMoves ==
  ASSUME TypeOK, OwnInv, NEW c \in Call, NEW to, pc' = [pc EXCEPT ![c] = to], Moves(c),
         UNCHANGED <<claim, my, record, dirty, executed>>,
         \A a \in Actor : rc'[a].at \in Judged => rc'[a] = rc[a]
  PROVE  OwnInv'
  <1>1. \A d \in Call : Moves(d)
    BY DEF Moves, TypeOK
  <1>2. Frame
    BY <1>1 DEF Frame, Owns, OwnInv, Fits
  <1> QED BY <1>2, FrameKeeps

\* Who submits the operation of c besides c itself was turned away.
LEMMA OthersAreTurnedAway ==
  ASSUME TypeOK, OwnInv, NEW c \in Call, OwnRecord(c), pc[c] \in Busy \cup Wrapping,
         NEW d \in Call, OpOf[d] = OpOf[c], d # c
  PROVE  pc[d] \in {"idle", "ended"} /\ d \notin executed
  <1>1. Fits(c) /\ Fits(d) /\ ~IsPublish(d)
    BY Sharers DEF OwnInv
  <1>2. pc[d] \in Busy \cup Wrapping \cup {"idle", "save", "ended"}
    BY DEF TypeOK, Busy, Wrapping
  <1> QED BY <1>1, <1>2 DEF Fits, Recorded

\* The call writes its record, or changes what is dirty, or takes the slot.
LEMMA WorkKeeps ==
  ASSUME TypeOK, OwnInv, NEW c \in Call, NEW to, pc' = [pc EXCEPT ![c] = to],
         \A d \in Call \ {c} : my'[d] = my[d] /\ (d \in executed' <=> d \in executed),
         \A o \in Op \ {OpOf[c]} : record'[o] = record[o] /\ (o \in dirty' <=> o \in dirty),
         rc' = rc, claim' = claim \/ claim = Free,
         OwnRecord(c) =>
           /\ Recorded(c)' /\ Covered(c)'
           /\ \A d \in Call : OpOf[d] = OpOf[c] =>
                /\ Past(d) => Past(d)'
                /\ d # c => pc[d] \in {"idle", "ended"} /\ d \notin executed
  PROVE  OwnInv'
  <1> SUFFICES ASSUME NEW d \in Call, OwnRecord(d) PROVE Fits(d)'
    BY DEF OwnInv, OwnRecord
  <1> USE RequestFlowAssumption
  <1>0. Fits(d) /\ \A e \in Call \ {c} : pc'[e] = pc[e]
    BY DEF OwnInv, TypeOK
  <1>1. CASE OpOf[d] # OpOf[c]
    <2>1. record'[OpOf[d]] = record[OpOf[d]] /\ (OpOf[d] \in dirty' <=> OpOf[d] \in dirty) /\ d # c
      BY <1>1
    <2>2. Owns(d) => Owns(d)'
      BY DEF Owns
    <2>3. Recorded(d)' /\ Covered(d)'
      BY <1>0, <2>1, <2>2 DEF Fits, Recorded, Covered
    <2>4. Past(d) => Past(d)'
      BY <1>0, <1>1, <2>1 DEF Past
    <2> QED BY <1>0, <2>3, <2>4 DEF Fits
  <1>2. CASE OpOf[d] = OpOf[c]
    <2>1. OwnRecord(c)
      BY <1>2, Sharers
    <2>2. Recorded(d)' /\ Covered(d)'
      <3>1. CASE d = c
        BY <2>1, <3>1
      <3>2. CASE d # c
        <4>1. pc'[d] \in {"idle", "ended"} /\ d \notin executed' /\ ~IsPublish(d)
          BY <1>0, <1>2, <2>1, <3>2, Sharers
        <4> QED BY <4>1 DEF Recorded, Covered, Busy, Wrapping
      <3> QED BY <3>1, <3>2
    <2>3. Past(d) => Past(d)'
      BY <1>2, <2>1
    <2> QED BY <1>0, <2>2, <2>3 DEF Fits
  <1> QED BY <1>1, <1>2

LEMMA SubmitOwn ==
  ASSUME TypeOK, OwnInv, NEW c \in Call, Submit(c)
  PROVE  OwnInv'
  <1> USE RequestFlowAssumption
  <1>1. CASE SubmitNew(c)
    <2>1. ASSUME OwnRecord(c), NEW d \in Call, OpOf[d] = OpOf[c]
          PROVE  ~Past(d) /\ pc[d] \in {"idle", "ended"} /\ d \notin executed
      <3>1. Fits(d) /\ record[OpOf[d]].status = "none" /\ ~IsPublish(d)
        BY <1>1, <2>1, Sharers DEF SubmitNew, IsPublish, OwnInv
      <3> QED BY <3>1 DEF Past, Fits, Recorded, TypeOK, Busy, Wrapping
    <2>2. OwnRecord(c) => Recorded(c)' /\ Covered(c)'
      BY <1>1, <2>1 DEF SubmitNew, Recorded, Covered, IsPublish, TypeOK, Busy, Wrapping
    <2> QED BY <1>1, <2>1, <2>2, WorkKeeps DEF SubmitNew, TypeOK
  <1>2. CASE PublishReuses(c)
    <2>1. ~OwnRecord(c)
      BY <1>2 DEF PublishReuses, OwnInv, Fits, Recorded, IsPublish
    <2> QED BY <1>2, <2>1, WorkKeeps DEF PublishReuses, TypeOK
  <1>3. CASE SubmitAgain(c) \/ PublishLooks(c) \/ BatchLooks(c) \/ PublishRefused(c)
    <2>1. /\ UNCHANGED <<claim, my, record, dirty, executed, rc>>
          /\ \E to \in {"save", "ended"} : pc' = [pc EXCEPT ![c] = to]
      BY <1>3 DEF SubmitAgain, PublishLooks, BatchLooks, PublishRefused
    <2>2. Moves(c)
      BY <1>3 DEF SubmitAgain, PublishLooks, BatchLooks, PublishRefused, Moves, IsPublish, TypeOK
    <2> QED BY <2>1, <2>2, CallMoves
  <1> QED BY <1>1, <1>2, <1>3 DEF Submit

\* The steps of a call that write its record, change the files or take the slot.
LEMMA WorkOwn ==
  ASSUME TypeOK, OnceInv, OwnInv, NEW c \in Call,
         \/ PublishSaves(c) \/ Acquire(c) \/ BeginWork(c) \/ WorkSucceeds(c) \/ WorkFails(c)
         \/ WriteRecord(c) \/ WriteUnsettled(c)
  PROVE  OwnInv'
  <1> USE RequestFlowAssumption
  <1>0. OwnRecord(c) => Fits(c)
    BY DEF OwnInv
  <1>1. ASSUME OwnRecord(c), NEW d \in Call, OpOf[d] = OpOf[c], pc[c] \in Busy
        PROVE  ~Past(d) /\ (d # c => pc[d] \in {"idle", "ended"} /\ d \notin executed)
    BY <1>1, OthersAreTurnedAway DEF Past, Busy
  <1>2. CASE PublishSaves(c)
    <2>1. ASSUME OwnRecord(c), NEW d \in Call, OpOf[d] = OpOf[c] PROVE ~Past(d) /\ d = c
      BY <1>0, <1>2, <2>1, Sharers DEF PublishSaves, Fits, Recorded, Past, Wrapping
    <2>2. OwnRecord(c) => Recorded(c)' /\ Covered(c)'
      BY <1>0, <1>2 DEF PublishSaves, Fits, Recorded, Covered, TypeOK, Busy, Wrapping
    <2>3. /\ pc' = [pc EXCEPT ![c] = "request"] /\ UNCHANGED <<claim, rc, dirty, executed>>
          /\ \A d \in Call \ {c} : my'[d] = my[d]
          /\ \A o \in Op \ {OpOf[c]} : record'[o] = record[o]
      BY <1>2 DEF PublishSaves, TypeOK
    <2> QED BY <2>1, <2>2, <2>3, WorkKeeps
  <1>3. CASE Acquire(c)
    <2>0. pc[c] \in Busy
      BY <1>3 DEF Acquire, Acquiring, Busy, Wrapping
    <2>1. OwnRecord(c) => Recorded(c)'
      BY <1>0, <1>3, <2>0 DEF Acquire, Fits, Recorded, TypeOK, Busy, Wrapping
    <2>2. OwnRecord(c) => Covered(c)'
      BY <1>0, <1>3, <2>0 DEF Acquire, Fits, Recorded, Covered, Owns, TypeOK, Busy, Wrapping
    <2> QED BY <1>1, <1>3, <2>0, <2>1, <2>2, WorkKeeps DEF Acquire
  <1>4. CASE BeginWork(c)
    <2>0. pc[c] \in Busy /\ claim' = claim /\ my' = my /\ rc' = rc
      BY <1>4 DEF BeginWork, Busy, Wrapping
    <2>1. OwnRecord(c) => Recorded(c)'
      BY <1>0, <1>4, <2>0 DEF BeginWork, Fits, Recorded, TypeOK, Busy, Wrapping
    <2>2. OwnRecord(c) => Covered(c)'
      BY <1>0, <1>4 DEF BeginWork, Fits, Covered, Owns, TypeOK, Wrapping
    <2>3. \A o \in Op \ {OpOf[c]} : record'[o] = record[o] /\ (o \in dirty' <=> o \in dirty)
      <3>1. CASE IsPublish(c)
        BY <1>4, <3>1 DEF BeginWork, TypeOK
      <3>2. CASE ~IsPublish(c)
        BY <1>4, <3>2 DEF BeginWork
      <3> QED BY <3>1, <3>2
    <2>4. \A d \in Call \ {c} : my'[d] = my[d] /\ (d \in executed' <=> d \in executed)
      BY <1>4 DEF BeginWork
    <2>5. pc' = [pc EXCEPT ![c] = "working"]
      BY <1>4 DEF BeginWork
    <2> QED BY <1>1, <2>0, <2>1, <2>2, <2>3, <2>4, <2>5, WorkKeeps
  <1>5. CASE WorkSucceeds(c) \/ WorkFails(c)
    <2>0. /\ pc[c] = "working" /\ pc' = [pc EXCEPT ![c] = "record"]
          /\ UNCHANGED <<claim, my, rc, record, executed>>
          /\ dirty' = dirty \ {OpOf[c]} \/ (IsPublish(c) /\ dirty' = dirty)
      BY <1>5 DEF WorkSucceeds, WorkFails
    <2>1. OwnRecord(c) => Recorded(c)'
      BY <1>0, <2>0 DEF Fits, Recorded, TypeOK, Busy, Wrapping
    <2>2. OwnRecord(c) => Covered(c)'
      BY <1>0, <2>0 DEF Fits, Covered, TypeOK
    <2>3. \A o \in Op \ {OpOf[c]} : record'[o] = record[o] /\ (o \in dirty' <=> o \in dirty)
      BY <2>0 DEF TypeOK
    <2>4. pc[c] \in Busy
      BY <2>0 DEF Busy, Wrapping
    <2> QED BY <1>1, <2>0, <2>1, <2>2, <2>3, <2>4, WorkKeeps
  <1>6. CASE WriteRecord(c)
    <2>0. /\ pc[c] = "record" /\ pc' = [pc EXCEPT ![c] = "settle"]
          /\ UNCHANGED <<claim, my, rc, dirty, executed>> /\ verdict[c] \in Terminal
          /\ record' = [record EXCEPT ![OpOf[c]] = [status |-> verdict[c], req |-> my[c]]]
      BY <1>6 DEF WriteRecord, OnceInv, RequestKnown
    <2>1. OwnRecord(c) => Recorded(c)'
      BY <1>0, <2>0 DEF Fits, Recorded, TypeOK, Busy, Wrapping
    <2>2. OwnRecord(c) => Covered(c)'
      BY <1>0, <2>0 DEF Fits, Covered, TypeOK, Wrapping
    <2>3. ASSUME OwnRecord(c), NEW d \in Call, OpOf[d] = OpOf[c]
          PROVE  /\ Past(d) => Past(d)'
                 /\ d # c => pc[d] \in {"idle", "ended"} /\ d \notin executed
      <3>1. Past(d) => Past(d)'
        BY <2>0, <2>3 DEF Past, TypeOK, Wrapping
      <3> QED BY <2>0, <2>3, <3>1, OthersAreTurnedAway DEF Wrapping
    <2>4. \A o \in Op \ {OpOf[c]} : record'[o] = record[o]
      BY <2>0 DEF TypeOK
    <2> QED BY <2>0, <2>1, <2>2, <2>3, <2>4, WorkKeeps
  <1>7. CASE WriteUnsettled(c)
    <2>0. /\ pc[c] = "recordUnsettled" /\ pc' = [pc EXCEPT ![c] = "ended"]
          /\ UNCHANGED <<claim, my, rc, dirty, executed>>
          /\ record' = [record EXCEPT ![OpOf[c]] =
                          [status |-> "reconciliation-required", req |-> my[c]]]
      BY <1>7 DEF WriteUnsettled
    <2>1. OwnRecord(c) => Recorded(c)'
      BY <1>0, <2>0 DEF Fits, Recorded, TypeOK, Busy, Wrapping
    <2>2. OwnRecord(c) => Covered(c)'
      BY <1>0, <2>0 DEF Fits, Covered, Owns, TypeOK, Wrapping
    <2>3. \A o \in Op \ {OpOf[c]} : record'[o] = record[o] /\ (o \in dirty' <=> o \in dirty)
      BY <2>0 DEF TypeOK
    <2>4. pc[c] \in Busy
      BY <2>0 DEF Busy, Wrapping
    <2> QED BY <1>1, <2>0, <2>1, <2>2, <2>3, <2>4, WorkKeeps
  <1> QED BY <1>2, <1>3, <1>4, <1>5, <1>6, <1>7

\* The slot is given back by its owner, whose changes are settled by then.
LEMMA GivesBackOwn ==
  ASSUME TypeOK, OnceInv, OwnInv, NEW c \in Call, GiveBack(c) \/ ReleaseClaim(c)
  PROVE  OwnInv'
  <1>0. /\ UNCHANGED <<my, record, dirty, executed, rc>> /\ pc' = [pc EXCEPT ![c] = "ended"]
        /\ ReleaseIf(claim.owner = c)
        /\ pc[c] \in {"giveback", "release"}
    BY DEF GiveBack, ReleaseClaim
  <1>1. OwnRecord(c) => IsPublish(c) \/ c \notin executed \/ OpOf[c] \notin dirty
    BY <1>0 DEF OwnInv, Fits, Covered, Wrapping, OnceInv, ExecutedIsOver, Over
  <1>2. Frame
    BY <1>0, <1>1 DEF Frame, Moves, Owns, OwnInv, Fits, TypeOK
  <1> QED BY <1>2, FrameKeeps

LEMMA CallStepOwn ==
  ASSUME TypeOK, OnceInv, OwnInv, NEW c \in Call, CallStep(c)
  PROVE  OwnInv'
  <1>1. CASE \/ CreateRequest(c) \/ AcquireBlocked(c) \/ AcquireReconciles(c) \/ AcquireTimeout(c)
             \/ HumanDeadline(c) \/ NoteWaiting(c) \/ NoteBlocked(c) \/ Promote(c)
             \/ PromoteConflict(c) \/ LeaseTimeout(c) \/ WorkUnsettled(c) \/ SettleRequest(c)
             \/ UnsettleRequest(c)
    <2>1. UNCHANGED <<claim, my, record, dirty, executed>>
      BY <1>1 DEF CreateRequest, AcquireBlocked, AcquireReconciles, AcquireTimeout, HumanDeadline,
         NoteWaiting, NoteBlocked, Promote, PromoteConflict, LeaseTimeout, WorkUnsettled,
         SettleRequest, UnsettleRequest
    <2>2. \A a \in Actor : rc'[a].at \in Judged => rc'[a] = rc[a]
      BY <1>1 DEF CreateRequest, AcquireBlocked, AcquireReconciles, AcquireTimeout, HumanDeadline,
         NoteWaiting, NoteBlocked, Promote, PromoteConflict, LeaseTimeout, WorkUnsettled,
         SettleRequest, UnsettleRequest, Judged, TypeOK
    <2>3. \E to : pc' = [pc EXCEPT ![c] = to]
      BY <1>1 DEF CreateRequest, AcquireBlocked, AcquireReconciles, AcquireTimeout, HumanDeadline,
         NoteWaiting, NoteBlocked, Promote, PromoteConflict, LeaseTimeout, WorkUnsettled,
         SettleRequest, UnsettleRequest
    <2>4. Moves(c)
      BY <1>1 DEF CreateRequest, AcquireBlocked, AcquireReconciles, AcquireTimeout, HumanDeadline,
         NoteWaiting, NoteBlocked, Promote, PromoteConflict, LeaseTimeout, WorkUnsettled,
         SettleRequest, UnsettleRequest, Acquiring, Moves, Busy, Wrapping, TypeOK
    <2> QED BY <2>1, <2>2, <2>3, <2>4, CallMoves
  <1>2. CASE FlagClaim(c)
    <2>1. Frame
      BY <1>2 DEF FlagClaim, Frame, Moves, Owns, OwnInv, Fits, Busy, Wrapping, TypeOK
    <2> QED BY <2>1, FrameKeeps
  <1> QED BY <1>1, <1>2, WorkOwn, GivesBackOwn DEF CallStep

\* A reconciler judges by the record, and releases what it judged.
LEMMA ReconcileOwn ==
  ASSUME TypeOK, OwnInv, NEW a \in Actor, Reconcile(a)
  PROVE  OwnInv'
  <1>0. UNCHANGED <<pc, my, record, dirty, executed>> /\ \A d \in Call : Moves(d)
    BY DEF Reconcile, CheckOperation, ReconcileSettled, ReconcileRelease, ReconcileUnsettled,
       ReconcileMark, Moves
  <1>1. ASSUME NEW b \in Actor, NEW d \in Call, OwnRecord(d), rc'[b].at \in Judged, rc'[b].req = d
        PROVE  Past(d)
    <2>1. CASE rc[b].at \in Judged /\ rc[b].req = d
      BY <1>1, <2>1 DEF OwnInv, Fits
    <2>2. CASE b = a /\ CheckOperation(a)
      <3>1. /\ record[OpOf[d]].status \in Terminal
            /\ ~IsPublish(d) => OpOf[d] \notin dirty
        BY <1>1, <2>2 DEF CheckOperation, Assessment, Judged, IsPublish, TypeOK
      <3>2. ASSUME NEW e \in Call, OpOf[e] = OpOf[d]
            PROVE  pc[e] \in Wrapping \cup {"idle", "ended"}
        <4>1. Fits(e) /\ record[OpOf[e]].status \in Terminal
          BY <1>1, <3>1, <3>2, Sharers DEF OwnInv
        <4>2. e # d => ~IsPublish(e)
          BY <1>1, <3>2, Sharers
        <4> QED BY <4>1, <4>2 DEF Fits, Recorded, Busy, TypeOK
      <3> QED BY <3>1, <3>2 DEF Past
    <2> QED BY <1>1, <2>1, <2>2 DEF Reconcile, CheckOperation, ReconcileSettled, ReconcileRelease,
            ReconcileUnsettled, ReconcileMark, Judged, TypeOK
  <1>2. ASSUME NEW d \in Call, OwnRecord(d), Owns(d)
        PROVE  \/ Owns(d)'
               \/ /\ pc'[d] \notin {"promote", "lease", "working"}
                  /\ IsPublish(d) \/ d \notin executed \/ OpOf[d] \notin dirty
    <2>1. CASE ReconcileRelease(a)
      <3>1. CASE rc[a].req = d
        <4>1. Past(d)
          BY <1>2, <2>1, <3>1 DEF ReconcileRelease, OwnInv, Fits, Judged
        <4> QED BY <1>0, <4>1 DEF Past, Wrapping
      <3>2. CASE rc[a].req # d
        BY <1>2, <2>1, <3>2 DEF ReconcileRelease, Owns
      <3> QED BY <3>1, <3>2
    <2>2. CASE ~ReconcileRelease(a)
      BY <1>2, <2>2 DEF Reconcile, CheckOperation, ReconcileSettled, ReconcileUnsettled,
         ReconcileMark, Owns, TypeOK
    <2> QED BY <2>1, <2>2
  <1>3. Frame
    BY <1>0, <1>1, <1>2 DEF Frame
  <1> QED BY <1>3, FrameKeeps

\* Boot pass and agent, exits, crashes and time-outs.
LEMMA OthersOwn ==
  ASSUME TypeOK, OwnInv,
         \/ \E c \in Call : ControlLockTimeout(c) \/ Exit(c) \/ CrashCall(c)
         \/ BootStep \/ AgentStep \/ CrashDashboard \/ UNCHANGED vars
  PROVE  OwnInv'
  <1>1. CASE BootStep
    <2>1. UNCHANGED <<pc, my, record, dirty, executed>>
      BY <1>1 DEF BootStep, BootTakesSnapshot, BootSettlesAgent, BootListsRequests,
         BootReconcilesRequest, BootEnds
    <2>2. \A a \in Actor : rc'[a].at \in Judged => rc'[a] = rc[a]
      BY <1>1 DEF BootStep, BootTakesSnapshot, BootSettlesAgent, BootListsRequests,
         BootReconcilesRequest, BootEnds, Judged, TypeOK
    <2>3. \A d \in Call : Owns(d) => Owns(d)'
      BY <1>1, RequestFlowAssumption DEF BootStep, BootTakesSnapshot, BootSettlesAgent,
         BootListsRequests, BootReconcilesRequest, BootEnds, Owns
    <2> QED BY <2>1, <2>2, <2>3, FrameKeeps DEF Frame, Moves, OwnInv, Fits
  <1>2. CASE AgentStep
    <2>1. UNCHANGED <<pc, my, record, dirty, executed>>
      BY <1>2 DEF AgentStep, AgentAdmits, AgentAcquires, AgentReconciles, AgentGivesUp, AgentSettles
    <2>2. \A a \in Actor : rc'[a].at \in Judged => rc'[a] = rc[a]
      BY <1>2 DEF AgentStep, AgentAdmits, AgentAcquires, AgentReconciles, AgentGivesUp,
         AgentSettles, Judged, TypeOK
    <2>3. \A d \in Call : Owns(d) => Owns(d)'
      BY <1>2, RequestFlowAssumption DEF AgentStep, AgentAdmits, AgentAcquires, AgentReconciles,
         AgentGivesUp, AgentSettles, Owns
    <2> QED BY <2>1, <2>2, <2>3, FrameKeeps DEF Frame, Moves, OwnInv, Fits
  <1>3. CASE \E c \in Call : ControlLockTimeout(c)
    <2>1. PICK c \in Call : ControlLockTimeout(c)
      BY <1>3
    <2>2. /\ UNCHANGED <<claim, my, record, dirty, executed>>
          /\ \E to : pc' = [pc EXCEPT ![c] = to]
          /\ \A a \in Actor : rc'[a].at \in Judged => rc'[a] = rc[a]
      BY <2>1 DEF ControlLockTimeout, Judged, TypeOK
    <2>3. Moves(c)
      BY <2>1 DEF ControlLockTimeout, NeedsLock, Moves, Busy, Wrapping, TypeOK
    <2> QED BY <2>2, <2>3, CallMoves
  <1>4. CASE CrashDashboard \/ \E c \in Call : Exit(c) \/ CrashCall(c)
    <2>1. UNCHANGED <<claim, my, record, dirty, executed>>
      BY <1>4 DEF CrashDashboard, Exit, CrashCall
    <2>2. \A d \in Call : Moves(d)
      BY <1>4 DEF CrashDashboard, Exit, CrashCall, Kill, Moves
    <2>3. \A a \in Actor : rc'[a].at \in Judged => rc'[a] = rc[a]
      <3>1. CASE CrashDashboard
        BY <3>1 DEF CrashDashboard, Judged
      <3>2. CASE \E c \in Call : Exit(c) \/ CrashCall(c)
        BY <3>2 DEF Exit, CrashCall, Judged, TypeOK
      <3> QED BY <1>4, <3>1, <3>2
    <2> QED BY <2>1, <2>2, <2>3, FrameKeeps DEF Frame, Owns, OwnInv, Fits
  <1>5. CASE UNCHANGED vars
    BY <1>5, FrameKeeps DEF vars, Frame, Moves, Owns, OwnInv, Fits
  <1> QED BY <1>1, <1>2, <1>3, <1>4, <1>5

LEMMA NextOwn == TypeOK /\ OnceInv /\ OwnInv /\ [Next]_vars => OwnInv'
BY SubmitOwn, CallStepOwn, ReconcileOwn, OthersOwn DEF Next

LEMMA OwnInvariant == Spec => [](TypeOK /\ OnceInv /\ OwnInv)
  <1>1. Init => TypeOK /\ OnceInv /\ OwnInv
    BY InitTypeOK, InitOnce, InitOwn
  <1>2. TypeOK /\ OnceInv /\ OwnInv /\ [Next]_vars => (TypeOK /\ OnceInv /\ OwnInv)'
    BY NextTypeOK, NextOnce, NextOwn
  <1> QED BY <1>1, <1>2, PTL DEF Spec

\* The changes of a human step are never left behind a free slot, whatever dies
\* or times out, and whatever the boot pass reconciles meanwhile.
THEOREM ChangesAreHeld == Spec => []HeldUntilSettled
  <1>1. \A c \in Call : ~IsPublish(c) => OwnRecord(c)
    BY RecordsApart DEF OwnRecord, IsPublish
  <1>2. TypeOK /\ OwnInv => HeldUntilSettled
    BY <1>1, RequestFlowAssumption DEF OwnInv, Fits, Covered, Owns, HeldUntilSettled, TypeOK
  <1> QED BY <1>2, OwnInvariant, PTL

-----------------------------------------------------------------------------
(***************************************************************************)
(* Without the boot pass a reconciler looks only at claims of processes    *)
(* that do not run any more, so that a call has the slot from its          *)
(* acquisition until it gives it back itself.                              *)
(***************************************************************************)

Serving == {"promote", "giveback", "lease", "working", "record", "settle", "release", "unsettle",
            "flag"}

HoldInv ==
  /\ boot = NotBooted /\ rc[Boot].at = "off"
  /\ \A c \in gone : pc[c] = "ended"
  /\ \A a \in Actor : rc[a].at # "off" => rc[a].owner \in gone
  /\ \A c \in Call : pc[c] \in Serving => claim.owner = c /\ claim.req = my[c]

LEMMA InitHold == Init => HoldInv
  BY RequestFlowAssumption DEF Init, HoldInv, Serving

\* What most steps do: nobody gets the slot, and only its owner, or the
\* reconciler of a process that is gone, takes it from its owner.
Keeps ==
  /\ boot' = boot /\ (rc[Boot].at = "off" => rc'[Boot].at = "off")
  /\ gone \subseteq gone'
  /\ \A c \in gone' : pc'[c] = "ended"
  /\ \A a \in Actor : rc'[a].at # "off" => rc'[a].owner \in gone'
  /\ \A c \in Call : pc'[c] \in Serving =>
       /\ pc[c] \in Serving /\ my'[c] = my[c]
       /\ claim.owner = c => claim'.owner = claim.owner /\ claim'.req = claim.req

LEMMA KeepsHold == TypeOK /\ HoldInv /\ Keeps => HoldInv'
  BY DEF HoldInv, Keeps

LEMMA CallHold ==
  ASSUME TypeOK, RequestKnown, HoldInv, NEW c \in Call, Submit(c) \/ CallStep(c) \/ ControlLockTimeout(c)
  PROVE  HoldInv'
  <1>0. /\ UNCHANGED <<boot, gone>>
        /\ pc[c] # "ended"
        /\ \E to : pc' = [pc EXCEPT ![c] = to]
    BY DEF Submit, SubmitNew, SubmitAgain, PublishReuses, PublishLooks, BatchLooks, PublishRefused,
       CallStep, PublishSaves, CreateRequest, Acquire, AcquireBlocked, AcquireReconciles,
       AcquireTimeout, HumanDeadline, NoteWaiting, NoteBlocked, Promote, PromoteConflict, GiveBack,
       BeginWork, LeaseTimeout, WorkSucceeds, WorkFails, WorkUnsettled, WriteRecord, SettleRequest,
       ReleaseClaim, UnsettleRequest, FlagClaim, WriteUnsettled, ControlLockTimeout, NeedsLock,
       Acquiring
  <1>1. \A d \in Call : pc'[d] = pc[d] \/ d = c
    BY <1>0 DEF TypeOK
  <1>2. \A d \in gone' : pc'[d] = "ended"
    BY <1>0, <1>1 DEF HoldInv, TypeOK
  <1>3. \A a \in Actor : rc'[a].at # "off" => rc'[a].owner \in gone'
    <2>1. CASE AcquireReconciles(c)
      BY <1>0, <2>1 DEF AcquireReconciles, OwnerIsDead, HoldInv, TypeOK
    <2>2. CASE ControlLockTimeout(c)
      BY <1>0, <2>2 DEF ControlLockTimeout, HoldInv, TypeOK
    <2>3. CASE rc' = rc
      BY <1>0, <2>3 DEF HoldInv
    <2> QED BY <2>1, <2>2, <2>3
         DEF Submit, SubmitNew, SubmitAgain, PublishReuses, PublishLooks, BatchLooks,
         PublishRefused, CallStep, PublishSaves, CreateRequest, Acquire, AcquireBlocked,
         AcquireTimeout, HumanDeadline, NoteWaiting, NoteBlocked, Promote, PromoteConflict, GiveBack,
         BeginWork, LeaseTimeout, WorkSucceeds, WorkFails, WorkUnsettled, WriteRecord,
         SettleRequest, ReleaseClaim, UnsettleRequest, FlagClaim, WriteUnsettled
  <1>4. rc'[Boot] = rc[Boot]
    <2>1. rc' = rc \/ \E r : rc' = [rc EXCEPT ![c] = r]
      BY DEF Submit, SubmitNew, SubmitAgain, PublishReuses, PublishLooks, BatchLooks,
         PublishRefused, CallStep, PublishSaves, CreateRequest, Acquire, AcquireBlocked,
         AcquireReconciles, AcquireTimeout, HumanDeadline, NoteWaiting, NoteBlocked, Promote,
         PromoteConflict, GiveBack, BeginWork, LeaseTimeout, WorkSucceeds, WorkFails,
         WorkUnsettled, WriteRecord, SettleRequest, ReleaseClaim, UnsettleRequest, FlagClaim,
         WriteUnsettled, ControlLockTimeout
    <2> QED BY <2>1, RequestFlowAssumption DEF TypeOK
  <1>5. CASE Acquire(c)
    <2>1. \A d \in Call : pc'[d] \in Serving => claim'.owner = d /\ claim'.req = my'[d]
      BY <1>1, <1>5, RequestFlowAssumption DEF Acquire, HoldInv
    <2> QED BY <1>0, <1>2, <1>3, <1>4, <2>1 DEF HoldInv
  <1>6. CASE ~Acquire(c)
    <2>1. pc'[c] \in Serving => pc[c] \in Serving /\ my'[c] = my[c] /\ claim'.owner = claim.owner /\ claim'.req = claim.req
      <3>1. CASE Submit(c) \/ ControlLockTimeout(c)
        BY <3>1 DEF Submit, SubmitNew, SubmitAgain, PublishReuses, PublishLooks, BatchLooks,
           PublishRefused, ControlLockTimeout, NeedsLock, Serving, TypeOK
      <3>2. CASE CallStep(c)
        BY <1>6, <3>2 DEF CallStep, PublishSaves, CreateRequest, AcquireBlocked, AcquireReconciles,
           AcquireTimeout, HumanDeadline, NoteWaiting, NoteBlocked, Promote, PromoteConflict,
           GiveBack, BeginWork, LeaseTimeout, WorkSucceeds, WorkFails, WorkUnsettled, WriteRecord,
           SettleRequest, ReleaseClaim, UnsettleRequest, FlagClaim, WriteUnsettled, Acquiring,
           Serving, TypeOK
      <3> QED BY <3>1, <3>2
    <2>2. ASSUME NEW d \in Call \ {c}, claim.owner = d
          PROVE  my'[d] = my[d] /\ claim'.owner = claim.owner /\ claim'.req = claim.req
      <3>1. CASE Submit(c) \/ ControlLockTimeout(c)
        BY <2>2, <3>1 DEF Submit, SubmitNew, SubmitAgain, PublishReuses, PublishLooks, BatchLooks,
           PublishRefused, ControlLockTimeout, TypeOK
      <3>2. CASE CallStep(c)
        BY <1>6, <2>2, <3>2 DEF CallStep, PublishSaves, CreateRequest, AcquireBlocked,
           AcquireReconciles, AcquireTimeout, HumanDeadline, NoteWaiting, NoteBlocked, Promote,
           PromoteConflict, GiveBack, BeginWork, LeaseTimeout, WorkSucceeds, WorkFails,
           WorkUnsettled, WriteRecord, SettleRequest, ReleaseClaim, UnsettleRequest, FlagClaim,
           WriteUnsettled, TypeOK
      <3> QED BY <3>1, <3>2
    <2>3. Keeps
      BY <1>0, <1>1, <1>2, <1>3, <1>4, <2>1, <2>2 DEF Keeps, HoldInv
    <2> QED BY <2>3, KeepsHold
  <1> QED BY <1>5, <1>6

LEMMA OthersHold ==
  ASSUME TypeOK, HoldInv, Boot \notin Others,
         \/ \E a \in Actor : Reconcile(a)
         \/ \E c \in Call : Exit(c) \/ CrashCall(c)
         \/ BootStep \/ AgentStep \/ CrashDashboard \/ UNCHANGED vars
  PROVE  HoldInv'
  <1> USE RequestFlowAssumption
  <1>0. boot.at = "off"
    BY DEF HoldInv
  <1>1. ASSUME NEW a \in Actor, Reconcile(a) PROVE Keeps
    <2>0. /\ UNCHANGED <<boot, gone, pc, my>>
          /\ rc[a].at # "off"
          /\ \/ rc' = [rc EXCEPT ![a] = NotReconciling]
             \/ \E to : rc' = [rc EXCEPT ![a] = [@ EXCEPT !.at = to]]
      BY <1>1 DEF Reconcile, CheckOperation, ReconcileSettled, ReconcileRelease, ReconcileUnsettled,
         ReconcileMark
    <2>1. \A b \in Actor : rc'[b].at # "off" => rc[b].at # "off" /\ rc'[b].owner = rc[b].owner
      BY <2>0 DEF TypeOK
    <2>2. ASSUME NEW c \in Call, pc[c] \in Serving, claim.owner = c
          PROVE  claim'.owner = claim.owner /\ claim'.req = claim.req
      <3>1. rc[a].owner # c
        BY <1>1, <2>2 DEF HoldInv, Reconcile, CheckOperation, ReconcileSettled, ReconcileRelease,
           ReconcileUnsettled, ReconcileMark, Serving
      <3> QED BY <1>1, <2>2, <3>1 DEF Reconcile, CheckOperation, ReconcileSettled, ReconcileRelease,
              ReconcileUnsettled, ReconcileMark, TypeOK
    <2> QED BY <2>0, <2>1, <2>2 DEF HoldInv, Keeps
  <1>2. CASE AgentStep
    <2>0. /\ UNCHANGED <<boot, gone, pc, my>>
          /\ rc' = rc \/ \E r : rc' = [rc EXCEPT ![Agent] = r]
      BY <1>2 DEF AgentStep, AgentAdmits, AgentAcquires, AgentReconciles, AgentGivesUp, AgentSettles
    <2>1. rc'[Boot] = rc[Boot]
      BY <2>0 DEF TypeOK
    <2>2. \A a \in Actor : rc'[a].at # "off" => rc'[a].owner \in gone
      BY <1>2 DEF AgentStep, AgentAdmits, AgentAcquires, AgentReconciles, AgentGivesUp, AgentSettles,
         OwnerIsDead, HoldInv, TypeOK
    <2>3. \A c \in Call : claim.owner = c => claim'.owner = claim.owner /\ claim'.req = claim.req
      BY <1>2 DEF AgentStep, AgentAdmits, AgentAcquires, AgentReconciles, AgentGivesUp,
         AgentSettles, TypeOK
    <2>4. Keeps
      BY <2>0, <2>1, <2>2, <2>3 DEF HoldInv, Keeps
    <2> QED BY <2>4, KeepsHold
  <1>3. ~BootStep
    BY <1>0 DEF BootStep, BootTakesSnapshot, BootSettlesAgent, BootListsRequests,
       BootReconcilesRequest, BootEnds, HoldInv
  <1>4. CASE CrashDashboard \/ \E c \in Call : Exit(c) \/ CrashCall(c)
    <2>1. UNCHANGED <<claim, my>> /\ boot' = boot /\ gone \subseteq gone'
      BY <1>4 DEF CrashDashboard, Exit, CrashCall, Kill, HoldInv
    <2>2. \A c \in Call : pc'[c] = pc[c] \/ pc'[c] = "ended"
      BY <1>4 DEF CrashDashboard, Exit, CrashCall, Kill
    <2>3. \A c \in gone' : pc'[c] = "ended"
      BY <1>4 DEF CrashDashboard, Exit, CrashCall, Kill, HoldInv, TypeOK
    <2>4. \A a \in Actor : rc'[a].at # "off" => rc'[a] = rc[a]
      <3>1. CASE CrashDashboard
        BY <3>1 DEF CrashDashboard
      <3>2. CASE \E c \in Call : Exit(c) \/ CrashCall(c)
        BY <3>2 DEF Exit, CrashCall, TypeOK
      <3> QED BY <1>4, <3>1, <3>2
    <2>5. Keeps
      BY <2>1, <2>2, <2>3, <2>4 DEF HoldInv, Keeps, Serving
    <2> QED BY <2>5, KeepsHold
  <1>5. CASE UNCHANGED vars
    BY <1>5, KeepsHold DEF vars, Keeps, HoldInv
  <1> QED BY <1>1, <1>2, <1>3, <1>4, <1>5, KeepsHold

LEMMA NextHold ==
  ASSUME Boot \notin Others PROVE TypeOK /\ OnceInv /\ HoldInv /\ [Next]_vars => HoldInv'
BY CallHold, OthersHold DEF Next, OnceInv

LEMMA HoldInvariant == ASSUME Boot \notin Others PROVE Spec => [](TypeOK /\ OnceInv /\ HoldInv)
  <1>1. Init => TypeOK /\ OnceInv /\ HoldInv
    BY InitTypeOK, InitOnce, InitHold
  <1>2. TypeOK /\ OnceInv /\ HoldInv /\ [Next]_vars => (TypeOK /\ OnceInv /\ HoldInv)'
    BY NextTypeOK, NextOnce, NextHold
  <1> QED BY <1>1, <1>2, PTL DEF Spec

\* A tracked mutation is in progress only under the claim of its call. What
\* could take the claim away is the boot pass, when it judges a running publish
\* by the record that an earlier try left as failed: the theorem is for the
\* system without that pass, and for the system where no publish is retried.
THEOREM WorkNeedsClaim ==
  ASSUME Boot \notin Others \/ \A c \in Call : OwnRecord(c)
  PROVE  Spec => []WorkUnderClaim
  <1>1. CASE Boot \notin Others
    <2>1. HoldInv => WorkUnderClaim
      BY DEF HoldInv, WorkUnderClaim, Serving
    <2> QED BY <1>1, <2>1, HoldInvariant, PTL
  <1>2. CASE \A c \in Call : OwnRecord(c)
    <2>1. OwnInv => WorkUnderClaim
      BY <1>2 DEF OwnInv, Fits, Covered, Owns, WorkUnderClaim
    <2> QED BY <2>1, OwnInvariant, PTL
  <1> QED BY <1>1, <1>2

-----------------------------------------------------------------------------
(***************************************************************************)
(* RequestFlow implements WorkspaceSlot, without the boot pass and without *)
(* time-outs of the control lock: every step is one of the slot's, or none.*)
(* What the slot asks for is that it serves the request that is promoted   *)
(* and executed (its owner drew up the claim for it), and that it is given *)
(* up only when that request is done.                                      *)
(***************************************************************************)

Done == Terminal \cup {"blocked-by-recovery", "reconciliation-required"}
Working == {"lease", "working", "record", "settle", "unsettle"}
Queueing == {"acquire", "await", "reacquire", "barred"}

\* A claim is nobody's, the agent's without a request, or a call's with its own.
ClaimKnown ==
  /\ claim.owner = NoOne => claim = Free
  /\ claim.owner = Agent => claim.req = NoOne
  /\ \A c \in Call : claim.owner = c =>
       /\ claim.req \in Call /\ claim.req = my[c]
       /\ pc[c] \notin {"idle", "save", "request"}
  /\ agent = "holding" => claim.owner = Agent

\* A reconciler knows the request, and releases the claim of one that is done.
ReleaseIsDue ==
  \A a \in Actor : /\ rc[a].at # "off" => rc[a].req \in Call
                   /\ \A r \in Call : rc[a].at = "release" /\ rc[a].req = r => request[r] \in Done

\* The slot serves the request that runs, for a call that works or is dead.
RunningIsServed ==
  \A r \in Call : request[r] = "running" =>
    /\ claim.req = r
    /\ \E c \in Call : claim.owner = c /\ pc[c] \in Working \cup {"ended"}

\* How far a call is says how far its request is.
Progress ==
  \A c, r \in Call : my[c] = r =>
    /\ pc[c] \notin {"idle", "save", "request", "ended"} => request[r] # "none"
    /\ pc[c] \in Working => request[r] \notin Untouched
    /\ pc[c] \in {"release", "flag", "giveback"} => request[r] \in Done

SlotInv == ClaimKnown /\ ReleaseIsDue /\ RunningIsServed /\ Progress

LEMMA InitSlot == Init => SlotInv
  BY RequestFlowAssumption
     DEF Init, SlotInv, ClaimKnown, ReleaseIsDue, RunningIsServed, Progress, Untouched, Working

\* A request only moves forward; to running it moves in Promote.
Forward ==
  \A r \in Call :
    \/ request'[r] = request[r]
    \/ request[r] = "none" /\ request'[r] = "queued"
    \/ request[r] \in Pending /\ request'[r] \in {"waiting-for-workspace", "blocked-by-recovery"}
    \/ request[r] \in InFlight /\ request'[r] \in Done

\* What becomes of the claim when nobody takes it.
Yields ==
  \/ UNCHANGED <<claim, agent>>
  \/ UNCHANGED claim /\ agent' # "holding"
  \/ claim.owner # NoOne /\ claim' = [claim EXCEPT !.status = "recovery-required"]
     /\ (agent' = "holding" => agent = "holding")
  \/ claim' = Free /\ agent' # "holding"
     /\ \A r \in Call : claim.req = r => request'[r] # "running"

\* Where a call goes with its request.
Advances(c) ==
  \/ pc[c] \in {"idle", "save"} /\ pc'[c] \in {"save", "request"}
  \/ /\ my'[c] = my[c]
     /\ \/ pc'[c] = pc[c] \/ pc'[c] = "ended"
        \/ pc[c] = "request" /\ pc'[c] = "acquire" /\ request'[my[c]] # "none"
        \/ pc[c] \in Queueing /\ pc'[c] \in Queueing
        \/ pc[c] \in Working /\ pc'[c] \in Working
        \/ pc[c] = "promote" /\ pc'[c] = "giveback" /\ request[my[c]] \notin Pending
        \/ pc[c] \in {"settle", "unsettle"} /\ pc'[c] \in {"release", "flag"} /\ request'[my[c]] \in Done
        \/ pc[c] = "flag" /\ pc'[c] = "recordUnsettled"

Steady ==
  /\ Forward
  /\ Yields
  /\ \A c \in Call : Advances(c)
  /\ \A a \in Actor : /\ rc'[a].at # "off" => rc'[a].req \in Call
                      /\ \A r \in Call : rc'[a].at = "release" /\ rc'[a].req = r => request'[r] \in Done

LEMMA SteadyKeeps == TypeOK /\ OnceInv /\ HoldInv /\ SlotInv /\ Steady => SlotInv'
  <1> SUFFICES ASSUME TypeOK, OnceInv, HoldInv, SlotInv, Steady PROVE SlotInv'
    OBVIOUS
  <1> USE RequestFlowAssumption
  <1>0. \A c \in Call : pc[c] \notin {"idle", "save", "ended"} => my[c] \in Call
    BY DEF OnceInv, RequestKnown
  <1>1. ClaimKnown'
    <2>1. \A c \in Call : pc[c] \notin {"idle", "save"} => my'[c] = my[c] /\ pc'[c] \notin {"idle", "save"}
      BY DEF Steady, Advances, Queueing, Working
    <2>2. \A c \in Call : pc[c] \notin {"idle", "save", "request"} => pc'[c] # "request"
      BY DEF Steady, Advances, Queueing, Working
    <2> QED BY <2>1, <2>2 DEF SlotInv, ClaimKnown, Steady, Yields, TypeOK
  <1>2. ReleaseIsDue'
    BY DEF Steady, ReleaseIsDue
  <1>3. RunningIsServed'
    <2> SUFFICES ASSUME NEW r \in Call, request'[r] = "running"
                 PROVE  /\ claim'.req = r
                        /\ \E c \in Call : claim'.owner = c /\ pc'[c] \in Working \cup {"ended"}
      BY DEF RunningIsServed
    <2>1. request[r] = "running"
      BY DEF Steady, Forward, Done
    <2>2. PICK c \in Call : claim.req = r /\ claim.owner = c /\ pc[c] \in Working \cup {"ended"}
      BY <2>1 DEF SlotInv, RunningIsServed
    <2>3. claim'.req = r /\ claim'.owner = c
      BY <2>2 DEF Steady, Yields, TypeOK
    <2>4. my[c] = r
      BY <2>2 DEF SlotInv, ClaimKnown
    <2>5. pc'[c] \in Working \cup {"ended"}
      BY <2>2, <2>4 DEF Steady, Advances, Working, Queueing, Done
    <2> QED BY <2>3, <2>5
  <1>4. Progress'
    <2> SUFFICES ASSUME NEW c \in Call, NEW r \in Call, my'[c] = r
                 PROVE  /\ pc'[c] \notin {"idle", "save", "request", "ended"} => request'[r] # "none"
                        /\ pc'[c] \in Working => request'[r] \notin Untouched
                        /\ pc'[c] \in {"release", "flag", "giveback"} => request'[r] \in Done
      BY DEF Progress
    <2>1. CASE pc'[c] \in {"idle", "save", "request", "ended"}
      BY <2>1 DEF Working
    <2>2. CASE pc'[c] \notin {"idle", "save", "request", "ended"}
      <3>1. my[c] = r /\ Advances(c)
        BY <2>2 DEF Steady, Advances
      <3>2. /\ pc[c] \notin {"idle", "save", "request", "ended"} => request[r] # "none"
            /\ pc[c] \in Working => request[r] \notin Untouched
            /\ pc[c] \in {"release", "flag", "giveback"} => request[r] \in Done
        BY <3>1 DEF SlotInv, Progress
      <3>3. pc'[c] \notin {"idle", "save", "request", "ended"} => request'[r] # "none"
        BY <2>2, <3>1, <3>2 DEF Steady, Advances, Forward, Done, Queueing, Working
      <3>4. pc'[c] \in Working => request'[r] \notin Untouched
        BY <2>2, <3>1, <3>2 DEF Steady, Advances, Forward, Done, Queueing, Working, Untouched
      <3>5. pc[c] = "promote" /\ pc'[c] = "giveback" => request[r] \in Done
        BY <3>1, <3>2 DEF SlotInv, RunningIsServed, HoldInv, Serving, Advances, Working, Queueing,
           Done, TypeOK
      <3>6. pc'[c] \in {"release", "flag", "giveback"} => request'[r] \in Done
        BY <2>2, <3>1, <3>2, <3>5 DEF Steady, Advances, Forward, Done, Queueing, Working
      <3> QED BY <3>3, <3>4, <3>6
    <2> QED BY <2>1, <2>2
  <1> QED BY <1>1, <1>2, <1>3, <1>4 DEF SlotInv

LEMMA SubmitSteady ==
  ASSUME TypeOK, SlotInv, NEW c \in Call, Submit(c)
  PROVE  Steady
  <1>1. UNCHANGED <<request, claim, agent, rc>>
    BY DEF Submit, SubmitNew, SubmitAgain, PublishReuses, PublishLooks, BatchLooks, PublishRefused
  <1>2. \A d \in Call : Advances(d)
    BY DEF Submit, SubmitNew, SubmitAgain, PublishReuses, PublishLooks, BatchLooks, PublishRefused,
       Advances, TypeOK
  <1> QED BY <1>1, <1>2 DEF Steady, Forward, Yields, SlotInv, ReleaseIsDue

\* A step of one call that moves at most its own request.
LEMMA StepSteady ==
  ASSUME TypeOK, SlotInv, NEW c \in Call, NEW to, pc' = [pc EXCEPT ![c] = to],
         \A d \in Call \ {c} : my'[d] = my[d],
         Advances(c), Forward, Yields, UNCHANGED rc
  PROVE  Steady
  <1>1. \A d \in Call : Advances(d)
    BY DEF Advances, TypeOK
  <1>2. \A r \in Call : request[r] \in Done => request'[r] \in Done
    BY DEF Forward, Done
  <1> QED BY <1>1, <1>2 DEF Steady, SlotInv, ReleaseIsDue

LEMMA CallStepSteady ==
  ASSUME TypeOK, OnceInv, HoldInv, SlotInv, NEW c \in Call, CallStep(c), ~Acquire(c), ~Promote(c)
  PROVE  Steady
  <1> USE RequestFlowAssumption
  <1>1. CASE PublishSaves(c)
    BY <1>1, StepSteady DEF PublishSaves, Advances, Forward, Yields, TypeOK
  <1>2. CASE \/ AcquireBlocked(c) \/ AcquireTimeout(c) \/ HumanDeadline(c) \/ PromoteConflict(c)
             \/ BeginWork(c) \/ LeaseTimeout(c) \/ WorkSucceeds(c) \/ WorkFails(c)
             \/ WorkUnsettled(c) \/ WriteRecord(c) \/ WriteUnsettled(c)
    <2>1. UNCHANGED <<claim, agent, rc, my, request>> /\ \E to : pc' = [pc EXCEPT ![c] = to]
      BY <1>2 DEF AcquireBlocked, AcquireTimeout, HumanDeadline, PromoteConflict, BeginWork,
         LeaseTimeout, WorkSucceeds, WorkFails, WorkUnsettled, WriteRecord, WriteUnsettled
    <2>2. Advances(c)
      BY <1>2 DEF AcquireBlocked, AcquireTimeout, HumanDeadline, PromoteConflict, BeginWork,
         LeaseTimeout, WorkSucceeds, WorkFails, WorkUnsettled, WriteRecord, WriteUnsettled,
         Acquiring, Advances, Queueing, Working, TypeOK
    <2> QED BY <2>1, <2>2, StepSteady DEF Forward, Yields
  <1>3. CASE CreateRequest(c) \/ NoteWaiting(c) \/ NoteBlocked(c)
    <2>1. UNCHANGED <<claim, agent, rc, my>> /\ \E to : pc' = [pc EXCEPT ![c] = to]
      BY <1>3 DEF CreateRequest, NoteWaiting, NoteBlocked
    <2>2. Forward
      BY <1>3 DEF CreateRequest, NoteWaiting, NoteBlocked, Forward, TypeOK
    <2>3. my[c] \in Call
      BY <1>3 DEF CreateRequest, NoteWaiting, NoteBlocked, OnceInv, RequestKnown
    <2>4. Advances(c)
      BY <1>3, <2>3 DEF CreateRequest, NoteWaiting, NoteBlocked, Advances, Queueing, TypeOK
    <2> QED BY <2>1, <2>2, <2>4, StepSteady DEF Yields
  <1>4. CASE SettleRequest(c) \/ UnsettleRequest(c)
    <2>1. /\ UNCHANGED <<claim, agent, rc, my>> /\ my[c] \in Call /\ pc[c] \in Working
          /\ \E v \in Done : Transition(my[c], {"running"}, v)
          /\ pc[c] \in {"settle", "unsettle"}
          /\ \E to \in {"release", "flag"} : pc' = [pc EXCEPT ![c] = to]
      BY <1>4 DEF SettleRequest, UnsettleRequest, OnceInv, RequestKnown, Done, Working
    <2>2. Forward
      BY <2>1 DEF Forward, TypeOK
    <2>3. request[my[c]] \notin Untouched
      BY <2>1 DEF SlotInv, Progress
    <2>4. request'[my[c]] \in Done
      BY <2>1, <2>3 DEF Untouched, Done, TypeOK
    <2>5. Advances(c)
      BY <2>1, <2>4 DEF Advances, TypeOK
    <2> QED BY <2>1, <2>2, <2>5, StepSteady DEF Yields
  <1>5. CASE GiveBack(c) \/ ReleaseClaim(c)
    <2>1. /\ UNCHANGED <<request, agent, rc, my>> /\ pc' = [pc EXCEPT ![c] = "ended"]
          /\ pc[c] \in {"giveback", "release"} /\ claim' = Free
          /\ claim.owner = c /\ claim.req = my[c]
      BY <1>5 DEF GiveBack, ReleaseClaim, HoldInv, Serving
    <2>2. agent # "holding" /\ \A r \in Call : claim.req = r => request[r] # "running"
      BY <2>1 DEF SlotInv, ClaimKnown, Progress, Done
    <2> QED BY <2>1, <2>2, StepSteady DEF Advances, Forward, Yields, TypeOK
  <1>6. CASE FlagClaim(c)
    <2>1. /\ UNCHANGED <<request, agent, rc, my>> /\ pc' = [pc EXCEPT ![c] = "recordUnsettled"]
          /\ pc[c] = "flag" /\ claim.owner = c
          /\ claim' = [claim EXCEPT !.status = "recovery-required"]
      BY <1>6 DEF FlagClaim, HoldInv, Serving
    <2> QED BY <2>1, StepSteady DEF Advances, Forward, Yields, TypeOK
  <1>7. CASE AcquireReconciles(c)
    <2>1. UNCHANGED <<claim, agent, my, request>> /\ pc' = [pc EXCEPT ![c] = pc[c]]
      BY <1>7 DEF AcquireReconciles
    <2>2. \A a \in Actor : rc'[a] = rc[a] \/ (rc'[a].at = "check" /\ rc'[a].req = claim.req)
      BY <1>7 DEF AcquireReconciles, TypeOK
    <2>3. claim.req \in Call
      BY <1>7 DEF AcquireReconciles, OwnerIsDead, SlotInv, ClaimKnown, TypeOK
    <2>4. \A d \in Call : pc'[d] = pc[d]
      BY <2>1 DEF TypeOK
    <2> QED BY <2>1, <2>2, <2>3, <2>4 DEF Steady, Forward, Yields, Advances, SlotInv, ReleaseIsDue
  <1> QED BY <1>1, <1>2, <1>3, <1>4, <1>5, <1>6, <1>7 DEF CallStep

LEMMA ReconcileSteady ==
  ASSUME TypeOK, HoldInv, SlotInv, NEW a \in Actor, Reconcile(a)
  PROVE  Steady
  <1> USE RequestFlowAssumption
  <1>0. /\ UNCHANGED <<pc, my, agent>> /\ rc[a].at # "off" /\ rc[a].req \in Call
        /\ rc[a].owner \in Call
    BY DEF Reconcile, CheckOperation, ReconcileSettled, ReconcileRelease, ReconcileUnsettled,
       ReconcileMark, SlotInv, ReleaseIsDue, HoldInv, TypeOK
  <1>1. Forward
    BY <1>0 DEF Reconcile, CheckOperation, ReconcileSettled, ReconcileRelease, ReconcileUnsettled,
       ReconcileMark, Forward, Done, TypeOK
  <1>2. Yields
    <2>1. CASE ReconcileRelease(a)
      <3>1. \A r \in Call : rc[a].req = r => request[r] \in Done
        BY <2>1 DEF ReconcileRelease, SlotInv, ReleaseIsDue
      <3> QED BY <1>0, <2>1, <3>1 DEF ReconcileRelease, Yields, SlotInv, ClaimKnown, Done
    <2>2. CASE ~ReconcileRelease(a)
      BY <1>0, <2>2 DEF Reconcile, CheckOperation, ReconcileSettled, ReconcileUnsettled,
         ReconcileMark, Yields
    <2> QED BY <2>1, <2>2
  <1>3. ASSUME NEW b \in Actor
        PROVE  /\ rc'[b].at # "off" => rc'[b].req \in Call
               /\ \A r \in Call : rc'[b].at = "release" /\ rc'[b].req = r => request'[r] \in Done
    <2>0. \A r \in Call : request[r] \in Done => request'[r] \in Done
      BY <1>1 DEF Forward, Done
    <2>1. CASE b # a
      <3>1. rc'[b] = rc[b]
        BY <2>1 DEF Reconcile, CheckOperation, ReconcileSettled, ReconcileRelease,
           ReconcileUnsettled, ReconcileMark, TypeOK
      <3> QED BY <2>0, <3>1 DEF SlotInv, ReleaseIsDue
    <2>2. CASE b = a /\ ReconcileSettled(a)
      <3>1. PICK v \in Terminal :
              /\ RcGoto(a, v, IF request[rc[a].req] \in InFlight THEN "release" ELSE "off")
              /\ Transition(rc[a].req, InFlight, v)
        BY <2>2 DEF ReconcileSettled
      <3>2. rc'[a].at # "off" => rc'[a].at = "release" /\ rc'[a].req = rc[a].req /\ request[rc[a].req] \in InFlight
        BY <3>1 DEF TypeOK
      <3>3. request[rc[a].req] \in InFlight => request'[rc[a].req] \in Done
        BY <1>0, <3>1 DEF Done, TypeOK
      <3> QED BY <1>0, <2>2, <3>2, <3>3
    <2>3. CASE b = a /\ ~ReconcileSettled(a)
      BY <1>0, <2>3 DEF Reconcile, CheckOperation, ReconcileRelease, ReconcileUnsettled,
         ReconcileMark, Assessment, TypeOK
    <2> QED BY <2>1, <2>2, <2>3
  <1> QED BY <1>0, <1>1, <1>2, <1>3 DEF Steady, Advances

LEMMA OthersSteady ==
  ASSUME TypeOK, HoldInv, SlotInv,
         \/ AgentStep /\ ~AgentAcquires
         \/ CrashDashboard \/ \E c \in Call : Exit(c) \/ CrashCall(c)
         \/ UNCHANGED vars
  PROVE  Steady
  <1> USE RequestFlowAssumption
  <1>1. CASE AgentStep /\ ~AgentAcquires
    <2>1. UNCHANGED <<request, pc, my>>
      BY <1>1 DEF AgentStep, AgentAdmits, AgentReconciles, AgentGivesUp, AgentSettles
    <2>2. Yields
      BY <1>1 DEF AgentStep, AgentAdmits, AgentReconciles, AgentGivesUp, AgentSettles, SlotInv,
         ClaimKnown, Yields
    <2>3. \A a \in Actor : rc'[a] = rc[a] \/ (rc'[a].at = "check" /\ rc'[a].req \in Call)
      BY <1>1 DEF AgentStep, AgentAdmits, AgentReconciles, AgentGivesUp, AgentSettles, OwnerIsDead,
         SlotInv, ClaimKnown, TypeOK
    <2> QED BY <2>1, <2>2, <2>3 DEF Steady, Forward, Advances, SlotInv, ReleaseIsDue
  <1>2. CASE CrashDashboard \/ \E c \in Call : Exit(c) \/ CrashCall(c)
    <2>1. UNCHANGED <<request, my, claim>> /\ (agent' = agent \/ agent' = "idle")
      BY <1>2 DEF CrashDashboard, Exit, CrashCall
    <2>2. \A c \in Call : Advances(c)
      BY <1>2, <2>1 DEF CrashDashboard, Exit, CrashCall, Kill, Advances
    <2>3. \A a \in Actor : rc'[a].at # "off" => rc'[a] = rc[a]
      <3>1. CASE CrashDashboard
        BY <3>1 DEF CrashDashboard
      <3>2. CASE \E c \in Call : Exit(c) \/ CrashCall(c)
        BY <3>2 DEF Exit, CrashCall, TypeOK
      <3> QED BY <1>2, <3>1, <3>2
    <2> QED BY <2>1, <2>2, <2>3 DEF Steady, Forward, Yields, SlotInv, ReleaseIsDue
  <1>3. CASE UNCHANGED vars
    BY <1>3 DEF vars, Steady, Forward, Yields, Advances, SlotInv, ReleaseIsDue
  <1> QED BY <1>1, <1>2, <1>3

\* Who takes the slot takes it for its own request, before it runs.
LEMMA TakeKeeps ==
  ASSUME TypeOK, OnceInv, HoldInv, SlotInv, AgentAcquires \/ \E c \in Call : Acquire(c)
  PROVE  SlotInv'
  <1> USE RequestFlowAssumption
  <1>0. claim = Free /\ UNCHANGED <<request, my, rc>>
    BY DEF AgentAcquires, Acquire
  <1>1. \A r \in Call : request[r] # "running"
    BY <1>0 DEF SlotInv, RunningIsServed
  <1>2. RunningIsServed' /\ ReleaseIsDue'
    BY <1>0, <1>1 DEF SlotInv, RunningIsServed, ReleaseIsDue
  <1>3. ClaimKnown' /\ Progress'
    <2>1. CASE AgentAcquires
      BY <2>1 DEF AgentAcquires, SlotInv, ClaimKnown, Progress
    <2>2. ASSUME NEW c \in Call, Acquire(c) PROVE ClaimKnown' /\ Progress'
      <3>1. /\ pc[c] \in Queueing /\ my[c] \in Call
            /\ pc' = [pc EXCEPT ![c] = "promote"] /\ agent' = agent
            /\ claim' = [owner |-> c, req |-> my[c], status |-> "active"]
        BY <2>2 DEF Acquire, Acquiring, Queueing, OnceInv, RequestKnown
      <3>2. agent # "holding"
        BY <1>0 DEF SlotInv, ClaimKnown
      <3>3. ClaimKnown'
        BY <1>0, <3>1, <3>2 DEF ClaimKnown, TypeOK
      <3>4. Progress'
        BY <1>0, <3>1 DEF SlotInv, Progress, Queueing, Working, TypeOK
      <3> QED BY <3>3, <3>4
    <2> QED BY <2>1, <2>2
  <1> QED BY <1>2, <1>3 DEF SlotInv

LEMMA PromoteKeeps ==
  ASSUME TypeOK, OnceInv, HoldInv, SlotInv, NEW c \in Call, Promote(c)
  PROVE  SlotInv'
  <1> USE RequestFlowAssumption
  <1>0. /\ pc[c] = "promote" /\ pc' = [pc EXCEPT ![c] = "lease"]
        /\ my[c] \in Call /\ request[my[c]] \in Pending
        /\ request' = [request EXCEPT ![my[c]] = "running"]
        /\ UNCHANGED <<claim, my, rc, agent>>
    BY DEF Promote, OnceInv, RequestKnown
  <1>1. claim.owner = c /\ claim.req = my[c]
    BY <1>0 DEF HoldInv, Serving
  <1>2. \A r \in Call : request[r] # "running"
    BY <1>0, <1>1 DEF SlotInv, RunningIsServed, Working
  <1>3. ClaimKnown'
    BY <1>0, <1>1 DEF SlotInv, ClaimKnown, TypeOK
  <1>4. ReleaseIsDue'
    BY <1>0 DEF SlotInv, ReleaseIsDue, Done, TypeOK
  <1>5. RunningIsServed'
    BY <1>0, <1>1, <1>2 DEF RunningIsServed, Working, TypeOK
  <1>6. Progress'
    BY <1>0 DEF SlotInv, Progress, Working, Untouched, Done, TypeOK
  <1> QED BY <1>3, <1>4, <1>5, <1>6 DEF SlotInv

LEMMA NextSlot ==
  ASSUME TypeOK, OnceInv, HoldInv, SlotInv, [Next]_vars, Boot \notin Others, ~LockMayTimeOut
  PROVE  SlotInv'
  <1>1. ~BootStep /\ \A c \in Call : ~ControlLockTimeout(c)
    BY DEF BootStep, BootTakesSnapshot, BootSettlesAgent, BootListsRequests, BootReconcilesRequest,
       BootEnds, ControlLockTimeout, HoldInv
  <1> QED BY <1>1, SubmitSteady, CallStepSteady, ReconcileSteady, OthersSteady, SteadyKeeps,
             TakeKeeps, PromoteKeeps DEF Next

-----------------------------------------------------------------------------
(***************************************************************************)
(* Each step as one of the slot's.                                         *)
(***************************************************************************)

Begun == {my[c] : c \in executed}

\* The step leaves alone what the slot is about.
LEMMA Stutters ==
  ASSUME UNCHANGED <<claim, request, executed>>, \A c \in executed : my'[c] = my[c]
  PROVE  UNCHANGED Slot!vars
  <1>1. Begun' = Begun
    BY DEF Begun
  <1> QED BY <1>1 DEF Slot!vars, Begun

\* A step about one request.
LEMMA Moved ==
  ASSUME TypeOK, UNCHANGED <<claim, my, executed>>, NEW r \in Call, NEW from, NEW to,
         request[r] \in from, request' = [request EXCEPT ![r] = to]
  PROVE  Slot!Move(r, from, to)
  <1>1. Begun' = Begun
    BY DEF Begun
  <1> QED BY <1>1 DEF Slot!Move, Begun

LEMMA SubmitStutters ==
  ASSUME TypeOK, OnceInv, NEW c \in Call, Submit(c)
  PROVE  UNCHANGED Slot!vars
  <1>1. UNCHANGED <<claim, request, executed>> /\ pc[c] = "idle"
    BY DEF Submit, SubmitNew, SubmitAgain, PublishReuses, PublishLooks, BatchLooks, PublishRefused
  <1>2. \A d \in executed : my'[d] = my[d]
    BY <1>1 DEF Submit, SubmitNew, SubmitAgain, PublishReuses, PublishLooks, BatchLooks,
       PublishRefused, OnceInv, ExecutedIsOver, Over, TypeOK
  <1> QED BY <1>1, <1>2, Stutters

LEMMA CallIsSlot ==
  ASSUME TypeOK, OnceInv, HoldInv, SlotInv, NEW c \in Call, CallStep(c)
  PROVE  [Slot!Next]_Slot!vars
  <1> USE RequestFlowAssumption
  <1>1. CASE PublishSaves(c)
    <2>1. \A d \in executed : my'[d] = my[d]
      BY <1>1 DEF PublishSaves, OnceInv, ExecutedIsOver, Over, TypeOK
    <2> QED BY <1>1, <2>1, Stutters DEF PublishSaves
  <1>2. CASE \/ AcquireBlocked(c) \/ AcquireReconciles(c) \/ AcquireTimeout(c) \/ HumanDeadline(c)
             \/ PromoteConflict(c) \/ LeaseTimeout(c) \/ WorkSucceeds(c) \/ WorkFails(c)
             \/ WorkUnsettled(c) \/ WriteRecord(c) \/ WriteUnsettled(c)
    BY <1>2, Stutters DEF AcquireBlocked, AcquireReconciles, AcquireTimeout, HumanDeadline,
       PromoteConflict, LeaseTimeout, WorkSucceeds, WorkFails, WorkUnsettled, WriteRecord,
       WriteUnsettled
  <1>3. CASE \/ CreateRequest(c) \/ NoteWaiting(c) \/ NoteBlocked(c) \/ Promote(c)
             \/ SettleRequest(c) \/ UnsettleRequest(c)
    <2>0. UNCHANGED <<claim, my, executed>> /\ my[c] \in Call
      BY <1>3 DEF CreateRequest, NoteWaiting, NoteBlocked, Promote, SettleRequest,
         UnsettleRequest, OnceInv, RequestKnown
    <2>1. CASE request' = request
      BY <2>0, <2>1, Stutters
    <2>2. CASE CreateRequest(c) /\ request' # request
      BY <2>0, <2>2, Moved DEF CreateRequest, Slot!Next, Slot!Submit
    <2>3. CASE NoteWaiting(c) /\ request' # request
      BY <2>0, <2>3, Moved DEF NoteWaiting, Slot!Next, Slot!Wait, Slot!Pending
    <2>4. CASE NoteBlocked(c) /\ request' # request
      BY <2>0, <2>4, Moved DEF NoteBlocked, Slot!Next, Slot!Bar, Slot!Pending
    <2>5. CASE Promote(c)
      <3>1. claim.req = my[c]
        BY <2>5 DEF Promote, HoldInv, Serving
      <3>2. request[my[c]] \in Slot!Pending /\ request' = [request EXCEPT ![my[c]] = "running"]
        BY <2>5 DEF Promote, Slot!Pending
      <3>3. Slot!Run(my[c])
        BY <2>0, <3>1, <3>2, Moved DEF Slot!Run
      <3> QED BY <2>0, <3>3 DEF Slot!Next
    <2>6. CASE (SettleRequest(c) \/ UnsettleRequest(c)) /\ request' # request
      <3>1. PICK v \in Slot!Settled : Transition(my[c], {"running"}, v)
        BY <2>6 DEF SettleRequest, UnsettleRequest, OnceInv, RequestKnown, Slot!Settled
      <3>2. request[my[c]] \in Slot!InFlight /\ request' = [request EXCEPT ![my[c]] = v]
        BY <2>6, <3>1 DEF Slot!InFlight
      <3>3. Slot!Settle(my[c])
        BY <2>0, <3>2, Moved DEF Slot!Settle
      <3> QED BY <2>0, <3>3 DEF Slot!Next
    <2> QED BY <1>3, <2>1, <2>2, <2>3, <2>4, <2>5, <2>6
  <1>4. CASE Acquire(c)
    <2>1. my[c] \in Call /\ UNCHANGED <<my, executed, request>>
          /\ claim = Free /\ claim' = [owner |-> c, req |-> my[c], status |-> "active"]
      BY <1>4 DEF Acquire, Acquiring, OnceInv, RequestKnown
    <2>2. Begun' = Begun
      BY <2>1 DEF Begun
    <2>3. Slot!Take(c)
      BY <2>1, <2>2 DEF Slot!Take, Begun
    <2> QED BY <2>3 DEF Slot!Next
  <1>5. CASE BeginWork(c)
    <2>1. /\ UNCHANGED <<my, request, claim>> /\ executed' = executed \cup {c}
          /\ claim.req = my[c] /\ my[c] \in Call /\ pc[c] = "lease"
      BY <1>5 DEF BeginWork, HoldInv, Serving, OnceInv, RequestKnown
    <2>2. my[c] \notin Begun
      <3>1. Promoted(c) /\ c \notin executed
        BY <2>1 DEF Promoted, OnceInv, ExecutedIsOver, Over
      <3>2. \A d \in executed : d \in Call /\ Promoted(d) /\ d # c
        BY <3>1 DEF Promoted, TypeOK
      <3> QED BY <3>1, <3>2 DEF Begun, OnceInv, PromotedOnce
    <2>3. Begun' = Begun \cup {my[c]}
      BY <2>1 DEF Begun
    <2>4. PICK r \in Call : r = my[c]
      BY <2>1
    <2>5. Slot!Execute(r)
      BY <2>1, <2>2, <2>3, <2>4 DEF Slot!Execute, Begun
    <2> QED BY <2>5 DEF Slot!Next
  <1>6. CASE GiveBack(c) \/ ReleaseClaim(c)
    <2>1. /\ UNCHANGED <<my, request, executed>> /\ claim' = Free
          /\ claim.owner = c /\ claim.req = my[c] /\ pc[c] \in {"giveback", "release"}
      BY <1>6 DEF GiveBack, ReleaseClaim, HoldInv, Serving
    <2>2. Begun' = Begun
      BY <2>1 DEF Begun
    <2>3. \A r \in Call : claim.req = r => request[r] \notin InFlight
      BY <2>1 DEF SlotInv, Progress, Done
    <2>4. Slot!Leave
      BY <2>1, <2>2, <2>3 DEF Slot!Leave, Slot!InFlight, Slot!Pending, Begun
    <2> QED BY <2>4 DEF Slot!Next
  <1>7. CASE FlagClaim(c)
    <2>1. /\ UNCHANGED <<my, request, executed>> /\ claim.owner = c
          /\ claim' = [claim EXCEPT !.status = "recovery-required"]
      BY <1>7 DEF FlagClaim, HoldInv, Serving
    <2>2. Begun' = Begun
      BY <2>1 DEF Begun
    <2>3. Slot!Flag
      BY <2>1, <2>2 DEF Slot!Flag, Begun, TypeOK
    <2> QED BY <2>3 DEF Slot!Next
  <1> QED BY <1>1, <1>2, <1>3, <1>4, <1>5, <1>6, <1>7 DEF CallStep

LEMMA ReconcileIsSlot ==
  ASSUME TypeOK, HoldInv, SlotInv, NEW a \in Actor, Reconcile(a)
  PROVE  [Slot!Next]_Slot!vars
  <1> USE RequestFlowAssumption
  <1>0. /\ UNCHANGED <<my, executed>> /\ rc[a].req \in Call /\ rc[a].owner \in Call
        /\ Begun' = Begun
    BY DEF Reconcile, CheckOperation, ReconcileSettled, ReconcileRelease, ReconcileUnsettled,
       ReconcileMark, SlotInv, ReleaseIsDue, HoldInv, TypeOK, Begun
  <1>1. CASE UNCHANGED <<claim, request>>
    BY <1>0, <1>1, Stutters
  <1>2. CASE (ReconcileSettled(a) \/ ReconcileUnsettled(a)) /\ request' # request
    <2>1. claim' = claim /\ \E v \in Slot!Settled : Transition(rc[a].req, InFlight, v)
      BY <1>2 DEF ReconcileSettled, ReconcileUnsettled, Slot!Settled
    <2>2. PICK v \in Slot!Settled : Transition(rc[a].req, InFlight, v)
      BY <2>1
    <2>3. request[rc[a].req] \in Slot!InFlight /\ request' = [request EXCEPT ![rc[a].req] = v]
      BY <1>2, <2>2 DEF Slot!InFlight, Slot!Pending
    <2>4. Slot!Settle(rc[a].req)
      BY <1>0, <2>1, <2>3, Moved DEF Slot!Settle
    <2> QED BY <1>0, <2>4 DEF Slot!Next
  <1>3. CASE ReconcileRelease(a) /\ claim' # claim
    <2>1. request' = request /\ claim' = Free /\ claim.owner \in Call /\ claim.req = rc[a].req
      BY <1>0, <1>3 DEF ReconcileRelease
    <2>2. \A r \in Call : claim.req = r => request[r] \notin InFlight
      BY <1>3, <2>1 DEF ReconcileRelease, SlotInv, ReleaseIsDue, Done
    <2>3. Slot!Leave
      BY <1>0, <2>1, <2>2 DEF Slot!Leave, Slot!InFlight, Slot!Pending, Begun
    <2> QED BY <2>3 DEF Slot!Next
  <1>4. CASE ReconcileMark(a) /\ claim' # claim
    <2>1. request' = request /\ claim.owner \in Call /\ claim' = [claim EXCEPT !.status = "recovery-required"]
      BY <1>0, <1>4 DEF ReconcileMark
    <2>2. Slot!Flag
      BY <1>0, <2>1 DEF Slot!Flag, Begun, TypeOK
    <2> QED BY <2>2 DEF Slot!Next
  <1> QED BY <1>1, <1>2, <1>3, <1>4 DEF Reconcile, CheckOperation, ReconcileSettled,
          ReconcileRelease, ReconcileUnsettled, ReconcileMark

LEMMA AgentIsSlot ==
  ASSUME TypeOK, SlotInv, AgentStep
  PROVE  [Slot!Next]_Slot!vars
  <1> USE RequestFlowAssumption
  <1>0. UNCHANGED <<my, executed, request>> /\ Begun' = Begun
    BY DEF AgentStep, AgentAdmits, AgentAcquires, AgentReconciles, AgentGivesUp, AgentSettles, Begun
  <1>1. CASE claim' = claim
    BY <1>0, <1>1, Stutters
  <1>2. CASE AgentAcquires
    <2>1. Slot!Take(Agent)
      BY <1>0, <1>2 DEF AgentAcquires, Slot!Take, Begun
    <2> QED BY <2>1 DEF Slot!Next
  <1>3. CASE AgentSettles /\ claim' = Free
    <2>1. claim.owner = Agent /\ claim.req = NoOne
      BY <1>3 DEF AgentSettles, SlotInv, ClaimKnown
    <2>2. Slot!Leave
      BY <1>0, <1>3, <2>1 DEF Slot!Leave, Begun
    <2> QED BY <2>2 DEF Slot!Next
  <1>4. CASE AgentSettles /\ claim' = [claim EXCEPT !.status = "recovery-required"]
    <2>1. claim.owner = Agent
      BY <1>4 DEF AgentSettles, SlotInv, ClaimKnown
    <2>2. Slot!Flag
      BY <1>0, <1>4, <2>1 DEF Slot!Flag, Begun, TypeOK
    <2> QED BY <2>2 DEF Slot!Next
  <1> QED BY <1>1, <1>2, <1>3, <1>4 DEF AgentStep, AgentAdmits, AgentReconciles, AgentGivesUp,
          AgentSettles

LEMMA SlotStep ==
  ASSUME TypeOK, OnceInv, HoldInv, SlotInv, [Next]_vars, Boot \notin Others, ~LockMayTimeOut
  PROVE  [Slot!Next]_Slot!vars
  <1>1. ~BootStep /\ \A c \in Call : ~ControlLockTimeout(c)
    BY DEF BootStep, BootTakesSnapshot, BootSettlesAgent, BootListsRequests, BootReconcilesRequest,
       BootEnds, ControlLockTimeout, HoldInv
  <1>2. CASE CrashDashboard \/ \E c \in Call : Exit(c) \/ CrashCall(c)
    BY <1>2, Stutters DEF CrashDashboard, Exit, CrashCall
  <1>3. CASE UNCHANGED vars
    BY <1>3, Stutters DEF vars
  <1> QED BY <1>1, <1>2, <1>3, SubmitStutters, CallIsSlot, ReconcileIsSlot, AgentIsSlot DEF Next

\* Without the boot pass and time-outs of the control lock, the requests, the
\* reconcilers, the agent and every crash together keep the promise of the slot.
THEOREM SlotIsKept == ASSUME Boot \notin Others, ~LockMayTimeOut PROVE Spec => SlotPromise
  <1>1. Init => TypeOK /\ OnceInv /\ HoldInv /\ SlotInv
    BY InitTypeOK, InitOnce, InitHold, InitSlot
  <1>2. TypeOK /\ OnceInv /\ HoldInv /\ SlotInv /\ [Next]_vars
          => (TypeOK /\ OnceInv /\ HoldInv /\ SlotInv)'
    BY NextTypeOK, NextOnce, NextHold, NextSlot
  <1>3. Init => Slot!Init
    BY DEF Init, Slot!Init
  <1>4. TypeOK /\ OnceInv /\ HoldInv /\ SlotInv /\ [Next]_vars => [Slot!Next]_Slot!vars
    BY SlotStep
  <1> QED BY <1>1, <1>2, <1>3, <1>4, PTL DEF Spec, SlotPromise, Slot!Spec

=============================================================================
