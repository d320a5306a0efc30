-------------------------- MODULE AdmissionProofs --------------------------
(***************************************************************************)
(* The admission of agents, for any tasks, executions, faults and bounds:  *)
(* its variables have their types, one execution at a time is inside the   *)
(* admission, the turn of an admitted agent runs under its claim, and what *)
(* is left of the claims and the reservations of others has someone who    *)
(* gives it back, or is one of the leftovers that the code is known for.   *)
(*                                                                         *)
(* Covered needs to know more than it says.  The claim of an agent is      *)
(* released or marked by its own settlement, which begins after its turn   *)
(* ended (Ended), by the settlement of a dead batch, which no running      *)
(* batch may be taken for (Quiet), and by the failed steps of its own      *)
(* admission.                                                              *)
(***************************************************************************)
EXTENDS Admission, FiniteSetTheorems, TLAPS

\* What was planned is for some tasks, only what was planned has the claim, a
\* batch dispatches its own members one after the other, and the pass settles
\* an execution.
Scoped ==
  /\ \A e \in Exec : pc[e] # "idle" => job[e].scope # {}
  /\ \A e \in Exec : claim.own = e \/ snap.own = e => pc[e] # "idle"
  /\ \A b \in Batch : /\ pc[b] = "idle" => settling[b].members = {}
                      /\ settling[b].members \subseteq job[b].scope
                      /\ job[b].child # None => settling[b].members # job[b].scope
  /\ boot \in {"sweep", "settle"} => snap.own \in Exec

\* The chain holds the executions that wait for the mutex or have it, each
\* once, and only the first has it.
InLine == {"lock"} \union InMutex
Chain ==
  /\ \A e \in Exec : pc[e] \in InLine => \E i \in 1..Len(line) : line[i] = e
  /\ \A i, j \in 1..Len(line) : line[i] = line[j] => i = j
  /\ \A i \in 1..Len(line) : pc[line[i]] \in InLine /\ (i > 1 => pc[line[i]] = "lock")

\* A settlement begins after the turn.
Ended == \A e \in Exec : pc[e] \in Admitted \ {"running"} => turn[e] # "running"

\* Before the first request is served no batch runs or is being admitted.
Quiet ==
  boot # "done" => \A b \in Batch : /\ turn[b] # "running"
                                    /\ pc[b] \notin {"planned", "lock", "running"} \union InMutex

USE AdmissionAssumption

\* What the admission writes has the type of where it is written.
LEMMA Spots ==
  /\ "idle" \in Place /\ "planned" \in Place /\ "lock" \in Place
  /\ "acquire" \in Place /\ "session" \in Place /\ "undo" \in Place
  /\ "prepare" \in Place /\ "invoking" \in Place /\ "start" \in Place
  /\ "started" \in Place /\ "undoStart" \in Place /\ "undoSub" \in Place
  /\ "release" \in Place /\ "resume" \in Place /\ "mark" \in Place
  /\ "settle" \in Place /\ "barrier" \in Place /\ "dispatch" \in Place
  /\ "continue" \in Place /\ "done" \in Place /\ "refused" \in Place
  /\ "back" \in Place /\ "threw" \in Place /\ "stuck" \in Place
  /\ "broken" \in Place /\ "dead" \in Place
  /\ "running" \in Place
BY DEF Place, Admitting, InMutex, Settling, Over

LEMMA ClaimIn ==
  ASSUME TypeOK
  PROVE  /\ Free \in Claim
         /\ \A e \in Exec \union {Other} : [Free EXCEPT !.own = e] \in Claim
         /\ \A e \in Exec : Released(e) \in Claim /\ Marked(e) \in Claim
         /\ \A at \in {"prepared", "invoking", "started"} : Enriched(at) \in Claim
BY DEF TypeOK, Claim, Free, Released, Marked, Enriched

LEMMA GotoIn ==
  ASSUME NEW e \in Exec, NEW p \in Place, TypeOK, Goto(e, p)
  PROVE  pc' \in [Exec -> Place]
BY DEF TypeOK, Goto

LEMMA ClearedIn ==
  ASSUME NEW e \in Exec, TypeOK
  PROVE  Cleared(e) \in Exec \union {None}
BY DEF TypeOK, Cleared

LEMMA Inside ==
  ASSUME NEW e \in Exec, TypeOK, Chain, pc[e] \in InMutex
  PROVE  line # <<>> /\ line[1] = e /\ Tail(line) \in Seq(Exec)
<1>1. PICK i \in 1..Len(line) : line[i] = e
  BY DEF Chain, InLine
<1>2. "lock" \notin InMutex
  BY DEF InMutex
<1>3. line \in Seq(Exec)
  BY DEF TypeOK
<1>4. i = 1
  BY <1>1, <1>2, <1>3 DEF Chain
<1> QED BY <1>1, <1>3, <1>4

LEMMA LeaveIn ==
  ASSUME NEW e \in Exec, NEW p \in Place, TypeOK, line # <<>>, Leave(e, p)
  PROVE  pc' \in [Exec -> Place] /\ line' \in Seq(Exec)
BY DEF TypeOK, Leave, Goto

LEMMA OnlyIn == ASSUME NEW S, S # {} PROVE Only(S) \in S
BY DEF Only

LEMMA JobIn ==
  ASSUME NEW j \in Job
  PROVE  /\ \A S \in SUBSET Task : [j EXCEPT !.scope = S] \in Job /\ [j EXCEPT !.queued = S] \in Job
         /\ \A n \in Nat : [j EXCEPT !.base = n] \in Job
         /\ \A c \in Exec \union {None} : [j EXCEPT !.child = c] \in Job
BY DEF Job

LEMMA JobsIn ==
  ASSUME NEW e \in Exec, NEW jobs \in [Exec -> Job]
  PROVE  /\ \A S \in SUBSET Task : [jobs EXCEPT ![e].scope = S] \in [Exec -> Job]
         /\ \A S \in SUBSET Task : [jobs EXCEPT ![e].queued = S] \in [Exec -> Job]
         /\ \A n \in Nat : [jobs EXCEPT ![e].base = n] \in [Exec -> Job]
         /\ \A c \in Exec \union {None} : [jobs EXCEPT ![e].child = c] \in [Exec -> Job]
<1>1. ASSUME NEW S \in SUBSET Task
      PROVE  [jobs EXCEPT ![e].scope = S] \in [Exec -> Job]
             /\ [jobs EXCEPT ![e].queued = S] \in [Exec -> Job]
  BY JobIn
<1>2. ASSUME NEW n \in Nat
      PROVE  [jobs EXCEPT ![e].base = n] \in [Exec -> Job]
  BY JobIn
<1>3. ASSUME NEW c \in Exec \union {None}
      PROVE  [jobs EXCEPT ![e].child = c] \in [Exec -> Job]
  BY JobIn
<1> QED BY <1>1, <1>2, <1>3

LEMMA SettlementIn ==
  ASSUME NEW b \in Batch, TypeOK, NEW st \in {"pending", "completed", "recovery"}
  PROVE  [settling[b] EXCEPT !.status = st] \in Settlement /\ Dispatched(b) \in Settlement
<1>1. settling[b] \in Settlement /\ job[b].scope \subseteq Task
  BY DEF TypeOK, Job, Exec
<1> QED BY <1>1 DEF Settlement, Dispatched, NextMember

LEMMA SettlesIn ==
  ASSUME NEW b \in Batch, NEW r \in Settlement, TypeOK, Settles(b, r)
  PROVE  settling' \in [Batch -> Settlement]
BY DEF TypeOK, Settles

\* An enrichment, a release and a mark leave the others' claims alone.
LEMMA ClaimOf ==
  ASSUME TypeOK
  PROVE  /\ \A at \in {"prepared", "invoking", "started"} :
              Enriched(at).own = claim.own /\ Enriched(at).at = at
         /\ \A e \in Exec : Marked(e).own = claim.own /\ Marked(e).at = claim.at
         /\ \A e \in Exec : Released(e) = claim \/ Owned(e)
BY DEF TypeOK, Claim, Enriched, Marked, Released

LEMMA ContinueMoves ==
  ASSUME NEW t \in Task, NEW pcs \in [Exec -> Place], NEW jobs, Continue(t, pcs, jobs)
  PROVE  \A e \in Exec : pc'[e] = pcs[e]
                         \/ (e \in Single /\ pc[e] = "idle" /\ pc'[e] = "lock")
<1>1. CASE CanAdmit(t)
  <2>1. Only(Spare) \in Single /\ pc[Only(Spare)] = "idle"
    BY <1>1, OnlyIn DEF CanAdmit, Spare
  <2>2. pc' = [pcs EXCEPT ![Only(Spare)] = "lock"]
    BY <1>1 DEF Continue
  <2> QED BY <2>1, <2>2
<1>2. CASE ~CanAdmit(t)
  BY <1>2 DEF Continue
<1> QED BY <1>1, <1>2

\* What a continuation admits and what it leaves queued are tasks, and it
\* uses an execution that was not yet used.
LEMMA ContinueTyped ==
  ASSUME NEW t \in Task, NEW pcs \in [Exec -> Place], NEW jobs \in [Exec -> Job],
         TypeOK, Continue(t, pcs, jobs)
  PROVE  queue' \subseteq Task /\ line' \in Seq(Exec) /\ pc' \in [Exec -> Place]
         /\ job' \in [Exec -> Job]
<1>1. queue' \subseteq Task
  BY DEF TypeOK, Continue, Queued, Purged, Joined
<1>2. ToAdmit(t) \subseteq Task
  BY DEF TypeOK, ToAdmit, Admissible, NextOf, Purged, Joined
<1>3. CASE CanAdmit(t)
  <2>1. Only(Spare) \in Exec
    BY <1>3, OnlyIn DEF CanAdmit, Spare, Exec
  <2>2. line' = Append(line, Only(Spare)) /\ pc' = [pcs EXCEPT ![Only(Spare)] = "lock"]
        /\ job' = [jobs EXCEPT ![Only(Spare)].scope = ToAdmit(t)]
    BY <1>3 DEF Continue
  <2>3. "lock" \in Place
    BY DEF Place, Admitting
  <2>4. pc' \in [Exec -> Place] /\ line' \in Seq(Exec)
    BY <2>1, <2>2, <2>3 DEF TypeOK
  <2>5. job' \in [Exec -> Job]
    BY <1>2, <2>1, <2>2, JobsIn
  <2> QED BY <1>1, <2>4, <2>5
<1>4. CASE ~CanAdmit(t)
  BY <1>1, <1>4 DEF TypeOK, Continue
<1> QED BY <1>3, <1>4

\* Every step keeps the types.
LEMMA TypesNext ==
  ASSUME TypeOK, Scoped, Chain, [Next]_vars
  PROVE  TypeOK'
<1>1. ASSUME NEW e \in Single, NEW S \in Selection, Plan(e, S)
      PROVE  TypeOK'
  <2>1. Only(Spare) \in Exec
    BY <1>1, OnlyIn DEF Plan, Spare, Exec
  <2>2. pc' \in [Exec -> Place]
    BY <1>1, <2>1, GotoIn, Spots DEF Plan
  <2>3. PICK t \in NextOf(S) :
          job' = [job EXCEPT ![e] = [NoJob EXCEPT !.scope = {t}, !.queued = S, !.pre = ~Ready(t)]]
    BY <1>1 DEF Plan
  <2>4. t \in Task /\ S \subseteq Task /\ Ready(t) \in BOOLEAN
    BY <2>3 DEF NextOf, Ready
  <2>5. [NoJob EXCEPT !.scope = {t}, !.queued = S, !.pre = ~Ready(t)] \in Job
    BY <2>4 DEF NoJob, Job
  <2>6. job' \in [Exec -> Job]
    BY <2>3, <2>5 DEF TypeOK
  <2> QED BY <1>1, <2>2, <2>6 DEF Plan, TypeOK, batches, progress, outside
<1>2. ASSUME NEW b \in Batch, NEW S \in Selection, PlanBatch(b, S)
      PROVE  TypeOK'
  BY <1>2, GotoIn, Spots DEF PlanBatch, NoJob, TypeOK, Job, Exec, batches,
     progress, outside
<1>3. ASSUME NEW e \in Exec, Enqueue(e)
      PROVE  TypeOK'
  <2>1. job' \in [Exec -> Job]
    BY <1>3, JobsIn DEF Enqueue, TypeOK
  <2>2. queue' \subseteq Task
    BY <1>3 DEF Enqueue, TypeOK, Job
  <2>3. line' \in Seq(Exec)
    BY <1>3 DEF Enqueue, TypeOK
  <2>4. pc' \in [Exec -> Place]
    BY <1>3, GotoIn, Spots DEF Enqueue
  <2> QED BY <1>3, <2>1, <2>2, <2>3, <2>4 DEF Enqueue, TypeOK, batches,
     progress, outside
<1>4. ASSUME NEW e \in Exec, Enter(e)
      PROVE  TypeOK'
  <2>1. line # <<>>
    <3>1. PICK i \in 1..Len(line) : line[i] = e
      BY <1>4 DEF Enter, Chain, InLine
    <3> QED BY <3>1 DEF TypeOK
  <2> QED BY <1>4, <2>1, GotoIn, LeaveIn, Spots DEF Enter, TypeOK, batches,
     progress, outside
<1>5. ASSUME NEW e \in Exec, Acquire(e)
      PROVE  TypeOK'
  <2>1. claim' \in Claim
    BY <1>5, ClaimIn DEF Acquire, TypeOK
  <2>2. pc' \in [Exec -> Place] /\ line' \in Seq(Exec)
    BY <1>5, GotoIn, Spots, Inside, LeaveIn DEF Acquire, TypeOK, InMutex
  <2> QED BY <1>5, <2>1, <2>2 DEF Acquire, Works, Fails, Upset, TypeOK, batches,
     progress, ours
<1>6. ASSUME NEW e \in Exec, CreateSession(e)
      PROVE  TypeOK'
  BY <1>6, GotoIn, Spots DEF CreateSession, Works, Fails, Upset, TypeOK,
     batches, progress, ours
<1>7. ASSUME NEW e \in Exec, Undo(e)
      PROVE  TypeOK'
  <2>1. pc' \in [Exec -> Place] /\ line' \in Seq(Exec)
    BY <1>7, Inside, LeaveIn, Spots DEF Undo, InMutex
  <2>2. claim' \in Claim /\ kept' \subseteq Exec
    BY <1>7, ClaimIn DEF Undo, GivesBack, TypeOK
  <2> QED BY <1>7, <2>1, <2>2 DEF Undo, TypeOK, batches, progress, others
<1>8. ASSUME NEW e \in Exec, Prepare(e)
      PROVE  TypeOK'
  <2>1. pc' \in [Exec -> Place]
    BY <1>8, GotoIn, Spots DEF Prepare
  <2>2. job' \in [Exec -> Job]
    <3>1. CASE UNCHANGED job
      BY <3>1 DEF TypeOK
    <3>2. CASE job' = [job EXCEPT ![e].base = IF IsBatch(e) THEN 0 ELSE step[Only(job[e].scope)]]
      <4>1. Only(job[e].scope) \in Task
        BY <1>8, OnlyIn DEF Prepare, Scoped, TypeOK, Job
      <4>2. (IF IsBatch(e) THEN 0 ELSE step[Only(job[e].scope)]) \in Nat
        BY <4>1 DEF TypeOK
      <4> QED BY <3>2, <4>2, JobsIn DEF TypeOK
    <3> QED BY <1>8, <3>1, <3>2 DEF Prepare
  <2>3. claim' \in Claim /\ active' \in Exec \union {None}
    BY <1>8, ClaimIn DEF Prepare, TypeOK
  <2> QED BY <1>8, <2>1, <2>2, <2>3 DEF Prepare, TypeOK, batches, progress,
     outside
<1>9. ASSUME NEW e \in Exec, Invoking(e)
      PROVE  TypeOK'
  <2>1. claim' \in Claim
    BY <1>9, ClaimIn DEF Invoking, TypeOK
  <2>2. pc' \in [Exec -> Place] /\ line' \in Seq(Exec)
    BY <1>9, GotoIn, Spots, Inside, LeaveIn DEF Invoking, TypeOK, InMutex
  <2>3. upsets' \in Nat /\ active' \in Exec \union {None}
    BY <1>9 DEF Invoking, Works, Fails, Upset, TypeOK
  <2> QED BY <1>9, <2>1, <2>2, <2>3 DEF Invoking, TypeOK, batches, progress,
     ours
<1>10. ASSUME NEW e \in Exec, StartTurn(e)
      PROVE  TypeOK'
  <2>1. pc' \in [Exec -> Place]
    BY <1>10, GotoIn, Spots DEF StartTurn
  <2>2. turn' \in [Exec -> {"none", "running", "ended"}]
    BY <1>10 DEF StartTurn, TypeOK
  <2>3. upsets' \in Nat
    BY <1>10 DEF StartTurn, Works, Fails, Upset, TypeOK
  <2> QED BY <1>10, <2>1, <2>2, <2>3 DEF StartTurn, TypeOK, batches, progress,
     ours
<1>11. ASSUME NEW e \in Exec, Started(e)
      PROVE  TypeOK'
  <2>1. claim' \in Claim
    BY <1>11, ClaimIn DEF Started, TypeOK
  <2>2. pc' \in [Exec -> Place] /\ line' \in Seq(Exec)
    BY <1>11, GotoIn, Spots, Inside, LeaveIn DEF Started, TypeOK, InMutex
  <2>3. upsets' \in Nat /\ active' \in Exec \union {None}
    BY <1>11, ClearedIn DEF Started, Works, Fails, Upset, TypeOK
  <2> QED BY <1>11, <2>1, <2>2, <2>3 DEF Started, TypeOK, batches, progress,
     ours
<1>12. ASSUME NEW e \in Exec, UndoStart(e)
      PROVE  TypeOK'
  <2>1. pc' \in [Exec -> Place] /\ line' \in Seq(Exec)
    BY <1>12, Inside, LeaveIn, Spots DEF UndoStart, InMutex
  <2>2. claim' \in Claim /\ kept' \subseteq Exec
    BY <1>12, ClaimIn DEF UndoStart, GivesBack, TypeOK
  <2>3. active' \in Exec \union {None}
    BY <1>12, ClearedIn DEF UndoStart
  <2> QED BY <1>12, <2>1, <2>2, <2>3 DEF UndoStart, TypeOK, batches, progress, others
<1>13. ASSUME NEW e \in Exec, Assess(e)
      PROVE  TypeOK'
  <2>1. pc' \in [Exec -> Place]
    BY <1>13, GotoIn, Spots DEF Assess, Outcomes
  <2> QED BY <1>13, <2>1 DEF Assess, TypeOK, batches, progress, outside
<1>14. ASSUME NEW e \in Exec, Release(e)
      PROVE  TypeOK'
  BY <1>14, GotoIn, Spots, ClaimIn, ClearedIn DEF Release, TypeOK, batches,
     progress, outside
<1>15. ASSUME NEW e \in Exec, Resume(e)
      PROVE  TypeOK'
  BY <1>15, GotoIn, Spots, ClaimIn, ClearedIn DEF Resume, TypeOK, batches,
     progress, outside
<1>16. ASSUME NEW e \in Exec, Mark(e)
      PROVE  TypeOK'
  BY <1>16, GotoIn, Spots, ClaimIn, ClearedIn DEF Mark, TypeOK, batches,
     progress, outside
<1>17. ASSUME NEW e \in Exec, GoOn(e)
      PROVE  TypeOK'
  <2>1. Only(job[e].scope) \in Task
    BY <1>17, OnlyIn DEF GoOn, Scoped, TypeOK, Job
  <2>2. [pc EXCEPT ![e] = "done"] \in [Exec -> Place]
    BY DEF TypeOK, Place, Over
  <2>3. queue' \subseteq Task /\ line' \in Seq(Exec) /\ pc' \in [Exec -> Place]
        /\ job' \in [Exec -> Job]
    BY <1>17, <2>1, <2>2, ContinueTyped DEF GoOn, TypeOK
  <2> QED BY <1>17, <2>3 DEF GoOn, TypeOK, batches, progress, outside
<1>18. ASSUME NEW e \in Exec, HookThrows(e)
      PROVE  TypeOK'
  BY <1>18, GotoIn, Spots DEF HookThrows, Fails, Upset, TypeOK, batches,
     progress, ours
<1>19. ASSUME NEW e \in Exec, Work(e)
      PROVE  TypeOK'
  <2>1. PICK t \in job[e].scope :
          \/ UNCHANGED step /\ \E w \in {"starting", "active", "idle"} : work' = [work EXCEPT ![t] = w]
          \/ /\ \E w \in {"closing", "stuck"} : work' = [work EXCEPT ![t] = w]
             /\ step' = [step EXCEPT ![t] = @ + 1]
    BY <1>19 DEF Work
  <2>2. t \in Task
    BY DEF TypeOK, Job
  <2>3. step' \in [Task -> Nat]
    BY <2>1, <2>2 DEF TypeOK
  <2>4. work' \in [Task -> {"idle", "starting", "active", "closing", "stuck"}]
    BY <2>1 DEF TypeOK
  <2> QED BY <1>19, <2>3, <2>4 DEF Work, TypeOK, batches, outside
<1>20. ASSUME NEW e \in Batch, FinishBatch(e)
      PROVE  TypeOK'
  BY <1>20 DEF FinishBatch, TypeOK, outside
<1>21. ASSUME NEW e \in Exec, EndTurn(e)
      PROVE  TypeOK'
  BY <1>21 DEF EndTurn, TypeOK, batches, progress, outside
<1>22. ASSUME NEW b \in Batch, Reserve(b)
      PROVE  TypeOK'
  <2>1. pc' \in [Exec -> Place] /\ b \in Exec
    BY <1>22, GotoIn, Spots DEF Reserve, Exec
  <2>2. line' = line \/ line' = Append(line, b)
    BY <1>22 DEF Reserve
  <2>4. line' \in Seq(Exec)
    <3>1. line \in Seq(Exec)
      BY DEF TypeOK
    <3> QED BY <2>1, <2>2, <3>1
  <2>3. barrier' \in [Batch -> {"none", "reserved", "released"}]
    BY <1>22 DEF Reserve, TypeOK
  <2> QED BY <1>22, <2>1, <2>3, <2>4 DEF Reserve, TypeOK, progress, outside
<1>23. ASSUME NEW b \in Batch, Rollback(b)
      PROVE  TypeOK'
  BY <1>23, GotoIn, Spots DEF Rollback, TypeOK, Exec, progress, outside
<1>24. ASSUME NEW b \in Batch, SettleClaim(b)
      PROVE  TypeOK'
  <2>1. b \in Exec
    BY DEF Exec
  <2>2. pc' \in [Exec -> Place]
    BY <1>24, <2>1, GotoIn, Spots DEF SettleClaim
  <2>3. claim' \in Claim
    BY <1>24, <2>1, ClaimIn DEF SettleClaim, TypeOK
  <2>5. active' \in Exec \union {None}
    BY <1>24, <2>1, ClearedIn DEF SettleClaim, TypeOK
  <2>4. settling' \in [Batch -> Settlement]
    BY <1>24, SettlementIn, SettlesIn DEF SettleClaim
  <2> QED BY <1>24, <2>2, <2>3, <2>4, <2>5 DEF SettleClaim, TypeOK, progress,
     outside
<1>25. ASSUME NEW b \in Batch, SettleBarrier(b)
      PROVE  TypeOK'
  BY <1>25, GotoIn, Spots DEF SettleBarrier, TypeOK, Exec, progress, outside
<1>26. ASSUME NEW b \in Batch, SettleMember(b)
      PROVE  TypeOK'
  <2>1. PICK t \in NextMember(b) :
          IF CanAdmit(t)
            THEN Continue(t, pc, [job EXCEPT ![b].child = Only(Spare)]) /\ UNCHANGED settling
            ELSE Continue(t, pc, job) /\ Settles(b, Dispatched(b))
    BY <1>26 DEF SettleMember
  <2>2. t \in Task /\ b \in Exec
    BY DEF NextMember, TypeOK, Job, Exec
  <2>3. PICK jobs \in [Exec -> Job] : Continue(t, pc, jobs)
    <3>1. CASE CanAdmit(t)
      <4>1. Only(Spare) \in Exec
        BY <3>1, OnlyIn DEF CanAdmit, Spare, Exec
      <4>2. [job EXCEPT ![b].child = Only(Spare)] \in [Exec -> Job]
        BY <2>2, <4>1, JobsIn DEF TypeOK
      <4> QED BY <2>1, <3>1, <4>2
    <3>2. CASE ~CanAdmit(t)
      BY <2>1, <3>2 DEF TypeOK
    <3> QED BY <3>1, <3>2
  <2>4. queue' \subseteq Task /\ line' \in Seq(Exec) /\ pc' \in [Exec -> Place]
        /\ job' \in [Exec -> Job]
    BY <2>2, <2>3, ContinueTyped DEF TypeOK
  <2>5. settling' \in [Batch -> Settlement]
    BY <2>1, SettlementIn, SettlesIn DEF TypeOK
  <2> QED BY <1>26, <2>4, <2>5 DEF SettleMember, TypeOK, progress, outside
<1>27. ASSUME NEW b \in Batch, MemberAdmitted(b)
      PROVE  TypeOK'
  <2>1. b \in Exec
    BY DEF Exec
  <2>2. pc' \in [Exec -> Place]
    BY <1>27, <2>1, GotoIn, Spots DEF MemberAdmitted, TypeOK
  <2>3. job' \in [Exec -> Job]
    BY <1>27, <2>1, JobsIn DEF MemberAdmitted, TypeOK
  <2>4. settling' \in [Batch -> Settlement]
    BY <1>27, SettlementIn, SettlesIn DEF MemberAdmitted, TypeOK
  <2> QED BY <1>27, <2>2, <2>3, <2>4 DEF MemberAdmitted, TypeOK, progress,
     outside
<1>28. ASSUME NEW b \in Batch, SettleEnd(b)
      PROVE  TypeOK'
  <2>1. pc' \in [Exec -> Place]
    BY <1>28, GotoIn, Spots DEF SettleEnd, Exec
  <2>2. settling' \in [Batch -> Settlement]
    BY <1>28, SettlementIn, SettlesIn DEF SettleEnd
  <2> QED BY <1>28, <2>1, <2>2 DEF SettleEnd, TypeOK, progress, outside
<1>29. ASSUME BootStart
      PROVE  TypeOK'
  BY <1>29, ClaimIn DEF BootStart, TypeOK, batches, progress
<1>30. ASSUME BootSweep
      PROVE  TypeOK'
  <2> DEFINE e == snap.own
  <2>0. e \in Exec
    BY <1>30 DEF BootSweep, Resumes, Scoped
  <2>1. claim' \in Claim
    BY <1>30, <2>0, ClaimIn DEF BootSweep, Resumes, Sweeps, TypeOK
  <2>2. pc' \in [Exec -> Place]
    BY <1>30, <2>0, GotoIn, Spots DEF BootSweep, Resumes, TypeOK
  <2>3. job' \in [Exec -> Job]
    <3>1. [job EXCEPT ![e].child = None] \in [Exec -> Job]
      BY <2>0, JobsIn DEF TypeOK
    <3> QED BY <1>30, <3>1 DEF BootSweep, Resumes, TypeOK
  <2>4. snap' \in Claim /\ swept' \subseteq Exec /\ boot' \in {"new", "sweep", "settle", "done"}
    BY <1>30, <2>0, ClaimIn DEF BootSweep, Resumes, Sweeps, TypeOK
  <2> QED BY <1>30, <2>1, <2>2, <2>3, <2>4 DEF BootSweep, Resumes, TypeOK, batches,
     progress
<1>31. ASSUME BootSettled
      PROVE  TypeOK'
  BY <1>31, ClaimIn DEF BootSettled, Scoped, TypeOK, batches, progress
<1>32. ASSUME Crash
      PROVE  TypeOK'
  BY <1>32, ClaimIn, Spots DEF Crash, Upset, TypeOK, batches, progress
<1>33. ASSUME OtherAsks
      PROVE  TypeOK'
  BY <1>33 DEF OtherAsks, Upset, TypeOK, batches, progress
<1>34. ASSUME OtherTakes
      PROVE  TypeOK'
  BY <1>34, ClaimIn DEF OtherTakes, TypeOK, batches, progress
<1>35. ASSUME OtherGivesUp
      PROVE  TypeOK'
  BY <1>35 DEF OtherGivesUp, TypeOK, batches, progress
<1>36. ASSUME OtherEnds
      PROVE  TypeOK'
  BY <1>36, ClaimIn DEF OtherEnds, TypeOK, batches
<1>37. ASSUME OtherGoesOn
      PROVE  TypeOK'
  <2>1. PICK t \in due : Continue(t, pc, job) /\ due' = due \ {t}
    BY <1>37 DEF OtherGoesOn
  <2>2. t \in Task
    BY DEF TypeOK
  <2>3. queue' \subseteq Task /\ line' \in Seq(Exec) /\ pc' \in [Exec -> Place]
        /\ job' \in [Exec -> Job]
    BY <2>1, <2>2, ContinueTyped DEF TypeOK
  <2> QED BY <1>37, <2>1, <2>3 DEF OtherGoesOn, TypeOK, batches, progress
<1>38. CASE UNCHANGED vars
  BY <1>38 DEF vars, batches, progress, outside, TypeOK
<1>39. ASSUME BootThrows
      PROVE  TypeOK'
  BY <1>39, ClaimIn DEF BootThrows, Scoped, TypeOK, batches, progress
<1> QED
  BY <1>1, <1>2, <1>3, <1>4, <1>5, <1>6, <1>7, <1>8, <1>9, <1>10, <1>11,
     <1>12, <1>13, <1>14, <1>15, <1>16, <1>17, <1>18, <1>19, <1>20, <1>21,
     <1>22, <1>23, <1>24, <1>25, <1>26, <1>27, <1>28, <1>29, <1>30, <1>31,
     <1>32, <1>33, <1>34, <1>35, <1>36, <1>37, <1>38, <1>39 DEF Next, Request,
     Handling, HandlingBatch, Agent, Boot, Outside

\* Every step keeps what the claim is for.
LEMMA SafeNext ==
  ASSUME TypeOK, Scoped, Ended, Quiet, AdmittedIsCovered, [Next]_vars
  PROVE  Ended' /\ Quiet' /\ AdmittedIsCovered'
<1>1. ASSUME NEW e \in Single, NEW S \in Selection, Plan(e, S)
      PROVE  Ended' /\ Quiet' /\ AdmittedIsCovered'
  BY <1>1 DEF Plan, Spare, NextOf, NoJob, Goto, batches, progress, outside,
     Ended, Quiet, AdmittedIsCovered, Admitted, Settling, InMutex, Owned, Exec,
     TypeOK, Claim, Place
<1>2. ASSUME NEW b \in Batch, NEW S \in Selection, PlanBatch(b, S)
      PROVE  Ended' /\ Quiet' /\ AdmittedIsCovered'
  BY <1>2 DEF PlanBatch, NoJob, Goto, batches, progress, outside, Ended, Quiet,
     AdmittedIsCovered, Admitted, Settling, InMutex, Owned, Exec, TypeOK,
     Claim, Place
<1>3. ASSUME NEW e \in Exec, Enqueue(e)
      PROVE  Ended' /\ Quiet' /\ AdmittedIsCovered'
  BY <1>3 DEF Enqueue, Goto, batches, progress, outside, Ended, Quiet,
     AdmittedIsCovered, Admitted, Settling, InMutex, Owned, Exec, TypeOK,
     Claim, Place
<1>4. ASSUME NEW e \in Exec, Enter(e)
      PROVE  Ended' /\ Quiet' /\ AdmittedIsCovered'
  BY <1>4 DEF Enter, Leave, Goto, batches, progress, outside, Ended, Quiet,
     AdmittedIsCovered, Admitted, Settling, InMutex, Owned, Exec, TypeOK,
     Claim, Place
<1>5. ASSUME NEW e \in Exec, Acquire(e)
      PROVE  Ended' /\ Quiet' /\ AdmittedIsCovered'
  <2>7. Ended'
    BY <1>5 DEF Acquire, Free, Leave, Goto, batches, progress, ours, Ended,
       Admitted, Settling, TypeOK, Exec
  <2>8. Quiet'
    BY <1>5 DEF Acquire, Free, Leave, Goto, batches, progress, ours, Quiet,
       InMutex, TypeOK, Exec
  <2>9. AdmittedIsCovered'
    BY <1>5 DEF Acquire, Free, Leave, Goto, batches, progress, ours, Ended,
       AdmittedIsCovered, Admitted, Settling, Owned, TypeOK, Exec
  <2> QED BY <2>7, <2>8, <2>9
<1>6. ASSUME NEW e \in Exec, CreateSession(e)
      PROVE  Ended' /\ Quiet' /\ AdmittedIsCovered'
  BY <1>6 DEF CreateSession, Works, Fails, Upset, Goto, batches, progress,
     ours, Ended, Quiet, AdmittedIsCovered, Admitted, Settling, InMutex, Owned,
     Exec, TypeOK, Claim, Place
<1>7. ASSUME NEW e \in Exec, Undo(e)
      PROVE  Ended' /\ Quiet' /\ AdmittedIsCovered'
  BY <1>7 DEF Undo, GivesBack, Released, Owned, Free, Leave, Goto, batches,
     progress, others, Ended, Quiet, AdmittedIsCovered, Admitted, Settling, InMutex,
     Owned, Exec, TypeOK, Claim, Place
<1>8. ASSUME NEW e \in Exec, Prepare(e)
      PROVE  Ended' /\ Quiet' /\ AdmittedIsCovered'
  <2>1. (Owned(e) /\ claim' = Enriched("prepared")) \/ UNCHANGED claim
    BY <1>8 DEF Prepare
  <2>7. Ended'
    BY <1>8, <2>1, ClaimOf DEF Prepare, Goto, batches, progress, outside,
       Ended, Admitted, Settling, TypeOK, Exec
  <2>8. Quiet'
    BY <1>8, <2>1, ClaimOf DEF Prepare, Goto, batches, progress, outside,
       Quiet, InMutex, TypeOK, Exec
  <2>9. AdmittedIsCovered'
    BY <1>8, <2>1, ClaimOf DEF Prepare, Goto, batches, progress, outside,
       Ended, AdmittedIsCovered, Admitted, Settling, Owned, TypeOK, Exec
  <2> QED BY <2>7, <2>8, <2>9
<1>9. ASSUME NEW e \in Exec, Invoking(e)
      PROVE  Ended' /\ Quiet' /\ AdmittedIsCovered'
  <2>7. Ended'
    BY <1>9, ClaimOf DEF Invoking, Leave, Goto, batches, progress, ours, Ended,
       Admitted, Settling, TypeOK, Exec
  <2>8. Quiet'
    BY <1>9, ClaimOf DEF Invoking, Leave, Goto, batches, progress, ours, Quiet,
       InMutex, TypeOK, Exec
  <2>9. AdmittedIsCovered'
    BY <1>9, ClaimOf DEF Invoking, Leave, Goto, batches, progress, ours, Ended,
       AdmittedIsCovered, Admitted, Settling, Owned, TypeOK, Exec
  <2> QED BY <2>7, <2>8, <2>9
<1>10. ASSUME NEW e \in Exec, StartTurn(e)
      PROVE  Ended' /\ Quiet' /\ AdmittedIsCovered'
  BY <1>10 DEF StartTurn, Works, Fails, Upset, Goto, batches, progress, ours,
     Ended, Quiet, AdmittedIsCovered, Admitted, Settling, InMutex, Owned, Exec,
     TypeOK, Claim, Place
<1>11. ASSUME NEW e \in Exec, Started(e)
      PROVE  Ended' /\ Quiet' /\ AdmittedIsCovered'
  <2>7. Ended'
    BY <1>11, ClaimOf DEF Started, Leave, Goto, batches, progress, ours, Ended,
       Admitted, Settling, TypeOK, Exec
  <2>8. Quiet'
    BY <1>11, ClaimOf DEF Started, Leave, Goto, batches, progress, ours, Quiet,
       InMutex, TypeOK, Exec
  <2>9. AdmittedIsCovered'
    BY <1>11, ClaimOf DEF Started, Leave, Goto, batches, progress, ours, Ended,
       AdmittedIsCovered, Admitted, Settling, Owned, TypeOK, Exec
  <2> QED BY <2>7, <2>8, <2>9
<1>12. ASSUME NEW e \in Exec, UndoStart(e)
      PROVE  Ended' /\ Quiet' /\ AdmittedIsCovered'
  BY <1>12 DEF UndoStart, GivesBack, Released, Owned, Free, Cleared, Leave,
     Goto, batches, progress, others, Ended, Quiet, AdmittedIsCovered, Admitted, Settling,
     InMutex, Owned, Exec, TypeOK, Claim, Place
<1>13. ASSUME NEW e \in Exec, Assess(e)
      PROVE  Ended' /\ Quiet' /\ AdmittedIsCovered'
  <2>1. pc' = [pc EXCEPT ![e] = pc'[e]] /\ turn[e] = "ended"
        /\ pc'[e] \in {"settle", "mark", "release", "resume"}
    BY <1>13 DEF Assess, Heard, Goto, Outcomes, TypeOK
  <2>7. Ended'
    BY <1>13, <2>1 DEF Assess, Heard, Goto, batches, progress, outside, Ended,
       Admitted, Settling, TypeOK, Exec
  <2>8. Quiet'
    BY <1>13, <2>1 DEF Assess, Heard, Goto, batches, progress, outside, Quiet,
       InMutex, TypeOK, Exec
  <2>9. AdmittedIsCovered'
    BY <1>13, <2>1 DEF Assess, Heard, Goto, batches, progress, outside, Ended,
       AdmittedIsCovered, Admitted, Settling, Owned, TypeOK, Exec
  <2> QED BY <2>7, <2>8, <2>9
<1>14. ASSUME NEW e \in Exec, Release(e)
      PROVE  Ended' /\ Quiet' /\ AdmittedIsCovered'
  BY <1>14 DEF Release, Released, Owned, Free, Cleared, Goto, batches,
     progress, outside, Ended, Quiet, AdmittedIsCovered, Admitted, Settling,
     InMutex, Owned, Exec, TypeOK, Claim, Place
<1>15. ASSUME NEW e \in Exec, Resume(e)
      PROVE  Ended' /\ Quiet' /\ AdmittedIsCovered'
  BY <1>15 DEF Resume, Released, Owned, Free, Cleared, Goto, batches, progress,
     outside, Ended, Quiet, AdmittedIsCovered, Admitted, Settling, InMutex,
     Owned, Exec, TypeOK, Claim, Place
<1>16. ASSUME NEW e \in Exec, Mark(e)
      PROVE  Ended' /\ Quiet' /\ AdmittedIsCovered'
  BY <1>16 DEF Mark, Marked, Owned, Cleared, Goto, batches, progress, outside,
     Ended, Quiet, AdmittedIsCovered, Admitted, Settling, InMutex, Owned, Exec,
     TypeOK, Claim, Place
<1>17. ASSUME NEW e \in Exec, GoOn(e)
      PROVE  Ended' /\ Quiet' /\ AdmittedIsCovered'
  <2>1. Only(job[e].scope) \in Task /\ [pc EXCEPT ![e] = "done"] \in [Exec -> Place]
    BY <1>17, OnlyIn, Spots DEF GoOn, Scoped, TypeOK, Job
  <2>3. pc[e] = "continue" /\ \A f \in Exec :
          pc'[f] = [pc EXCEPT ![e] = "done"][f] \/ (f \in Single /\ pc'[f] = "lock")
    BY <1>17, <2>1, ContinueMoves DEF GoOn
  <2>7. Ended'
    BY <1>17, <2>3 DEF GoOn, Goto, batches, progress, outside, Ended, Admitted,
       Settling, TypeOK, Exec
  <2>8. Quiet'
    BY <1>17, <2>3 DEF GoOn, Goto, batches, progress, outside, Quiet, InMutex,
       TypeOK, Exec
  <2>9. AdmittedIsCovered'
    BY <1>17, <2>3 DEF GoOn, Goto, batches, progress, outside, Ended,
       AdmittedIsCovered, Admitted, Settling, Owned, TypeOK, Exec
  <2> QED BY <2>7, <2>8, <2>9
<1>18. ASSUME NEW e \in Exec, HookThrows(e)
      PROVE  Ended' /\ Quiet' /\ AdmittedIsCovered'
  BY <1>18 DEF HookThrows, Fails, Upset, Goto, batches, progress, ours, Ended,
     Quiet, AdmittedIsCovered, Admitted, Settling, InMutex, Owned, Exec,
     TypeOK, Claim, Place
<1>19. ASSUME NEW e \in Exec, Work(e)
      PROVE  Ended' /\ Quiet' /\ AdmittedIsCovered'
  BY <1>19 DEF Work, batches, outside, Ended, Quiet, AdmittedIsCovered,
     Admitted, Settling, InMutex, Owned, Exec, TypeOK, Claim, Place
<1>20. ASSUME NEW e \in Batch, FinishBatch(e)
      PROVE  Ended' /\ Quiet' /\ AdmittedIsCovered'
  BY <1>20 DEF FinishBatch, outside, Ended, Quiet, AdmittedIsCovered, Admitted,
     Settling, InMutex, Owned, Exec, TypeOK, Claim, Place
<1>21. ASSUME NEW e \in Exec, EndTurn(e)
      PROVE  Ended' /\ Quiet' /\ AdmittedIsCovered'
  BY <1>21 DEF EndTurn, Working, batches, progress, outside, Ended, Quiet,
     AdmittedIsCovered, Admitted, Settling, InMutex, Owned, Exec, TypeOK,
     Claim, Place
<1>22. ASSUME NEW b \in Batch, Reserve(b)
      PROVE  Ended' /\ Quiet' /\ AdmittedIsCovered'
  <2>7. Ended'
    BY <1>22 DEF Reserve, Goto, progress, outside, Ended, Admitted, Settling,
       TypeOK, Exec
  <2>8. Quiet'
    BY <1>22 DEF Reserve, Goto, progress, outside, Quiet, InMutex, TypeOK, Exec
  <2>9. AdmittedIsCovered'
    BY <1>22 DEF Reserve, Goto, progress, outside, Ended, AdmittedIsCovered,
       Admitted, Settling, Owned, TypeOK, Exec
  <2> QED BY <2>7, <2>8, <2>9
<1>23. ASSUME NEW b \in Batch, Rollback(b)
      PROVE  Ended' /\ Quiet' /\ AdmittedIsCovered'
  BY <1>23 DEF Rollback, Goto, progress, outside, Ended, Quiet,
     AdmittedIsCovered, Admitted, Settling, InMutex, Owned, Exec, TypeOK,
     Claim, Place
<1>24. ASSUME NEW b \in Batch, SettleClaim(b)
      PROVE  Ended' /\ Quiet' /\ AdmittedIsCovered'
  <2>7. Ended'
    BY <1>24, ClaimOf DEF SettleClaim, Goto, progress, outside, Ended,
       Admitted, Settling, TypeOK, Exec
  <2>8. Quiet'
    BY <1>24, ClaimOf DEF SettleClaim, Goto, progress, outside, Quiet, InMutex,
       TypeOK, Exec
  <2>9. AdmittedIsCovered'
    BY <1>24, ClaimOf DEF SettleClaim, Goto, progress, outside, Ended,
       AdmittedIsCovered, Admitted, Settling, Owned, TypeOK, Exec
  <2> QED BY <2>7, <2>8, <2>9
<1>25. ASSUME NEW b \in Batch, SettleBarrier(b)
      PROVE  Ended' /\ Quiet' /\ AdmittedIsCovered'
  BY <1>25 DEF SettleBarrier, Goto, progress, outside, Ended, Quiet,
     AdmittedIsCovered, Admitted, Settling, InMutex, Owned, Exec, TypeOK,
     Claim, Place
<1>26. ASSUME NEW b \in Batch, SettleMember(b)
      PROVE  Ended' /\ Quiet' /\ AdmittedIsCovered'
  <2>3. \A f \in Exec : pc'[f] = pc[f] \/ (f \in Single /\ pc'[f] = "lock")
    <3>1. PICK t \in NextMember(b) : Continue(t, pc, job)
           \/ Continue(t, pc, [job EXCEPT ![b].child = Only(Spare)])
      BY <1>26 DEF SettleMember
    <3>2. t \in Task /\ pc \in [Exec -> Place]
      BY DEF NextMember, TypeOK, Job, Exec
    <3> QED BY <3>1, <3>2, ContinueMoves
  <2>7. Ended'
    BY <1>26, <2>3 DEF SettleMember, Goto, progress, outside, Ended, Admitted,
       Settling, TypeOK, Exec
  <2>8. Quiet'
    BY <1>26, <2>3 DEF SettleMember, Goto, progress, outside, Quiet, InMutex,
       TypeOK, Exec
  <2>9. AdmittedIsCovered'
    BY <1>26, <2>3 DEF SettleMember, Goto, progress, outside, Ended,
       AdmittedIsCovered, Admitted, Settling, Owned, TypeOK, Exec
  <2> QED BY <2>7, <2>8, <2>9
<1>27. ASSUME NEW b \in Batch, MemberAdmitted(b)
      PROVE  Ended' /\ Quiet' /\ AdmittedIsCovered'
  BY <1>27 DEF MemberAdmitted, Settles, Dispatched, Goto, progress, outside,
     Ended, Quiet, AdmittedIsCovered, Admitted, Settling, InMutex, Owned, Exec,
     TypeOK, Claim, Place
<1>28. ASSUME NEW b \in Batch, SettleEnd(b)
      PROVE  Ended' /\ Quiet' /\ AdmittedIsCovered'
  BY <1>28 DEF SettleEnd, Settles, Goto, progress, outside, Ended, Quiet,
     AdmittedIsCovered, Admitted, Settling, InMutex, Owned, Exec, TypeOK,
     Claim, Place
<1>29. ASSUME BootStart
      PROVE  Ended' /\ Quiet' /\ AdmittedIsCovered'
  BY <1>29 DEF BootStart, batches, progress, Ended, Quiet, AdmittedIsCovered,
     Admitted, Settling, InMutex, Owned, Exec, TypeOK, Claim, Place
<1>30. ASSUME BootSweep
      PROVE  Ended' /\ Quiet' /\ AdmittedIsCovered'
  <2>1. snap.own \in Exec /\ (IsBatch(snap.own) => turn[snap.own] # "running")
    BY <1>30 DEF BootSweep, Resumes, Scoped, Quiet, IsBatch
  <2>2. \/ claim' = claim
        \/ claim' \in {Marked(snap.own), Released(snap.own)}
           /\ (swept' = swept \union {snap.own} \/ (pc[snap.own] = "dead" /\ UNCHANGED pc))
    BY <1>30 DEF BootSweep, Resumes, Sweeps
  <2>7. Ended'
    BY <1>30, <2>1, <2>2, ClaimOf DEF BootSweep, Resumes, Sweeps, Goto, batches,
       progress, Ended, Admitted, Settling, TypeOK, Exec
  <2>8. Quiet'
    BY <1>30, <2>1, <2>2, ClaimOf DEF BootSweep, Resumes, Sweeps, Goto, batches,
       progress, Quiet, InMutex, TypeOK, Exec
  <2>9. AdmittedIsCovered'
    BY <1>30, <2>1, <2>2, ClaimOf DEF BootSweep, Resumes, Sweeps, Goto, batches,
       progress, Ended, AdmittedIsCovered, Admitted, Settling, Owned, TypeOK,
       Exec
  <2> QED BY <2>7, <2>8, <2>9
<1>31. ASSUME BootSettled
      PROVE  Ended' /\ Quiet' /\ AdmittedIsCovered'
  BY <1>31 DEF BootSettled, Marked, Owned, Free, batches, progress, Ended,
     Quiet, AdmittedIsCovered, Admitted, Settling, InMutex, Owned, Exec,
     TypeOK, Claim, Place
<1>32. ASSUME Crash
      PROVE  Ended' /\ Quiet' /\ AdmittedIsCovered'
  BY <1>32 DEF Crash, Upset, Free, batches, progress, Ended, Quiet,
     AdmittedIsCovered, Admitted, Settling, InMutex, Owned, Exec, TypeOK,
     Claim, Place
<1>33. ASSUME OtherAsks
      PROVE  Ended' /\ Quiet' /\ AdmittedIsCovered'
  BY <1>33 DEF OtherAsks, Upset, batches, progress, Ended, Quiet,
     AdmittedIsCovered, Admitted, Settling, InMutex, Owned, Exec, TypeOK,
     Claim, Place
<1>34. ASSUME OtherTakes
      PROVE  Ended' /\ Quiet' /\ AdmittedIsCovered'
  BY <1>34 DEF OtherTakes, Free, batches, progress, Ended, Quiet,
     AdmittedIsCovered, Admitted, Settling, InMutex, Owned, Exec, TypeOK,
     Claim, Place
<1>35. ASSUME OtherGivesUp
      PROVE  Ended' /\ Quiet' /\ AdmittedIsCovered'
  BY <1>35 DEF OtherGivesUp, batches, progress, Ended, Quiet,
     AdmittedIsCovered, Admitted, Settling, InMutex, Owned, Exec, TypeOK,
     Claim, Place
<1>36. ASSUME OtherEnds
      PROVE  Ended' /\ Quiet' /\ AdmittedIsCovered'
  BY <1>36 DEF OtherEnds, Free, batches, Ended, Quiet, AdmittedIsCovered,
     Admitted, Settling, InMutex, Owned, Exec, TypeOK, Claim, Place
<1>37. ASSUME OtherGoesOn
      PROVE  Ended' /\ Quiet' /\ AdmittedIsCovered'
  <2>3. \A f \in Exec : pc'[f] = pc[f] \/ (f \in Single /\ pc'[f] = "lock")
    <3>1. PICK t \in due : Continue(t, pc, job)
      BY <1>37 DEF OtherGoesOn
    <3>2. t \in Task /\ pc \in [Exec -> Place]
      BY DEF TypeOK
    <3> QED BY <3>1, <3>2, ContinueMoves
  <2>7. Ended'
    BY <1>37, <2>3 DEF OtherGoesOn, Goto, batches, progress, Ended, Admitted,
       Settling, TypeOK, Exec
  <2>8. Quiet'
    BY <1>37, <2>3 DEF OtherGoesOn, Goto, batches, progress, Quiet, InMutex,
       TypeOK, Exec
  <2>9. AdmittedIsCovered'
    BY <1>37, <2>3 DEF OtherGoesOn, Goto, batches, progress, Ended,
       AdmittedIsCovered, Admitted, Settling, Owned, TypeOK, Exec
  <2> QED BY <2>7, <2>8, <2>9
<1>38. CASE UNCHANGED vars
  BY <1>38 DEF vars, batches, progress, outside, Ended, Quiet,
     AdmittedIsCovered, Admitted, Settling, InMutex, Owned, Exec, TypeOK,
     Claim, Place
<1>39. ASSUME BootThrows
      PROVE  Ended' /\ Quiet' /\ AdmittedIsCovered'
  BY <1>39 DEF BootThrows, batches, progress, Ended, Quiet, AdmittedIsCovered,
     Admitted, Settling, InMutex, Owned, Exec, TypeOK, Claim, Place
<1> QED
  BY <1>1, <1>2, <1>3, <1>4, <1>5, <1>6, <1>7, <1>8, <1>9, <1>10, <1>11,
     <1>12, <1>13, <1>14, <1>15, <1>16, <1>17, <1>18, <1>19, <1>20, <1>21,
     <1>22, <1>23, <1>24, <1>25, <1>26, <1>27, <1>28, <1>29, <1>30, <1>31,
     <1>32, <1>33, <1>34, <1>35, <1>36, <1>37, <1>38, <1>39 DEF Next, Request,
     Handling, HandlingBatch, Agent, Boot, Outside

\* The three ways the chain changes: its holder goes on, one joins it, and
\* its holder leaves it.
LEMMA ChainStays ==
  ASSUME TypeOK, Chain, UNCHANGED line,
         \A e \in Exec : \/ pc'[e] = pc[e]
                         \/ pc[e] \notin InLine /\ pc'[e] \notin InLine
                         \/ pc[e] \in InMutex /\ pc'[e] \in InMutex
                         \/ line # <<>> /\ line[1] = e /\ pc'[e] \in InMutex
  PROVE  Chain'
<1>1. line \in Seq(Exec)
  BY DEF TypeOK
<1>2. \A i \in 1..Len(line) : line[i] \in Exec
  BY <1>1
<1>3. "lock" \notin InMutex
  BY DEF InMutex
<1>4. ASSUME NEW e \in Exec, pc'[e] \in InLine
      PROVE  \E i \in 1..Len(line) : line[i] = e
  <2>1. CASE pc[e] \in InLine
    BY <2>1 DEF Chain
  <2>2. CASE line # <<>> /\ line[1] = e
    BY <1>1, <2>2
  <2> QED BY <1>4, <2>1, <2>2 DEF InLine
<1>5. ASSUME NEW i \in 1..Len(line)
      PROVE  pc'[line[i]] \in InLine /\ (i > 1 => pc'[line[i]] = "lock")
  <2>1. pc[line[i]] \in InLine /\ (i > 1 => pc[line[i]] = "lock")
    BY DEF Chain
  <2>2. line # <<>> /\ 1 \in 1..Len(line)
    BY <1>1
  <2>3. line[1] = line[i] => i = 1
    BY <2>2 DEF Chain
  <2> QED BY <1>1, <1>2, <1>3, <2>1, <2>3 DEF InLine
<1> QED BY <1>4, <1>5 DEF Chain

LEMMA ChainJoined ==
  ASSUME TypeOK, Chain, NEW e \in Exec, pc[e] \notin InLine,
         line' = Append(line, e), pc'[e] = "lock",
         \A f \in Exec \ {e} : pc'[f] = pc[f] \/ (pc[f] \notin InLine /\ pc'[f] \notin InLine)
  PROVE  Chain'
<1>1. line \in Seq(Exec) /\ Len(line') = Len(line) + 1 /\ Len(line) \in Nat
      /\ line'[Len(line) + 1] = e /\ \A i \in 1..Len(line) : line'[i] = line[i]
  BY DEF TypeOK
<1>2. \A i \in 1..Len(line) : line[i] \in Exec \ {e}
  BY <1>1 DEF Chain
<1>3. ASSUME NEW f \in Exec, pc'[f] \in InLine
      PROVE  \E i \in 1..Len(line') : line'[i] = f
  <2>1. CASE f = e
    BY <1>1, <2>1
  <2>2. CASE f # e
    <3>1. PICK i \in 1..Len(line) : line[i] = f
      BY <1>3, <2>2 DEF Chain
    <3> QED BY <1>1, <3>1
  <2> QED BY <2>1, <2>2
<1>4. ASSUME NEW i \in 1..Len(line'), NEW j \in 1..Len(line'), line'[i] = line'[j]
      PROVE  i = j
  BY <1>1, <1>2, <1>4 DEF Chain
<1>5. ASSUME NEW i \in 1..Len(line')
      PROVE  pc'[line'[i]] \in InLine /\ (i > 1 => pc'[line'[i]] = "lock")
  <2>1. CASE i \in 1..Len(line)
    <3>1. line'[i] = line[i] /\ line[i] \in Exec \ {e}
      BY <1>1, <1>2, <2>1
    <3>2. pc[line[i]] \in InLine /\ (i > 1 => pc[line[i]] = "lock")
      BY <2>1 DEF Chain
    <3> QED BY <3>1, <3>2
  <2>2. CASE i = Len(line) + 1
    BY <1>1, <2>2 DEF InLine
  <2> QED BY <1>1, <2>1, <2>2
<1> QED BY <1>3, <1>4, <1>5 DEF Chain

LEMMA ChainLeft ==
  ASSUME TypeOK, Chain, NEW e \in Exec, line # <<>>, line[1] = e, NEW p, p \notin InLine,
         Leave(e, p)
  PROVE  Chain'
<1>1. line \in Seq(Exec) /\ line' = Tail(line)
  BY DEF TypeOK, Leave
<1>2. Len(line) \in Nat /\ Len(line) > 0 /\ Len(line') = Len(line) - 1
      /\ \A i \in 1..Len(line') : line'[i] = line[i + 1] /\ i + 1 \in 1..Len(line)
  BY <1>1
<1>3. pc'[e] = p /\ \A f \in Exec \ {e} : pc'[f] = pc[f]
  BY DEF Leave, Goto, TypeOK
<1>4. \A i \in 1..Len(line) : line[i] \in Exec /\ (line[i] = e => i = 1)
  BY <1>1, <1>2 DEF Chain
<1>5. ASSUME NEW f \in Exec, pc'[f] \in InLine
      PROVE  \E i \in 1..Len(line') : line'[i] = f
  <2>1. f # e /\ pc[f] \in InLine
    BY <1>3, <1>5
  <2>2. PICK i \in 1..Len(line) : line[i] = f
    BY <2>1 DEF Chain
  <2>3. i # 1
    BY <2>1, <2>2
  <2>4. i - 1 \in 1..Len(line') /\ line'[i - 1] = f
    BY <1>2, <2>2, <2>3
  <2> QED BY <2>4
<1>6. ASSUME NEW i \in 1..Len(line'), NEW j \in 1..Len(line'), line'[i] = line'[j]
      PROVE  i = j
  BY <1>2, <1>6 DEF Chain
<1>7. ASSUME NEW i \in 1..Len(line')
      PROVE  pc'[line'[i]] = "lock"
  <2>1. line'[i] = line[i + 1] /\ i + 1 \in 1..Len(line) /\ i + 1 > 1 /\ i \in Nat
    BY <1>2
  <2>2. line[i + 1] \in Exec \ {e}
    BY <1>4, <2>1
  <2>3. pc[line[i + 1]] = "lock"
    BY <2>1 DEF Chain
  <2> QED BY <1>3, <2>1, <2>2, <2>3
<1>8. "lock" \in InLine
  BY DEF InLine
<1> QED BY <1>5, <1>6, <1>7, <1>8 DEF Chain

\* The holder of the mutex.
LEMMA Holder ==
  ASSUME TypeOK, Chain, NEW e \in Exec, pc[e] = "lock", Head(line) = e
  PROVE  line # <<>> /\ line[1] = e
<1>1. PICK i \in 1..Len(line) : line[i] = e
  BY DEF Chain, InLine
<1>2. line \in Seq(Exec)
  BY DEF TypeOK
<1> QED BY <1>1, <1>2

LEMMA ChainContinued ==
  ASSUME TypeOK, Chain, NEW t \in Task, NEW pcs \in [Exec -> Place], NEW jobs,
         Continue(t, pcs, jobs),
         \A f \in Exec : pcs[f] = pc[f] \/ (pc[f] \notin InLine /\ pcs[f] \notin InLine)
  PROVE  Chain'
<1>1. CASE CanAdmit(t)
  <2>1. Only(Spare) \in Exec /\ pc[Only(Spare)] = "idle"
    BY <1>1, OnlyIn DEF CanAdmit, Spare, Exec
  <2>2. line' = Append(line, Only(Spare)) /\ pc' = [pcs EXCEPT ![Only(Spare)] = "lock"]
    BY <1>1 DEF Continue
  <2>3. pc[Only(Spare)] \notin InLine
    BY <2>1 DEF InLine, InMutex
  <2> QED BY <2>1, <2>2, <2>3, ChainJoined
<1>2. CASE ~CanAdmit(t)
  BY <1>2, ChainStays DEF Continue
<1> QED BY <1>1, <1>2

\* Every step keeps the chain.
LEMMA ChainNext ==
  ASSUME TypeOK, Scoped, Chain, Quiet, [Next]_vars
  PROVE  Chain'
<1>1. ASSUME NEW e \in Single, NEW S \in Selection, Plan(e, S)
      PROVE  Chain'
  <2>1. pc[e] = "idle" /\ e \in Exec
    BY <1>1, OnlyIn DEF Plan, Spare, Exec
  <2> QED BY <1>1, <2>1, ChainStays DEF Plan, Goto, TypeOK, InLine, InMutex
<1>2. ASSUME NEW b \in Batch, NEW S \in Selection, PlanBatch(b, S)
      PROVE  Chain'
  BY <1>2, ChainStays DEF PlanBatch, Goto, batches, progress, outside, TypeOK,
     InLine, InMutex, Exec
<1>3. ASSUME NEW e \in Exec, Enqueue(e)
      PROVE  Chain'
  BY <1>3, ChainJoined DEF Enqueue, Goto, TypeOK, InLine, InMutex
<1>4. ASSUME NEW e \in Exec, Enter(e)
      PROVE  Chain'
  <2>1. line # <<>> /\ line[1] = e
    BY <1>4, Holder DEF Enter
  <2>2. CASE Leave(e, "refused")
    <3>1. "refused" \notin InLine
      BY DEF InLine, InMutex
    <3> QED BY <2>1, <2>2, <3>1, ChainLeft
  <2>3. CASE Goto(e, "acquire") /\ UNCHANGED line
    BY <2>1, <2>3, ChainStays DEF Goto, TypeOK, InLine, InMutex, Exec
  <2> QED BY <1>4, <2>2, <2>3 DEF Enter
<1>5. ASSUME NEW e \in Exec, Acquire(e)
      PROVE  Chain'
  <2>1. line # <<>> /\ line[1] = e
    BY <1>5, Inside DEF Acquire, InMutex
  <2>2. \/ UNCHANGED line /\ pc' = [pc EXCEPT ![e] = pc'[e]] /\ pc'[e] \in InMutex
        \/ \E p \in Over \union {"running"} : Leave(e, p)
    BY <1>5 DEF Acquire, Goto, Over, InMutex, TypeOK
  <2>3. \A p \in Over \union {"running"} : p \notin InLine
    BY DEF Over, InLine, InMutex
  <2>4. pc[e] \in InMutex
    BY <1>5 DEF Acquire, InMutex
  <2>5. CASE UNCHANGED line /\ pc' = [pc EXCEPT ![e] = pc'[e]] /\ pc'[e] \in InMutex
    BY <2>4, <2>5, ChainStays DEF TypeOK
  <2> QED BY <2>1, <2>2, <2>3, <2>5, ChainLeft
<1>6. ASSUME NEW e \in Exec, CreateSession(e)
      PROVE  Chain'
  BY <1>6, ChainStays DEF CreateSession, Goto, batches, progress, ours, TypeOK,
     InLine, InMutex, Exec
<1>7. ASSUME NEW e \in Exec, Undo(e)
      PROVE  Chain'
  <2>1. line # <<>> /\ line[1] = e
    BY <1>7, Inside DEF Undo, InMutex
  <2>2. \/ UNCHANGED line /\ pc' = [pc EXCEPT ![e] = pc'[e]] /\ pc'[e] \in InMutex
        \/ \E p \in Over \union {"running"} : Leave(e, p)
    BY <1>7 DEF Undo, Goto, Over, InMutex, TypeOK
  <2>3. \A p \in Over \union {"running"} : p \notin InLine
    BY DEF Over, InLine, InMutex
  <2>4. pc[e] \in InMutex
    BY <1>7 DEF Undo, InMutex
  <2>5. CASE UNCHANGED line /\ pc' = [pc EXCEPT ![e] = pc'[e]] /\ pc'[e] \in InMutex
    BY <2>4, <2>5, ChainStays DEF TypeOK
  <2> QED BY <2>1, <2>2, <2>3, <2>5, ChainLeft
<1>8. ASSUME NEW e \in Exec, Prepare(e)
      PROVE  Chain'
  BY <1>8, ChainStays DEF Prepare, Goto, batches, progress, outside, TypeOK,
     InLine, InMutex, Exec
<1>9. ASSUME NEW e \in Exec, Invoking(e)
      PROVE  Chain'
  <2>1. line # <<>> /\ line[1] = e
    BY <1>9, Inside DEF Invoking, InMutex
  <2>2. \/ UNCHANGED line /\ pc' = [pc EXCEPT ![e] = pc'[e]] /\ pc'[e] \in InMutex
        \/ \E p \in Over \union {"running"} : Leave(e, p)
    BY <1>9 DEF Invoking, Goto, Over, InMutex, TypeOK
  <2>3. \A p \in Over \union {"running"} : p \notin InLine
    BY DEF Over, InLine, InMutex
  <2>4. pc[e] \in InMutex
    BY <1>9 DEF Invoking, InMutex
  <2>5. CASE UNCHANGED line /\ pc' = [pc EXCEPT ![e] = pc'[e]] /\ pc'[e] \in InMutex
    BY <2>4, <2>5, ChainStays DEF TypeOK
  <2> QED BY <2>1, <2>2, <2>3, <2>5, ChainLeft
<1>10. ASSUME NEW e \in Exec, StartTurn(e)
      PROVE  Chain'
  BY <1>10, ChainStays DEF StartTurn, Goto, batches, progress, ours, TypeOK,
     InLine, InMutex, Exec
<1>11. ASSUME NEW e \in Exec, Started(e)
      PROVE  Chain'
  <2>1. line # <<>> /\ line[1] = e
    BY <1>11, Inside DEF Started, InMutex
  <2>2. \/ UNCHANGED line /\ pc' = [pc EXCEPT ![e] = pc'[e]] /\ pc'[e] \in InMutex
        \/ \E p \in Over \union {"running"} : Leave(e, p)
    BY <1>11 DEF Started, Goto, Over, InMutex, TypeOK
  <2>3. \A p \in Over \union {"running"} : p \notin InLine
    BY DEF Over, InLine, InMutex
  <2>4. pc[e] \in InMutex
    BY <1>11 DEF Started, InMutex
  <2>5. CASE UNCHANGED line /\ pc' = [pc EXCEPT ![e] = pc'[e]] /\ pc'[e] \in InMutex
    BY <2>4, <2>5, ChainStays DEF TypeOK
  <2> QED BY <2>1, <2>2, <2>3, <2>5, ChainLeft
<1>12. ASSUME NEW e \in Exec, UndoStart(e)
      PROVE  Chain'
  <2>1. line # <<>> /\ line[1] = e
    BY <1>12, Inside DEF UndoStart, InMutex
  <2>2. \/ UNCHANGED line /\ pc' = [pc EXCEPT ![e] = pc'[e]] /\ pc'[e] \in InMutex
        \/ \E p \in Over \union {"running"} : Leave(e, p)
    BY <1>12 DEF UndoStart, Goto, Over, InMutex, TypeOK
  <2>3. \A p \in Over \union {"running"} : p \notin InLine
    BY DEF Over, InLine, InMutex
  <2>4. pc[e] \in InMutex
    BY <1>12 DEF UndoStart, InMutex
  <2>5. CASE UNCHANGED line /\ pc' = [pc EXCEPT ![e] = pc'[e]] /\ pc'[e] \in InMutex
    BY <2>4, <2>5, ChainStays DEF TypeOK
  <2> QED BY <2>1, <2>2, <2>3, <2>5, ChainLeft
<1>13. ASSUME NEW e \in Exec, Assess(e)
      PROVE  Chain'
  BY <1>13, ChainStays DEF Assess, Outcomes, Goto, batches, progress, outside,
     TypeOK, InLine, InMutex, Exec
<1>14. ASSUME NEW e \in Exec, Release(e)
      PROVE  Chain'
  BY <1>14, ChainStays DEF Release, Goto, batches, progress, outside, TypeOK,
     InLine, InMutex, Exec
<1>15. ASSUME NEW e \in Exec, Resume(e)
      PROVE  Chain'
  BY <1>15, ChainStays DEF Resume, Goto, batches, progress, outside, TypeOK,
     InLine, InMutex, Exec
<1>16. ASSUME NEW e \in Exec, Mark(e)
      PROVE  Chain'
  BY <1>16, ChainStays DEF Mark, Goto, batches, progress, outside, TypeOK,
     InLine, InMutex, Exec
<1>17. ASSUME NEW e \in Exec, GoOn(e)
      PROVE  Chain'
  <2>1. Only(job[e].scope) \in Task /\ [pc EXCEPT ![e] = "done"] \in [Exec -> Place]
    BY <1>17, OnlyIn, Spots DEF GoOn, Scoped, TypeOK, Job
  <2>2. pc[e] = "continue" /\ pc \in [Exec -> Place]
    BY <1>17 DEF GoOn, TypeOK
  <2>3. \A f \in Exec : [pc EXCEPT ![e] = "done"][f] = pc[f]
          \/ (pc[f] \notin InLine /\ [pc EXCEPT ![e] = "done"][f] \notin InLine)
    BY <2>2 DEF InLine, InMutex
  <2> QED BY <1>17, <2>1, <2>3, ChainContinued DEF GoOn
<1>18. ASSUME NEW e \in Exec, HookThrows(e)
      PROVE  Chain'
  BY <1>18, ChainStays DEF HookThrows, Goto, batches, progress, ours, TypeOK,
     InLine, InMutex, Exec
<1>19. ASSUME NEW e \in Exec, Work(e)
      PROVE  Chain'
  BY <1>19 DEF Work, Chain
<1>20. ASSUME NEW e \in Batch, FinishBatch(e)
      PROVE  Chain'
  BY <1>20 DEF FinishBatch, Chain
<1>21. ASSUME NEW e \in Exec, EndTurn(e)
      PROVE  Chain'
  BY <1>21 DEF EndTurn, Chain
<1>22. ASSUME NEW b \in Batch, Reserve(b)
      PROVE  Chain'
  <2>1. CASE UNCHANGED line
    BY <1>22, <2>1, ChainStays DEF Reserve, Goto, TypeOK, InLine, InMutex, Exec
  <2>2. CASE line' = Append(line, b) /\ Goto(b, "lock")
    BY <1>22, <2>2, ChainJoined DEF Reserve, Goto, TypeOK, InLine, InMutex, Exec
  <2> QED BY <1>22, <2>1, <2>2 DEF Reserve
<1>23. ASSUME NEW b \in Batch, Rollback(b)
      PROVE  Chain'
  BY <1>23, ChainStays DEF Rollback, Goto, progress, outside, TypeOK, InLine,
     InMutex, Exec
<1>24. ASSUME NEW b \in Batch, SettleClaim(b)
      PROVE  Chain'
  BY <1>24, ChainStays DEF SettleClaim, Goto, progress, outside, TypeOK,
     InLine, InMutex, Exec
<1>25. ASSUME NEW b \in Batch, SettleBarrier(b)
      PROVE  Chain'
  BY <1>25, ChainStays DEF SettleBarrier, Goto, progress, outside, TypeOK,
     InLine, InMutex, Exec
<1>26. ASSUME NEW b \in Batch, SettleMember(b)
      PROVE  Chain'
  <2>1. PICK t \in NextMember(b) : Continue(t, pc, job)
           \/ Continue(t, pc, [job EXCEPT ![b].child = Only(Spare)])
    BY <1>26 DEF SettleMember
  <2>2. t \in Task /\ pc \in [Exec -> Place]
    BY DEF NextMember, TypeOK, Job, Exec
  <2> QED BY <2>1, <2>2, ChainContinued
<1>27. ASSUME NEW b \in Batch, MemberAdmitted(b)
      PROVE  Chain'
  BY <1>27, ChainStays DEF MemberAdmitted, Goto, progress, outside, TypeOK,
     InLine, InMutex, Exec
<1>28. ASSUME NEW b \in Batch, SettleEnd(b)
      PROVE  Chain'
  BY <1>28, ChainStays DEF SettleEnd, Goto, progress, outside, TypeOK, InLine,
     InMutex, Exec
<1>29. ASSUME BootStart
      PROVE  Chain'
  BY <1>29 DEF BootStart, Chain
<1>30. ASSUME BootSweep
      PROVE  Chain'
  <2>1. UNCHANGED pc \/ (snap.own \in Batch /\ pc' = [pc EXCEPT ![snap.own] = "settle"])
    BY <1>30 DEF BootSweep, Resumes, IsBatch, Goto
  <2>2. snap.own \in Batch => pc[snap.own] \notin InLine
    BY <1>30 DEF BootSweep, Resumes, Quiet, InLine
  <2> QED BY <1>30, <2>1, <2>2, ChainStays DEF BootSweep, Resumes, TypeOK, InLine,
     InMutex, Exec
<1>31. ASSUME BootSettled
      PROVE  Chain'
  BY <1>31 DEF BootSettled, Chain
<1>32. ASSUME Crash
      PROVE  Chain'
  <2>1. line' = <<>> /\ \A e \in Exec : pc'[e] \notin InLine
    BY <1>32 DEF Crash, InLine, InMutex
  <2> QED BY <2>1 DEF Chain
<1>33. ASSUME OtherAsks
      PROVE  Chain'
  BY <1>33 DEF OtherAsks, Chain
<1>34. ASSUME OtherTakes
      PROVE  Chain'
  BY <1>34 DEF OtherTakes, Chain
<1>35. ASSUME OtherGivesUp
      PROVE  Chain'
  BY <1>35 DEF OtherGivesUp, Chain
<1>36. ASSUME OtherEnds
      PROVE  Chain'
  BY <1>36 DEF OtherEnds, Chain
<1>37. ASSUME OtherGoesOn
      PROVE  Chain'
  <2>1. PICK t \in due : Continue(t, pc, job)
    BY <1>37 DEF OtherGoesOn
  <2>2. t \in Task /\ pc \in [Exec -> Place]
    BY DEF TypeOK
  <2> QED BY <2>1, <2>2, ChainContinued
<1>38. CASE UNCHANGED vars
  BY <1>38 DEF vars, batches, progress, outside, Chain
<1>39. ASSUME BootThrows
      PROVE  Chain'
  BY <1>39 DEF BootThrows, Chain
<1> QED
  BY <1>1, <1>2, <1>3, <1>4, <1>5, <1>6, <1>7, <1>8, <1>9, <1>10, <1>11,
     <1>12, <1>13, <1>14, <1>15, <1>16, <1>17, <1>18, <1>19, <1>20, <1>21,
     <1>22, <1>23, <1>24, <1>25, <1>26, <1>27, <1>28, <1>29, <1>30, <1>31,
     <1>32, <1>33, <1>34, <1>35, <1>36, <1>37, <1>38, <1>39 DEF Next, Request,
     Handling, HandlingBatch, Agent, Boot, Outside

LEMMA ContinueScoped ==
  ASSUME NEW t \in Task, NEW pcs \in [Exec -> Place], NEW jobs \in [Exec -> Job],
         Continue(t, pcs, jobs)
  PROVE  \A e \in Exec : /\ pc'[e] # "idle" /\ pcs[e] = "idle" => job'[e].scope # {}
                         /\ pcs[e] # "idle" => pc'[e] # "idle"
                         /\ job'[e].scope = jobs[e].scope \/ (e \in Single /\ job'[e].scope # {})
                         /\ job'[e].child = jobs[e].child
<1>1. CASE CanAdmit(t)
  <2>1. Only(Spare) \in Single /\ ToAdmit(t) # {}
    BY <1>1, OnlyIn DEF CanAdmit, Spare
  <2>2. pc' = [pcs EXCEPT ![Only(Spare)] = "lock"]
        /\ job' = [jobs EXCEPT ![Only(Spare)].scope = ToAdmit(t)]
    BY <1>1 DEF Continue
  <2>3. job' = [jobs EXCEPT ![Only(Spare)] = [jobs[Only(Spare)] EXCEPT !.scope = ToAdmit(t)]]
    BY <2>2
  <2>4. [jobs[Only(Spare)] EXCEPT !.scope = ToAdmit(t)].scope = ToAdmit(t)
        /\ [jobs[Only(Spare)] EXCEPT !.scope = ToAdmit(t)].child = jobs[Only(Spare)].child
    <3>1. \A j \in Job : [j EXCEPT !.scope = ToAdmit(t)].scope = ToAdmit(t)
                         /\ [j EXCEPT !.scope = ToAdmit(t)].child = j.child
      BY DEF Job
    <3> QED BY <2>1, <3>1 DEF Exec
  <2> QED BY <2>1, <2>2, <2>3, <2>4 DEF Exec
<1>2. CASE ~CanAdmit(t)
  BY <1>2 DEF Continue
<1> QED BY <1>1, <1>2

LEMMA JobOf ==
  ASSUME TypeOK, NEW e \in Exec, NEW f \in Exec
  PROVE  /\ [job EXCEPT ![e].queued = {}][f].scope = job[f].scope
         /\ [job EXCEPT ![e].queued = {}][f].child = job[f].child
         /\ \A n \in Nat : /\ [job EXCEPT ![e].base = n][f].scope = job[f].scope
                           /\ [job EXCEPT ![e].base = n][f].child = job[f].child
         /\ [job EXCEPT ![e].child = None][f].scope = job[f].scope
         /\ [job EXCEPT ![e].child = None][f].child = IF f = e THEN None ELSE job[f].child
<1>1. \A j \in Job : /\ [j EXCEPT !.queued = {}].scope = j.scope
                     /\ [j EXCEPT !.queued = {}].child = j.child
                     /\ \A n : /\ [j EXCEPT !.base = n].scope = j.scope
                               /\ [j EXCEPT !.base = n].child = j.child
                     /\ [j EXCEPT !.child = None].scope = j.scope
                     /\ [j EXCEPT !.child = None].child = None
  BY DEF Job
<1>2. job[e] \in Job /\ job[f] \in Job /\ DOMAIN job = Exec
  BY DEF TypeOK
<1> QED BY <1>1, <1>2

\* A step that plans nothing, and dispatches no member.
LEMMA ScopedKept ==
  ASSUME Scoped, UNCHANGED settling,
         \A e \in Exec : /\ pc'[e] = "idle" <=> pc[e] = "idle"
                         /\ job'[e].scope = job[e].scope
                         /\ job'[e].child = job[e].child \/ job'[e].child = None
                         /\ claim'.own = e => claim.own = e \/ pc[e] # "idle"
                         /\ snap'.own = e => snap.own = e,
         boot' = boot \/ boot' = "done", UNCHANGED snap \/ boot' = "done"
  PROVE  Scoped'
BY DEF Scoped, Exec

LEMMA FreeOf == Free.own \notin Exec /\ \A e : [Free EXCEPT !.own = e].own = e
BY DEF Free

LEMMA DispatchedOf ==
  ASSUME TypeOK, NEW b \in Batch
  PROVE  /\ [settling[b] EXCEPT !.status = "recovery"].members = settling[b].members
         /\ [settling[b] EXCEPT !.status = "pending"].members = settling[b].members
         /\ Dispatched(b).members = settling[b].members \union NextMember(b)
<1>1. settling[b] \in Settlement
  BY DEF TypeOK
<1> QED BY <1>1 DEF Settlement, Dispatched

\* A step that plans a task, for an execution that was not yet used.
LEMMA ScopedPlanned ==
  ASSUME Scoped, UNCHANGED <<claim, snap, boot>>,
         \A e \in Exec : /\ pc[e] # "idle" => pc'[e] # "idle" /\ job'[e].scope = job[e].scope
                         /\ pc[e] = "idle" /\ pc'[e] # "idle" => job'[e].scope # {}
                         /\ e \in Batch /\ pc'[e] = "idle" => job'[e].scope = job[e].scope,
         \A b \in Batch : /\ settling'[b].members \subseteq job[b].scope
                          /\ pc[b] = "idle" => UNCHANGED settling[b]
                          /\ \/ job'[b].child = None
                             \/ job'[b].child = job[b].child /\ UNCHANGED settling[b] /\ UNCHANGED job[b].scope
                             \/ settling'[b].members # job[b].scope /\ pc[b] # "idle"
  PROVE  Scoped'
BY DEF Scoped, Exec

\* Every step keeps the scopes.
LEMMA ScopedNext ==
  ASSUME TypeOK, Scoped, [Next]_vars
  PROVE  Scoped'
<1>1. ASSUME NEW e \in Single, NEW S \in Selection, Plan(e, S)
      PROVE  Scoped'
  <2>1. Only(Spare) \in Single /\ pc[Only(Spare)] = "idle"
    BY <1>1, OnlyIn DEF Plan, Spare
  <2>2. PICK t \in NextOf(S) :
          job' = [job EXCEPT ![e] = [NoJob EXCEPT !.scope = {t}, !.queued = S, !.pre = ~Ready(t)]]
    BY <1>1 DEF Plan
  <2>3. [NoJob EXCEPT !.scope = {t}, !.queued = S, !.pre = ~Ready(t)].scope # {}
    BY DEF NoJob
  <2>4. \A f \in Exec \ {e} : job'[f] = job[f] /\ pc'[f] = pc[f]
    BY <1>1, <2>2 DEF Plan, Goto, TypeOK
  <2>5. pc[e] = "idle" /\ pc'[e] = "planned" /\ job'[e].scope # {}
    BY <1>1, <2>1, <2>2, <2>3 DEF Plan, Goto, TypeOK, Exec
  <2>6. \A b \in Batch : b \in Exec \ {e}
    BY DEF Exec
  <2> QED BY <1>1, <2>4, <2>5, <2>6, ScopedPlanned DEF Plan, batches, outside,
     Scoped, Exec
<1>2. ASSUME NEW b \in Batch, NEW S \in Selection, PlanBatch(b, S)
      PROVE  Scoped'
  <2>0. [NoJob EXCEPT !.scope = S].child = None /\ [NoJob EXCEPT !.scope = S].scope = S
    BY DEF NoJob
  <2>5. S # {}
    <3>1. Cardinality(S) > 1
      BY <1>2 DEF PlanBatch
    <3>2. Cardinality({}) = 0
      BY FS_EmptySet
    <3>3. ASSUME S = {} PROVE FALSE
      BY <3>1, <3>2, <3>3
    <3> QED BY <3>3
  <2>1. S # {} /\ b \in Exec /\ pc[b] = "idle"
    BY <1>2, <2>5 DEF PlanBatch, Exec
  <2>2. \A f \in Exec \ {b} : job'[f] = job[f] /\ pc'[f] = pc[f]
    BY <1>2 DEF PlanBatch, Goto, TypeOK
  <2>3. pc'[b] = "planned" /\ job'[b].scope = S /\ job'[b].child = None
    BY <1>2, <2>0, <2>1 DEF PlanBatch, Goto, TypeOK
  <2>4. settling[b].members = {}
    BY <2>1 DEF Scoped
  <2> QED BY <1>2, <2>1, <2>2, <2>3, <2>4 DEF PlanBatch, batches, outside,
     Scoped, Exec
<1>3. ASSUME NEW e \in Exec, Enqueue(e)
      PROVE  Scoped'
  BY <1>3, ScopedKept, FreeOf, JobOf DEF Enqueue, Goto, batches, progress,
     outside, TypeOK
<1>4. ASSUME NEW e \in Exec, Enter(e)
      PROVE  Scoped'
  BY <1>4, ScopedKept, FreeOf DEF Enter, Leave, Goto, batches, progress,
     outside, TypeOK
<1>5. ASSUME NEW e \in Exec, Acquire(e)
      PROVE  Scoped'
  <2>1. claim' = claim \/ claim' = [Free EXCEPT !.own = e]
    BY <1>5 DEF Acquire
  <2>2. claim'.own = claim.own \/ claim'.own = e
    BY <2>1, FreeOf
  <2> QED BY <1>5, ScopedKept, FreeOf, <2>2 DEF Acquire, Leave, Goto, batches,
     progress, ours, TypeOK
<1>6. ASSUME NEW e \in Exec, CreateSession(e)
      PROVE  Scoped'
  BY <1>6, ScopedKept, FreeOf DEF CreateSession, Goto, batches, progress, ours,
     TypeOK
<1>7. ASSUME NEW e \in Exec, Undo(e)
      PROVE  Scoped'
  BY <1>7 DEF Undo, GivesBack, Released, Owned, Free, Leave, Goto, batches,
     progress, others, Scoped, TypeOK, Exec, Claim
<1>8. ASSUME NEW e \in Exec, Prepare(e)
      PROVE  Scoped'
  <2>1. claim'.own = claim.own
    BY <1>8, ClaimOf DEF Prepare
  <2>2. \A f \in Exec : job'[f].scope = job[f].scope /\ job'[f].child = job[f].child
    <3>1. CASE UNCHANGED job
      BY <3>1
    <3>2. CASE job' = [job EXCEPT ![e].base = IF IsBatch(e) THEN 0 ELSE step[Only(job[e].scope)]]
      <4>1. Only(job[e].scope) \in Task
        BY <1>8, OnlyIn DEF Prepare, Scoped, TypeOK, Job
      <4>2. (IF IsBatch(e) THEN 0 ELSE step[Only(job[e].scope)]) \in Nat
        BY <4>1 DEF TypeOK
      <4> QED BY <3>2, <4>2, JobOf
    <3> QED BY <1>8, <3>1, <3>2 DEF Prepare
  <2> QED BY <1>8, ScopedKept, FreeOf, <2>1, <2>2 DEF Prepare, Goto, batches,
     progress, outside, TypeOK
<1>9. ASSUME NEW e \in Exec, Invoking(e)
      PROVE  Scoped'
  BY <1>9, ScopedKept, FreeOf, ClaimOf DEF Invoking, Leave, Goto, batches,
     progress, ours, TypeOK
<1>10. ASSUME NEW e \in Exec, StartTurn(e)
      PROVE  Scoped'
  BY <1>10, ScopedKept, FreeOf DEF StartTurn, Goto, batches, progress, ours,
     TypeOK
<1>11. ASSUME NEW e \in Exec, Started(e)
      PROVE  Scoped'
  BY <1>11, ScopedKept, FreeOf, ClaimOf DEF Started, Leave, Goto, batches,
     progress, ours, TypeOK
<1>12. ASSUME NEW e \in Exec, UndoStart(e)
      PROVE  Scoped'
  BY <1>12 DEF UndoStart, GivesBack, Released, Owned, Free, Cleared, Leave,
     Goto, batches, progress, others, Scoped, TypeOK, Exec, Claim
<1>13. ASSUME NEW e \in Exec, Assess(e)
      PROVE  Scoped'
  BY <1>13, ScopedKept, FreeOf DEF Assess, Outcomes, Goto, batches, progress,
     outside, TypeOK
<1>14. ASSUME NEW e \in Exec, Release(e)
      PROVE  Scoped'
  BY <1>14 DEF Release, Released, Owned, Free, Cleared, Goto, batches,
     progress, outside, Scoped, TypeOK, Exec, Claim
<1>15. ASSUME NEW e \in Exec, Resume(e)
      PROVE  Scoped'
  BY <1>15 DEF Resume, Released, Owned, Free, Cleared, Goto, batches, progress,
     outside, Scoped, TypeOK, Exec, Claim
<1>16. ASSUME NEW e \in Exec, Mark(e)
      PROVE  Scoped'
  BY <1>16 DEF Mark, Marked, Owned, Cleared, Goto, batches, progress, outside,
     Scoped, TypeOK, Exec, Claim
<1>17. ASSUME NEW e \in Exec, GoOn(e)
      PROVE  Scoped'
  <2> DEFINE pcs == [pc EXCEPT ![e] = "done"]
  <2>1. Only(job[e].scope) \in Task /\ pcs \in [Exec -> Place]
    BY <1>17, OnlyIn, Spots DEF GoOn, Scoped, TypeOK, Job
  <2>2. pc[e] = "continue" /\ job \in [Exec -> Job]
        /\ \A f \in Exec : pcs[f] = "idle" <=> pc[f] = "idle"
    BY <1>17 DEF GoOn, TypeOK
  <2>3. Continue(Only(job[e].scope), pcs, job)
    BY <1>17 DEF GoOn
  <2> HIDE DEF pcs
  <2>4. \A f \in Exec : /\ pc'[f] # "idle" /\ pcs[f] = "idle" => job'[f].scope # {}
                        /\ pcs[f] # "idle" => pc'[f] # "idle"
                        /\ job'[f].scope = job[f].scope \/ (f \in Single /\ job'[f].scope # {})
                        /\ job'[f].child = job[f].child
    BY <2>1, <2>2, <2>3, ContinueScoped
  <2>5. UNCHANGED <<claim, snap, boot, settling>>
    BY <1>17 DEF GoOn, batches, outside
  <2> QED BY <2>2, <2>4, <2>5 DEF Scoped, Exec
<1>18. ASSUME NEW e \in Exec, HookThrows(e)
      PROVE  Scoped'
  BY <1>18 DEF HookThrows, Fails, Upset, Goto, batches, progress, ours, Scoped,
     TypeOK, Exec, Claim
<1>19. ASSUME NEW e \in Exec, Work(e)
      PROVE  Scoped'
  BY <1>19 DEF Work, batches, outside, Scoped, TypeOK, Exec, Claim
<1>20. ASSUME NEW e \in Batch, FinishBatch(e)
      PROVE  Scoped'
  BY <1>20 DEF FinishBatch, outside, Scoped, TypeOK, Exec, Claim
<1>21. ASSUME NEW e \in Exec, EndTurn(e)
      PROVE  Scoped'
  BY <1>21 DEF EndTurn, Working, batches, progress, outside, Scoped, TypeOK,
     Exec, Claim
<1>22. ASSUME NEW b \in Batch, Reserve(b)
      PROVE  Scoped'
  BY <1>22, ScopedKept, FreeOf DEF Reserve, Exec, Goto, progress, outside,
     TypeOK
<1>23. ASSUME NEW b \in Batch, Rollback(b)
      PROVE  Scoped'
  BY <1>23, ScopedKept, FreeOf DEF Rollback, Exec, Goto, progress, outside,
     TypeOK
<1>24. ASSUME NEW b \in Batch, SettleClaim(b)
      PROVE  Scoped'
  <2>1. b \in Exec
    BY DEF Exec
  <2>2. \A f \in Exec : pc'[f] = "idle" <=> pc[f] = "idle"
    BY <1>24 DEF SettleClaim, Goto, TypeOK
  <2>3. \A c \in Batch : settling'[c].members = settling[c].members
    <3>1. \/ settling' = [settling EXCEPT ![b] = [settling[b] EXCEPT !.status = "recovery"]]
          \/ settling' = [settling EXCEPT ![b] = [settling[b] EXCEPT !.status = "pending"]]
      BY <1>24 DEF SettleClaim, Settles
    <3> QED BY <3>1, DispatchedOf DEF TypeOK
  <2>4. claim' = claim \/ claim' = Free
    BY <1>24 DEF SettleClaim, Released
  <2> QED BY <1>24, <2>2, <2>3, <2>4, FreeOf DEF SettleClaim, progress,
     outside, Scoped, Exec
<1>25. ASSUME NEW b \in Batch, SettleBarrier(b)
      PROVE  Scoped'
  BY <1>25 DEF SettleBarrier, Goto, progress, outside, Scoped, TypeOK, Exec,
     Claim
<1>26. ASSUME NEW b \in Batch, SettleMember(b)
      PROVE  Scoped'
  <2>1. PICK t \in NextMember(b) :
          IF CanAdmit(t)
            THEN Continue(t, pc, [job EXCEPT ![b].child = Only(Spare)]) /\ UNCHANGED settling
            ELSE Continue(t, pc, job) /\ Settles(b, Dispatched(b))
    BY <1>26 DEF SettleMember
  <2>2. t \in Task /\ b \in Exec /\ pc \in [Exec -> Place] /\ job \in [Exec -> Job]
    BY DEF NextMember, TypeOK, Job, Exec
  <2>3. pc[b] = "dispatch" /\ job[b].child = None /\ UNCHANGED <<claim, snap, boot>>
    BY <1>26 DEF SettleMember, outside
  <2>4. settling[b].members # job[b].scope
    BY <2>1 DEF NextMember
  <2>5. CASE CanAdmit(t)
    <3> DEFINE jobs == [job EXCEPT ![b].child = Only(Spare)]
    <3>1. Only(Spare) \in Exec
      BY <2>5, OnlyIn DEF CanAdmit, Spare, Exec
    <3>2. jobs \in [Exec -> Job]
      BY <2>2, <3>1, JobsIn
    <3>3. \A f \in Exec : jobs[f].scope = job[f].scope /\ (f # b => jobs[f].child = job[f].child)
      <4>1. \A j \in Job : [j EXCEPT !.child = Only(Spare)].scope = j.scope
        BY DEF Job
      <4> QED BY <2>2, <4>1
    <3>4. Continue(t, pc, jobs) /\ UNCHANGED settling
      BY <2>1, <2>5
    <3> HIDE DEF jobs
    <3>5. \A f \in Exec : /\ pc'[f] # "idle" /\ pc[f] = "idle" => job'[f].scope # {}
                          /\ pc[f] # "idle" => pc'[f] # "idle"
                          /\ job'[f].scope = jobs[f].scope \/ (f \in Single /\ job'[f].scope # {})
                          /\ job'[f].child = jobs[f].child
      BY <2>2, <3>2, <3>4, ContinueScoped
    <3> QED BY <2>2, <2>3, <2>4, <3>3, <3>4, <3>5 DEF Scoped, Exec
  <2>6. CASE ~CanAdmit(t)
    <3>1. UNCHANGED <<pc, job>>
      BY <2>1, <2>6 DEF Continue
    <3>2. \A c \in Batch : settling'[c].members = settling[c].members
             \/ (c = b /\ settling'[b].members = settling[b].members \union NextMember(b))
      BY <2>1, <2>6, DispatchedOf DEF Settles, TypeOK
    <3>3. NextMember(b) \subseteq job[b].scope
      BY DEF NextMember
    <3> QED BY <2>3, <3>1, <3>2, <3>3 DEF Scoped, Exec
  <2> QED BY <2>5, <2>6
<1>27. ASSUME NEW b \in Batch, MemberAdmitted(b)
      PROVE  Scoped'
  <2>1. b \in Exec
    BY DEF Exec
  <2>2. \A f \in Exec : job'[f].scope = job[f].scope
                         /\ job'[f].child = IF f = b THEN None ELSE job[f].child
    BY <1>27, <2>1, JobOf DEF MemberAdmitted
  <2>3. \A f \in Exec : pc'[f] = "idle" <=> pc[f] = "idle"
    BY <1>27 DEF MemberAdmitted, Goto, TypeOK
  <2>4. \A c \in Batch : settling'[c].members = settling[c].members
           \/ (c = b /\ settling'[b].members = settling[b].members \union NextMember(b))
    BY <1>27, DispatchedOf DEF MemberAdmitted, Settles, TypeOK
  <2>5. NextMember(b) \subseteq job[b].scope /\ pc[b] = "dispatch"
    BY <1>27 DEF NextMember, MemberAdmitted
  <2> QED BY <1>27, <2>1, <2>2, <2>3, <2>4, <2>5 DEF MemberAdmitted, progress,
     outside, Scoped, Exec
<1>28. ASSUME NEW b \in Batch, SettleEnd(b)
      PROVE  Scoped'
  <2>1. \A f \in Exec : pc'[f] = "idle" <=> pc[f] = "idle"
    BY <1>28 DEF SettleEnd, Goto, TypeOK
  <2>2. \A c \in Batch : settling'[c].members = settling[c].members
    <3>1. settling' = [settling EXCEPT ![b] = [settling[b] EXCEPT !.status = "completed"]]
      BY <1>28 DEF SettleEnd, Settles
    <3>2. settling \in [Batch -> Settlement]
      BY DEF TypeOK
    <3> QED BY <3>1, <3>2 DEF Settlement
  <2> QED BY <1>28, <2>1, <2>2 DEF SettleEnd, progress, outside, Scoped, Exec
<1>29. ASSUME BootStart
      PROVE  Scoped'
  BY <1>29 DEF BootStart, batches, progress, Scoped, TypeOK, Exec, Claim
<1>30. ASSUME BootSweep
      PROVE  Scoped'
  <2>1. snap.own \in Exec /\ pc[snap.own] # "idle"
    BY <1>30 DEF BootSweep, Resumes, Scoped
  <2>2. claim'.own = claim.own \/ claim' = Free
    BY <1>30, <2>1, ClaimOf DEF BootSweep, Resumes, Sweeps, Released
  <2>3. \A f \in Exec : job'[f].scope = job[f].scope
                         /\ (job'[f].child = job[f].child \/ job'[f].child = None)
    <3>1. UNCHANGED job \/ job' = [job EXCEPT ![snap.own].child = None]
      BY <1>30 DEF BootSweep
    <3>2. CASE job' = [job EXCEPT ![snap.own].child = None]
      <4>1. PICK e \in Exec : e = snap.own
        BY <2>1
      <4>2. job' = [job EXCEPT ![e].child = None]
        BY <3>2, <4>1
      <4> QED BY <4>2, JobOf
    <3> QED BY <3>1, <3>2
  <2>4. boot' = "settle" \/ boot' = "done"
    BY <1>30 DEF BootSweep
  <2>5. CASE boot' = "done"
    BY <1>30, <2>1, <2>2, <2>3, <2>5, ScopedKept, FreeOf DEF BootSweep, Resumes,
       batches, Goto, TypeOK
  <2>6. CASE boot' = "settle"
    <3>1. UNCHANGED <<claim, snap, settling>>
          /\ \A f \in Exec : pc'[f] = "idle" <=> pc[f] = "idle"
      BY <1>30, <2>1, <2>6 DEF BootSweep, Resumes, batches, Goto, TypeOK
    <3> QED BY <2>1, <2>3, <2>6, <3>1 DEF Scoped, Exec
  <2> QED BY <2>4, <2>5, <2>6
<1>31. ASSUME BootSettled
      PROVE  Scoped'
  BY <1>31 DEF BootSettled, Marked, Owned, Free, batches, progress, Scoped,
     TypeOK, Exec, Claim
<1>32. ASSUME Crash
      PROVE  Scoped'
  BY <1>32 DEF Crash, Upset, Free, batches, progress, Scoped, TypeOK, Exec,
     Claim
<1>33. ASSUME OtherAsks
      PROVE  Scoped'
  BY <1>33 DEF OtherAsks, Upset, batches, progress, Scoped, TypeOK, Exec, Claim
<1>34. ASSUME OtherTakes
      PROVE  Scoped'
  BY <1>34 DEF OtherTakes, Free, batches, progress, Scoped, TypeOK, Exec, Claim
<1>35. ASSUME OtherGivesUp
      PROVE  Scoped'
  BY <1>35 DEF OtherGivesUp, batches, progress, Scoped, TypeOK, Exec, Claim
<1>36. ASSUME OtherEnds
      PROVE  Scoped'
  BY <1>36 DEF OtherEnds, Free, batches, Scoped, TypeOK, Exec, Claim
<1>37. ASSUME OtherGoesOn
      PROVE  Scoped'
  <2>1. PICK t \in due : Continue(t, pc, job)
    BY <1>37 DEF OtherGoesOn
  <2>2. t \in Task /\ pc \in [Exec -> Place] /\ job \in [Exec -> Job]
    BY DEF TypeOK
  <2>4. \A f \in Exec : /\ pc'[f] # "idle" /\ pc[f] = "idle" => job'[f].scope # {}
                        /\ pc[f] # "idle" => pc'[f] # "idle"
                        /\ job'[f].scope = job[f].scope \/ (f \in Single /\ job'[f].scope # {})
                        /\ job'[f].child = job[f].child
    BY <2>1, <2>2, ContinueScoped
  <2>5. UNCHANGED <<claim, snap, boot, settling>>
    BY <1>37 DEF OtherGoesOn, batches
  <2> QED BY <2>4, <2>5 DEF Scoped, Exec
<1>38. CASE UNCHANGED vars
  BY <1>38 DEF vars, batches, progress, outside, Scoped, TypeOK, Exec, Claim
<1>39. ASSUME BootThrows
      PROVE  Scoped'
  BY <1>39, FreeOf DEF BootThrows, batches, progress, Scoped, Exec
<1> QED
  BY <1>1, <1>2, <1>3, <1>4, <1>5, <1>6, <1>7, <1>8, <1>9, <1>10, <1>11,
     <1>12, <1>13, <1>14, <1>15, <1>16, <1>17, <1>18, <1>19, <1>20, <1>21,
     <1>22, <1>23, <1>24, <1>25, <1>26, <1>27, <1>28, <1>29, <1>30, <1>31,
     <1>32, <1>33, <1>34, <1>35, <1>36, <1>37, <1>38, <1>39 DEF Next, Request,
     Handling, HandlingBatch, Agent, Boot, Outside

-----------------------------------------------------------------------------
(***************************************************************************)
(* Who gives a claim back.  Said of one execution at a time, so that a     *)
(* step of one leaves what is said of the others: what it owns, at which   *)
(* stage, and what the pass at the first request has seen of it.           *)
(***************************************************************************)

\* What the claim, the stage of its settlement and the pass at the first request say
\* of an execution.
Fits(e) ==
  /\ Owned(e) /\ ~claim.recovery =>
       \/ pc[e] \in InMutex \union Settling \union {"running", "stuck", "broken"}
       \/ pc[e] = "dead" /\ (boot # "done" \/ claim.at = "new")
       \/ e \in kept
  /\ pc[e] \in {"planned", "lock", "acquire"} => ~Owned(e)
  /\ boot \in {"sweep", "settle"} /\ Owned(e) /\ pc[e] = "dead" => boot = "sweep" /\ snap.own = e
  /\ boot = "sweep" /\ snap.own = e /\ (e \in Batch \/ pc[e] = "dead") => claim = snap
  /\ e \in Batch =>
       /\ pc[e] \in {"barrier", "dispatch"} => ~Owned(e) /\ active # e
       /\ pc[e] = "dispatch" => barrier[e] # "reserved"
       /\ pc[e] \in {"running", "mark", "settle"} => Owned(e)
       /\ pc[e] \notin {"release", "resume", "continue"}
       /\ pc[e] \in {"refused", "back"} /\ Owned(e) => e \in kept
       /\ pc[e] \in {"lock"} \union InMutex => barrier[e] = "reserved"
       /\ Owned(e) /\ e \notin kept => barrier[e] = "reserved"
       /\ barrier[e] = "reserved" =>
            AtWork(e) \/ BrokenOff(e) \/ (Owned(e) /\ claim.recovery)
       /\ boot # "done" =>
            \/ pc[e] \in {"idle", "done", "back", "dead"}
            \/ boot = "settle" /\ e = snap.own /\ pc[e] \in {"settle", "barrier", "dispatch", "broken"}

\* A step that does not concern an execution, and one that lets it join the chain.
Alike(f) ==
  /\ pc'[f] = pc[f] /\ boot' = boot /\ snap' = snap
  /\ claim' # claim => ~Owned(f) /\ ~Owned(f)'
  /\ active' = f => active = f
  /\ f \in kept' <=> f \in kept
  /\ f \in Batch => barrier'[f] = barrier[f]

Joins(f) ==
  /\ f \in Single /\ pc[f] = "idle" /\ pc'[f] = "lock"
  /\ boot' = boot /\ snap' = snap /\ claim' = claim /\ kept' = kept

LEMMA AlikeFits == ASSUME NEW f \in Exec, Fits(f), Alike(f) PROVE Fits(f)'
BY DEF Fits, Alike, Owned, AtWork, BrokenOff

LEMMA JoinsFits == ASSUME Scoped, NEW f \in Exec, Fits(f), Joins(f) PROVE Fits(f)'
BY DEF Fits, Joins, Owned, Scoped, InMutex, Settling

\* What becomes of a claim.
LEMMA ClaimBecomes ==
  ASSUME TypeOK
  PROVE  /\ Free.own \notin Exec
         /\ \A e \in Exec : [Free EXCEPT !.own = e].own = e
         /\ [Free EXCEPT !.own = Other].own = Other
         /\ \A at : Enriched(at).own = claim.own /\ Enriched(at).recovery = claim.recovery
         /\ \A e \in Exec : Owned(e) => /\ Released(e) = Free
                                       /\ Marked(e).own = e /\ Marked(e).recovery
         /\ \A e \in Exec : ~Owned(e) => Released(e) = claim /\ Marked(e) = claim
BY DEF TypeOK, Claim, Free, Enriched, Released, Marked, Owned

LEMMA Kinds ==
  ASSUME TypeOK
  PROVE  /\ pc \in [Exec -> Place] /\ barrier \in [Batch -> {"none", "reserved", "released"}]
         /\ Single \subseteq Exec /\ Batch \subseteq Exec /\ Single \intersect Batch = {}
BY DEF TypeOK, Exec

\* The steps of an execution.
LEMMA HandlingFits ==
  ASSUME TypeOK, Scoped, \A f \in Exec : Fits(f), NEW e \in Exec,
         Handling(e) \/ HookThrows(e)
  PROVE  \A f \in Exec : Fits(f)'
<1> USE Kinds, ClaimBecomes DEF Goto, Owned, batches, progress, outside
<1>1. ASSUME Enqueue(e) PROVE \A f \in Exec : Fits(f)'
  <2>1. ASSUME NEW f \in Exec, f # e PROVE Alike(f)
    BY <1>1, <2>1 DEF Enqueue, Alike
  <2>2. Fits(e)'
    BY <1>1 DEF Enqueue, Fits, AtWork, BrokenOff, InMutex, Settling
  <2> QED
    BY <2>1, <2>2, AlikeFits
<1>2. ASSUME Enter(e) PROVE \A f \in Exec : Fits(f)'
  <2>1. ASSUME NEW f \in Exec, f # e PROVE Alike(f)
    BY <1>2, <2>1 DEF Enter, Leave, Alike
  <2>2. Fits(e)'
    BY <1>2 DEF Enter, Leave, Fits, AtWork, BrokenOff, InMutex, Settling
  <2> QED
    BY <2>1, <2>2, AlikeFits
<1>3. ASSUME Acquire(e) PROVE \A f \in Exec : Fits(f)'
  <2>1. claim' = claim \/ (claim = Free /\ claim'.own = e)
    BY <1>3 DEF Acquire
  <2>2. ASSUME NEW f \in Exec, f # e PROVE Alike(f)
    BY <1>3, <2>1, <2>2 DEF Acquire, Leave, ours, Alike
  <2>3. Fits(e)'
    BY <1>3 DEF Acquire, Leave, Fits, AtWork, BrokenOff, InMutex, Settling
  <2> QED
    BY <2>2, <2>3, AlikeFits
<1>4. ASSUME CreateSession(e) PROVE \A f \in Exec : Fits(f)'
  <2>1. ASSUME NEW f \in Exec, f # e PROVE Alike(f)
    BY <1>4, <2>1 DEF CreateSession, ours, Alike
  <2>2. Fits(e)'
    BY <1>4 DEF CreateSession, ours, Fits, AtWork, BrokenOff, InMutex, Settling
  <2> QED
    BY <2>1, <2>2, AlikeFits
<1>5. ASSUME Undo(e) PROVE \A f \in Exec : Fits(f)'
  <2>1. ASSUME NEW f \in Exec, f # e PROVE Alike(f)
    BY <1>5, <2>1 DEF Undo, GivesBack, others, Leave, Alike
  <2>2. Fits(e)'
    BY <1>5 DEF Undo, GivesBack, others, Leave, Fits, AtWork, BrokenOff, InMutex, Settling
  <2> QED
    BY <2>1, <2>2, AlikeFits
<1>6. ASSUME Prepare(e) PROVE \A f \in Exec : Fits(f)'
  <2>1. ASSUME NEW f \in Exec, f # e PROVE Alike(f)
    BY <1>6, <2>1 DEF Prepare, Alike
  <2>2. Fits(e)'
    BY <1>6 DEF Prepare, Fits, AtWork, BrokenOff, InMutex, Settling
  <2> QED
    BY <2>1, <2>2, AlikeFits
<1>7. ASSUME Invoking(e) PROVE \A f \in Exec : Fits(f)'
  <2>1. ASSUME NEW f \in Exec, f # e PROVE Alike(f)
    BY <1>7, <2>1 DEF Invoking, Leave, ours, Alike
  <2>2. Fits(e)'
    BY <1>7 DEF Invoking, Leave, ours, Fits, AtWork, BrokenOff, InMutex, Settling
  <2> QED
    BY <2>1, <2>2, AlikeFits
<1>8. ASSUME StartTurn(e) PROVE \A f \in Exec : Fits(f)'
  <2>1. ASSUME NEW f \in Exec, f # e PROVE Alike(f)
    BY <1>8, <2>1 DEF StartTurn, ours, Alike
  <2>2. Fits(e)'
    BY <1>8 DEF StartTurn, ours, Fits, AtWork, BrokenOff, InMutex, Settling
  <2> QED
    BY <2>1, <2>2, AlikeFits
<1>9. ASSUME Started(e) PROVE \A f \in Exec : Fits(f)'
  <2>1. ASSUME NEW f \in Exec, f # e PROVE Alike(f)
    BY <1>9, <2>1 DEF Started, Leave, Cleared, ours, Alike
  <2>2. Fits(e)'
    BY <1>9 DEF Started, Leave, Cleared, ours, Fits, AtWork, BrokenOff, InMutex, Settling
  <2> QED
    BY <2>1, <2>2, AlikeFits
<1>10. ASSUME UndoStart(e) PROVE \A f \in Exec : Fits(f)'
  <2>1. ASSUME NEW f \in Exec, f # e PROVE Alike(f)
    BY <1>10, <2>1 DEF UndoStart, GivesBack, others, Leave, Cleared, Alike
  <2>2. Fits(e)'
    BY <1>10 DEF UndoStart, GivesBack, others, Leave, Cleared, Fits, AtWork, BrokenOff, InMutex, Settling
  <2> QED
    BY <2>1, <2>2, AlikeFits
<1>11. ASSUME Release(e) PROVE \A f \in Exec : Fits(f)'
  <2>1. ASSUME NEW f \in Exec, f # e PROVE Alike(f)
    BY <1>11, <2>1 DEF Release, Cleared, Alike
  <2>2. Fits(e)'
    BY <1>11 DEF Release, Cleared, Fits, AtWork, BrokenOff, InMutex, Settling
  <2> QED
    BY <2>1, <2>2, AlikeFits
<1>12. ASSUME Resume(e) PROVE \A f \in Exec : Fits(f)'
  <2>1. ASSUME NEW f \in Exec, f # e PROVE Alike(f)
    BY <1>12, <2>1 DEF Resume, Cleared, Alike
  <2>2. Fits(e)'
    BY <1>12 DEF Resume, Cleared, Fits, AtWork, BrokenOff, InMutex, Settling
  <2> QED
    BY <2>1, <2>2, AlikeFits
<1>13. ASSUME Mark(e) PROVE \A f \in Exec : Fits(f)'
  <2>1. ASSUME NEW f \in Exec, f # e PROVE Alike(f)
    BY <1>13, <2>1 DEF Mark, Cleared, Alike
  <2>2. Fits(e)'
    BY <1>13 DEF Mark, Cleared, Fits, AtWork, BrokenOff, InMutex, Settling
  <2> QED
    BY <2>1, <2>2, AlikeFits
<1>14. ASSUME HookThrows(e) PROVE \A f \in Exec : Fits(f)'
  <2>1. ASSUME NEW f \in Exec, f # e PROVE Alike(f)
    BY <1>14, <2>1 DEF HookThrows, ours, Alike
  <2>2. Fits(e)'
    BY <1>14 DEF HookThrows, ours, Fits, AtWork, BrokenOff, InMutex, Settling
  <2> QED
    BY <2>1, <2>2, AlikeFits
<1>15. ASSUME Assess(e) PROVE \A f \in Exec : Fits(f)'
  <2>1. /\ pc[e] = "running" /\ pc' = [pc EXCEPT ![e] = pc'[e]]
        /\ pc'[e] \in {"settle", "mark", "release", "resume"}
        /\ e \in Batch => pc'[e] \in {"settle", "mark"}
    BY <1>15 DEF Assess, Outcomes, IsBatch
  <2>2. ASSUME NEW f \in Exec, f # e PROVE Alike(f)
    BY <1>15, <2>1, <2>2 DEF Assess, Alike
  <2>3. Fits(e)'
    BY <1>15, <2>1 DEF Assess, Fits, AtWork, BrokenOff, InMutex, Settling
  <2> QED
    BY <2>2, <2>3, AlikeFits
<1>16. ASSUME GoOn(e) PROVE \A f \in Exec : Fits(f)'
  <2>1. job[e].scope \subseteq Task /\ job[e].scope # {}
    BY <1>16 DEF GoOn, Scoped, TypeOK, Job
  <2>2. Only(job[e].scope) \in Task
    BY <2>1, OnlyIn
  <2>3. [pc EXCEPT ![e] = "done"] \in [Exec -> Place]
    BY Spots
  <2>4. pc[e] = "continue" /\ \A f \in Exec :
          \/ pc'[f] = [pc EXCEPT ![e] = "done"][f]
          \/ f \in Single /\ pc[f] = "idle" /\ pc'[f] = "lock"
    <3> DEFINE pcs == [pc EXCEPT ![e] = "done"]
    <3>1. pcs \in [Exec -> Place] /\ Continue(Only(job[e].scope), pcs, job)
      BY <1>16, <2>3 DEF GoOn
    <3> HIDE DEF pcs
    <3>2. \A f \in Exec : \/ pc'[f] = pcs[f]
                          \/ f \in Single /\ pc[f] = "idle" /\ pc'[f] = "lock"
      BY <2>2, <3>1, ContinueMoves
    <3> QED
      BY <1>16, <3>2 DEF GoOn, pcs
  <2>5. ASSUME NEW f \in Exec, f # e PROVE Alike(f) \/ Joins(f)
    BY <1>16, <2>4, <2>5 DEF GoOn, Alike, Joins
  <2>6. Fits(e)'
    BY <1>16, <2>4 DEF GoOn, Fits, AtWork, BrokenOff, InMutex, Settling
  <2> QED
    BY <2>5, <2>6, AlikeFits, JoinsFits
<1> QED
  BY <1>1, <1>2, <1>3, <1>4, <1>5, <1>6, <1>7, <1>8, <1>9, <1>10, <1>11, <1>12,
     <1>13, <1>14, <1>15, <1>16 DEF Handling

\* The steps of a batch.
LEMMA BatchFits ==
  ASSUME TypeOK, Scoped, \A f \in Exec : Fits(f), NEW b \in Batch,
         HandlingBatch(b)
  PROVE  \A f \in Exec : Fits(f)'
<1> USE Kinds, ClaimBecomes DEF Goto, Owned, batches, progress, outside
<1>1. ASSUME Reserve(b) PROVE \A f \in Exec : Fits(f)'
  <2>1. ASSUME NEW f \in Exec, f # b PROVE Alike(f)
    BY <1>1, <2>1 DEF Reserve, Alike
  <2>2. Fits(b)'
    BY <1>1 DEF Reserve, Fits, AtWork, BrokenOff, InMutex, Settling
  <2> QED
    BY <2>1, <2>2, AlikeFits
<1>2. ASSUME Rollback(b) PROVE \A f \in Exec : Fits(f)'
  <2>1. ASSUME NEW f \in Exec, f # b PROVE Alike(f)
    BY <1>2, <2>1 DEF Rollback, Alike
  <2>2. Fits(b)'
    BY <1>2 DEF Rollback, Fits, AtWork, BrokenOff, InMutex, Settling
  <2> QED
    BY <2>1, <2>2, AlikeFits
<1>3. ASSUME SettleClaim(b) PROVE \A f \in Exec : Fits(f)'
  <2>1. ASSUME NEW f \in Exec, f # b PROVE Alike(f)
    BY <1>3, <2>1 DEF SettleClaim, Cleared, Alike
  <2>2. Fits(b)'
    BY <1>3 DEF SettleClaim, Cleared, Fits, AtWork, BrokenOff, InMutex, Settling
  <2> QED
    BY <2>1, <2>2, AlikeFits
<1>4. ASSUME SettleBarrier(b) PROVE \A f \in Exec : Fits(f)'
  <2>1. ASSUME NEW f \in Exec, f # b PROVE Alike(f)
    BY <1>4, <2>1 DEF SettleBarrier, Alike
  <2>2. Fits(b)'
    BY <1>4 DEF SettleBarrier, Fits, AtWork, BrokenOff, InMutex, Settling
  <2> QED
    BY <2>1, <2>2, AlikeFits
<1>5. ASSUME MemberAdmitted(b) PROVE \A f \in Exec : Fits(f)'
  <2>1. ASSUME NEW f \in Exec, f # b PROVE Alike(f)
    BY <1>5, <2>1 DEF MemberAdmitted, Alike
  <2>2. Fits(b)'
    BY <1>5 DEF MemberAdmitted, Fits, AtWork, BrokenOff, InMutex, Settling
  <2> QED
    BY <2>1, <2>2, AlikeFits
<1>6. ASSUME SettleEnd(b) PROVE \A f \in Exec : Fits(f)'
  <2>1. ASSUME NEW f \in Exec, f # b PROVE Alike(f)
    BY <1>6, <2>1 DEF SettleEnd, Alike
  <2>2. Fits(b)'
    BY <1>6 DEF SettleEnd, Fits, AtWork, BrokenOff, InMutex, Settling
  <2> QED
    BY <2>1, <2>2, AlikeFits
<1>7. ASSUME SettleMember(b) PROVE \A f \in Exec : Fits(f)'
  <2>1. \A f \in Exec : pc'[f] = pc[f] \/ (f \in Single /\ pc[f] = "idle" /\ pc'[f] = "lock")
    <3>1. PICK t \in NextMember(b), jobs \in {job, [job EXCEPT ![b].child = Only(Spare)]} :
            Continue(t, pc, jobs)
      BY <1>7 DEF SettleMember
    <3>2. t \in Task
      BY DEF NextMember, TypeOK, Job
    <3> QED
      BY <3>1, <3>2, ContinueMoves
  <2>2. ASSUME NEW f \in Exec PROVE Alike(f) \/ Joins(f)
    BY <1>7, <2>1 DEF SettleMember, Alike, Joins
  <2> QED
    BY <2>2, AlikeFits, JoinsFits
<1> QED
  BY <1>1, <1>2, <1>3, <1>4, <1>5, <1>6, <1>7 DEF HandlingBatch

LEMMA AgentFits ==
  ASSUME \A f \in Exec : Fits(f), NEW e \in Exec, Agent(e)
  PROVE  \A f \in Exec : Fits(f)'
<1>1. \A f \in Exec : Alike(f)
  BY DEF Agent, Work, FinishBatch, EndTurn, Alike, batches, outside
<1> QED
  BY <1>1, AlikeFits

LEMMA BootFits ==
  ASSUME TypeOK, Scoped, \A f \in Exec : Fits(f), Boot
  PROVE  \A f \in Exec : Fits(f)'
<1> USE Kinds, ClaimBecomes DEF Owned, batches, progress
<1>1. CASE BootStart
  BY <1>1 DEF BootStart, Fits, AtWork, BrokenOff
<1>2. CASE BootSweep
  <2>1. PICK e \in Exec : e = snap.own
    BY <1>2 DEF BootSweep, Resumes, Scoped
  <2>2. CASE boot' = "settle"
    BY <1>2, <2>1, <2>2 DEF BootSweep, Resumes, Goto, IsBatch, Fits, AtWork, BrokenOff, InMutex, Settling
  <2>3. CASE boot' = "done"
    <3>1. /\ boot = "sweep" /\ UNCHANGED <<pc, barrier, active, kept>>
          /\ \/ claim' = claim /\ snap.at = "new"
             \/ claim' = Marked(e)
             \/ claim' = Released(e) /\ e \notin Batch
      BY <1>2, <2>1, <2>3 DEF BootSweep, Resumes, Sweeps, IsBatch
    <3>2. ASSUME NEW f \in Exec, f # e PROVE Fits(f)'
      BY <2>1, <2>3, <3>1, <3>2 DEF Fits, AtWork, BrokenOff
    <3>3. CASE claim' = claim
      BY <2>1, <2>3, <3>1, <3>2, <3>3 DEF Fits, AtWork, BrokenOff
    <3>4. CASE claim' # claim /\ claim' = Marked(e)
      BY <2>1, <2>3, <3>1, <3>2, <3>4 DEF Fits, AtWork, BrokenOff
    <3>5. CASE claim' # claim /\ claim' = Released(e) /\ e \notin Batch
      BY <2>1, <2>3, <3>1, <3>2, <3>5 DEF Fits, AtWork, BrokenOff
    <3> QED
      BY <3>1, <3>3, <3>4, <3>5
  <2> QED
    BY <1>2, <2>2, <2>3 DEF BootSweep
<1>3. CASE BootSettled
  <2>1. snap.own \in Exec /\ boot = "settle"
    BY <1>3 DEF BootSettled, Scoped
  <2> QED
    BY <1>3, <2>1 DEF BootSettled, Fits, AtWork, BrokenOff
<1>4. CASE BootThrows
  <2>1. PICK e \in Exec : e = snap.own
    BY <1>4 DEF BootThrows, Scoped
  <2>2. ASSUME NEW f \in Exec PROVE Fits(f)'
    BY <1>4, <2>1, <2>2 DEF BootThrows, Fits, AtWork, BrokenOff
  <2> QED
    BY <2>2
<1> QED
  BY <1>1, <1>2, <1>3, <1>4 DEF Boot

LEMMA OutsideFits ==
  ASSUME TypeOK, Scoped, \A f \in Exec : Fits(f), Outside
  PROVE  \A f \in Exec : Fits(f)'
<1> USE Kinds, ClaimBecomes DEF Owned, batches, progress
<1>1. CASE Crash
  BY <1>1 DEF Crash, Fits, AtWork, BrokenOff, InMutex
<1>2. CASE OtherAsks \/ OtherTakes \/ OtherGivesUp \/ OtherEnds
  <2>1. claim' = claim \/ (claim.own \notin Exec /\ claim'.own \notin Exec)
    BY <1>2 DEF OtherAsks, OtherTakes, OtherGivesUp, OtherEnds
  <2>2. \A f \in Exec : Alike(f)
    BY <1>2, <2>1 DEF OtherAsks, OtherTakes, OtherGivesUp, OtherEnds, Alike
  <2> QED
    BY <2>2, AlikeFits
<1>3. CASE OtherGoesOn
  <2>1. \A f \in Exec : pc'[f] = pc[f] \/ (f \in Single /\ pc[f] = "idle" /\ pc'[f] = "lock")
    <3>1. PICK t \in due : Continue(t, pc, job)
      BY <1>3 DEF OtherGoesOn
    <3>2. t \in Task
      BY DEF TypeOK
    <3> QED
      BY <3>1, <3>2, ContinueMoves
  <2>2. ASSUME NEW f \in Exec PROVE Alike(f) \/ Joins(f)
    BY <1>3, <2>1 DEF OtherGoesOn, Alike, Joins
  <2> QED
    BY <2>2, AlikeFits, JoinsFits
<1> QED
  BY <1>1, <1>2, <1>3 DEF Outside

LEMMA RequestFits ==
  ASSUME TypeOK, Scoped, \A f \in Exec : Fits(f), Request
  PROVE  \A f \in Exec : Fits(f)'
<1> USE Kinds DEF Goto, Owned, batches, progress, outside
<1>1. ASSUME NEW e \in Single, NEW S \in Selection, Plan(e, S) PROVE \A f \in Exec : Fits(f)'
  <2>1. pc[e] = "idle"
    BY <1>1, OnlyIn DEF Plan, Spare
  <2>2. ASSUME NEW f \in Exec, f # e PROVE Alike(f)
    BY <1>1, <2>2 DEF Plan, Alike
  <2>3. Fits(e)'
    BY <1>1, <2>1 DEF Plan, Fits, Scoped
  <2> QED
    BY <2>2, <2>3, AlikeFits
<1>2. ASSUME NEW b \in Batch, NEW S \in Selection, PlanBatch(b, S)
      PROVE  \A f \in Exec : Fits(f)'
  <2>1. ASSUME NEW f \in Exec, f # b PROVE Alike(f)
    BY <1>2, <2>1 DEF PlanBatch, Alike
  <2>2. Fits(b)'
    BY <1>2 DEF PlanBatch, Fits, AtWork, BrokenOff, InMutex, Scoped
  <2> QED
    BY <2>1, <2>2, AlikeFits
<1> QED
  BY <1>1, <1>2 DEF Request

LEMMA FitsNext ==
  ASSUME TypeOK, Scoped, \A f \in Exec : Fits(f), [Next]_vars
  PROVE  \A f \in Exec : Fits(f)'
<1>1. CASE UNCHANGED vars
  <2>1. \A f \in Exec : Alike(f)
    BY <1>1 DEF vars, batches, progress, outside, Alike, Owned
  <2> QED
    BY <2>1, AlikeFits
<1> QED
  BY <1>1, HandlingFits, BatchFits, AgentFits, BootFits, OutsideFits, RequestFits DEF Next

IInv ==
  TypeOK /\ Scoped /\ Chain /\ Ended /\ Quiet /\ AdmittedIsCovered /\ \A e \in Exec : Fits(e)

LEMMA InitInv == Init => IInv
<1> SUFFICES ASSUME Init PROVE IInv
  OBVIOUS
<1>1. NoJob \in Job /\ NoJob.child = None /\ Free \in Claim /\ Free.own \notin Exec
      /\ Unsettled \in Settlement /\ Unsettled.members = {}
  BY DEF NoJob, Job, Free, Claim, Unsettled, Settlement
<1>2. TypeOK
  <2>1. PICK s \in Start : step = s.step /\ queue = s.queue
    BY DEF Init
  <2>2. step \in [Task -> 1..Last] /\ queue \subseteq Task
    BY <2>1
  <2>3. step \in [Task -> Nat]
    BY <2>2
  <2>4. "idle" \in Place
    BY Spots
  <2>5. line \in Seq(Exec) /\ upsets \in Nat
    BY DEF Init
  <2> QED BY <1>1, <2>2, <2>3, <2>4, <2>5 DEF Init, TypeOK
<1>3. Scoped
  <2>1. \A e \in Exec : pc[e] = "idle" /\ claim.own # e /\ snap.own # e
    BY <1>1 DEF Init
  <2>2. \A b \in Batch : settling[b].members = {} /\ job[b].child = None
    BY <1>1 DEF Init, Exec
  <2>3. boot = "new"
    BY DEF Init
  <2> QED BY <2>1, <2>2, <2>3 DEF Scoped
<1>4. Chain
  BY DEF Init, Chain, InLine, InMutex
<1>5. Ended /\ Quiet /\ AdmittedIsCovered
  BY DEF Init, Ended, Quiet, AdmittedIsCovered, Admitted, Settling, InMutex,
     Exec
<1>6. ASSUME NEW e \in Exec PROVE Fits(e)
  BY <1>1 DEF Init, Fits, AtWork, BrokenOff, InMutex, Owned
<1> QED BY <1>2, <1>3, <1>4, <1>5, <1>6 DEF IInv

LEMMA Inductive == Spec => []IInv
<1>1. IInv /\ [Next]_vars => IInv'
  BY TypesNext, ScopedNext, ChainNext, SafeNext, FitsNext DEF IInv
<1> QED BY InitInv, <1>1, PTL DEF Spec

\* The values of the variables, for any instance.
THEOREM AdmissionTypes == Spec => []TypeOK
<1>1. IInv => TypeOK
  BY DEF IInv
<1> QED BY Inductive, <1>1, PTL

\* The agent whose turn runs has the workspace: no other agent and no
\* request-backed operation holds the claim then (admission.mjs:1-8).
THEOREM RunningAgentOwnsTheWorkspace == Spec => []AdmittedIsCovered
<1>1. IInv => AdmittedIsCovered
  BY DEF IInv
<1> QED BY Inductive, <1>1, PTL

\* A claim that no one will give back is marked for recovery (admission.mjs and
\* reconciliation.mjs), at whatever step the process dies, but where the control
\* lock timed out and no one tries again, or the claim had no session yet.
THEOREM NoClaimIsOrphaned == Spec => []NoOrphanClaim
<1>1. IInv => NoOrphanClaim
  BY DEF IInv, Fits, NoOrphanClaim, Owned
<1> QED BY Inductive, <1>1, PTL

\* A batch hands its members on only after its claim, its registration and its
\* reservation are gone (batch-completion-settlement.mjs:622).
THEOREM DispatchesAfterRelease == Spec => []DispatchAfterRelease
<1>1. IInv => DispatchAfterRelease
  BY Kinds DEF IInv, Fits, DispatchAfterRelease
<1> QED BY Inductive, <1>1, PTL

\* A batch has its reservation as long as it has the claim, and gives it back when
\* it is refused or settled; one that is left is that of a batch whose admission
\* threw, whose settlement was broken off or which died with the process, or has
\* a claim that needs recovery.
THEOREM ReservationsAreAccounted == Spec => []ReservationAccounted
<1>1. IInv => ReservationAccounted
  BY Kinds DEF IInv, Fits, ReservationAccounted
<1> QED BY Inductive, <1>1, PTL

\* Two executions are never inside the admission of one specification
\* together (the chain of promises, admission.mjs:43-48), so that what one
\* reads of the claim and of the registration stays true until it writes.
OneInside == \A e, f \in Exec : pc[e] \in InMutex /\ pc[f] \in InMutex => e = f
THEOREM OneAdmissionAtATime == Spec => []OneInside
<1>1. IInv => OneInside
  BY Inside DEF IInv, OneInside
<1> QED BY Inductive, <1>1, PTL

=============================================================================
