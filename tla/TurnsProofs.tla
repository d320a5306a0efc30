----------------------------- MODULE TurnsProofs -----------------------------
(***************************************************************************)
(* Proofs about Turns, for any number of turns, sessions and questions,    *)
(* and about Transcript, for any number of changes, readers and crashes.   *)
(*                                                                         *)
(* The invariant of Turns has two parts. That of a turn (Own) holds of the *)
(* turn alone: its record is sound, which is proved of each method of the  *)
(* coordinator (Settles, and the lemmas before it), and what its promises, *)
(* its provider's operation and the calls that stop it are at fits its     *)
(* record. A step touches one turn, which keeps its own part, and leaves   *)
(* the others alone; a shutdown does it with all of them.                  *)
(*                                                                         *)
(* That of the sessions (Registered) says who holds the lock of startTurn, *)
(* in which order the others wait for it, and that a turn which has not    *)
(* ended is the one registered, so that no other is admitted before it is  *)
(* freed, but in a session where a recovery has removed a registration.    *)
(***************************************************************************)
EXTENDS Turns, Transcript, SequenceTheorems, TLAPS

USE TurnAssumption, TurnsAssumption

-----------------------------------------------------------------------------
(***************************************************************************)
(* The record of a turn.                                                   *)
(***************************************************************************)

\* What StatusTellsTheWork says of one record.
Tells(r) ==
  /\ r.status = "requiresAttention" => r.pending # NoInteraction
  /\ r.status = "tool_execution" => r.openTools # {}
  /\ r.pending # NoInteraction =>
       /\ r.interaction[r.pending] = "pending"
       /\ r.status \in {"requiresAttention", "cancelling", "unknown"}

\* What IntentPrevails says of one record.
Prevails(r) ==
  /\ r.cancellationRequested =>
       r.outcome \in {"none", "cancelled", "interrupted"}
         \cup (IF r.timeoutRequested THEN {"failed"} ELSE {})
  /\ r.timeoutRequested => r.outcome \in {"none", "failed"}

\* The invariant of a record: a turn has no outcome before it has ended.
Sound(r) ==
  /\ r \in TurnRecord
  /\ Tells(r)
  /\ Prevails(r)
  /\ r.status # "terminal" => r.outcome = "none"

\* What no method of the coordinator does to a record: it changes none that is
\* terminal, and takes back no answer to a question.
Keeps(r, q) ==
  /\ IsTerminal(r) => q = r
  /\ \A i \in Interaction : r.interaction[i] = "resolved" => q.interaction[i] = "resolved"

\* A method that neither ends the turn nor cancels it.
Reports(r, q) ==
  /\ Sound(q)
  /\ Keeps(r, q)
  /\ IsTerminal(q) => IsTerminal(r)
  /\ q.cancellationRequested = r.cancellationRequested

\* A record keeps itself.
LEMMA SameKeeps == \A r : Keeps(r, r)
BY DEF Keeps

LEMMA NewTurnSound == Sound(NewTurn) /\ ~IsTerminal(NewTurn)
BY DEF Sound, NewTurn, Tells, Prevails, TurnRecord, TurnStatus, Active, TerminalOutcome,
       ToolStatus, InteractionStatus, FinalAnswerStatus, IsTerminal

LEMMA TextReports ==
  ASSUME NEW r, Sound(r)
  PROVE  /\ Reports(r, CommentaryDelta(r))
         /\ Reports(r, ReasoningDelta(r))
         /\ Reports(r, FinalAnswerDelta(r))
         /\ Reports(r, SetFinalAnswer(r, "completed"))
<1>1. Reports(r, CommentaryDelta(r))
  BY DEF Reports, Sound, Keeps, CommentaryDelta, Records, Tells, Prevails, TurnRecord, IsTerminal
<1>2. Reports(r, ReasoningDelta(r))
  BY DEF Reports, Sound, Keeps, ReasoningDelta, Records, Tells, Prevails, TurnRecord, IsTerminal
<1>3. Reports(r, FinalAnswerDelta(r))
  BY DEF Reports, Sound, Keeps, FinalAnswerDelta, Records, Tells, Prevails, TurnRecord, IsTerminal,
         FinalAnswerStatus
<1>4. Reports(r, SetFinalAnswer(r, "completed"))
  BY DEF Reports, Sound, Keeps, SetFinalAnswer, Records, Tells, Prevails, TurnRecord, IsTerminal,
         FinalAnswerStatus
<1> QED BY <1>1, <1>2, <1>3, <1>4

LEMMA ToolReports ==
  ASSUME NEW r, Sound(r), NEW x \in Tool, NEW status \in {"completed", "failed"}
  PROVE  /\ Reports(r, ToolStarted(r, x))
         /\ Reports(r, ToolCompleted(r, x, status))
<1>1. Reports(r, ToolStarted(r, x))
  BY DEF Reports, Sound, Keeps, ToolStarted, Tells, Prevails, TurnRecord, IsTerminal, Records,
         IsCancelling, IsWaiting, TurnStatus, Active, ToolStatus
<1>2. Reports(r, ToolCompleted(r, x, status))
  BY DEF Reports, Sound, Keeps, ToolCompleted, Tells, Prevails, TurnRecord, IsTerminal,
         TurnStatus, Active, ToolStatus, TerminalOutcome
<1> QED BY <1>1, <1>2

LEMMA QuestionReports ==
  ASSUME NEW r, Sound(r), NEW i \in Interaction
  PROVE  /\ r.interaction[i] = "none" => Reports(r, InteractionRequested(r, i))
         /\ r.pending = i => Reports(r, InteractionResolved(r, i))
<1>1. r.interaction[i] = "none" => Reports(r, InteractionRequested(r, i))
  BY DEF Reports, Sound, Keeps, InteractionRequested, Records, Tells, Prevails, TurnRecord, IsTerminal,
         TurnStatus, InteractionStatus
<1>2. r.pending = i => Reports(r, InteractionResolved(r, i))
  BY DEF Reports, Sound, Keeps, InteractionResolved, Tells, Prevails, TurnRecord, IsTerminal,
         TurnStatus, Active, InteractionStatus
<1> QED BY <1>1, <1>2

LEMMA IntentReports ==
  ASSUME NEW r, Sound(r)
  PROVE  /\ ~IsTerminal(r) => Reports(r, TimeoutRequested(r))
         /\ Reports(r, OperationLost(r))
         /\ ~IsTerminal(r) => /\ Sound(CancellationRequested(r))
                              /\ Keeps(r, CancellationRequested(r))
                              /\ ~IsTerminal(CancellationRequested(r))
                              /\ CancellationRequested(r).cancellationRequested
<1>1. ~IsTerminal(r) => Reports(r, TimeoutRequested(r))
  BY DEF Reports, Sound, Keeps, TimeoutRequested, Tells, Prevails, TurnRecord, IsTerminal
<1>2. Reports(r, OperationLost(r))
  BY DEF Reports, Sound, Keeps, OperationLost, Tells, Prevails, TurnRecord, IsTerminal,
         TurnStatus
<1>3. ASSUME ~IsTerminal(r)
      PROVE  /\ Sound(CancellationRequested(r))
             /\ Keeps(r, CancellationRequested(r))
             /\ ~IsTerminal(CancellationRequested(r))
             /\ CancellationRequested(r).cancellationRequested
  BY <1>3 DEF Sound, Keeps, CancellationRequested, Tells, Prevails, TurnRecord, IsTerminal,
         TurnStatus
<1> QED BY <1>1, <1>2, <1>3

\* A settled record has ended, and kept what was asked of the turn.
LEMMA Settles ==
  ASSUME NEW r, Sound(r), NEW outcome \in TerminalOutcome
  PROVE  LET q == SettleTerminal(r, outcome) IN
         /\ Sound(q)
         /\ Keeps(r, q)
         /\ IsTerminal(q)
         /\ q.timeoutRequested = r.timeoutRequested
         /\ q.cancellationRequested = r.cancellationRequested
<1> DEFINE end == Arbitrate(r, outcome)
<1>1. end \in TerminalOutcome
  BY DEF Arbitrate, TerminalOutcome
<1>2. SealedAnswer(r, end) \in FinalAnswerStatus
  BY DEF Sound, TurnRecord, SealedAnswer, FinalAnswerStatus
<1>3. CASE IsTerminal(r)
  BY <1>3 DEF SettleTerminal, Keeps
<1>4. CASE ~IsTerminal(r)
  <2> DEFINE
    q == [r EXCEPT
            !.status = "terminal",
            !.outcome = end,
            !.tool = [x \in Tool |-> IF x \in r.openTools THEN ToolEnd(end) ELSE r.tool[x]],
            !.openTools = {},
            !.interaction =
               [i \in Interaction |->
                  IF i = r.pending
                    THEN IF end = "cancelled" THEN "cancelled" ELSE "denied"
                    ELSE r.interaction[i]],
            !.pending = NoInteraction,
            !.streaming = {},
            !.finalAnswer = SealedAnswer(r, end)]
  <2>1. SettleTerminal(r, outcome) = q
    BY <1>4 DEF SettleTerminal
  <2>2. Prevails(q)
    BY <1>4 DEF Prevails, Sound, TurnRecord, Arbitrate, IsCancelling, TerminalOutcome
  <2>3. q \in TurnRecord
    <3> HIDE DEF end
    <3> QED BY <1>1, <1>2 DEF Sound, TurnRecord, ToolEnd, ToolStatus, TerminalOutcome,
               TurnStatus, InteractionStatus
  <2>4. Tells(q) /\ IsTerminal(q)
    BY DEF Sound, TurnRecord, Tells, IsTerminal
  <2>5. /\ q.timeoutRequested = r.timeoutRequested
        /\ q.cancellationRequested = r.cancellationRequested
    BY DEF Sound, TurnRecord
  <2>6. Keeps(r, q)
    BY <1>4 DEF Keeps, Sound, Tells, TurnRecord
  <2> HIDE DEF q
  <2> QED BY <2>1, <2>2, <2>3, <2>4, <2>5, <2>6 DEF Sound, IsTerminal
<1> QED BY <1>3, <1>4

-----------------------------------------------------------------------------
(***************************************************************************)
(* The invariant of one turn: what its record, its promises, its operation *)
(* and the calls that stop it say of one another.                          *)
(***************************************************************************)

\* Nothing has happened to a turn whose call has not been admitted.
Untouched(t) ==
  call[t] # "admitted" =>
    /\ turn[t] = NewTurn
    /\ run[t] = "none"
    /\ bound[t] = "no"
    /\ answering[t] = {}
    /\ operation[t] = "none"
    /\ aborted[t] = FALSE
    /\ stopping[t] = {}

\* An answer on its way to the provider has been recorded.
AnswersAreRecorded(t) ==
  \A i \in answering[t] : turn[t].interaction[i] = "resolved"

\* A process that runs for a turn is waited for, by the turn or for an answer.
ProcessIsWatched(t) ==
  ~OnServer(t) /\ ~IsTerminal(turn[t]) /\ operation[t] = "running" => Working(t)

\* A cancelled turn was aborted, so that a process which ends afterwards says so; one
\* that had ended by itself before is still to be told.
CancelledIsAborted(t) ==
  turn[t].cancellationRequested /\ ~IsTerminal(turn[t]) =>
    /\ aborted[t]
    /\ ~OnServer(t) /\ operation[t] = "ended" => "cancel" \in stopping[t]

\* What CancelledTurnIsAwaited and FreedIsStopped say of one turn.
Awaited(t) ==
  turn[t].cancellationRequested /\ ~IsTerminal(turn[t]) /\ ~OnServer(t) =>
    "cancel" \in stopping[t] \/ run[t] = "running" \/ answering[t] # {}

Freed(t) ==
  /\ IsTerminal(turn[t])
  /\ ~OnServer(t)
  /\ turn[t].timeoutRequested \/ turn[t].outcome = "interrupted"
  /\ ~closed
  /\ bound[t] # "failed"
  /\ \A i \in Interaction : turn[t].interaction[i] # "resolved"
  => operation[t] # "running"

Own(t) ==
  /\ Sound(turn[t])
  /\ Untouched(t)
  /\ AnswersAreRecorded(t)
  /\ ProcessIsWatched(t)
  /\ CancelledIsAborted(t)
  /\ Awaited(t)
  /\ Freed(t)

\* The types of the variables that belong to the turns.
OwnTypes ==
  /\ turn \in [Turns -> TurnRecord]
  /\ call \in [Turns -> CallState]
  /\ run \in [Turns -> {"none", "running", "done"}]
  /\ bound \in [Turns -> {"no", "yes", "failed"}]
  /\ answering \in [Turns -> SUBSET Interaction]
  /\ operation \in [Turns -> {"none", "running", "ended", "killed"}]
  /\ aborted \in [Turns -> BOOLEAN]
  /\ stopping \in [Turns -> SUBSET Stopping]
  /\ closed \in BOOLEAN

\* A step of one turn leaves the others alone.
LeavesAlone(t) ==
  /\ \A u \in Turns \ {t} :
       /\ turn'[u] = turn[u]
       /\ call'[u] = call[u]
       /\ run'[u] = run[u]
       /\ bound'[u] = bound[u]
       /\ answering'[u] = answering[u]
       /\ operation'[u] = operation[u]
       /\ aborted'[u] = aborted[u]
       /\ stopping'[u] = stopping[u]
  /\ closed' = closed

\* A step of one turn that keeps its invariant, and its record if that has ended.
OwnStep(t) == OwnTypes' /\ Own(t)' /\ LeavesAlone(t) /\ Keeps(turn[t], turn'[t])

LEMMA OthersKeep ==
  ASSUME NEW t \in Turns, LeavesAlone(t), NEW u \in Turns \ {t}, Own(u)
  PROVE  Own(u)'
BY DEF LeavesAlone, Own, Untouched, AnswersAreRecorded, ProcessIsWatched, CancelledIsAborted,
       Awaited, Freed, OnServer, Working

\* A turn that ends: what is left to show is that its operation has stopped.
LEMMA EndOwn ==
  ASSUME OwnTypes, NEW t \in Turns, Own(t), call[t] = "admitted", call' = call,
         NEW q, Sound(q), Keeps(turn[t], q), IsTerminal(q), turn' = Set(turn, t, q),
         answering'[t] \subseteq answering[t],
         Freed(t)'
  PROVE  Own(t)'
<1>1. turn'[t] = q
  BY DEF OwnTypes, Set
<1>2. Sound(turn[t])' /\ IsTerminal(turn[t])'
  BY <1>1 DEF Sound, Tells, Prevails, IsTerminal
<1>3. AnswersAreRecorded(t)'
  BY <1>1 DEF AnswersAreRecorded, Keeps, OwnTypes, Own
<1> QED BY <1>2, <1>3 DEF Own, Untouched, ProcessIsWatched, CancelledIsAborted, Awaited

\* Finish, from the record that the caller has.
LEMMA FinishOwn ==
  ASSUME OwnTypes, NEW t \in Turns, Own(t), call[t] = "admitted", call' = call,
         NEW record, Sound(record), Keeps(turn[t], record),
         NEW outcome \in TerminalOutcome, Finish(t, record, outcome)
  PROVE  \E q \in TurnRecord :
           /\ Sound(q) /\ Keeps(turn[t], q) /\ IsTerminal(q)
           /\ q.timeoutRequested = record.timeoutRequested
           /\ turn' = Set(turn, t, q)
<1> DEFINE q == SettleTerminal(record, outcome)
<1>1. /\ Sound(q) /\ Keeps(record, q) /\ IsTerminal(q)
      /\ q.timeoutRequested = record.timeoutRequested
  BY Settles
<1>2. q \in TurnRecord
  BY <1>1 DEF Sound
<1>3. Keeps(turn[t], q)
  <2> HIDE DEF q
  <2> QED BY <1>1 DEF Keeps
<1>4. turn' = Set(turn, t, q)
  BY DEF Finish, Record
<1> HIDE DEF q
<1> QED BY <1>1, <1>2, <1>3, <1>4
-----------------------------------------------------------------------------
(***************************************************************************)
(* One step of a turn keeps its own invariant.                             *)
(***************************************************************************)

LEMMA AdmissionOwn ==
  ASSUME OwnTypes, NEW t \in Turns, Own(t), Admission(t)
  PROVE  OwnStep(t)
<1>1. ASSUME Start(t) \/ Admit(t) \/ Refuse(t) PROVE OwnStep(t)
  <2>1. PICK where \in CallState \ {"admitted"} : call' = Set(call, t, where)
    BY <1>1 DEF Start, Admit, Refuse, CallState
  <2>2. call[t] # "admitted"
    BY <1>1 DEF Start, Admit, Refuse
  <2>3. UNCHANGED <<turn, run, bound, answering, operation, aborted, stopping, closed>>
    BY <1>1 DEF Start, Admit, Refuse
  <2>4. OwnTypes' /\ LeavesAlone(t)
    BY <2>1, <2>3 DEF OwnTypes, LeavesAlone, Set
  <2>5. Own(t)'
    BY <2>2, <2>3 DEF Own, Untouched, AnswersAreRecorded, ProcessIsWatched, CancelledIsAborted,
                      Awaited, Freed, OnServer, Working
  <2> QED BY <2>3, <2>4, <2>5, SameKeeps DEF OwnStep
<1>2. ASSUME Register(t) PROVE OwnStep(t)
  <2>1. turn[t] = NewTurn /\ call[t] = "reading"
    BY <1>2 DEF Register, Own, Untouched
  <2>2. ~IsTerminal(turn[t]) /\ ~turn[t].cancellationRequested
    BY <2>1, NewTurnSound DEF NewTurn
  <2>3. /\ call'[t] = "admitted" /\ run'[t] = "running"
        /\ answering'[t] = {} /\ turn' = turn
    BY <1>2, <2>1 DEF Register, OwnTypes, Set, Own, Untouched
  <2>4. OwnTypes' /\ LeavesAlone(t)
    BY <1>2 DEF Register, OwnTypes, LeavesAlone, Set, CallState
  <2>5. Own(t)'
    BY <2>2, <2>3 DEF Own, Untouched, AnswersAreRecorded, ProcessIsWatched, CancelledIsAborted,
                      Awaited, Freed, OnServer, Working
  <2> QED BY <2>3, <2>4, <2>5, SameKeeps DEF OwnStep
<1> QED BY <1>1, <1>2 DEF Admission

\* A turn that is worked for, waited for or live has been admitted.
LEMMA AdmittedOwn ==
  ASSUME NEW t \in Turns, Own(t),
         Live(t) \/ Working(t) \/ stopping[t] # {} \/ operation[t] # "none"
  PROVE  call[t] = "admitted"
BY DEF Own, Untouched, Live, Working

\* The turn is not touched, or reports: the one thing left is its operation.
LEMMA ReportOwn ==
  ASSUME OwnTypes, NEW t \in Turns, Own(t), call[t] = "admitted",
         NEW q, Reports(turn[t], q), turn' = Set(turn, t, q),
         UNCHANGED <<call, closed, aborted, run, bound, answering, operation>>,
         "cancel" \in stopping[t] => "cancel" \in stopping'[t]
  PROVE  Own(t)' /\ Keeps(turn[t], turn'[t]) /\ turn' \in [Turns -> TurnRecord]
<1>1. turn'[t] = q
  BY DEF OwnTypes, Set
<1>2. turn' \in [Turns -> TurnRecord]
  BY DEF OwnTypes, Set, Reports, Sound
<1>3. Sound(turn[t])'
  BY <1>1 DEF Reports, Sound, Tells, Prevails
<1>4. AnswersAreRecorded(t)'
  BY <1>1 DEF AnswersAreRecorded, Keeps, OwnTypes, Own, Reports
<1>5. ProcessIsWatched(t)'
  BY <1>1 DEF ProcessIsWatched, Reports, Keeps, IsTerminal, Own, OnServer, Working
<1>6. CancelledIsAborted(t)' /\ Awaited(t)'
  BY <1>1 DEF CancelledIsAborted, Awaited, Reports, Keeps, IsTerminal, Own, OnServer
<1>7. Freed(t)'
  BY <1>1 DEF Freed, Reports, Keeps, IsTerminal, Own, OnServer
<1>8. Keeps(turn[t], turn'[t])
  BY <1>1 DEF Reports
<1> QED BY <1>2, <1>3, <1>4, <1>5, <1>6, <1>7, <1>8 DEF Own, Untouched

LEMMA ProviderOwn ==
  ASSUME OwnTypes, NEW t \in Turns, Own(t),
         SessionIsBound(t) \/ OperationStarts(t) \/ OperationEnds(t)
  PROVE  OwnStep(t)
<1>1. ASSUME SessionIsBound(t) PROVE OwnStep(t)
  <2>1. OwnTypes' /\ LeavesAlone(t)
    BY <1>1 DEF SessionIsBound, OwnTypes, LeavesAlone, Set
  <2>2. call[t] = "admitted"
    BY <1>1, AdmittedOwn DEF SessionIsBound
  <2>3. Own(t)'
    BY <1>1, <2>2 DEF SessionIsBound, OwnTypes, Set, Own, Untouched, AnswersAreRecorded,
                      ProcessIsWatched, CancelledIsAborted, Awaited, Freed, OnServer, Working
  <2> QED BY <1>1, <2>1, <2>3, SameKeeps DEF OwnStep, SessionIsBound
<1>2. ASSUME OperationStarts(t) PROVE OwnStep(t)
  <2>1. OwnTypes' /\ LeavesAlone(t)
    BY <1>2 DEF OperationStarts, OwnTypes, LeavesAlone, Set
  <2>2. call[t] = "admitted" /\ (~OnServer(t) => answering[t] # {})
    BY <1>2, AdmittedOwn DEF OperationStarts, Working
  <2>3. ~OnServer(t) => \E i \in Interaction : turn[t].interaction[i] = "resolved"
    BY <2>2 DEF Own, AnswersAreRecorded, OwnTypes
  <2>4. operation'[t] = "running" /\ UNCHANGED <<turn, call, run, bound, answering, aborted,
                                                  stopping, closed>>
    BY <1>2 DEF OperationStarts, OwnTypes, Set
  <2>5. Own(t)'
    BY <2>2, <2>3, <2>4 DEF Own, Untouched, AnswersAreRecorded, ProcessIsWatched,
                            CancelledIsAborted, Awaited, Freed, OnServer, Working
  <2> QED BY <2>1, <2>4, <2>5, SameKeeps DEF OwnStep
<1>3. ASSUME OperationEnds(t) PROVE OwnStep(t)
  <2>1. PICK end \in {"ended", "killed"} : /\ OnServer(t) \/ (aborted[t] <=> end = "killed")
                                           /\ operation' = Set(operation, t, end)
    BY <1>3 DEF OperationEnds
  <2>2. UNCHANGED <<turn, call, run, bound, answering, aborted, stopping, closed>>
    BY <1>3 DEF OperationEnds
  <2>3. OwnTypes' /\ LeavesAlone(t)
    BY <2>1, <2>2 DEF OwnTypes, LeavesAlone, Set
  <2>4. call[t] = "admitted" /\ operation'[t] = end
    BY <1>3, <2>1, AdmittedOwn DEF OperationEnds, OwnTypes, Set
  <2>5. Own(t)'
    BY <2>1, <2>2, <2>4 DEF Own, Untouched, AnswersAreRecorded, ProcessIsWatched,
                            CancelledIsAborted, Awaited, Freed, OnServer, Working
  <2> QED BY <2>2, <2>3, <2>5, SameKeeps DEF OwnStep
<1> QED BY <1>1, <1>2, <1>3

LEMMA ReportedOwn ==
  ASSUME OwnTypes, NEW t \in Turns, Own(t), Report(t)
  PROVE  OwnStep(t)
<1>1. PICK q : Reports(turn[t], q) /\ Reported(t, q)
  BY TextReports, ToolReports
     DEF Own, Report, EmitCommentaryDelta, EmitReasoningDelta, EmitFinalAnswerDelta,
         EmitFinalAnswer, EmitToolStarted, EmitToolCompleted
<1>2. /\ turn' = Set(turn, t, q)
      /\ UNCHANGED <<call, run, bound, answering, operation, aborted, stopping, closed>>
  BY <1>1 DEF Reported, Record
<1>3. call[t] = "admitted"
  BY <1>1, AdmittedOwn DEF Reported
<1>4. Own(t)' /\ Keeps(turn[t], turn'[t]) /\ turn' \in [Turns -> TurnRecord]
  BY <1>1, <1>2, <1>3, ReportOwn
<1> QED BY <1>2, <1>4 DEF OwnStep, OwnTypes, LeavesAlone, Set

LEMMA QuestionOwn ==
  ASSUME OwnTypes, NEW t \in Turns, Own(t), Question(t)
  PROVE  OwnStep(t)
<1>1. PICK i \in Interaction : RequestInteraction(t, i) \/ ResolveInteraction(t, i)
  BY DEF Question
<1>2. ASSUME RequestInteraction(t, i) PROVE OwnStep(t)
  <2> DEFINE q == InteractionRequested(turn[t], i)
  <2>1. Reports(turn[t], q)
    BY <1>2, QuestionReports DEF RequestInteraction, Own
  <2>2. /\ turn' = Set(turn, t, q)
        /\ UNCHANGED <<call, run, bound, answering, operation, aborted, stopping, closed>>
    BY <1>2 DEF RequestInteraction, Reported, Record
  <2>3. call[t] = "admitted"
    BY <1>2, AdmittedOwn DEF RequestInteraction, Working
  <2> HIDE DEF q
  <2>4. Own(t)' /\ Keeps(turn[t], turn'[t]) /\ turn' \in [Turns -> TurnRecord]
    BY <2>1, <2>2, <2>3, ReportOwn
  <2> QED BY <2>2, <2>4 DEF OwnStep, OwnTypes, LeavesAlone, Set
<1>3. ASSUME ResolveInteraction(t, i) PROVE OwnStep(t)
  <2> DEFINE q == InteractionResolved(turn[t], i)
  <2>1. Reports(turn[t], q)
    BY <1>3, QuestionReports DEF ResolveInteraction, Own
  <2>2. q.interaction[i] = "resolved" /\ ~q.cancellationRequested
    BY <1>3 DEF ResolveInteraction, InteractionResolved, Own, Sound, TurnRecord, Records,
                IsCancelling
  <2>3. /\ turn' = Set(turn, t, q)
        /\ answering' = [answering EXCEPT ![t] = @ \cup {i}]
        /\ UNCHANGED <<call, run, bound, operation, aborted, stopping, closed>>
    BY <1>3 DEF ResolveInteraction, Record
  <2>4. call[t] = "admitted" /\ ~IsTerminal(turn[t])
    BY <1>3 DEF ResolveInteraction, Live
  <2> HIDE DEF q
  <2>5. turn'[t] = q /\ answering'[t] = answering[t] \cup {i}
    BY <2>3 DEF OwnTypes, Set
  <2>6. OwnTypes' /\ LeavesAlone(t)
    BY <2>1, <2>3 DEF OwnTypes, LeavesAlone, Set, Reports, Sound
  <2>7. Sound(turn[t])' /\ ~IsTerminal(turn[t])'
    BY <2>1, <2>4, <2>5 DEF Reports, Sound, Tells, Prevails, IsTerminal
  <2>8. AnswersAreRecorded(t)'
    BY <2>1, <2>2, <2>5 DEF AnswersAreRecorded, Keeps, Reports, OwnTypes, Own
  <2>9. Own(t)'
    BY <2>2, <2>3, <2>4, <2>5, <2>7, <2>8
       DEF Own, Untouched, ProcessIsWatched, CancelledIsAborted, Awaited, Freed, OnServer, Working
  <2> QED BY <2>1, <2>5, <2>6, <2>9 DEF OwnStep, Reports
<1> QED BY <1>1, <1>2, <1>3

-----------------------------------------------------------------------------
(***************************************************************************)
(* The steps that end a turn, or call for its end.                         *)
(***************************************************************************)

\* What a step of one turn does beside its record, for the types and for the others.
Beside(t) ==
  /\ run' \in [Turns -> {"none", "running", "done"}]
  /\ bound' \in [Turns -> {"no", "yes", "failed"}]
  /\ answering' \in [Turns -> SUBSET Interaction]
  /\ operation' \in [Turns -> {"none", "running", "ended", "killed"}]
  /\ aborted' \in [Turns -> BOOLEAN]
  /\ stopping' \in [Turns -> SUBSET Stopping]
  /\ UNCHANGED <<call, closed>>
  /\ \A u \in Turns \ {t} :
       /\ run'[u] = run[u]
       /\ bound'[u] = bound[u]
       /\ answering'[u] = answering[u]
       /\ operation'[u] = operation[u]
       /\ aborted'[u] = aborted[u]
       /\ stopping'[u] = stopping[u]

\* A step that finishes a turn: what is left to show is that its operation has
\* stopped, or that FreedIsStopped has nothing to say of it.
LEMMA FinishStep ==
  ASSUME OwnTypes, NEW t \in Turns, Own(t), call[t] = "admitted", Beside(t),
         NEW record, Sound(record), Keeps(turn[t], record),
         NEW outcome \in TerminalOutcome, Finish(t, record, outcome),
         answering'[t] \subseteq answering[t],
         \/ OnServer(t)
         \/ operation'[t] # "running"
         \/ bound'[t] = "failed"
         \/ \E i \in Interaction : turn[t].interaction[i] = "resolved"
  PROVE  OwnStep(t)
<1>1. PICK q \in TurnRecord : /\ Sound(q) /\ Keeps(turn[t], q) /\ IsTerminal(q)
                              /\ turn' = Set(turn, t, q)
  BY FinishOwn DEF Beside
<1>2. turn'[t] = q
  BY <1>1 DEF OwnTypes, Set
<1>3. OwnTypes' /\ LeavesAlone(t)
  BY <1>1 DEF OwnTypes, LeavesAlone, Set, Beside
<1>4. Freed(t)'
  BY <1>1, <1>2 DEF Freed, Own, OnServer, Keeps
<1>5. Own(t)'
  BY <1>1, <1>2, <1>4, EndOwn DEF Beside
<1> QED BY <1>1, <1>2, <1>3, <1>5 DEF OwnStep

LEMMA RunOwn ==
  ASSUME OwnTypes, NEW t \in Turns, Own(t),
         SessionIsNotBound(t) \/ RunCompletes(t) \/ RunFails(t)
  PROVE  OwnStep(t)
<1>1. call[t] = "admitted" /\ Sound(turn[t]) /\ Keeps(turn[t], turn[t])
  BY AdmittedOwn, SameKeeps
     DEF SessionIsNotBound, RunCompletes, RunFails, RunOver, Working, Own
<1>2. Beside(t) /\ answering' = answering
  BY DEF SessionIsNotBound, RunCompletes, RunFails, RunOver, Beside, OwnTypes, Set
<1>3. operation'[t] # "running" \/ bound'[t] = "failed"
  BY DEF SessionIsNotBound, RunCompletes, RunFails, OwnTypes, Set
<1>4. PICK outcome \in TerminalOutcome : Finish(t, turn[t], outcome)
  BY DEF SessionIsNotBound, RunCompletes, RunFails, TerminalOutcome
<1> QED BY <1>1, <1>2, <1>3, <1>4, FinishStep

LEMMA RunLosesOperationOwn ==
  ASSUME OwnTypes, NEW t \in Turns, Own(t), RunLosesOperation(t)
  PROVE  OwnStep(t)
<1> DEFINE q == OperationLost(turn[t])
<1>1. Reports(turn[t], q) /\ OnServer(t) /\ call[t] = "admitted"
  BY IntentReports, AdmittedOwn DEF Own, RunLosesOperation, RunOver, Working
<1>a. CASE bound[t] = "no"
  <2>1. Finish(t, q, "failed")
    BY <1>a DEF RunLosesOperation
  <2>2. Beside(t) /\ answering' = answering
    BY <1>a DEF RunLosesOperation, RunOver, Beside, OwnTypes, Set
  <2>3. Sound(q) /\ Keeps(turn[t], q) /\ "failed" \in TerminalOutcome
    BY <1>1 DEF Reports, TerminalOutcome
  <2> HIDE DEF q
  <2> QED BY <1>1, <2>1, <2>2, <2>3, FinishStep
<1>b. CASE bound[t] # "no"
  <2>2. /\ turn' = Set(turn, t, q)
        /\ run' = Set(run, t, "done")
        /\ UNCHANGED <<call, bound, answering, operation, aborted, stopping, closed>>
    BY <1>b DEF RunLosesOperation, RunOver, Record
  <2> HIDE DEF q
  <2>3. turn'[t] = q
    BY <2>2 DEF OwnTypes, Set
  <2>4. OwnTypes' /\ LeavesAlone(t)
    BY <1>1, <2>2 DEF OwnTypes, LeavesAlone, Set, Reports, Sound
  <2>5. Own(t)'
    BY <1>1, <2>2, <2>3
       DEF Own, Untouched, AnswersAreRecorded, ProcessIsWatched, CancelledIsAborted, Awaited,
           Freed, OnServer, Working, Reports, Keeps, OwnTypes, IsTerminal, Sound, Tells, Prevails
  <2> QED BY <1>1, <2>3, <2>4, <2>5 DEF OwnStep, Reports
<1> QED BY <1>a, <1>b

\* The process that ended with a question is gone, and the turn is live or it is not:
\* one that is being cancelled still has the call that cancels it.
LEMMA DeferOwn ==
  ASSUME OwnTypes, NEW t \in Turns, Own(t), call[t] = "admitted", Beside(t),
         NEW i \in Interaction, Defer(t, i), operation[t] = "ended",
         UNCHANGED <<bound, aborted, stopping>>,
         answering'[t] \subseteq answering[t]
  PROVE  OwnStep(t)
<1> DEFINE q == InteractionRequested(turn[t], i)
<1>1. Reports(turn[t], q)
  BY QuestionReports DEF Defer, Own
<1>2. turn' = Set(turn, t, q) /\ operation' = Set(operation, t, "none")
  BY DEF Defer, Record
<1> HIDE DEF q
<1>3. turn'[t] = q /\ operation'[t] = "none"
  BY <1>2 DEF OwnTypes, Set
<1>4. OwnTypes' /\ LeavesAlone(t)
  BY <1>1, <1>2 DEF OwnTypes, LeavesAlone, Set, Reports, Sound, Beside
<1>5. Sound(turn[t])'
  BY <1>1, <1>3 DEF Reports, Sound, Tells, Prevails
<1>6. AnswersAreRecorded(t)'
  BY <1>1, <1>3 DEF Own, AnswersAreRecorded, Reports, Keeps, OwnTypes
<1>7. CancelledIsAborted(t)' /\ Awaited(t)'
  BY <1>1, <1>3 DEF Own, CancelledIsAborted, Awaited, Reports, Keeps, IsTerminal, OnServer
<1>8. Untouched(t)' /\ ProcessIsWatched(t)' /\ Freed(t)'
  BY <1>3 DEF Untouched, ProcessIsWatched, Freed, Beside
<1> QED BY <1>1, <1>3, <1>4, <1>5, <1>6, <1>7, <1>8 DEF OwnStep, Own, Reports

LEMMA DefersOwn ==
  ASSUME OwnTypes, NEW t \in Turns, Own(t), NEW i \in Interaction, RunDefers(t, i)
  PROVE  OwnStep(t)
<1>1. call[t] = "admitted"
  BY AdmittedOwn DEF RunDefers, RunOver, Working
<1>2. Beside(t)
  BY DEF RunDefers, RunOver, Defer, Beside, OwnTypes, Set
<1> QED BY <1>1, <1>2, DeferOwn DEF RunDefers

LEMMA ContinuationOwn ==
  ASSUME OwnTypes, NEW t \in Turns, Own(t), ContinuationSettles(t)
  PROVE  OwnStep(t)
<1>1. PICK i \in Interaction :
        \/ ContinuationContinues(t, i) \/ ContinuationCompletes(t, i) \/ ContinuationFails(t, i)
        \/ \E next \in Interaction : ContinuationDefers(t, i, next)
  BY DEF ContinuationSettles
<1>2. /\ i \in answering[t]
      /\ answering' = [answering EXCEPT ![t] = @ \ {i}]
      /\ UNCHANGED <<call, run, bound, aborted, stopping, closed>>
  BY <1>1 DEF ContinuationContinues, ContinuationCompletes, ContinuationFails,
              ContinuationDefers, Answered
<1>3. call[t] = "admitted" /\ turn[t].interaction[i] = "resolved"
  BY <1>2, AdmittedOwn DEF Working, Own, AnswersAreRecorded
<1>4. answering'[t] \subseteq answering[t]
  BY <1>2 DEF OwnTypes
<1>5. ASSUME ContinuationContinues(t, i) PROVE OwnStep(t)
  <2>1. run[t] = "running" /\ UNCHANGED <<turn, operation>>
    BY <1>5 DEF ContinuationContinues
  <2>2. OwnTypes' /\ LeavesAlone(t)
    BY <1>2, <2>1 DEF OwnTypes, LeavesAlone
  <2>3. Own(t)'
    BY <1>2, <1>3, <1>4, <2>1
       DEF Own, Untouched, AnswersAreRecorded, ProcessIsWatched, CancelledIsAborted, Awaited,
           Freed, OnServer, Working
  <2> QED BY <2>1, <2>2, <2>3, SameKeeps DEF OwnStep
<1>6. ASSUME ContinuationCompletes(t, i) \/ ContinuationFails(t, i) PROVE OwnStep(t)
  <2>1. PICK outcome \in TerminalOutcome : Finish(t, turn[t], outcome)
    BY <1>6 DEF ContinuationCompletes, ContinuationFails, TerminalOutcome
  <2>2. Beside(t)
    BY <1>2, <1>6 DEF ContinuationCompletes, ContinuationFails, Beside, OwnTypes
  <2> QED BY <1>3, <1>4, <2>1, <2>2, SameKeeps, FinishStep DEF Own
<1>7. ASSUME NEW next \in Interaction, ContinuationDefers(t, i, next) PROVE OwnStep(t)
  <2>1. operation[t] = "ended" /\ Defer(t, next)
    BY <1>7 DEF ContinuationDefers
  <2>2. Beside(t)
    BY <1>2, <2>1 DEF Defer, Beside, OwnTypes, Set
  <2> QED BY <1>2, <1>3, <1>4, <2>1, <2>2, DeferOwn
<1> QED BY <1>1, <1>5, <1>6, <1>7

LEMMA StopOwn ==
  ASSUME OwnTypes, NEW t \in Turns, Own(t), Stop(t)
  PROVE  OwnStep(t)
<1>1. /\ call[t] = "admitted" /\ ~IsTerminal(turn[t]) /\ Sound(turn[t])
      /\ UNCHANGED <<call, closed>>
  BY DEF Stop, CancelTurn, CancelTurnAtOnce, Timeout, TimeoutAtOnce, Recover, Live, Own
<1>2. ASSUME CancelTurn(t) PROVE OwnStep(t)
  <2> DEFINE q == CancellationRequested(turn[t])
  <2>1. Sound(q) /\ Keeps(turn[t], q) /\ ~IsTerminal(q)
    BY <1>1, IntentReports
  <2>2. /\ turn' = Set(turn, t, q)
        /\ aborted' = Set(aborted, t, TRUE)
        /\ stopping' = [stopping EXCEPT ![t] = @ \cup {"cancel"}]
        /\ UNCHANGED <<call, run, bound, answering, operation, closed>>
    BY <1>2 DEF CancelTurn, Record, Abort, Awaits
  <2> HIDE DEF q
  <2>3. turn'[t] = q /\ aborted'[t] /\ "cancel" \in stopping'[t]
    BY <2>2 DEF OwnTypes, Set
  <2>4. OwnTypes' /\ LeavesAlone(t)
    BY <2>1, <2>2 DEF OwnTypes, LeavesAlone, Set, Sound, Stopping
  <2>5. Sound(turn[t])' /\ ~IsTerminal(turn[t])'
    BY <2>1, <2>3 DEF Sound, Tells, Prevails, IsTerminal
  <2>6. AnswersAreRecorded(t)'
    BY <2>1, <2>2, <2>3 DEF Own, AnswersAreRecorded, Keeps, OwnTypes
  <2>7. Own(t)'
    BY <1>1, <2>2, <2>3, <2>5, <2>6
       DEF Own, Untouched, ProcessIsWatched, CancelledIsAborted, Awaited, Freed, OnServer, Working
  <2> QED BY <2>1, <2>3, <2>4, <2>7 DEF OwnStep
<1>3. ASSUME CancelTurnAtOnce(t) PROVE OwnStep(t)
  <2> DEFINE q == CancellationRequested(turn[t])
  <2>1. Sound(q) /\ Keeps(turn[t], q)
    BY <1>1, IntentReports
  <2>2. Finish(t, q, "cancelled") /\ operation'[t] # "running" /\ answering' = answering
    BY <1>3 DEF CancelTurnAtOnce
  <2>3. Beside(t)
    BY <1>3 DEF CancelTurnAtOnce, Beside, OwnTypes, Set
  <2> HIDE DEF q
  <2> QED BY <1>1, <2>1, <2>2, <2>3, FinishStep DEF TerminalOutcome
<1>4. ASSUME Timeout(t) PROVE OwnStep(t)
  <2> DEFINE q == TimeoutRequested(turn[t])
  <2>1. Reports(turn[t], q)
    BY <1>1, IntentReports
  <2>2. /\ turn' = Set(turn, t, q)
        /\ stopping' = [stopping EXCEPT ![t] = @ \cup {"timeout"}]
        /\ UNCHANGED <<call, run, bound, answering, operation, aborted, closed>>
    BY <1>4 DEF Timeout, Record, Awaits
  <2> HIDE DEF q
  <2>3. stopping' \in [Turns -> SUBSET Stopping] /\ stopping[t] \subseteq stopping'[t]
    BY <2>2 DEF OwnTypes, Stopping
  <2>4. Own(t)' /\ Keeps(turn[t], turn'[t]) /\ turn' \in [Turns -> TurnRecord]
    BY <1>1, <2>1, <2>2, <2>3, ReportOwn
  <2> QED BY <2>2, <2>3, <2>4 DEF OwnStep, OwnTypes, LeavesAlone, Set
<1>5. ASSUME TimeoutAtOnce(t) PROVE OwnStep(t)
  <2> DEFINE q == TimeoutRequested(turn[t])
  <2>1. Sound(q) /\ Keeps(turn[t], q)
    BY <1>1, IntentReports DEF Reports
  <2>2. Finish(t, q, "failed") /\ operation'[t] # "running" /\ answering' = answering
    BY <1>5 DEF TimeoutAtOnce
  <2>3. Beside(t)
    BY <1>5 DEF TimeoutAtOnce, Beside, OwnTypes, Set, Abort
  <2> HIDE DEF q
  <2> QED BY <1>1, <2>1, <2>2, <2>3, FinishStep DEF TerminalOutcome
<1>6. ASSUME Recover(t) PROVE OwnStep(t)
  <2>1. /\ stopping' = [stopping EXCEPT ![t] = @ \cup {"recover"}]
        /\ UNCHANGED <<turn, call, run, bound, answering, operation, aborted, closed>>
    BY <1>6 DEF Recover, Awaits
  <2>2. OwnTypes' /\ LeavesAlone(t)
    BY <2>1 DEF OwnTypes, LeavesAlone, Stopping
  <2>3. Own(t)'
    BY <1>1, <2>1
       DEF Own, Untouched, AnswersAreRecorded, ProcessIsWatched, CancelledIsAborted, Awaited,
           Freed, OnServer, Working, OwnTypes
  <2> QED BY <2>1, <2>2, <2>3, SameKeeps DEF OwnStep
<1> QED BY <1>2, <1>3, <1>4, <1>5, <1>6 DEF Stop

LEMMA CleanupOwn ==
  ASSUME OwnTypes, NEW t \in Turns, Own(t), CleanupAnswers(t)
  PROVE  OwnStep(t)
<1>1. call[t] = "admitted" /\ Sound(turn[t]) /\ Keeps(turn[t], turn[t])
  BY AdmittedOwn, SameKeeps
     DEF CleanupAnswers, CancelAcknowledged, CancelThrows, TimeoutVerified, TimeoutUnverified,
         RecoverVerified, RecoverUnverified, RecoverReturns, Resumes, Own
<1>2. ASSUME CancelAcknowledged(t) \/ TimeoutVerified(t) \/ RecoverVerified(t) PROVE OwnStep(t)
  <2>1. PICK outcome \in TerminalOutcome : Finish(t, turn[t], outcome)
    BY <1>2 DEF CancelAcknowledged, TimeoutVerified, RecoverVerified, TerminalOutcome
  <2>2. /\ answering' = answering
        /\ OnServer(t) \/ operation'[t] # "running"
    BY <1>2 DEF CancelAcknowledged, TimeoutVerified, RecoverVerified, Stopped, OwnTypes
  <2>3. /\ \/ operation' = operation
           \/ operation' = [operation EXCEPT ![t] = IF @ = "running" THEN "killed" ELSE @]
        /\ \/ aborted' = aborted
           \/ aborted' = [aborted EXCEPT ![t] = TRUE]
        /\ UNCHANGED <<call, closed, run, bound, answering>>
    BY <1>2 DEF CancelAcknowledged, TimeoutVerified, RecoverVerified, Stopped, Abort, Set
  <2>4. \E left \in SUBSET Stopping : stopping' = [stopping EXCEPT ![t] = left]
    <3>1. stopping[t] \in SUBSET Stopping
      BY DEF OwnTypes
    <3>2. \/ stopping' = [stopping EXCEPT ![t] = stopping[t] \ {"cancel"}]
          \/ stopping' = [stopping EXCEPT ![t] = stopping[t] \ {"timeout"}]
          \/ stopping' = [stopping EXCEPT ![t] = (stopping[t] \ {"recover"}) \cup {"recovered"}]
      BY <1>2 DEF CancelAcknowledged, TimeoutVerified, RecoverVerified, Resumes, OwnTypes
    <3> QED BY <3>1, <3>2 DEF Stopping
  <2>5. Beside(t)
    <3>1. /\ operation' \in [Turns -> {"none", "running", "ended", "killed"}]
          /\ \A u \in Turns \ {t} : operation'[u] = operation[u]
      BY <2>3 DEF OwnTypes
    <3>2. /\ aborted' \in [Turns -> BOOLEAN]
          /\ \A u \in Turns \ {t} : aborted'[u] = aborted[u]
      BY <2>3 DEF OwnTypes
    <3>3. /\ stopping' \in [Turns -> SUBSET Stopping]
          /\ \A u \in Turns \ {t} : stopping'[u] = stopping[u]
      BY <2>4 DEF OwnTypes
    <3> QED BY <2>3, <3>1, <3>2, <3>3 DEF Beside, OwnTypes
  <2> QED BY <1>1, <2>1, <2>2, <2>5, FinishStep
<1>3. ASSUME TimeoutUnverified(t) PROVE OwnStep(t)
  <2> DEFINE q == OperationLost(turn[t])
  <2>1. Reports(turn[t], q)
    BY <1>1, IntentReports
  <2>2. /\ turn' = Set(turn, t, q)
        /\ stopping' = [stopping EXCEPT ![t] = @ \ {"timeout"}]
        /\ aborted' = Set(aborted, t, TRUE)
        /\ operation[t] = "running"
        /\ UNCHANGED <<call, run, bound, answering, operation, closed>>
    BY <1>3 DEF TimeoutUnverified, Record, Resumes, Abort
  <2> HIDE DEF q
  <2>3. /\ turn'[t] = q /\ aborted'[t] = TRUE
        /\ "cancel" \in stopping[t] => "cancel" \in stopping'[t]
    BY <2>2 DEF OwnTypes, Set
  <2>4. OwnTypes' /\ LeavesAlone(t)
    BY <2>1, <2>2 DEF OwnTypes, LeavesAlone, Set, Reports, Sound
  <2>5. Sound(turn[t])'
    BY <2>1, <2>3 DEF Reports, Sound, Tells, Prevails
  <2>6. AnswersAreRecorded(t)'
    BY <2>1, <2>2, <2>3 DEF Own, AnswersAreRecorded, Reports, Keeps, OwnTypes
  <2>7. ProcessIsWatched(t)' /\ CancelledIsAborted(t)' /\ Awaited(t)' /\ Freed(t)'
    BY <2>1, <2>2, <2>3
       DEF Own, ProcessIsWatched, CancelledIsAborted, Awaited, Freed, Reports, Keeps, OnServer,
           Working, IsTerminal
  <2> QED BY <1>1, <2>1, <2>2, <2>3, <2>4, <2>5, <2>6, <2>7 DEF OwnStep, Own, Untouched, Reports
<1>4. ASSUME CancelThrows(t) PROVE OwnStep(t)
  <2>1. /\ stopping' = [stopping EXCEPT ![t] = @ \ {"cancel"}]
        /\ operation[t] = "running"
        /\ UNCHANGED <<turn, call, run, bound, answering, operation, aborted, closed>>
    BY <1>4 DEF CancelThrows, Resumes
  <2>2. OwnTypes' /\ LeavesAlone(t)
    BY <2>1 DEF OwnTypes, LeavesAlone
  <2>3. Own(t)'
    BY <1>1, <2>1
       DEF Own, Untouched, AnswersAreRecorded, ProcessIsWatched, CancelledIsAborted, Awaited,
           Freed, OnServer, Working
  <2> QED BY <2>1, <2>2, <2>3, SameKeeps DEF OwnStep
<1>5. ASSUME RecoverUnverified(t) \/ RecoverReturns(t) PROVE OwnStep(t)
  <2>1. PICK what \in {"recover", "recovered"} :
          stopping' = [stopping EXCEPT ![t] = @ \ {what}]
    BY <1>5 DEF RecoverUnverified, RecoverReturns, Resumes
  <2>2. UNCHANGED <<turn, call, run, bound, answering, operation, aborted, closed>>
    BY <1>5 DEF RecoverUnverified, RecoverReturns
  <2>3. OwnTypes' /\ LeavesAlone(t)
    BY <2>1, <2>2 DEF OwnTypes, LeavesAlone
  <2>4. Own(t)'
    BY <1>1, <2>1, <2>2
       DEF Own, Untouched, AnswersAreRecorded, ProcessIsWatched, CancelledIsAborted, Awaited,
           Freed, OnServer, Working, OwnTypes
  <2> QED BY <2>2, <2>3, <2>4, SameKeeps DEF OwnStep
<1> QED BY <1>2, <1>3, <1>4, <1>5 DEF CleanupAnswers

-----------------------------------------------------------------------------
(***************************************************************************)
(* Every step keeps the invariant of every turn.                           *)
(***************************************************************************)

Turnwise == OwnTypes /\ \A t \in Turns : Own(t)

LEMMA TurnwiseInit == Init => Turnwise
<1> SUFFICES ASSUME Init PROVE Turnwise
  OBVIOUS
<1>1. OwnTypes
  BY NewTurnSound DEF Init, OwnTypes, Sound, CallState
<1>2. ASSUME NEW t \in Turns PROVE Own(t)
  <2>1. /\ turn[t] = NewTurn /\ answering[t] = {} /\ operation[t] = "none"
        /\ Untouched(t)
    BY DEF Init, Untouched
  <2>2. Sound(turn[t]) /\ ~IsTerminal(turn[t]) /\ ~turn[t].cancellationRequested
    BY <2>1, NewTurnSound DEF NewTurn
  <2> QED BY <2>1, <2>2 DEF Own, AnswersAreRecorded, ProcessIsWatched, CancelledIsAborted,
                            Awaited, Freed
<1> QED BY <1>1, <1>2 DEF Turnwise

\* shutdown() ends turns of all sessions at once.
LEMMA TurnwiseShutdown == Turnwise /\ Shutdown => Turnwise'
<1> SUFFICES ASSUME Turnwise, Shutdown PROVE Turnwise'
  OBVIOUS
<1> DEFINE ends == {t \in Turns : Live(t) /\ ~Survives(t)}
<1>1. /\ closed' = TRUE
      /\ UNCHANGED <<call, run, bound, answering, operation, stopping>>
      /\ aborted' = [t \in Turns |-> aborted[t] \/ t \in ends]
      /\ turn' = [t \in Turns |-> IF t \in ends THEN SettleTerminal(turn[t], "interrupted")
                                                ELSE turn[t]]
  BY DEF Shutdown
<1>2. ASSUME NEW t \in ends
      PROVE  /\ Sound(turn'[t]) /\ Keeps(turn[t], turn'[t]) /\ IsTerminal(turn'[t])
  BY <1>1, Settles DEF Turnwise, Own, TerminalOutcome
<1>3. ASSUME NEW t \in Turns, t \notin ends
      PROVE  turn'[t] = turn[t] /\ aborted'[t] = aborted[t]
  BY <1>1, <1>3 DEF Turnwise, OwnTypes
<1>4. \A t \in Turns : turn'[t] \in TurnRecord
  BY <1>2, <1>3 DEF Sound, Turnwise, OwnTypes
<1>5. OwnTypes'
  BY <1>1, <1>4 DEF Turnwise, OwnTypes
<1>6. ASSUME NEW t \in Turns PROVE Own(t)'
  <2>1. CASE t \in ends
    <3>1. call[t] = "admitted" /\ Own(t)
      BY <2>1 DEF Live, Turnwise
    <3>2. Sound(turn[t])' /\ IsTerminal(turn[t])'
      BY <1>2, <2>1 DEF Sound, Tells, Prevails, IsTerminal
    <3>3. AnswersAreRecorded(t)'
      BY <1>1, <1>2, <2>1, <3>1 DEF Own, AnswersAreRecorded, Keeps, Turnwise, OwnTypes
    <3> QED BY <1>1, <3>1, <3>2, <3>3
            DEF Own, Untouched, ProcessIsWatched, CancelledIsAborted, Awaited, Freed
  <2>2. CASE t \notin ends
    BY <1>1, <1>3, <2>2
       DEF Turnwise, Own, Untouched, AnswersAreRecorded, ProcessIsWatched, CancelledIsAborted,
           Awaited, Freed, OnServer, Working
  <2> QED BY <2>1, <2>2
<1> QED BY <1>5, <1>6 DEF Turnwise

LEMMA TurnwiseNext == Turnwise /\ [Next]_vars => Turnwise'
<1> SUFFICES ASSUME Turnwise, [Next]_vars PROVE Turnwise'
  OBVIOUS
<1>1. ASSUME NEW t \in Turns, TurnStep(t) PROVE Turnwise'
  <2>1. OwnStep(t)
    BY <1>1, AdmissionOwn, ProviderOwn, ReportedOwn, QuestionOwn, RunOwn, DefersOwn,
       RunLosesOperationOwn, ContinuationOwn, StopOwn, CleanupOwn
       DEF Turnwise, TurnStep, RunSettles
  <2> QED BY <2>1, OthersKeep DEF Turnwise, OwnStep
<1>2. CASE Shutdown
  BY <1>2, TurnwiseShutdown
<1>3. CASE UNCHANGED vars
  BY <1>3 DEF vars, Turnwise, OwnTypes, Own, Untouched, AnswersAreRecorded, ProcessIsWatched,
              CancelledIsAborted, Awaited, Freed, OnServer, Working, Sound, Tells, Prevails,
              IsTerminal
<1> QED BY <1>1, <1>2, <1>3 DEF Next

\* What has been settled of a turn is never settled again: its record once it has
\* ended, and a question once it was answered.
SettledStands ==
  \A t \in Turns :
    /\ IsTerminal(turn[t]) => turn'[t] = turn[t]
    /\ \A i \in Interaction :
         turn[t].interaction[i] = "resolved" => turn'[t].interaction[i] = "resolved"

LEMMA SettledNext == Turnwise /\ [Next]_vars => SettledStands
<1> SUFFICES ASSUME Turnwise, [Next]_vars PROVE SettledStands
  OBVIOUS
<1>1. ASSUME NEW t \in Turns, TurnStep(t) PROVE SettledStands
  <2>1. OwnStep(t)
    BY <1>1, AdmissionOwn, ProviderOwn, ReportedOwn, QuestionOwn, RunOwn, DefersOwn,
       RunLosesOperationOwn, ContinuationOwn, StopOwn, CleanupOwn
       DEF Turnwise, TurnStep, RunSettles
  <2>2. Keeps(turn[t], turn'[t]) /\ \A u \in Turns \ {t} : turn'[u] = turn[u]
    BY <2>1 DEF OwnStep, LeavesAlone
  <2> QED BY <2>2 DEF SettledStands, Keeps
<1>2. CASE Shutdown
  <2> SUFFICES ASSUME NEW t \in Turns PROVE Keeps(turn[t], turn'[t])
    BY DEF SettledStands, Keeps
  <2>1. CASE Live(t) /\ ~Survives(t)
    <3>1. turn'[t] = SettleTerminal(turn[t], "interrupted")
      BY <1>2, <2>1 DEF Shutdown
    <3>2. Sound(turn[t]) /\ "interrupted" \in TerminalOutcome
      BY DEF Turnwise, Own, TerminalOutcome
    <3> QED BY <3>1, <3>2, Settles
  <2>2. CASE ~(Live(t) /\ ~Survives(t))
    BY <1>2, <2>2, SameKeeps DEF Shutdown
  <2> QED BY <2>1, <2>2
<1>3. CASE UNCHANGED vars
  BY <1>3 DEF vars, SettledStands
<1> QED BY <1>1, <1>2, <1>3 DEF Next

LEMMA TurnwiseAlways == Spec => []Turnwise
BY TurnwiseInit, TurnwiseNext, PTL DEF Spec

-----------------------------------------------------------------------------
(***************************************************************************)
(* Sessions: the callers of startTurn, and the turn that is registered.    *)
(***************************************************************************)

\* A caller that waits is in the queue of its session, once. The one that has the
\* lock and reads the transcript is the first, and its session is free: nobody
\* else registers a turn.
Lock ==
  /\ \A s \in Session : \A k \in DOMAIN queue[s] :
       /\ sessionOf[queue[s][k]] = s
       /\ call[queue[s][k]] \in {"queued", "reading"}
  /\ \A s \in Session : \A j, k \in DOMAIN queue[s] : queue[s][j] = queue[s][k] => j = k
  /\ \A t \in Turns : call[t] = "reading" => HasLock(t) /\ active[sessionOf[t]] = NoTurn

SessionTypes ==
  /\ queue \in [Session -> Seq(Turns)]
  /\ active \in [Session -> Turns \cup {NoTurn}]
  /\ raced \subseteq Session

Registered == SessionTypes /\ Lock /\ LiveTurnIsRegistered

\* What a turn may do to the registrations of others: free a session.
Frees ==
  /\ UNCHANGED <<call, queue>>
  /\ active' \in [Session -> Turns \cup {NoTurn}]
  /\ \A s \in Session : active'[s] \in {active[s], NoTurn}

\* A sequence without its head: the same elements, each one place further on.
LEMMA TailFacts ==
  ASSUME NEW q \in Seq(Turns), q # <<>>
  PROVE  /\ Tail(q) \in Seq(Turns)
         /\ DOMAIN Tail(q) = 1 .. (Len(q) - 1)
         /\ DOMAIN q = 1 .. Len(q)
         /\ Len(q) \in Nat \ {0}
         /\ Head(q) = q[1]
         /\ \A k \in DOMAIN Tail(q) : k + 1 \in DOMAIN q /\ Tail(q)[k] = q[k + 1]
<1>1. /\ Len(q) \in Nat \ {0}
      /\ DOMAIN q = 1 .. Len(q)
  BY LenProperties, EmptySeq
<1>2. /\ Tail(q) \in Seq(Turns)
      /\ Len(Tail(q)) = Len(q) - 1
      /\ \A k \in 1 .. Len(Tail(q)) : Tail(q)[k] = q[k + 1]
  BY HeadTailProperties
<1>3. DOMAIN Tail(q) = 1 .. Len(Tail(q))
  BY <1>2, LenProperties
<1>4. Head(q) = q[1]
  OBVIOUS
<1> QED BY <1>1, <1>2, <1>3, <1>4

LEMMA FreesLock == SessionTypes /\ Lock /\ Frees => Lock'
<1> SUFFICES ASSUME SessionTypes, Lock, Frees PROVE Lock'
  OBVIOUS
<1>1. \A t \in Turns : active[sessionOf[t]] = NoTurn => active'[sessionOf[t]] = NoTurn
  BY DEF Frees
<1> QED BY <1>1 DEF Lock, Frees, HasLock

\* The first of the callers leaves.
LEMMA UnlockLock ==
  ASSUME SessionTypes, OwnTypes, Lock, NEW t \in Turns, HasLock(t), Unlock(t),
         NEW where \in CallState \ {"queued", "reading"}, call' = Set(call, t, where),
         \A s \in Session : s # sessionOf[t] => active'[s] = active[s]
  PROVE  Lock' /\ queue' \in [Session -> Seq(Turns)]
<1> DEFINE s == sessionOf[t]
           q == queue[s]
<1>1. q \in Seq(Turns) /\ q # <<>> /\ q[1] = t /\ s \in Session
  <2>1. s \in Session
    OBVIOUS
  <2>2. q \in Seq(Turns) /\ q # <<>> /\ Head(q) = t
    BY <2>1 DEF HasLock, SessionTypes
  <2> QED BY <2>1, <2>2, TailFacts
<1>2. queue' = [queue EXCEPT ![s] = Tail(q)]
  BY DEF Unlock
<1>3. /\ Tail(q) \in Seq(Turns)
      /\ 1 \in DOMAIN q
      /\ \A k \in DOMAIN Tail(q) : /\ k \in Nat \ {0}
                                   /\ k + 1 \in DOMAIN q
                                   /\ Tail(q)[k] = q[k + 1]
  <2> HIDE DEF q
  <2> QED BY <1>1, TailFacts
<1>4. queue'[s] = Tail(q) /\ \A z \in Session \ {s} : queue'[z] = queue[z]
  BY <1>1, <1>2 DEF SessionTypes
<1>5. queue' \in [Session -> Seq(Turns)]
  BY <1>1, <1>2, <1>3 DEF SessionTypes
<1>6. \A k \in DOMAIN Tail(q) : Tail(q)[k] # t
  <2> TAKE k \in DOMAIN Tail(q)
  <2>1. q[k + 1] # q[1]
    BY <1>1, <1>3 DEF Lock
  <2> QED BY <1>1, <1>3, <2>1
<1>7. \A u \in Turns \ {t} : call'[u] = call[u]
  BY DEF OwnTypes, Set
<1>8. ASSUME NEW z \in Session, NEW k \in DOMAIN queue'[z]
      PROVE  sessionOf[queue'[z][k]] = z /\ call'[queue'[z][k]] \in {"queued", "reading"}
  <2>1. CASE z = s
    <3>1. /\ k \in DOMAIN Tail(q) /\ queue'[z][k] = q[k + 1] /\ k + 1 \in DOMAIN q
          /\ queue'[z][k] # t
      BY <1>3, <1>4, <1>6, <2>1
    <3>2. q[k + 1] \in Turns
      BY <1>1, <3>1, TailFacts, ElementOfSeq
    <3>3. sessionOf[q[k + 1]] = s /\ call[q[k + 1]] \in {"queued", "reading"}
      BY <1>1, <3>1 DEF Lock
    <3> QED BY <1>7, <2>1, <3>1, <3>2, <3>3
  <2>2. CASE z # s
    <3>1. queue'[z] = queue[z]
      BY <1>4, <2>2
    <3>2. sessionOf[queue[z][k]] = z /\ call[queue[z][k]] \in {"queued", "reading"}
      BY <3>1 DEF Lock
    <3>3. queue[z][k] \in Turns
      BY <3>1, ElementOfSeq, LenProperties DEF SessionTypes
    <3> QED BY <1>7, <2>2, <3>1, <3>2, <3>3
  <2> QED BY <2>1, <2>2
<1>9. ASSUME NEW z \in Session, NEW j \in DOMAIN queue'[z], NEW k \in DOMAIN queue'[z],
             queue'[z][j] = queue'[z][k]
      PROVE  j = k
  <2>1. CASE z = s
    <3>1. /\ j + 1 \in DOMAIN q /\ k + 1 \in DOMAIN q /\ q[j + 1] = q[k + 1]
          /\ j \in Nat /\ k \in Nat
      BY <1>3, <1>4, <1>9, <2>1
    <3>2. j + 1 = k + 1
      BY <1>1, <3>1 DEF Lock
    <3> QED BY <3>1, <3>2
  <2>2. CASE z # s
    BY <1>4, <1>9, <2>2 DEF Lock
  <2> QED BY <2>1, <2>2
<1>10. ASSUME NEW u \in Turns, call'[u] = "reading"
       PROVE  HasLock(u)' /\ active'[sessionOf[u]] = NoTurn
  <2>1. u # t
    BY <1>10 DEF OwnTypes, Set
  <2>2. call[u] = "reading"
    BY <1>7, <1>10, <2>1
  <2>3. HasLock(u) /\ active[sessionOf[u]] = NoTurn
    BY <2>2 DEF Lock
  <2>4. sessionOf[u] # s
    BY <2>1, <2>3 DEF HasLock
  <2> QED BY <1>4, <2>3, <2>4 DEF HasLock
<1> QED BY <1>5, <1>8, <1>9, <1>10 DEF Lock

\* A caller joins the queue of its session, at its end.
LEMMA StartLock ==
  ASSUME SessionTypes, OwnTypes, Lock, NEW t \in Turns, Start(t)
  PROVE  Lock' /\ SessionTypes'
<1> DEFINE s == sessionOf[t]
           q == queue[s]
<1>1. s \in Session /\ q \in Seq(Turns)
  BY DEF SessionTypes
<1>2. /\ Append(q, t) \in Seq(Turns)
      /\ Len(q) \in Nat
      /\ DOMAIN q = 1 .. Len(q)
      /\ DOMAIN Append(q, t) = 1 .. (Len(q) + 1)
      /\ \A k \in DOMAIN q : Append(q, t)[k] = q[k]
      /\ Append(q, t)[Len(q) + 1] = t
  <2> HIDE DEF q
  <2> QED BY <1>1, LenProperties, AppendProperties
<1>3. /\ queue'[s] = Append(q, t)
      /\ \A z \in Session \ {s} : queue'[z] = queue[z]
      /\ call[t] = "none" /\ call'[t] = "queued"
      /\ \A u \in Turns \ {t} : call'[u] = call[u]
      /\ active' = active
  BY <1>1 DEF Start, SessionTypes, OwnTypes, Set
<1>4. SessionTypes'
  BY <1>1, <1>2 DEF SessionTypes, Start
<1>5. \A z \in Session : \A k \in DOMAIN queue[z] : queue[z][k] \in Turns \ {t}
  <2> TAKE z \in Session
  <2> TAKE k \in DOMAIN queue[z]
  <2>1. queue[z][k] \in Turns
    BY ElementOfSeq, LenProperties DEF SessionTypes
  <2> QED BY <1>3, <2>1 DEF Lock
<1>6. ASSUME NEW z \in Session, NEW k \in DOMAIN queue'[z]
      PROVE  sessionOf[queue'[z][k]] = z /\ call'[queue'[z][k]] \in {"queued", "reading"}
  <2>1. CASE k \in DOMAIN queue[z] /\ queue'[z][k] = queue[z][k]
    BY <1>3, <1>5, <2>1 DEF Lock
  <2>2. CASE z = s /\ k = Len(q) + 1
    BY <1>2, <1>3, <2>2
  <2> QED BY <1>2, <1>3, <2>1, <2>2
<1>7. ASSUME NEW z \in Session, NEW j \in DOMAIN queue'[z], NEW k \in DOMAIN queue'[z],
             queue'[z][j] = queue'[z][k]
      PROVE  j = k
  <2>1. CASE z = s
    <3>1. ASSUME j \in DOMAIN q, k \in DOMAIN q PROVE j = k
      BY <1>1, <1>2, <1>3, <1>7, <2>1, <3>1 DEF Lock
    <3>2. ASSUME j \in DOMAIN q, k = Len(q) + 1 PROVE FALSE
      BY <1>1, <1>2, <1>3, <1>5, <1>7, <2>1, <3>2
    <3>3. ASSUME k \in DOMAIN q, j = Len(q) + 1 PROVE FALSE
      BY <1>1, <1>2, <1>3, <1>5, <1>7, <2>1, <3>3
    <3> QED BY <1>2, <1>3, <2>1, <3>1, <3>2, <3>3
  <2>2. CASE z # s
    BY <1>3, <1>7, <2>2 DEF Lock
  <2> QED BY <2>1, <2>2
<1>8. ASSUME NEW u \in Turns, call'[u] = "reading"
      PROVE  HasLock(u)' /\ active'[sessionOf[u]] = NoTurn
  <2>1. u # t /\ call[u] = "reading"
    BY <1>3, <1>8
  <2>2. HasLock(u) /\ active[sessionOf[u]] = NoTurn
    BY <2>1 DEF Lock
  <2>3. CASE sessionOf[u] = s
    <3>1. q # <<>> /\ Head(q) = u /\ q[1] = u /\ 1 \in DOMAIN q
      BY <1>1, <2>2, <2>3, TailFacts DEF HasLock
    <3>2. 1 \in DOMAIN Append(q, t) /\ Append(q, t)[1] = u
      BY <1>2, <3>1
    <3>3. Append(q, t) # <<>>
      BY <3>2
    <3>4. Head(Append(q, t)) = u
      <4> HIDE DEF q
      <4> QED BY <1>2, <3>2, <3>3, TailFacts
    <3> QED BY <1>3, <2>2, <2>3, <3>3, <3>4 DEF HasLock
  <2>4. CASE sessionOf[u] # s
    BY <1>3, <2>2, <2>4 DEF HasLock
  <2> QED BY <2>3, <2>4
<1> QED BY <1>4, <1>6, <1>7, <1>8 DEF Lock

LEMMA AdmitLock ==
  ASSUME SessionTypes, OwnTypes, Lock, NEW t \in Turns, Admit(t)
  PROVE  Lock' /\ SessionTypes'
<1>1. /\ UNCHANGED <<queue, active, raced>>
      /\ HasLock(t) /\ active[sessionOf[t]] = NoTurn
      /\ call'[t] = "reading"
      /\ \A u \in Turns \ {t} : call'[u] = call[u]
  BY DEF Admit, OwnTypes, Set
<1>2. \A z \in Session : \A k \in DOMAIN queue[z] : queue[z][k] \in Turns
  BY ElementOfSeq, LenProperties DEF SessionTypes
<1>3. \A z \in Session : \A k \in DOMAIN queue[z] : call'[queue[z][k]] \in {"queued", "reading"}
  BY <1>1, <1>2 DEF Lock
<1>4. \A z \in Session : \A k \in DOMAIN queue'[z] :
        sessionOf[queue'[z][k]] = z /\ call'[queue'[z][k]] \in {"queued", "reading"}
  BY <1>1, <1>3 DEF Lock
<1>5. \A z \in Session : \A j, k \in DOMAIN queue'[z] : queue'[z][j] = queue'[z][k] => j = k
  BY <1>1 DEF Lock
<1>6. ASSUME NEW u \in Turns, call'[u] = "reading"
      PROVE  HasLock(u)' /\ active'[sessionOf[u]] = NoTurn
  <2>1. HasLock(u) /\ active[sessionOf[u]] = NoTurn
    BY <1>1, <1>6 DEF Lock
  <2> QED BY <1>1, <2>1 DEF HasLock
<1>7. SessionTypes'
  BY <1>1 DEF SessionTypes
<1> QED BY <1>4, <1>5, <1>6, <1>7 DEF Lock

\* A turn that is admitted finds no live turn that is registered, for its session is
\* free; one that is refused leaves everything as it is.
LEMMA AdmissionRegistered ==
  ASSUME Turnwise, Registered, NEW t \in Turns, Admission(t)
  PROVE  Registered'
<1> USE DEF Turnwise, Registered
<1>1. ASSUME Start(t) \/ Admit(t) PROVE Registered'
  <2>1. Lock' /\ SessionTypes'
    BY <1>1, StartLock, AdmitLock
  <2>2. UNCHANGED <<turn, active, raced>>
    BY <1>1 DEF Start, Admit
  <2>3. \A u \in Turns : Live(u)' => Live(u)
    BY <1>1, <2>2 DEF Start, Admit, Live, OwnTypes, Set
  <2> QED BY <2>1, <2>2, <2>3 DEF LiveTurnIsRegistered
<1>2. ASSUME Refuse(t) PROVE Registered'
  <2>1. PICK where \in CallState \ {"queued", "reading", "admitted"} : call' = Set(call, t, where)
    BY <1>2 DEF Refuse, CallState
  <2>2. HasLock(t) /\ Unlock(t) /\ UNCHANGED <<turn, active, raced>>
    BY <1>2 DEF Refuse
  <2>3. Lock' /\ queue' \in [Session -> Seq(Turns)]
    BY <2>1, <2>2, UnlockLock
  <2>4. \A u \in Turns : Live(u)' => Live(u)
    BY <2>1, <2>2 DEF Live, OwnTypes, Set
  <2> QED BY <2>2, <2>3, <2>4 DEF LiveTurnIsRegistered, SessionTypes
<1>3. ASSUME Register(t) PROVE Registered'
  <2>1. HasLock(t) /\ active[sessionOf[t]] = NoTurn
    BY <1>3 DEF Register, Lock
  <2>2. /\ call' = Set(call, t, "admitted") /\ Unlock(t)
        /\ active' = Set(active, sessionOf[t], t)
        /\ UNCHANGED <<turn, raced>>
    BY <1>3 DEF Register
  <2>3. sessionOf[t] \in Session
    OBVIOUS
  <2>4. active'[sessionOf[t]] = t /\ \A z \in Session \ {sessionOf[t]} : active'[z] = active[z]
    BY <2>2, <2>3 DEF SessionTypes, Set
  <2>5. Lock' /\ queue' \in [Session -> Seq(Turns)]
    BY <2>1, <2>2, <2>4, UnlockLock DEF CallState
  <2>6. SessionTypes'
    BY <2>2, <2>3, <2>5 DEF SessionTypes, Set
  <2>7. ASSUME NEW u \in Turns, Live(u)'
        PROVE  active'[sessionOf[u]] = u \/ sessionOf[u] \in raced
    <3>1. CASE u = t
      BY <2>4, <3>1
    <3>2. CASE u # t
      <4>1. Live(u)
        BY <2>2, <2>7, <3>2 DEF Live, OwnTypes, Set
      <4>2. active[sessionOf[u]] = u \/ sessionOf[u] \in raced
        BY <4>1 DEF LiveTurnIsRegistered
      <4>3. sessionOf[u] \in Session /\ u # NoTurn
        OBVIOUS
      <4> QED BY <2>1, <2>4, <4>2, <4>3
    <3> QED BY <3>1, <3>2
  <2> QED BY <2>2, <2>5, <2>6, <2>7 DEF LiveTurnIsRegistered
<1> QED BY <1>1, <1>2, <1>3 DEF Admission

\* A turn comes to its end in whichever of these ways: it frees its session, or
\* leaves the registrations alone.
FreesOwn(t) ==
  /\ UNCHANGED <<call, queue, raced>>
  /\ active' = active \/ (~IsTerminal(turn[t]) /\ active' = Set(active, sessionOf[t], NoTurn)
                            /\ IsTerminal(turn'[t]))

LEMMA FreesOwnRegistered ==
  ASSUME Turnwise, Registered, NEW t \in Turns, OwnStep(t), FreesOwn(t), call[t] = "admitted"
  PROVE  Registered'
<1> USE DEF Turnwise, Registered
<1>1. Frees
  BY DEF Frees, FreesOwn, SessionTypes, Set
<1>2. Lock'
  BY <1>1, FreesLock
<1>3. SessionTypes'
  BY <1>1 DEF Frees, FreesOwn, SessionTypes
<1>4. ASSUME NEW u \in Turns, Live(u)'
      PROVE  active'[sessionOf[u]] = u \/ sessionOf[u] \in raced
  <2>1. Live(u)
    BY <1>4 DEF Live, OwnStep, LeavesAlone, FreesOwn, Keeps
  <2>2. active[sessionOf[u]] = u \/ sessionOf[u] \in raced
    BY <2>1 DEF LiveTurnIsRegistered
  <2>3. CASE active' = active \/ sessionOf[u] # sessionOf[t]
    BY <2>2, <2>3 DEF FreesOwn, SessionTypes, Set
  <2>4. CASE active' # active /\ sessionOf[u] = sessionOf[t]
    <3>1. ~IsTerminal(turn[t]) /\ IsTerminal(turn'[t])
      BY <2>4 DEF FreesOwn
    <3>2. u # t /\ Live(t)
      BY <1>4, <3>1 DEF Live, IsTerminal
    <3>3. active[sessionOf[t]] = t \/ sessionOf[t] \in raced
      BY <3>2 DEF LiveTurnIsRegistered
    <3> QED BY <2>2, <2>4, <3>2, <3>3
  <2> QED BY <2>3, <2>4
<1>5. UNCHANGED raced
  BY DEF FreesOwn
<1> QED BY <1>2, <1>3, <1>4, <1>5 DEF LiveTurnIsRegistered

LEMMA FreeingSteps ==
  ASSUME Turnwise, NEW t \in Turns, TurnStep(t), ~Admission(t), ~RecoverReturns(t)
  PROVE  FreesOwn(t) /\ call[t] = "admitted"
<1> USE DEF Turnwise
<1>1. Own(t) /\ Sound(turn[t])
  BY DEF Own
<1>2. ASSUME NEW record, Sound(record), NEW outcome \in TerminalOutcome,
             Finish(t, record, outcome), UNCHANGED <<call, queue, raced>>
      PROVE  FreesOwn(t)
  <2>1. IsTerminal(turn'[t])
    BY <1>2, Settles DEF Finish, Record, OwnTypes, Set
  <2> QED BY <1>2, <2>1 DEF Finish, FreesOwn
<1>3. ASSUME \/ SessionIsBound(t) \/ OperationStarts(t) \/ OperationEnds(t)
             \/ Report(t) \/ Question(t)
             \/ \E i \in Interaction : RunDefers(t, i)
      PROVE  FreesOwn(t) /\ call[t] = "admitted"
  <2>1. UNCHANGED <<call, queue, active, raced>>
    BY <1>3 DEF SessionIsBound, OperationStarts, OperationEnds, Report, EmitCommentaryDelta,
                EmitReasoningDelta, EmitFinalAnswerDelta, EmitFinalAnswer, EmitToolStarted,
                EmitToolCompleted, Reported, Question, RequestInteraction, ResolveInteraction,
                RunDefers, Defer
  <2>2. Live(t) \/ Working(t) \/ operation[t] # "none"
    BY <1>3 DEF SessionIsBound, OperationStarts, OperationEnds, Report, EmitCommentaryDelta,
                EmitReasoningDelta, EmitFinalAnswerDelta, EmitFinalAnswer, EmitToolStarted,
                EmitToolCompleted, Reported, Question, RequestInteraction, ResolveInteraction,
                RunDefers, RunOver, Working
  <2> QED BY <1>1, <2>1, <2>2, AdmittedOwn DEF FreesOwn
<1>4. ASSUME SessionIsNotBound(t) \/ RunCompletes(t) \/ RunFails(t)
      PROVE  FreesOwn(t) /\ call[t] = "admitted"
  <2>1. PICK outcome \in TerminalOutcome : Finish(t, turn[t], outcome)
    BY <1>4 DEF SessionIsNotBound, RunCompletes, RunFails, TerminalOutcome
  <2>2. Working(t) /\ UNCHANGED <<call, queue, raced>>
    BY <1>4 DEF SessionIsNotBound, RunCompletes, RunFails, RunOver, Working
  <2> QED BY <1>1, <1>2, <2>1, <2>2, AdmittedOwn
<1>5. ASSUME ContinuationSettles(t)
      PROVE  FreesOwn(t) /\ call[t] = "admitted"
  <2>1. \/ UNCHANGED active
        \/ \E outcome \in TerminalOutcome : Finish(t, turn[t], outcome)
    BY <1>5 DEF ContinuationSettles, ContinuationContinues, ContinuationCompletes,
                ContinuationFails, ContinuationDefers, Defer, TerminalOutcome
  <2>2. Working(t) /\ UNCHANGED <<call, queue, raced>>
    BY <1>5 DEF ContinuationSettles, ContinuationContinues, ContinuationCompletes,
                ContinuationFails, ContinuationDefers, Answered, Working
  <2> QED BY <1>1, <1>2, <2>1, <2>2, AdmittedOwn DEF FreesOwn
<1>6. ASSUME Stop(t)
      PROVE  FreesOwn(t) /\ call[t] = "admitted"
  <2>1. ~IsTerminal(turn[t]) /\ call[t] = "admitted" /\ UNCHANGED <<call, queue, raced>>
    BY <1>6 DEF Stop, CancelTurn, CancelTurnAtOnce, Timeout, TimeoutAtOnce, Recover, Live
  <2>2. /\ Sound(CancellationRequested(turn[t]))
        /\ Sound(TimeoutRequested(turn[t]))
    BY <1>1, <2>1, IntentReports DEF Reports
  <2>3. \/ UNCHANGED active
        \/ Finish(t, CancellationRequested(turn[t]), "cancelled")
        \/ Finish(t, TimeoutRequested(turn[t]), "failed")
    BY <1>6 DEF Stop, CancelTurn, CancelTurnAtOnce, Timeout, TimeoutAtOnce, Recover
  <2> QED BY <1>2, <2>1, <2>2, <2>3 DEF FreesOwn, TerminalOutcome
<1>7. ASSUME CleanupAnswers(t)
      PROVE  FreesOwn(t) /\ call[t] = "admitted"
  <2>1. \/ UNCHANGED active
        \/ \E outcome \in TerminalOutcome : Finish(t, turn[t], outcome)
    BY <1>7 DEF CleanupAnswers, CancelAcknowledged, CancelThrows, TimeoutVerified,
                TimeoutUnverified, RecoverVerified, RecoverUnverified, TerminalOutcome
  <2>2. stopping[t] # {} /\ UNCHANGED <<call, queue, raced>>
    BY <1>7 DEF CleanupAnswers, CancelAcknowledged, CancelThrows, TimeoutVerified,
                TimeoutUnverified, RecoverVerified, RecoverUnverified, Resumes
  <2> QED BY <1>1, <1>2, <2>1, <2>2, AdmittedOwn DEF FreesOwn
<1>8. ASSUME RunLosesOperation(t)
      PROVE  FreesOwn(t) /\ call[t] = "admitted"
  <2>1. \/ UNCHANGED active
        \/ Finish(t, OperationLost(turn[t]), "failed")
    BY <1>8 DEF RunLosesOperation
  <2>2. Working(t) /\ UNCHANGED <<call, queue, raced>>
    BY <1>8 DEF RunLosesOperation, RunOver, Working
  <2>3. Sound(OperationLost(turn[t])) /\ "failed" \in TerminalOutcome
    BY <1>1, IntentReports DEF Reports, TerminalOutcome
  <2> QED BY <1>1, <1>2, <2>1, <2>2, <2>3, AdmittedOwn DEF FreesOwn
<1> QED BY <1>3, <1>4, <1>5, <1>6, <1>7, <1>8 DEF TurnStep, RunSettles

\* The late removal by a recovery is what raced remembers.
LEMMA RecoverReturnsRegistered ==
  ASSUME Turnwise, Registered, NEW t \in Turns, RecoverReturns(t)
  PROVE  Registered'
<1> USE DEF Turnwise, Registered
<1> DEFINE s == sessionOf[t]
<1>1. /\ s \in Session
      /\ active' = Set(active, s, NoTurn)
      /\ raced' = IF active[s] = NoTurn THEN raced ELSE raced \cup {s}
      /\ UNCHANGED <<turn, call, queue>>
  BY DEF RecoverReturns
<1>2. Frees
  BY <1>1 DEF Frees, SessionTypes, Set
<1>3. Lock' /\ SessionTypes'
  BY <1>1, <1>2, FreesLock DEF SessionTypes, Frees
<1>4. ASSUME NEW u \in Turns, Live(u)'
      PROVE  active'[sessionOf[u]] = u \/ sessionOf[u] \in raced'
  <2>1. active[sessionOf[u]] = u \/ sessionOf[u] \in raced
    BY <1>1, <1>4 DEF LiveTurnIsRegistered, Live
  <2>2. u # NoTurn /\ sessionOf[u] \in Session
    OBVIOUS
  <2> QED BY <1>1, <2>1, <2>2 DEF SessionTypes, Set
<1> QED BY <1>3, <1>4 DEF LiveTurnIsRegistered

LEMMA ShutdownRegistered == Turnwise /\ Registered /\ Shutdown => Registered'
<1> SUFFICES ASSUME Turnwise, Registered, Shutdown PROVE Registered'
  OBVIOUS
<1> USE DEF Turnwise, Registered
<1> DEFINE ends == {t \in Turns : Live(t) /\ ~Survives(t)}
<1>1. /\ active' = [s \in Session |-> IF \E t \in ends : sessionOf[t] = s THEN NoTurn
                                                                        ELSE active[s]]
      /\ turn' = [t \in Turns |-> IF t \in ends THEN SettleTerminal(turn[t], "interrupted")
                                                ELSE turn[t]]
      /\ UNCHANGED <<call, queue, raced>>
  BY DEF Shutdown
<1>2. Frees
  BY <1>1 DEF Frees, SessionTypes
<1>3. Lock' /\ SessionTypes'
  BY <1>1, <1>2, FreesLock DEF SessionTypes, Frees
<1>4. ASSUME NEW u \in Turns, Live(u)'
      PROVE  active'[sessionOf[u]] = u \/ sessionOf[u] \in raced'
  <2>1. u \notin ends
    <3> SUFFICES ASSUME u \in ends PROVE FALSE
      OBVIOUS
    <3>1. turn'[u] = SettleTerminal(turn[u], "interrupted") /\ Sound(turn[u])
      BY <1>1 DEF Own
    <3>2. IsTerminal(turn'[u])
      BY <3>1, Settles DEF TerminalOutcome
    <3> QED BY <1>4, <3>2 DEF Live, IsTerminal
  <2>2. Live(u)
    BY <1>1, <1>4, <2>1 DEF Live, IsTerminal
  <2>3. active[sessionOf[u]] = u \/ sessionOf[u] \in raced
    BY <2>2 DEF LiveTurnIsRegistered
  <2>4. sessionOf[u] \in Session
    OBVIOUS
  <2>5. CASE \E t \in ends : sessionOf[t] = sessionOf[u]
    <3>1. PICK t \in ends : sessionOf[t] = sessionOf[u]
      BY <2>5
    <3>2. active[sessionOf[t]] = t \/ sessionOf[t] \in raced
      BY <3>1 DEF LiveTurnIsRegistered
    <3> QED BY <1>1, <2>1, <2>3, <3>1, <3>2
  <2>6. CASE ~\E t \in ends : sessionOf[t] = sessionOf[u]
    BY <1>1, <2>3, <2>4, <2>6
  <2> QED BY <2>5, <2>6
<1> QED BY <1>3, <1>4 DEF LiveTurnIsRegistered

-----------------------------------------------------------------------------
(***************************************************************************)
(* The invariant, and what it says of the specification.                   *)
(***************************************************************************)

TurnsInv == Turnwise /\ Registered

LEMMA TurnsInit == Init => TurnsInv
<1> SUFFICES ASSUME Init PROVE Registered
  BY TurnwiseInit DEF TurnsInv
<1>1. SessionTypes
  BY DEF Init, SessionTypes
<1>2. \A t \in Turns : call[t] = "none"
  BY DEF Init
<1>3. \A s \in Session : DOMAIN queue[s] = {}
  BY DEF Init
<1>4. Lock
  BY <1>2, <1>3 DEF Lock
<1>5. LiveTurnIsRegistered
  BY <1>2 DEF LiveTurnIsRegistered, Live
<1> QED BY <1>1, <1>4, <1>5 DEF Registered

LEMMA TurnsNext == TurnsInv /\ [Next]_vars => TurnsInv'
<1> SUFFICES ASSUME TurnsInv, [Next]_vars PROVE Registered'
  BY TurnwiseNext DEF TurnsInv
<1>1. ASSUME NEW t \in Turns, TurnStep(t) PROVE Registered'
  <2>1. OwnStep(t)
    BY <1>1, AdmissionOwn, ProviderOwn, ReportedOwn, QuestionOwn, RunOwn, DefersOwn,
       RunLosesOperationOwn, ContinuationOwn, StopOwn, CleanupOwn
       DEF TurnsInv, Turnwise, TurnStep, RunSettles
  <2>2. CASE Admission(t)
    BY <2>2, AdmissionRegistered DEF TurnsInv
  <2>3. CASE RecoverReturns(t)
    BY <2>3, RecoverReturnsRegistered DEF TurnsInv
  <2>4. CASE ~Admission(t) /\ ~RecoverReturns(t)
    BY <1>1, <2>1, <2>4, FreeingSteps, FreesOwnRegistered DEF TurnsInv
  <2> QED BY <2>2, <2>3, <2>4
<1>2. CASE Shutdown
  BY <1>2, ShutdownRegistered DEF TurnsInv
<1>3. CASE UNCHANGED vars
  BY <1>3 DEF vars, TurnsInv, Registered, SessionTypes, Lock, HasLock, LiveTurnIsRegistered,
              Live, IsTerminal
<1> QED BY <1>1, <1>2, <1>3 DEF Next

LEMMA TurnsInvariant == Spec => []TurnsInv
BY TurnsInit, TurnsNext, PTL DEF Spec

\* Type correctness: every variable of the runtime stays what TypeOK says, the record
\* of a turn through every method of its coordinator.
THEOREM TurnTypes == Spec => []TypeOK
<1>1. TurnsInv => TypeOK
  BY DEF TurnsInv, Turnwise, Registered, OwnTypes, SessionTypes, TypeOK
<1> QED BY <1>1, TurnsInvariant, PTL

\* What a user sees of a turn is what the turn waits for, with any number of tools and
\* questions, and whichever calls are under way.
THEOREM StatusAlwaysTellsTheWork == Spec => []StatusTellsTheWork
<1>1. TurnsInv => StatusTellsTheWork
  BY DEF TurnsInv, Turnwise, Own, Sound, Tells, StatusTellsTheWork
<1> QED BY <1>1, TurnsInvariant, PTL

\* A provider that still reports an outcome does not overtake an accepted intent to
\* stop its turn.
THEOREM IntentAlwaysPrevails == Spec => []IntentPrevails
<1>1. TurnsInv => IntentPrevails
  BY DEF TurnsInv, Turnwise, Own, Sound, Prevails, IntentPrevails
<1> QED BY <1>1, TurnsInvariant, PTL

\* The watchdog and a recovery free the session of a provider with processes only once
\* the turn's operation has stopped.
THEOREM FreedIsAlwaysStopped == Spec => []FreedIsStopped
<1>1. TurnsInv => FreedIsStopped
  BY DEF TurnsInv, Turnwise, Own, Freed, FreedIsStopped
<1> QED BY <1>1, TurnsInvariant, PTL

\* A turn that has not ended holds its session, whichever of the calls that stop it
\* and of the callers that start others are under way.
THEOREM LiveTurnStaysRegistered == Spec => []LiveTurnIsRegistered
<1>1. TurnsInv => LiveTurnIsRegistered
  BY DEF TurnsInv, Registered
<1> QED BY <1>1, TurnsInvariant, PTL

\* A process's turn whose cancellation was accepted is never left alone.
THEOREM CancelledTurnIsAlwaysAwaited == Spec => []CancelledTurnIsAwaited
<1>1. TurnsInv => CancelledTurnIsAwaited
  BY DEF TurnsInv, Turnwise, Own, Awaited, CancelledTurnIsAwaited
<1> QED BY <1>1, TurnsInvariant, PTL

\* The first end of a turn stands, whichever of its provider's reports, a cancellation,
\* the watchdog, a recovery and a shutdown come after it (settleTerminal), and so does
\* the first answer to a question (resolveInteraction).
THEOREM WhatIsSettledStands == Spec => [][SettledStands]_vars
<1>1. Turnwise /\ [Next]_vars => [SettledStands]_vars
  BY SettledNext
<1> QED BY <1>1, TurnwiseAlways, PTL DEF Spec

-----------------------------------------------------------------------------
(***************************************************************************)
(* The transcript's cache. Nothing is forgotten because whatever was read  *)
(* while nothing was in memory is what the file still holds, and because a *)
(* flush under way may lag behind the memory only if the memory is dirty.  *)
(* A deleted session stays deleted because its deletion is the last job of *)
(* the queue until the next change.                                        *)
(***************************************************************************)

Job == {"flush", "delete"}

\* Until the deletion is asked for there is none in the queue, what was read is
\* what the file holds as long as nothing is in memory, and the memory is dirty,
\* or in the file, or being written.
BeforeDeletion ==
  deleted = "no" =>
    /\ \A n \in 1..Len(jobs) : jobs[n] # "delete"
    /\ memory = NoTranscript =>
         /\ writing = NoTranscript
         /\ \A r \in Reader : reading[r] \in {NoTranscript, Known(file)}
    /\ ~clobbered /\ memory # NoTranscript /\ ~dirty =>
         memory = IF writing = NoTranscript THEN Known(file) ELSE writing

\* A deletion is the last job, or is done.
AfterDeletion ==
  deleted = "idle" =>
    /\ ~timer
    /\ jobs # <<>> => jobs[Len(jobs)] = "delete"
    /\ jobs = <<>> => file = NoTranscript /\ ~dirty

\* The flags, and the rest of the types.
Flags == dirty \in BOOLEAN /\ timer \in BOOLEAN /\ clobbered \in BOOLEAN /\ failed \in BOOLEAN

Values ==
  /\ memory \in 0..MaxChanges \cup {NoTranscript}
  /\ file \in 0..MaxChanges \cup {NoTranscript}
  /\ writing \in 0..MaxChanges \cup {NoTranscript}
  /\ jobs \in Seq({"flush", "delete"})
  /\ writing # NoTranscript => jobs # <<>> /\ Head(jobs) = "flush"
  /\ reading \in [Reader -> (0..MaxChanges) \cup {NoTranscript}]
  /\ recorded \in 0..MaxChanges
  /\ deleted \in {"no", "idle", "busy"}
  /\ crashes \in 0..MaxCrashes

TranscriptInv == TranscriptTypeOK /\ BeforeDeletion /\ AfterDeletion

USE TranscriptAssumption

LEMMA InitTranscriptInv == TranscriptInit => TranscriptInv
<1> SUFFICES ASSUME TranscriptInit PROVE TranscriptInv
  OBVIOUS
<1>1. TranscriptTypeOK
  <2>1. Flags
    BY DEF TranscriptInit, Flags
  <2>2. Values
    BY DEF TranscriptInit, Values
  <2> QED
    BY <2>1, <2>2 DEF TranscriptTypeOK, Flags, Values
<1>2. BeforeDeletion /\ AfterDeletion
  BY DEF TranscriptInit, BeforeDeletion, AfterDeletion
<1> QED
  BY <1>1, <1>2 DEF TranscriptInv

\* What the queue is after a job was added.
LEMMA Added ==
  ASSUME NEW s \in Seq(Job), NEW j \in Job
  PROVE  /\ Append(s, j) \in Seq(Job)
         /\ Append(s, j) # <<>>
         /\ s # <<>> => Head(Append(s, j)) = Head(s)
         /\ Append(s, j)[Len(Append(s, j))] = j
         /\ (\A n \in 1..Len(s) : s[n] # "delete") /\ j # "delete"
              => \A n \in 1..Len(Append(s, j)) : Append(s, j)[n] # "delete"
OBVIOUS

\* What the queue is after its first job.
LEMMA Done ==
  ASSUME NEW s \in Seq(Job), s # <<>>
  PROVE  /\ Tail(s) \in Seq(Job)
         /\ (\A n \in 1..Len(s) : s[n] # "delete")
              => Head(s) # "delete" /\ \A n \in 1..Len(Tail(s)) : Tail(s)[n] # "delete"
         /\ Tail(s) # <<>> => Tail(s)[Len(Tail(s))] = s[Len(s)]
         /\ Tail(s) = <<>> => Head(s) = s[Len(s)]
<1>1. /\ Tail(s) \in Seq(Job)
      /\ Len(s) \in Nat /\ Len(s) > 0
      /\ Len(Tail(s)) = Len(s) - 1
      /\ \A n \in 1..Len(Tail(s)) : Tail(s)[n] = s[n + 1]
      /\ Head(s) = s[1]
  OBVIOUS
<1>2. ASSUME \A n \in 1..Len(s) : s[n] # "delete"
      PROVE  Head(s) # "delete" /\ \A n \in 1..Len(Tail(s)) : Tail(s)[n] # "delete"
  BY <1>1, <1>2
<1>3. Tail(s) # <<>> => Tail(s)[Len(Tail(s))] = s[Len(s)]
  BY <1>1
<1>4. Tail(s) = <<>> => Head(s) = s[Len(s)]
  <2>1. Len(<<>>) = 0
    OBVIOUS
  <2>2. Tail(s) = <<>> => Len(Tail(s)) = Len(<<>>)
    OBVIOUS
  <2> QED
    BY <1>1, <2>1, <2>2
<1> QED
  BY <1>1, <1>2, <1>3, <1>4

LEMMA NextTranscriptInv == TranscriptInv /\ [TranscriptNext]_transcriptVars => TranscriptInv'
<1> SUFFICES ASSUME TranscriptInv, [TranscriptNext]_transcriptVars PROVE TranscriptInv'
  OBVIOUS
<1> USE DEF TranscriptInv, BeforeDeletion, AfterDeletion, Known
<1>t. /\ jobs \in Seq(Job)
      /\ memory \in 0..MaxChanges \cup {NoTranscript}
      /\ file \in 0..MaxChanges \cup {NoTranscript}
      /\ writing \in 0..MaxChanges \cup {NoTranscript}
      /\ dirty \in BOOLEAN /\ timer \in BOOLEAN /\ clobbered \in BOOLEAN /\ failed \in BOOLEAN
  BY DEF TranscriptTypeOK, Job
<1>v. Values
  BY DEF TranscriptTypeOK, Values
<1>1. CASE RecordAndMark
  <2>1. TranscriptTypeOK'
    <3>1. Flags'
      BY <1>1, <1>t, <1>v DEF RecordAndMark, Changes, Flags
    <3>2. Values'
      BY <1>1, <1>t, <1>v DEF RecordAndMark, Changes, Values, Job
    <3> QED
      BY <3>1, <3>2 DEF TranscriptTypeOK, Flags, Values
  <2>2. BeforeDeletion'
    BY <1>1, <1>t, <1>v DEF RecordAndMark, Changes, Values
  <2>3. AfterDeletion'
    BY <1>1, <1>t, <1>v DEF RecordAndMark, Changes, Values
  <2> QED
    BY <2>1, <2>2, <2>3
<1>2. CASE RecordAndFlush
  <2>1. TranscriptTypeOK'
    <3>1. Flags'
      BY <1>2, <1>t, <1>v DEF RecordAndFlush, Changes, Flags
    <3>2. Values'
      BY <1>2, <1>t, <1>v, Added DEF RecordAndFlush, Changes, Values, Job
    <3> QED
      BY <3>1, <3>2 DEF TranscriptTypeOK, Flags, Values
  <2>2. BeforeDeletion'
    BY <1>2, <1>t, Added DEF RecordAndFlush, Changes, TranscriptTypeOK, Job
  <2>3. AfterDeletion'
    BY <1>2, <1>t, <1>v DEF RecordAndFlush, Changes, Values
  <2> QED
    BY <2>1, <2>2, <2>3
<1>3. CASE TimerFires
  BY <1>3, <1>t, Added DEF TimerFires, historyVars, TranscriptTypeOK, Job
<1>4. CASE FlushStarts
  BY <1>4, <1>t DEF FlushStarts, Under, historyVars, TranscriptTypeOK
<1>5. CASE FlushOfNothing
  BY <1>5, <1>t, Done DEF FlushOfNothing, Under, JobDone, historyVars, TranscriptTypeOK, Job
<1>6. CASE FlushSaves
  BY <1>6, <1>t, Done DEF FlushSaves, JobDone, historyVars, TranscriptTypeOK, Job
<1>7. CASE FlushFails
  BY <1>7, <1>t, Done DEF FlushFails, JobDone, TranscriptTypeOK, Job
<1>8. CASE DeleteRuns
  BY <1>8, <1>t, Done DEF DeleteRuns, Under, JobDone, historyVars, TranscriptTypeOK, Job
<1>9. CASE DeleteCalled
  BY <1>9, <1>t, Added DEF DeleteCalled, TranscriptTypeOK, Job
<1>10. ASSUME NEW r \in Reader, ReadStarts(r) PROVE TranscriptInv'
  BY <1>10, <1>t DEF ReadStarts, queueVars, historyVars, TranscriptTypeOK
<1>11. ASSUME NEW r \in Reader, ReadEnds(r) PROVE TranscriptInv'
  BY <1>11, <1>t DEF ReadEnds, queueVars, TranscriptTypeOK
<1>12. ASSUME NEW interrupted \in BOOLEAN, Crash(interrupted) PROVE TranscriptInv'
  <2>1. CASE interrupted
    <3>1. TranscriptTypeOK'
      <4>1. Flags'
        BY <1>12, <1>t, <1>v, <2>1 DEF Crash, Flags
      <4>2. Values'
        BY <1>12, <1>t, <1>v, <2>1 DEF Crash, Values, Job
      <4> QED
        BY <4>1, <4>2 DEF TranscriptTypeOK, Flags, Values
    <3>2. BeforeDeletion' /\ AfterDeletion'
      BY <1>12, <1>t, <2>1 DEF Crash, TranscriptTypeOK
    <3> QED
      BY <3>1, <3>2
  <2>2. CASE ~interrupted
    <3>1. TranscriptTypeOK'
      <4>1. Flags'
        BY <1>12, <1>t, <1>v, <2>2 DEF Crash, Flags
      <4>2. Values'
        BY <1>12, <1>t, <1>v, <2>2 DEF Crash, Values, Job
      <4> QED
        BY <4>1, <4>2 DEF TranscriptTypeOK, Flags, Values
    <3>2. BeforeDeletion' /\ AfterDeletion'
      BY <1>12, <1>t, <2>2 DEF Crash, TranscriptTypeOK
    <3> QED
      BY <3>1, <3>2
  <2> QED
    BY <2>1, <2>2
<1>13. CASE UNCHANGED transcriptVars
  BY <1>13 DEF transcriptVars, queueVars, historyVars, TranscriptTypeOK
<1> QED
  BY <1>1, <1>2, <1>3, <1>4, <1>5, <1>6, <1>7, <1>8, <1>9, <1>10, <1>11, <1>12, <1>13
     DEF TranscriptNext, QueueStep

LEMMA TranscriptInvariant == TranscriptSpec => []TranscriptInv
BY InitTranscriptInv, NextTranscriptInv, PTL DEF TranscriptSpec

\* The type invariant of the transcript's cache, with the order of its queue.
THEOREM TranscriptTypes == TranscriptSpec => []TranscriptTypeOK
BY TranscriptInvariant, PTL DEF TranscriptInv

\* What is in memory is saved, being saved, or dirty, whatever fails and whenever
\* the server dies, as long as no late read has overwritten it.
THEOREM NothingIsForgotten == TranscriptSpec => []NothingForgotten
<1>1. TranscriptInv => NothingForgotten
  BY DEF TranscriptInv, TranscriptTypeOK, BeforeDeletion, NothingForgotten
<1> QED
  BY <1>1, TranscriptInvariant, PTL

\* A deleted session's file does not come back, neither by a flush that was under
\* way nor by a read that was.
THEOREM DeletedStaysGone == TranscriptSpec => []DeletedIsGone
<1>1. TranscriptInv => DeletedIsGone
  BY DEF TranscriptInv, TranscriptTypeOK, AfterDeletion, DeletedIsGone
<1> QED
  BY <1>1, TranscriptInvariant, PTL
=============================================================================
