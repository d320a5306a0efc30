-------------------------------- MODULE Turns --------------------------------
(***************************************************************************)
(* AgentTurnRuntime: the turns of some agent sessions, from the call that  *)
(* starts one to its end. One session has one turn at a time: startTurn    *)
(* serialises the callers of a session on a promise chain (queue) and      *)
(* refuses a session that has a turn registered (active).                  *)
(*                                                                         *)
(* The runtime is one JavaScript process; an action is what runs between   *)
(* two awaits. Several things wait at the same time for one turn: the      *)
(* provider's promise (#run), the answer to a question (#runContinuation), *)
(* and the calls that stop it (cancelTurn, the idle watchdog, recoverTurn).*)
(* Each goes on with the turn as it finds it.                              *)
(*                                                                         *)
(* A session is its canonical identifier: the second key under which a     *)
(* turn is registered (provider and provider session) is left out, and so  *)
(* are the transcript, the event stream and the eviction of old turns.     *)
(***************************************************************************)
EXTENDS Turn, Sequences

CONSTANTS
  Turns,        \* the calls of startTurn, each naming the turn it would create
  Session,      \* the sessions
  NoTurn,       \* null
  sessionOf,    \* the session of a turn
  keyOf,        \* the idempotency key of a call; NoKey is none
  NoKey,
  Texts,        \* the kinds of text that a provider reports
  Restartable,  \* the questions whose resume policy is not 'live-operation'
  AppServer     \* the sessions whose provider is a shared server (codex); others
                \* have a child process for every turn (claude, antigravity)

ASSUME TurnsAssumption ==
  /\ NoTurn \notin Turns
  /\ sessionOf \in [Turns -> Session]
  /\ DOMAIN keyOf = Turns
  /\ Texts \subseteq {"commentary", "reasoning", "answer"}
  /\ Restartable \subseteq Interaction
  /\ AppServer \subseteq Session

VARIABLES
  turn,       \* the turns' records; one counts once its call is admitted
  call,       \* where the call that starts the turn is
  queue,      \* startQueueBySession: the callers, the one that has the lock first
  active,     \* activeBySession
  run,        \* the promise of provider.startTurn
  bound,      \* establishedPromise: whether the provider's session is bound
  answering,  \* the questions whose answer the provider has not taken yet
  operation,  \* privateOperation, and whether what it stands for still runs
  aborted,    \* abortController.signal.aborted
  stopping,   \* the calls that wait for the operation to stop
  closed,     \* whether shutdown() was called
  raced       \* history: sessions where a recovery removed another turn's registration

vars == <<turn, call, queue, active, run, bound, answering, operation, aborted, stopping,
          closed, raced>>

CallState == {"none", "queued", "reading", "admitted", "conflict", "idempotent"}
Stopping == {"cancel", "timeout", "recover", "recovered"}

Init ==
  /\ turn = [t \in Turns |-> NewTurn]
  /\ call = [t \in Turns |-> "none"]
  /\ queue = [s \in Session |-> <<>>]
  /\ active = [s \in Session |-> NoTurn]
  /\ run = [t \in Turns |-> "none"]
  /\ bound = [t \in Turns |-> "no"]
  /\ answering = [t \in Turns |-> {}]
  /\ operation = [t \in Turns |-> "none"]
  /\ aborted = [t \in Turns |-> FALSE]
  /\ stopping = [t \in Turns |-> {}]
  /\ closed = FALSE
  /\ raced = {}

OnServer(t) == sessionOf[t] \in AppServer
Live(t) == call[t] = "admitted" /\ ~IsTerminal(turn[t])
Set(f, t, value) == [f EXCEPT ![t] = value]

Record(t, record) == turn' = Set(turn, t, record)

\* #finish: the turn is settled and its session is free. Whoever is registered
\* for the session is removed.
Finish(t, record, outcome) ==
  /\ Record(t, SettleTerminal(record, outcome))
  /\ active' = IF IsTerminal(turn[t]) THEN active ELSE Set(active, sessionOf[t], NoTurn)

-----------------------------------------------------------------------------
(***************************************************************************)
(* startTurn.                                                              *)
(***************************************************************************)

Start(t) ==
  /\ ~closed
  /\ call[t] = "none"
  /\ call' = Set(call, t, "queued")
  /\ queue' = [queue EXCEPT ![sessionOf[t]] = Append(@, t)]
  /\ UNCHANGED <<turn, active, run, bound, answering, operation, aborted, stopping, closed, raced>>

HasLock(t) == queue[sessionOf[t]] # <<>> /\ Head(queue[sessionOf[t]]) = t
Unlock(t) == queue' = [queue EXCEPT ![sessionOf[t]] = Tail(@)]

\* Mutant: the callers of a session do not wait for one another.
AdmitUnlocked(t) ==
  /\ call[t] = "queued"
  /\ active[sessionOf[t]] = NoTurn
  /\ call' = Set(call, t, "reading")
  /\ UNCHANGED <<turn, queue, active, run, bound, answering, operation, aborted, stopping, closed,
                 raced>>

\* The session is free: the caller may await the transcript, for the sequence
\* number of the session's events, and keeps the lock.
Admit(t) ==
  /\ call[t] = "queued"
  /\ HasLock(t)
  /\ active[sessionOf[t]] = NoTurn
  /\ call' = Set(call, t, "reading")
  /\ UNCHANGED <<turn, queue, active, run, bound, answering, operation, aborted, stopping, closed,
                 raced>>

\* The session has a turn. Only one that is not 'unknown' answers its own key.
Refuse(t) ==
  LET other == active[sessionOf[t]] IN
  /\ call[t] = "queued"
  /\ HasLock(t)
  /\ other # NoTurn
  /\ call' = Set(call, t, IF /\ turn[other].status # "unknown"
                             /\ keyOf[t] # NoKey
                             /\ keyOf[t] = keyOf[other]
                            THEN "idempotent" ELSE "conflict")
  /\ Unlock(t)
  /\ UNCHANGED <<turn, active, run, bound, answering, operation, aborted, stopping, closed, raced>>

\* The turn exists, its session is registered, and the provider is called before
\* anyone else runs. A provider that spawns a process has its handle at once. The
\* caller may have named a session of the provider to go on with.
Register(t) ==
  /\ call[t] = "reading"
  /\ call' = Set(call, t, "admitted")
  /\ active' = Set(active, sessionOf[t], t)
  /\ run' = Set(run, t, "running")
  /\ \E b \in {"no", "yes"} : bound' = Set(bound, t, b)
  /\ operation' = IF OnServer(t) THEN operation ELSE Set(operation, t, "running")
  /\ Unlock(t)
  /\ UNCHANGED <<turn, answering, aborted, stopping, closed, raced>>

-----------------------------------------------------------------------------
(***************************************************************************)
(* The provider's work.                                                    *)
(***************************************************************************)

Working(t) == run[t] = "running" \/ answering[t] # {}

\* onProviderSessionIdAvailable: the provider has a session of its own, and
\* whoever started the turn records it.
SessionIsBound(t) ==
  /\ Working(t)
  /\ bound[t] = "no"
  /\ bound' = Set(bound, t, "yes")
  /\ UNCHANGED <<turn, call, queue, active, run, answering, operation, aborted, stopping,
                 closed, raced>>

\* Recording it fails: the turn has failed, and its operation is told to stop.
SessionIsNotBound(t) ==
  /\ Working(t)
  /\ bound[t] = "no"
  /\ bound' = Set(bound, t, "failed")
  /\ aborted' = Set(aborted, t, aborted[t] \/ ~IsTerminal(turn[t]))
  /\ Finish(t, turn[t], "failed")
  /\ UNCHANGED <<call, queue, run, answering, operation, stopping, closed, raced>>

\* setOperation: a server gives its handle later, and is not told of the signal;
\* a process is spawned anew to go on after the answer it ended for.
OperationStarts(t) ==
  /\ operation[t] = "none"
  /\ IF OnServer(t) THEN run[t] = "running" /\ bound[t] = "yes" ELSE answering[t] # {}
  /\ operation' = Set(operation, t, "running")
  /\ UNCHANGED <<turn, call, queue, active, run, bound, answering, aborted, stopping, closed, raced>>

\* External: the process exits, or the server's turn is over. A process whose
\* turn was aborted has nothing to say but that it was cancelled.
OperationEnds(t) ==
  /\ operation[t] = "running"
  /\ \E end \in {"ended", "killed"} :
       /\ OnServer(t) \/ (aborted[t] <=> end = "killed")
       /\ operation' = Set(operation, t, end)
  /\ UNCHANGED <<turn, call, queue, active, run, bound, answering, aborted, stopping, closed, raced>>

\* One event of the provider: the emit* callbacks of the turn's context.
Reported(t, record) ==
  /\ operation[t] = "running"
  /\ Working(t)
  /\ ~IsTerminal(turn[t])
  /\ Record(t, record)
  /\ UNCHANGED <<call, queue, active, run, bound, answering, operation, aborted, stopping, closed,
                 raced>>

EmitCommentaryDelta(t) == "commentary" \in Texts /\ Reported(t, CommentaryDelta(turn[t]))
EmitReasoningDelta(t) == "reasoning" \in Texts /\ Reported(t, ReasoningDelta(turn[t]))
EmitFinalAnswerDelta(t) == "answer" \in Texts /\ Reported(t, FinalAnswerDelta(turn[t]))
EmitFinalAnswer(t) ==
  "answer" \in Texts /\ Reported(t, SetFinalAnswer(turn[t], "completed"))

EmitToolStarted(t, x) ==
  /\ turn[t].tool[x] = "none"
  /\ Reported(t, ToolStarted(turn[t], x))

EmitToolCompleted(t, x) ==
  /\ turn[t].tool[x] = "active"
  /\ \E status \in {"completed", "failed"} : Reported(t, ToolCompleted(turn[t], x, status))

\* requestInteraction, refused while a question is open. A continuation is not
\* given it.
RequestInteraction(t, i) ==
  /\ run[t] = "running"
  /\ turn[t].interaction[i] = "none"
  /\ turn[t].pending = NoInteraction
  /\ Reported(t, InteractionRequested(turn[t], i))

\* resolveInteraction: the answer is recorded and handed to the provider.
ResolveInteraction(t, i) ==
  /\ Live(t)
  /\ Records(turn[t])
  /\ turn[t].pending = i
  /\ Record(t, InteractionResolved(turn[t], i))
  /\ answering' = [answering EXCEPT ![t] = @ \cup {i}]
  /\ UNCHANGED <<call, queue, active, run, bound, operation, aborted, stopping, closed, raced>>

-----------------------------------------------------------------------------
(***************************************************************************)
(* The end of #run and of #runContinuation.                                *)
(***************************************************************************)

RunOver(t) == run[t] = "running" /\ run' = Set(run, t, "done")
Answered(t, i) == i \in answering[t] /\ answering' = [answering EXCEPT ![t] = @ \ {i}]

RunCompletes(t) ==
  /\ operation[t] = "ended"
  /\ RunOver(t)
  /\ Finish(t, turn[t], "completed")
  /\ UNCHANGED <<call, queue, bound, answering, operation, aborted, stopping, closed, raced>>

\* Mutant: the end of a turn being cancelled is left to the canceller.
RunFailsUnlessCancelling(t) ==
  /\ operation[t] # "running"
  /\ RunOver(t)
  /\ IF IsCancelling(turn[t]) THEN UNCHANGED <<turn, active>> ELSE Finish(t, turn[t], "failed")
  /\ UNCHANGED <<call, queue, bound, answering, operation, aborted, stopping, closed, raced>>

\* The provider's promise is rejected, perhaps before there was an operation.
RunFails(t) ==
  /\ operation[t] # "running"
  /\ RunOver(t)
  /\ Finish(t, turn[t], "failed")
  /\ UNCHANGED <<call, queue, bound, answering, operation, aborted, stopping, closed, raced>>

\* The connection to the server broke: nobody knows whether the turn still runs.
\* A turn whose session is not bound yet fails at once, for the promise that awaits
\* the session is rejected too.
RunLosesOperation(t) ==
  /\ OnServer(t)
  /\ RunOver(t)
  /\ IF bound[t] = "no"
       THEN /\ aborted' = Set(aborted, t, aborted[t] \/ ~IsTerminal(turn[t]))
            /\ Finish(t, OperationLost(turn[t]), "failed")
       ELSE /\ Record(t, OperationLost(turn[t]))
            /\ UNCHANGED <<active, aborted>>
  /\ UNCHANGED <<call, queue, bound, answering, operation, stopping, closed, raced>>

\* The process ended with a question: the turn waits without an operation. Not
\* asked: whether the turn still is live, or has a question already.
Defer(t, i) ==
  /\ ~OnServer(t)
  /\ i \in Restartable
  /\ turn[t].interaction[i] = "none"
  /\ Record(t, InteractionRequested(turn[t], i))
  /\ operation' = Set(operation, t, "none")
  /\ UNCHANGED active

RunDefers(t, i) ==
  /\ operation[t] = "ended"
  /\ RunOver(t)
  /\ Defer(t, i)
  /\ UNCHANGED <<call, queue, bound, answering, aborted, stopping, closed, raced>>

\* continuesTurn: the operation that asked goes on.
ContinuationContinues(t, i) ==
  /\ operation[t] = "running"
  /\ run[t] = "running"
  /\ Answered(t, i)
  /\ UNCHANGED <<turn, call, queue, active, run, bound, operation, aborted, stopping, closed, raced>>

\* The process that the answer started has come to its end.
ContinuationCompletes(t, i) ==
  /\ ~OnServer(t)
  /\ operation[t] = "ended"
  /\ run[t] = "done"
  /\ Answered(t, i)
  /\ Finish(t, turn[t], "completed")
  /\ UNCHANGED <<call, queue, run, bound, operation, aborted, stopping, closed, raced>>

\* The process fails, or the provider does not know the question: then the turn
\* has failed, whatever its operation does.
ContinuationFails(t, i) ==
  /\ Answered(t, i)
  /\ Finish(t, turn[t], "failed")
  /\ UNCHANGED <<call, queue, run, bound, operation, aborted, stopping, closed, raced>>

ContinuationDefers(t, i, next) ==
  /\ operation[t] = "ended"
  /\ run[t] = "done"
  /\ Answered(t, i)
  /\ Defer(t, next)
  /\ UNCHANGED <<call, queue, run, bound, aborted, stopping, closed, raced>>

-----------------------------------------------------------------------------
(***************************************************************************)
(* Calls that stop a turn: cancelTurn, the idle watchdog, recoverTurn and  *)
(* shutdown.                                                               *)
(***************************************************************************)

Awaits(t, what) == stopping' = [stopping EXCEPT ![t] = @ \cup {what}]
Resumes(t, what) == what \in stopping[t] /\ stopping' = [stopping EXCEPT ![t] = @ \ {what}]
Abort(t) == aborted' = Set(aborted, t, TRUE)
Stopped(t) == operation' = [operation EXCEPT ![t] = IF @ = "running" THEN "killed" ELSE @]

\* cancelTurn, while there is an operation to stop.
CancelTurn(t) ==
  /\ Live(t)
  /\ CancellationAccepted(turn[t])
  /\ operation[t] # "none"
  /\ Record(t, CancellationRequested(turn[t]))
  /\ Abort(t)
  /\ Awaits(t, "cancel")
  /\ UNCHANGED <<call, queue, active, run, bound, answering, operation, closed, raced>>

\* cancelTurn without one: the turn ends at once. A turn that waits for its
\* user is not aborted.
CancelTurnAtOnce(t) ==
  /\ Live(t)
  /\ CancellationAccepted(turn[t])
  /\ operation[t] = "none"
  /\ aborted' = Set(aborted, t, aborted[t] \/ ~IsWaiting(turn[t]))
  /\ Finish(t, CancellationRequested(turn[t]), "cancelled")
  /\ UNCHANGED <<call, queue, run, bound, answering, operation, stopping, closed, raced>>

\* provider.cancelTurn resolves. The server's word is that it was asked to
\* interrupt the turn, and the operation may still run.
CancelAcknowledged(t) ==
  /\ Resumes(t, "cancel")
  /\ Stopped(t) \/ (OnServer(t) /\ UNCHANGED operation)
  /\ Finish(t, turn[t], "cancelled")
  /\ UNCHANGED <<call, queue, run, bound, answering, aborted, closed, raced>>

\* provider.cancelTurn throws, as the operation goes on: so does the caller's,
\* and the turn stays as it is.
CancelThrows(t) ==
  /\ Resumes(t, "cancel")
  /\ operation[t] = "running"
  /\ UNCHANGED <<turn, call, queue, active, run, bound, answering, operation, aborted, closed, raced>>

\* checkIdleTurns fires, while there is an operation to stop.
Timeout(t) ==
  /\ Live(t)
  /\ SilenceCounts(turn[t])
  /\ ~closed
  /\ operation[t] # "none"
  /\ Record(t, TimeoutRequested(turn[t]))
  /\ Awaits(t, "timeout")
  /\ UNCHANGED <<call, queue, active, run, bound, answering, operation, aborted, closed, raced>>

\* Without a handle the operation counts as stopped.
TimeoutAtOnce(t) ==
  /\ Live(t)
  /\ SilenceCounts(turn[t])
  /\ ~closed
  /\ operation[t] = "none"
  /\ Abort(t)
  /\ Finish(t, TimeoutRequested(turn[t]), "failed")
  /\ UNCHANGED <<call, queue, run, bound, answering, operation, stopping, closed, raced>>

\* recoverTurn of a server, cancelTurn of a process: the operation has stopped.
TimeoutVerified(t) ==
  /\ Resumes(t, "timeout")
  /\ Stopped(t)
  /\ Abort(t)
  /\ Finish(t, turn[t], "failed")
  /\ UNCHANGED <<call, queue, run, bound, answering, closed, raced>>

\* Mutant: the session is freed although the operation may still run.
TimeoutUnverifiedEnds(t) ==
  /\ Resumes(t, "timeout")
  /\ operation[t] = "running"
  /\ Abort(t)
  /\ Finish(t, turn[t], "failed")
  /\ UNCHANGED <<call, queue, run, bound, answering, operation, closed, raced>>

TimeoutUnverified(t) ==
  /\ Resumes(t, "timeout")
  /\ operation[t] = "running"
  /\ Abort(t)
  /\ Record(t, OperationLost(turn[t]))
  /\ UNCHANGED <<call, queue, active, run, bound, answering, operation, closed, raced>>

\* recoverTurn is for a turn that is 'unknown', and waits for the proof.
Recover(t) ==
  /\ Live(t)
  /\ turn[t].status = "unknown"
  /\ Awaits(t, "recover")
  /\ UNCHANGED <<turn, call, queue, active, run, bound, answering, operation, aborted, closed, raced>>

RecoverUnverified(t) ==
  /\ Resumes(t, "recover")
  /\ operation[t] = "running"
  /\ UNCHANGED <<turn, call, queue, active, run, bound, answering, operation, aborted, closed, raced>>

\* The turn ends, and the call awaits the flush of its transcript.
RecoverVerified(t) ==
  /\ "recover" \in stopping[t]
  /\ stopping' = [stopping EXCEPT ![t] = (@ \ {"recover"}) \cup {"recovered"}]
  /\ Stopped(t)
  /\ Abort(t)
  /\ Finish(t, turn[t], "interrupted")
  /\ UNCHANGED <<call, queue, run, bound, answering, closed, raced>>

\* After the flush recoverTurn removes the session's registration once more,
\* which may be that of a turn started since.
RecoverReturns(t) ==
  LET s == sessionOf[t] IN
  /\ Resumes(t, "recovered")
  /\ active' = Set(active, s, NoTurn)
  /\ raced' = IF active[s] = NoTurn THEN raced ELSE raced \cup {s}
  /\ UNCHANGED <<turn, call, queue, run, bound, answering, operation, aborted, closed>>

\* A waiting turn that can be resumed outlives the process; every other ends.
Survives(t) == /\ turn[t].status = "requiresAttention"
               /\ turn[t].pending \notin Interaction \ Restartable

\* shutdown(). A turn still being admitted is not in the table, and is missed.
Shutdown ==
  LET ends == {t \in Turns : Live(t) /\ ~Survives(t)} IN
  /\ ~closed
  /\ closed' = TRUE
  /\ turn' = [t \in Turns |-> IF t \in ends THEN SettleTerminal(turn[t], "interrupted")
                                            ELSE turn[t]]
  /\ aborted' = [t \in Turns |-> aborted[t] \/ t \in ends]
  /\ active' = [s \in Session |-> IF \E t \in ends : sessionOf[t] = s THEN NoTurn
                                                                     ELSE active[s]]
  /\ UNCHANGED <<call, queue, run, bound, answering, operation, stopping, raced>>

-----------------------------------------------------------------------------

Admission(t) == Start(t) \/ Admit(t) \/ Refuse(t) \/ Register(t)

Report(t) ==
  \/ EmitCommentaryDelta(t) \/ EmitReasoningDelta(t)
  \/ EmitFinalAnswerDelta(t) \/ EmitFinalAnswer(t)
  \/ \E x \in Tool : EmitToolStarted(t, x) \/ EmitToolCompleted(t, x)

RunSettles(t) ==
  RunCompletes(t) \/ RunFails(t) \/ \E i \in Interaction : RunDefers(t, i)

ContinuationSettles(t) ==
  \E i \in Interaction :
    \/ ContinuationContinues(t, i) \/ ContinuationCompletes(t, i) \/ ContinuationFails(t, i)
    \/ \E next \in Interaction : ContinuationDefers(t, i, next)

Question(t) ==
  \E i \in Interaction : RequestInteraction(t, i) \/ ResolveInteraction(t, i)

Stop(t) ==
  CancelTurn(t) \/ CancelTurnAtOnce(t) \/ Timeout(t) \/ TimeoutAtOnce(t) \/ Recover(t)

CleanupAnswers(t) ==
  \/ CancelAcknowledged(t) \/ CancelThrows(t)
  \/ TimeoutVerified(t) \/ TimeoutUnverified(t)
  \/ RecoverVerified(t) \/ RecoverUnverified(t) \/ RecoverReturns(t)

TurnStep(t) ==
  \/ Admission(t)
  \/ SessionIsBound(t) \/ SessionIsNotBound(t)
  \/ OperationStarts(t) \/ OperationEnds(t)
  \/ Report(t) \/ Question(t)
  \/ RunSettles(t) \/ RunLosesOperation(t) \/ ContinuationSettles(t)
  \/ Stop(t) \/ CleanupAnswers(t)

Next == (\E t \in Turns : TurnStep(t)) \/ Shutdown

Spec == Init /\ [][Next]_vars

-----------------------------------------------------------------------------
(***************************************************************************)
(* Properties.                                                             *)
(***************************************************************************)

\* Types of the variables.
TypeOK ==
  /\ turn \in [Turns -> TurnRecord]
  /\ call \in [Turns -> CallState]
  /\ queue \in [Session -> Seq(Turns)]
  /\ active \in [Session -> Turns \cup {NoTurn}]
  /\ run \in [Turns -> {"none", "running", "done"}]
  /\ bound \in [Turns -> {"no", "yes", "failed"}]
  /\ answering \in [Turns -> SUBSET Interaction]
  /\ operation \in [Turns -> {"none", "running", "ended", "killed"}]
  /\ aborted \in [Turns -> BOOLEAN]
  /\ stopping \in [Turns -> SUBSET Stopping]
  /\ closed \in BOOLEAN
  /\ raced \subseteq Session

\* A turn that has not ended holds its session: no second turn can be admitted
\* beside it, whichever of the calls that stop it are under way. The one
\* exception is a session where a recovery removed a later turn's registration.
LiveTurnIsRegistered ==
  \A t \in Turns :
    Live(t) => active[sessionOf[t]] = t \/ sessionOf[t] \in raced

\* What a user sees is what the turn waits for: a turn that asks for attention
\* has a question open, one that runs a tool has that tool open, and a turn
\* that has neither ended nor is being stopped never hides a question.
StatusTellsTheWork ==
  \A t \in Turns :
    /\ turn[t].status = "requiresAttention" => turn[t].pending # NoInteraction
    /\ turn[t].status = "tool_execution" => turn[t].openTools # {}
    /\ turn[t].pending # NoInteraction =>
         /\ turn[t].interaction[turn[t].pending] = "pending"
         /\ turn[t].status \in {"requiresAttention", "cancelling", "unknown"}

\* An accepted intent to stop is not overtaken by the provider: a cancelled turn
\* is never completed or failed by it, nor does a timed-out one complete.
IntentPrevails ==
  \A t \in Turns :
    /\ turn[t].cancellationRequested =>
         turn[t].outcome \in {"none", "cancelled", "interrupted"}
           \cup (IF turn[t].timeoutRequested THEN {"failed"} ELSE {})
    /\ turn[t].timeoutRequested => turn[t].outcome \in {"none", "failed"}

\* The watchdog and a recovery free the session of a provider with processes only
\* once the turn's operation has stopped. Out of account: a shutdown, a turn whose
\* provider session could not be recorded, and a turn whose provider was given an
\* answer, since an answer it refuses ends the turn whatever runs. A server's turn
\* may be timed out before there is a handle, and then start all the same.
FreedIsStopped ==
  \A t \in Turns :
    /\ IsTerminal(turn[t])
    /\ ~OnServer(t)
    /\ turn[t].timeoutRequested \/ turn[t].outcome = "interrupted"
    /\ ~closed
    /\ bound[t] # "failed"
    /\ \A i \in Interaction : turn[t].interaction[i] # "resolved"
    => operation[t] # "running"

\* A turn whose cancellation was accepted is never left alone: until it has ended,
\* a promise that will end it is open, its own, that of an answer, or that of the
\* call that stops it. (A server's turn may be left: the connection is lost, the
\* one who cancels is told so, and a recovery refuses a turn being cancelled.)
CancelledTurnIsAwaited ==
  \A t \in Turns :
    turn[t].cancellationRequested /\ ~IsTerminal(turn[t]) /\ ~OnServer(t) =>
      "cancel" \in stopping[t] \/ run[t] = "running" \/ answering[t] # {}

=============================================================================
