-------------------------------- MODULE Codex --------------------------------
(***************************************************************************)
(* The Codex provider and its client of the app-server: one child process  *)
(* serves the turns of every session that uses the provider. Requests go   *)
(* to it and lines come back, and the client takes one line after another  *)
(* (#processingQueue): the handler of a question holds up the queue until  *)
(* its gate is released, and an error thrown by a handler ends the client  *)
(* for everybody (#tripFailure).                                           *)
(*                                                                         *)
(* A call of startTurn is the turn it starts, a thread is the session of   *)
(* the runtime that owns it, and the turn that the server runs for a call  *)
(* is known by the call. The runtime above (module Turns) appears as the   *)
(* calls it makes and as what it knows to have ended. Items, deltas and    *)
(* usage are left out: of a line that breaks their rules it matters only   *)
(* that its handler throws. So are the bridge files for other processes    *)
(* and the raw capture.                                                    *)
(***************************************************************************)
EXTENDS Naturals, Sequences, FiniteSets

CONSTANTS
  Turns,      \* the calls of startTurn
  Thread,     \* the threads of the app-server
  Task,       \* the tasks (spec and task) the turns work on
  None,       \* null
  threadOf,   \* the thread of a turn
  taskOf,     \* the task of a turn
  MaxUpset    \* bound: things that go wrong in the server

ASSUME CodexAssumption ==
  /\ None \notin Turns \cup Thread
  /\ threadOf \in [Turns -> Thread]
  /\ taskOf \in [Turns -> Task]
  /\ MaxUpset \in Nat

VARIABLES
  pc,            \* where startTurn is
  operations,    \* operationsByThread, by turn
  settled,       \* the turns whose operation is settled
  codexTurnId,   \* the server's turn that an operation knows as its own
  gate,          \* the turn whose question is open and holds up the queue
  cancel,        \* what a call of cancelTurn waits for
  recover,       \* what a call of recoverTurn waits for
  cancelling,    \* the turns for which the runtime has accepted a cancellation
  ended,         \* the turns that have ended for the runtime
  loaded,        \* loadedThreads
  activeThread,  \* activeThreadsBySpecTask
  failed,        \* whether the client has a #failure, which is for good
  disposed,      \* whether the provider was disposed
  stdin,         \* requests and answers that the server has not taken
  stdout,        \* lines that the client has not taken
  server,        \* the server's turns
  upset,         \* things that went wrong in the server so far
  early,         \* history: turns that had ended before they had an operation
  abandoned      \* history: operations given up while the server's turn goes on

clientVars == <<pc, operations, settled, codexTurnId, gate, cancel, recover, loaded,
                activeThread, failed>>
runtimeVars == <<cancelling, ended, early>>
serverVars == <<server, upset>>
vars == <<clientVars, runtimeVars, serverVars, disposed, stdin, stdout, abandoned>>

Init ==
  /\ pc = [t \in Turns |-> "idle"]
  /\ operations = {}
  /\ settled = {}
  /\ codexTurnId = [t \in Turns |-> None]
  /\ gate = None
  /\ cancel = [t \in Turns |-> "none"]
  /\ recover = [t \in Turns |-> "none"]
  /\ cancelling = {}
  /\ ended = {}
  /\ loaded = {}
  /\ activeThread = [k \in Task |-> None]
  /\ failed = FALSE
  /\ disposed = FALSE
  /\ stdin = {}
  /\ stdout = <<>>
  /\ server = [t \in Turns |-> "none"]
  /\ upset = 0
  /\ early = {}
  /\ abandoned = {}

Set(f, t, value) == [f EXCEPT ![t] = value]
Message(what, t) == [what |-> what, turn |-> t]
Send(what, t) == stdin' = stdin \cup {Message(what, t)}
OnThread(th) == {o \in operations : threadOf[o] = th}

\* Something goes wrong outside the provider.
Upset == upset < MaxUpset /\ upset' = upset + 1

\* The server's turn runs: it works, waits for an answer, or is being interrupted.
Running(t) == server[t] \in {"active", "asking", "interrupting"}

-----------------------------------------------------------------------------
(***************************************************************************)
(* The end of an operation and of the client.                              *)
(***************************************************************************)

\* The finally block of startTurn: the operations are forgotten, and their open
\* questions are given up.
Forget(ops) ==
  /\ operations' = operations \ ops
  /\ activeThread' = [k \in Task |->
       IF \E o \in ops : taskOf[o] = k /\ activeThread[k] = threadOf[o]
         THEN None ELSE activeThread[k]]

\* #resolveOperation and #rejectOperation. A call that still waits for the answer
\* to turn/start hears of it with that answer.
Settle(o) ==
  /\ settled' = settled \cup {o}
  /\ IF pc[o] = "running"
       THEN /\ pc' = Set(pc, o, "closing")
            /\ Forget({o})
            /\ gate' = IF gate = o THEN None ELSE gate
       ELSE UNCHANGED <<pc, operations, activeThread, gate>>

\* #tripFailure: everything that waits for the server is refused. An operation
\* is rejected by its failureWatch before a refused turn/interrupt is looked at,
\* so that the calls that stop a turn find it settled.
TripFailure ==
  LET called == {t \in Turns : pc[t] \in {"starting", "running"}}
      asking == {t \in Turns : cancel[t] # "none" \/ recover[t] # "none"}
      loading == {t \in Turns : pc[t] = "loading"}
  IN
  /\ failed' = TRUE
  /\ settled' = settled \cup called
  /\ pc' = [t \in Turns |-> IF t \in called THEN "closing"
                            ELSE IF t \in loading THEN "over" ELSE pc[t]]
  /\ Forget(called)
  /\ gate' = None
  /\ cancel' = [t \in Turns |-> "none"]
  /\ recover' = [t \in Turns |-> "none"]
  /\ ended' = ended \cup asking \cup loading
  /\ stdin' = {}
  /\ stdout' = <<>>
  /\ UNCHANGED <<codexTurnId, loaded>>

-----------------------------------------------------------------------------
(***************************************************************************)
(* startTurn.                                                              *)
(***************************************************************************)

\* #assertNoConflictingSpecTaskThread, and the write of the bridge begins.
CheckTask(t) ==
  LET other == activeThread[taskOf[t]] IN
  IF other \notin {None, threadOf[t]} /\ OnThread(other) # {}
    THEN /\ pc' = Set(pc, t, "over")
         /\ ended' = ended \cup {t}
    ELSE /\ pc' = Set(pc, t, "bridging")
         /\ UNCHANGED ended

\* The runtime starts one turn at a time on a thread.
MayCall(t) ==
  /\ pc[t] = "idle"
  /\ ~disposed
  /\ \A u \in Turns : threadOf[u] = threadOf[t] /\ pc[u] # "idle" => u \in ended

StartTurn(t) ==
  /\ MayCall(t)
  /\ threadOf[t] \in loaded
  /\ CheckTask(t)
  /\ UNCHANGED <<operations, settled, codexTurnId, gate, cancel, recover, loaded, activeThread,
                 failed, cancelling, early, serverVars, disposed, stdin, stdout, abandoned>>

\* A thread is started, or resumed, by the first turn that needs it.
LoadThread(t) ==
  /\ MayCall(t)
  /\ threadOf[t] \notin loaded
  /\ IF failed
       THEN /\ pc' = Set(pc, t, "over")
            /\ ended' = ended \cup {t}
            /\ UNCHANGED stdin
       ELSE /\ pc' = Set(pc, t, "loading")
            /\ Send("thread/start", t)
            /\ UNCHANGED ended
  /\ UNCHANGED <<operations, settled, codexTurnId, gate, cancel, recover, loaded, activeThread,
                 failed, cancelling, early, serverVars, disposed, stdout, abandoned>>

\* The bridge is written, or could not be, which is only logged.
Bridged(t) ==
  \/ /\ activeThread' = Set(activeThread, taskOf[t], threadOf[t])
     /\ UNCHANGED upset
  \/ /\ Upset
     /\ UNCHANGED activeThread

\* The thread has an operation of an earlier turn, which ended for the runtime.
ThreadIsBusy(t) ==
  /\ pc[t] = "bridging"
  /\ OnThread(threadOf[t]) # {}
  /\ Bridged(t)
  /\ pc' = Set(pc, t, "over")
  /\ ended' = ended \cup {t}
  /\ UNCHANGED <<operations, settled, codexTurnId, gate, cancel, recover, loaded, failed,
                 cancelling, early, server, disposed, stdin, stdout, abandoned>>

\* The operation is registered and turn/start is sent.
Register(t) ==
  /\ pc[t] = "bridging"
  /\ ~failed
  /\ OnThread(threadOf[t]) = {}
  /\ Bridged(t)
  /\ pc' = Set(pc, t, "starting")
  /\ operations' = operations \cup {t}
  /\ Send("turn/start", t)
  /\ UNCHANGED <<settled, codexTurnId, gate, cancel, recover, loaded, failed, runtimeVars,
                 server, disposed, stdout, abandoned>>

\* The client has failed: waitForNotification throws outside the try, and the
\* operation stays registered.
RegisterFails(t) ==
  /\ pc[t] = "bridging"
  /\ failed
  /\ OnThread(threadOf[t]) = {}
  /\ Bridged(t)
  /\ pc' = Set(pc, t, "over")
  /\ operations' = operations \cup {t}
  /\ ended' = ended \cup {t}
  /\ UNCHANGED <<settled, codexTurnId, gate, cancel, recover, loaded, failed, cancelling,
                 early, server, disposed, stdin, stdout, abandoned>>

\* The bridge is removed, the capture is flushed, and the runtime hears of the end.
Return(t) ==
  /\ pc[t] = "closing"
  /\ pc' = Set(pc, t, "over")
  /\ ended' = ended \cup {t}
  /\ UNCHANGED <<operations, settled, codexTurnId, gate, cancel, recover, loaded, activeThread,
                 failed, cancelling, early, serverVars, disposed, stdin, stdout, abandoned>>

-----------------------------------------------------------------------------
(***************************************************************************)
(* The other calls of the runtime.                                         *)
(***************************************************************************)

HasHandle(t) == pc[t] \in {"starting", "running", "closing"} /\ t \notin ended

\* respondInteraction. A turn that ended or is being cancelled takes no answer.
RespondInteraction(t) ==
  /\ gate = t
  /\ t \notin ended \cup cancelling
  /\ Send("answer", t)
  /\ gate' = None
  /\ UNCHANGED <<pc, operations, settled, codexTurnId, cancel, recover, loaded, activeThread,
                 failed, runtimeVars, serverVars, disposed, stdout, abandoned>>

\* cancelTurn: an open question is declined, and the server is asked to interrupt
\* its turn, as soon as that is known.
CancelTurn(t) ==
  LET declined == IF gate = t THEN {Message("answer", t)} ELSE {} IN
  /\ HasHandle(t)
  /\ t \notin cancelling
  /\ cancelling' = cancelling \cup {t}
  /\ IF t \in settled
       THEN /\ ended' = ended \cup {t}
            /\ UNCHANGED <<cancel, gate, stdin>>
       ELSE /\ gate' = IF gate = t THEN None ELSE gate
            /\ cancel' = Set(cancel, t, IF codexTurnId[t] = None THEN "ready" ELSE "interrupt")
            /\ stdin' = stdin \cup declined \cup
                 IF codexTurnId[t] = None THEN {} ELSE {Message("cancel", t)}
            /\ UNCHANGED ended
  /\ UNCHANGED <<pc, operations, settled, codexTurnId, recover, loaded, activeThread, failed,
                 early, serverVars, disposed, stdout, abandoned>>

\* A cancellation or the watchdog, while there is no handle: the turn ends for the
\* runtime, and startTurn is told nothing.
EndEarly(t) ==
  /\ pc[t] \in {"loading", "bridging"}
  /\ t \notin ended
  /\ ended' = ended \cup {t}
  /\ early' = early \cup {t}
  /\ UNCHANGED <<clientVars, cancelling, serverVars, disposed, stdin, stdout, abandoned>>

\* recoverTurn, for the watchdog and for a turn whose operation was lost.
RecoverTurn(t) ==
  /\ HasHandle(t)
  /\ recover[t] = "none"
  /\ t \notin cancelling
  /\ gate # t
  /\ IF t \in settled
       THEN /\ ended' = ended \cup {t}
            /\ UNCHANGED <<recover, stdin>>
       ELSE /\ recover' = Set(recover, t, "interrupt")
            /\ Send("recover", t)
            /\ UNCHANGED ended
  /\ UNCHANGED <<pc, operations, settled, codexTurnId, gate, cancel, loaded, activeThread,
                 failed, cancelling, early, serverVars, disposed, stdout, abandoned>>

\* The operation settles while recoverTurn waits for it.
RecoverVerified(t) ==
  /\ recover[t] = "verify"
  /\ t \in settled
  /\ recover' = Set(recover, t, "none")
  /\ ended' = ended \cup {t}
  /\ UNCHANGED <<pc, operations, settled, codexTurnId, gate, cancel, loaded, activeThread,
                 failed, cancelling, early, serverVars, disposed, stdin, stdout, abandoned>>

RecoverUnverified(t) ==
  /\ recover[t] = "verify"
  /\ t \notin settled
  /\ recover' = Set(recover, t, "none")
  /\ UNCHANGED <<pc, operations, settled, codexTurnId, gate, cancel, loaded, activeThread,
                 failed, runtimeVars, serverVars, disposed, stdin, stdout, abandoned>>

Dispose ==
  /\ ~disposed
  /\ disposed' = TRUE
  /\ IF failed THEN UNCHANGED <<clientVars, ended, stdin, stdout>> ELSE TripFailure
  /\ UNCHANGED <<cancelling, early, serverVars, abandoned>>

-----------------------------------------------------------------------------
(***************************************************************************)
(* The lines of the server, one after another.                             *)
(***************************************************************************)

\* The next line, which waits while a question is open.
Takes(what, t) ==
  /\ gate = None
  /\ stdout # <<>>
  /\ Head(stdout) = Message(what, t)

\* #operationFor: the operation of the line's thread, or else one that knows the
\* line's turn as its own, or else the only one.
Addressed(t) ==
  LET knowing == {o \in operations : codexTurnId[o] = t} IN
  IF OnThread(threadOf[t]) # {} THEN OnThread(threadOf[t])
  ELSE IF knowing # {} THEN knowing
  ELSE IF Cardinality(operations) = 1 THEN operations ELSE {}

\* The same for a line that names its turn, which the operation must not contradict.
AddressedByTurn(t) == {o \in Addressed(t) : codexTurnId[o] \in {None, t}}

Ignore == UNCHANGED <<clientVars, ended, stdin>> /\ stdout' = Tail(stdout)

ThreadLoaded(t) ==
  /\ Takes("thread", t)
  /\ stdout' = Tail(stdout)
  /\ loaded' = loaded \cup {threadOf[t]}
  /\ CheckTask(t)
  /\ UNCHANGED <<operations, settled, codexTurnId, gate, cancel, recover, activeThread, failed,
                 cancelling, early, serverVars, disposed, stdin, abandoned>>

ThreadRefused(t) ==
  /\ Takes("threadError", t)
  /\ stdout' = Tail(stdout)
  /\ pc' = Set(pc, t, "over")
  /\ ended' = ended \cup {t}
  /\ UNCHANGED <<operations, settled, codexTurnId, gate, cancel, recover, loaded, activeThread,
                 failed, cancelling, early, serverVars, disposed, stdin, abandoned>>

\* Mutant: a cancellation that waits for the server's turn is not told of it.
TurnStartAnsweredOnly(t) ==
  /\ Takes("turn", t)
  /\ t \notin settled
  /\ stdout' = Tail(stdout)
  /\ codexTurnId' = Set(codexTurnId, t, t)
  /\ pc' = Set(pc, t, "running")
  /\ UNCHANGED <<operations, activeThread, cancel, stdin, settled, gate, recover, loaded, failed,
                 runtimeVars, serverVars, disposed, abandoned>>

\* The answer to turn/start. A cancellation that waits for it goes on. If the
\* operation was told of another turn, it is rejected, whatever the server does.
TurnStartAnswered(t) ==
  LET own == codexTurnId[t] \in {None, t} IN
  /\ Takes("turn", t)
  /\ stdout' = Tail(stdout)
  /\ codexTurnId' = IF own THEN Set(codexTurnId, t, t) ELSE codexTurnId
  /\ settled' = IF own THEN settled ELSE settled \cup {t}
  /\ abandoned' = IF own THEN abandoned ELSE abandoned \cup {t}
  /\ IF own /\ t \notin settled
       THEN /\ pc' = Set(pc, t, "running")
            /\ UNCHANGED <<operations, activeThread>>
       ELSE /\ pc' = Set(pc, t, "closing")
            /\ Forget({t})
  /\ cancel' = IF cancel[t] = "ready"
                 THEN Set(cancel, t, IF own THEN "interrupt" ELSE "none") ELSE cancel
  /\ IF cancel[t] = "ready" /\ own THEN Send("cancel", t) ELSE UNCHANGED stdin
  /\ ended' = IF cancel[t] = "ready" /\ ~own THEN ended \cup {t} ELSE ended
  /\ UNCHANGED <<gate, recover, loaded, failed, cancelling, early, serverVars, disposed>>

TurnStartRefused(t) ==
  /\ Takes("turnError", t)
  /\ stdout' = Tail(stdout)
  /\ settled' = settled \cup {t}
  /\ pc' = Set(pc, t, "closing")
  /\ Forget({t})
  /\ IF cancel[t] = "ready"
       THEN /\ cancel' = Set(cancel, t, "none")
            /\ ended' = ended \cup {t}
       ELSE UNCHANGED <<cancel, ended>>
  /\ UNCHANGED <<codexTurnId, gate, recover, loaded, failed, cancelling, early, serverVars,
                 disposed, stdin, abandoned>>

TurnStarted(t) ==
  /\ Takes("turn/started", t)
  /\ IF \E o \in Addressed(t) : codexTurnId[o] \notin {None, t}
       THEN TripFailure
       ELSE /\ codexTurnId' = [o \in Turns |-> IF o \in Addressed(t) THEN t ELSE codexTurnId[o]]
            /\ stdout' = Tail(stdout)
            /\ UNCHANGED <<pc, operations, settled, gate, cancel, recover, loaded, activeThread,
                           failed, ended, stdin>>
  /\ UNCHANGED <<cancelling, early, serverVars, disposed, abandoned>>

\* Mutant: a completion that is not the operation's ends it all the same.
TurnCompletedOfAny(t) ==
  /\ Takes("turn/completed", t)
  /\ IF Addressed(t) = {} THEN Ignore
     ELSE /\ \E o \in Addressed(t) : Settle(o)
          /\ stdout' = Tail(stdout)
          /\ UNCHANGED <<codexTurnId, cancel, recover, loaded, failed, ended, stdin>>
  /\ UNCHANGED <<cancelling, early, serverVars, disposed, abandoned>>

\* The operation is settled by the completion of its own turn only.
TurnCompleted(t) ==
  /\ Takes("turn/completed", t)
  /\ IF Addressed(t) = {} THEN Ignore
     ELSE IF \E o \in Addressed(t) : codexTurnId[o] # t THEN TripFailure
     ELSE /\ \E o \in Addressed(t) : Settle(o)
          /\ stdout' = Tail(stdout)
          /\ UNCHANGED <<codexTurnId, cancel, recover, loaded, failed, ended, stdin>>
  /\ UNCHANGED <<cancelling, early, serverVars, disposed, abandoned>>

\* A question: its handler opens the gate, unless there is no operation for it,
\* or the runtime refuses it, as the turn has ended.
Question(t) ==
  /\ Takes("question", t)
  /\ IF AddressedByTurn(t) = {}
       THEN /\ Send("answer", t)
            /\ stdout' = Tail(stdout)
            /\ UNCHANGED <<clientVars, ended>>
     ELSE IF AddressedByTurn(t) \subseteq ended THEN TripFailure
     ELSE /\ gate' \in AddressedByTurn(t)
          /\ stdout' = Tail(stdout)
          /\ UNCHANGED <<pc, operations, settled, codexTurnId, cancel, recover, loaded,
                         activeThread, failed, ended, stdin>>
  /\ UNCHANGED <<cancelling, early, serverVars, disposed, abandoned>>

\* A request that the provider does not support: it is refused, and so is the
\* operation, which the server does not hear of.
Unsupported(t) ==
  /\ Takes("unsupported", t)
  /\ Send("answer", t)
  /\ stdout' = Tail(stdout)
  /\ IF AddressedByTurn(t) = {}
       THEN UNCHANGED <<clientVars, abandoned>>
       ELSE /\ \E o \in AddressedByTurn(t) : Settle(o) /\ abandoned' = abandoned \cup {o}
            /\ UNCHANGED <<codexTurnId, cancel, recover, loaded, failed>>
  /\ UNCHANGED <<runtimeVars, serverVars, disposed>>

\* Mutant: the answer to turn/interrupt counts as the end of the turn.
CancelSettles(t, answer) ==
  /\ Takes(answer, t)
  /\ answer \in {"cancelAnswer", "cancelError"}
  /\ Settle(t)
  /\ stdout' = Tail(stdout)
  /\ cancel' = Set(cancel, t, "none")
  /\ ended' = ended \cup {t}
  /\ UNCHANGED <<codexTurnId, recover, loaded, failed, cancelling, early, serverVars,
                 disposed, stdin, abandoned>>

\* turn/interrupt is answered: cancelTurn resolves, and the turn ends for the
\* runtime. It throws if the server refused, unless the operation is settled.
CancelAnswered(t, answer) ==
  /\ Takes(answer, t)
  /\ answer \in {"cancelAnswer", "cancelError"}
  /\ stdout' = Tail(stdout)
  /\ cancel' = Set(cancel, t, "none")
  /\ ended' = IF answer = "cancelAnswer" \/ t \in settled THEN ended \cup {t} ELSE ended
  /\ UNCHANGED <<pc, operations, settled, codexTurnId, gate, recover, loaded, activeThread,
                 failed, cancelling, early, serverVars, disposed, stdin, abandoned>>

\* Mutant: a recovery takes the answer for the proof.
RecoverOnAnswer(t) ==
  /\ Takes("recoverAnswer", t)
  /\ stdout' = Tail(stdout)
  /\ recover' = Set(recover, t, "none")
  /\ ended' = ended \cup {t}
  /\ UNCHANGED <<pc, operations, settled, codexTurnId, gate, cancel, loaded, activeThread,
                 failed, cancelling, early, serverVars, disposed, stdin, abandoned>>

\* The answer proves nothing, whatever it says: recoverTurn waits for the end.
RecoverAnswered(t) ==
  /\ Takes("recoverAnswer", t)
  /\ stdout' = Tail(stdout)
  /\ recover' = Set(recover, t, "verify")
  /\ UNCHANGED <<pc, operations, settled, codexTurnId, gate, cancel, loaded, activeThread,
                 failed, runtimeVars, serverVars, disposed, stdin, abandoned>>

-----------------------------------------------------------------------------
(***************************************************************************)
(* External: the app-server, while its client listens. It takes requests   *)
(* in any order and runs a turn until it completes or is interrupted.      *)
(***************************************************************************)

Hears(what, t) ==
  /\ Message(what, t) \in stdin
  /\ stdin' = stdin \ {Message(what, t)}
Says(lines) == ~failed /\ stdout' = stdout \o lines

ServerLoads(t) ==
  /\ Hears("thread/start", t)
  /\ \/ Says(<<Message("thread", t)>>) /\ UNCHANGED upset
     \/ Says(<<Message("threadError", t)>>) /\ Upset
  /\ UNCHANGED <<clientVars, runtimeVars, server, disposed, abandoned>>

\* The answer and the notification come in either order.
ServerStarts(t) ==
  LET answer == Message("turn", t)
      notice == Message("turn/started", t)
  IN
  /\ Hears("turn/start", t)
  /\ \/ /\ Says(<<answer, notice>>) \/ Says(<<notice, answer>>)
        /\ server' = Set(server, t, "active")
        /\ UNCHANGED upset
     \/ /\ Says(<<Message("turnError", t)>>)
        /\ Upset
        /\ UNCHANGED server
  /\ UNCHANGED <<clientVars, runtimeVars, disposed, abandoned>>

ServerAsks(t) ==
  /\ server[t] = "active"
  /\ server' = Set(server, t, "asking")
  /\ \/ Says(<<Message("question", t)>>) /\ UNCHANGED upset
     \/ Says(<<Message("unsupported", t)>>) /\ Upset
  /\ UNCHANGED <<clientVars, runtimeVars, disposed, stdin, abandoned>>

ServerHears(t) ==
  /\ ~failed
  /\ Hears("answer", t)
  /\ server' = IF server[t] = "asking" THEN Set(server, t, "active") ELSE server
  /\ UNCHANGED <<clientVars, runtimeVars, upset, disposed, stdout, abandoned>>

ServerCompletes(t) ==
  /\ server[t] \in {"active", "interrupting"}
  /\ server' = Set(server, t, "over")
  /\ Says(<<Message("turn/completed", t)>>)
  /\ UNCHANGED <<clientVars, runtimeVars, upset, disposed, stdin, abandoned>>

\* turn/interrupt is acknowledged first; the turn completes later.
ServerInterrupts(t) ==
  /\ server' = IF Running(t) THEN Set(server, t, "interrupting") ELSE server
  /\ \/ Hears("cancel", t) /\ Says(<<Message(IF Running(t) THEN "cancelAnswer" ELSE "cancelError", t)>>)
     \/ Hears("recover", t) /\ Says(<<Message("recoverAnswer", t)>>)
  /\ UNCHANGED <<clientVars, runtimeVars, upset, disposed, abandoned>>

\* The process exits or cannot be written to, or a line is malformed, or breaks a
\* rule that is left out here, so that its handler throws.
ServerFails ==
  /\ ~failed
  /\ \E t \in Turns : pc[t] \notin {"idle", "over"}
  /\ Upset
  /\ TripFailure
  /\ UNCHANGED <<cancelling, early, server, disposed, abandoned>>

-----------------------------------------------------------------------------

RuntimeStep(t) ==
  \/ StartTurn(t) \/ LoadThread(t)
  \/ RespondInteraction(t) \/ CancelTurn(t) \/ EndEarly(t)
  \/ RecoverTurn(t)

CallStep(t) ==
  \/ ThreadIsBusy(t) \/ Register(t) \/ RegisterFails(t) \/ Return(t)
  \/ RecoverVerified(t) \/ RecoverUnverified(t)

LineStep(t) ==
  \/ ThreadLoaded(t) \/ ThreadRefused(t)
  \/ TurnStartAnswered(t) \/ TurnStartRefused(t)
  \/ TurnStarted(t) \/ TurnCompleted(t)
  \/ Question(t) \/ Unsupported(t)
  \/ CancelAnswered(t, "cancelAnswer") \/ CancelAnswered(t, "cancelError")
  \/ RecoverAnswered(t)

ServerStep(t) ==
  \/ ServerLoads(t) \/ ServerStarts(t) \/ ServerAsks(t) \/ ServerHears(t)
  \/ ServerCompletes(t) \/ ServerInterrupts(t)

Next ==
  \/ \E t \in Turns : RuntimeStep(t) \/ CallStep(t) \/ LineStep(t) \/ ServerStep(t)
  \/ Dispose
  \/ ServerFails

Spec == Init /\ [][Next]_vars

-----------------------------------------------------------------------------
(***************************************************************************)
(* Properties.                                                             *)
(***************************************************************************)

Requests == {"thread/start", "turn/start", "cancel", "recover", "answer"}
Lines == {"thread", "threadError", "turn", "turnError", "turn/started", "turn/completed",
          "question", "unsupported", "cancelAnswer", "cancelError", "recoverAnswer"}

\* Types of the variables.
TypeOK ==
  /\ pc \in [Turns -> {"idle", "loading", "bridging", "starting", "running", "closing", "over"}]
  /\ operations \subseteq Turns /\ settled \subseteq Turns
  /\ codexTurnId \in [Turns -> Turns \cup {None}]
  /\ gate \in Turns \cup {None}
  /\ cancel \in [Turns -> {"none", "ready", "interrupt"}]
  /\ recover \in [Turns -> {"none", "interrupt", "verify"}]
  /\ cancelling \subseteq Turns /\ ended \subseteq Turns
  /\ loaded \subseteq Thread
  /\ activeThread \in [Task -> Thread \cup {None}]
  /\ failed \in BOOLEAN /\ disposed \in BOOLEAN
  /\ stdin \subseteq [what : Requests, turn : Turns]
  /\ stdout \in Seq([what : Lines, turn : Turns])
  /\ server \in [Turns -> {"none", "active", "asking", "interrupting", "over"}]
  /\ upset \in 0 .. MaxUpset
  /\ early \subseteq Turns /\ abandoned \subseteq Turns

\* A thread is given back, and a turn ends for the runtime, only on proof that the
\* server's turn is over. Out of account: a cancellation, for the runtime, which takes
\* the server's word for it, a turn that had ended before it had an operation, and
\* what follows once an operation was given up over a request that is not supported:
\* the server's turn goes on, and its lines are handed to the next operation of the
\* thread or, when there is but one operation, to that one.
FreedOnProof ==
  ~failed /\ abandoned = {} =>
    \A t \in Turns :
      Running(t) =>
        /\ t \in operations
        /\ t \in ended => t \in cancelling \cup early

\* Whoever waits, waits for something on its way: for the server, for the client's
\* queue, or, when a question holds up the queue, for the turn that asked it, which
\* has its operation still and has not ended for the runtime. Out of account are the
\* same lines gone astray, and the answer: nobody may give it once the turn is being
\* cancelled, and a question asked after the cancellation holds up all threads until
\* the server fails.
NobodyWaitsInVain ==
  LET Comes(request, lines, t) ==
        \/ Message(request, t) \in stdin
        \/ \E n \in DOMAIN stdout : stdout[n].turn = t /\ stdout[n].what \in lines
  IN
  ~failed /\ abandoned = {} =>
    /\ gate # None => gate \in operations \ ended
    /\ \A t \in Turns :
         /\ pc[t] = "loading" => Comes("thread/start", {"thread", "threadError"}, t)
         /\ pc[t] = "starting" => Comes("turn/start", {"turn", "turnError"}, t)
         /\ pc[t] = "running" => Running(t) \/ Comes("none", {"turn/completed"}, t)
         /\ cancel[t] = "ready" => pc[t] = "starting"
         /\ cancel[t] = "interrupt" => Comes("cancel", {"cancelAnswer", "cancelError"}, t)
         /\ recover[t] = "interrupt" => Comes("recover", {"recoverAnswer"}, t)

\* No order of what callers do and of what the server says in reply breaks the
\* client for everybody: it fails when something went wrong in the server, when it
\* is disposed, or when a turn had ended before it had an operation, since the
\* runtime then throws at its questions.
ClientSurvives == failed => upset > 0 \/ disposed \/ early # {}

=============================================================================
