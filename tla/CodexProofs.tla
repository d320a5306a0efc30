----------------------------- MODULE CodexProofs -----------------------------
(***************************************************************************)
(* Proofs about Codex, for any number of calls, threads and tasks, and     *)
(* whatever goes wrong in the server.                                      *)
(***************************************************************************)
EXTENDS Codex, SequenceTheorems, TLAPS

USE CodexAssumption

Line == [what : Lines, turn : Turns]

\* The parts of the types.
Places ==
  /\ pc \in [Turns -> {"idle", "loading", "bridging", "starting", "running", "closing", "over"}]
  /\ cancel \in [Turns -> {"none", "ready", "interrupt"}]
  /\ recover \in [Turns -> {"none", "interrupt", "verify"}]
  /\ server \in [Turns -> {"none", "active", "asking", "interrupting", "over"}]

Names ==
  /\ codexTurnId \in [Turns -> Turns \cup {None}]
  /\ gate \in Turns \cup {None}
  /\ activeThread \in [Task -> Thread \cup {None}]
  /\ operations \subseteq Turns /\ settled \subseteq Turns
  /\ cancelling \subseteq Turns /\ ended \subseteq Turns
  /\ loaded \subseteq Thread
  /\ early \subseteq Turns /\ abandoned \subseteq Turns

Pipes == stdin \subseteq [what : Requests, turn : Turns] /\ stdout \in Seq(Line)

Marks == failed \in BOOLEAN /\ disposed \in BOOLEAN /\ upset \in 0 .. MaxUpset

LEMMA TypesSplit == TypeOK <=> Places /\ Names /\ Pipes /\ Marks
BY DEF TypeOK, Places, Names, Pipes, Marks, Line

LEMMA CodexInit == Init => TypeOK
<1> SUFFICES ASSUME Init PROVE TypeOK
  OBVIOUS
<1>1. Places
  BY DEF Init, Places
<1>2. Names
  BY DEF Init, Names
<1>3. Pipes
  BY DEF Init, Pipes
<1>4. Marks
  <2>1. failed \in BOOLEAN /\ disposed \in BOOLEAN
    BY DEF Init
  <2>2. upset \in 0 .. MaxUpset
    BY DEF Init
  <2> QED
    BY <2>1, <2>2 DEF Marks
<1> QED
  BY <1>1, <1>2, <1>3, <1>4, TypesSplit

\* Whatever is sent is a request, and whatever is taken away leaves lines.
LEMMA Messages ==
  ASSUME NEW t \in Turns
  PROVE  /\ \A what \in Requests : Message(what, t) \in [what : Requests, turn : Turns]
         /\ \A what \in Lines : Message(what, t) \in Line
BY DEF Message, Line

LEMMA Queue ==
  ASSUME NEW q \in Seq(Line), NEW l \in Line, NEW n \in Line
  PROVE  /\ q # <<>> => Tail(q) \in Seq(Line)
         /\ q \o <<l>> \in Seq(Line)
         /\ q \o <<l, n>> \in Seq(Line)
OBVIOUS

LEMMA AddressedAreOperations ==
  ASSUME NEW t \in Turns
  PROVE  Addressed(t) \subseteq operations /\ AddressedByTurn(t) \subseteq operations
BY DEF Addressed, AddressedByTurn, OnThread

\* The end of an operation, and of all.
LEMMA SettleTyped ==
  ASSUME TypeOK, NEW o \in Turns, Settle(o)
  PROVE  /\ pc' \in [Turns -> {"idle", "loading", "bridging", "starting", "running", "closing",
                                 "over"}]
         /\ operations' \subseteq Turns /\ settled' \subseteq Turns
         /\ activeThread' \in [Task -> Thread \cup {None}]
         /\ gate' \in Turns \cup {None}
BY TypesSplit DEF Settle, Forget, Set, Places, Names

LEMMA TripFailureTyped ==
  ASSUME TypeOK, TripFailure
  PROVE  /\ pc' \in [Turns -> {"idle", "loading", "bridging", "starting", "running", "closing",
                                 "over"}]
         /\ cancel' \in [Turns -> {"none", "ready", "interrupt"}]
         /\ recover' \in [Turns -> {"none", "interrupt", "verify"}]
         /\ operations' \subseteq Turns /\ settled' \subseteq Turns /\ ended' \subseteq Turns
         /\ activeThread' \in [Task -> Thread \cup {None}]
         /\ gate' \in Turns \cup {None}
         /\ codexTurnId' = codexTurnId /\ loaded' = loaded
         /\ stdin' = {} /\ stdout' = <<>>
         /\ failed' = TRUE
BY TypesSplit DEF TripFailure, Forget, Places, Names

LEMMA EmptyPipes == stdin' = {} /\ stdout' = <<>> => Pipes'
BY DEF Pipes

LEMMA TurnStepTyped ==
  ASSUME TypeOK, NEW t \in Turns, RuntimeStep(t) \/ CallStep(t) \/ LineStep(t) \/ ServerStep(t)
  PROVE  Places' /\ Names' /\ Pipes' /\ Marks'
<1> USE TypesSplit, Messages, Queue DEF Set, Send, Takes, clientVars, runtimeVars, serverVars
<1>1. CASE StartTurn(t)
  <2>1. Places'
    BY <1>1 DEF StartTurn, CheckTask, MayCall, Places
  <2>2. Names'
    BY <1>1 DEF StartTurn, CheckTask, MayCall, Names
  <2>3. Pipes'
    BY <1>1 DEF StartTurn, CheckTask, MayCall, Pipes, Requests, Lines
  <2>4. Marks'
    BY <1>1 DEF StartTurn, CheckTask, MayCall, Marks
  <2> QED
    BY <2>1, <2>2, <2>3, <2>4
<1>2. CASE LoadThread(t)
  <2>1. Places'
    BY <1>2 DEF LoadThread, MayCall, Places
  <2>2. Names'
    BY <1>2 DEF LoadThread, MayCall, Names
  <2>3. Pipes'
    BY <1>2 DEF LoadThread, MayCall, Pipes, Requests, Lines
  <2>4. Marks'
    BY <1>2 DEF LoadThread, MayCall, Marks
  <2> QED
    BY <2>1, <2>2, <2>3, <2>4
<1>3. CASE ThreadIsBusy(t)
  <2>1. Places'
    BY <1>3 DEF ThreadIsBusy, Bridged, Upset, Places
  <2>2. Names'
    BY <1>3 DEF ThreadIsBusy, Bridged, Upset, Names
  <2>3. Pipes'
    BY <1>3 DEF ThreadIsBusy, Bridged, Upset, Pipes, Requests, Lines
  <2>4. Marks'
    BY <1>3 DEF ThreadIsBusy, Bridged, Upset, Marks
  <2> QED
    BY <2>1, <2>2, <2>3, <2>4
<1>4. CASE Register(t)
  <2>1. Places'
    BY <1>4 DEF Register, Bridged, Upset, Places
  <2>2. Names'
    BY <1>4 DEF Register, Bridged, Upset, Names
  <2>3. Pipes'
    BY <1>4 DEF Register, Bridged, Upset, Pipes, Requests, Lines
  <2>4. Marks'
    BY <1>4 DEF Register, Bridged, Upset, Marks
  <2> QED
    BY <2>1, <2>2, <2>3, <2>4
<1>5. CASE RegisterFails(t)
  <2>1. Places'
    BY <1>5 DEF RegisterFails, Bridged, Upset, Places
  <2>2. Names'
    BY <1>5 DEF RegisterFails, Bridged, Upset, Names
  <2>3. Pipes'
    BY <1>5 DEF RegisterFails, Bridged, Upset, Pipes, Requests, Lines
  <2>4. Marks'
    BY <1>5 DEF RegisterFails, Bridged, Upset, Marks
  <2> QED
    BY <2>1, <2>2, <2>3, <2>4
<1>6. CASE Return(t)
  <2>1. Places'
    BY <1>6 DEF Return, Places
  <2>2. Names'
    BY <1>6 DEF Return, Names
  <2>3. Pipes'
    BY <1>6 DEF Return, Pipes, Requests, Lines
  <2>4. Marks'
    BY <1>6 DEF Return, Marks
  <2> QED
    BY <2>1, <2>2, <2>3, <2>4
<1>7. CASE RespondInteraction(t)
  <2>1. Places'
    BY <1>7 DEF RespondInteraction, Places
  <2>2. Names'
    BY <1>7 DEF RespondInteraction, Names
  <2>3. Pipes'
    BY <1>7 DEF RespondInteraction, Pipes, Requests, Lines
  <2>4. Marks'
    BY <1>7 DEF RespondInteraction, Marks
  <2> QED
    BY <2>1, <2>2, <2>3, <2>4
<1>8. CASE CancelTurn(t)
  <2>1. Places'
    BY <1>8 DEF CancelTurn, Places
  <2>2. Names'
    BY <1>8 DEF CancelTurn, Names
  <2>3. Pipes'
    BY <1>8 DEF CancelTurn, Pipes, Requests, Lines
  <2>4. Marks'
    BY <1>8 DEF CancelTurn, Marks
  <2> QED
    BY <2>1, <2>2, <2>3, <2>4
<1>9. CASE EndEarly(t)
  <2>1. Places'
    BY <1>9 DEF EndEarly, Places
  <2>2. Names'
    BY <1>9 DEF EndEarly, Names
  <2>3. Pipes'
    BY <1>9 DEF EndEarly, Pipes, Requests, Lines
  <2>4. Marks'
    BY <1>9 DEF EndEarly, Marks
  <2> QED
    BY <2>1, <2>2, <2>3, <2>4
<1>10. CASE RecoverTurn(t)
  <2>1. Places'
    BY <1>10 DEF RecoverTurn, Places
  <2>2. Names'
    BY <1>10 DEF RecoverTurn, Names
  <2>3. Pipes'
    BY <1>10 DEF RecoverTurn, Pipes, Requests, Lines
  <2>4. Marks'
    BY <1>10 DEF RecoverTurn, Marks
  <2> QED
    BY <2>1, <2>2, <2>3, <2>4
<1>11. CASE RecoverVerified(t)
  <2>1. Places'
    BY <1>11 DEF RecoverVerified, Places
  <2>2. Names'
    BY <1>11 DEF RecoverVerified, Names
  <2>3. Pipes'
    BY <1>11 DEF RecoverVerified, Pipes, Requests, Lines
  <2>4. Marks'
    BY <1>11 DEF RecoverVerified, Marks
  <2> QED
    BY <2>1, <2>2, <2>3, <2>4
<1>12. CASE RecoverUnverified(t)
  <2>1. Places'
    BY <1>12 DEF RecoverUnverified, Places
  <2>2. Names'
    BY <1>12 DEF RecoverUnverified, Names
  <2>3. Pipes'
    BY <1>12 DEF RecoverUnverified, Pipes, Requests, Lines
  <2>4. Marks'
    BY <1>12 DEF RecoverUnverified, Marks
  <2> QED
    BY <2>1, <2>2, <2>3, <2>4
<1>13. CASE ThreadLoaded(t)
  <2>1. Places'
    BY <1>13 DEF ThreadLoaded, CheckTask, Places
  <2>2. Names'
    BY <1>13 DEF ThreadLoaded, CheckTask, Names
  <2>3. Pipes'
    BY <1>13 DEF ThreadLoaded, CheckTask, Pipes, Requests, Lines
  <2>4. Marks'
    BY <1>13 DEF ThreadLoaded, CheckTask, Marks
  <2> QED
    BY <2>1, <2>2, <2>3, <2>4
<1>14. CASE ThreadRefused(t)
  <2>1. Places'
    BY <1>14 DEF ThreadRefused, Places
  <2>2. Names'
    BY <1>14 DEF ThreadRefused, Names
  <2>3. Pipes'
    BY <1>14 DEF ThreadRefused, Pipes, Requests, Lines
  <2>4. Marks'
    BY <1>14 DEF ThreadRefused, Marks
  <2> QED
    BY <2>1, <2>2, <2>3, <2>4
<1>15. CASE TurnStartAnswered(t)
  <2>1. Places'
    BY <1>15 DEF TurnStartAnswered, Forget, Places
  <2>2. Names'
    BY <1>15 DEF TurnStartAnswered, Forget, Names
  <2>3. Pipes'
    BY <1>15 DEF TurnStartAnswered, Forget, Pipes, Requests, Lines
  <2>4. Marks'
    BY <1>15 DEF TurnStartAnswered, Forget, Marks
  <2> QED
    BY <2>1, <2>2, <2>3, <2>4
<1>16. CASE TurnStartRefused(t)
  <2>1. Places'
    BY <1>16 DEF TurnStartRefused, Forget, Places
  <2>2. Names'
    BY <1>16 DEF TurnStartRefused, Forget, Names
  <2>3. Pipes'
    BY <1>16 DEF TurnStartRefused, Forget, Pipes, Requests, Lines
  <2>4. Marks'
    BY <1>16 DEF TurnStartRefused, Forget, Marks
  <2> QED
    BY <2>1, <2>2, <2>3, <2>4
<1>17. CASE TurnStarted(t)
  <2>1. Places'
    BY <1>17 DEF TurnStarted, TripFailure, Forget, Places
  <2>2. Names'
    BY <1>17 DEF TurnStarted, TripFailure, Forget, Names
  <2>3. Pipes'
    <3>1. CASE TripFailure
      BY <3>1, TripFailureTyped, EmptyPipes
    <3>2. CASE ~TripFailure
      <4>1. stdout # <<>> /\ stdout' = Tail(stdout) /\ stdin' = stdin
        BY <1>17, <3>2 DEF TurnStarted
      <4> QED
        BY <4>1 DEF Pipes
    <3> QED
      BY <3>1, <3>2
  <2>4. Marks'
    BY <1>17 DEF TurnStarted, TripFailure, Forget, Marks
  <2> QED
    BY <2>1, <2>2, <2>3, <2>4
<1>18. CASE TurnCompleted(t)
  <2>1. Places'
    BY <1>18 DEF TurnCompleted, Ignore, Settle, TripFailure, Forget, Places
  <2>2. Names'
    BY <1>18, SettleTyped, TripFailureTyped, AddressedAreOperations DEF TurnCompleted, Ignore, Names
  <2>3. Pipes'
    <3>1. CASE TripFailure
      BY <3>1, TripFailureTyped, EmptyPipes
    <3>2. CASE ~TripFailure
      <4>1. stdout # <<>> /\ stdout' = Tail(stdout) /\ stdin' = stdin
        BY <1>18, <3>2 DEF TurnCompleted, Ignore
      <4> QED
        BY <4>1 DEF Pipes
    <3> QED
      BY <3>1, <3>2
  <2>4. Marks'
    BY <1>18 DEF TurnCompleted, Ignore, Settle, TripFailure, Forget, Marks
  <2> QED
    BY <2>1, <2>2, <2>3, <2>4
<1>19. CASE Question(t)
  <2>1. Places'
    BY <1>19 DEF Question, TripFailure, Forget, Places
  <2>2. Names'
    <3>1. CASE TripFailure
      BY <1>19, <3>1, TripFailureTyped DEF Question, Names
    <3>2. CASE ~TripFailure
      BY <1>19, <3>2, AddressedAreOperations DEF Question, Names
    <3> QED
      BY <3>1, <3>2
  <2>3. Pipes'
    <3>1. CASE TripFailure
      BY <3>1, TripFailureTyped, EmptyPipes
    <3>2. CASE ~TripFailure
      <4>1. stdout # <<>> /\ stdout' = Tail(stdout)
        BY <1>19, <3>2 DEF Question
      <4>2. stdin' = stdin \/ stdin' = stdin \cup {Message("answer", t)}
        BY <1>19, <3>2 DEF Question
      <4>3. Message("answer", t) \in [what : Requests, turn : Turns]
        BY DEF Requests
      <4> QED
        BY <4>1, <4>2, <4>3 DEF Pipes
    <3> QED
      BY <3>1, <3>2
  <2>4. Marks'
    BY <1>19 DEF Question, TripFailure, Forget, Marks
  <2> QED
    BY <2>1, <2>2, <2>3, <2>4
<1>20. CASE Unsupported(t)
  <2>1. Places'
    BY <1>20 DEF Unsupported, Settle, Forget, Places
  <2>2. Names'
    BY <1>20, SettleTyped, AddressedAreOperations DEF Unsupported, Names
  <2>3. Pipes'
    BY <1>20 DEF Unsupported, Settle, Forget, Pipes, Requests, Lines
  <2>4. Marks'
    BY <1>20 DEF Unsupported, Settle, Forget, Marks
  <2> QED
    BY <2>1, <2>2, <2>3, <2>4
<1>21. CASE RecoverAnswered(t)
  <2>1. Places'
    BY <1>21 DEF RecoverAnswered, Places
  <2>2. Names'
    BY <1>21 DEF RecoverAnswered, Names
  <2>3. Pipes'
    BY <1>21 DEF RecoverAnswered, Pipes, Requests, Lines
  <2>4. Marks'
    BY <1>21 DEF RecoverAnswered, Marks
  <2> QED
    BY <2>1, <2>2, <2>3, <2>4
<1>22. CASE ServerLoads(t)
  <2>1. Places'
    BY <1>22 DEF ServerLoads, Hears, Says, Upset, Places
  <2>2. Names'
    BY <1>22 DEF ServerLoads, Hears, Says, Upset, Names
  <2>3. Pipes'
    <3>1. stdin' \subseteq [what : Requests, turn : Turns]
      BY <1>22 DEF ServerLoads, Hears, Says, Pipes
    <3>2. stdout' \in Seq(Line)
      <4>1. \E what \in Lines : stdout' = stdout \o <<Message(what, t)>>
        BY <1>22 DEF ServerLoads, Hears, Says, Lines
      <4> QED
        BY <4>1 DEF Pipes
    <3> QED
      BY <3>1, <3>2 DEF Pipes
  <2>4. Marks'
    BY <1>22 DEF ServerLoads, Hears, Says, Upset, Marks
  <2> QED
    BY <2>1, <2>2, <2>3, <2>4
<1>23. CASE ServerStarts(t)
  <2>1. Places'
    BY <1>23 DEF ServerStarts, Hears, Says, Upset, Places
  <2>2. Names'
    BY <1>23 DEF ServerStarts, Hears, Says, Upset, Names
  <2>3. Pipes'
    <3>1. stdin' \subseteq [what : Requests, turn : Turns]
      BY <1>23 DEF ServerStarts, Hears, Says, Pipes
    <3>2. stdout' \in Seq(Line)
      <4>1. \E a, b \in Lines : \/ stdout' = stdout \o <<Message(a, t), Message(b, t)>>
                                \/ stdout' = stdout \o <<Message(a, t)>>
        BY <1>23 DEF ServerStarts, Says, Lines
      <4>2. PICK a, b \in Lines : \/ stdout' = stdout \o <<Message(a, t), Message(b, t)>>
                                  \/ stdout' = stdout \o <<Message(a, t)>>
        BY <4>1
      <4>3. Message(a, t) \in Line /\ Message(b, t) \in Line /\ stdout \in Seq(Line)
        BY Messages DEF Pipes
      <4>4. stdout \o <<Message(a, t), Message(b, t)>> \in Seq(Line)
        BY <4>3, Queue, Zenon
      <4>5. stdout \o <<Message(a, t)>> \in Seq(Line)
        BY <4>3, Queue, Zenon
      <4> QED
        BY <4>2, <4>4, <4>5, Zenon
    <3> QED
      BY <3>1, <3>2 DEF Pipes
  <2>4. Marks'
    BY <1>23 DEF ServerStarts, Hears, Says, Upset, Marks
  <2> QED
    BY <2>1, <2>2, <2>3, <2>4
<1>24. CASE ServerAsks(t)
  <2>1. Places'
    BY <1>24 DEF ServerAsks, Says, Upset, Places
  <2>2. Names'
    BY <1>24 DEF ServerAsks, Says, Upset, Names
  <2>3. Pipes'
    <3>1. stdin' \subseteq [what : Requests, turn : Turns]
      BY <1>24 DEF ServerAsks, Says, Pipes
    <3>2. stdout' \in Seq(Line)
      <4>1. \E what \in Lines : stdout' = stdout \o <<Message(what, t)>>
        BY <1>24 DEF ServerAsks, Says, Lines
      <4> QED
        BY <4>1 DEF Pipes
    <3> QED
      BY <3>1, <3>2 DEF Pipes
  <2>4. Marks'
    BY <1>24 DEF ServerAsks, Says, Upset, Marks
  <2> QED
    BY <2>1, <2>2, <2>3, <2>4
<1>25. CASE ServerHears(t)
  <2>1. Places'
    BY <1>25 DEF ServerHears, Hears, Places
  <2>2. Names'
    BY <1>25 DEF ServerHears, Hears, Names
  <2>3. Pipes'
    BY <1>25 DEF ServerHears, Hears, Pipes, Requests, Lines
  <2>4. Marks'
    BY <1>25 DEF ServerHears, Hears, Marks
  <2> QED
    BY <2>1, <2>2, <2>3, <2>4
<1>26. CASE ServerCompletes(t)
  <2>1. Places'
    BY <1>26 DEF ServerCompletes, Says, Places
  <2>2. Names'
    BY <1>26 DEF ServerCompletes, Says, Names
  <2>3. Pipes'
    BY <1>26 DEF ServerCompletes, Says, Pipes, Requests, Lines
  <2>4. Marks'
    BY <1>26 DEF ServerCompletes, Says, Marks
  <2> QED
    BY <2>1, <2>2, <2>3, <2>4
<1>27. CASE ServerInterrupts(t)
  <2>1. Places'
    BY <1>27 DEF ServerInterrupts, Hears, Says, Places
  <2>2. Names'
    BY <1>27 DEF ServerInterrupts, Hears, Says, Names
  <2>3. Pipes'
    <3>1. stdin' \subseteq [what : Requests, turn : Turns]
      BY <1>27 DEF ServerInterrupts, Hears, Says, Pipes
    <3>2. stdout' \in Seq(Line)
      <4>1. \E what \in Lines : stdout' = stdout \o <<Message(what, t)>>
        BY <1>27 DEF ServerInterrupts, Hears, Says, Lines
      <4> QED
        BY <4>1 DEF Pipes
    <3> QED
      BY <3>1, <3>2 DEF Pipes
  <2>4. Marks'
    BY <1>27 DEF ServerInterrupts, Hears, Says, Marks
  <2> QED
    BY <2>1, <2>2, <2>3, <2>4
<1>28. ASSUME NEW answer, CancelAnswered(t, answer) PROVE Places' /\ Names' /\ Pipes' /\ Marks'
  <2>1. Places'
    BY <1>28 DEF CancelAnswered, Places
  <2>2. Names'
    BY <1>28 DEF CancelAnswered, Names
  <2>3. Pipes'
    BY <1>28 DEF CancelAnswered, Pipes
  <2>4. Marks'
    BY <1>28 DEF CancelAnswered, Marks
  <2> QED
    BY <2>1, <2>2, <2>3, <2>4
<1> QED
  BY <1>1, <1>2, <1>3, <1>4, <1>5, <1>6, <1>7, <1>8, <1>9, <1>10, <1>11, <1>12, <1>13, <1>14,
     <1>15, <1>16, <1>17, <1>18, <1>19, <1>20, <1>21, <1>22, <1>23, <1>24, <1>25, <1>26, <1>27,
     <1>28
     DEF RuntimeStep, CallStep, LineStep, ServerStep

LEMMA FailureTyped == TypeOK /\ (Dispose \/ ServerFails) => TypeOK'
<1> SUFFICES ASSUME TypeOK, Dispose \/ ServerFails PROVE Places' /\ Names' /\ Pipes' /\ Marks'
  <2>1. (TypeOK <=> Places /\ Names /\ Pipes /\ Marks)'
    BY TypesSplit, PTL
  <2> QED
    BY <2>1
<1> USE TypesSplit, TripFailureTyped DEF Dispose, ServerFails, clientVars, serverVars
<1>1. Places'
  BY DEF Places
<1>2. Names'
  BY DEF Names
<1>3. Pipes'
  <2>1. CASE TripFailure
    BY <2>1, EmptyPipes
  <2>2. CASE ~TripFailure
    BY <2>2 DEF Pipes
  <2> QED
    BY <2>1, <2>2
<1>4. Marks'
  <2>1. failed' \in BOOLEAN /\ disposed' \in BOOLEAN
    BY DEF Marks
  <2>2. upset' \in 0 .. MaxUpset
    BY DEF Marks, Upset
  <2> QED
    BY <2>1, <2>2 DEF Marks
<1> QED
  BY <1>1, <1>2, <1>3, <1>4

LEMMA TypesNext == TypeOK /\ [Next]_vars => TypeOK'
<1> SUFFICES ASSUME TypeOK, [Next]_vars PROVE TypeOK'
  OBVIOUS
<1>1. (TypeOK <=> Places /\ Names /\ Pipes /\ Marks)'
  BY TypesSplit, PTL
<1>2. ASSUME NEW t \in Turns, RuntimeStep(t) \/ CallStep(t) \/ LineStep(t) \/ ServerStep(t)
      PROVE  TypeOK'
  BY <1>1, <1>2, TurnStepTyped
<1>3. CASE UNCHANGED vars
  BY <1>3 DEF vars, clientVars, runtimeVars, serverVars, TypeOK
<1> QED
  BY <1>2, <1>3, FailureTyped DEF Next

\* The types of the provider, its client and the pipes between it and the server.
THEOREM CodexTypes == Spec => []TypeOK
BY CodexInit, TypesNext, PTL DEF Spec

-----------------------------------------------------------------------------
(***************************************************************************)
(* As long as the client works and no operation was given up, the lines of *)
(* a turn reach the operation of that turn and no other. The invariant     *)
(* says so turn by turn, with the order of the turn's lines in the queue;  *)
(* a step of one turn leaves the others as they are.                       *)
(***************************************************************************)

\* A line in a queue, and one line after another.
Has(q, what, t) == \E n \in DOMAIN q : q[n] = Message(what, t)
After(q, first, second, t) ==
  \E m, n \in DOMAIN q : m < n /\ q[m] = Message(first, t) /\ q[n] = Message(second, t)

Before == {"idle", "loading", "bridging"}
Registered == {"starting", "running"}

\* One operation on a thread.
Alone == \A o, p \in operations : threadOf[o] = threadOf[p] => o = p

\* What the client knows of a turn.
Call(t) ==
  /\ t \in operations <=> pc[t] \in Registered
  /\ t \in settled => pc[t] \in {"closing", "over"}
  /\ pc[t] = "closing" => t \in settled
  /\ codexTurnId[t] \in {None, t}
  /\ pc[t] = "running" => codexTurnId[t] = t
  /\ pc[t] \in Before /\ t \in ended => t \in early
  /\ gate = t => t \in operations \ ended

\* What the server does, as the client knows it.
Work(t) ==
  /\ pc[t] \in Before => server[t] = "none"
  /\ pc[t] = "running" => server[t] # "none"
  /\ Running(t) => pc[t] \in Registered
  /\ server[t] = "over" /\ pc[t] \in Registered => Has(stdout, "turn/completed", t)

\* The thread is loaded, and the turn is started, once, and answered once.
Loading(t) ==
  LET thread == Has(stdout, "thread", t)
      error == Has(stdout, "threadError", t)
      asked == Message("thread/start", t) \in stdin
  IN
  /\ pc[t] = "loading" <=> asked \/ thread \/ error
  /\ ~(asked /\ thread) /\ ~(asked /\ error) /\ ~(thread /\ error)
  /\ ~After(stdout, "thread", "thread", t) /\ ~After(stdout, "threadError", "threadError", t)

Starting(t) ==
  LET turn == Has(stdout, "turn", t)
      error == Has(stdout, "turnError", t)
      asked == Message("turn/start", t) \in stdin
  IN
  /\ pc[t] = "starting" <=> asked \/ turn \/ error
  /\ ~(asked /\ turn) /\ ~(asked /\ error) /\ ~(turn /\ error)
  /\ ~After(stdout, "turn", "turn", t) /\ ~After(stdout, "turnError", "turnError", t)
  /\ asked \/ error => server[t] = "none"
  /\ turn => server[t] # "none"

\* The lines of a turn come while it has its operation, and its completion last.
Told(t) ==
  /\ Has(stdout, "turn/started", t) => pc[t] \in Registered /\ server[t] # "none"
  /\ Has(stdout, "question", t) => pc[t] \in Registered /\ server[t] # "none"
  /\ Has(stdout, "turn/completed", t) => pc[t] \in Registered /\ server[t] = "over"
  /\ \A line \in {"turn", "turn/started", "turn/completed", "question"} :
       ~After(stdout, "turn/completed", line, t)

\* A turn that was cancelled asks no more.
Stopped(t) ==
  /\ cancel[t] # "none" => t \in cancelling
  /\ cancel[t] = "ready" => pc[t] = "starting"
  /\ Message("cancel", t) \in stdin \/ Has(stdout, "cancelAnswer", t) \/ Has(stdout, "cancelError", t)
       => t \in cancelling
  /\ Has(stdout, "cancelAnswer", t) => server[t] \in {"interrupting", "over"}
  /\ ~After(stdout, "cancelAnswer", "question", t)
  /\ t \in ended \ early /\ pc[t] \in Registered =>
       t \in cancelling /\ server[t] \in {"interrupting", "over"} /\ ~Has(stdout, "question", t)

\* The calls that stop a turn are answered.
Answered(t) ==
  /\ cancel[t] = "interrupt" =>
       \/ Message("cancel", t) \in stdin
       \/ Has(stdout, "cancelAnswer", t) \/ Has(stdout, "cancelError", t)
  /\ recover[t] = "interrupt" => Message("recover", t) \in stdin \/ Has(stdout, "recoverAnswer", t)

Turn(t) == Call(t) /\ Work(t) /\ Loading(t) /\ Starting(t) /\ Told(t) /\ Stopped(t) /\ Answered(t)

\* As long as the client works and no operation was given up.
Orderly == ~failed /\ abandoned = {} => Alone /\ \A t \in Turns : Turn(t)

\* The server keeps the rules.
Calm == ~failed /\ upset = 0 => abandoned = {} /\ \A t \in Turns : ~Has(stdout, "unsupported", t)

\* What taking a line, or adding one, does to what the queue has.
LEMMA Shifted ==
  ASSUME NEW q \in Seq(Line), q # <<>>, NEW what, NEW t, Head(q) = Message(what, t)
  PROVE  /\ \A w, u : Has(q, w, u) <=> (w = what /\ u = t) \/ Has(Tail(q), w, u)
         /\ \A w, x, u : After(q, w, x, u) <=>
              (w = what /\ u = t /\ Has(Tail(q), x, u)) \/ After(Tail(q), w, x, u)
<1> DEFINE r == Tail(q)
<1>1. DOMAIN q = 1 .. Len(q) /\ DOMAIN r = 1 .. Len(q) - 1 /\ Len(q) \in Nat /\ Len(q) > 0
  OBVIOUS
<1>2. \A n \in DOMAIN r : n + 1 \in DOMAIN q /\ r[n] = q[n + 1]
  OBVIOUS
<1>3. \A n \in DOMAIN q : n # 1 => n - 1 \in DOMAIN r /\ r[n - 1] = q[n]
  OBVIOUS
<1>4. 1 \in DOMAIN q /\ q[1] = Message(what, t)
  OBVIOUS
<1>5. \A w, u : Message(w, u) = Message(what, t) <=> w = what /\ u = t
  BY DEF Message
<1> HIDE DEF r
<1>6. ASSUME NEW w, NEW u PROVE Has(q, w, u) <=> (w = what /\ u = t) \/ Has(r, w, u)
  BY <1>1, <1>2, <1>3, <1>4, <1>5 DEF Has
<1>7. ASSUME NEW w, NEW x, NEW u
      PROVE  After(q, w, x, u) <=> (w = what /\ u = t /\ Has(r, x, u)) \/ After(r, w, x, u)
  <2>1. ASSUME After(q, w, x, u) PROVE (w = what /\ u = t /\ Has(r, x, u)) \/ After(r, w, x, u)
    <3>1. PICK m, n \in DOMAIN q : m < n /\ q[m] = Message(w, u) /\ q[n] = Message(x, u)
      BY <2>1 DEF After
    <3>2. n # 1 /\ n - 1 \in DOMAIN r /\ r[n - 1] = Message(x, u)
      BY <3>1, <1>1, <1>3
    <3>3. CASE m = 1
      BY <3>1, <3>2, <3>3, <1>4, <1>5 DEF Has
    <3>4. CASE m # 1
      <4>1. m - 1 \in DOMAIN r /\ r[m - 1] = Message(w, u) /\ m - 1 < n - 1
        BY <3>1, <3>4, <1>1, <1>3
      <4> QED
        BY <4>1, <3>2 DEF After
    <3> QED
      BY <3>3, <3>4
  <2>2. ASSUME w = what, u = t, Has(r, x, u) PROVE After(q, w, x, u)
    <3>1. PICK n \in DOMAIN r : r[n] = Message(x, u)
      BY <2>2 DEF Has
    <3>2. 1 < n + 1 /\ n + 1 \in DOMAIN q /\ q[n + 1] = Message(x, u)
      BY <3>1, <1>1, <1>2
    <3> QED
      BY <3>2, <2>2, <1>4 DEF After
  <2>3. ASSUME After(r, w, x, u) PROVE After(q, w, x, u)
    <3>1. PICK m, n \in DOMAIN r : m < n /\ r[m] = Message(w, u) /\ r[n] = Message(x, u)
      BY <2>3 DEF After
    <3>2. /\ m + 1 < n + 1 /\ m + 1 \in DOMAIN q /\ n + 1 \in DOMAIN q
          /\ q[m + 1] = Message(w, u) /\ q[n + 1] = Message(x, u)
      BY <3>1, <1>1, <1>2
    <3> QED
      BY <3>2 DEF After
  <2> QED
    BY <2>1, <2>2, <2>3
<1> QED
  BY <1>6, <1>7 DEF r

LEMMA Added ==
  ASSUME NEW q \in Seq(Line), NEW a \in Lines, NEW t \in Turns
  PROVE  LET r == q \o <<Message(a, t)>> IN
         /\ r \in Seq(Line)
         /\ \A w, u : Has(r, w, u) <=> (w = a /\ u = t) \/ Has(q, w, u)
         /\ \A w, x, u : After(r, w, x, u) <=>
              (x = a /\ u = t /\ Has(q, w, u)) \/ After(q, w, x, u)
<1> DEFINE r == q \o <<Message(a, t)>>
<1>0. Message(a, t) \in Line
  BY Messages
<1>1. /\ DOMAIN q = 1 .. Len(q) /\ DOMAIN r = 1 .. Len(q) + 1 /\ Len(q) \in Nat
      /\ r \in Seq(Line)
  BY <1>0
<1>2. \A n \in DOMAIN q : n \in DOMAIN r /\ r[n] = q[n]
  BY <1>0
<1>3. Len(q) + 1 \in DOMAIN r /\ r[Len(q) + 1] = Message(a, t)
  BY <1>0
<1>4. \A n \in DOMAIN r : n = Len(q) + 1 \/ n \in DOMAIN q
  BY <1>1
<1>5. \A w, u : Message(w, u) = Message(a, t) <=> w = a /\ u = t
  BY DEF Message
<1> HIDE DEF r
<1>6. ASSUME NEW w, NEW u PROVE Has(r, w, u) <=> (w = a /\ u = t) \/ Has(q, w, u)
  BY <1>1, <1>2, <1>3, <1>4, <1>5 DEF Has
<1>7. ASSUME NEW w, NEW x, NEW u
      PROVE  After(r, w, x, u) <=> (x = a /\ u = t /\ Has(q, w, u)) \/ After(q, w, x, u)
  <2>1. ASSUME After(r, w, x, u) PROVE (x = a /\ u = t /\ Has(q, w, u)) \/ After(q, w, x, u)
    <3>1. PICK m, n \in DOMAIN r : m < n /\ r[m] = Message(w, u) /\ r[n] = Message(x, u)
      BY <2>1 DEF After
    <3>2. m \in DOMAIN q /\ q[m] = Message(w, u)
      BY <3>1, <1>1, <1>2, <1>4
    <3> QED
      BY <3>1, <3>2, <1>2, <1>3, <1>4, <1>5 DEF After, Has
  <2>2. ASSUME x = a, u = t, Has(q, w, u) PROVE After(r, w, x, u)
    <3>1. PICK m \in DOMAIN q : q[m] = Message(w, u)
      BY <2>2 DEF Has
    <3>2. m < Len(q) + 1 /\ m \in DOMAIN r /\ r[m] = Message(w, u)
      BY <3>1, <1>1, <1>2
    <3> QED
      BY <3>2, <2>2, <1>3 DEF After
  <2>3. ASSUME After(q, w, x, u) PROVE After(r, w, x, u)
    BY <2>3, <1>2 DEF After
  <2> QED
    BY <2>1, <2>2, <2>3
<1> QED
  BY <1>1, <1>6, <1>7 DEF r

\* Two elements appended at once are the one appended and then the other.
LEMMA Appended ==
  ASSUME NEW S, NEW q \in Seq(S), NEW l \in S, NEW n \in S
  PROVE  q \o <<l, n>> = (q \o <<l>>) \o <<n>>
<1> DEFINE r == q \o <<l, n>>
           p == q \o <<l>>
           s == p \o <<n>>
<1>1. p \in Seq(S) /\ Len(p) = Len(q) + 1 /\ Len(q) \in Nat
  OBVIOUS
<1>2. \A i \in 1 .. Len(q) + 1 : p[i] = IF i <= Len(q) THEN q[i] ELSE l
  OBVIOUS
<1>3. r \in Seq(S) /\ Len(r) = Len(q) + 2
  OBVIOUS
<1>4. \A i \in 1 .. Len(q) + 2 :
        r[i] = IF i <= Len(q) THEN q[i] ELSE IF i = Len(q) + 1 THEN l ELSE n
  OBVIOUS
<1> HIDE DEF p, r
<1>5. s \in Seq(S) /\ Len(s) = Len(q) + 2
  BY <1>1
<1>6. \A i \in 1 .. Len(q) + 2 : s[i] = IF i <= Len(q) + 1 THEN p[i] ELSE n
  BY <1>1
<1> HIDE DEF s
<1>7. \A i \in 1 .. Len(q) + 2 : r[i] = s[i]
  BY <1>1, <1>2, <1>4, <1>6
<1>8. r = s
  BY <1>3, <1>5, <1>7, SeqEqual
<1> QED
  BY <1>8 DEF r, s, p

LEMMA TwoAdded ==
  ASSUME NEW q \in Seq(Line), NEW a \in Lines, NEW b \in Lines, NEW t \in Turns
  PROVE  LET r == q \o <<Message(a, t), Message(b, t)>> IN
         /\ \A w, u : Has(r, w, u) <=> (w \in {a, b} /\ u = t) \/ Has(q, w, u)
         /\ \A w, x, u : After(r, w, x, u) <=>
              \/ x \in {a, b} /\ u = t /\ Has(q, w, u)
              \/ w = a /\ x = b /\ u = t
              \/ After(q, w, x, u)
<1> DEFINE l == Message(a, t)
           n == Message(b, t)
           p == q \o <<l>>
           r == p \o <<n>>
<1>1. l \in Line /\ n \in Line
  BY Messages
<1>2. /\ p \in Seq(Line)
      /\ \A w, u : Has(p, w, u) <=> (w = a /\ u = t) \/ Has(q, w, u)
      /\ \A w, x, u : After(p, w, x, u) <=>
           (x = a /\ u = t /\ Has(q, w, u)) \/ After(q, w, x, u)
  BY Added
<1> HIDE DEF p
<1>3. /\ \A w, u : Has(r, w, u) <=> (w = b /\ u = t) \/ Has(p, w, u)
      /\ \A w, x, u : After(r, w, x, u) <=>
           (x = b /\ u = t /\ Has(p, w, u)) \/ After(p, w, x, u)
  BY <1>2, Added
<1> HIDE DEF l, n, r
<1>4. q \o <<l, n>> = r
  BY <1>1, Appended DEF p, r
<1>5. /\ \A w, u : Has(r, w, u) <=> (w \in {a, b} /\ u = t) \/ Has(q, w, u)
      /\ \A w, x, u : After(r, w, x, u) <=>
           \/ x \in {a, b} /\ u = t /\ Has(q, w, u)
           \/ w = a /\ x = b /\ u = t
           \/ After(q, w, x, u)
  BY <1>2, <1>3
<1> QED
  BY <1>4, <1>5 DEF l, n

LEMMA Empty == \A w, x, u : ~Has(<<>>, w, u) /\ ~After(<<>>, w, x, u)
BY DEF Has, After

\* A turn that a step does not concern.
Same(u) ==
  /\ pc'[u] = pc[u] /\ codexTurnId'[u] = codexTurnId[u] /\ server'[u] = server[u]
  /\ cancel'[u] = cancel[u] /\ recover'[u] = recover[u]
  /\ u \in operations' <=> u \in operations
  /\ u \in settled' <=> u \in settled
  /\ u \in cancelling' <=> u \in cancelling
  /\ u \in ended' <=> u \in ended
  /\ u \in early' <=> u \in early
  /\ gate' = u => gate = u
  /\ \A w : (Message(w, u) \in stdin') <=> (Message(w, u) \in stdin)
  /\ \A w : Has(stdout', w, u) <=> Has(stdout, w, u)
  /\ \A w, x : After(stdout', w, x, u) <=> After(stdout, w, x, u)

LEMMA SameKeeps == ASSUME NEW u \in Turns, Turn(u), Same(u) PROVE Turn(u)'
BY DEF Turn, Call, Work, Running, Loading, Starting, Told, Stopped, Answered, Same

\* The messages of the turns differ.
LEMMA Distinct == \A w, u, x, t : Message(w, u) = Message(x, t) <=> w = x /\ u = t
BY DEF Message

\* The steps that leave the lines of the server alone.
LEMMA QuietStep ==
  ASSUME TypeOK, ~failed, Alone, \A u \in Turns : Turn(u), NEW t \in Turns,
         ~failed', abandoned' = {},
         stdout' = stdout,
         RuntimeStep(t) \/ CallStep(t) \/ ServerHears(t)
  PROVE  \A u \in Turns : Turn(u)'
<1> USE TypesSplit, Distinct DEF Set, Send, clientVars, runtimeVars, serverVars, Places, Names,
   Before, Registered
<1>0. Turn(t)
  OBVIOUS
<1>1. CASE StartTurn(t)
  <2>1. \A u \in Turns \ {t} : Same(u)
    BY <1>1 DEF StartTurn, Same, CheckTask, MayCall
  <2>2. Turn(t)'
    BY SMTT(30), <1>0, <1>1 DEF StartTurn, CheckTask, MayCall, Turn, Call, Work, Running, Loading,
       Starting, Told, Stopped, Answered
  <2> QED
    BY <2>1, <2>2, SameKeeps
<1>2. CASE LoadThread(t)
  <2>1. \A u \in Turns \ {t} : Same(u)
    BY <1>2 DEF LoadThread, Same, MayCall
  <2>2. Turn(t)'
    BY SMTT(30), <1>0, <1>2 DEF LoadThread, MayCall, Turn, Call, Work, Running, Loading, Starting, Told,
       Stopped, Answered
  <2> QED
    BY <2>1, <2>2, SameKeeps
<1>3. CASE ThreadIsBusy(t)
  <2>1. \A u \in Turns \ {t} : Same(u)
    BY <1>3 DEF ThreadIsBusy, Same, Bridged, Upset, OnThread
  <2>2. Turn(t)'
    BY SMTT(30), <1>0, <1>3 DEF ThreadIsBusy, Bridged, Upset, OnThread, Turn, Call, Work, Running,
       Loading, Starting, Told, Stopped, Answered
  <2> QED
    BY <2>1, <2>2, SameKeeps
<1>4. CASE Register(t)
  <2>1. \A u \in Turns \ {t} : Same(u)
    BY <1>4 DEF Register, Same, Bridged, Upset, OnThread
  <2>2. Turn(t)'
    BY SMTT(30), <1>0, <1>4 DEF Register, Bridged, Upset, OnThread, Turn, Call, Work, Running, Loading,
       Starting, Told, Stopped, Answered
  <2> QED
    BY <2>1, <2>2, SameKeeps
<1>5. CASE RegisterFails(t)
  <2>1. \A u \in Turns \ {t} : Same(u)
    BY <1>5 DEF RegisterFails, Same, Bridged, Upset, OnThread
  <2>2. Turn(t)'
    BY SMTT(30), <1>0, <1>5 DEF RegisterFails, Bridged, Upset, OnThread, Turn, Call, Work, Running,
       Loading, Starting, Told, Stopped, Answered
  <2> QED
    BY <2>1, <2>2, SameKeeps
<1>6. CASE Return(t)
  <2>1. \A u \in Turns \ {t} : Same(u)
    BY <1>6 DEF Return, Same
  <2>2. Turn(t)'
    BY SMTT(30), <1>0, <1>6 DEF Return, Turn, Call, Work, Running, Loading, Starting, Told, Stopped,
       Answered
  <2> QED
    BY <2>1, <2>2, SameKeeps
<1>7. CASE RespondInteraction(t)
  <2>1. \A u \in Turns \ {t} : Same(u)
    BY <1>7 DEF RespondInteraction, Same
  <2>2. Turn(t)'
    BY SMTT(30), <1>0, <1>7 DEF RespondInteraction, Turn, Call, Work, Running, Loading, Starting, Told,
       Stopped, Answered
  <2> QED
    BY <2>1, <2>2, SameKeeps
<1>8. CASE CancelTurn(t)
  <2>1. \A u \in Turns \ {t} : Same(u)
    BY <1>8 DEF CancelTurn, Same, HasHandle
  <2>2. Turn(t)'
    BY SMTT(30), <1>0, <1>8 DEF CancelTurn, HasHandle, Turn, Call, Work, Running, Loading, Starting, Told,
       Stopped, Answered
  <2> QED
    BY <2>1, <2>2, SameKeeps
<1>9. CASE EndEarly(t)
  <2>1. \A u \in Turns \ {t} : Same(u)
    BY <1>9 DEF EndEarly, Same
  <2>2. Turn(t)'
    BY SMTT(30), <1>0, <1>9 DEF EndEarly, Turn, Call, Work, Running, Loading, Starting, Told, Stopped,
       Answered
  <2> QED
    BY <2>1, <2>2, SameKeeps
<1>10. CASE RecoverTurn(t)
  <2>1. \A u \in Turns \ {t} : Same(u)
    BY <1>10 DEF RecoverTurn, Same, HasHandle
  <2>2. Turn(t)'
    BY SMTT(30), <1>0, <1>10 DEF RecoverTurn, HasHandle, Turn, Call, Work, Running, Loading, Starting,
       Told, Stopped, Answered
  <2> QED
    BY <2>1, <2>2, SameKeeps
<1>11. CASE RecoverVerified(t)
  <2>1. \A u \in Turns \ {t} : Same(u)
    BY <1>11 DEF RecoverVerified, Same
  <2>2. Turn(t)'
    BY SMTT(30), <1>0, <1>11 DEF RecoverVerified, Turn, Call, Work, Running, Loading, Starting, Told,
       Stopped, Answered
  <2> QED
    BY <2>1, <2>2, SameKeeps
<1>12. CASE RecoverUnverified(t)
  <2>1. \A u \in Turns \ {t} : Same(u)
    BY <1>12 DEF RecoverUnverified, Same
  <2>2. Turn(t)'
    BY SMTT(30), <1>0, <1>12 DEF RecoverUnverified, Turn, Call, Work, Running, Loading, Starting, Told,
       Stopped, Answered
  <2> QED
    BY <2>1, <2>2, SameKeeps
<1>13. CASE ServerHears(t)
  <2>1. \A u \in Turns \ {t} : Same(u)
    BY <1>13 DEF ServerHears, Same, Hears
  <2>2. Turn(t)'
    BY SMTT(30), <1>0, <1>13 DEF ServerHears, Hears, Turn, Call, Work, Running, Loading, Starting, Told,
       Stopped, Answered
  <2> QED
    BY <2>1, <2>2, SameKeeps
<1> QED
  BY <1>1, <1>2, <1>3, <1>4, <1>5, <1>6, <1>7, <1>8, <1>9, <1>10, <1>11, <1>12, <1>13 DEF
     RuntimeStep, CallStep

\* A line reaches the operation of its turn.
LEMMA AddressedIsOwn ==
  ASSUME Alone, NEW t \in Turns, t \in operations, codexTurnId[t] \in {None, t}
  PROVE  OnThread(threadOf[t]) = {t} /\ Addressed(t) = {t} /\ AddressedByTurn(t) = {t}
BY DEF Alone, OnThread, Addressed, AddressedByTurn

\* A line is taken.
LEMMA Taken ==
  ASSUME TypeOK, NEW what, NEW t, Takes(what, t), stdout' = Tail(stdout)
  PROVE  /\ \A w, u : Has(stdout, w, u) <=> (w = what /\ u = t) \/ Has(stdout', w, u)
         /\ \A w, x, u : After(stdout, w, x, u) <=>
              (w = what /\ u = t /\ Has(stdout', x, u)) \/ After(stdout', w, x, u)
BY Shifted, TypesSplit DEF Takes, Pipes

\* The steps of the client on a line.
LEMMA LineStepKeeps ==
  ASSUME TypeOK, ~failed, abandoned = {}, Alone, \A u \in Turns : Turn(u), NEW t \in Turns,
         ~failed', abandoned' = {}, LineStep(t)
  PROVE  \A u \in Turns : Turn(u)'
<1> USE TypesSplit, Distinct DEF Set, Send, clientVars, runtimeVars, serverVars, Places, Names,
   Before, Registered
<1>0. Turn(t)
  OBVIOUS
<1>1. CASE ThreadLoaded(t)
  <2>1. Takes("thread", t) /\ stdout' = Tail(stdout)
    BY <1>1 DEF ThreadLoaded, TripFailure, Ignore
  <2>2. /\ \A w, u : Has(stdout, w, u) <=> (w = "thread" /\ u = t) \/ Has(stdout', w, u)
        /\ \A w, x, u : After(stdout, w, x, u) <=>
             (w = "thread" /\ u = t /\ Has(stdout', x, u)) \/ After(stdout', w, x, u)
    BY <2>1, Taken
  <2>3. \A u \in Turns \ {t} : Same(u)
    BY <1>0, <1>1, <2>2 DEF ThreadLoaded, Same, CheckTask, Turn, Call
  <2>4. Turn(t)'
    BY SMTT(30), <1>0, <1>1, <2>1, <2>2 DEF ThreadLoaded, Takes, CheckTask, Turn, Call, Work, Running,
       Loading, Starting, Told, Stopped, Answered
  <2> QED
    BY <2>3, <2>4, SameKeeps
<1>2. CASE ThreadRefused(t)
  <2>1. Takes("threadError", t) /\ stdout' = Tail(stdout)
    BY <1>2 DEF ThreadRefused, TripFailure, Ignore
  <2>2. /\ \A w, u : Has(stdout, w, u) <=> (w = "threadError" /\ u = t) \/ Has(stdout', w, u)
        /\ \A w, x, u : After(stdout, w, x, u) <=>
             (w = "threadError" /\ u = t /\ Has(stdout', x, u)) \/ After(stdout', w, x, u)
    BY <2>1, Taken
  <2>3. \A u \in Turns \ {t} : Same(u)
    BY <1>0, <1>2, <2>2 DEF ThreadRefused, Same, Turn, Call
  <2>4. Turn(t)'
    BY SMTT(30), <1>0, <1>2, <2>1, <2>2 DEF ThreadRefused, Takes, Turn, Call, Work, Running, Loading,
       Starting, Told, Stopped, Answered
  <2> QED
    BY <2>3, <2>4, SameKeeps
<1>3. CASE TurnStartAnswered(t)
  <2>1. Takes("turn", t) /\ stdout' = Tail(stdout)
    BY <1>3 DEF TurnStartAnswered, TripFailure, Ignore
  <2>2. /\ \A w, u : Has(stdout, w, u) <=> (w = "turn" /\ u = t) \/ Has(stdout', w, u)
        /\ \A w, x, u : After(stdout, w, x, u) <=>
             (w = "turn" /\ u = t /\ Has(stdout', x, u)) \/ After(stdout', w, x, u)
    BY <2>1, Taken
  <2>3. \A u \in Turns \ {t} : Same(u)
    BY <1>0, <1>3, <2>2 DEF TurnStartAnswered, Same, Forget, Turn, Call
  <2>4. Turn(t)'
    BY SMTT(30), <1>0, <1>3, <2>1, <2>2 DEF TurnStartAnswered, Takes, Forget, Turn, Call, Work, Running,
       Loading, Starting, Told, Stopped, Answered
  <2> QED
    BY <2>3, <2>4, SameKeeps
<1>4. CASE TurnStartRefused(t)
  <2>1. Takes("turnError", t) /\ stdout' = Tail(stdout)
    BY <1>4 DEF TurnStartRefused, TripFailure, Ignore
  <2>2. /\ \A w, u : Has(stdout, w, u) <=> (w = "turnError" /\ u = t) \/ Has(stdout', w, u)
        /\ \A w, x, u : After(stdout, w, x, u) <=>
             (w = "turnError" /\ u = t /\ Has(stdout', x, u)) \/ After(stdout', w, x, u)
    BY <2>1, Taken
  <2>3. \A u \in Turns \ {t} : Same(u)
    BY <1>0, <1>4, <2>2 DEF TurnStartRefused, Same, Forget, Turn, Call
  <2>4. Turn(t)'
    BY SMTT(30), <1>0, <1>4, <2>1, <2>2 DEF TurnStartRefused, Takes, Forget, Turn, Call, Work, Running,
       Loading, Starting, Told, Stopped, Answered
  <2> QED
    BY <2>3, <2>4, SameKeeps
<1>5. CASE TurnStarted(t)
  <2>1. Takes("turn/started", t) /\ stdout' = Tail(stdout)
    BY <1>5 DEF TurnStarted, TripFailure, Ignore
  <2>2. /\ \A w, u : Has(stdout, w, u) <=> (w = "turn/started" /\ u = t) \/ Has(stdout', w, u)
        /\ \A w, x, u : After(stdout, w, x, u) <=>
             (w = "turn/started" /\ u = t /\ Has(stdout', x, u)) \/ After(stdout', w, x, u)
    BY <2>1, Taken
  <2>3. t \in operations /\ codexTurnId[t] \in {None, t}
    BY <1>0, <2>2 DEF Turn, Call, Told
  <2>4. Addressed(t) = {t} /\ AddressedByTurn(t) = {t}
    BY <2>3, AddressedIsOwn
  <2>5. \A u \in Turns \ {t} : Same(u)
    BY <1>5, <2>2, <2>3, <2>4 DEF TurnStarted, Same, TripFailure
  <2>6. Turn(t)'
    BY SMTT(30), <1>0, <1>5, <2>2, <2>3, <2>4 DEF TurnStarted, TripFailure, Turn, Call, Work, Running,
       Loading, Starting, Told, Stopped, Answered
  <2> QED
    BY <2>5, <2>6, SameKeeps
<1>6. CASE TurnCompleted(t)
  <2>1. Takes("turn/completed", t) /\ stdout' = Tail(stdout)
    BY <1>6 DEF TurnCompleted, TripFailure, Ignore
  <2>2. /\ \A w, u : Has(stdout, w, u) <=> (w = "turn/completed" /\ u = t) \/ Has(stdout', w, u)
        /\ \A w, x, u : After(stdout, w, x, u) <=>
             (w = "turn/completed" /\ u = t /\ Has(stdout', x, u)) \/ After(stdout', w, x, u)
    BY <2>1, Taken
  <2>3. t \in operations /\ codexTurnId[t] = t
    BY <1>0, <2>2 DEF Turn, Call, Told, Starting, Work
  <2>4. Addressed(t) = {t} /\ AddressedByTurn(t) = {t}
    BY <2>3, AddressedIsOwn
  <2>5. \A u \in Turns \ {t} : Same(u)
    BY <1>6, <2>2, <2>3, <2>4 DEF TurnCompleted, Same, Settle, Forget, TripFailure
  <2>6. Turn(t)'
    BY SMTT(30), <1>0, <1>6, <2>2, <2>3, <2>4 DEF TurnCompleted, Settle, Forget, TripFailure, Turn, Call,
       Work, Running, Loading, Starting, Told, Stopped, Answered
  <2> QED
    BY <2>5, <2>6, SameKeeps
<1>7. CASE Question(t)
  <2>1. Takes("question", t) /\ stdout' = Tail(stdout)
    BY <1>7 DEF Question, TripFailure, Ignore
  <2>2. /\ \A w, u : Has(stdout, w, u) <=> (w = "question" /\ u = t) \/ Has(stdout', w, u)
        /\ \A w, x, u : After(stdout, w, x, u) <=>
             (w = "question" /\ u = t /\ Has(stdout', x, u)) \/ After(stdout', w, x, u)
    BY <2>1, Taken
  <2>3. t \in operations /\ codexTurnId[t] \in {None, t}
    BY <1>0, <2>2 DEF Turn, Call, Told
  <2>4. Addressed(t) = {t} /\ AddressedByTurn(t) = {t}
    BY <2>3, AddressedIsOwn
  <2>5. \A u \in Turns \ {t} : Same(u)
    BY <1>7, <2>2, <2>3, <2>4 DEF Question, Same, TripFailure
  <2>6. Turn(t)'
    BY SMTT(30), <1>0, <1>7, <2>2, <2>3, <2>4 DEF Question, TripFailure, Turn, Call, Work, Running,
       Loading, Starting, Told, Stopped, Answered
  <2> QED
    BY <2>5, <2>6, SameKeeps
<1>8. CASE Unsupported(t)
  <2>1. Takes("unsupported", t) /\ stdout' = Tail(stdout)
    BY <1>8 DEF Unsupported, TripFailure, Ignore
  <2>2. /\ \A w, u : Has(stdout, w, u) <=> (w = "unsupported" /\ u = t) \/ Has(stdout', w, u)
        /\ \A w, x, u : After(stdout, w, x, u) <=>
             (w = "unsupported" /\ u = t /\ Has(stdout', x, u)) \/ After(stdout', w, x, u)
    BY <2>1, Taken
  <2>3. \A u \in Turns \ {t} : Same(u)
    BY <1>0, <1>8, <2>2 DEF Unsupported, Same, Turn, Call
  <2>4. Turn(t)'
    BY SMTT(30), <1>0, <1>8, <2>1, <2>2 DEF Unsupported, Takes, Turn, Call, Work, Running, Loading,
       Starting, Told, Stopped, Answered
  <2> QED
    BY <2>3, <2>4, SameKeeps
<1>9. CASE RecoverAnswered(t)
  <2>1. Takes("recoverAnswer", t) /\ stdout' = Tail(stdout)
    BY <1>9 DEF RecoverAnswered, TripFailure, Ignore
  <2>2. /\ \A w, u : Has(stdout, w, u) <=> (w = "recoverAnswer" /\ u = t) \/ Has(stdout', w, u)
        /\ \A w, x, u : After(stdout, w, x, u) <=>
             (w = "recoverAnswer" /\ u = t /\ Has(stdout', x, u)) \/ After(stdout', w, x, u)
    BY <2>1, Taken
  <2>3. \A u \in Turns \ {t} : Same(u)
    BY <1>0, <1>9, <2>2 DEF RecoverAnswered, Same, Turn, Call
  <2>4. Turn(t)'
    BY SMTT(30), <1>0, <1>9, <2>1, <2>2 DEF RecoverAnswered, Takes, Turn, Call, Work, Running, Loading,
       Starting, Told, Stopped, Answered
  <2> QED
    BY <2>3, <2>4, SameKeeps
<1>10. ASSUME NEW answer, CancelAnswered(t, answer) PROVE \A u \in Turns : Turn(u)'
  <2>1. Takes(answer, t) /\ stdout' = Tail(stdout) /\ answer \in {"cancelAnswer", "cancelError"}
    BY <1>10 DEF CancelAnswered
  <2>2. /\ \A w, u : Has(stdout, w, u) <=> (w = answer /\ u = t) \/ Has(stdout', w, u)
        /\ \A w, x, u : After(stdout, w, x, u) <=>
             (w = answer /\ u = t /\ Has(stdout', x, u)) \/ After(stdout', w, x, u)
    BY <2>1, Taken
  <2>3. \A u \in Turns \ {t} : Same(u)
    BY <1>10, <2>2 DEF CancelAnswered, Same
  <2>4. Turn(t)'
    BY SMTT(30), <1>0, <1>10, <2>1, <2>2 DEF CancelAnswered, Takes, Turn, Call, Work, Running, Loading,
       Starting, Told, Stopped, Answered
  <2> QED
    BY <2>3, <2>4, SameKeeps
<1> QED
  BY <1>1, <1>2, <1>3, <1>4, <1>5, <1>6, <1>7, <1>8, <1>9, <1>10 DEF LineStep

\* The steps of the server.
LEMMA ServerStepKeeps ==
  ASSUME TypeOK, ~failed, abandoned = {}, Alone, \A u \in Turns : Turn(u), NEW t \in Turns,
         ~failed', abandoned' = {}, ServerStep(t)
  PROVE  \A u \in Turns : Turn(u)'
<1> USE TypesSplit, Distinct DEF Set, Send, clientVars, runtimeVars, serverVars, Places, Names,
   Before, Registered
<1>0. Turn(t) /\ stdout \in Seq(Line)
  BY DEF Pipes
<1>1. CASE ServerLoads(t)
  <2>1. PICK a \in {"thread", "threadError"} : stdout' = stdout \o <<Message(a, t)>>
    BY <1>1 DEF ServerLoads, Says
  <2>2. a \in Lines
    BY <2>1 DEF Lines
  <2>3. /\ \A w, u : Has(stdout', w, u) <=> (w = a /\ u = t) \/ Has(stdout, w, u)
        /\ \A w, x, u : After(stdout', w, x, u) <=>
             (x = a /\ u = t /\ Has(stdout, w, u)) \/ After(stdout, w, x, u)
    BY <1>0, <2>1, <2>2, Added
  <2>4. \A u \in Turns \ {t} : Same(u)
    BY <1>1, <2>3 DEF ServerLoads, Same, Hears, Upset
  <2>5. Turn(t)'
    BY SMTT(30), <1>0, <1>1, <2>1, <2>3 DEF ServerLoads, Hears, Upset, Turn, Call, Work, Running, Loading,
       Starting, Told, Stopped, Answered
  <2> QED
    BY <2>4, <2>5, SameKeeps
<1>2. CASE ServerAsks(t)
  <2>1. PICK a \in {"question", "unsupported"} : stdout' = stdout \o <<Message(a, t)>>
    BY <1>2 DEF ServerAsks, Says
  <2>2. a \in Lines
    BY <2>1 DEF Lines
  <2>3. /\ \A w, u : Has(stdout', w, u) <=> (w = a /\ u = t) \/ Has(stdout, w, u)
        /\ \A w, x, u : After(stdout', w, x, u) <=>
             (x = a /\ u = t /\ Has(stdout, w, u)) \/ After(stdout, w, x, u)
    BY <1>0, <2>1, <2>2, Added
  <2>4. \A u \in Turns \ {t} : Same(u)
    BY <1>2, <2>3 DEF ServerAsks, Same, Hears, Upset
  <2>5. Turn(t)'
    BY SMTT(30), <1>0, <1>2, <2>1, <2>3 DEF ServerAsks, Hears, Upset, Turn, Call, Work, Running, Loading,
       Starting, Told, Stopped, Answered
  <2> QED
    BY <2>4, <2>5, SameKeeps
<1>3. CASE ServerCompletes(t)
  <2>1. PICK a \in {"turn/completed"} : stdout' = stdout \o <<Message(a, t)>>
    BY <1>3 DEF ServerCompletes, Says
  <2>2. a \in Lines
    BY <2>1 DEF Lines
  <2>3. /\ \A w, u : Has(stdout', w, u) <=> (w = a /\ u = t) \/ Has(stdout, w, u)
        /\ \A w, x, u : After(stdout', w, x, u) <=>
             (x = a /\ u = t /\ Has(stdout, w, u)) \/ After(stdout, w, x, u)
    BY <1>0, <2>1, <2>2, Added
  <2>4. \A u \in Turns \ {t} : Same(u)
    BY <1>3, <2>3 DEF ServerCompletes, Same, Hears, Upset
  <2>5. Turn(t)'
    BY SMTT(30), <1>0, <1>3, <2>1, <2>3 DEF ServerCompletes, Hears, Upset, Turn, Call, Work, Running,
       Loading, Starting, Told, Stopped, Answered
  <2> QED
    BY <2>4, <2>5, SameKeeps
<1>4. CASE ServerInterrupts(t)
  <2>1. PICK a \in {"cancelAnswer", "cancelError", "recoverAnswer"} :
               /\ stdout' = stdout \o <<Message(a, t)>>
               /\ a = "cancelAnswer" => Running(t)
               /\ a # "recoverAnswer" => Hears("cancel", t)
               /\ a = "recoverAnswer" => Hears("recover", t)
    BY <1>4 DEF ServerInterrupts, Says
  <2>2. a \in Lines
    BY <2>1 DEF Lines
  <2>3. /\ \A w, u : Has(stdout', w, u) <=> (w = a /\ u = t) \/ Has(stdout, w, u)
        /\ \A w, x, u : After(stdout', w, x, u) <=>
             (x = a /\ u = t /\ Has(stdout, w, u)) \/ After(stdout, w, x, u)
    BY <1>0, <2>1, <2>2, Added
  <2>4. \A u \in Turns \ {t} : Same(u)
    BY <1>4, <2>3 DEF ServerInterrupts, Same, Hears, Upset
  <2>5. Turn(t)'
    BY SMTT(30), <1>0, <1>4, <2>1, <2>3 DEF ServerInterrupts, Hears, Upset, Turn, Call, Work, Running,
       Loading, Starting, Told, Stopped, Answered
  <2> QED
    BY <2>4, <2>5, SameKeeps
<1>5. CASE ServerStarts(t)
  <2>0. /\ Message("turn/start", t) \in stdin
        /\ stdin' = stdin \ {Message("turn/start", t)}
        /\ UNCHANGED <<clientVars, runtimeVars>>
    BY <1>5 DEF ServerStarts, Hears
  <2>1. CASE /\ server' = Set(server, t, "active")
             /\ \E a, b \in {"turn", "turn/started"} :
                  a # b /\ stdout' = stdout \o <<Message(a, t), Message(b, t)>>
    <3>1. PICK a, b \in {"turn", "turn/started"} :
                 a # b /\ stdout' = stdout \o <<Message(a, t), Message(b, t)>>
      BY <2>1
    <3>2. server' = Set(server, t, "active")
      BY <2>1
    <3>3. a \in Lines /\ b \in Lines
      BY DEF Lines
    <3>4. {a, b} = {"turn", "turn/started"}
      BY <3>1
    <3>5. /\ \A w, u : Has(stdout', w, u) <=> (w \in {a, b} /\ u = t) \/ Has(stdout, w, u)
          /\ \A w, x, u : After(stdout', w, x, u) <=>
               \/ x \in {a, b} /\ u = t /\ Has(stdout, w, u)
               \/ w = a /\ x = b /\ u = t
               \/ After(stdout, w, x, u)
      BY <1>0, <3>1, <3>3, TwoAdded
    <3>6. \A u \in Turns \ {t} : Same(u)
      BY <2>0, <3>2, <3>5 DEF Same
    <3>7. Turn(t)'
      <4>1. \A w : Has(stdout', w, t) <=> w \in {"turn", "turn/started"} \/ Has(stdout, w, t)
        BY <3>1, <3>4, <3>5
      <4>2. ASSUME NEW w, NEW x, After(stdout', w, x, t)
            PROVE  \/ After(stdout, w, x, t)
                   \/ x \in {"turn", "turn/started"} /\ Has(stdout, w, t)
                   \/ x \in {"turn", "turn/started"} /\ w \in {"turn", "turn/started"} /\ w # x
        <5>1. \/ x \in {a, b} /\ Has(stdout, w, t)
              \/ w = a /\ x = b
              \/ After(stdout, w, x, t)
          BY <4>2, <3>5
        <5> QED
          BY <5>1, <3>1
      <4> QED
        BY SMTT(30), <1>0, <2>0, <3>2, <4>1, <4>2 DEF Turn, Call, Work, Running, Loading, Starting, Told,
           Stopped, Answered
    <3> QED
      BY <3>6, <3>7, SameKeeps
  <2>2. CASE stdout' = stdout \o <<Message("turnError", t)>> /\ UNCHANGED server
    <3>1. /\ \A w, u : Has(stdout', w, u) <=> (w = "turnError" /\ u = t) \/ Has(stdout, w, u)
          /\ \A w, x, u : After(stdout', w, x, u) <=>
               (x = "turnError" /\ u = t /\ Has(stdout, w, u)) \/ After(stdout, w, x, u)
      BY <1>0, <2>2, Added DEF Lines
    <3>2. \A u \in Turns \ {t} : Same(u)
      BY <2>0, <2>2, <3>1 DEF Same
    <3>3. Turn(t)'
      BY SMTT(30), <1>0, <2>0, <2>2, <3>1 DEF Turn, Call, Work, Running, Loading, Starting, Told, Stopped,
         Answered
    <3> QED
      BY <3>2, <3>3, SameKeeps
  <2> QED
    BY <1>5, <2>1, <2>2 DEF ServerStarts, Says
<1> QED
  BY <1>1, <1>2, <1>3, <1>4, <1>5, QuietStep DEF ServerStep, ServerHears

LEMMA AloneKeeps ==
  ASSUME TypeOK, ~failed, Alone, ~failed', NEW t \in Turns,
         RuntimeStep(t) \/ CallStep(t) \/ LineStep(t) \/ ServerStep(t)
  PROVE  Alone'
<1>1. CASE Register(t)
  BY <1>1, TypesSplit DEF Register, Alone, OnThread, Names
<1>2. CASE ~Register(t)
  <2>1. operations' \subseteq operations
    BY <1>2 DEF RuntimeStep, CallStep, LineStep, ServerStep, clientVars, TripFailure, Forget,
       Settle, Ignore,
       StartTurn, LoadThread, RespondInteraction, CancelTurn, EndEarly, RecoverTurn,
       ThreadIsBusy, RegisterFails, Return, RecoverVerified, RecoverUnverified,
       ThreadLoaded, ThreadRefused, TurnStartAnswered, TurnStartRefused, TurnStarted, TurnCompleted,
       Question, Unsupported, CancelAnswered, RecoverAnswered,
       ServerLoads, ServerStarts, ServerAsks, ServerHears, ServerCompletes, ServerInterrupts
  <2> QED
    BY <2>1 DEF Alone
<1> QED
  BY <1>1, <1>2

\* Nothing that is recorded for good is forgotten.
LEMMA Forever ==
  TypeOK /\ [Next]_vars =>
    /\ failed => failed'
    /\ disposed => disposed'
    /\ upset > 0 => upset' > 0
    /\ early \subseteq early' /\ abandoned \subseteq abandoned'
<1> SUFFICES ASSUME TypeOK, [Next]_vars
             PROVE  /\ failed => failed'
                    /\ disposed => disposed'
                    /\ upset > 0 => upset' > 0
                    /\ early \subseteq early' /\ abandoned \subseteq abandoned'
  OBVIOUS
<1> USE TypesSplit DEF clientVars, runtimeVars, serverVars, TripFailure, Settle, Ignore,
   Bridged, Upset, Marks
<1>1. ASSUME NEW t \in Turns, RuntimeStep(t) \/ CallStep(t)
      PROVE  /\ failed => failed'
             /\ disposed => disposed'
             /\ upset > 0 => upset' > 0
             /\ early \subseteq early' /\ abandoned \subseteq abandoned'
  BY <1>1 DEF RuntimeStep, CallStep, StartTurn, LoadThread, RespondInteraction, CancelTurn,
     EndEarly,
     RecoverTurn, ThreadIsBusy, Register, RegisterFails, Return, RecoverVerified, RecoverUnverified
<1>2. ASSUME NEW t \in Turns, LineStep(t)
      PROVE  /\ failed => failed'
             /\ disposed => disposed'
             /\ upset > 0 => upset' > 0
             /\ early \subseteq early' /\ abandoned \subseteq abandoned'
  BY <1>2 DEF LineStep, ThreadLoaded, ThreadRefused, TurnStartAnswered, TurnStartRefused,
     TurnStarted,
     TurnCompleted, Question, Unsupported, CancelAnswered, RecoverAnswered
<1>3. ASSUME NEW t \in Turns, ServerStep(t)
      PROVE  /\ failed => failed'
             /\ disposed => disposed'
             /\ upset > 0 => upset' > 0
             /\ early \subseteq early' /\ abandoned \subseteq abandoned'
  BY <1>3 DEF ServerStep, ServerLoads, ServerStarts, ServerAsks, ServerHears, ServerCompletes,
     ServerInterrupts
<1>4. CASE Dispose \/ ServerFails
  BY <1>4 DEF Dispose, ServerFails
<1>5. CASE UNCHANGED vars
  BY <1>5 DEF vars
<1> QED
  BY <1>1, <1>2, <1>3, <1>4, <1>5 DEF Next

LEMMA OrderlyKeeps ==
  ASSUME TypeOK, Orderly, [Next]_vars, ~failed', abandoned' = {}
  PROVE  Alone' /\ \A u \in Turns : Turn(u)'
<1>1. ~failed /\ abandoned = {} /\ Alone /\ \A u \in Turns : Turn(u)
  BY Forever DEF Orderly
<1>2. ASSUME NEW t \in Turns, RuntimeStep(t) \/ CallStep(t) \/ LineStep(t) \/ ServerStep(t)
      PROVE  Alone' /\ \A u \in Turns : Turn(u)'
  <2>1. RuntimeStep(t) \/ CallStep(t) => stdout' = stdout
    BY DEF RuntimeStep, CallStep, StartTurn, LoadThread, RespondInteraction, CancelTurn, EndEarly,
       RecoverTurn, ThreadIsBusy, Register, RegisterFails, Return, RecoverVerified,
       RecoverUnverified
  <2>2. \A u \in Turns : Turn(u)'
    BY <1>1, <1>2, <2>1, QuietStep, LineStepKeeps, ServerStepKeeps
  <2>3. Alone'
    BY <1>1, <1>2, AloneKeeps
  <2> QED
    BY <2>2, <2>3
<1>3. CASE UNCHANGED vars
  <2>1. \A u \in Turns : Same(u)
    BY <1>3 DEF vars, clientVars, runtimeVars, serverVars, Same
  <2>2. Alone'
    BY <1>1, <1>3 DEF vars, clientVars, Alone
  <2> QED
    BY <1>1, <2>1, <2>2, SameKeeps
<1>4. ~Dispose /\ ~ServerFails
  BY <1>1 DEF Dispose, ServerFails, TripFailure
<1> QED
  BY <1>2, <1>3, <1>4 DEF Next

\* While nothing goes wrong in the server, it says nothing that is not supported,
\* and no operation is given up.
LEMMA CalmKeeps ==
  ASSUME TypeOK, Orderly, Calm, [Next]_vars PROVE Calm'
<1> SUFFICES ASSUME ~failed', upset' = 0
             PROVE  abandoned' = {} /\ \A t \in Turns : ~Has(stdout', "unsupported", t)
  BY DEF Calm
<1>1. /\ ~failed /\ upset = 0 /\ abandoned = {} /\ \A u \in Turns : ~Has(stdout, "unsupported", u)
      /\ stdout \in Seq(Line)
  BY Forever, TypesSplit DEF Calm, Marks, Pipes
<1>2. \A u \in Turns : Turn(u)
  BY <1>1 DEF Orderly
<1> USE DEF clientVars, runtimeVars, serverVars
<1>3. ASSUME NEW t \in Turns, LineStep(t)
      PROVE  abandoned' = {} /\ \A u \in Turns : ~Has(stdout', "unsupported", u)
  <2>1. PICK what : Takes(what, t) /\ stdout' = Tail(stdout)
    BY <1>1, <1>3 DEF LineStep, ThreadLoaded, ThreadRefused, TurnStartAnswered, TurnStartRefused,
       TurnStarted, TurnCompleted, Question, Unsupported, CancelAnswered, RecoverAnswered,
       TripFailure, Ignore
  <2>2. \A u \in Turns : ~Has(stdout', "unsupported", u)
    BY <1>1, <2>1, Taken
  <2>3. ~Unsupported(t)
    <3>1. CASE Takes("unsupported", t) /\ stdout' = Tail(stdout)
      BY <3>1, <1>1, Taken
    <3> QED
      BY <3>1 DEF Unsupported
  <2>4. codexTurnId[t] \in {None, t}
    BY <1>2 DEF Turn, Call
  <2>5. abandoned' = abandoned
    BY <1>3, <2>3, <2>4 DEF LineStep, ThreadLoaded, ThreadRefused, TurnStartAnswered,
       TurnStartRefused,
       TurnStarted, TurnCompleted, Question, CancelAnswered, RecoverAnswered
  <2> QED
    BY <1>1, <2>2, <2>5
<1>4. ASSUME NEW t \in Turns, RuntimeStep(t) \/ CallStep(t)
      PROVE  abandoned' = {} /\ \A u \in Turns : ~Has(stdout', "unsupported", u)
  BY <1>1, <1>4 DEF RuntimeStep, CallStep, StartTurn, LoadThread, RespondInteraction,
     CancelTurn, EndEarly,
     RecoverTurn, ThreadIsBusy, Register, RegisterFails, Return, RecoverVerified, RecoverUnverified
<1>5. ASSUME NEW t \in Turns, ServerStep(t)
      PROVE  abandoned' = {} /\ \A u \in Turns : ~Has(stdout', "unsupported", u)
  <2>1. abandoned' = {}
    BY <1>1, <1>5 DEF ServerStep, ServerLoads, ServerStarts, ServerAsks, ServerHears,
       ServerCompletes, ServerInterrupts
  <2>2. CASE stdout' = stdout
    BY <1>1, <2>1, <2>2
  <2>3. CASE \E a \in Lines \ {"unsupported"} : stdout' = stdout \o <<Message(a, t)>>
    BY <1>1, <2>1, <2>3, Added
  <2>4. CASE \E a, b \in Lines \ {"unsupported"} :
               stdout' = stdout \o <<Message(a, t), Message(b, t)>>
    <3>1. PICK a, b \in Lines \ {"unsupported"} :
                 stdout' = stdout \o <<Message(a, t), Message(b, t)>>
      BY <2>4
    <3>4. \A u \in Turns : ~Has(stdout', "unsupported", u)
      BY <1>1, <3>1, TwoAdded
    <3> QED
      BY <2>1, <3>4
  <2>5. \/ stdout' = stdout
        \/ \E a \in Lines \ {"unsupported"} : stdout' = stdout \o <<Message(a, t)>>
        \/ \E a, b \in Lines \ {"unsupported"} :
                     stdout' = stdout \o <<Message(a, t), Message(b, t)>>
    <3>2. CASE ServerStarts(t)
      BY <3>2 DEF ServerStarts, Says, Lines
    <3>3. CASE ServerAsks(t)
      <4>1. ~Upset
        BY <1>1 DEF Upset
      <4> QED
        BY <3>3, <4>1 DEF ServerAsks, Says, Lines
    <3>4. CASE ServerLoads(t)
      BY <3>4 DEF ServerLoads, Says, Lines
    <3>5. CASE ServerHears(t)
      BY <3>5 DEF ServerHears
    <3>6. CASE ServerCompletes(t)
      BY <3>6 DEF ServerCompletes, Says, Lines
    <3>7. CASE ServerInterrupts(t)
      BY <3>7 DEF ServerInterrupts, Says, Lines
    <3> QED
      BY <1>5, <3>2, <3>3, <3>4, <3>5, <3>6, <3>7 DEF ServerStep
  <2> QED
    BY <2>2, <2>3, <2>4, <2>5
<1>6. CASE UNCHANGED vars
  BY <1>1, <1>6 DEF vars
<1>7. ~Dispose /\ ~ServerFails
  BY <1>1 DEF Dispose, ServerFails, TripFailure
<1> QED
  BY <1>3, <1>4, <1>5, <1>6, <1>7 DEF Next

LEMMA SurvivalKeeps ==
  ASSUME TypeOK, Orderly, Calm, ClientSurvives, [Next]_vars PROVE ClientSurvives'
<1> SUFFICES ASSUME failed', ~(upset' > 0), ~disposed', early' = {} PROVE FALSE
  BY DEF ClientSurvives
<1>1. /\ ~(upset > 0) /\ ~disposed /\ early = {} /\ upset = 0
  BY Forever, TypesSplit DEF Marks
<1>2. ~failed
  BY <1>1 DEF ClientSurvives
<1>3. Alone /\ \A u \in Turns : Turn(u)
  BY <1>1, <1>2 DEF Calm, Orderly
<1> USE DEF clientVars, runtimeVars, serverVars
<1>4. ASSUME NEW t \in Turns, NEW what \in {"turn/started", "turn/completed", "question"},
             Takes(what, t)
      PROVE  /\ Addressed(t) = {t} /\ AddressedByTurn(t) = {t}
             /\ codexTurnId[t] \in {None, t}
             /\ what = "turn/completed" => codexTurnId[t] = t
             /\ what = "question" => t \notin ended
  <2>1. Turn(t) /\ stdout \in Seq(Line) /\ stdout # <<>> /\ Head(stdout) = Message(what, t)
    BY <1>3, <1>4, TypesSplit DEF Takes, Pipes
  <2>2. /\ \A w, u : Has(stdout, w, u) <=> (w = what /\ u = t) \/ Has(Tail(stdout), w, u)
        /\ \A w, x, u : After(stdout, w, x, u) <=>
             (w = what /\ u = t /\ Has(Tail(stdout), x, u)) \/ After(Tail(stdout), w, x, u)
    BY <2>1, Shifted
  <2>3. t \in operations /\ codexTurnId[t] \in {None, t}
    BY <2>1, <2>2 DEF Turn, Call, Told
  <2>4. what = "turn/completed" => codexTurnId[t] = t
    BY <2>1, <2>2, <2>3 DEF Turn, Call, Work, Starting, Told, Registered
  <2>5. what = "question" => t \notin ended
    BY <1>1, <2>1, <2>2, <2>3 DEF Turn, Call, Stopped
  <2> QED
    BY <1>3, <2>3, <2>4, <2>5, AddressedIsOwn
<1>5. ASSUME NEW t \in Turns, LineStep(t) PROVE failed' = failed
  <2>1. CASE TurnStarted(t)
    <3>1. Takes("turn/started", t)
      BY <2>1 DEF TurnStarted
    <3> QED
      BY <2>1, <3>1, <1>4 DEF TurnStarted
  <2>2. CASE TurnCompleted(t)
    <3>1. Takes("turn/completed", t)
      BY <2>2 DEF TurnCompleted
    <3> QED
      BY <2>2, <3>1, <1>4 DEF TurnCompleted, Ignore
  <2>3. CASE Question(t)
    <3>1. Takes("question", t)
      BY <2>3 DEF Question
    <3> QED
      BY <2>3, <3>1, <1>4 DEF Question
  <2>4. CASE ~(TurnStarted(t) \/ TurnCompleted(t) \/ Question(t))
    BY <1>5, <2>4 DEF LineStep, ThreadLoaded, ThreadRefused, TurnStartAnswered, TurnStartRefused,
       Unsupported, CancelAnswered, RecoverAnswered
  <2> QED
    BY <2>1, <2>2, <2>3, <2>4
<1>6. ASSUME NEW t \in Turns, RuntimeStep(t) \/ CallStep(t) \/ ServerStep(t) PROVE failed' = failed
  BY <1>6 DEF RuntimeStep, CallStep, StartTurn, LoadThread, RespondInteraction, CancelTurn,
     EndEarly,
     RecoverTurn, ThreadIsBusy, Register, RegisterFails, Return, RecoverVerified, RecoverUnverified,
     ServerStep, ServerLoads, ServerStarts, ServerAsks, ServerHears, ServerCompletes,
     ServerInterrupts
<1>7. ~Dispose /\ ~ServerFails
  <2>1. ~Upset
    BY <1>1 DEF Upset
  <2>2. ~Dispose
    BY DEF Dispose
  <2> QED
    BY <2>1, <2>2 DEF ServerFails
<1>8. ~UNCHANGED vars
  BY <1>2 DEF vars
<1> QED
  BY <1>2, <1>5, <1>6, <1>7, <1>8 DEF Next

CodexInv == TypeOK /\ Orderly /\ Calm /\ ClientSurvives

LEMMA CodexInvInit == Init => CodexInv
<1> SUFFICES ASSUME Init PROVE CodexInv
  OBVIOUS
<1>1. TypeOK
  BY CodexInit
<1>2. Orderly
  <2>1. \A t \in Turns : Turn(t)
    BY Empty DEF Init, Turn, Call, Work, Running, Loading, Starting, Told, Stopped, Answered,
       Before, Registered
  <2> QED
    BY <2>1 DEF Init, Orderly, Alone
<1>3. Calm /\ ClientSurvives
  BY Empty DEF Init, Calm, ClientSurvives
<1> QED
  BY <1>1, <1>2, <1>3 DEF CodexInv

LEMMA CodexInvariant == Spec => []CodexInv
<1>1. CodexInv /\ [Next]_vars => CodexInv'
  <2> SUFFICES ASSUME CodexInv, [Next]_vars, TypeOK' PROVE CodexInv'
    BY TypesNext DEF CodexInv
  <2>1. Orderly'
    BY OrderlyKeeps DEF CodexInv, Orderly
  <2> QED
    BY <2>1, CalmKeeps, SurvivalKeeps DEF CodexInv
<1> QED
  BY CodexInvInit, <1>1, PTL DEF Spec

\* The client fails for nobody's turn, whatever the callers do and in whatever order
\* the server answers, unless something went wrong outside it.
THEOREM ClientAlwaysSurvives == Spec => []ClientSurvives
<1>1. CodexInv => ClientSurvives
  BY DEF CodexInv
<1> QED
  BY CodexInvariant, <1>1, PTL

\* A turn is over for the client, and for the runtime, only once the server's is.
THEOREM FreedOnlyOnProof == Spec => []FreedOnProof
<1>1. CodexInv => FreedOnProof
  BY DEF CodexInv, Orderly, Turn, Call, Work, Stopped, FreedOnProof, Registered
<1> QED
  BY CodexInvariant, <1>1, PTL

\* Whoever waits has something to wait for.
THEOREM NobodyEverWaitsInVain == Spec => []NobodyWaitsInVain
<1>1. CodexInv => NobodyWaitsInVain
  <2> SUFFICES ASSUME CodexInv, ~failed, abandoned = {} PROVE NobodyWaitsInVain
    BY DEF NobodyWaitsInVain
  <2> DEFINE Comes(request, lines, t) ==
        \/ Message(request, t) \in stdin
        \/ \E n \in DOMAIN stdout : stdout[n].turn = t /\ stdout[n].what \in lines
  <2>1. ASSUME NEW request, NEW lines, NEW t, NEW w \in lines, Has(stdout, w, t)
        PROVE  Comes(request, lines, t)
    BY <2>1 DEF Has, Message
  <2>2. ASSUME NEW request, NEW lines, NEW t, Message(request, t) \in stdin
        PROVE  Comes(request, lines, t)
    BY <2>2
  <2>3. gate \in Turns \cup {None} /\ \A t \in Turns : Turn(t)
    BY TypesSplit DEF CodexInv, Orderly, Names
  <2> HIDE DEF Comes
  <2>4. gate # None => gate \in operations \ ended
    BY <2>3 DEF Turn, Call
  <2>5. ASSUME NEW t \in Turns
        PROVE  /\ pc[t] = "loading" => Comes("thread/start", {"thread", "threadError"}, t)
               /\ pc[t] = "starting" => Comes("turn/start", {"turn", "turnError"}, t)
               /\ pc[t] = "running" => Running(t) \/ Comes("none", {"turn/completed"}, t)
               /\ cancel[t] = "ready" => pc[t] = "starting"
               /\ cancel[t] = "interrupt" => Comes("cancel", {"cancelAnswer", "cancelError"}, t)
               /\ recover[t] = "interrupt" => Comes("recover", {"recoverAnswer"}, t)
    <3>1. Turn(t)
      BY <2>3
    <3>2. pc[t] = "loading" => Comes("thread/start", {"thread", "threadError"}, t)
      BY <2>1, <2>2, <3>1 DEF Turn, Loading
    <3>3. pc[t] = "starting" => Comes("turn/start", {"turn", "turnError"}, t)
      BY <2>1, <2>2, <3>1 DEF Turn, Starting
    <3>4. pc[t] = "running" => Running(t) \/ Comes("none", {"turn/completed"}, t)
      <4>1. server[t] \in {"none", "active", "asking", "interrupting", "over"}
        BY TypesSplit DEF CodexInv, Places
      <4> QED
        BY <2>1, <3>1, <4>1 DEF Turn, Work, Running, Registered
    <3>5. cancel[t] = "ready" => pc[t] = "starting"
      BY <3>1 DEF Turn, Stopped
    <3>6. cancel[t] = "interrupt" => Comes("cancel", {"cancelAnswer", "cancelError"}, t)
      BY <2>1, <2>2, <3>1 DEF Turn, Answered
    <3>7. recover[t] = "interrupt" => Comes("recover", {"recoverAnswer"}, t)
      BY <2>1, <2>2, <3>1 DEF Turn, Answered
    <3> QED
      BY <3>2, <3>3, <3>4, <3>5, <3>6, <3>7
  <2> QED
    BY <2>4, <2>5 DEF NobodyWaitsInVain, Comes
<1> QED
  BY CodexInvariant, <1>1, PTL
=============================================================================
