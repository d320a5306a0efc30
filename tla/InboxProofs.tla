---------------------------- MODULE InboxProofs -----------------------------
(***************************************************************************)
(* Proofs about Inbox, for any messages, deliveries and handlers, inside   *)
(* the transaction middleware and outside it.                              *)
(*                                                                         *)
(* InboxInv has two halves. Tidy: inside the transaction middleware a      *)
(* message that is not registered has left no row and no database effect,  *)
(* and at most one delivery of a message is about to commit. Backed: all   *)
(* that a delivery has passed, it has seen done (its handlers are behind   *)
(* it, in its transaction or already in effect), so that a row it leaves   *)
(* stands for an effect.                                                   *)
(***************************************************************************)
EXTENDS Inbox, TLAPS

\* A delivery that is in a handler is in one of the H.
InHandler == \A d \in Delivery : pc[d] \in {"handle", "registerHandler"} => at[d] <= H

Committing ==
  \A d \in Delivery : pc[d] = "commit" =>
    /\ InTransaction(d)
    /\ MessageOf[d] \notin processedMessages
    /\ \A e \in Delivery \ {d} :
         MessageOf[e] = MessageOf[d] => pc[e] # "commit"

Tidy ==
  \A h \in Enlisted, m \in Transactional :
    /\ m \notin processedMessages => effects[h][m] = 0
    /\ effects[h][m] <= 1

\* The handler's effect has come about, or is in the delivery's transaction.
HandledBy(d, h) == h \in written[d] \/ effects[h][MessageOf[d]] > 0

BackedUp(d) ==
  /\ ~InTransaction(d) => written[d] = {}
  /\ \A h \in registered[d] : HandledBy(d, h)
  /\ pc[d] = "registerHandler" => HandledBy(d, at[d])
  /\ d \notin failed => \A h \in Handler : h < at[d] => HandledBy(d, h)
  /\ pc[d] \in {"registerMessage", "commit"} => at[d] = H + 1 /\ d \notin failed

Backed == \A d \in Delivery : BackedUp(d)

USE InboxAssumption

-----------------------------------------------------------------------------

\* TakeEffect adds one to the effect of each handler in hs for d's message.
LEMMA TakenEffect ==
  ASSUME TypeOK, NEW d \in Delivery, NEW hs, TakeEffect(d, hs)
  PROVE  /\ effects' \in [Handler -> [Message -> Nat]]
         /\ \A h \in Handler, m \in Message :
              effects'[h][m] = IF h \in hs /\ m = MessageOf[d]
                                 THEN effects[h][m] + 1 ELSE effects[h][m]
BY DEF TakeEffect, TypeOK

LEMMA TypeStep == TypeOK /\ InHandler /\ [Next]_vars => (TypeOK /\ InHandler)'
<1> SUFFICES ASSUME TypeOK, InHandler, [Next]_vars PROVE (TypeOK /\ InHandler)'
  OBVIOUS
<1> USE DEF TypeOK, InHandler, PC, Goto
<1>1. CASE UNCHANGED vars
  BY <1>1 DEF vars
<1>2. ASSUME NEW d \in Delivery, Receive(d) \/ DeliveryStep(d) \/ Crash(d)
      PROVE  (TypeOK /\ InHandler)'
  <2>1. CASE Receive(d)
    BY <2>1 DEF Receive
  <2>2. CASE AlreadyProcessed(d) \/ NotYetProcessed(d) \/ AllHandled(d)
               \/ SomeFailed(d) \/ CallHandler(d) \/ RegisterThrows(d)
    BY <2>2 DEF AlreadyProcessed, NotYetProcessed, AllHandled, SomeFailed,
                CallHandler, RegisterThrows
  <2>3. CASE SkipHandler(d)
    BY <2>3 DEF SkipHandler, NextHandler
  <2>4. CASE HandleInTransaction(d)
    BY <2>4 DEF HandleInTransaction, Handler
  <2>5. CASE HandleAtOnce(d)
    <3>1. effects' \in [Handler -> [Message -> Nat]]
      BY <2>5, TakenEffect DEF HandleAtOnce
    <3> QED
      BY <2>5, <3>1 DEF HandleAtOnce
  <2>6. CASE HandleFails(d)
    BY <2>6 DEF HandleFails, NextHandler
  <2>7. CASE RegisterHandler(d)
    <3>1. at[d] \in Handler /\ MessageOf[d] \in Message
      BY <2>7 DEF RegisterHandler, Handler
    <3>2. at' \in [Delivery -> 1 .. H + 1]
      BY <2>7 DEF RegisterHandler, NextHandler
    <3>3. processedHandlers' \in SUBSET (Handler \X Message)
      BY <2>7, <3>1 DEF RegisterHandler
    <3>4. registered' \in [Delivery -> SUBSET Handler]
      BY <2>7, <3>1 DEF RegisterHandler
    <3>5. InHandler'
      BY <2>7 DEF RegisterHandler, NextHandler
    <3> QED
      BY <2>7, <3>2, <3>3, <3>4, <3>5 DEF RegisterHandler
  <2>8. CASE RegisterMessage(d)
    BY <2>8 DEF RegisterMessage
  <2>9. CASE Commit(d)
    <3>1. effects' \in [Handler -> [Message -> Nat]]
      BY <2>9, TakenEffect DEF Commit
    <3>2. processedHandlers' \in SUBSET (Handler \X Message)
      BY <2>9 DEF Commit
    <3> QED
      BY <2>9, <3>1, <3>2 DEF Commit
  <2>10. CASE Crash(d)
    BY <2>10 DEF Crash
  <2> QED
    BY <1>2, <2>1, <2>2, <2>3, <2>4, <2>5, <2>6, <2>7, <2>8, <2>9, <2>10
    DEF DeliveryStep
<1> QED
  BY <1>1, <1>2 DEF Next

LEMMA TypeInvariant == Spec => [](TypeOK /\ InHandler)
<1>1. Init => TypeOK /\ InHandler
  BY DEF Init, TypeOK, InHandler, PC, Handler
<1> QED
  BY <1>1, TypeStep, PTL DEF Spec

\* The type invariant of the inbox.
THEOREM TypeCorrect == Spec => []TypeOK
BY TypeInvariant, PTL

-----------------------------------------------------------------------------

LEMMA TidyStep ==
  TypeOK /\ InHandler /\ Committing /\ Tidy /\ [Next]_vars => (Committing /\ Tidy)'
<1> SUFFICES ASSUME TypeOK, InHandler, Committing, Tidy, [Next]_vars
             PROVE  (Committing /\ Tidy)'
  OBVIOUS
<1> USE DEF Committing, Tidy, Goto
<1>1. CASE UNCHANGED vars
  BY <1>1 DEF vars
<1>2. ASSUME NEW d \in Delivery, Receive(d) \/ DeliveryStep(d) \/ Crash(d)
      PROVE  (Committing /\ Tidy)'
  <2> USE DEF TypeOK
  <2>1. CASE \/ Receive(d) \/ Crash(d)
             \/ AlreadyProcessed(d) \/ NotYetProcessed(d) \/ AllHandled(d)
             \/ SomeFailed(d) \/ SkipHandler(d) \/ CallHandler(d)
             \/ HandleInTransaction(d) \/ HandleFails(d)
             \/ RegisterHandler(d) \/ RegisterThrows(d)
    BY <2>1 DEF Receive, Crash, AlreadyProcessed, NotYetProcessed, AllHandled,
                SomeFailed, SkipHandler, CallHandler, HandleInTransaction,
                HandleFails, RegisterHandler, RegisterThrows
  <2>2. CASE HandleAtOnce(d)
    <3>1. Committing'
      BY <2>2 DEF HandleAtOnce
    <3>2. ASSUME NEW h \in Enlisted, NEW m \in Transactional
          PROVE  effects'[h][m] = effects[h][m]
      BY <2>2, TakenEffect DEF HandleAtOnce, InTransaction
    <3> QED
      BY <2>2, <3>1, <3>2 DEF HandleAtOnce
  <2>3. CASE RegisterMessage(d)
    BY <2>3 DEF RegisterMessage, Rivals
  <2>4. CASE Commit(d)
    <3>1. MessageOf[d] \notin processedMessages
      BY <2>4 DEF Commit
    <3>2. processedMessages' = processedMessages \cup {MessageOf[d]}
      BY <2>4 DEF Commit
    <3>3. Committing'
      BY <2>4 DEF Commit
    <3>4. ASSUME NEW h \in Enlisted, NEW m \in Transactional
          PROVE  /\ m \notin processedMessages' => effects'[h][m] = 0
                 /\ effects'[h][m] <= 1
      <4>1. effects'[h][m] = IF h \in written[d] /\ m = MessageOf[d]
                               THEN effects[h][m] + 1 ELSE effects[h][m]
        BY <2>4, TakenEffect DEF Commit
      <4> QED
        BY <3>1, <3>2, <4>1
    <3> QED
      BY <3>3, <3>4
  <2> QED
    BY <1>2, <2>1, <2>2, <2>3, <2>4 DEF DeliveryStep
<1> QED
  BY <1>1, <1>2 DEF Next

LEMMA TidyInvariant == Spec => [](Committing /\ Tidy)
<1>1. Init => Committing /\ Tidy
  BY DEF Init, Committing, Tidy, Handler
<1> QED
  BY <1>1, TidyStep, TypeInvariant, PTL DEF Spec

-----------------------------------------------------------------------------

\* Effects are never taken back, and a step of a delivery takes nothing out of
\* the transaction of any.
LEMMA Grows ==
  ASSUME TypeOK, InHandler, NEW d \in Delivery,
         Receive(d) \/ DeliveryStep(d) \/ Crash(d)
  PROVE  /\ \A h \in Handler, m \in Message : effects[h][m] > 0 => effects'[h][m] > 0
         /\ \A e \in Delivery : written[e] \subseteq written'[e]
<1>0. \A h \in Handler, m \in Message : effects[h][m] \in Nat
  BY DEF TypeOK
<1>1. CASE TakeEffect(d, {at[d]}) /\ UNCHANGED written
  <2>1. \A h \in Handler, m \in Message : effects'[h][m] \in {effects[h][m], effects[h][m] + 1}
    BY <1>1, TakenEffect
  <2> QED
    BY <1>0, <1>1, <2>1
<1>2. CASE TakeEffect(d, written[d]) /\ UNCHANGED written
  <2>1. \A h \in Handler, m \in Message : effects'[h][m] \in {effects[h][m], effects[h][m] + 1}
    BY <1>2, TakenEffect
  <2> QED
    BY <1>0, <1>2, <2>1
<1>3. CASE HandleInTransaction(d)
  BY <1>3 DEF HandleInTransaction, TypeOK
<1>4. CASE UNCHANGED <<effects, written>>
  BY <1>4
<1> QED
  BY <1>1, <1>2, <1>3, <1>4
  DEF Receive, Crash, DeliveryStep, AlreadyProcessed, NotYetProcessed,
      AllHandled, SomeFailed, SkipHandler, CallHandler, HandleAtOnce, Commit,
      HandleFails, RegisterHandler, RegisterMessage, RegisterThrows

\* What a step of d leaves of the other deliveries.
LEMMA Others ==
  ASSUME TypeOK, NEW d \in Delivery, Receive(d) \/ DeliveryStep(d) \/ Crash(d),
         NEW e \in Delivery, e # d
  PROVE  /\ UNCHANGED <<pc[e], at[e], written[e], registered[e]>>
         /\ e \in failed' <=> e \in failed
BY DEF Receive, Crash, DeliveryStep, AlreadyProcessed, NotYetProcessed,
   AllHandled, SomeFailed, SkipHandler, CallHandler, HandleInTransaction,
   HandleAtOnce, Commit, HandleFails, RegisterHandler, RegisterMessage,
   RegisterThrows, Goto, NextHandler, TypeOK

LEMMA BackedStep ==
  TypeOK /\ InHandler /\ ProcessedIsHandled /\ Backed /\ [Next]_vars
    => (ProcessedIsHandled /\ Backed)'
<1> SUFFICES ASSUME TypeOK, InHandler, ProcessedIsHandled, Backed, [Next]_vars
             PROVE  (ProcessedIsHandled /\ Backed)'
  OBVIOUS
<1>1. CASE UNCHANGED vars
  BY <1>1 DEF vars, ProcessedIsHandled, Backed, BackedUp, HandledBy
<1>2. ASSUME NEW d \in Delivery, Receive(d) \/ DeliveryStep(d) \/ Crash(d)
      PROVE  (ProcessedIsHandled /\ Backed)'
  <2>1. /\ \A h \in Handler, m \in Message : effects[h][m] > 0 => effects'[h][m] > 0
        /\ \A e \in Delivery : written[e] \subseteq written'[e]
    BY <1>2, Grows
  <2>2. \A e \in Delivery : /\ registered[e] \subseteq Handler /\ MessageOf[e] \in Message
                            /\ written[e] \subseteq Handler
                            /\ at[e] \in 1 .. H + 1
    BY DEF TypeOK
  <2>3. \A e \in Delivery, h \in Handler : HandledBy(e, h) => HandledBy(e, h)'
    BY <2>1, <2>2 DEF HandledBy
  <2>4. ASSUME UNCHANGED <<processedMessages, processedHandlers>>
        PROVE  ProcessedIsHandled'
    <3>1. \A p \in processedHandlers : p[1] \in Handler /\ p[2] \in Message
      BY DEF TypeOK
    <3>2. processedMessages \subseteq Message
      BY DEF TypeOK
    <3> QED
      BY <2>1, <2>4, <3>1, <3>2 DEF ProcessedIsHandled
  <2>5. ASSUME NEW e \in Delivery, e # d
        PROVE  BackedUp(e)'
    <3>1. /\ UNCHANGED <<pc[e], at[e], written[e], registered[e]>>
          /\ e \in failed' <=> e \in failed
      BY <1>2, <2>5, Others
    <3>2. BackedUp(e)
      BY DEF Backed
    <3>3. pc[e] = "registerHandler" => at[e] \in Handler
      BY <2>2 DEF InHandler, Handler
    <3> QED
      BY <2>2, <2>3, <3>1, <3>2, <3>3 DEF BackedUp
  <2>6. BackedUp(d)
    BY DEF Backed
  <2> SUFFICES ProcessedIsHandled' /\ BackedUp(d)'
    BY <2>5 DEF Backed
  <2>7. CASE \/ Receive(d) \/ Crash(d) \/ AlreadyProcessed(d)
             \/ NotYetProcessed(d) \/ AllHandled(d) \/ SomeFailed(d)
             \/ CallHandler(d) \/ RegisterThrows(d)
    <3>1. /\ UNCHANGED <<processedMessages, processedHandlers, at, failed, written, registered>>
          /\ pc'[d] \notin {"registerHandler", "commit"}
          /\ pc'[d] = "registerMessage" => at[d] > H /\ d \notin failed
      BY <2>7 DEF Receive, Crash, AlreadyProcessed, NotYetProcessed, AllHandled,
         SomeFailed, CallHandler, RegisterThrows, Goto, TypeOK
    <3> QED
      BY <2>2, <2>3, <2>4, <2>6, <3>1 DEF BackedUp
  <2>8. CASE SkipHandler(d)
    <3>1. at[d] \in Handler /\ HandledBy(d, at[d])
      BY <2>2, <2>8 DEF SkipHandler, ProcessedIsHandled, HandledBy, Handler
    <3>2. /\ UNCHANGED <<processedMessages, processedHandlers, failed, written, registered>>
          /\ pc'[d] = "handler" /\ at'[d] = at[d] + 1
      BY <2>8 DEF SkipHandler, NextHandler, TypeOK
    <3>3. \A h \in Handler : h < at'[d] => h = at[d] \/ h < at[d]
      BY <2>2, <3>2 DEF Handler
    <3> QED
      BY <2>2, <2>3, <2>4, <2>6, <3>1, <3>2, <3>3 DEF BackedUp
  <2>9. CASE HandleInTransaction(d) \/ HandleAtOnce(d)
    <3>1. at[d] \in Handler /\ MessageOf[d] \in Message
      BY <2>2, <2>9 DEF HandleInTransaction, HandleAtOnce, Goto, InHandler, Handler
    <3>2. HandledBy(d, at[d])'
      <4>1. CASE HandleInTransaction(d)
        BY <4>1 DEF HandleInTransaction, HandledBy, TypeOK
      <4>2. CASE HandleAtOnce(d)
        <5>1. effects[at[d]][MessageOf[d]] \in Nat
          BY <3>1 DEF TypeOK
        <5>2. effects'[at[d]][MessageOf[d]] = effects[at[d]][MessageOf[d]] + 1
          BY <3>1, <4>2, TakenEffect DEF HandleAtOnce
        <5> QED
          BY <4>2, <5>1, <5>2 DEF HandleAtOnce, HandledBy
      <4> QED
        BY <2>9, <4>1, <4>2
    <3>3. /\ UNCHANGED <<processedMessages, processedHandlers, at, failed, registered>>
          /\ pc'[d] = "registerHandler"
          /\ ~InTransaction(d) => UNCHANGED written
      BY <2>9 DEF HandleInTransaction, HandleAtOnce, Goto, TypeOK
    <3> QED
      BY <2>2, <2>3, <2>4, <2>6, <3>1, <3>2, <3>3 DEF BackedUp
  <2>10. CASE HandleFails(d)
    <3>1. /\ UNCHANGED <<processedMessages, processedHandlers, written, registered>>
          /\ d \in failed' /\ pc'[d] = "handler"
      BY <2>10 DEF HandleFails, Goto, TypeOK
    <3> QED
      BY <2>2, <2>3, <2>4, <2>6, <3>1 DEF BackedUp
  <2>11. CASE RegisterHandler(d)
    <3>1. at[d] \in Handler /\ HandledBy(d, at[d]) /\ MessageOf[d] \in Message
      BY <2>2, <2>6, <2>11 DEF RegisterHandler, Goto, BackedUp, InHandler, Handler
    <3>2. /\ UNCHANGED <<processedMessages, failed, written, effects>>
          /\ pc'[d] = "handler" /\ at'[d] = at[d] + 1
          /\ registered'[d] \subseteq registered[d] \cup {at[d]}
      BY <2>11 DEF RegisterHandler, NextHandler, Goto, TypeOK
    <3>3. \A h \in Handler : h < at'[d] => h = at[d] \/ h < at[d]
      BY <2>2, <3>2 DEF Handler
    <3>4. BackedUp(d)'
      BY <2>2, <2>3, <2>6, <3>1, <3>2, <3>3 DEF BackedUp
    <3>5. CASE InTransaction(d)
      BY <2>4, <2>11, <3>2, <3>4, <3>5 DEF RegisterHandler
    <3>6. CASE ~InTransaction(d)
      <4>1. effects[at[d]][MessageOf[d]] > 0
        BY <2>6, <3>1, <3>6 DEF BackedUp, HandledBy
      <4>2. processedHandlers' = processedHandlers \cup {<<at[d], MessageOf[d]>>}
        BY <2>11, <3>6 DEF RegisterHandler
      <4> QED
        BY <3>2, <3>4, <4>1, <4>2 DEF ProcessedIsHandled
    <3> QED
      BY <3>5, <3>6
  <2>12. CASE RegisterMessage(d)
    <3>1. at[d] = H + 1 /\ d \notin failed
      BY <2>6, <2>12 DEF RegisterMessage, Goto, BackedUp
    <3>2. /\ UNCHANGED <<processedHandlers, at, failed, written, registered, effects>>
          /\ pc'[d] \in {"commit", "done"}
      BY <2>12 DEF RegisterMessage, Goto, TypeOK
    <3>3. BackedUp(d)'
      BY <2>2, <2>3, <2>6, <3>1, <3>2 DEF BackedUp
    <3>4. CASE InTransaction(d)
      BY <2>4, <2>12, <3>2, <3>3, <3>4 DEF RegisterMessage
    <3>5. CASE ~InTransaction(d)
      <4>1. \A h \in Handler : h < at[d]
        BY <3>1 DEF Handler
      <4>2. \A h \in Handler : effects[h][MessageOf[d]] > 0
        BY <2>6, <3>1, <3>5, <4>1 DEF BackedUp, HandledBy
      <4>3. processedMessages' = processedMessages \cup {MessageOf[d]}
        BY <2>12, <3>5 DEF RegisterMessage
      <4> QED
        BY <3>2, <3>3, <4>2, <4>3 DEF ProcessedIsHandled
    <3> QED
      BY <3>4, <3>5
  <2>13. CASE Commit(d)
    <3>1. at[d] = H + 1 /\ d \notin failed
      BY <2>6, <2>13 DEF Commit, Goto, BackedUp
    <3>2. /\ UNCHANGED <<at, failed, written, registered>>
          /\ pc'[d] = "done"
          /\ processedMessages' = processedMessages \cup {MessageOf[d]}
          /\ processedHandlers' =
               processedHandlers \cup {<<h, MessageOf[d]>> : h \in registered[d]}
      BY <2>13 DEF Commit, Goto, TypeOK
    <3>3. BackedUp(d)'
      BY <2>2, <2>3, <2>6, <3>1, <3>2 DEF BackedUp
    <3>4. ASSUME NEW h \in Handler, HandledBy(d, h)
          PROVE  effects'[h][MessageOf[d]] > 0
      <4>1. effects[h][MessageOf[d]] \in Nat /\ MessageOf[d] \in Message
        BY <2>2 DEF TypeOK
      <4>2. CASE h \in written[d]
        <5>1. effects'[h][MessageOf[d]] = effects[h][MessageOf[d]] + 1
          BY <2>13, <4>1, <4>2, TakenEffect DEF Commit
        <5> QED
          BY <4>1, <5>1
      <4> QED
        BY <2>1, <3>4, <4>1, <4>2 DEF HandledBy
    <3>5. \A h \in Handler : HandledBy(d, h)
      BY <2>6, <3>1 DEF BackedUp, Handler
    <3>6. \A h \in Handler : effects'[h][MessageOf[d]] > 0
      BY <3>4, <3>5
    <3>7. \A p \in processedHandlers : p[1] \in Handler /\ p[2] \in Message
      BY DEF TypeOK
    <3>8. processedMessages \subseteq Message
      BY DEF TypeOK
    <3>9. ASSUME NEW m \in processedMessages', NEW h \in Handler
          PROVE  effects'[h][m] > 0
      BY <2>1, <3>2, <3>6, <3>8 DEF ProcessedIsHandled
    <3>10. ASSUME NEW p \in processedHandlers'
           PROVE  effects'[p[1]][p[2]] > 0
      <4>1. CASE p \in processedHandlers
        BY <2>1, <3>7, <4>1 DEF ProcessedIsHandled
      <4>2. CASE p \notin processedHandlers
        <5>1. PICK h \in registered[d] : p = <<h, MessageOf[d]>>
          BY <3>2, <4>2
        <5> QED
          BY <2>2, <3>6, <5>1
      <4> QED
        BY <4>1, <4>2
    <3> QED
      BY <3>3, <3>9, <3>10 DEF ProcessedIsHandled
  <2> QED
    BY <1>2, <2>7, <2>8, <2>9, <2>10, <2>11, <2>12, <2>13 DEF DeliveryStep
<1> QED
  BY <1>1, <1>2 DEF Next

\* InboxMessageProcessingMiddleware, with the transaction middleware or
\* without: what it has marked as processed has been handled.
THEOREM ProcessedIsHandledAlways == Spec => []ProcessedIsHandled
<1>1. Init => ProcessedIsHandled /\ Backed
  BY DEF Init, ProcessedIsHandled, Backed, BackedUp, Handler
<1> QED
  BY <1>1, BackedStep, TypeInvariant, PTL DEF Spec

\* TransactionScopeMessageProcessingMiddleware around
\* InboxMessageProcessingMiddleware: one database effect per handler and message,
\* together with the message's row, however the message is delivered.
THEOREM ExactlyOnceAlways == Spec => []ExactlyOnce
<1>1. TypeOK /\ Tidy /\ ProcessedIsHandled => ExactlyOnce
  <2> SUFFICES ASSUME TypeOK, Tidy, ProcessedIsHandled,
                      NEW m \in Transactional, NEW h \in Enlisted
               PROVE  effects[h][m] = IF m \in processedMessages THEN 1 ELSE 0
    BY DEF ExactlyOnce
  <2>1. effects[h][m] \in Nat
    BY DEF TypeOK, Handler
  <2>2. /\ m \notin processedMessages => effects[h][m] = 0
        /\ effects[h][m] <= 1
    BY DEF Tidy
  <2>3. m \in processedMessages => effects[h][m] > 0
    BY DEF ProcessedIsHandled, Handler
  <2> QED
    BY <2>1, <2>2, <2>3
<1> QED
  BY <1>1, TidyInvariant, TypeInvariant, ProcessedIsHandledAlways, PTL
=============================================================================
