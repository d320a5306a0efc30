------------------------------- MODULE Inbox --------------------------------
(***************************************************************************)
(* The processing of events by NEvo.Messaging with the inbox: deliveries   *)
(* of the same message, repeated or concurrent, each in a process of its   *)
(* own, through InboxMessageProcessingMiddleware, for the message and for  *)
(* each handler (the services register it as both), and, for the messages  *)
(* that its ShouldApply selects, through                                   *)
(* TransactionScopeMessageProcessingMiddleware around it.                  *)
(*                                                                         *)
(* The inbox makes its middleware single-threaded, so that the handlers of *)
(* an event run one after another, in the order of the registry (1 .. H);  *)
(* a failed handler does not stop those after it. The database is external:*)
(* an insert of a row that exists throws, one that another open            *)
(* transaction has inserted waits, and of two open transactions that look  *)
(* for the same row the database may throw one out (a deadlock of their    *)
(* range locks).                                                           *)
(***************************************************************************)
EXTENDS Naturals

CONSTANTS
  Message,
  Delivery,
  MessageOf,      \* MessageOf[d]: the message that d delivers
  H,              \* the number of handlers of each message
  Enlisted,       \* handlers whose effects enlist in an ambient transaction
  Transactional,  \* messages to which the transaction middleware applies
  HandlersMayFail,
  MaxCrash        \* bound on the deliveries whose process dies

Handler == 1 .. H

ASSUME InboxAssumption ==
  /\ MessageOf \in [Delivery -> Message]
  /\ H \in Nat
  /\ Enlisted \subseteq Handler
  /\ Transactional \subseteq Message
  /\ HandlersMayFail \in BOOLEAN
  /\ MaxCrash \in Nat

VARIABLES
  processedMessages,  \* InboxProcessedMessages, as committed
  processedHandlers,  \* InboxProcessedHandlers, as committed: <<handler, message>>
  effects,            \* effects[h][m]: how often h's effect for m has come about
  pc,                 \* where a delivery is
  at,                 \* at[d]: the handler that the delivery has reached
  failed,             \* the deliveries of which some handler failed
  written,            \* written[d]: handlers whose effect is in d's transaction
  registered,         \* registered[d]: handlers whose row is in d's transaction
  crashes             \* the number of crashes so far

vars == <<processedMessages, processedHandlers, effects, pc, at, failed,
          written, registered, crashes>>

PC == {"idle", "message", "handler", "handle", "registerHandler",
       "registerMessage", "commit", "done"}

Init ==
  /\ processedMessages = {}
  /\ processedHandlers = {}
  /\ effects = [h \in Handler |-> [m \in Message |-> 0]]
  /\ pc = [d \in Delivery |-> "idle"]
  /\ at = [d \in Delivery |-> 1]
  /\ failed = {}
  /\ written = [d \in Delivery |-> {}]
  /\ registered = [d \in Delivery |-> {}]
  /\ crashes = 0

Goto(d, from, to) == pc[d] = from /\ pc' = [pc EXCEPT ![d] = to]
NextHandler(d) == at' = [at EXCEPT ![d] = at[d] + 1]

InTransaction(d) == MessageOf[d] \in Transactional

\* The handlers in hs take effect for d's message.
TakeEffect(d, hs) ==
  effects' = [h \in Handler |-> [m \in Message |->
                IF h \in hs /\ m = MessageOf[d] THEN effects[h][m] + 1 ELSE effects[h][m]]]

\* Deliveries of d's message that are open besides d.
Rivals(d) ==
  {e \in Delivery \ {d} : MessageOf[e] = MessageOf[d] /\ pc[e] \notin {"idle", "done"}}

-----------------------------------------------------------------------------
(***************************************************************************)
(* The message.                                                            *)
(***************************************************************************)

Receive(d) ==
  /\ Goto(d, "idle", "message")
  /\ UNCHANGED <<processedMessages, processedHandlers, effects, at, failed,
                 written, registered, crashes>>

AlreadyProcessed(d) ==
  /\ Goto(d, "message", "done")
  /\ MessageOf[d] \in processedMessages
  /\ UNCHANGED <<processedMessages, processedHandlers, effects, at, failed,
                 written, registered, crashes>>

NotYetProcessed(d) ==
  /\ Goto(d, "message", "handler")
  /\ MessageOf[d] \notin processedMessages
  /\ UNCHANGED <<processedMessages, processedHandlers, effects, at, failed,
                 written, registered, crashes>>

\* Mutant: the message is registered although a handler failed.
AllHandledDespiteFailure(d) ==
  /\ Goto(d, "handler", "registerMessage")
  /\ at[d] > H
  /\ UNCHANGED <<processedMessages, processedHandlers, effects, at, failed,
                 written, registered, crashes>>

\* Mutant: the message is not registered.
AllHandledUnregistered(d) ==
  /\ Goto(d, "handler", "done")
  /\ at[d] > H
  /\ UNCHANGED <<processedMessages, processedHandlers, effects, at, failed,
                 written, registered, crashes>>

\* Every handler has run and none failed.
AllHandled(d) ==
  /\ Goto(d, "handler", "registerMessage")
  /\ at[d] > H
  /\ d \notin failed
  /\ UNCHANGED <<processedMessages, processedHandlers, effects, at, failed,
                 written, registered, crashes>>

\* Mutant: the transaction is completed whatever the result.
SomeFailedCompletes(d) ==
  /\ Goto(d, "handler", "done")
  /\ at[d] > H
  /\ d \in failed
  /\ TakeEffect(d, written[d])
  /\ UNCHANGED <<processedMessages, processedHandlers, at, failed, written,
                 registered, crashes>>

\* Some handler failed: an error, and the transaction is not completed.
SomeFailed(d) ==
  /\ Goto(d, "handler", "done")
  /\ at[d] > H
  /\ d \in failed
  /\ UNCHANGED <<processedMessages, processedHandlers, effects, at, failed,
                 written, registered, crashes>>

\* RegisterProcessedAsync of the message; without a transaction, on its own.
RegisterMessage(d) ==
  /\ Goto(d, "registerMessage", IF InTransaction(d) THEN "commit" ELSE "done")
  /\ MessageOf[d] \notin processedMessages
  /\ \A e \in Rivals(d) : pc[e] # "commit"
  /\ processedMessages' = IF InTransaction(d) THEN processedMessages
                            ELSE processedMessages \cup {MessageOf[d]}
  /\ UNCHANGED <<processedHandlers, effects, at, failed, written, registered, crashes>>

\* The transaction commits: the message's row, its handlers' rows and what
\* the handlers wrote.
Commit(d) ==
  /\ Goto(d, "commit", "done")
  /\ processedMessages' = processedMessages \cup {MessageOf[d]}
  /\ processedHandlers' =
       processedHandlers \cup {<<h, MessageOf[d]>> : h \in registered[d]}
  /\ TakeEffect(d, written[d])
  /\ UNCHANGED <<at, failed, written, registered, crashes>>

-----------------------------------------------------------------------------
(***************************************************************************)
(* Its handlers.                                                           *)
(***************************************************************************)

\* The handler middleware finds the handler's row.
SkipHandler(d) ==
  /\ pc[d] = "handler" /\ at[d] <= H
  /\ <<at[d], MessageOf[d]>> \in processedHandlers
  /\ NextHandler(d)
  /\ UNCHANGED <<processedMessages, processedHandlers, effects, pc, failed,
                 written, registered, crashes>>

CallHandler(d) ==
  /\ Goto(d, "handler", "handle")
  /\ at[d] <= H
  /\ <<at[d], MessageOf[d]>> \notin processedHandlers
  /\ UNCHANGED <<processedMessages, processedHandlers, effects, at, failed,
                 written, registered, crashes>>

\* The handler does its work, as part of the delivery's transaction.
HandleInTransaction(d) ==
  /\ Goto(d, "handle", "registerHandler")
  /\ InTransaction(d) /\ at[d] \in Enlisted
  /\ written' = [written EXCEPT ![d] = @ \cup {at[d]}]
  /\ UNCHANGED <<processedMessages, processedHandlers, effects, at, failed,
                 registered, crashes>>

\* There is no transaction, or the effect is no part of it.
HandleAtOnce(d) ==
  /\ Goto(d, "handle", "registerHandler")
  /\ ~ (InTransaction(d) /\ at[d] \in Enlisted)
  /\ TakeEffect(d, {at[d]})
  /\ UNCHANGED <<processedMessages, processedHandlers, at, failed, written,
                 registered, crashes>>

HandleFails(d) ==
  /\ HandlersMayFail
  /\ Goto(d, "handle", "handler")
  /\ failed' = failed \cup {d}
  /\ NextHandler(d)
  /\ UNCHANGED <<processedMessages, processedHandlers, effects, written,
                 registered, crashes>>

\* RegisterProcessedAsync of the handler.
RegisterHandler(d) ==
  /\ Goto(d, "registerHandler", "handler")
  /\ <<at[d], MessageOf[d]>> \notin processedHandlers
  /\ \A e \in Rivals(d) : at[d] \notin registered[e]
  /\ IF InTransaction(d)
       THEN /\ registered' = [registered EXCEPT ![d] = @ \cup {at[d]}]
            /\ UNCHANGED processedHandlers
       ELSE /\ processedHandlers' = processedHandlers \cup {<<at[d], MessageOf[d]>>}
            /\ UNCHANGED registered
  /\ NextHandler(d)
  /\ UNCHANGED <<processedMessages, effects, failed, written, crashes>>

-----------------------------------------------------------------------------

\* The save of a row throws: the row is there, or the database throws out one
\* of two open transactions. The exception ends the delivery.
RegisterThrows(d) ==
  /\ \/ /\ Goto(d, "registerHandler", "done")
        /\ \/ <<at[d], MessageOf[d]>> \in processedHandlers
           \/ InTransaction(d) /\ Rivals(d) # {}
     \/ /\ Goto(d, "registerMessage", "done")
        /\ \/ MessageOf[d] \in processedMessages
           \/ InTransaction(d) /\ Rivals(d) # {}
  /\ UNCHANGED <<processedMessages, processedHandlers, effects, at, failed,
                 written, registered, crashes>>

\* The delivery's process dies; an open transaction is rolled back.
Crash(d) ==
  /\ crashes < MaxCrash
  /\ crashes' = crashes + 1
  /\ pc[d] \notin {"idle", "done"}
  /\ pc' = [pc EXCEPT ![d] = "done"]
  /\ UNCHANGED <<processedMessages, processedHandlers, effects, at, failed,
                 written, registered>>

DeliveryStep(d) ==
  \/ AlreadyProcessed(d) \/ NotYetProcessed(d)
  \/ SkipHandler(d) \/ CallHandler(d)
  \/ HandleInTransaction(d) \/ HandleAtOnce(d) \/ HandleFails(d)
  \/ RegisterHandler(d) \/ AllHandled(d) \/ SomeFailed(d)
  \/ RegisterMessage(d) \/ Commit(d) \/ RegisterThrows(d)

Next == \E d \in Delivery : Receive(d) \/ DeliveryStep(d) \/ Crash(d)

Spec == Init /\ [][Next]_vars

\* A delivery that was received is carried on; nobody has to deliver.
FairSpec == Spec /\ \A d \in Delivery : WF_vars(DeliveryStep(d))

-----------------------------------------------------------------------------
(***************************************************************************)
(* Properties.                                                             *)
(***************************************************************************)

TypeOK ==
  /\ processedMessages \in SUBSET Message
  /\ processedHandlers \in SUBSET (Handler \X Message)
  /\ effects \in [Handler -> [Message -> Nat]]
  /\ pc \in [Delivery -> PC]
  /\ at \in [Delivery -> 1 .. H + 1]
  /\ failed \in SUBSET Delivery
  /\ written \in [Delivery -> SUBSET Handler]
  /\ registered \in [Delivery -> SUBSET Handler]
  /\ crashes \in 0 .. MaxCrash

\* A message that the inbox knows has been handled by every handler, and a
\* handler's row stands for an effect: nothing is marked and then lost.
ProcessedIsHandled ==
  /\ \A m \in processedMessages, h \in Handler : effects[h][m] > 0
  /\ \A p \in processedHandlers : effects[p[1]][p[2]] > 0

\* Inside the transaction middleware the database effects of a message's handlers
\* come about all together, with the message's row, and once, however often and
\* however concurrently it is delivered, and whichever handler fails.
ExactlyOnce ==
  \A m \in Transactional, h \in Enlisted :
    effects[h][m] = IF m \in processedMessages THEN 1 ELSE 0

\* Duplicates that meet do not throw each other out: if no handler fails and no
\* process dies, a received message is processed.
SomeDeliveryProcesses ==
  \A d \in Delivery :
    (pc[d] # "idle") ~> \/ MessageOf[d] \in processedMessages
                        \/ \E e \in failed : MessageOf[e] = MessageOf[d]
                        \/ crashes > 0
=============================================================================
