-------------------------------- MODULE Saga --------------------------------
(***************************************************************************)
(* One orchestration of NEvo.Orchestrating: OrchestrationRunner over       *)
(* PersistentStepExecutor. The steps run in order; when one fails, those   *)
(* that completed are compensated in reverse. Every step runs in a         *)
(* transaction that ends with a save of the orchestration's record, and    *)
(* only there: a change of status between two steps is in memory until the *)
(* next step saves it. A process may die at any point; whoever resumes the *)
(* orchestration starts from the record. An exception thrown out of        *)
(* RunAsync ends the run in the same way.                                  *)
(*                                                                         *)
(* Steps are looked up by name; names are taken to be distinct, and a step *)
(* is named here by its position. No step is 0 (null).                     *)
(***************************************************************************)
EXTENDS Naturals

CONSTANTS
  N,                  \* the number of steps of the orchestrator
  Enlisted,           \* the steps whose effects are part of the transaction
  RepositoryMayFail,  \* whether SaveAsync may return an error
  MaxCrash            \* bound on the crashes

ASSUME SagaAssumption ==
  /\ N \in Nat
  /\ Enlisted \subseteq 1 .. N
  /\ RepositoryMayFail \in BOOLEAN
  /\ MaxCrash \in Nat

VARIABLES
  state,     \* the OrchestratorState that the run works on
  stored,    \* the record, as the last committed SaveAsync left it
  pc,        \* where the run is
  at,        \* the step that the run's foreach has reached
  standing,  \* the steps whose effects stand
  unsaved,   \* history: steps whose effect outlived a save that did not happen
  crashes    \* the number of crashes so far

vars == <<state, stored, pc, at, standing, unsaved, crashes>>

Step == 1 .. N

FinalStates == {"Completed", "CompensationCompleted", "CompensationFailed"}
OrchestratorStatus == {"New", "Running", "Failed"} \cup FinalStates

PC == {"idle", "loop", "execute", "executed", "compensate", "compensated"}

\* There is no record of an orchestration before the first save.
NoRecord == [status |-> "none", lastStep |-> 0, lastCompensatedStep |-> 0]

\* OrchestrationManager.RunAsync: a new state, which it does not save.
NewState == [status |-> "New", lastStep |-> 0, lastCompensatedStep |-> 0]

Init ==
  /\ state = NewState
  /\ stored = NoRecord
  /\ pc = "idle"
  /\ at = 0
  /\ standing = {}
  /\ unsaved = {}
  /\ crashes = 0

Goto(from, to) == pc = from /\ pc' = to
SetStatus(status) == state' = [state EXCEPT !.status = status]

-----------------------------------------------------------------------------

\* Mutant: a repeated run goes forward instead of compensating.
RunForward ==
  /\ Goto("idle", "loop")
  /\ state.status # "none"
  /\ SetStatus(IF state.status = "CompensationFailed" THEN "Running" ELSE state.status)
  /\ UNCHANGED <<stored, at, standing, unsaved, crashes>>

\* RunAsync is entered, with a state in memory or with the record.
Run ==
  /\ Goto("idle", "loop")
  /\ state.status # "none"
  /\ SetStatus(IF state.status = "CompensationFailed" THEN "Failed" ELSE state.status)
  /\ UNCHANGED <<stored, at, standing, unsaved, crashes>>

Return ==
  /\ Goto("loop", "idle")
  /\ state.status \in FinalStates
  /\ UNCHANGED <<state, stored, at, standing, unsaved, crashes>>

\* GetStepsToExecute: what follows the last step.
HandleExecute ==
  /\ Goto("loop", "execute")
  /\ state.status \in {"New", "Running"}
  /\ SetStatus("Running")
  /\ at' = state.lastStep + 1
  /\ UNCHANGED <<stored, standing, unsaved, crashes>>

\* Mutant: the last step is skipped, as it rightly is when going forward.
HandleCompensationSkips ==
  /\ Goto("loop", "compensate")
  /\ state.status = "Failed"
  /\ at' = CASE state.lastCompensatedStep # 0 -> state.lastCompensatedStep - 1
             [] state.lastStep # 0 /\ state.lastCompensatedStep = 0 -> state.lastStep - 1
             [] OTHER -> 0
  /\ UNCHANGED <<state, stored, standing, unsaved, crashes>>

\* Mutant: the steps are taken in their own order, without Reverse.
HandleCompensationFromFirst ==
  /\ Goto("loop", "compensate")
  /\ state.status = "Failed"
  /\ at' = IF state.lastStep = 0 THEN 0 ELSE 1
  /\ UNCHANGED <<state, stored, standing, unsaved, crashes>>

\* GetStepsToCompensate: back from the last compensated step, itself included,
\* or else from the last step.
HandleCompensation ==
  /\ Goto("loop", "compensate")
  /\ state.status = "Failed"
  /\ at' = IF state.lastCompensatedStep # 0
             THEN state.lastCompensatedStep ELSE state.lastStep
  /\ UNCHANGED <<state, stored, standing, unsaved, crashes>>

-----------------------------------------------------------------------------
(***************************************************************************)
(* Forward.                                                                *)
(***************************************************************************)

\* The step does its work and StepExecutor notes the step in memory. An effect
\* that is part of the transaction stands once that commits, any other at once.
ExecuteStep ==
  /\ Goto("execute", "executed")
  /\ at <= N
  /\ standing' = IF at \in Enlisted THEN standing ELSE standing \cup {at}
  /\ state' = [state EXCEPT !.lastStep = at]
  /\ UNCHANGED <<stored, at, unsaved, crashes>>

\* The step returns an error or throws, or its record cannot be locked: the
\* transaction commits, nothing is saved, and no later step runs.
ExecuteFails ==
  /\ Goto("execute", "loop")
  /\ at <= N
  /\ SetStatus("Failed")
  /\ UNCHANGED <<stored, at, standing, unsaved, crashes>>

\* SaveAsync succeeds and the transaction commits.
ExecutedSaved ==
  /\ Goto("executed", "execute")
  /\ stored' = state
  /\ standing' = standing \cup {at}
  /\ at' = at + 1
  /\ UNCHANGED <<state, unsaved, crashes>>

\* SaveAsync returns an error; the transaction is completed all the same.
ExecutedNotSaved ==
  /\ RepositoryMayFail
  /\ Goto("executed", "loop")
  /\ SetStatus("Failed")
  /\ standing' = standing \cup {at}
  /\ unsaved' = unsaved \cup {at}
  /\ UNCHANGED <<stored, at, crashes>>

AllExecuted ==
  /\ Goto("execute", "loop")
  /\ at > N
  /\ SetStatus("Completed")
  /\ UNCHANGED <<stored, at, standing, unsaved, crashes>>

-----------------------------------------------------------------------------
(***************************************************************************)
(* Compensation.                                                           *)
(***************************************************************************)

CompensateStep ==
  /\ Goto("compensate", "compensated")
  /\ at # 0
  /\ standing' = IF at \in Enlisted THEN standing ELSE standing \ {at}
  /\ state' = [state EXCEPT !.lastCompensatedStep = at]
  /\ UNCHANGED <<stored, at, unsaved, crashes>>

CompensateFails ==
  /\ Goto("compensate", "loop")
  /\ at # 0
  /\ SetStatus("CompensationFailed")
  /\ UNCHANGED <<stored, at, standing, unsaved, crashes>>

CompensatedSaved ==
  /\ Goto("compensated", "compensate")
  /\ stored' = state
  /\ standing' = standing \ {at}
  /\ at' = at - 1
  /\ UNCHANGED <<state, unsaved, crashes>>

CompensatedNotSaved ==
  /\ RepositoryMayFail
  /\ Goto("compensated", "loop")
  /\ SetStatus("CompensationFailed")
  /\ standing' = standing \ {at}
  /\ unsaved' = unsaved \cup {at}
  /\ UNCHANGED <<stored, at, crashes>>

AllCompensated ==
  /\ Goto("compensate", "loop")
  /\ at = 0
  /\ SetStatus("CompensationCompleted")
  /\ UNCHANGED <<stored, at, standing, unsaved, crashes>>

-----------------------------------------------------------------------------

\* The process dies, during a run or after it, and an open transaction is
\* rolled back: of a step in progress, only an effect outside it stands.
Crash ==
  /\ crashes < MaxCrash
  /\ crashes' = crashes + 1
  /\ pc' = "idle"
  /\ state' = stored
  /\ unsaved' = IF pc \in {"executed", "compensated"} /\ at \notin Enlisted
                  THEN unsaved \cup {at} ELSE unsaved
  /\ UNCHANGED <<stored, at, standing>>

RunStep ==
  \/ Return \/ HandleExecute \/ HandleCompensation
  \/ ExecuteStep \/ ExecuteFails \/ ExecutedSaved \/ ExecutedNotSaved \/ AllExecuted
  \/ CompensateStep \/ CompensateFails
  \/ CompensatedSaved \/ CompensatedNotSaved \/ AllCompensated

Next == Run \/ RunStep \/ Crash

Spec == Init /\ [][Next]_vars

-----------------------------------------------------------------------------
(***************************************************************************)
(* Properties.                                                             *)
(***************************************************************************)

Record == [status : OrchestratorStatus \cup {"none"},
           lastStep : 0 .. N, lastCompensatedStep : 0 .. N]

TypeOK ==
  /\ state \in Record
  /\ stored \in Record
  /\ pc \in PC
  /\ at \in 0 .. N + 1
  /\ standing \in SUBSET Step
  /\ unsaved \in SUBSET Step
  /\ crashes \in 0 .. MaxCrash

\* An orchestration that ends Completed has every step's effect, but for the steps
\* whose effect and whose record were not committed together.
CompletedStands ==
  state.status = "Completed" => Step \ standing \subseteq unsaved

\* An orchestration that ends CompensationCompleted has left no effect, with
\* the same exception.
CompensatedIsUndone ==
  state.status = "CompensationCompleted" => standing \subseteq unsaved

\* What a final status says of the effects is true, however often the orchestration
\* was interrupted, resumed and turned back.
OutcomeIsTrue == CompletedStands /\ CompensatedIsUndone

\* Effects are undone in reverse order: while a later step stands, no earlier
\* one is undone, in any run, by whichever run the later step was executed.
UndoneFromTheTop ==
  [][\A s \in standing \ standing' : \A t \in standing : t > s => t \in unsaved]_vars

\* Once the record says that the orchestration failed, no step goes forward:
\* the decision to compensate survives every crash.
RecordedFailureIsFinal == [][stored.status = "Failed" => ~ExecuteStep]_vars

=============================================================================
