----------------------------- MODULE SagaProofs -----------------------------
(***************************************************************************)
(* Proofs about Saga, for any number of steps, any choice of the steps     *)
(* that are part of the transaction, and any number of crashes.            *)
(*                                                                         *)
(* The argument: a state, in memory or stored, says how far the            *)
(* orchestration reaches (Reach), and the steps whose effects stand are    *)
(* exactly those up to there; of memory this is true but for the step in   *)
(* progress, of the record but for that step's effect if it is outside the *)
(* transaction. A crash makes the record the state, and leaves the second  *)
(* fact as the first.                                                      *)
(***************************************************************************)
EXTENDS Saga, TLAPS

\* The last step whose effect stands, as a state tells it.
Reach(st) == IF st.lastCompensatedStep = 0
               THEN st.lastStep ELSE st.lastCompensatedStep - 1

InProgress == pc \in {"executed", "compensated"}

MemoryAgrees ==
  \A s \in Step \ unsaved :
    (InProgress => s # at) => (s \in standing <=> s <= Reach(state))

RecordAgrees ==
  \A s \in Step \ unsaved :
    (InProgress /\ at \notin Enlisted => s # at)
      => (s \in standing <=> s <= Reach(stored))

\* Where the foreach is, relative to the state.
Position ==
  /\ pc = "execute" => at = state.lastStep + 1 /\ state.status = "Running"
  /\ pc = "executed" => /\ at = state.lastStep /\ at # 0
                        /\ state.status = "Running"
  /\ pc = "compensate" =>
       /\ state.status = "Failed"
       /\ IF state.lastCompensatedStep = 0
            THEN at = state.lastStep
            ELSE \/ at = state.lastCompensatedStep
                 \/ at = state.lastCompensatedStep - 1
  /\ pc = "compensated" => /\ at = state.lastCompensatedStep /\ at # 0
                           /\ state.status = "Failed"

Undoing == {"Failed", "CompensationFailed", "CompensationCompleted"}

Statuses ==
  /\ state.status \notin Undoing => state.lastCompensatedStep = 0
  /\ stored.status \in {"none", "Running", "Failed"}
  /\ stored.status # "Failed" => stored.lastCompensatedStep = 0
  /\ stored.status = "Failed" => state.status \in Undoing
  /\ state.status = "none" => pc = "idle"
  /\ state.status = "Completed" => state.lastStep = N
  /\ state.status = "CompensationCompleted" => Reach(state) = 0

SagaInv == TypeOK /\ Position /\ Statuses /\ MemoryAgrees /\ RecordAgrees

USE SagaAssumption

LEMMA SagaInit == Init => SagaInv
BY DEF Init, SagaInv, TypeOK, Position, Statuses, MemoryAgrees, RecordAgrees,
       Reach, InProgress, NewState, NoRecord, Record, OrchestratorStatus,
       FinalStates, PC, Step, Undoing

LEMMA SagaNext == SagaInv /\ [Next]_vars => SagaInv'
<1> SUFFICES ASSUME SagaInv, [Next]_vars PROVE SagaInv'
  OBVIOUS
<1> USE DEF SagaInv, TypeOK, Record, OrchestratorStatus, FinalStates, PC, Step,
            Position, Statuses, Undoing, Goto, SetStatus
<1>1. CASE Run
  BY <1>1 DEF Run, MemoryAgrees, RecordAgrees, Reach, InProgress
<1>2. CASE Return
  BY <1>2 DEF Return, MemoryAgrees, RecordAgrees, Reach, InProgress
<1>3. CASE HandleExecute
  BY <1>3 DEF HandleExecute, MemoryAgrees, RecordAgrees, Reach, InProgress
<1>4. CASE HandleCompensation
  BY <1>4 DEF HandleCompensation, MemoryAgrees, RecordAgrees, Reach, InProgress
<1>5. CASE ExecuteStep
  BY <1>5 DEF ExecuteStep, MemoryAgrees, RecordAgrees, Reach, InProgress
<1>6. CASE ExecuteFails
  BY <1>6 DEF ExecuteFails, MemoryAgrees, RecordAgrees, Reach, InProgress
<1>7. CASE ExecutedSaved
  BY <1>7 DEF ExecutedSaved, MemoryAgrees, RecordAgrees, Reach, InProgress
<1>8. CASE ExecutedNotSaved
  BY <1>8 DEF ExecutedNotSaved, MemoryAgrees, RecordAgrees, Reach, InProgress
<1>9. CASE AllExecuted
  BY <1>9 DEF AllExecuted, MemoryAgrees, RecordAgrees, Reach, InProgress
<1>10. CASE CompensateStep
  BY <1>10 DEF CompensateStep, MemoryAgrees, RecordAgrees, Reach, InProgress
<1>11. CASE CompensateFails
  BY <1>11 DEF CompensateFails, MemoryAgrees, RecordAgrees, Reach, InProgress
<1>12. CASE CompensatedSaved
  BY <1>12 DEF CompensatedSaved, MemoryAgrees, RecordAgrees, Reach, InProgress
<1>13. CASE CompensatedNotSaved
  BY <1>13 DEF CompensatedNotSaved, MemoryAgrees, RecordAgrees, Reach, InProgress
<1>14. CASE AllCompensated
  BY <1>14 DEF AllCompensated, MemoryAgrees, RecordAgrees, Reach, InProgress
<1>15. CASE Crash
  BY <1>15 DEF Crash, MemoryAgrees, RecordAgrees, Reach, InProgress
<1>16. CASE UNCHANGED vars
  BY <1>16 DEF vars, MemoryAgrees, RecordAgrees, Reach, InProgress
<1> QED
  BY <1>1, <1>2, <1>3, <1>4, <1>5, <1>6, <1>7, <1>8, <1>9, <1>10, <1>11,
     <1>12, <1>13, <1>14, <1>15, <1>16 DEF Next, RunStep

LEMMA SagaInvariant == Spec => []SagaInv
BY SagaInit, SagaNext, PTL DEF Spec

\* The type invariant of the orchestration.
THEOREM TypeCorrect == Spec => []TypeOK
BY SagaInvariant, PTL DEF SagaInv

\* OrchestrationRunner and PersistentStepExecutor: Completed means that every
\* step's effect stands, however often the run was interrupted and resumed.
THEOREM CompletedStandsAlways == Spec => []CompletedStands
<1>1. SagaInv => CompletedStands
  <2> SUFFICES ASSUME SagaInv, state.status = "Completed",
                      NEW s \in Step, s \notin standing
               PROVE  s \in unsaved
    BY DEF CompletedStands
  <2>1. Reach(state) = N
    BY DEF SagaInv, Statuses, Undoing, Reach
  <2>2. ~InProgress
    BY DEF SagaInv, TypeOK, Position, InProgress, PC
  <2> QED
    BY <2>1, <2>2 DEF SagaInv, MemoryAgrees, Step
<1> QED
  BY <1>1, SagaInvariant, PTL

\* CompensationCompleted means that no step's effect is left.
THEOREM CompensatedIsUndoneAlways == Spec => []CompensatedIsUndone
<1>1. SagaInv => CompensatedIsUndone
  <2> SUFFICES ASSUME SagaInv, state.status = "CompensationCompleted",
                      NEW s \in standing
               PROVE  s \in unsaved
    BY DEF CompensatedIsUndone
  <2>1. s \in Step /\ Reach(state) = 0
    BY DEF SagaInv, TypeOK, Statuses
  <2>2. ~InProgress
    BY DEF SagaInv, TypeOK, Position, InProgress, PC
  <2> QED
    BY <2>1, <2>2 DEF SagaInv, MemoryAgrees, Step
<1> QED
  BY <1>1, SagaInvariant, PTL

\* OrchestrationRunner's two good ends: what each says of the effects is true.
THEOREM OutcomeIsTrueAlways == Spec => []OutcomeIsTrue
<1>1. CompletedStands /\ CompensatedIsUndone => OutcomeIsTrue
  BY DEF OutcomeIsTrue
<1> QED
  BY <1>1, CompletedStandsAlways, CompensatedIsUndoneAlways, PTL

\* GetStepsToCompensate: no step is undone while a later one stands.
THEOREM UndoneFromTheTopAlways == Spec => UndoneFromTheTop
<1> DEFINE FromTheTop ==
      \A s \in standing \ standing' : \A t \in standing : t > s => t \in unsaved
<1>1. SagaInv /\ [Next]_vars => [FromTheTop]_vars
  <2> SUFFICES ASSUME SagaInv, Next,
                      NEW s \in standing \ standing', NEW t \in standing, t > s,
                      t \notin unsaved
               PROVE  FALSE
    OBVIOUS
  <2>1. /\ pc \in {"compensate", "compensated"}
        /\ s = at
    BY DEF Next, RunStep, Run, Return, HandleExecute, HandleCompensation,
           ExecuteStep, ExecuteFails, ExecutedSaved, ExecutedNotSaved,
           AllExecuted, CompensateStep, CompensateFails, CompensatedSaved,
           CompensatedNotSaved, AllCompensated, Crash, Goto
  <2>2. t \in Step /\ s \in Step /\ t # at
    BY <2>1 DEF SagaInv, TypeOK, Step
  <2>3. t <= Reach(state)
    BY <2>2 DEF SagaInv, MemoryAgrees
  <2>4. Reach(state) <= at
    BY <2>1 DEF SagaInv, TypeOK, Record, Position, Reach
  <2> QED
    BY <2>1, <2>2, <2>3, <2>4 DEF SagaInv, TypeOK, Record, Reach, Step
<1> QED
  BY <1>1, SagaInvariant, PTL DEF Spec, UndoneFromTheTop

\* HandleCompensationAsync's first save makes the decision to compensate last.
THEOREM RecordedFailureIsFinalAlways == Spec => RecordedFailureIsFinal
<1> DEFINE NotForward == stored.status = "Failed" => ~ExecuteStep
<1>1. SagaInv /\ [Next]_vars => [NotForward]_vars
  BY DEF SagaInv, Statuses, Undoing, Position, ExecuteStep, Goto
<1> QED
  BY <1>1, SagaInvariant, PTL DEF Spec, RecordedFailureIsFinal
=============================================================================
