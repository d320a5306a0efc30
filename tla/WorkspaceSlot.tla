--------------------------- MODULE WorkspaceSlot ---------------------------
(***************************************************************************)
(* What the workspace-writer slot promises, whoever asks for it and        *)
(* whatever dies on the way: one holder at a time; a request that moves    *)
(* forward only, from a submission to one terminal status; a mutation that *)
(* begins at most once per request and only while the slot serves that     *)
(* request; and a slot that is given up only once its request is no longer *)
(* in flight, or is kept and flagged for an operator.                      *)
(***************************************************************************)
CONSTANTS Request, Writer, NoOne

VARIABLES
  holder,    \* who holds the slot
  serving,   \* the request the holder took it for, if any
  flagged,   \* the slot waits for an operator
  status,    \* status[r]
  executed   \* the requests whose mutation has begun

vars == <<holder, serving, flagged, status, executed>>

Pending == {"queued", "waiting-for-workspace"}
InFlight == Pending \cup {"running"}
Settled == {"completed", "failed", "reconciliation-required"}

Init ==
  /\ holder = NoOne
  /\ serving = NoOne
  /\ flagged = FALSE
  /\ status = [r \in Request |-> "none"]
  /\ executed = {}

Move(r, from, to) ==
  /\ status[r] \in from
  /\ status' = [status EXCEPT ![r] = to]
  /\ UNCHANGED <<holder, serving, flagged, executed>>

Submit(r) == Move(r, {"none"}, "queued")

Wait(r) == Move(r, Pending, "waiting-for-workspace")

Bar(r) == Move(r, Pending, "blocked-by-recovery")

Run(r) == serving = r /\ Move(r, Pending, "running")

Settle(r) == \E s \in Settled : Move(r, InFlight, s)

Take(w) ==
  /\ holder = NoOne
  /\ holder' = w
  /\ serving' \in Request \cup {NoOne}
  /\ UNCHANGED <<flagged, status, executed>>

Execute(r) ==
  /\ serving = r
  /\ r \notin executed
  /\ executed' = executed \cup {r}
  /\ UNCHANGED <<holder, serving, flagged, status>>

Leave ==
  /\ holder # NoOne
  /\ \A r \in Request : serving = r => status[r] \notin InFlight
  /\ holder' = NoOne
  /\ serving' = NoOne
  /\ flagged' = FALSE
  /\ UNCHANGED <<status, executed>>

Flag ==
  /\ holder # NoOne
  /\ flagged' = TRUE
  /\ UNCHANGED <<holder, serving, status, executed>>

Next ==
  \/ \E r \in Request :
       Submit(r) \/ Wait(r) \/ Bar(r) \/ Run(r) \/ Settle(r) \/ Execute(r)
  \/ \E w \in Writer : Take(w)
  \/ Leave
  \/ Flag

Spec == Init /\ [][Next]_vars

=============================================================================
