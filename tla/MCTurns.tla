------------------------------- MODULE MCTurns -------------------------------
(***************************************************************************)
(* The instance of Turns for TLC: a session of a server's provider with    *)
(* two calls, the second repeating the key of the first, and a session of  *)
(* a provider with processes, with one call.                               *)
(***************************************************************************)
EXTENDS Turns, TLC

CONSTANTS t1, t2, t3, s1, s2, i1, i2, x1, k

MCSessionOf == [t \in Turns |-> IF t = t2 THEN s2 ELSE s1]
MCKeyOf == [t \in Turns |-> IF t = t2 THEN NoKey ELSE k]

Plain(t) ==
  /\ turn[t].streaming = {}
  /\ turn[t].finalAnswer = "none"
  /\ \A x \in Tool : turn[t].tool[x] = "none"
  /\ \A i \in Interaction : turn[t].interaction[i] = "none"

\* State constraint: one of the sessions is used, since sessions share nothing
\* but the shutdown, and the turns that meet in one session report nothing.
OneSession ==
  /\ \E s \in Session : \A t \in Turns : call[t] # "none" => sessionOf[t] = s
  /\ \A t \in Turns : sessionOf[t] = s1 => Plain(t)
=============================================================================
