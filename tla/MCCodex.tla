------------------------------- MODULE MCCodex -------------------------------
(***************************************************************************)
(* The instance of Codex for TLC: a thread with two turns, one after the   *)
(* other, and a thread with one turn that works on the same task.          *)
(***************************************************************************)
EXTENDS Codex, TLC

CONSTANTS t1, t2, t3, h1, h2, k

MCThreadOf == [t \in Turns |-> IF t = t3 THEN h2 ELSE h1]
MCTaskOf == [t \in Turns |-> k]

\* The two turns of a thread may be exchanged.
Alike == Permutations({t1, t2})

\* State constraint: two of the calls are made, of one thread or of two.
TwoCalls == Cardinality({t \in Turns : pc[t] # "idle"}) <= 2

\* State constraint: one of them is stopped, early or not.
OneStop == Cardinality({t \in Turns : t \in cancelling \cup early \/ recover[t] # "none"}) <= 1

\* State constraint: nothing is looked at after the provider is disposed.
InUse == ~disposed
=============================================================================
