------------------------------- MODULE MCSaga -------------------------------
(***************************************************************************)
(* Instances of Saga for TLC: three steps, and which of them write through *)
(* the connection that the transaction covers.                             *)
(***************************************************************************)
EXTENDS Saga

MCSteps == 3
MCAllEnlisted == {1, 2, 3}
MCSomeEnlisted == {1, 3}
=============================================================================
