---------------------------- MODULE MCAdmission ----------------------------
(***************************************************************************)
(* Instances of Admission for TLC.                                         *)
(***************************************************************************)
EXTENDS Admission, TLC

CONSTANTS s1, s2, s3, b1

Starts == {[step |-> 1 :> 1 @@ 2 :> 1, queue |-> {}],
           [step |-> 1 :> 1 @@ 2 :> 3, queue |-> {1}]}
=============================================================================
