----------------------------- MODULE MCTranscript -----------------------------
(***************************************************************************)
(* An instance of Transcript for TLC: two callers may read at once.        *)
(***************************************************************************)
EXTENDS Transcript, TLC

CONSTANTS r1, r2
=============================================================================
