---------------------------- MODULE MCTranscript ----------------------------
(* Two transcripts, one of them with two rows.                             *)
EXTENDS Transcript
CONSTANTS p1, p2, r1, r2, r3
MCOf == (r1 :> p1) @@ (r2 :> p1) @@ (r3 :> p2)
=============================================================================
