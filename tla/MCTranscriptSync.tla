-------------------------- MODULE MCTranscriptSync --------------------------
(* Model-checking instances of TranscriptSync. *)
EXTENDS TranscriptSync
=============================================================================
