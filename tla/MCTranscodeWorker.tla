---------------------------- MODULE MCTranscodeWorker ----------------------------
(* Small instances of TranscodeWorker for TLC. *)
EXTENDS TranscodeWorker, TLC

CONSTANTS j1, j2

================================================================================
