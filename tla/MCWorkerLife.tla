----------------------------- MODULE MCWorkerLife -----------------------------
(* Small instances of WorkerLife for TLC. *)
EXTENDS WorkerLife, TLC

==============================================================================
