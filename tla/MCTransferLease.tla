---------------------------- MODULE MCTransferLease ----------------------------
(* Small instances of TransferLease for TLC. *)
EXTENDS TransferLease, TLC

CONSTANTS j1, j2, w1, w2

================================================================================
