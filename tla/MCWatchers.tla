------------------------------ MODULE MCWatchers ------------------------------
(* Small instances of Watchers for TLC. *)
EXTENDS Watchers, TLC

CONSTANTS f1, f2, p1, p2

==============================================================================
