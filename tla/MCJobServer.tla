------------------------------ MODULE MCJobServer ------------------------------
(* Small instances of JobServer for TLC. *)
EXTENDS JobServer, TLC

CONSTANTS w1, w2

\* Every worker has every encoder.
AllCapable == Workers \X Jobs

\* The workers are interchangeable: every choice between sockets goes by number.
WorkerSymmetry == Permutations(Workers)

=============================================================================
