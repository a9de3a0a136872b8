----------------------------- MODULE JobLifecycle -----------------------------
(***************************************************************************)
(* What the server promises of its jobs, without saying how: the stages of *)
(* shared/src/types/transcode.ts as phases, the worker that holds the job  *)
(* (the column worker_id), and the deliveries of its output.  There are no *)
(* connections, calls, timers or processes here.                           *)
(***************************************************************************)
CONSTANTS Jobs, Workers, NoWorker   \* NoWorker is not in Workers

VARIABLES phase,     \* where each job is in its life
          holder,    \* the worker it is given to
          delivered  \* the jobs of which some worker has delivered the output

vars == <<phase, holder, delivered>>

\* Ended stands for Stopped and Error, Active for the four stages of a job
\* that a worker has.
Present == {"Queued", "Active", "Finished", "Ended"}

Init ==
  /\ phase = [j \in Jobs |-> "New"]
  /\ holder = [j \in Jobs |-> NoWorker]
  /\ delivered = {}

-----------------------------------------------------------------------------
(* What may become of one job in a step.  Several jobs may move at once: the *)
(* end of one is the start of the next.                                      *)

Becomes(j, p, w) == phase'[j] = p /\ holder'[j] = w

Stays(j) == Becomes(j, phase[j], holder[j])

\* A new or a requeued job may be given to a worker at once.
Added(j) ==
  phase[j] = "New" /\ \E w \in Workers \union {NoWorker} : Becomes(j, "Queued", w)

Requeued(j) ==
  /\ phase[j] \in {"Finished", "Ended"}
  /\ \E w \in Workers \union {NoWorker} : Becomes(j, "Queued", w)

\* A worker that answers late holds a job in whatever phase it is by then.
Given(j) == phase[j] \in Present /\ \E w \in Workers : Becomes(j, phase[j], w)

\* Only a job that somebody holds is worked on ...
Worked(j) ==
  phase[j] \in Present /\ holder[j] # NoWorker /\ Becomes(j, "Active", holder[j])

\* ... and only such a job is taken back, perhaps for the next worker.
Released(j) ==
  /\ phase[j] \in Present /\ holder[j] # NoWorker
  /\ \E w \in Workers \union {NoWorker} : Becomes(j, "Queued", w)

Finished(j) ==
  /\ phase[j] \in Present /\ j \in delivered
  /\ \E w \in Workers : Becomes(j, "Finished", w)

Stopped(j) == phase[j] \in Present /\ Becomes(j, "Ended", NoWorker)

\* An active job is stopped first; a removed one never comes back.
Removed(j) == phase[j] \in Present \ {"Active"} /\ Becomes(j, "Removed", NoWorker)

Moves(j) ==
  \/ Stays(j) \/ Added(j) \/ Requeued(j) \/ Given(j) \/ Worked(j) \/ Released(j)
  \/ Finished(j) \/ Stopped(j) \/ Removed(j)

Next ==
  /\ \A j \in Jobs : Moves(j)
  /\ phase' = [j \in Jobs |-> phase'[j]]
  /\ holder' = [j \in Jobs |-> holder'[j]]
  /\ delivered \subseteq delivered' /\ delivered' \subseteq Jobs

Spec == Init /\ [][Next]_vars

=============================================================================
