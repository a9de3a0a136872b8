-------------------------------- MODULE QueueOps --------------------------------
(***************************************************************************)
(* The queue of the HandBrake Web server: the operations of                *)
(* server/src/scripts/queue.ts and of database/database-queue.ts as        *)
(* functions from a server state to a server state.                        *)
(*                                                                         *)
(* A server state s is a record.  stage, owner, order and queue are the    *)
(* tables jobs_status, jobs_order and status of the database.  workers,    *)
(* props, disabled, completed and calls live in the memory of the process: *)
(* the connected worker sockets, the workers whose properties are known,   *)
(* the sockets whose acceptsJobs flag is false, the completed uploads, the *)
(* uploads in progress, the reports of finished jobs whose file is being   *)
(* looked up, and the emitWithAck calls whose answer or 15 s timer is      *)
(* still awaited, oldest first.  running is false once the process ended.  *)
(*                                                                         *)
(* A handler is taken to run without interruption between two of its       *)
(* suspension points (acknowledgements, file accesses): the database       *)
(* driver is synchronous, so its awaits resolve before the next event is   *)
(* read.  An operator below is one such stretch.  (Packets that arrive in  *)
(* one chunk of a connection are the exception: README, Atomicity.)        *)
(***************************************************************************)
EXTENDS Integers, Sequences, FiniteSets, FiniteSetsExt, SequencesExt

CONSTANTS NJobs,     \* the jobs that are ever added have the ids 1..NJobs
          Workers,   \* worker ids
          NoWorker,  \* the NULL of the column worker_id
          Capable    \* the pairs <<w, j>> such that w has the encoder j needs

ASSUME QueueAssumption ==
  /\ NJobs \in Nat
  /\ NoWorker \notin Workers
  /\ Capable \subseteq Workers \X (1 .. NJobs)

Jobs == 1 .. NJobs
NoJob == 0

\* A socket is one connection of a worker; its number gives the order in which
\* the sockets connected.
Sockets == Workers \X Nat
WorkerOf(k) == k[1]

\* "Absent" stands for a job without a row: not yet added, or removed.
ActiveStages == {"Unknown", "Transferring", "Scanning", "Transcoding"}
EndedStages == {"Finished", "Stopped", "Error"}
Stages == ActiveStages \union EndedStages \union {"Waiting"}
QueueStatus == {"Stopped", "Idle", "Active"}

-----------------------------------------------------------------------------
(* Pending acknowledgements. *)

\* What StartQueue still has to do after the start it is waiting for: the
\* sockets and the jobs of its snapshot, and the order the jobs had in it.
NoRest == [sockets |-> {}, jobs |-> {}, order |-> [j \in Jobs |-> 0]]

\* What a call does once it is answered or has timed out ("then"):
\*   start  Assign: report to the queue status; Init: the same, and then
\*          register the listeners of the worker; Loop: continue StartQueue
\*   stop   the stage that the stopped job gets
Ops == {"properties", "existing", "stale", "start", "stop"}
Thens == {"Assign", "Init", "Loop", "Stopped", "Error"}

Call(op, k, j, then) ==
  [op |-> op, to |-> k, job |-> j, then |-> then, rest |-> NoRest]

Ask(s, call) == [s EXCEPT !.calls = Append(@, call)]

-----------------------------------------------------------------------------
(* Workers and their availability. *)

Connected(s, w) == \E k \in s.workers : WorkerOf(k) = w
SocketOf(s, w) == CHOOSE k \in s.workers : WorkerOf(k) = w
Accepts(s, k) == k \notin s.disabled

GetBusyWorkers(s) ==
  {s.owner[j] : j \in {i \in Jobs : s.stage[i] \in ActiveStages}} \ {NoWorker}

GetAvailableWorkers(s) ==
  {k \in s.workers : Accepts(s, k) /\ WorkerOf(k) \notin GetBusyWorkers(s)}

GetEligibleWorkers(s, K, j) ==
  {k \in K : WorkerOf(k) \in s.props /\ <<WorkerOf(k), j>> \in Capable}

\* The head of a list of sockets: lists keep the order of connection.
FirstSocket(K) == CHOOSE k \in K : \A l \in K : k[2] <= l[2]

GetAvailableJobs(s) == {j \in Jobs : s.stage[j] = "Waiting"}

GetEligibleJobs(J, w) == {j \in J : <<w, j>> \in Capable}

\* The head of a list of jobs sorted by order index (a missing index, 0, sorts
\* first; rows with equal indexes keep the order of their ids).
Precedes(order, i, j) == order[i] < order[j] \/ (order[i] = order[j] /\ i <= j)
FirstJob(order, J) == CHOOSE j \in J : \A i \in J : Precedes(order, j, i)

-----------------------------------------------------------------------------
(* Rows of the database. *)

\* Slips, each of which breaks a property of JobServer.
ReleaseClaimedJob_KeepsStage(s, j, w) ==
  IF s.owner[j] = w THEN [s EXCEPT !.owner[j] = NoWorker] ELSE s

ReleaseClaimedJob_WritesZero(s, j, w) ==
  IF s.owner[j] = w THEN [s EXCEPT !.owner[j] = 0, !.stage[j] = "Waiting"] ELSE s

NextOrderIndex_CountsRows(s) == 1 + Cardinality({j \in Jobs : s.order[j] # 0})

CanClaim_IgnoresFlag(s, j, k) == s.stage[j] = "Waiting" /\ s.owner[j] = NoWorker

\* A write to the status of a job that was deleted is ignored.
UpdateJobStatus(s, j, stage, w) ==
  IF s.stage[j] = "Absent" THEN s
  ELSE [s EXCEPT !.stage[j] = stage, !.owner[j] = w]

ReleaseClaimedJob(s, j, w) ==
  IF s.owner[j] = w THEN [s EXCEPT !.owner[j] = NoWorker, !.stage[j] = "Waiting"]
  ELSE s

NextOrderIndex(s) == 1 + Max({s.order[j] : j \in Jobs} \union {0})

InsertJobOrder(s, j) ==
  IF s.order[j] # 0 THEN s ELSE [s EXCEPT !.order[j] = NextOrderIndex(s)]

\* Deleting the row of a job closes the gap it leaves.
RemoveJobOrder(s, j) ==
  IF s.order[j] = 0 THEN s
  ELSE [s EXCEPT !.order = [i \in Jobs |->
          IF i = j THEN 0 ELSE IF @[i] >= @[j] THEN @[i] - 1 ELSE @[i]]]

\* Moving a job to index n shifts the jobs between its old and its new index.
MoveJobOrder(s, j, n) ==
  [s EXCEPT !.order = [i \in Jobs |->
     CASE i = j                             -> n
       [] i # j /\ @[j] < @[i] /\ @[i] <= n -> @[i] - 1
       [] i # j /\ n <= @[i] /\ @[i] < @[j] -> @[i] + 1
       [] OTHER                             -> @[i]]]

\* The rows of a job in the three tables; removing them cascades.
InsertJob(s, j) ==
  InsertJobOrder([s EXCEPT !.stage[j] = "Waiting", !.owner[j] = NoWorker], j)

RemoveJobByID(s, j) ==
  [RemoveJobOrder(s, j) EXCEPT !.stage[j] = "Absent", !.owner[j] = NoWorker]

-----------------------------------------------------------------------------
(* Starting jobs. *)

SetQueueStatus(s, status) == [s EXCEPT !.queue = status]

\* The first half of StartJob: the claim, if it succeeds, and the request.
CanClaim(s, j, k) ==
  Accepts(s, k) /\ s.stage[j] = "Waiting" /\ s.owner[j] = NoWorker

Claim(s, j, k, then, rest) ==
  Ask([s EXCEPT !.owner[j] = WorkerOf(k)],
      [Call("start", k, j, then) EXCEPT !.rest = rest])

\* What both assigning functions do with the result of StartJob.
ReportStart(s, didStart) ==
  IF s.queue = "Active" THEN s
  ELSE SetQueueStatus(s, IF didStart THEN "Active" ELSE "Idle")

Assign(s, j, k, then) ==
  IF CanClaim(s, j, k) THEN Claim(s, j, k, then, NoRest) ELSE ReportStart(s, FALSE)

\* The preset of the job is listed; a removed one throws here, and the caller logs it.
JobForAvailableWorkers(s, j) ==
  LET eligible == GetEligibleWorkers(s, GetAvailableWorkers(s), j)
  IN  IF s.queue = "Stopped" \/ eligible = {} THEN s
      ELSE Assign(s, j, FirstSocket(eligible), "Assign")

IdleIfNoneBusy(s) == IF GetBusyWorkers(s) = {} THEN SetQueueStatus(s, "Idle") ELSE s

\* The conditions under which WorkerForAvailableJobs looks for a job at all.
MayTakeJob(s, w) ==
  /\ s.queue # "Stopped"
  /\ Connected(s, w)
  /\ Accepts(s, SocketOf(s, w))
  /\ w \notin GetBusyWorkers(s)

\* It reads the capabilities of a worker that may not have reported them yet.
LacksProperties(s, w) == MayTakeJob(s, w) /\ w \notin s.props

WorkerForAvailableJobs(s, w, then) ==
  LET eligible == GetEligibleJobs(GetAvailableJobs(s), w)
  IN  IF ~MayTakeJob(s, w) \/ w \notin s.props THEN s
      ELSE IF eligible = {} THEN IdleIfNoneBusy(s)
      ELSE Assign(s, FirstJob(s.order, eligible), SocketOf(s, w), then)

\* An exception that leaves a listener ends the process: its memory is lost.
Throw(s) ==
  [s EXCEPT !.running = FALSE, !.workers = {}, !.props = {}, !.disabled = {},
            !.completed = [j \in Jobs |-> NoWorker], !.uploads = {},
            !.verifying = {}, !.calls = <<>>]

WorkerForAvailableJobsOrThrow(s, w) ==
  IF LacksProperties(s, w) THEN Throw(s) ELSE WorkerForAvailableJobs(s, w, "Assign")

-----------------------------------------------------------------------------
(* StartQueue: one start after the other over a snapshot. *)

\* The socket at which the loop suspends (a claim succeeds), or ends (the
\* properties of the worker are missing: caught, and the rest is skipped).
LoopStops(s, rest) ==
  {k \in rest.sockets :
     LET jobs == GetEligibleJobs(rest.jobs, WorkerOf(k))
     IN  \/ WorkerOf(k) \notin s.props
         \/ jobs # {} /\ CanClaim(s, FirstJob(rest.order, jobs), k)}

\* The iterations before it that find no job set the queue to Idle when no
\* worker is busy.
ContinueStartQueue(s, rest) ==
  LET stops == LoopStops(s, rest)
      k == FirstSocket(stops)
      passed == {l \in rest.sockets : stops = {} \/ l[2] < k[2]}
      idle == \E l \in passed : GetEligibleJobs(rest.jobs, WorkerOf(l)) = {}
      s1 == IF idle THEN IdleIfNoneBusy(s) ELSE s
      j == FirstJob(rest.order, GetEligibleJobs(rest.jobs, WorkerOf(k)))
  IN  IF stops = {} \/ WorkerOf(k) \notin s.props THEN s1
      ELSE Claim(s1, j, k, "Loop",
                 [rest EXCEPT !.sockets = {l \in @ : l[2] > k[2]}])

StartQueue(s) ==
  IF s.queue # "Stopped" THEN s
  ELSE ContinueStartQueue(s, [sockets |-> GetAvailableWorkers(s),
                              jobs    |-> GetAvailableJobs(s),
                              order   |-> s.order])

\* The second half of StartJob, when the worker has accepted or has not, and
\* what its caller does next.
StartAnswered(s, c, didStart) ==
  LET w == WorkerOf(c.to)
      s1 == IF didStart THEN UpdateJobStatus(s, c.job, s.stage[c.job], w)
            ELSE ReleaseClaimedJob(s, c.job, w)
  IN  CASE c.then # "Loop" -> ReportStart(s1, didStart)
        [] c.then = "Loop" /\ didStart ->
             ContinueStartQueue(SetQueueStatus(s1, "Active"),
                                [c.rest EXCEPT !.jobs = @ \ {c.job}])
        [] OTHER -> ContinueStartQueue(s1, c.rest)

-----------------------------------------------------------------------------
(* Stopping and resetting jobs. *)

\* The second half of StopJob; w is the worker read before the request.
FinishStop(s, j, w, stage) ==
  LET s1 == UpdateJobStatus(RemoveJobOrder(s, j), j, stage, NoWorker)
  IN  IF w = NoWorker THEN s1 ELSE WorkerForAvailableJobsOrThrow(s1, w)

\* The first half: a job that is gone throws, a worker that is away is not asked.
StopJob(s, j, stage) ==
  LET w == s.owner[j]
  IN  CASE s.stage[j] = "Absent" -> Throw(s)
        [] s.stage[j] # "Absent" /\ Connected(s, w) ->
             Ask(s, Call("stop", SocketOf(s, w), j, stage))
        [] OTHER -> FinishStop(s, j, w, stage)

ResetJob(s, j) ==
  IF s.stage[j] \notin EndedStages THEN s
  ELSE JobForAvailableWorkers(
         UpdateJobStatus(InsertJobOrder(s, j), j, "Waiting", NoWorker), j)

\* A slip: an active job is removed like any other.
RemoveJob_AlsoActive(s, j) ==
  IF s.stage[j] = "Absent" THEN Throw(s) ELSE RemoveJobByID(s, j)

RemoveJob(s, j) ==
  IF s.stage[j] \in ActiveStages \union {"Absent"} THEN Throw(s)
  ELSE RemoveJobByID(s, j)

=============================================================================
