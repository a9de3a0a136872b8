------------------------------- MODULE JobServer -------------------------------
(***************************************************************************)
(* The server process: the handlers of socket/client-socket.ts and of      *)
(* socket/worker-socket.ts, the start of the process, and the output       *)
(* uploads of worker-transfers.ts as far as the job handlers depend on     *)
(* them.  Clients, workers and the network are the environment: a worker   *)
(* may report anything about any job at any time, answer late or never,    *)
(* and lose its connection whenever it likes.                              *)
(***************************************************************************)
EXTENDS QueueOps

CONSTANTS MaxSockets,       \* connections a behaviour may open
          MaxCalls,         \* calls that may be pending when one more is made
          MayKill,          \* whether the process may be killed from outside
          StartupBehaviors  \* the configured values of queue-startup-behavior

ASSUME ServerAssumption ==
  /\ MaxSockets \in Nat
  /\ MaxCalls \in Nat
  /\ MayKill \in BOOLEAN
  /\ StartupBehaviors \subseteq {"Previous", "Active", "Stopped"}

VARIABLES
  running,    \* the process is up
  stage, owner, order, queue,                   \* the database
  nextJob,    \* the next id of the table jobs
  workers, props, disabled, calls,              \* memory, see QueueOps
  completed,  \* the worker whose upload of the output of a job completed
  uploads,    \* <<w, j>>: an output upload of w for j is in progress
  verifying,  \* <<k, j>>: transcode-finished on k waits for the file check
  sockets,    \* the number of sockets opened so far
  delivered   \* history: the jobs of which some upload completed

database == <<stage, owner, order, queue, nextJob>>
memory == <<workers, props, disabled, calls, completed, uploads, verifying>>
vars == <<running, stage, owner, order, queue, nextJob, workers, props, disabled,
          calls, completed, uploads, verifying, sockets, delivered>>

\* The server state the operators of QueueOps work on, and its next value.
Server ==
  [running |-> running, stage |-> stage, owner |-> owner, order |-> order,
   queue |-> queue, workers |-> workers, props |-> props, disabled |-> disabled,
   calls |-> calls, completed |-> completed, uploads |-> uploads,
   verifying |-> verifying]

Become(s) ==
  /\ running' = s.running
  /\ stage' = s.stage
  /\ owner' = s.owner
  /\ order' = s.order
  /\ queue' = s.queue
  /\ workers' = s.workers
  /\ props' = s.props
  /\ disabled' = s.disabled
  /\ calls' = s.calls
  /\ completed' = s.completed
  /\ uploads' = s.uploads
  /\ verifying' = s.verifying

-----------------------------------------------------------------------------
(* Names used by the guards. *)

KnownJobs == {j \in Jobs : j < nextJob}
HasRoom == Len(calls) < MaxCalls

InitOps == {"properties", "existing", "stale"}
InitialisesSocket(c, k) == c.to = k /\ (c.op \in InitOps \/ c.then = "Init")

\* The listeners of a socket are registered once its initialisation has ended.
Ready(k) ==
  k \in workers /\ \A i \in DOMAIN calls : ~InitialisesSocket(calls[i], k)

Owns(k, j) == owner[j] = WorkerOf(k)

-----------------------------------------------------------------------------
(* The process. *)

Init ==
  /\ running = TRUE
  /\ stage = [j \in Jobs |-> "Absent"]
  /\ owner = [j \in Jobs |-> NoWorker]
  /\ order = [j \in Jobs |-> 0]
  /\ queue \in {"Stopped", "Idle"}
  /\ nextJob = 1
  /\ workers = {} /\ props = {} /\ disabled = {}
  /\ calls = <<>>
  /\ completed = [j \in Jobs |-> NoWorker]
  /\ uploads = {} /\ verifying = {}
  /\ sockets = 0
  /\ delivered = {}

Kill ==
  /\ MayKill /\ running
  /\ Become(Throw(Server))
  /\ UNCHANGED <<nextJob, sockets, delivered>>

\* A new process reads the database; InitializeQueue.
StartupStatus(behavior) ==
  CASE behavior = "Active"   -> "Idle"
    [] behavior = "Stopped"  -> "Stopped"
    [] behavior = "Previous" -> queue

Restart ==
  /\ ~running
  /\ running' = TRUE
  /\ \E behavior \in StartupBehaviors : queue' = StartupStatus(behavior)
  /\ stage' = [j \in Jobs |-> IF stage[j] \in ActiveStages THEN "Unknown" ELSE stage[j]]
  /\ UNCHANGED <<owner, order, nextJob, memory, sockets, delivered>>

-----------------------------------------------------------------------------
(* Requests of the web client. *)

ClientStep(s) ==
  /\ running
  /\ Become(s)
  /\ UNCHANGED <<sockets, delivered>>

ClientAddsJob ==
  /\ HasRoom
  /\ nextJob \in Jobs
  /\ ClientStep(JobForAvailableWorkers(InsertJob(Server, nextJob), nextJob))
  /\ nextJob' = nextJob + 1

ClientRequest(s) == HasRoom /\ ClientStep(s) /\ UNCHANGED nextJob

ClientStopsJob(j) == ClientRequest(StopJob(Server, j, "Stopped"))
ClientResetsJob(j) == ClientRequest(ResetJob(Server, j))
ClientRemovesJob(j) == ClientRequest(RemoveJob(Server, j))

\* A client sends the place of a job in its list, never 0; a job without an index throws.
ClientReordersJob(j, n) ==
  ClientRequest(IF order[j] = 0 THEN Throw(Server) ELSE MoveJobOrder(Server, j, n))

\* The jobs are removed in the order of the table; Error and active jobs stay.
ClearableStages(finishedOnly) ==
  IF finishedOnly THEN {"Finished"} ELSE {"Waiting", "Finished", "Stopped"}

ClientClearsQueue(finishedOnly) ==
  LET gone == {j \in Jobs : stage[j] \in ClearableStages(finishedOnly)}
      left == {j \in Jobs \ gone : order[j] # 0}
  IN  ClientRequest(
        [Server EXCEPT
           !.stage = [j \in Jobs |-> IF j \in gone THEN "Absent" ELSE @[j]],
           !.owner = [j \in Jobs |-> IF j \in gone THEN NoWorker ELSE @[j]],
           !.order = [j \in Jobs |-> IF j \notin left THEN 0
                      ELSE @[j] - Cardinality({i \in gone : 0 < @[i] /\ @[i] < @[j]})]])

ClientStartsQueue == queue = "Stopped" /\ ClientRequest(StartQueue(Server))
ClientStopsQueue == queue # "Stopped" /\ ClientRequest(SetQueueStatus(Server, "Stopped"))

\* SetWorkerEnabled; an exception is caught by the listener.  To disable a
\* worker makes no call and needs no room.
ClientSetsWorkerEnabled(w, accepts) ==
  /\ accepts => HasRoom
  /\ Connected(Server, w)
  /\ LET k == SocketOf(Server, w)
         s == [Server EXCEPT !.disabled = IF accepts THEN @ \ {k} ELSE @ \union {k}]
     IN  ClientStep(IF accepts THEN WorkerForAvailableJobs(s, w, "Assign") ELSE s)
  /\ UNCHANGED nextJob

ClientNext ==
  \/ ClientAddsJob
  \/ ClientStartsQueue
  \/ ClientStopsQueue
  \/ \E j \in KnownJobs :
       \/ ClientStopsJob(j)
       \/ ClientResetsJob(j)
       \/ ClientRemovesJob(j)
       \/ \E n \in Jobs : ClientReordersJob(j, n)
  \/ \E finishedOnly \in BOOLEAN : ClientClearsQueue(finishedOnly)
  \/ \E w \in Workers, accepts \in BOOLEAN : ClientSetsWorkerEnabled(w, accepts)

-----------------------------------------------------------------------------
(* Connections of workers. *)

ServerStep(s) ==
  /\ running
  /\ Become(s)
  /\ UNCHANGED <<nextJob, delivered>>

\* A second connection under the same id is rejected and changes nothing.  The
\* flag comes from the token record that the authentication has read.
WorkerConnects(w) ==
  /\ sockets < MaxSockets
  /\ HasRoom
  /\ ~Connected(Server, w)
  /\ LET k == <<w, sockets + 1>>
         s == [Server EXCEPT !.workers = @ \union {k}]
     IN  \E accepts \in BOOLEAN :
           ServerStep(Ask([s EXCEPT !.disabled = IF accepts THEN @ ELSE @ \union {k}],
                          Call("properties", k, NoJob, "Init")))
  /\ sockets' = sockets + 1

\* cleanupWorker: the first job the worker was active on becomes Unknown.
CleanupWorker(s, k) ==
  LET active == {j \in Jobs : s.owner[j] = WorkerOf(k) /\ s.stage[j] \in ActiveStages}
      s1 == [s EXCEPT !.workers = @ \ {k}, !.props = @ \ {WorkerOf(k)}]
  IN  IF active = {} THEN s1 ELSE [s1 EXCEPT !.stage[Min(active)] = "Unknown"]

WorkerDisconnects(k) == ServerStep(CleanupWorker(Server, k)) /\ UNCHANGED sockets

-----------------------------------------------------------------------------
(* Answers of workers, and the timers of the calls. *)

\* The state in which call i is no longer pending.
Without(i) == [Server EXCEPT !.calls = RemoveAt(@, i)]

Answered(i, op) == calls[i].op = op /\ calls[i].to \in workers

PropertiesAnswered(i) ==
  /\ Answered(i, "properties")
  /\ LET k == calls[i].to
     IN  ServerStep(Ask([Without(i) EXCEPT !.props = @ \union {WorkerOf(k)}],
                        Call("existing", k, NoJob, "Init")))

\* check-for-existing-job: the worker works on j, or on nothing.
ExistingJobAnswered(i, j) ==
  /\ Answered(i, "existing")
  /\ LET k == calls[i].to
         s == Without(i)
     IN  ServerStep(
           CASE j = NoJob -> WorkerForAvailableJobs(s, WorkerOf(k), "Init")
             [] j # NoJob /\ ~Owns(k, j) -> Ask(s, Call("stale", k, j, "Init"))
             [] j # NoJob /\ Owns(k, j) /\ stage[j] \notin ActiveStages ->
                  UpdateJobStatus(s, j, "Unknown", WorkerOf(k))
             [] OTHER -> s)

StaleStopAnswered(i) ==
  /\ Answered(i, "stale")
  /\ ServerStep(WorkerForAvailableJobs(Without(i), WorkerOf(calls[i].to), "Init"))

StartCallAnswered(i, didStart) ==
  /\ Answered(i, "start")
  /\ ServerStep(StartAnswered(Without(i), calls[i], didStart))

StopAnswered(i) ==
  LET c == calls[i]
  IN  /\ Answered(i, "stop")
      /\ ServerStep(FinishStop(Without(i), c.job, WorkerOf(c.to), c.then))

AnswerNext ==
  \E i \in DOMAIN calls :
    \/ PropertiesAnswered(i)
    \/ \E j \in KnownJobs \union {NoJob} : ExistingJobAnswered(i, j)
    \/ StaleStopAnswered(i)
    \/ \E didStart \in BOOLEAN : StartCallAnswered(i, didStart)
    \/ StopAnswered(i)

\* Slips: a stop that times out is dropped; initialisation waits without a timer.
CallTimesOut_DropsStop ==
  /\ calls # <<>>
  /\ ServerStep(IF calls[1].op = "start" THEN StartAnswered(Without(1), calls[1], FALSE)
                ELSE Without(1))
  /\ UNCHANGED sockets

CallTimesOut_NotForInit ==
  LET c == calls[1]
  IN  /\ calls # <<>>
      /\ c.op \in {"start", "stop"}
      /\ ServerStep(IF c.op = "start" THEN StartAnswered(Without(1), c, FALSE)
                    ELSE FinishStop(Without(1), c.job, WorkerOf(c.to), c.then))
      /\ UNCHANGED sockets

\* All timers run 15 s, so the oldest pending call is the first to time out.
\* The initialisation of a live socket gives up and disconnects it.
CallTimesOut ==
  LET c == calls[1]
      s == Without(1)
  IN  /\ calls # <<>>
      /\ ServerStep(
           CASE c.op = "start" -> StartAnswered(s, c, FALSE)
             [] c.op = "stop"  -> FinishStop(s, c.job, WorkerOf(c.to), c.then)
             [] c.op = "stale" -> s
             [] c.op \in {"properties", "existing"} ->
                  IF c.to \in workers THEN CleanupWorker(s, c.to) ELSE s)
      /\ UNCHANGED sockets

-----------------------------------------------------------------------------
(* Events of workers on a socket whose listeners are registered. *)

WorkerEvent(k, s) ==
  /\ Ready(k)
  /\ ServerStep(s)
  /\ UNCHANGED sockets

ClearCompleted(s, j) == [s EXCEPT !.completed[j] = NoWorker]

\* The stages a worker may report; a terminal stage is dropped from an update, and
\* no worker sends "Waiting".
ReportedStages == {"Transferring", "Scanning", "Transcoding"}

TranscodeUpdate(k, j, reported) ==
  Owns(k, j) /\ WorkerEvent(k, UpdateJobStatus(Server, j, reported, WorkerOf(k)))

TranscodeStopped(k, j) ==
  /\ Owns(k, j)
  /\ WorkerEvent(k, IdleIfNoneBusy(
       UpdateJobStatus(RemoveJobOrder(ClearCompleted(Server, j), j), j, "Stopped", NoWorker)))

TranscodeError(k, j) ==
  /\ HasRoom
  /\ Owns(k, j)
  /\ WorkerEvent(k, StopJob(ClearCompleted(Server, j), j, "Error"))

\* The job is stopped with an error when no upload of the worker is recorded ...
UnverifiedFinish(k, j) ==
  /\ HasRoom
  /\ Owns(k, j)
  /\ completed[j] # WorkerOf(k)
  /\ WorkerEvent(k, StopJob(Server, j, "Error"))

\* A slip: any upload counts, also one that never took place.
FinishReported_Unchecked(k, j) ==
  Owns(k, j) /\ WorkerEvent(k, [Server EXCEPT !.verifying = @ \union {<<k, j>>}])

\* ... and otherwise the file is looked up on disk.
FinishReported(k, j) ==
  /\ Owns(k, j)
  /\ completed[j] = WorkerOf(k)
  /\ WorkerEvent(k, [Server EXCEPT !.verifying = @ \union {<<k, j>>}])

\* The rest of transcode-finished; the owner is not read again.
FinishVerified(k, j, isFile) ==
  LET s == [Server EXCEPT !.verifying = @ \ {<<k, j>>}]
      s1 == RemoveJobOrder(UpdateJobStatus(s, j, "Finished", WorkerOf(k)), j)
  IN  /\ HasRoom
      /\ ServerStep(IF isFile
                    THEN WorkerForAvailableJobsOrThrow(ClearCompleted(s1, j), WorkerOf(k))
                    ELSE StopJob(s, j, "Error"))
      /\ UNCHANGED sockets

EventNext ==
  \/ \E k \in workers, j \in KnownJobs :
       \/ \E reported \in ReportedStages : TranscodeUpdate(k, j, reported)
       \/ TranscodeStopped(k, j)
       \/ TranscodeError(k, j)
       \/ UnverifiedFinish(k, j)
       \/ FinishReported(k, j)
  \/ \E v \in verifying, isFile \in BOOLEAN : FinishVerified(v[1], v[2], isFile)

-----------------------------------------------------------------------------
(* Output uploads: the lease and the start of the PUT check the owner, the
   end of the PUT records the upload. *)

UploadStarts(w, j) ==
  /\ owner[j] = w
  /\ \A v \in Workers : <<v, j>> \notin uploads
  /\ ServerStep([ClearCompleted(Server, j) EXCEPT !.uploads = @ \union {<<w, j>>}])
  /\ UNCHANGED sockets

UploadEnds(w, j, ok) ==
  LET s == [Server EXCEPT !.uploads = @ \ {<<w, j>>}]
  IN  /\ running
      /\ <<w, j>> \in uploads
      /\ Become(IF ok THEN [s EXCEPT !.completed[j] = w] ELSE s)
      /\ delivered' = IF ok THEN delivered \union {j} ELSE delivered
      /\ UNCHANGED <<nextJob, sockets>>

UploadNext ==
  \E w \in Workers, j \in KnownJobs :
    \/ UploadStarts(w, j)
    \/ \E ok \in BOOLEAN : UploadEnds(w, j, ok)

-----------------------------------------------------------------------------
Next ==
  \/ Kill
  \/ Restart
  \/ ClientNext
  \/ \E w \in Workers : WorkerConnects(w)
  \/ \E k \in workers : WorkerDisconnects(k)
  \/ AnswerNext /\ UNCHANGED sockets
  \/ CallTimesOut
  \/ EventNext
  \/ UploadNext

Spec == Init /\ [][Next]_vars

\* The timers of Node fire.
FairSpec == Spec /\ WF_vars(CallTimesOut)

-----------------------------------------------------------------------------
(* Properties. *)

\* Every call that starts or stops names a job, and every stop the new stage.
CallRecords ==
  {c \in [op : Ops, to : Sockets, job : Jobs \union {NoJob}, then : Thens,
          rest : [sockets : SUBSET Sockets, jobs : SUBSET Jobs, order : [Jobs -> Int]]] :
     /\ c.op \in {"start", "stop"} => c.job \in Jobs
     /\ c.op = "stop" <=> c.then \in {"Stopped", "Error"}}

\* The types of the database and of the memory of the server.
TypeOK ==
  /\ running \in BOOLEAN
  /\ stage \in [Jobs -> Stages \union {"Absent"}]
  /\ owner \in [Jobs -> Workers \union {NoWorker}]
  /\ order \in [Jobs -> Int]
  /\ queue \in QueueStatus
  /\ nextJob \in Nat
  /\ workers \subseteq Sockets /\ props \subseteq Workers /\ disabled \subseteq Sockets
  /\ completed \in [Jobs -> Workers \union {NoWorker}]
  /\ calls \in Seq(CallRecords)
  /\ sockets \in Nat
  /\ uploads \subseteq Workers \X Jobs
  /\ verifying \subseteq Sockets \X Jobs
  /\ delivered \subseteq Jobs

\* A job shown as being worked on always names the worker: no interleaving of
\* claims, answers, timeouts, stops, disconnections and restarts leaves an
\* active job that belongs to nobody (GetBusyWorkers, cleanupWorker and StopJob
\* all find the worker of an active job through worker_id).
ActiveJobHasOwner ==
  \A j \in Jobs : stage[j] \in ActiveStages => owner[j] # NoWorker

\* A job is Finished only if some worker delivered its output, however the
\* upload, the report, the file check, stops and restarts interleave
\* (transcode-finished asks HasCompletedWorkerOutputTransfer).
FinishedWasDelivered ==
  \A j \in Jobs : stage[j] = "Finished" => j \in delivered

\* No sequence of inserts, moves, stops, resets, removals and clearings gives two jobs
\* the same order index (the column is UNIQUE: the second write would throw), or an
\* index to a job that is gone.
OrderFitsJobs ==
  /\ \A i, j \in Jobs : order[i] = order[j] /\ order[i] # 0 => i = j
  /\ \A j \in Jobs : stage[j] = "Absent" => order[j] = 0

StopPending(j) == \E i \in DOMAIN calls : calls[i].op = "stop" /\ calls[i].job = j

\* A stop never hangs on a worker that does not answer: every stop request
\* ends with the job stopped or removed (or the process ends).
StopCompletes ==
  \A j \in Jobs :
    StopPending(j) ~> stage[j] \in {"Stopped", "Error", "Absent"} \/ ~running

\* The initialisation of a connection ends: the listeners of the worker get
\* registered, or the connection is given up.
InitialisationEnds ==
  \A k \in Workers \X (1 .. MaxSockets) :
    k \in workers ~> Ready(k) \/ k \notin workers \/ ~running

NewStarts == {c \in Range(calls') : c.op = "start"} \ Range(calls)

\* A worker that was disabled gets no new job, also when it is disabled while
\* StartQueue is halfway through its snapshot.
DisabledWorkerGetsNoJob ==
  [][\A c \in NewStarts : c.to \notin disabled']_vars

\* The life of a job as its table rows show it.
Phase(j) ==
  CASE stage[j] = "Absent"                -> IF j < nextJob THEN "Removed" ELSE "New"
    [] stage[j] = "Waiting"               -> "Queued"
    [] stage[j] \in ActiveStages          -> "Active"
    [] stage[j] \in {"Stopped", "Error"}  -> "Ended"
    [] OTHER                              -> "Finished"

Lifecycle == INSTANCE JobLifecycle WITH phase <- [j \in Jobs |-> Phase(j)], holder <- owner

\* Through all interleavings, crashes and time-outs each job lives the life of
\* JobLifecycle: it is worked on only for the worker that holds it, is finished
\* only after a delivery, is not removed while active, and never comes back.
ImplementsLifecycle == Lifecycle!Spec

\* A waiting job can be claimed: while no worker is connected and no request is
\* in flight, it belongs to nobody.
WaitingJobIsFree ==
  running /\ workers = {} /\ calls = <<>> =>
    \A j \in Jobs : stage[j] = "Waiting" => owner[j] = NoWorker

=============================================================================
