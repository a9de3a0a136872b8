---------------------------- MODULE TranscodeWorker ----------------------------
(***************************************************************************)
(* The worker process: worker/src/scripts/transcode.ts and the listeners   *)
(* of worker/src/socket/server-socket.ts that drive it.                    *)
(*                                                                         *)
(* StartTranscode and StopTranscode communicate through the variables of   *)
(* the module transcode.ts (mod and cancelled below).  Every await is a    *)
(* point at which other callbacks run: the answer of the server, the end   *)
(* of a transfer, an operation on the workspace directory, the output and  *)
(* the end of HandBrakeCLI, a timer.  A run is one call of runTranscode;   *)
(* its workspace directory, its child process and its abort controller     *)
(* carry its number, and 0 stands for undefined or null.                   *)
(*                                                                         *)
(* The server, the disk and HandBrakeCLI are the environment: they answer, *)
(* fail and end in any order.                                              *)
(***************************************************************************)
EXTENDS Naturals, Sequences, FiniteSets, SequencesExt

CONSTANTS Jobs,         \* job ids
          NoJob,        \* the null of startingJobID, currentJobID, stoppingJobID
          MaxRuns,      \* starts that a behaviour accepts
          MaxStops,     \* stop requests that reach the current job
          MaxAttempts,  \* outputUploadMaxAttempts
          OutputKinds   \* what HandBrakeCLI may print besides progress

ASSUME WorkerAssumption ==
  /\ NoJob \notin Jobs
  /\ MaxRuns \in Nat /\ MaxStops \in Nat
  /\ MaxAttempts \in Nat \ {0}
  /\ OutputKinds \subseteq {"Done", "Failed", "Garbled"}

VARIABLES
  mod,        \* the variables of the module
  cancelled,  \* cancelledJobIDs
  runs,       \* the runs, in the order they were accepted
  stops,      \* the calls of StopTranscode that were not ignored
  dirs        \* the runs whose workspace directory exists

vars == <<mod, cancelled, runs, stops, dirs>>

Runs == 1 .. MaxRuns

\* loaded: currentJob is set.  workspace stands for currentWorkspaceDir and
\* currentLocalOutputPath, preset for presetPath, transfer for
\* activeTransferAbortController.
IdleModule ==
  [starting |-> NoJob, current |-> NoJob, stopping |-> NoJob, loaded |-> FALSE,
   workspace |-> 0, preset |-> 0, transfer |-> 0, handbrake |-> 0]

\* Where a run is: before the spawn it awaits the answer or the operation it
\* is named for; "encoding" means that no output is being processed; a run in
\* CleanUps awaits the removal of a directory.
CleanUps == {"caught", "garbled", "failed", "finished", "closed"}
Phases == {"jobdata", "mkdtemp", "inputlease", "download", "preset", "write",
           "encoding", "stat", "outputlease", "upload", "checking", "delay",
           "over"} \union CleanUps

NewRun(j) ==
  [job |-> j, pc |-> "jobdata", child |-> "none", dir |-> 0, file |-> 0,
   attempt |-> 0, aborted |-> FALSE, terminal |-> FALSE, received |-> FALSE,
   garbled |-> FALSE, reports |-> <<>>]   \* history, see the properties

Worker == [mod |-> mod, cancelled |-> cancelled, runs |-> runs, stops |-> stops,
           dirs |-> dirs]

Become(s) ==
  /\ mod' = s.mod
  /\ cancelled' = s.cancelled
  /\ runs' = s.runs
  /\ stops' = s.stops
  /\ dirs' = s.dirs

-----------------------------------------------------------------------------
(* State changes that several callbacks share. *)

IsTranscoding == mod.handbrake # 0 \/ mod.starting # NoJob \/ mod.current # NoJob

\* A slip: the child process is forgotten with the rest.
ClearCurrentJobState_DropsHandle(s) == [s EXCEPT !.mod = IdleModule]

ClearCurrentJobState(s) ==
  [s EXCEPT !.mod = [IdleModule EXCEPT !.handbrake = s.mod.handbrake]]

At(s, r, pc) == [s EXCEPT !.runs[r].pc = pc]

Report(s, r, event) == [s EXCEPT !.runs[r].reports = Append(@, event)]

ErrorUnlessCancelled(s, r) ==
  IF s.runs[r].job \in s.cancelled THEN s ELSE Report(s, r, "error")

\* The child process of the run is forgotten and the run is over.
Close(s, r) == [At(s, r, "over") EXCEPT !.mod.handbrake = 0, !.mod.starting = NoJob]

\* The run that was accepted is settled; StartTranscode's finally.
Settle(s, r) == [s EXCEPT !.cancelled = @ \ {s.runs[r].job}]

\* What follows the removal of the workspace.
AfterCleanUp(s, r, kind) ==
  LET c == ClearCurrentJobState(s)
  IN  CASE kind = "caught"   -> Settle(ErrorUnlessCancelled(Close(c, r), r), r)
        [] kind = "garbled"  -> ErrorUnlessCancelled(At(c, r, "encoding"), r)
        [] kind = "failed"   -> Report(At(c, r, "encoding"), r, "error")
        [] kind = "finished" -> Report(At(c, r, "encoding"), r, "finished")
        [] kind = "closed"   -> Close(Report(c, r, "error"), r)

\* cleanupTranscodeFiles: the directory is the current one, whoever made it.
CleanUp(s, r, kind) ==
  IF s.mod.workspace = 0 THEN AfterCleanUp(s, r, kind)
  ELSE [At(s, r, kind) EXCEPT !.runs[r].dir = s.mod.workspace]

-----------------------------------------------------------------------------
Init ==
  /\ mod = IdleModule
  /\ cancelled = {}
  /\ runs = <<>>
  /\ stops = <<>>
  /\ dirs = {}

\* start-transcode; a worker that is transcoding refuses and changes nothing.
StartTranscode(j) ==
  /\ Len(runs) < MaxRuns
  /\ ~IsTranscoding
  /\ Become([Worker EXCEPT !.mod.starting = j, !.mod.current = j,
                           !.runs = Append(@, NewRun(j))])

-----------------------------------------------------------------------------
(* runTranscode up to the spawn.  ok: the answer came in time and is usable. *)

Awaits(r, pc) == runs[r].pc = pc

JobDataAnswered(r, ok) ==
  /\ Awaits(r, "jobdata")
  /\ Become(IF ok THEN [At(Worker, r, "mkdtemp") EXCEPT !.mod.loaded = TRUE,
                                                        !.mod.current = runs[r].job]
            ELSE CleanUp(Worker, r, "caught"))

WorkspaceMade(r, ok) ==
  /\ Awaits(r, "mkdtemp")
  /\ Become(IF ok THEN [At(Worker, r, "inputlease") EXCEPT !.mod.workspace = r,
                                                           !.dirs = @ \union {r}]
            ELSE CleanUp(Worker, r, "caught"))

InputLeaseAnswered(r, ok) ==
  /\ Awaits(r, "inputlease")
  /\ Become(IF ok THEN [At(Worker, r, "download") EXCEPT !.mod.transfer = r]
            ELSE CleanUp(Worker, r, "caught"))

DownloadEnds(r, ok) ==
  LET s == [Worker EXCEPT !.mod.transfer = 0]
  IN  /\ Awaits(r, "download")
      /\ Become(IF ok /\ ~runs[r].aborted THEN At(s, r, "preset")
                ELSE CleanUp(s, r, "caught"))

\* The preset goes to the current workspace, whoever made it.
PresetAnswered(r, ok) ==
  /\ Awaits(r, "preset")
  /\ Become(IF ok /\ mod.workspace # 0
            THEN [At(Worker, r, "write") EXCEPT !.mod.preset = mod.workspace]
            ELSE CleanUp(Worker, r, "caught"))

\* The end of writePresetToFile, and the spawn, also when a stop has cleared presetPath.
PresetWritten(r, ok) ==
  /\ Awaits(r, "write")
  /\ Become(IF ok
            THEN Settle([At(Worker, r, "encoding") EXCEPT !.runs[r].child = "alive",
                                                          !.mod.handbrake = r,
                                                          !.mod.starting = NoJob], r)
            ELSE CleanUp(Worker, r, "caught"))

Preparation(r) ==
  \E ok \in BOOLEAN :
    \/ JobDataAnswered(r, ok)
    \/ WorkspaceMade(r, ok)
    \/ InputLeaseAnswered(r, ok)
    \/ DownloadEnds(r, ok)
    \/ PresetAnswered(r, ok)
    \/ PresetWritten(r, ok)

-----------------------------------------------------------------------------
(* Output of HandBrakeCLI, one record after the other; records that were read
   before the process closed are still processed afterwards. *)

\* A slip: the WORKDONE record is not remembered as the end of the job.
WorkDone_NotTerminal(r, error) ==
  /\ Awaits(r, "encoding") /\ runs[r].child # "none"
  /\ Become(IF ~error /\ mod.loaded /\ mod.workspace # 0
            THEN [At(Worker, r, "stat") EXCEPT !.runs[r].file = mod.workspace,
                                               !.runs[r].attempt = 1]
            ELSE CleanUp(Worker, r, "failed"))

WorkDone(r, error) ==
  LET s == [Worker EXCEPT !.runs[r].terminal = TRUE]
  IN  /\ Awaits(r, "encoding") /\ runs[r].child # "none"
      /\ ~runs[r].terminal
      /\ Become(IF ~error /\ mod.loaded /\ mod.workspace # 0
                THEN [At(s, r, "stat") EXCEPT !.runs[r].file = mod.workspace,
                                              !.runs[r].attempt = 1]
                ELSE CleanUp(s, r, "failed"))

\* A record that is not JSON, or that lacks a field.  The guard on the reports
\* bounds the history.
GarbledOutput(r) ==
  /\ Awaits(r, "encoding") /\ runs[r].child # "none"
  /\ Len(runs[r].reports) < 2
  /\ Become(CleanUp([Worker EXCEPT !.runs[r].terminal = TRUE,
                                   !.runs[r].garbled = TRUE], r, "garbled"))

Output(r) ==
  \/ "Done" \in OutputKinds /\ WorkDone(r, FALSE)
  \/ "Failed" \in OutputKinds /\ WorkDone(r, TRUE)
  \/ "Garbled" \in OutputKinds /\ GarbledOutput(r)

\* The process ends, by itself or by a signal.
ChildCloses(r) ==
  /\ runs[r].child = "alive"
  /\ Become([Worker EXCEPT !.runs[r].child = "closed"])

\* A slip: a process that ends without WORKDONE is not reported.
CloseHandled_Silent(r) ==
  /\ Awaits(r, "encoding") /\ runs[r].child = "closed"
  /\ Become(Close(Worker, r))

\* The close listener, once all output has been processed.
CloseHandled(r) ==
  /\ Awaits(r, "encoding") /\ runs[r].child = "closed"
  /\ Become(IF /\ ~runs[r].terminal
               /\ mod.stopping = NoJob
               /\ runs[r].job \notin cancelled
            THEN CleanUp(Worker, r, "closed")
            ELSE Close(Worker, r))

CleanUpEnds(r) ==
  /\ runs[r].pc \in CleanUps
  /\ Become(AfterCleanUp([Worker EXCEPT !.dirs = @ \ {runs[r].dir}], r, runs[r].pc))

-----------------------------------------------------------------------------
(* uploadOutput. *)

\* The start of an attempt: throwIfJobCancelled, and the request for a lease.
Attempt(s, r) ==
  IF s.runs[r].job \in s.cancelled THEN CleanUp(s, r, "garbled")
  ELSE At(s, r, "outputlease")

OutputStat(r, ok) ==
  /\ Awaits(r, "stat")
  /\ Become(IF ok /\ runs[r].file \in dirs THEN Attempt(Worker, r)
            ELSE CleanUp(Worker, r, "garbled"))

OutputLeaseAnswered(r, ok) ==
  /\ Awaits(r, "outputlease")
  /\ Become(IF ok THEN [At(Worker, r, "upload") EXCEPT !.mod.transfer = r]
            ELSE At(Worker, r, "checking"))

\* received: the server has the file, also when its response is lost.
UploadEnds(r, ok, received) ==
  LET s == [Worker EXCEPT !.mod.transfer = 0, !.runs[r].aborted = FALSE,
                          !.runs[r].received = @ \/ received]
  IN  /\ Awaits(r, "upload")
      /\ ok => received /\ ~runs[r].aborted
      /\ Become(IF ok THEN CleanUp(s, r, "finished") ELSE At(s, r, "checking"))

\* Slips: no answer counts as a completed upload; one attempt too many.
CompletionAnswered_TimeoutCounts(r, completed, retryable) ==
  /\ Awaits(r, "checking")
  /\ Become(CASE completed -> CleanUp(Worker, r, "finished")
              [] /\ ~completed /\ retryable
                 /\ runs[r].attempt < MaxAttempts
                 /\ runs[r].job \notin cancelled -> At(Worker, r, "delay")
              [] OTHER -> CleanUp(Worker, r, "garbled"))

CompletionAnswered_OneTooMany(r, completed, retryable) ==
  /\ Awaits(r, "checking")
  /\ completed => runs[r].received
  /\ Become(CASE completed -> CleanUp(Worker, r, "finished")
              [] /\ ~completed /\ retryable
                 /\ runs[r].attempt <= MaxAttempts
                 /\ runs[r].job \notin cancelled -> At(Worker, r, "delay")
              [] OTHER -> CleanUp(Worker, r, "garbled"))

\* hasCompletedOutputTransfer; no answer in time counts as false.  The server's record is
\* taken to be of this run: that of an earlier run, which the server forgets when it is
\* told the end of that run or grants a lease to this one, is left out.
CompletionAnswered(r, completed, retryable) ==
  /\ Awaits(r, "checking")
  /\ completed => runs[r].received
  /\ Become(CASE completed -> CleanUp(Worker, r, "finished")
              [] /\ ~completed /\ retryable
                 /\ runs[r].attempt < MaxAttempts
                 /\ runs[r].job \notin cancelled -> At(Worker, r, "delay")
              [] OTHER -> CleanUp(Worker, r, "garbled"))

DelayEnds(r) ==
  /\ Awaits(r, "delay")
  /\ Become(Attempt([Worker EXCEPT !.runs[r].attempt = @ + 1], r))

Upload(r) ==
  \/ \E ok \in BOOLEAN : OutputStat(r, ok) \/ OutputLeaseAnswered(r, ok)
  \/ \E ok, received \in BOOLEAN : UploadEnds(r, ok, received)
  \/ \E completed, retryable \in BOOLEAN : CompletionAnswered(r, completed, retryable)
  \/ DelayEnds(r)

-----------------------------------------------------------------------------
(* StopTranscode. *)

\* The end of StopTranscode: the state is cleared, whatever run it belongs to.
FinishStop(s, i) ==
  [ClearCurrentJobState(s) EXCEPT !.mod.handbrake = 0, !.stops[i].pc = "answered"]

\* cleanupTranscodeFiles(undefined) takes the workspace of this moment, if there is one.
RemoveStopped(s, i) ==
  LET dir == IF s.stops[i].dir = 0 THEN s.mod.workspace ELSE s.stops[i].dir
      t == [s EXCEPT !.stops[i].dir = dir]
  IN  IF dir = 0 THEN FinishStop(s, i) ELSE [t EXCEPT !.stops[i].pc = "removing"]

\* A socket that is not connected is not told.
TellServer(s, i, connected) ==
  IF connected THEN [s EXCEPT !.stops[i].pc = "telling"] ELSE RemoveStopped(s, i)

\* A request for any other job is ignored.
StopTranscode(j, connected) ==
  LET h == mod.handbrake
      i == Len(stops) + 1
      stop == [job |-> j, dir |-> mod.workspace, child |-> h, pc |-> "killing"]
      s == [Worker EXCEPT !.cancelled = @ \union {j},
                          !.mod.stopping = j,
                          !.stops = Append(@, stop),
                          !.runs = [r \in DOMAIN @ |->
                            IF r = mod.transfer THEN [@[r] EXCEPT !.aborted = TRUE] ELSE @[r]]]
  IN  /\ Len(stops) < MaxStops
      /\ mod.current = j \/ mod.starting = j
      /\ Become(IF h # 0 /\ runs[h].child = "alive" THEN s
                ELSE TellServer(s, i, connected))

\* A slip: the wait for the process has no timer.
KillWaitEnds_NoTimer(i, connected) ==
  /\ stops[i].pc = "killing"
  /\ runs[stops[i].child].child = "closed"
  /\ Become(TellServer(Worker, i, connected))

\* The process has closed, or has been sent SIGKILL after 15 s.
KillWaitEnds(i, connected) ==
  /\ stops[i].pc = "killing"
  /\ Become(TellServer(Worker, i, connected))

\* An acknowledgement that does not come throws: the rest is skipped.
StopAcknowledged(i, ok) ==
  /\ stops[i].pc = "telling"
  /\ Become(IF ok THEN RemoveStopped(Worker, i)
            ELSE [Worker EXCEPT !.stops[i].pc = "answered"])

StoppedWorkspaceRemoved(i) ==
  /\ stops[i].pc = "removing"
  /\ Become(FinishStop([Worker EXCEPT !.dirs = @ \ {stops[i].dir}], i))

Stopping(i) ==
  \/ \E connected \in BOOLEAN : KillWaitEnds(i, connected)
  \/ \E ok \in BOOLEAN : StopAcknowledged(i, ok)
  \/ StoppedWorkspaceRemoved(i)

-----------------------------------------------------------------------------
Progress(r) == Preparation(r) \/ Upload(r) \/ CloseHandled(r) \/ CleanUpEnds(r)

Next ==
  \/ \E j \in Jobs : StartTranscode(j)
  \/ \E r \in DOMAIN runs : Progress(r) \/ Output(r) \/ ChildCloses(r)
  \/ \E j \in Jobs, connected \in BOOLEAN : StopTranscode(j, connected)
  \/ \E i \in DOMAIN stops : Stopping(i)

Spec == Init /\ [][Next]_vars

\* Every await of a stop is bounded by a timer, or is an operation on a local
\* file, so a stop goes on whatever becomes of the run.
TimerSpec == Spec /\ \A i \in 1 .. MaxStops : WF_vars(i \in DOMAIN stops /\ Stopping(i))

\* The awaits of a run end as well (its HTTP client has timers), and HandBrakeCLI
\* comes to an end.
FairSpec ==
  /\ TimerSpec
  /\ \A r \in Runs : WF_vars(r \in DOMAIN runs /\ (Progress(r) \/ ChildCloses(r)))

-----------------------------------------------------------------------------
(* Properties. *)

RunRecords ==
  [job : Jobs, pc : Phases, child : {"none", "alive", "closed"},
   dir : 0 .. MaxRuns, file : 0 .. MaxRuns, attempt : 0 .. MaxAttempts,
   aborted : BOOLEAN, terminal : BOOLEAN, received : BOOLEAN, garbled : BOOLEAN,
   reports : Seq({"error", "finished"})]

StopRecords ==
  [job : Jobs, dir : 0 .. MaxRuns, child : 0 .. MaxRuns,
   pc : {"killing", "telling", "removing", "answered"}]

\* The types of the module's variables and of the records of runs and stops.
TypeOK ==
  /\ mod \in [starting : Jobs \union {NoJob}, current : Jobs \union {NoJob},
               stopping : Jobs \union {NoJob}, loaded : BOOLEAN,
               workspace : 0 .. MaxRuns, preset : 0 .. MaxRuns,
               transfer : 0 .. MaxRuns, handbrake : 0 .. MaxRuns]
  /\ cancelled \subseteq Jobs
  /\ runs \in Seq(RunRecords)
  /\ stops \in Seq(StopRecords)
  /\ dirs \subseteq Runs

\* As long as no stop has interfered, a worker that takes a new job is done with the
\* old ones: no HandBrakeCLI of an earlier run is alive and no workspace is left on
\* the disk, whatever failed, and also when its output could not be read.
IdleIsClean ==
  stops = <<>> /\ ~IsTranscoding =>
    dirs = {} /\ \A r \in DOMAIN runs : runs[r].child # "alive"

\* Whichever of the catch, the output processing, the close listener and a stop gets
\* there first, a run reports its end at most once; output that cannot be read may
\* add errors, but a run that has failed is never reported finished.
ReportsOnce ==
  \A r \in DOMAIN runs :
    /\ ~runs[r].garbled => Len(runs[r].reports) <= 1
    /\ \A i \in DOMAIN runs[r].reports : runs[r].reports[i] = "finished" => i = 1

\* A job is reported finished only when the server has its file, also when
\* uploads fail, are retried, are aborted by a stop, or lose their response.
FinishedWasReceived ==
  \A r \in DOMAIN runs : "finished" \in Range(runs[r].reports) => runs[r].received

\* Every accepted job is reported as finished or failed when nobody stops it.
RunIsReported ==
  \A r \in Runs : r \in DOMAIN runs ~> r \in DOMAIN runs /\ runs[r].reports # <<>>

\* A stop request is answered, also when HandBrakeCLI ignores SIGTERM and the
\* server does not acknowledge (the server waits for the answer).
StopIsAnswered ==
  \A i \in 1 .. MaxStops :
    i \in DOMAIN stops ~> i \in DOMAIN stops /\ stops[i].pc = "answered"

=============================================================================
