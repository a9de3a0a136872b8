-------------------------------- MODULE Watchers --------------------------------
(***************************************************************************)
(* The watch folders of the server: scripts/watcher.ts with the rows of    *)
(* database-watcher.ts, the choice of an output name in files.ts, and the  *)
(* requests of client-socket.ts.  Every await that really suspends (file   *)
(* system, close of chokidar, calls of the queue) ends a step.             *)
(*                                                                         *)
(* All watchers look at one folder and write to one folder, so the files   *)
(* of it compete for one output name.  A rule, a media probe or a path     *)
(* check lets a file pass or does not.  What tells two configurations of a *)
(* watcher apart is the preset.  Jobs are advanced by their environment    *)
(* (the queue and the workers, see JobServer).                             *)
(***************************************************************************)
EXTENDS Naturals, Sequences, FiniteSets, FiniteSetsExt, SequencesExt

CONSTANTS NWatchers,     \* watchers a behaviour may have
          Presets, Files,
          NoRow,         \* the value of a watcher without a row
          Stability,     \* the quiet period, in polls
          StartsQueue,   \* the column start_queue
          MaxRuntimes,   \* registrations of a behaviour
          MaxEvents,     \* requests of clients and changes of files together
          MaxJobs        \* jobs the watchers may add

ASSUME WatchersAssumption ==
  /\ NWatchers \in Nat /\ NoRow \notin Presets
  /\ Stability \in Nat \ {0}
  /\ StartsQueue \in BOOLEAN
  /\ {MaxRuntimes, MaxEvents, MaxJobs} \subseteq Nat

VARIABLES
  running,   \* the process is up
  row,       \* the preset in the table watchers
  nextID,    \* the next key of that table; keys are not used again
  table,     \* watchers[id]: the number of a runtime, 0 for none
  runtimes,  \* every WatcherRuntime ever made
  pipe,      \* what becomes of a pending file of a runtime
  sweeps,    \* deletions of files being handled
  requests,  \* requests of clients being handled
  asked,     \* the number of requests so far
  overlap,   \* history: two requests were handled at once in this process
  files,     \* the folder: size and mtime of each file
  disk,      \* the output folder: the names taken
  jobs,      \* the queue
  queueRuns  \* its status is not Stopped

vars == <<running, row, nextID, table, runtimes, pipe, sweeps, requests, asked, overlap,
          files, disk, jobs, queueRuns>>
memory == <<running, table, runtimes, pipe, sweeps>>
queueVars == <<disk, jobs, queueRuns>>

WatcherIDs == 1 .. NWatchers
Runtimes == 1 .. MaxRuntimes
Names == 0 .. MaxJobs            \* movie, movie_1, movie_2, ...
NoFile == [there |-> FALSE, size |-> 0, mtime |-> 0]
Idle == [at |-> "none", stats |-> <<0, 0>>, age |-> 0, out |-> 0,
         quiet |-> 0, part |-> FALSE,   \* history, see FileChanges
         seen |-> 0]                    \* history: the jobs when a match was looked for
NoPipes == [r \in Runtimes |-> [f \in Files |-> Idle]]

Init ==
  /\ running = FALSE
  /\ nextID \in 1 .. NWatchers + 1
  /\ row \in {f \in [WatcherIDs -> Presets \union {NoRow}] :
                \A w \in WatcherIDs : w >= nextID => f[w] = NoRow}
  /\ table = [w \in WatcherIDs |-> 0]
  /\ runtimes = <<>>
  /\ pipe = NoPipes
  /\ sweeps = {} /\ requests = {} /\ asked = 0 /\ overlap = FALSE
  /\ files = [f \in Files |-> NoFile]
  /\ disk = {} /\ jobs = <<>>
  /\ queueRuns = FALSE

-----------------------------------------------------------------------------
(* The process.  Nobody catches what a request of a client throws, and Node *)
(* ends the process; a new one registers what the table watchers holds.     *)

\* A closed runtime hears of nothing any more.
Closing(runtime) == [runtime EXCEPT !.open = FALSE, !.known = {}]

Throws ==
  /\ running' = FALSE
  /\ table' = [w \in WatcherIDs |-> 0]
  /\ runtimes' = [r \in DOMAIN runtimes |-> Closing(runtimes[r])]
  /\ pipe' = NoPipes
  /\ sweeps' = {} /\ requests' = {}

Runtime(w, preset) ==
  [id |-> w, preset |-> preset, open |-> TRUE, scanned |-> FALSE, known |-> {}]

\* InitializeWatchers: a watcher that cannot be registered is only logged.
Restart ==
  /\ ~running
  /\ running' = TRUE
  /\ \E S \in SUBSET {w \in WatcherIDs : row[w] # NoRow} :
       LET ids == SetToSeq(S)
           n == Len(runtimes)
       IN  /\ n + Len(ids) <= MaxRuntimes
           /\ runtimes' = runtimes \o [i \in DOMAIN ids |-> Runtime(ids[i], row[ids[i]])]
           /\ table' = [w \in WatcherIDs |->
                          IF w \in S THEN n + CHOOSE i \in DOMAIN ids : ids[i] = w ELSE 0]
  /\ overlap' = FALSE
  /\ UNCHANGED <<row, nextID, pipe, sweeps, requests, asked, files, queueVars>>

-----------------------------------------------------------------------------
(* Requests.  "kind" is what the client asked for, "at" the await reached:  *)
(* the path checks of the request, the close of the old runtime, the checks *)
(* of RegisterWatcher; "preset" is what the handler carries across them.    *)

Request(kind, w, preset) == [kind |-> kind, id |-> w, preset |-> preset, at |-> "check"]

GoesOn(q, preset, at) ==
  requests' = (requests \ {q}) \union {[q EXCEPT !.preset = preset, !.at = at]}
Done(q) == requests' = requests \ {q}

\* RegisterWatcher after its checks: an earlier entry is overwritten.
RegisterWatcher(w, preset) ==
  /\ Len(runtimes) < MaxRuntimes
  /\ runtimes' = Append(runtimes, Runtime(w, preset))
  /\ table' = [table EXCEPT ![w] = Len(runtimes) + 1]

\* A slip: a row that is gone is used all the same.
WritesRow_Unread(q) ==
  LET preset == IF q.kind = "rules" THEN row[q.id] ELSE q.preset
  IN  /\ row' = [row EXCEPT ![q.id] = preset]
      /\ table' = [table EXCEPT ![q.id] = 0]
      /\ GoesOn(q, preset, "register")
      /\ UNCHANGED <<running, runtimes, pipe, sweeps>>

\* A slip: the watcher is registered with what its row was before.
WritesRow_ReadsBefore(q) ==
  LET preset == IF q.kind = "rules" THEN row[q.id] ELSE q.preset
  IN  IF row[q.id] = NoRow THEN Throws /\ UNCHANGED row
      ELSE /\ row' = [row EXCEPT ![q.id] = preset]
           /\ table' = [table EXCEPT ![q.id] = 0]
           /\ GoesOn(q, row[q.id], "register")
           /\ UNCHANGED <<running, runtimes, pipe, sweeps>>

\* Once the entry is deleted, whichever runtime it names, the row is written
\* and read again; a row that is gone throws.
WritesRow(q) ==
  LET preset == IF q.kind = "rules" THEN row[q.id] ELSE q.preset
  IN  IF row[q.id] = NoRow THEN Throws /\ UNCHANGED row
      ELSE /\ row' = [row EXCEPT ![q.id] = preset]
           /\ table' = [table EXCEPT ![q.id] = 0]
           /\ GoesOn(q, preset, "register")
           /\ UNCHANGED <<running, runtimes, pipe, sweeps>>

\* DeregisterWatcher up to the close.  The abort wakes the files that sleep
\* until their next poll.  Before the first scan getWatched is empty, and what
\* is read from its first entry throws.
DeregisterWatcher(q) ==
  LET r == table[q.id]
  IN  IF ~runtimes[r].scanned THEN Throws
      ELSE /\ runtimes' = [runtimes EXCEPT ![r] = Closing(@)]
           /\ pipe' = [pipe EXCEPT ![r] =
                [f \in Files |-> IF @[f].at = "sleep" THEN Idle ELSE @[f]]]
           /\ GoesOn(q, q.preset, "close")
           /\ UNCHANGED <<running, table, sweeps>>

\* The stretch that follows the path checks of a request.
Proceeds(q) ==
  \/ /\ q.kind = "add"
     /\ nextID \in WatcherIDs
     /\ row' = [row EXCEPT ![nextID] = q.preset]
     /\ nextID' = nextID + 1
     /\ requests' = (requests \ {q}) \union {[q EXCEPT !.id = nextID, !.at = "register"]}
     /\ UNCHANGED memory
  \/ /\ q.kind \in {"update", "rules"}
     /\ IF table[q.id] = 0 THEN WritesRow(q) ELSE DeregisterWatcher(q) /\ UNCHANGED row
     /\ UNCHANGED nextID
  \/ /\ q.kind = "remove"
     /\ row' = [row EXCEPT ![q.id] = NoRow]
     /\ IF table[q.id] = 0 THEN Done(q) /\ UNCHANGED memory ELSE DeregisterWatcher(q)
     /\ UNCHANGED nextID

HasRoom ==
  asked + MapThenSumSet(LAMBDA f : files[f].size + files[f].mtime, Files) < MaxEvents

Arrives ==
  /\ running
  /\ HasRoom
  /\ asked' = asked + 1
  /\ overlap' = (overlap \/ requests # {})
  /\ UNCHANGED <<files, queueVars>>

\* Paths are checked first.
Waits(q) ==
  q \notin requests /\ requests' = requests \union {q} /\ UNCHANGED <<row, nextID, memory>>

AddWatcher(preset) == Arrives /\ Waits(Request("add", 0, preset))

\* An update that names no path has nothing to check.
UpdateWatcher(w, preset) ==
  LET q == Request("update", w, preset)
  IN  row[w] # NoRow /\ Arrives /\ (Waits(q) \/ Proceeds(q))

\* A path outside the media roots, or an unsafe regular expression in a rule.
Refused == Throws /\ UNCHANGED <<row, nextID>>

\* AddWatcherRule, UpdateWatcherRule and RemoveWatcherRule.
ChangeRules(w) ==
  row[w] # NoRow /\ Arrives /\ (Proceeds(Request("rules", w, NoRow)) \/ Refused)

RemoveWatcher(w) == row[w] # NoRow /\ Arrives /\ Proceeds(Request("remove", w, NoRow))

Resumes(q, at) == q.at = at /\ UNCHANGED <<asked, overlap, files, queueVars>>

Checked(q) ==
  /\ Resumes(q, "check")
  /\ Proceeds(q) \/ Refused

\* The close has ended; the entry is deleted, whichever runtime it names.
Closed(q) ==
  /\ Resumes(q, "close")
  /\ UNCHANGED nextID
  /\ IF q.kind # "remove" THEN WritesRow(q)
     ELSE /\ table' = [table EXCEPT ![q.id] = 0]
          /\ Done(q)
          /\ UNCHANGED <<row, running, runtimes, pipe, sweeps>>

\* The checks of RegisterWatcher have ended; a folder that is gone throws.
Registered(q) ==
  /\ Resumes(q, "register")
  /\ UNCHANGED <<row, nextID>>
  /\ \/ Throws
     \/ RegisterWatcher(q.id, q.preset) /\ Done(q) /\ UNCHANGED <<running, pipe, sweeps>>

RequestNext ==
  \/ \E p \in Presets : AddWatcher(p)
  \/ \E w \in WatcherIDs :
       \/ \E p \in Presets : UpdateWatcher(w, p)
       \/ ChangeRules(w)
       \/ RemoveWatcher(w)
  \/ \E q \in requests : Checked(q) \/ Closed(q) \/ Registered(q)

-----------------------------------------------------------------------------
(* A file of a runtime.  pipe[r][f].at names the await that WaitForFileReady *)
(* or onWatcherDetectFileAdd is in: stat, sleep (the poll timer), probe (path *)
(* check, rules, media), name (CheckFilenameCollision), add (the checks of    *)
(* AddJob), offer (the calls of the queue to its workers).  Anything but      *)
(* "none" stands for an entry of pendingFiles.                                *)

At(r, f, at) == running /\ pipe[r][f].at = at

Goes(r, f, p) ==
  /\ pipe' = [pipe EXCEPT ![r][f] = p]
  /\ UNCHANGED <<running, row, nextID, table, runtimes, sweeps, requests, asked,
                 overlap, files>>
Ends(r, f) == Goes(r, f, Idle)
GoesTo(r, f, at) == Goes(r, f, [pipe[r][f] EXCEPT !.at = at])

\* What chokidar has told; ignoreInitial: the files of the first scan are not.
Scans(r) ==
  /\ runtimes[r].open /\ ~runtimes[r].scanned
  /\ runtimes' = [runtimes EXCEPT ![r].scanned = TRUE,
                                  ![r].known = {f \in Files : files[f].there}]
  /\ UNCHANGED <<running, row, nextID, table, pipe, sweeps, requests, asked, overlap,
                 files, queueVars>>

\* The listener of 'add'.
Detects(r, f) ==
  /\ runtimes[r].open /\ runtimes[r].scanned
  /\ files[f].there /\ f \notin runtimes[r].known
  /\ runtimes' = [runtimes EXCEPT ![r].known = @ \union {f}]
  /\ pipe' = IF pipe[r][f].at # "none" THEN pipe
             ELSE [pipe EXCEPT ![r][f] = [Idle EXCEPT !.at = "stat"]]
  /\ UNCHANGED <<running, row, nextID, table, sweeps, requests, asked, overlap,
                 files, queueVars>>

Stats(f) == <<files[f].size, files[f].mtime>>
\* A slip: a rewrite of the same size is not noticed.
SameStats_SizeOnly(p, f) == p.stats[1] = Stats(f)[1]

SameStats(p, f) == p.stats = Stats(f)

\* The stat of WaitForFileReady ends.  A file that has been quiet long enough
\* is ready, whether or not the runtime was aborted meanwhile.
StatEnds(r, f) ==
  LET p == pipe[r][f]
  IN  /\ At(r, f, "stat")
      /\ UNCHANGED queueVars
      /\ IF ~files[f].there THEN Ends(r, f)
         ELSE IF SameStats(p, f) /\ p.age >= Stability
              THEN Goes(r, f, [Idle EXCEPT !.at = "probe"])
         ELSE IF ~runtimes[r].open THEN Ends(r, f)
         ELSE Goes(r, f, [p EXCEPT !.at = "sleep", !.stats = Stats(f),
                                   !.age = IF SameStats(p, f) THEN @ ELSE 0])

\* A slip: every poll starts the quiet period again.
TimerFires_StartsAgain(r, f) ==
  /\ At(r, f, "sleep")
  /\ Goes(r, f, [pipe[r][f] EXCEPT !.at = "stat", !.part = FALSE, !.age = 0])
  /\ UNCHANGED queueVars

TimerFires(r, f) ==
  /\ At(r, f, "sleep")
  /\ Goes(r, f, [pipe[r][f] EXCEPT !.at = "stat", !.part = FALSE,
                   !.age = Min({@ + 1, Stability}),
                   !.quiet = IF pipe[r][f].part THEN 0 ELSE Min({@ + 1, Stability})])
  /\ UNCHANGED queueVars

-----------------------------------------------------------------------------
(* The queue, as far as watchers read and write it.  Active stands for the    *)
(* stages of a job a worker has, Stopped for Stopped and Error.               *)

Present == {j \in DOMAIN jobs : jobs[j].stage # "Absent"}
SetStage(j, stage) == jobs' = [jobs EXCEPT ![j].stage = stage]

\* A slip: a finished job is no match.
Matching_Unfinished(f, preset) ==
  {j \in Present : jobs[j].file = f /\ jobs[j].preset = preset /\ jobs[j].stage # "Finished"}

\* FindMatchingWatcherJob: the first job with this input and preset.
Matching(f, preset) == {j \in Present : jobs[j].file = f /\ jobs[j].preset = preset}

\* CheckFilenameCollision for one item: the names of the folder and of the
\* waiting jobs are taken; movie, or else the first of movie_1, movie_2, ... that
\* is free.
TakenNames == disk \union {jobs[j].out : j \in {i \in Present : jobs[i].stage = "Waiting"}}
FreeName == Min(Names \ TakenNames)

StartQueueIfStopped == queueRuns' = (queueRuns \/ StartsQueue)

\* The file is gone, a rule does not let it pass, or it is no video.
Rejected(r, f) == Ends(r, f) /\ UNCHANGED <<jobs, queueRuns>>

\* onWatcherDetectFileAdd has probed the file: it is rejected or matched.
ProbeEnds(r, f) ==
  LET match == Matching(f, runtimes[r].preset)
      j == Min(match)
  IN  /\ At(r, f, "probe")
      /\ UNCHANGED disk
      /\ \/ Rejected(r, f)
         \/ /\ match = {}
            /\ Goes(r, f, [pipe[r][f] EXCEPT !.at = "name", !.seen = Len(jobs)])
            /\ UNCHANGED <<jobs, queueRuns>>
         \/ /\ match # {} /\ jobs[j].stage = "Waiting"
            /\ GoesTo(r, f, "offer")
            /\ StartQueueIfStopped /\ UNCHANGED jobs
         \/ /\ match # {} /\ jobs[j].stage = "Stopped"
            /\ GoesTo(r, f, "offer")
            /\ SetStage(j, "Waiting") /\ StartQueueIfStopped

\* The folder is listed, then the queue is read.
NameFound(r, f) ==
  /\ At(r, f, "name")
  /\ Goes(r, f, [pipe[r][f] EXCEPT !.at = "add", !.out = FreeName])
  /\ UNCHANGED queueVars

\* DatabaseInsertJob, after the checks of AddJob.
JobAdded(r, f) ==
  /\ At(r, f, "add")
  /\ Len(jobs) < MaxJobs
  /\ jobs' = Append(jobs, [file |-> f, preset |-> runtimes[r].preset,
                           out |-> pipe[r][f].out, stage |-> "Waiting", by |-> r,
                           seen |-> pipe[r][f].seen])
  /\ GoesTo(r, f, "offer")
  /\ StartQueueIfStopped
  /\ UNCHANGED disk

\* A check fails; the exception is logged and the pending entry deleted.
CheckFails(r, f) ==
  /\ running /\ pipe[r][f].at \in {"name", "add"}
  /\ Ends(r, f)
  /\ UNCHANGED queueVars

OfferEnds(r, f) == At(r, f, "offer") /\ Ends(r, f) /\ UNCHANGED queueVars

PipeStep(r, f) ==
  \/ StatEnds(r, f) \/ TimerFires(r, f) \/ ProbeEnds(r, f) \/ NameFound(r, f)
  \/ JobAdded(r, f) \/ CheckFails(r, f) \/ OfferEnds(r, f)

-----------------------------------------------------------------------------
(* onWatcherDetectFileDelete: one job after the other, from a snapshot.  A    *)
(* sweep is what is left of it, the stage that each job had; "stopping" is    *)
(* the job whose StopJob waits for the worker, 0 while the log of a removed   *)
(* job is deleted.                                                            *)

Sweep(todo, stopping) == [todo |-> todo, stopping |-> stopping]
Leaves(sw, S) == sweeps' = (sweeps \ {sw}) \union S

\* The iteration for the first job of the snapshot.  RemoveJob refuses a job that
\* is active by now, StopJob one that is gone: the exception is logged, and the
\* rest of the snapshot is left alone.
Handles(sw) ==
  LET j == Min(DOMAIN sw.todo)
      rest == Restrict(sw.todo, DOMAIN sw.todo \ {j})
  IN  CASE DOMAIN sw.todo = {} -> Leaves(sw, {}) /\ UNCHANGED jobs
        [] DOMAIN sw.todo # {} /\ sw.todo[j] = "Waiting" ->
             IF jobs[j].stage \in {"Active", "Absent"} THEN Leaves(sw, {}) /\ UNCHANGED jobs
             ELSE SetStage(j, "Absent") /\ Leaves(sw, {Sweep(rest, 0)})
        [] OTHER ->
             /\ UNCHANGED jobs
             /\ IF jobs[j].stage = "Absent" THEN Leaves(sw, {})
                ELSE Leaves(sw, {Sweep(rest, j)})

SweepStays ==
  UNCHANGED <<running, row, nextID, table, pipe, requests, asked, overlap, files,
              disk, queueRuns>>

\* The listener of 'unlink'; files that are pending are not looked at.
Loses(r, f) ==
  LET hit == {j \in Present : jobs[j].file = f /\ jobs[j].stage \in {"Waiting", "Active"}}
      todo == [j \in hit |-> jobs[j].stage]
  IN  /\ runtimes[r].open /\ runtimes[r].scanned
      /\ ~files[f].there /\ f \in runtimes[r].known
      /\ Sweep(todo, 0) \notin sweeps
      /\ runtimes' = [runtimes EXCEPT ![r].known = @ \ {f}]
      /\ Handles(Sweep(todo, 0))
      /\ SweepStays

\* The log is deleted, or the worker has acknowledged or timed out: the job is
\* Stopped, whatever it was by then.
Sweeps(sw) ==
  /\ SweepStays /\ UNCHANGED runtimes
  /\ IF sw.stopping = 0 \/ jobs[sw.stopping].stage = "Absent" THEN Handles(sw)
     ELSE SetStage(sw.stopping, "Stopped") /\ Leaves(sw, {Sweep(sw.todo, 0)})

-----------------------------------------------------------------------------
(* The environment: whoever writes the folder, and the queue. *)

MemoryStays ==
  UNCHANGED <<row, nextID, memory, requests, asked, overlap>>

\* quiet counts the whole poll periods since the last change; part says that the
\* running period began before it.
Disturbed(f) ==
  [r \in Runtimes |-> [pipe[r] EXCEPT ![f] =
     LET p == @
     IN  IF p.at \in {"stat", "sleep"}
         THEN [p EXCEPT !.quiet = 0, !.part = (p.at = "sleep")] ELSE p]]

FileChanges(f, file) ==
  /\ HasRoom
  /\ files' = [files EXCEPT ![f] = file]
  /\ pipe' = Disturbed(f)
  /\ UNCHANGED <<running, row, nextID, table, runtimes, sweeps, requests, asked, overlap,
                 queueVars>>

FileAppears(f) ==
  ~files[f].there /\ FileChanges(f, [files[f] EXCEPT !.there = TRUE, !.mtime = @ + 1])
FileGrows(f) == files[f].there /\ FileChanges(f, [files[f] EXCEPT !.size = @ + 1])
FileIsRewritten(f) == files[f].there /\ FileChanges(f, [files[f] EXCEPT !.mtime = @ + 1])
FileDisappears(f) ==
  /\ files[f].there
  /\ files' = [files EXCEPT ![f].there = FALSE]
  /\ UNCHANGED queueVars /\ MemoryStays

JobMoves(j, stage) ==
  /\ running
  /\ \/ jobs[j].stage = "Waiting" /\ queueRuns /\ stage = "Active"
     \/ jobs[j].stage = "Active" /\ stage \in {"Finished", "Stopped"}
  /\ SetStage(j, stage)
  /\ disk' = IF stage = "Finished" THEN disk \union {jobs[j].out} ELSE disk
  /\ UNCHANGED <<files, queueRuns>> /\ MemoryStays

-----------------------------------------------------------------------------
Next ==
  \/ Restart
  \/ RequestNext
  \/ \E r \in DOMAIN runtimes :
       \/ Scans(r)
       \/ \E f \in Files : Detects(r, f) \/ Loses(r, f) \/ PipeStep(r, f)
  \/ \E sw \in sweeps : Sweeps(sw)
  \/ \E f \in Files :
       FileAppears(f) \/ FileGrows(f) \/ FileIsRewritten(f) \/ FileDisappears(f)
  \/ \E j \in DOMAIN jobs, stage \in {"Active", "Finished", "Stopped"} :
       JobMoves(j, stage)

Spec == Init /\ [][Next]_vars

\* File operations end, and timers fire.
FairSpec ==
  Spec /\ \A r \in Runtimes, f \in Files :
            WF_vars(r \in DOMAIN runtimes /\ PipeStep(r, f))

-----------------------------------------------------------------------------
(* Properties. *)

Pipes ==
  [at : {"none", "stat", "sleep", "probe", "name", "add", "offer"},
   stats : Nat \X Nat, age : 0 .. Stability, out : Names,
   quiet : 0 .. Stability, part : BOOLEAN, seen : 0 .. MaxJobs]

\* The types of the tables, of the runtimes and of the queue.
TypeOK ==
  /\ running \in BOOLEAN /\ overlap \in BOOLEAN /\ queueRuns \in BOOLEAN
  /\ row \in [WatcherIDs -> Presets \union {NoRow}]
  /\ nextID \in Nat /\ asked \in Nat
  /\ runtimes \in Seq([id : WatcherIDs, preset : Presets, open : BOOLEAN,
                        scanned : BOOLEAN, known : SUBSET Files])
  /\ table \in [WatcherIDs -> 0 .. Len(runtimes)]
  /\ pipe \in [Runtimes -> [Files -> Pipes]]
  /\ files \in [Files -> [there : BOOLEAN, size : Nat, mtime : Nat]]
  /\ disk \subseteq Names
  /\ jobs \in Seq([file : Files, preset : Presets, out : Names, by : Runtimes,
                    seen : 0 .. MaxJobs,
                    stage : {"Waiting", "Active", "Finished", "Stopped", "Absent"}])
  /\ \A q \in requests : q.kind \in {"add", "update", "rules", "remove"}
  /\ \A sw \in sweeps : DOMAIN sw.todo \subseteq DOMAIN jobs /\ sw.stopping \in 0 .. Len(jobs)

\* A watch folder makes a job of a file only when size and modification time were
\* both unchanged for the whole quiet period, whatever happened to the file while
\* a stat or the timer was awaited (WaitForFileReady).
OnlyQuietFiles ==
  [][\A r \in Runtimes, f \in Files :
       pipe[r][f].at = "stat" /\ pipe'[r][f].at = "probe" => pipe[r][f].quiet >= Stability]_vars

\* Two jobs have the same input and preset only when two registrations had the file
\* in hand at once, of two watchers or of one before and after a change of it: the
\* second had looked for a match before the first was added.  One registration never
\* adds a second: events that come while the file waits, is probed or is added, and
\* later appearances of it, find the pending entry or the job (pendingFiles,
\* FindMatchingWatcherJob), in whatever stage the job is by then.
DuplicatesOverlap ==
  \A i, j \in Present :
    i < j /\ jobs[i].file = jobs[j].file /\ jobs[i].preset = jobs[j].preset =>
      jobs[j].seen < i /\ jobs[i].by # jobs[j].by

\* When no requests for watchers have overlapped, those that listen are those in the
\* table, each with the configuration of its row: none is left over, none is stale.
ListenersMatchRows ==
  running /\ requests = {} /\ ~overlap =>
    \A r \in DOMAIN runtimes :
      runtimes[r].open => /\ table[runtimes[r].id] = r
                          /\ row[runtimes[r].id] = runtimes[r].preset

\* No file stays pending: it is given up, refused, or becomes a job.
PendingEnds ==
  \A r \in Runtimes, f \in Files :
    pipe[r][f].at # "none" ~> pipe[r][f].at = "none"

=============================================================================
