# HandBrake Web in TLA+

A model of the server and of the worker of HandBrake Web, checked with TLC and
in part proved with TLAPS. Paths are relative to the repository; `server/` and
`worker/` stand for `server/src/` and `worker/src/`.

## 1. Inventory

HandBrake Web is a server (Node, Express, socket.io, SQLite through Kysely and a
synchronous driver), any number of workers (Node, one `HandBrakeCLI` process at
a time) and a web client.

| Component | Source | State | Operations |
|---|---|---|---|
| job queue, job life cycle | `server/scripts/queue.ts`, `database/database-queue.ts` | tables `jobs`, `jobs_status`, `jobs_order`, `status` | AddJob, StartJob (claim, call, release), StopJob, ResetJob, RemoveJob, reorder, clear, StartQueue, StopQueue, the two assigning functions |
| worker sockets | `server/socket/worker-socket.ts`, `scripts/connections.ts` | `connections.workers`, worker properties, `acceptsJobs` | connect (or be turned away as a duplicate), initialise (properties, existing job, stale stop, first job), disconnect, reports of a job |
| client sockets | `server/socket/client-socket.ts` | none | requests for jobs, queue, watchers, presets, tokens |
| startup, shutdown | `server/server-startup.ts`, `server-shutdown.ts` | the memory of the process | load the configuration, the presets, the database, the login, the queue and the watchers, listen; close |
| file transfers | `server/scripts/worker-transfers.ts` | leases, index by job, uploads in progress, completed uploads | lease, download, upload, query, clear |
| transcoding | `worker/scripts/transcode.ts`, `socket/server-socket.ts` | module variables, workspace directories, the child process | start, prepare, spawn, output, upload with retries, close, stop, self-stop |
| worker startup, shutdown, retry | `worker/worker-startup.ts`, `worker-shutdown.ts`, `connection-retry.ts`, `scripts/resource-usage.ts` | the socket, a retry timer, the reporter of resource usage | probe, connect, fail, report, stop |
| worker tokens, admission | `server/scripts/auth.ts` | table of token hashes and flags, flags on sockets | create, rotate, revoke, enable, disable, authenticate |
| client login, rate limiter | `server/scripts/auth.ts`, `routes/client.ts` | row and copy of the credentials, sessions, failure windows | make a temporary password, change the credentials, log in, record a failure |
| watchers | `server/scripts/watcher.ts` | table of watchers and rules, registered watchers, pending files | register, update, deregister, file added, file deleted, rules |
| presets | `server/scripts/presets.ts` | a table in memory, one file for each preset | load, migrate, add, remove, rename |
| configuration, migrations | `server/scripts/config`, `server/scripts/database` | `config.yaml`, the schema and its list of migrations | create, migrate, read, write |
| files, logging, version | `server/scripts/*` | none | listings, output names, output |
| client UI | `client/src` | what the server sent | display |

How they interact. Clients and workers speak socket.io with the server. The
server calls a worker with `emitWithAck` and a timer of 15 s (`get-properties`,
`get-existing-job`, `start-transcode`, `stop-transcode`); the worker calls the
server the same way (`get-job-data`, `get-transfer-lease`, `transcode-stopped`)
or sends events that nobody acknowledges (`transcode-update`,
`transcode-error`, `transcode-finished`). Files travel over HTTP with a lease
of one use. The database, `config.yaml` and the preset files survive a restart;
everything else is rebuilt from them.

What is hard, and what makes each component correct:

* Queue. Each start is a claim in the database, a remote call that may be
  refused, lost or late, and a second write. A stop, a reset, a removal, a
  disconnect or a restart may fall into the call. Correct means: an active job
  names its worker, a waiting job is free, a removed job is gone, order indices
  are distinct, jobs are handed out in order, a stopped queue stays stopped, a
  disabled worker gets nothing, a stop ends.
* Worker sockets. A worker leaves and connects again while calls to its former
  connection are pending; a duplicate connection is turned away. Correct:
  initialisation ends, reports of a former owner change nothing.
* Transfers. The handler of an upload suspends for hours. Correct: one upload
  for a job at a time, tables in step, a completed upload is not forgotten or
  made up, Finished means delivered, only the owner writes.
* Transcoding. A run and a stop of it share a dozen module variables over some
  twenty awaits. Correct: one report for each run, no leftover process or
  directory when the worker is free, each stop answered, no report of a file the
  server does not have.
* Tokens. Hashing, verifying and the stop of a job suspend actions and
  authentications that have read the row before. Correct: connections agree with
  the row, the flag is what was asked last, a paused worker gets no job.
* Watchers. A file is found, waits until it is quiet, is probed and becomes a
  job, while it changes or goes, the watcher is updated or removed, and the
  queue moves on. Correct: no job of a file that is being written, one job for
  each file, listeners and rows agree, nothing stays pending.
* Worker process. Its connection may be accepted, refused, turned away or cut at
  any time, and either side notices first; a signal comes in every phase.
  Correct: one attempt at a time, the delay grows with the outage and only with
  it, a worker that stops is quiet, one that runs comes back.
* What the server keeps on disk. Every write is cut off by some crash, and what
  is in memory is changed before or after the file. Correct: a restart brings
  back what the clients saw, a migration loses nothing, the password that counts
  is known to somebody, a change of it ends the sessions, and the server comes
  up.

## 2. Modules

| Module | Models |
|---|---|
| `QueueOps` | queue.ts and database-queue.ts as functions from server state to server state |
| `JobServer` | the server process: one action per listener, answer, time-out, upload step, kill and restart; composed from `QueueOps` |
| `JobLifecycle` | what the server promises of a job: its phases and its holder; `JobServer` implements it |
| `JobServer_proofs`, `JobLifecycle_proofs` | the theorems about both |
| `TransferLease`, `TransferLease_proofs` | worker-transfers.ts with the suspension points of a request |
| `TranscodeWorker`, `TranscodeWorker_proofs` | transcode.ts with its suspension points, HandBrakeCLI, and the stop |
| `WorkerTokens`, `WorkerTokens_proofs` | the part of auth.ts that is about one worker's token |
| `Watchers`, `Watchers_proofs` | watcher.ts with its suspension points, the folder, the events of chokidar, the rows and a coarse queue |
| `ConnectionRetry` | connection-retry.ts as functions of the controller, and the delay in milliseconds |
| `WorkerLife`, `WorkerLife_proofs` | the worker process from boot to exit, its connection and reporter, and the admission at the server; uses `ConnectionRetry` |
| `ServerStart` | `config.yaml` and the database schema with their migrations |
| `Presets` | presets.ts, one step for each call of the file system |
| `ClientAuth` | the login of the web client, the change of credentials, the limiters |
| `ServerLife`, `ServerLife_proofs` | the server process from start to exit, composed of `ServerStart`, `Presets` and `ClientAuth` |
| `MC*` | constants for TLC |

**QueueOps, JobServer.** A server state is a record (`Server`). `stage`,
`owner`, `order` are `transcode_stage`, `worker_id`, `order_index`, with 0 for
no row in `jobs_order` and "Absent" for no job; `queue` is the row of `status`.
A connection is `<<worker, n>>`, so that two connections of one worker differ.
`calls` are the pending `emitWithAck`s, oldest first; `then` names what the
code after the await does and `rest` keeps the snapshot of `StartQueue`. Ids of
jobs are never used again (`AUTOINCREMENT`), so the next id is `nextJob`. An
exception that no listener catches is `Throw`: Node ends the process, since the
server registers no handler for unhandled rejections. A worker is not modelled
here but allowed everything: any report at any time, any answer, or none.

**TransferLease.** A token is its number. `expired` stands for the clock: a
lease may expire at any time, and stays in the tables until some request sweeps
them, as in the code. An upload (`puts`) passes through checking, receiving,
renaming and, on an error, the removal of its temporary file. The queue is the
environment: `OwnerChanges` and `ClearCompleted` at any time. A worker has at
most one request for a job and a purpose outstanding.

**TranscodeWorker.** `mod` holds the variables of the module. Runs are
numbered; a run's `pc` names the await it is in, `child` its process. A stop
keeps the values it captured. Answers, failures, the end of the process and its
last output come in any order.

**WorkerTokens.** `hash` and `accepts` are the row of one worker (the rows do
not interact), `socket` its registered connection, `actions` and `auths` what is
suspended with a copy of the row. A token is the number of the action that drew
it. `asked`, `lost` and every `stale` are history: what clients asked for, and
whether a copy of the row was overtaken by a change.
`DatabaseUpdateWorkerAuthToken` is an UPDATE and then a SELECT: a statement that
fails may have written the row or not. A secret that does not match changes
nothing and is left out.

**JobLifecycle.** Six phases ("New", those of `Present`, "Removed") and a holder
for each job. A job that is removed never comes back, an active job is never
removed, a job becomes active only while somebody holds it and finished only
when its output was delivered. Several jobs may move in one step, since the end
of one is the start of the next. `JobServer` maps `transcode_stage` to the
phase, `worker_id` to the holder (`Phase`, `ImplementsLifecycle`).

**Watchers.** A registration makes a new runtime, since the handlers of a closed
one may still be suspended; `table` says which is the present one. `pipe[r][f]`
is the pending file of a runtime: the await it is in, the last size and time,
the age of the quiet period in polls, and the output name it was given. Rules,
media types and path checks let a file pass or not, freely. All watchers share
one input and one output folder, so their files compete for names; what tells
two configurations of a watcher apart is the preset. The queue is the
environment (`JobMoves`), except for what a watcher does to it.

**WorkerLife.** `phase` is where the process is in its life, `c` the controller,
`conn` the socket with the two ways in which the server may let it in (to keep
it, or to disconnect it as a duplicate), `registered` whether the table of the
server holds this connection or an older one that it still believes in.
`reporting.timer` is the handle of the interval and `reporting.live` whether an
interval runs. `MaxOutage` caps the history variable `outage` where the delay
does not change any more.

**ServerLife.** `stage` goes through the parts of `ServerStartup` in their order
and is "down" when there is no process. Whatever writes a file is a step that
opens (and truncates) it and a step that fills it. A preset is a category and a
name, and so is a path: `Path` is `getPresetPath`, which is not injective, and
the migration writes to the raw name instead. What is in a file is the name of
the preset in it, since that is what `LoadPresets` lists. `disturbed` marks the
paths of which the list may differ, `cutOff` the writes that no start repairs;
both are history, and the properties say that nothing else goes wrong.
Passwords, hashes and tokens are numbers: a generated password is the number of
the reading of the clock it was stored with, a chosen one is 0. A login, a
limiter or a preset operation that is suspended holds what the code holds across
the await and no more.

### Atomicity

JavaScript runs a callback to its end or its first await. An await of a promise
that is already resolved continues before the next event is read, and the
database driver is synchronous: so a handler is one step from one real
suspension (a remote call, a file operation, a child process, a timer) to the
next. There is one exception. When several packets of one connection arrive in
one chunk, socket.io dispatches them one after another before the awaits of the
first are resumed, so two handlers of one client may alternate at every database
await. `JobServer` does not have these interleavings; `JobOrder` is planned for
the place where they matter (a reorder is four statements).

## 3. Runs

"holds" is a passing run; "fails" is a run whose counterexample is a finding
below.

| Run | Question | Bounds | Result |
|---|---|---|---|
| `JobServer_connection` | types; active jobs have owners; Finished was delivered; every step is a step of the job life cycle | 1 job, 1 worker, 2 connections, 2 pending calls and what they entail, kills | holds |
| `JobServer_workers` | a disabled worker is never asked to start | 1 job, 2 workers (symmetric), 2 connections, 1 pending call and what it entails, kills | holds |
| `JobServer_order` | order indices are distinct, removed jobs have none | 4 jobs, no worker, all startup settings | holds |
| `JobServer_live` | stops complete, initialisations end | 1 job, 1 worker, `FairSpec` | holds |
| `JobServer_claims` | a waiting job is free when nothing is connected | 1 job, a kill | fails |
| `TransferLease_uploads` | one upload per job, index in step, completed is settled | 1 job, 2 workers, 4 leases, restarts | holds |
| `TranscodeWorker_runs` | clean when free until the first stop, each run reported | 2 jobs, 3 runs, no stop, 2 attempts, `FairSpec` | holds |
| `TranscodeWorker_stops` | a stop is answered; reported finished means received; one report of each run | 1 job, 2 runs, 1 stop, 3 attempts, `TimerSpec` | holds |
| `WorkerTokens_actions` | connections follow the row, the flag is put back, a paused worker gets no job | 4 overlapping actions, any number of connections, failures before and after the row is written, restarts | holds |
| `Watchers_folder` | only quiet files, a second job of a file only when two registrations had it in hand at once, listeners match rows, nothing stays pending | 1 watcher with 2 configurations, 2 registrations, 1 file, 3 events, 2 jobs, `FairSpec` | holds |
| `WorkerLife_reconnect` | one attempt at a time, the delay follows the outage, a stopped worker is quiet, a running one gets connected and reports | 4 faults, delays 1 s to 60 s, least and greatest random number, `FairSpec` | holds |
| `ServerLife_restarts` | the list is the directory, credentials agree, migrations lose nothing, changes end sessions, limits end, the server comes to serve | 3 requests and 2 faults, 4 together; 1 category and 3 names, 2 of which share a path; 2 users, 1 address, 2 operations, attempts and writes at a time; new installations and those of version 0, `FairSpec` | holds |

Why the bounds are enough. The hazards of the server are between the handlers of
one job and one worker, its successive connections, and a client; two
connections give one that came back, and a limit of two pending calls a start
and a stop that overlap. (A client acts, and a worker connects, only while fewer
calls are pending than the limit; what follows from a call is not limited.) Jobs
interact only through the order and the snapshot of `StartQueue`, which have
runs with four jobs and with two workers; exchanging the workers changes
nothing, as every choice between their sockets goes by number. A job's uploads
interact through one entry of each table; four leases give a lease, its
replacement, a former owner's and one after a restart. Three runs of the worker
give a run after one that failed and one after that; the retries of an upload
are the three of the code where a stop may abort them, two where not. Four
actions on a token give a creation, two that overlap, and one after them. A
watcher is registered, and once more after an update, a removal or a restart,
and three events give a file that appears, grows and goes, or a file and two
requests; two jobs give one that is there and one that must not be added. Four
faults of a worker give a break on either side, a refusal or rejection after it,
a signal and a kill. A server that is asked to add and rename a preset, or to
change the credentials during a login, may end in the middle, start and end
again; installations start from the oldest versions, so that every migration
runs. The delay needs no bound: the numbers are those of the code. Bounds are
the constants `NJobs`, `MaxSockets`, `MaxCalls`, `MaxTokens`, `MaxRuns`,
`MaxStops`, `MaxActions`, `NWatchers`, `MaxRuntimes`, `MaxEvents`, `MaxJobs`,
`MaxFaults`, `MaxRequests`, `MaxPresetOps`, `MaxWrites`, `MaxAttempts`,
`MaxStamp` and nothing else, besides `MaxOutage`, after which nothing changes.

Deadlock is not checked: a server that has used up its connections and calls,
a worker that has used up its runs, and a folder or process that has used up its
events may stop.

Fairness. `FairSpec` of `JobServer` is weak fairness of `CallTimesOut` (the
timers of `socket.timeout`) and nothing else; it does not assume that a worker
answers, stays or reports. `TimerSpec` of `TranscodeWorker` says that the awaits
of a stop end: the wait for the process and the call to the server have timers,
and the rest is a local file operation. Its `FairSpec` adds that a run goes on
(its calls have timers too, and an HTTP request of a client that stalls is given
up) or that HandBrakeCLI ends. `FairSpec` of `Watchers` says that the file
operations and timers of a pending file go on. That of `WorkerLife` says that
timers fire, packets arrive or time out, samples are read, a server notices a
lost link (the ping of socket.io) and the stopped container of the server is
started again (`restart: unless-stopped` in compose.base.yaml). That of
`ServerLife` has the same restart, a start and a shutdown that go on, and the
clock. No fairness is assumed of stops, requests, disconnects or faults, nor of
the operations in progress while the server listens.

## 4. Findings

`WaitingJobIsFree` (run `JobServer_claims`): a claim that a crash interrupts
stays on a waiting job, which no worker is given any more (queue.ts:87).
`PROJECT.json` quotes the line of the repository that says otherwise.

The models also show the following, which have no run of their own.

Queue and workers:

* A late answer or report reopens a stopped queue
  (queue.ts:185, worker-socket.ts:312).
* The refusal to remove an active job ends the server, since the listener does
  not catch it (client-socket.ts:261).
* A job that waits again after a refusal is overtaken by one added later
  (queue.ts:165).
* A stop before the spawn leaves a process that nobody ends
  (transcode.ts:657).
* A cancellation that is never removed from `cancelledJobIDs` swallows the
  report of the next failing run of that job (transcode.ts:826), and a lost
  acknowledgement of a stop leaves the worker busy until the next stop of that
  job (transcode.ts:853).
* Two unreadable output objects of HandBrakeCLI make two error reports
  (transcode.ts:689); `ReportsOnce` says of such a run only that it is never
  reported finished after it has failed.
* The upload of a former owner replaces the output when it ends
  (worker-transfers.ts:367), and its unused lease refuses the owner until it
  expires (worker-transfers.ts:87).

Tokens:

* An authentication that has read the row before a disable
  connects a worker that accepts jobs (auth.ts:986).
* An update of the row that is written and cannot be read again is taken for
  failed. A pause or an enabling then leaves the connection with the old flag
  (auth.ts:551, 796); a rotation leaves the worker connected with the old token,
  while nobody knows the new one (auth.ts:692), although the repository's
  README.md:97 says that a rotation disconnects the worker.
* A rotation that overlaps with a disable, or with a second rotation, writes
  back the flag it read at first, and one that the end of the process or a
  failed restore interrupts leaves the worker disabled (auth.ts:695, 578, 614).

Watchers:

* An update that waits for a close while the watcher is removed registers it
  again without a row (watcher.ts:300); `ListenersMatchRows` is therefore about
  requests that did not overlap.
* Two registrations that have a file in hand at once add a job each
  (watcher.ts:518): two watchers of one folder, and also one watcher that is
  updated, or whose rules change, while a file waits or is probed, since a
  closed registration goes on with it and the next one finds the file again. Two
  jobs that are not finished yet may have been given the same output name, since
  a name counts as taken only when its file is there (files.ts:188).

What the server keeps on disk:

* Two presets are added to a new category: the second mkdir fails, and its
  preset is listed but was never written (presets.ts:196). A rename that the
  process does not survive, or whose write fails, has removed the old file
  already (presets.ts:278). Operations on one preset that overlap leave a list
  that differs from the directory. `ListIsDirectory` leaves out the paths of
  such operations.
* Two presets whose names differ only in characters that are replaced have one
  file (presets.ts:29, path-safety.ts:133). The one that is added last overwrites
  the other, which a restart forgets; docs/Presets.md:33 says that this happens
  when name _and_ category match. The removal or the renaming of one leaves the
  other listed without a file. `ListIsDirectory` allows the first and leaves out
  the path after the second.
* The migration of presets.json writes to the raw name (presets.ts:148). A preset
  whose name is not its own path can then be neither removed nor renamed, and
  comes back with the next start. `ListIsDirectory` leaves out these paths.
* An update of the credentials whose row is written and cannot be read again is
  reported as failed: the old password holds until the process ends, the new one
  from the next start on (auth.ts:491, database-auth.ts:45). `CredentialsAgree`
  says that this is the only difference of the two.
* A login that has sent the old password before a change of the credentials, and
  whose hash is known after it, gets a session with the time of the change
  (auth.ts:342, 842). `ChangeEndsSessions` is about the sessions that exist when
  the credentials change.
* One preset file that was cut off hides all presets after the next start
  (presets.ts:175).
* A `config.yaml` that was cut off, or mixed by two writes at once, stops every
  later start (config.ts:138), and an update with an invalid configuration ends
  the process, since its listener has no catch (client-socket.ts:113).
* An end between the tables and the list of migrations of a new database
  (database.ts:52), or between a migration that cannot run twice and its record,
  stops every later start. The shutdown waits for none of these writes
  (server-shutdown.ts:43). `EventuallyServes` leaves out exactly these.

## 5. Proofs

`JobServer_proofs` proves for every number of jobs, workers, connections and
calls, and every relation `Capable`:

* `TypesHold`: `Spec => []TypeOK`
* `ActiveJobsHaveOwners`: `Spec => []ActiveJobHasOwner`
* `FinishedJobsWereDelivered`: `Spec => []FinishedWasDelivered`
* `DisabledWorkersGetNoJob`: `Spec => DisabledWorkerGetsNoJob`

`FinishedWasDelivered` is not inductive: `transcode-finished` trusts the record
of a completed upload, and after the file check a report whose record may be
gone by then. `IInv` therefore adds that every recorded upload and every report
under verification is of a job that was delivered. `ActiveJobHasOwner` needs the
types of pending calls (a start names a job, a stop the stage it will write),
since an answer acts on the state of a later time. The handlers are functions
of states, so the invariant is a set of states, `Sound(D)`, where D is the set
of delivered jobs. Each operator of `QueueOps` has a lemma that it maps
`Sound(D)` to itself, each action cites one or two of them, and `IInv`,
`Next` and `UNCHANGED vars` give the theorems. The first lemmas say that
bounded sets of integers have a least and a greatest element and that a function
on an interval is bounded, which the choices of the first worker and the first
job rest on. Assumed are `QueueAssumption` and `ServerAssumption` only: the
types of the constants, and that `NoWorker` is no worker.

`DisabledWorkersGetNoJob` is about a step, and a handler is a composition of
operators, so its argument is about pairs of states too: `Respects(s, t)` says
that every start pending in t was pending in s or goes to a worker that t does
not disable, and that nothing is disabled on the way. It is transitive, each
operator has a lemma, and the difficult one is `ContinueStartQueue`, which goes
on with a snapshot that is older than the flags. The two actions that set a flag
stand outside it: a client that disables a worker makes no call, and a
connection that begins disabled is asked for its properties only.

`JobLifecycle_proofs` proves for the same constants:

* `JobsHaveOneOrder`: `Spec => []OrderFitsJobs`
* `ServerImplementsLifecycle`: `Spec => ImplementsLifecycle`

The argument is about pairs of states: `Leads(D, n, m, s, t)` says of a step
from s to t that every job makes one of the moves of `JobLifecycle` and that a
sound order stays sound. The operators that look for work write down claims
only, so a handler that changes a job and then looks for work leads where its
first half leads. `LInv` adds to `IInv` that a job that is absent belongs to
nobody and that ids are used once (otherwise a removed job could come back under
a new phase), and that no index is negative (otherwise a new first place could
be one that is taken).

`TransferLease_proofs` proves for every number of jobs, workers and leases:

* `TransferTypesHold`: `Spec => []TypeOK`
* `UploadsExcludeEachOther`: `Spec => []OneUploadPerJob`
* `IndexFindsLeases`: `Spec => []OneOutputLeasePerJob`
* `CompletedUploadsAreSettled`: `Spec => []CompletedIsSettled`

The four together are not inductive. A request that holds an output lease while
an upload of the job runs would be refused with 409, and its `finally` block
would then take away the mark of the upload that runs. `IInv` adds
`LeaseExcludesUpload`: whoever holds an output lease finds no upload running,
since a lease is created only then, and is spent by the upload that starts with
it. Assumed is `LeaseAssumption` only.

`TranscodeWorker_proofs` proves for every number of jobs, runs, stops and upload
attempts, and every choice of what HandBrakeCLI may print:

* `WorkerTypes`: `Spec => []TypeOK`
* `FinishedRunsWereReceived`: `Spec => []FinishedWasReceived`
* `RunsReportOnce`: `Spec => []ReportsOnce`
* `IdleWorkersAreClean`: `Spec => []IdleIsClean`

`Honest` says of each run, by the await it is in, what it can have reported: a
run that prepares, uploads or has just failed has reported nothing, one that has
not seen the end of its output has reported nothing, and "finished" comes first
and after the server had the file. It speaks of one run, whatever the others do,
since a run writes only its own record. `IdleIsClean` needs the opposite, what
the runs share: until the first stop all runs but the last are over
(`Sequential`), and the variables of the module are those of the last (`Tidy`):
which of them are set at which await, that its directory is the one that the
clean-up will remove, and that they are forgotten when the output ends, before
the process does. After a stop, runs overlap and the property is false, as
finding transcode.ts:657 says. Assumed is `WorkerAssumption` only.

`Watchers_proofs` proves for every number of watchers, files, presets, events
and jobs, and every length of the quiet period:

* `WatcherTypes`: `Spec => []TypeOK`
* `SecondJobsOverlap`: `Spec => []DuplicatesOverlap`
* `ListenersAreRows`: `Spec => []ListenersMatchRows`
* `JobsOfQuietFiles`: `Spec => OnlyQuietFiles`

`DuplicatesOverlap` says that the later of two jobs with one input and preset is
of another registration, whose search for a match was over before the earlier
was added. It rests on `NoMatch`: a registration past its search has seen every
job that was there and found none, so a job that matches came later, and on
`NoJobYet`: between the search and the insertion there is an await (the free
name), and during it no other job of that registration for that file appears,
since every job of a runtime comes through its one pending entry for the file.
`ListenersMatchRows` needs the same of requests in progress: `Matched` says that
one that is past the close has left no listener of its watcher, carries what the
row says, and is alone. `OnlyQuietFiles` needs `PollsAreTrue`, a statement about
a reading that may be old: if the file still has the size and time of the last
stat, nothing changed since, because both only grow. `QueueOK` says that a name
on the disk is that of a job, so that a free name exists among finitely many.
Assumed is `WatchersAssumption` only.

`WorkerTokens_proofs` proves for every number of actions, with or without
failures and restarts:

* `TokenTypesHold`: `Spec => []TypeOK`
* `SocketsFollowTheRow`: `Spec => []SocketFollowsRow`
* `FlagIsPutBack`: `Spec => []FlagIsAsAsked`
* `PausedWorkersGetNoJob`: `Spec => []PausedWorkerGetsNoJob`

`IInv` says what every copy of the row is worth while something is suspended: an
authentication that is not stale agrees with the row (it becomes a connection
later); an action that is not stale agrees with it until its pause, and the row
is paused after; and `PausesRemember`: an action that will put the flag back
holds the one that was asked for, as long as no stale one is going to put back
another. A statement that fails after it has written the row leaves the
connection stale (`SocketFollowsRow` speaks of the others) and, when it was a
pause or an enabling, the flag lost. That the next number is new
(`NumbersAreUsed`) keeps a revocation apart from those in progress. Assumed is
`TokensAssumption` only.

`WorkerLife_proofs` proves for every base and maximum of the delay, every set of
random numbers and any number of faults:

* `WorkerTypesHold`: `Spec => []TypeOK`
* `RetriesDoNotRace`: `Spec => []OneAttemptAtATime`
* `RetriesFollowOutage`: `Spec => []DelayFollowsOutage`
* `StoppedWorkersAreQuiet`: `Spec => StoppedIsQuiet`

The inductive invariant relates the handle, the timer and the socket of the
controller, and says that the counter of attempts is the number of failures
since the last connection, cut at `MaxAttempt`. With that, the delay is
arithmetic: rounding and the cut at the maximum keep it within the interval.
Assumed are `RetryAssumption` and `LifeAssumption`.

`ServerLife_proofs` proves for every set of settings, presets, users and
addresses, and any number of requests, operations and faults:

* `CredentialsAlwaysAgree`: `Spec => []CredentialsAgree`
* `EveryChangeEndsSessions`: `Spec => ChangeEndsSessions`
* `ListIsTheDirectory`: `Spec => []ListIsDirectory`
* `MigrationKeepsEveryPreset`: `Spec => MigrationKeepsPresets`
* `ServerTypes`: `Spec => []TypeOK`

`AInv` says how the times are ordered: a session is not younger than the
credentials in memory, an update in progress is. A session that was made during
an update has therefore the older time, and ends with it. A row that was written
by an update which failed is younger than the memory as well. `MInv` says that a
preset that is not left to migrate has a whole file, and that nobody else writes
meanwhile. `OInv` is about paths: it says of each operation how far it has come
with the two it names (`Fits`), which listed presets have them (`Alone`), and
that two operations share only disturbed paths (`Apart`); so a step of one
leaves the others, and the agreement of all paths that no operation names, as
they are (`OthersStay`, `Moved`, `Ended`). That another category or name may
have the same path costs nothing else: `SafeName` and `SafeCategory` are any
idempotent functions. Assumed are `PresetAssumption` and `AuthAssumption`, and
for the types also `StartAssumption` and `ServerAssumption`. The types are
inductive when they say besides that a write holds a whole file, that a
migration is recorded only while one is left (`StartTypes`), that a directory is
made only for a category (`PresetTypes`), and that every limiter has one
counter.

Every safety property of the passing runs, invariant or action property, is now
a theorem. Model-checked only, and for good, are the liveness properties
(`StopCompletes`, `InitialisationEnds`, `RunIsReported`, `StopIsAnswered`,
`PendingEnds`, `Reconnects`, `UsageArrives`, `LimitEnds`, `EventuallyServes`),
which rest on fairness and with it on ENABLED. Induction
over data and RECURSIVE operators are beyond the prover too; the modules use
neither.

## 6. Plan

In this order, the most important behaviour first.

1. `QueueOps`, `JobServer` and their proofs. Built.
2. `TranscodeWorker` and its proofs. Built.
3. `TransferLease` and its proofs. Built.
4. `WorkerTokens` and its proofs. Built.
5. `Watchers` and its proofs. Built.
6. `ConnectionRetry`, `WorkerLife` and their proofs. Built.
7. `JobLifecycle`, the refinement and its proof. Built.
8. `ServerStart`, `Presets`, `ClientAuth`, `ServerLife` and their proofs. Built.
9. `JobOrder`: reorder, insert and remove as single statements, two of them
    overlapping, against the comment "so other jobs can be moved without
    conflict" (database-queue.ts:379).
10. `JobSystem`: `JobServer` with the worker of `TranscodeWorker` over ordered
    channels that break: no two workers hold a job at once, and a queue whose
    workers stay drains.

## 7. Not modelled

Directory listings, path checks, logging and the version check have no state
that interacts. The client displays. Bytes, paths, progress values, hashes and
the contents of presets and settings are abstracted, and so is time except where
a delay or a window is the point. `PROJECT.json` has a row for each part.

Left out of what is modelled: names of presets that the sanitizer refuses, and
categories that it turns into "uncategorized"; an index of a reorder that is not
the place of a job (a client sends none); the stage Waiting in
`transcode-update` (a worker sends none); the exception of a job whose preset
was removed (queue.ts:171, it is logged and the job waits); and the record of an
upload that is left from an earlier run of the same job on the same worker, which
the worker would take for that of the present one (worker-transfers.ts:250).

## 8. Use

    tlc -config JobServer_connection.cfg MCJobServer
    tlc -config ServerLife_restarts.cfg MCServerLife
    tlapm JobLifecycle_proofs.tla
