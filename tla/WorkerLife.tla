------------------------------ MODULE WorkerLife ------------------------------
(***************************************************************************)
(* The life of a worker process and of its connection: worker.ts,          *)
(* worker-startup.ts, worker-shutdown.ts, the connection events of         *)
(* socket/server-socket.ts and the reporter of scripts/resource-usage.ts,  *)
(* against a server that starts and stops (server-startup.ts,              *)
(* server-shutdown.ts), admits one connection of a worker at a time        *)
(* (socket/worker-socket.ts, connections.ts) and notices a broken link     *)
(* later than the worker does, or earlier.                                 *)
(***************************************************************************)
EXTENDS ConnectionRetry

CONSTANT MaxFaults   \* faults of a behaviour: signals, breaks, refusals, kills, boots

ASSUME LifeAssumption == MaxFaults \in Nat

VARIABLES
  phase,       \* where the worker process is in its life
  c,           \* its retry controller
  conn,        \* its socket
  busy,        \* currentJobID is set
  reporting,   \* the reporter: its timer is set, the interval really runs
  sampling,    \* sampleInProgress
  up,          \* the server listens
  registered,  \* the entry of the worker in connections.workers
  usage,       \* the server has a resource usage of the worker
  outage,      \* history: failed attempts since the last connection
  faults

worker == <<phase, c, conn, busy, reporting, sampling, outage>>
server == <<up, registered, usage>>
vars == <<worker, server, faults>>

\* "waiting" is a process that waits for a corrected configuration.
Phases == {"exited", "start", "probing", "waiting", "running", "stopping"}

\* idle, opening (connect was called), accepted (the server has let the socket in),
\* rejected (it has let it in and disconnected it), and the same after the event
\* 'connect': connected, closing.
Conns == {"idle", "opening", "accepted", "rejected", "connected", "closing"}

\* The entry in the table: the present socket of the worker, or an older one.
Entries == {"none", "this", "old"}

\* With MaxAttempt + 1 failures and more the delay is the same.
MaxOutage == MaxAttempt + 1

NotReporting == [timer |-> FALSE, live |-> FALSE]

Init ==
  /\ phase = "exited" /\ c = NewController /\ conn = "idle" /\ busy = FALSE
  /\ reporting = NotReporting /\ sampling = FALSE /\ outage = 0
  /\ up \in BOOLEAN /\ registered = "none" /\ usage = FALSE
  /\ faults = 0

Fault == faults < MaxFaults /\ faults' = faults + 1
NoFault == UNCHANGED faults

\* The server does not know yet that the worker is gone.
LosesLink == registered' = IF registered = "this" THEN "old" ELSE registered

-----------------------------------------------------------------------------
(* Connecting. *)

\* attemptConnection; connect() may throw.
AttemptConnection(k) ==
  IF k.stopped THEN c' = k /\ NoFault /\ UNCHANGED <<conn, outage>>
  ELSE \/ conn' = "opening" /\ c' = k /\ NoFault /\ UNCHANGED outage
       \/ /\ Fault
          /\ \E random \in Randoms : c' = Failed(k, random)
          /\ outage' = Min({outage + 1, MaxOutage})
          /\ UNCHANGED conn

\* 'connect_error', 'disconnect', or both for one broken connection.
ConnectionFails ==
  /\ conn' = "idle"
  /\ \E r1, r2 \in Randoms : c' \in {Failed(c, r1), Failed(Failed(c, r1), r2)}
  /\ outage' = IF c.stopped THEN outage ELSE Min({outage + 1, MaxOutage})

TimerFires ==
  /\ c.timers > 0 /\ phase \in {"running", "stopping"}
  /\ AttemptConnection(Fires(c))
  /\ UNCHANGED <<phase, busy, reporting, sampling, server>>

-----------------------------------------------------------------------------
(* The worker process. *)

Boots ==
  /\ phase = "exited" /\ Fault
  /\ phase' = "start"
  /\ UNCHANGED <<c, conn, busy, reporting, sampling, outage, server>>

\* Missing variables, else HandBrakeCLI is asked for its version.
ChecksConfiguration ==
  /\ phase = "start" /\ NoFault
  /\ phase' \in {"waiting", "probing"}
  /\ UNCHANGED <<c, conn, busy, reporting, sampling, outage, server>>

\* GetWorkerProperties throws: HandBrakeCLI is missing, or what it says is not
\* understood.
PropertiesFail ==
  /\ phase = "probing" /\ NoFault
  /\ phase' = "exited"
  /\ UNCHANGED <<c, conn, busy, reporting, sampling, outage, server>>

\* No URL, or one that would leave the local network without TLS.
AddressInvalid ==
  /\ phase = "probing" /\ NoFault
  /\ phase' = "waiting"
  /\ UNCHANGED <<c, conn, busy, reporting, sampling, outage, server>>

StartsController ==
  /\ phase = "probing"
  /\ phase' = "running"
  /\ AttemptConnection([c EXCEPT !.stopped = FALSE])
  /\ UNCHANGED <<busy, reporting, sampling, server>>

Exits ==
  /\ phase' = "exited"
  /\ c' = NewController /\ conn' = "idle" /\ busy' = FALSE
  /\ reporting' = NotReporting /\ sampling' = FALSE /\ outage' = 0
  /\ LosesLink
  /\ UNCHANGED <<up, usage>>

Killed == phase # "exited" /\ Fault /\ Exits

\* Shutdown, with no job: the socket is closed and the process ends.
SignalWhenIdle == phase = "running" /\ ~busy /\ Fault /\ Exits

\* Shutdown, with a job: SelfStopTranscode first; a second signal is ignored.
SignalWhenBusy ==
  /\ phase = "running" /\ busy /\ Fault
  /\ phase' = "stopping"
  /\ c' = Stop(c)
  /\ UNCHANGED <<conn, busy, reporting, sampling, outage, server>>

\* SelfStopTranscode has ended; if it throws, nobody catches that and Node ends the
\* process, too.
SelfStopEnds(ok) == phase = "stopping" /\ NoFault /\ Exits

JobStarts ==
  /\ phase = "running" /\ conn = "connected" /\ registered = "this" /\ ~busy
  /\ busy' = TRUE
  /\ NoFault /\ UNCHANGED <<phase, c, conn, reporting, sampling, outage, server>>

JobEnds ==
  /\ phase = "running" /\ busy
  /\ busy' = FALSE
  /\ NoFault /\ UNCHANGED <<phase, c, conn, reporting, sampling, outage, server>>

-----------------------------------------------------------------------------
(* The reporter of the resource usage.  Of the overlapping calls of report() only *)
(* the first takes a sample.                                                      *)

StartReporting ==
  IF reporting.timer THEN UNCHANGED <<reporting, sampling>>
  ELSE reporting' = [timer |-> TRUE, live |-> TRUE] /\ sampling' = TRUE

\* A slip: the interval is cleared and the timer stays set.
StopReporting_KeepsTimer ==
  reporting' = [reporting EXCEPT !.live = FALSE] /\ UNCHANGED sampling

StopReporting == reporting' = NotReporting /\ UNCHANGED sampling

IntervalFires ==
  /\ reporting.live /\ ~sampling
  /\ sampling' = TRUE
  /\ NoFault /\ UNCHANGED <<phase, c, conn, busy, reporting, outage, server>>

\* The server keeps what a registered worker reports.
StoresUsage == usage' = (usage \/ (conn = "connected" /\ registered = "this"))

\* The sample is sent on whatever connection there is by then.
SampleEnds ==
  /\ sampling /\ NoFault
  /\ sampling' = FALSE
  /\ StoresUsage
  /\ UNCHANGED <<phase, c, conn, busy, reporting, outage, up, registered>>

-----------------------------------------------------------------------------
(* Events of the socket. *)

\* The server lets the socket in, and disconnects it at once when it still has an
\* entry for the worker.
Admitted ==
  /\ conn = "opening" /\ up /\ NoFault
  /\ IF registered = "none" THEN conn' = "accepted" /\ registered' = "this"
     ELSE conn' = "rejected" /\ UNCHANGED registered
  /\ UNCHANGED <<phase, c, busy, reporting, sampling, outage, up, usage>>

\* 'connect_error': no server, no network, or no valid token.
Refused ==
  /\ conn = "opening" /\ (IF up THEN Fault ELSE NoFault)
  /\ ConnectionFails
  /\ UNCHANGED <<phase, busy, reporting, sampling, server>>

Connects ==
  /\ conn \in {"accepted", "rejected"} /\ NoFault
  /\ conn' = IF conn = "accepted" THEN "connected" ELSE "closing"
  /\ c' = Restored(c) /\ outage' = 0
  /\ StartReporting
  /\ UNCHANGED <<phase, busy, server>>

\* 'disconnect': of a rejected socket, or of one the server has given up or has
\* lost.  The link may break before 'connect', too.
Disconnects ==
  /\ \/ conn \in {"rejected", "closing"}
     \/ conn \in {"accepted", "connected"} /\ registered # "this"
  /\ NoFault
  /\ ConnectionFails
  /\ StopReporting
  /\ UNCHANGED <<phase, busy, server>>

LinkBreaks ==
  /\ registered = "this" /\ Fault
  /\ LosesLink
  /\ UNCHANGED <<worker, up, usage>>

-----------------------------------------------------------------------------
(* The server. *)

\* A slip: the entry of the lost connection stays in the table.
ServerNotices_KeepsEntry ==
  /\ registered = "old" /\ NoFault
  /\ usage' = FALSE
  /\ UNCHANGED <<worker, up, registered>>

\* cleanupWorker, when the old link has timed out or was closed.
ServerNotices ==
  /\ registered = "old" /\ NoFault
  /\ registered' = "none" /\ usage' = FALSE
  /\ UNCHANGED <<worker, up>>

\* A worker that was revoked is disconnected.
ServerDisconnects ==
  /\ registered = "this" /\ Fault
  /\ registered' = "none" /\ usage' = FALSE
  /\ UNCHANGED <<worker, up>>

\* Shutdown disconnects the clients and the workers it comes to and closes the
\* socket server, which closes the rest; a kill does the same to the worker.
ServerStops ==
  /\ up /\ Fault
  /\ up' = FALSE /\ registered' = "none" /\ usage' = FALSE
  /\ UNCHANGED worker

ServerStarts ==
  /\ ~up /\ NoFault
  /\ up' = TRUE
  /\ UNCHANGED <<worker, registered, usage>>

-----------------------------------------------------------------------------
ConnectionSettles == Admitted \/ Refused
SelfStopSettles == \E ok \in BOOLEAN : SelfStopEnds(ok)

Next ==
  \/ Boots \/ ChecksConfiguration \/ PropertiesFail \/ AddressInvalid
  \/ StartsController \/ Killed
  \/ SignalWhenIdle \/ SignalWhenBusy \/ SelfStopSettles
  \/ JobStarts \/ JobEnds
  \/ TimerFires \/ ConnectionSettles \/ Connects \/ Disconnects \/ LinkBreaks
  \/ IntervalFires \/ SampleEnds
  \/ ServerNotices \/ ServerDisconnects \/ ServerStops \/ ServerStarts

Spec == Init /\ [][Next]_vars

\* Timers fire, packets arrive or their connection times out, files are read, the
\* stop of a job ends (see TranscodeWorker), and the container of the server is
\* started again.
FairSpec ==
  /\ Spec
  /\ WF_vars(TimerFires) /\ WF_vars(ConnectionSettles)
  /\ WF_vars(Connects) /\ WF_vars(Disconnects)
  /\ WF_vars(IntervalFires) /\ WF_vars(SampleEnds)
  /\ WF_vars(SelfStopSettles)
  /\ WF_vars(ServerNotices) /\ WF_vars(ServerStarts)

-----------------------------------------------------------------------------
(* Properties. *)

\* The types of the process, of its controller and of the server.
TypeOK ==
  /\ phase \in Phases /\ conn \in Conns /\ registered \in Entries
  /\ c \in [attempt : 0 .. MaxAttempt, handle : BOOLEAN, timers : 0 .. 2,
            delay : 0 .. MaxDelay, stopped : BOOLEAN]
  /\ reporting \in [timer : BOOLEAN, live : BOOLEAN]
  /\ {busy, sampling, up, usage} \subseteq BOOLEAN
  /\ outage \in 0 .. MaxOutage
  /\ faults \in 0 .. MaxFaults

\* The controller never races itself: a retry is pending only while there is no
\* connection, and there is never a second one, however a connection fails
\* (failed() returns when retryTimer is set, connected() clears it).
OneAttemptAtATime ==
  c.timers > 0 => c.timers = 1 /\ c.handle /\ conn = "idle"

\* The delay of a retry depends on nothing but the failures since the worker was
\* last connected: it doubles with each up to the maximum, give or take 20% and
\* the rounding, and a connection in between starts it again.
DelayFollowsOutage ==
  c.timers > 0 /\ outage > 0 =>
    LET expected == ExponentialDelay(outage - 1)
    IN  /\ 100 * c.delay >= 80 * expected - 100
        /\ 100 * c.delay <= 120 * expected + 100
        /\ c.delay \in 1 .. MaxDelay

\* A worker that shuts down begins no new connection and keeps no timer that would
\* hold the process, also when its connection breaks while a job is being stopped.
StoppedIsQuiet ==
  [][c.stopped /\ c'.stopped =>
       c'.timers = 0 /\ (conn' = "opening" => conn = "opening")]_vars

\* A running worker gets connected and registered, whatever breaks and in whichever
\* order worker and server notice: a worker that is rejected because the server
\* still has its old connection comes back until that one is gone.
Reconnects ==
  phase = "running" ~> (conn = "connected" /\ registered = "this") \/ phase # "running"

\* A connected worker is shown with a resource usage, also when a sample of the
\* previous connection was still in progress.
UsageArrives ==
  conn = "connected" /\ registered = "this" ~>
    usage \/ conn # "connected" \/ registered # "this"

=============================================================================
