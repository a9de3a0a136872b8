-------------------------- MODULE TranscodeWorker_proofs --------------------------
(***************************************************************************)
(* The worker tells the truth about its runs and leaves nothing behind: a  *)
(* run reports its end once, reports "finished" only for a file the server *)
(* has, and a worker that nobody has stopped is clean whenever it is idle. *)
(* For any number of jobs, runs, stops and upload attempts.                *)
(*                                                                         *)
(* The helpers of TranscodeWorker map states to states, so the lemmas      *)
(* below say what each of them does to a state s and to its run r.         *)
(***************************************************************************)
EXTENDS TranscodeWorker, SequenceTheorems, TLAPS

Mods ==
  [starting : Jobs \union {NoJob}, current : Jobs \union {NoJob},
   stopping : Jobs \union {NoJob}, loaded : BOOLEAN,
   workspace : 0 .. MaxRuns, preset : 0 .. MaxRuns,
   transfer : 0 .. MaxRuns, handbrake : 0 .. MaxRuns]

States ==
  [mod : Mods, cancelled : SUBSET Jobs, runs : Seq(RunRecords),
   stops : Seq(StopRecords), dirs : SUBSET Runs]

-----------------------------------------------------------------------------
(* The inductive invariant. *)

Preparing == {"jobdata", "mkdtemp", "inputlease", "download", "preset", "write"}
Uploading == {"stat", "outputlease", "upload", "checking", "delay"}

\* What the reports of a run say about it.  A run has reported nothing until its
\* output is over, and its output is over once WORKDONE or an unreadable record
\* was seen (terminal).
Honest(run) ==
  /\ run.pc = "delay" => run.attempt < MaxAttempts
  /\ run.pc \in Preparing => ~run.terminal
  /\ run.pc \in Uploading \union {"failed", "finished", "garbled"} => run.terminal
  /\ run.pc = "finished" => run.received
  /\ ~run.terminal /\ run.pc # "over" => run.reports = <<>>
  /\ run.pc \notin {"encoding", "garbled", "over"} => run.reports = <<>>
  /\ ~run.garbled => /\ Len(run.reports) <= 1
                     /\ run.pc = "garbled" => run.reports = <<>>
  /\ \A i \in DOMAIN run.reports :
       run.reports[i] = "finished" => i = 1 /\ run.received

Forgetful(m) == m.starting = NoJob /\ m.current = NoJob /\ m.workspace = 0

\* What the module remembers of the only run that may be going on, run n, and what
\* that run has on the disk.
Tidy(s, n) ==
  LET run == s.runs[n]
  IN  /\ s.mod.stopping = NoJob
      /\ s.dirs \subseteq {s.mod.workspace}
      /\ run.pc \in Preparing \union {"caught"} =>
           /\ s.mod.starting = run.job /\ s.mod.handbrake = 0 /\ run.child = "none"
      /\ run.pc \in {"jobdata", "mkdtemp"} => s.mod.workspace = 0
      /\ run.pc \in CleanUps => run.dir = s.mod.workspace
      /\ run.pc \notin Preparing \union {"caught", "over"} =>
           s.mod.handbrake = n /\ run.child # "none"
      /\ run.pc = "encoding" /\ run.terminal =>
           Forgetful(s.mod)
      /\ run.pc \in {"encoding", "closed"} => s.mod.starting = NoJob
      /\ run.pc = "closed" => run.child = "closed"
      /\ run.pc = "over" =>
           Forgetful(s.mod) /\ s.mod.handbrake = 0 /\ run.child # "alive"

\* Until the first stop one run follows the other.
Sequential(s) ==
  s.stops = <<>> =>
    /\ s.cancelled = {}
    /\ \A r \in DOMAIN s.runs :
         r < Len(s.runs) => s.runs[r].pc = "over" /\ s.runs[r].child # "alive"
    /\ IF s.runs = <<>> THEN s.mod = IdleModule /\ s.dirs = {}
                        ELSE Tidy(s, Len(s.runs))

Sound ==
  {s \in States : /\ Len(s.runs) <= MaxRuns
                  /\ \A r \in DOMAIN s.runs : Honest(s.runs[r])}

IInv == Worker \in Sound /\ Sequential(Worker)

-----------------------------------------------------------------------------
(* The helpers. *)

\* What there is to know of the runs of a state.
LEMMA RunsOfState ==
  ASSUME NEW s \in States
  PROVE  /\ Len(s.runs) \in Nat /\ DOMAIN s.runs = 1 .. Len(s.runs)
         /\ \A r \in DOMAIN s.runs : s.runs[r] \in RunRecords
<1>1. s.runs \in Seq(RunRecords)
  BY DEF States
<1> QED
  BY <1>1, LenProperties, ElementOfSeq

\* A state in which run r has become another run.
LEMMA PutRun ==
  ASSUME NEW s \in States, NEW r \in DOMAIN s.runs, NEW run \in RunRecords,
         NEW q, q = [s.runs EXCEPT ![r] = run]
  PROVE  /\ q \in Seq(RunRecords) /\ Len(q) = Len(s.runs) /\ DOMAIN q = DOMAIN s.runs
         /\ q[r] = run /\ \A o \in DOMAIN s.runs : o # r => q[o] = s.runs[o]
<1>1. s.runs \in Seq(RunRecords) /\ r \in 1 .. Len(s.runs)
  BY RunsOfState DEF States
<1> QED
  BY <1>1, ExceptSeq, RunsOfState

\* The state that has memory m and cancelled jobs C, and in which run r of s stands
\* at pc and has made these reports.
With(s, r, m, C, pc, reports) ==
  [mod |-> m, cancelled |-> C,
   runs |-> [s.runs EXCEPT ![r] = [@ EXCEPT !.pc = pc, !.reports = reports]],
   stops |-> s.stops, dirs |-> s.dirs]

\* A run that is replaced by itself.
LEMMA SameRuns ==
  ASSUME NEW s \in States, NEW r \in DOMAIN s.runs
  PROVE  [s.runs EXCEPT ![r] = [s.runs[r] EXCEPT !.pc = s.runs[r].pc,
                                                 !.reports = s.runs[r].reports]] = s.runs
<1>1. s.runs[r] \in RunRecords
  BY RunsOfState
<1>2. [s.runs[r] EXCEPT !.pc = s.runs[r].pc, !.reports = s.runs[r].reports] = s.runs[r]
  BY <1>1 DEF RunRecords
<1>3. s.runs = [q \in 1 .. Len(s.runs) |-> s.runs[q]]
  BY RunsOfState, LenProperties DEF States
<1> QED
  BY <1>2, <1>3

\* A state is what it is with its own memory, position and reports.
LEMMA WithItself ==
  ASSUME NEW s \in States, NEW r \in DOMAIN s.runs
  PROVE  With(s, r, s.mod, s.cancelled, s.runs[r].pc, s.runs[r].reports) = s
<1>1. s = [mod |-> s.mod, cancelled |-> s.cancelled, runs |-> s.runs, stops |-> s.stops,
           dirs |-> s.dirs]
  BY DEF States
<1> QED
  BY <1>1, SameRuns DEF With

\* Report appends to the reports.
LEMMA ReportWith ==
  ASSUME NEW s \in States, NEW r \in DOMAIN s.runs,
         NEW m, NEW C, NEW pc, NEW reports, NEW event
  PROVE  Report(With(s, r, m, C, pc, reports), r, event)
           = With(s, r, m, C, pc, Append(reports, event))
<1> DEFINE x == With(s, r, m, C, pc, reports)
           run == s.runs[r]
<1>1. run \in RunRecords
  BY RunsOfState
<1>2. x.runs[r].reports = reports /\ x.runs[r] = [run EXCEPT !.pc = pc, !.reports = reports]
  BY <1>1 DEF With, RunRecords
<1>3. x.runs = [s.runs EXCEPT ![r] = [run EXCEPT !.pc = pc, !.reports = reports]]
  BY DEF With
<1>4. [x.runs[r] EXCEPT !.reports = Append(reports, event)]
        = [run EXCEPT !.pc = pc, !.reports = Append(reports, event)]
  BY <1>1, <1>2 DEF RunRecords
<1>5. [x.runs EXCEPT ![r] = [x.runs[r] EXCEPT !.reports = Append(reports, event)]]
        = [s.runs EXCEPT ![r] = [run EXCEPT !.pc = pc, !.reports = Append(reports, event)]]
  BY <1>3, <1>4
<1>6. Report(x, r, event)
        = [x EXCEPT !.runs = [x.runs EXCEPT ![r] = [x.runs[r] EXCEPT
                                                    !.reports = Append(reports, event)]]]
  <2> HIDE DEF x
  <2> QED
    BY <1>2 DEF Report
<1> QED
  BY <1>5, <1>6 DEF With

\* An error is reported, or the job was cancelled.
LEMMA ErrorUnlessCancelledWith ==
  ASSUME NEW s \in States, NEW r \in DOMAIN s.runs,
         NEW m, NEW C, NEW pc, NEW reports
  PROVE  ErrorUnlessCancelled(With(s, r, m, C, pc, reports), r)
           \in {With(s, r, m, C, pc, reports), With(s, r, m, C, pc, Append(reports, "error"))}
BY ReportWith DEF ErrorUnlessCancelled

\* At moves the run.
LEMMA AtWith ==
  ASSUME NEW s \in States, NEW r \in DOMAIN s.runs,
         NEW m, NEW C, NEW pc, NEW reports, NEW to
  PROVE  At(With(s, r, m, C, pc, reports), r, to) = With(s, r, m, C, to, reports)
<1> DEFINE x == With(s, r, m, C, pc, reports)
           run == s.runs[r]
<1>1. run \in RunRecords
  BY RunsOfState
<1>2. x.runs[r] = [run EXCEPT !.pc = pc, !.reports = reports]
  BY <1>1 DEF With, RunRecords
<1>3. [x.runs[r] EXCEPT !.pc = to] = [run EXCEPT !.pc = to, !.reports = reports]
  BY <1>1, <1>2 DEF RunRecords
<1> QED
  BY <1>3 DEF At, With

\* What Close forgets.
Forgotten(m) == [m EXCEPT !.handbrake = 0, !.starting = NoJob]

\* Close ends the run and forgets its process.
LEMMA CloseWith ==
  ASSUME NEW s \in States, NEW r \in DOMAIN s.runs,
         NEW m, NEW C, NEW pc, NEW reports
  PROVE  Close(With(s, r, m, C, pc, reports), r)
           = With(s, r, Forgotten(m), C, "over", reports)
<1> DEFINE x == With(s, r, m, C, "over", reports)
           y == [x EXCEPT !.mod.handbrake = 0]
           n == [m EXCEPT !.handbrake = 0]
<1>1. y = With(s, r, n, C, "over", reports)
  BY DEF With
<1>2. [y EXCEPT !.mod.starting = NoJob]
        = With(s, r, [n EXCEPT !.starting = NoJob], C, "over", reports)
  <2> HIDE DEF y, n
  <2> QED
    BY <1>1 DEF With
<1>3. [n EXCEPT !.starting = NoJob] = Forgotten(m)
  BY Zenon DEF Forgotten
<1>4. At(With(s, r, m, C, pc, reports), r, "over") = x
  BY AtWith
<1>5. Close(With(s, r, m, C, pc, reports), r) = [y EXCEPT !.mod.starting = NoJob]
  BY <1>4, Zenon DEF Close
<1> QED
  BY <1>2, <1>3, <1>5, Zenon

\* Settle only takes a job out of the cancelled ones.
LEMMA SettleWith ==
  ASSUME NEW s \in States, NEW r \in DOMAIN s.runs,
         NEW m, NEW C, NEW pc, NEW reports
  PROVE  \E D \in SUBSET C :
           Settle(With(s, r, m, C, pc, reports), r) = With(s, r, m, D, pc, reports)
<1> DEFINE D == C \ {With(s, r, m, C, pc, reports).runs[r].job}
<1>1. Settle(With(s, r, m, C, pc, reports), r) = With(s, r, m, D, pc, reports)
  BY DEF Settle, With
<1>2. D \in SUBSET C
  OBVIOUS
<1> QED
  BY <1>1, <1>2

\* What the removal of a workspace leaves in the module, and what it does to the run.
EndOf(kind) == IF kind \in {"caught", "closed"} THEN "over" ELSE "encoding"
IdleWith(h) == [IdleModule EXCEPT !.handbrake = h]
Left(s, kind) ==
  IF EndOf(kind) = "over" THEN Forgotten(IdleWith(s.mod.handbrake))
  ELSE IdleWith(s.mod.handbrake)

Reported(run, kind, reports) ==
  IF kind = "finished" THEN reports = Append(run.reports, "finished")
  ELSE reports \in {run.reports, Append(run.reports, "error")}

\* What follows the removal of a workspace, whatever it was removed for.
LEMMA AfterCleanUpIs ==
  ASSUME NEW s \in States, NEW r \in DOMAIN s.runs, NEW kind \in CleanUps
  PROVE  \E C \in SUBSET s.cancelled, reports \in {s.runs[r].reports,
             Append(s.runs[r].reports, "error"), Append(s.runs[r].reports, "finished")} :
           /\ Reported(s.runs[r], kind, reports)
           /\ AfterCleanUp(s, r, kind) = With(s, r, Left(s, kind), C, EndOf(kind), reports)
<1> DEFINE run == s.runs[r]
           c == ClearCurrentJobState(s)
           m == IdleWith(s.mod.handbrake)
           failed == Append(run.reports, "error")
<1>1. run \in RunRecords
  BY RunsOfState
<1>2. c = With(s, r, m, s.cancelled, run.pc, run.reports)
  <2>1. s = [mod |-> s.mod, cancelled |-> s.cancelled, runs |-> s.runs, stops |-> s.stops,
             dirs |-> s.dirs]
    BY DEF States
  <2>2. c = [mod |-> m, cancelled |-> s.cancelled, runs |-> s.runs, stops |-> s.stops,
             dirs |-> s.dirs]
    BY <2>1 DEF ClearCurrentJobState, IdleWith
  <2>3. [s.runs EXCEPT ![r] = [run EXCEPT !.pc = run.pc, !.reports = run.reports]] = s.runs
    BY SameRuns
  <2> QED
    BY <2>2, <2>3 DEF With
<1>3. Close(c, r) = With(s, r, Forgotten(m), s.cancelled, "over", run.reports)
  BY <1>2, CloseWith
<1>4. At(c, r, "encoding") = With(s, r, m, s.cancelled, "encoding", run.reports)
  BY <1>2, AtWith
<1> HIDE DEF c, m
<1>5. CASE kind = "caught"
  <2>1. PICK reports \in {run.reports, failed} :
          ErrorUnlessCancelled(Close(c, r), r)
            = With(s, r, Forgotten(m), s.cancelled, "over", reports)
    BY <1>3, ErrorUnlessCancelledWith
  <2>2. PICK C \in SUBSET s.cancelled :
          Settle(ErrorUnlessCancelled(Close(c, r), r), r)
            = With(s, r, Forgotten(m), C, "over", reports)
    BY <2>1, SettleWith
  <2>3. AfterCleanUp(s, r, kind) = With(s, r, Forgotten(m), C, "over", reports)
    BY <1>5, <2>2 DEF AfterCleanUp, c
  <2> QED
    BY <1>5, <2>3 DEF Left, EndOf, Reported, m
<1>6. CASE kind = "garbled"
  <2>1. PICK reports \in {run.reports, failed} :
          ErrorUnlessCancelled(At(c, r, "encoding"), r)
            = With(s, r, m, s.cancelled, "encoding", reports)
    BY <1>4, ErrorUnlessCancelledWith
  <2>2. AfterCleanUp(s, r, kind) = With(s, r, m, s.cancelled, "encoding", reports)
    BY <1>6, <2>1 DEF AfterCleanUp, c
  <2> QED
    BY <1>6, <2>2 DEF Left, EndOf, Reported, m
<1>7. CASE kind \in {"failed", "finished"}
  <2> DEFINE event == IF kind = "failed" THEN "error" ELSE "finished"
  <2>1. Report(At(c, r, "encoding"), r, event)
          = With(s, r, m, s.cancelled, "encoding", Append(run.reports, event))
    BY <1>4, ReportWith
  <2>2. AfterCleanUp(s, r, kind)
          = With(s, r, m, s.cancelled, "encoding", Append(run.reports, event))
    BY <1>7, <2>1 DEF AfterCleanUp, c
  <2> QED
    BY <1>7, <2>2 DEF Left, EndOf, Reported, m
<1>8. CASE kind = "closed"
  <2>1. Report(c, r, "error") = With(s, r, m, s.cancelled, run.pc, failed)
    BY <1>2, ReportWith
  <2>2. Close(Report(c, r, "error"), r) = With(s, r, Forgotten(m), s.cancelled, "over", failed)
    BY <2>1, CloseWith
  <2>3. AfterCleanUp(s, r, kind) = With(s, r, Forgotten(m), s.cancelled, "over", failed)
    BY <1>8, <2>2 DEF AfterCleanUp, c
  <2> QED
    BY <1>8, <2>3 DEF Left, EndOf, Reported, m
<1> QED
  BY <1>5, <1>6, <1>7, <1>8 DEF CleanUps

\* The module has forgotten the job, and the process if it has closed.
LEMMA LeftType ==
  ASSUME NEW s \in States, NEW kind \in CleanUps
  PROVE  /\ Left(s, kind) \in Mods /\ Forgetful(Left(s, kind))
         /\ Left(s, kind).stopping = NoJob
         /\ Left(s, kind).handbrake = IF EndOf(kind) = "over" THEN 0 ELSE s.mod.handbrake
<1>1. s.mod.handbrake \in 0 .. MaxRuns /\ 0 \in 0 .. MaxRuns
  BY WorkerAssumption DEF States, Mods
<1> DEFINE m == IdleWith(s.mod.handbrake)
<1>2. /\ m \in Mods /\ Forgetful(m) /\ m.stopping = NoJob
      /\ m.handbrake = s.mod.handbrake
  BY <1>1 DEF IdleWith, IdleModule, Mods, Forgetful
<1> HIDE DEF m
<1>3. /\ Forgotten(m) \in Mods /\ Forgetful(Forgotten(m)) /\ Forgotten(m).stopping = NoJob
      /\ Forgotten(m).handbrake = 0
  BY <1>1, <1>2 DEF Forgotten, Mods, Forgetful
<1> QED
  BY <1>2, <1>3 DEF Left, m

Ends == {"error", "finished"}

\* State t is s with this memory, these cancelled jobs and directories, and with run r
\* replaced.
Changed(t, s, r, run, m, C, D) ==
  /\ t \in States
  /\ t.mod = m /\ t.cancelled = C /\ t.stops = s.stops /\ t.dirs = D
  /\ Len(t.runs) = Len(s.runs) /\ DOMAIN t.runs = DOMAIN s.runs
  /\ t.runs[r] = run
  /\ \A o \in DOMAIN s.runs : o # r => t.runs[o] = s.runs[o]

\* A state built from s by replacing one run.
LEMMA ChangedType ==
  ASSUME NEW s \in States, NEW r \in DOMAIN s.runs, NEW run \in RunRecords,
         NEW m \in Mods, NEW C \in SUBSET Jobs, NEW D \in SUBSET Runs, NEW t,
         t = [mod |-> m, cancelled |-> C, runs |-> [s.runs EXCEPT ![r] = run],
              stops |-> s.stops, dirs |-> D]
  PROVE  Changed(t, s, r, run, m, C, D)
<1> DEFINE q == [s.runs EXCEPT ![r] = run]
<1>1. /\ q \in Seq(RunRecords) /\ Len(q) = Len(s.runs) /\ DOMAIN q = DOMAIN s.runs
      /\ q[r] = run /\ \A o \in DOMAIN s.runs : o # r => q[o] = s.runs[o]
  BY PutRun
<1> HIDE DEF q
<1>2. t = [mod |-> m, cancelled |-> C, runs |-> q, stops |-> s.stops, dirs |-> D]
  BY DEF q
<1>3. s.stops \in Seq(StopRecords)
  BY DEF States
<1>4. t \in States
  BY <1>1, <1>2, <1>3 DEF States
<1> QED
  BY <1>1, <1>2, <1>4 DEF Changed

\* The same for the states that With describes.
LEMMA WithType ==
  ASSUME NEW s \in States, NEW r \in DOMAIN s.runs,
         NEW m \in Mods, NEW C \in SUBSET Jobs, NEW pc \in Phases, NEW reports \in Seq(Ends)
  PROVE  Changed(With(s, r, m, C, pc, reports), s, r,
                 [s.runs[r] EXCEPT !.pc = pc, !.reports = reports], m, C, s.dirs)
<1> DEFINE run == [s.runs[r] EXCEPT !.pc = pc, !.reports = reports]
<1>1. run \in RunRecords
  <2>1. s.runs[r] \in RunRecords
    BY RunsOfState
  <2> QED
    BY <2>1 DEF RunRecords, Ends
<1>2. s.dirs \in SUBSET Runs
  BY DEF States
<1>3. With(s, r, m, C, pc, reports)
        = [mod |-> m, cancelled |-> C, runs |-> [s.runs EXCEPT ![r] = run],
           stops |-> s.stops, dirs |-> s.dirs]
  BY DEF With
<1> HIDE DEF run
<1> QED
  BY <1>1, <1>2, <1>3, ChangedType DEF run

\* The reports of a run stay a sequence when one is added.
LEMMA ReportsType ==
  ASSUME NEW run \in RunRecords
  PROVE  /\ run.reports \in Seq(Ends)
         /\ \A e \in Ends : /\ Append(run.reports, e) \in Seq(Ends)
                            /\ Len(Append(run.reports, e)) = Len(run.reports) + 1
                            /\ \A i \in 1 .. Len(run.reports) :
                                 Append(run.reports, e)[i] = run.reports[i]
                            /\ Append(run.reports, e)[Len(run.reports) + 1] = e
         /\ Len(run.reports) \in Nat /\ DOMAIN run.reports = 1 .. Len(run.reports)
<1>1. run.reports \in Seq(Ends)
  BY DEF RunRecords, Ends
<1> QED
  BY <1>1, AppendProperties, LenProperties

\* A run that may be cleaned up this way and reports what is due stays honest.
LEMMA ReportedIsHonest ==
  ASSUME NEW run \in RunRecords, NEW kind \in CleanUps,
         Honest([run EXCEPT !.pc = kind]),
         NEW reports \in {run.reports, Append(run.reports, "error"),
                          Append(run.reports, "finished")},
         Reported(run, kind, reports)
  PROVE  Honest([run EXCEPT !.pc = EndOf(kind), !.reports = reports])
<1> DEFINE before == [run EXCEPT !.pc = kind]
           after == [run EXCEPT !.pc = EndOf(kind), !.reports = reports]
<1>1. /\ before.pc = kind /\ before.reports = run.reports /\ before.terminal = run.terminal
      /\ before.garbled = run.garbled /\ before.received = run.received
  BY DEF RunRecords
<1>2. /\ after.pc = EndOf(kind) /\ after.reports = reports /\ after.terminal = run.terminal
      /\ after.garbled = run.garbled /\ after.received = run.received
  BY DEF RunRecords
<1>3. /\ kind \in {"failed", "finished", "garbled"} => run.terminal
      /\ kind = "finished" => run.received
      /\ kind # "garbled" => run.reports = <<>>
      /\ ~run.garbled => run.reports = <<>>
      /\ \A i \in DOMAIN run.reports : run.reports[i] = "finished" => i = 1 /\ run.received
  <2> HIDE DEF before
  <2> QED
    BY <1>1 DEF Honest, CleanUps
<1>4. EndOf(kind) = "encoding" => run.terminal
  BY <1>3 DEF EndOf, CleanUps
<1>5. ~run.garbled => Len(reports) <= 1
  <2>1. ~run.garbled => Len(run.reports) = 0
    BY <1>3
  <2> QED
    BY <2>1, ReportsType DEF Ends
<1>6. \A i \in DOMAIN reports : reports[i] = "finished" => i = 1 /\ run.received
  <2>1. CASE reports = run.reports
    BY <1>3, <2>1
  <2>2. CASE kind = "finished" /\ reports = Append(run.reports, "finished")
    <3>1. Len(run.reports) = 0
      BY <1>3, <2>2
    <3>2. reports \in Seq(Ends) /\ Len(reports) = 1
      BY <2>2, <3>1, ReportsType DEF Ends
    <3>3. DOMAIN reports = 1 .. 1
      BY <3>2, LenProperties
    <3> QED
      BY <1>3, <2>2, <3>3
  <2>3. CASE reports = Append(run.reports, "error")
    <3>1. /\ reports \in Seq(Ends) /\ Len(reports) = Len(run.reports) + 1
          /\ \A i \in 1 .. Len(run.reports) : reports[i] = run.reports[i]
          /\ reports[Len(run.reports) + 1] = "error"
      BY <2>3, ReportsType DEF Ends
    <3>2. DOMAIN reports = 1 .. (Len(run.reports) + 1)
      BY <3>1, LenProperties
    <3>3. \A i \in DOMAIN reports : i \in 1 .. Len(run.reports) \/ i = Len(run.reports) + 1
      BY <3>2, ReportsType
    <3> QED
      BY <1>3, <3>1, <3>3, ReportsType
  <2> QED
    BY <2>1, <2>2, <2>3 DEF Reported
<1> HIDE DEF after
<1>7. EndOf(kind) \in {"over", "encoding"}
  BY DEF EndOf
<1> QED
  BY <1>2, <1>4, <1>5, <1>6, <1>7 DEF Honest, Preparing, Uploading, after

-----------------------------------------------------------------------------
(* The clean-up of a run. *)

\* States in which all runs but r are honest.
SoundBut(s, r) ==
  /\ s \in States /\ r \in DOMAIN s.runs /\ Len(s.runs) <= MaxRuns
  /\ \A o \in DOMAIN s.runs : o # r => Honest(s.runs[o])

\* Before the first stop: r is the last run, and what the module and the process of it
\* are like when it is about to be cleaned up.
Leaving(s, r, kind) ==
  s.stops = <<>> =>
    /\ s.cancelled = {} /\ s.mod.stopping = NoJob
    /\ r = Len(s.runs)
    /\ \A o \in DOMAIN s.runs : o < r => s.runs[o].pc = "over" /\ s.runs[o].child # "alive"
    /\ s.dirs \subseteq {s.mod.workspace}
    /\ kind = "caught" => /\ s.runs[r].child = "none" /\ s.mod.handbrake = 0
                          /\ s.mod.starting = s.runs[r].job
    /\ kind # "caught" => /\ s.runs[r].child # "none" /\ s.mod.handbrake = r
    /\ kind = "closed" => s.runs[r].child = "closed" /\ s.mod.starting = NoJob

\* A run that is left in order may end its clean-up.
LEMMA AfterCleanUpSound ==
  ASSUME NEW s, NEW r, NEW kind \in CleanUps, SoundBut(s, r),
         Honest([s.runs[r] EXCEPT !.pc = kind]),
         Leaving(s, r, kind), s.stops = <<>> => s.dirs = {}
  PROVE  /\ AfterCleanUp(s, r, kind) \in Sound
         /\ Sequential(AfterCleanUp(s, r, kind))
<1> DEFINE run == s.runs[r]
           m == Left(s, kind)
<1>1. /\ s \in States /\ r \in DOMAIN s.runs /\ run \in RunRecords
      /\ s.cancelled \in SUBSET Jobs
  BY RunsOfState DEF SoundBut, States
<1>2. PICK C \in SUBSET s.cancelled, reports \in {run.reports, Append(run.reports, "error"),
                                                  Append(run.reports, "finished")} :
        /\ Reported(run, kind, reports)
        /\ AfterCleanUp(s, r, kind) = With(s, r, m, C, EndOf(kind), reports)
  BY <1>1, AfterCleanUpIs
<1> DEFINE t == With(s, r, m, C, EndOf(kind), reports)
           new == [run EXCEPT !.pc = EndOf(kind), !.reports = reports]
<1>3. Honest(new)
  BY <1>1, <1>2, ReportedIsHonest
<1>4. m \in Mods /\ C \in SUBSET Jobs /\ reports \in Seq(Ends) /\ EndOf(kind) \in Phases
  BY <1>1, <1>2, LeftType, ReportsType DEF Ends, EndOf, Phases
<1>5. /\ t \in States
      /\ t.mod = m /\ t.cancelled = C /\ t.stops = s.stops /\ t.dirs = s.dirs
      /\ Len(t.runs) = Len(s.runs) /\ DOMAIN t.runs = DOMAIN s.runs
      /\ t.runs[r] = new
      /\ \A o \in DOMAIN s.runs : o # r => t.runs[o] = s.runs[o]
  <2> HIDE DEF m
  <2>1. Changed(t, s, r, new, m, C, s.dirs)
    BY <1>1, <1>4, WithType
  <2> QED
    BY <2>1 DEF Changed
<1>6. /\ new.pc = EndOf(kind) /\ new.child = run.child /\ new.terminal = run.terminal
      /\ new.job = run.job
  BY <1>1 DEF RunRecords
<1>7. /\ Forgetful(m) /\ m.stopping = NoJob
      /\ m.handbrake = IF EndOf(kind) = "over" THEN 0 ELSE s.mod.handbrake
  BY <1>1, LeftType
<1> HIDE DEF t, m, new
<1>8. t \in Sound
  BY <1>3, <1>5 DEF Sound, SoundBut
<1>9. ASSUME s.stops = <<>>
      PROVE  Sequential(t)
  <2>1. /\ C = {} /\ r = Len(t.runs) /\ t.dirs = {} /\ t.runs # <<>>
    BY <1>1, <1>2, <1>5, <1>9, RunsOfState DEF Leaving
  <2>2. \A o \in DOMAIN t.runs : o < r => t.runs[o].pc = "over" /\ t.runs[o].child # "alive"
    BY <1>1, <1>5, <1>9, RunsOfState DEF Leaving
  <2>3. Tidy(t, r)
    <3>1. CASE kind = "caught"
      <4>1. new.pc = "over" /\ new.child = "none" /\ m.handbrake = 0
        BY <1>6, <1>7, <1>9, <3>1 DEF EndOf, Leaving
      <4> QED
        BY <1>5, <1>7, <2>1, <4>1 DEF Tidy, Preparing, CleanUps
    <3>2. CASE kind = "closed"
      <4>1. new.pc = "over" /\ new.child = "closed" /\ m.handbrake = 0
        BY <1>6, <1>7, <1>9, <3>2 DEF EndOf, Leaving
      <4> QED
        BY <1>5, <1>7, <2>1, <4>1 DEF Tidy, Preparing, CleanUps
    <3>3. CASE kind \notin {"caught", "closed"}
      <4>1. new.pc = "encoding" /\ new.child # "none" /\ m.handbrake = r
        BY <1>6, <1>7, <1>9, <3>3 DEF EndOf, Leaving
      <4>2. m.starting = NoJob
        BY <1>7 DEF Forgetful
      <4> QED
        BY <1>5, <1>7, <2>1, <4>1, <4>2 DEF Tidy, Preparing, CleanUps
    <3> QED
      BY <3>1, <3>2, <3>3
  <2> QED
    BY <1>5, <2>1, <2>2, <2>3 DEF Sequential
<1>10. Sequential(t)
  BY <1>5, <1>9 DEF Sequential
<1> QED
  BY <1>2, <1>8, <1>10 DEF t, m

\* A run that is left in order may start its clean-up.
LEMMA CleanUpSound ==
  ASSUME NEW s, NEW r, NEW kind \in CleanUps, SoundBut(s, r),
         Honest([s.runs[r] EXCEPT !.pc = kind]), Leaving(s, r, kind)
  PROVE  CleanUp(s, r, kind) \in Sound /\ Sequential(CleanUp(s, r, kind))
<1> DEFINE run == s.runs[r]
           new == [run EXCEPT !.pc = kind, !.dir = s.mod.workspace]
           t == [At(s, r, kind) EXCEPT !.runs[r].dir = s.mod.workspace]
<1>1. /\ s \in States /\ r \in DOMAIN s.runs /\ run \in RunRecords
      /\ s.cancelled \in SUBSET Jobs /\ s.dirs \in SUBSET Runs /\ s.mod \in Mods
  BY RunsOfState DEF SoundBut, States
<1>2. CASE s.mod.workspace = 0
  <2>1. s.stops = <<>> => s.dirs = {}
    BY <1>1, <1>2 DEF Leaving, Runs
  <2> QED
    BY <1>2, <2>1, AfterCleanUpSound DEF CleanUp
<1>3. CASE s.mod.workspace # 0
  <2>1. new \in RunRecords
    BY <1>1 DEF RunRecords, Mods, Phases
  <2>2. t = [mod |-> s.mod, cancelled |-> s.cancelled, runs |-> [s.runs EXCEPT ![r] = new],
             stops |-> s.stops, dirs |-> s.dirs]
    <3>1. s = [mod |-> s.mod, cancelled |-> s.cancelled, runs |-> s.runs,
               stops |-> s.stops, dirs |-> s.dirs]
      BY <1>1 DEF States
    <3>2. At(s, r, kind)
            = [mod |-> s.mod, cancelled |-> s.cancelled,
               runs |-> [s.runs EXCEPT ![r] = [run EXCEPT !.pc = kind]],
               stops |-> s.stops, dirs |-> s.dirs]
      BY <3>1 DEF At
    <3>3. At(s, r, kind).runs[r] = [run EXCEPT !.pc = kind]
      BY <1>1, <3>2, RunsOfState
    <3>4. [At(s, r, kind).runs EXCEPT ![r] = new] = [s.runs EXCEPT ![r] = new]
      <4>1. At(s, r, kind).runs = [s.runs EXCEPT ![r] = [run EXCEPT !.pc = kind]]
        BY <3>2
      <4> HIDE DEF new
      <4> QED
        BY <4>1
    <3>5. t = [At(s, r, kind) EXCEPT !.runs = [At(s, r, kind).runs EXCEPT ![r] = new]]
      BY <3>3
    <3> HIDE DEF t, new
    <3> QED
      BY <3>2, <3>4, <3>5
  <2>3. Changed(t, s, r, new, s.mod, s.cancelled, s.dirs)
    <3> HIDE DEF t, new
    <3> QED
      BY <1>1, <2>1, <2>2, ChangedType
  <2>4. CleanUp(s, r, kind) = t
    BY <1>3 DEF CleanUp
  <2>5. Honest(new)
    BY <1>1 DEF Honest, RunRecords
  <2>6. /\ new.pc = kind /\ new.child = run.child /\ new.dir = s.mod.workspace
        /\ new.job = run.job
    BY <1>1 DEF RunRecords
  <2> HIDE DEF t, new
  <2>7. t \in Sound
    BY <2>3, <2>5 DEF Changed, Sound, SoundBut
  <2>8. ASSUME s.stops = <<>>
        PROVE  Sequential(t)
    <3>1. t.cancelled = {} /\ r = Len(t.runs) /\ t.runs # <<>>
      BY <1>1, <2>3, <2>8, RunsOfState DEF Changed, Leaving
    <3>2. \A o \in DOMAIN t.runs : o < r => t.runs[o].pc = "over" /\ t.runs[o].child # "alive"
      BY <1>1, <2>3, <2>8, RunsOfState DEF Changed, Leaving
    <3>3. Tidy(t, r)
      BY <2>3, <2>6, <2>8 DEF Tidy, Changed, Leaving, Preparing, CleanUps
    <3> QED
      BY <2>3, <3>1, <3>2, <3>3 DEF Sequential, Changed
  <2>9. Sequential(t)
    BY <2>3, <2>8 DEF Sequential, Changed
  <2> QED
    BY <2>4, <2>7, <2>9
<1> QED
  BY <1>2, <1>3

-----------------------------------------------------------------------------
(* One step of one run. *)

Good(s) == s \in Sound /\ Sequential(s)

\* Before the first stop a run that is not over is the last one.
LEMMA LastRun ==
  ASSUME NEW s, Good(s), NEW r \in DOMAIN s.runs, s.stops = <<>>,
         s.runs[r].pc # "over" \/ s.runs[r].child = "alive"
  PROVE  /\ r = Len(s.runs) /\ Tidy(s, r) /\ s.cancelled = {}
         /\ \A o \in DOMAIN s.runs :
              o < r => s.runs[o].pc = "over" /\ s.runs[o].child # "alive"
<1>1. s \in States
  BY DEF Good, Sound
<1>2. s.runs # <<>> /\ r \in 1 .. Len(s.runs) /\ Len(s.runs) \in Nat
  BY <1>1, RunsOfState
<1> QED
  BY <1>2 DEF Good, Sequential

\* A run takes a step and keeps what is asked of it.
LEMMA RunStep ==
  ASSUME NEW s, Good(s), NEW r \in DOMAIN s.runs,
         s.runs[r].pc # "over" \/ s.runs[r].child = "alive",
         NEW run, NEW m, NEW C, NEW D, NEW t, Changed(t, s, r, run, m, C, D),
         Honest(run),
         s.stops = <<>> /\ Tidy(s, r) /\ s.cancelled = {} => C = {} /\ Tidy(t, r)
  PROVE  Good(t)
<1>1. s \in States
  BY DEF Good, Sound
<1>2. t \in Sound
  BY DEF Good, Sound, Changed
<1>3. ASSUME s.stops = <<>>
      PROVE  Sequential(t)
  <2>1. /\ r = Len(s.runs) /\ Tidy(s, r) /\ s.cancelled = {}
        /\ \A o \in DOMAIN s.runs :
             o < r => s.runs[o].pc = "over" /\ s.runs[o].child # "alive"
    BY <1>3, LastRun
  <2>2. C = {} /\ Tidy(t, r)
    BY <1>3, <2>1
  <2>3. r = Len(t.runs) /\ t.runs # <<>> /\ t.cancelled = {}
    BY <1>1, <2>1, <2>2, RunsOfState DEF Changed
  <2>4. \A o \in DOMAIN t.runs : o < r => t.runs[o].pc = "over" /\ t.runs[o].child # "alive"
    BY <1>1, <2>1, RunsOfState DEF Changed
  <2> QED
    BY <2>2, <2>3, <2>4 DEF Sequential
<1>4. Sequential(t)
  BY <1>3 DEF Sequential, Changed
<1> QED
  BY <1>2, <1>4 DEF Good

\* The same, for a step that is written as a record.
LEMMA RecordStep ==
  ASSUME NEW s, Good(s), NEW r \in DOMAIN s.runs,
         s.runs[r].pc # "over" \/ s.runs[r].child = "alive",
         NEW run \in RunRecords, NEW m \in Mods, NEW C \in SUBSET Jobs,
         NEW D \in SUBSET Runs, NEW t,
         t = [mod |-> m, cancelled |-> C, runs |-> [s.runs EXCEPT ![r] = run],
              stops |-> s.stops, dirs |-> D],
         Honest(run),
         ASSUME s.stops = <<>>, Tidy(s, r), s.cancelled = {}, t.runs[r] = run,
                t.mod = m, t.dirs = D
         PROVE  C = {} /\ Tidy(t, r)
  PROVE  Good(t)
<1>1. s \in States
  BY DEF Good, Sound
<1>2. Changed(t, s, r, run, m, C, D)
  BY <1>1, ChangedType
<1>3. t.runs[r] = run /\ t.mod = m /\ t.dirs = D
  BY <1>2 DEF Changed
<1>4. s.stops = <<>> /\ Tidy(s, r) /\ s.cancelled = {} => C = {} /\ Tidy(t, r)
  BY <1>3
<1> QED
  BY <1>2, <1>4, RunStep

\* A preparation that fails is cleaned up.
LEMMA CaughtSound ==
  ASSUME NEW s, Good(s), NEW r \in DOMAIN s.runs, s.runs[r].pc \in Preparing
  PROVE  Good(CleanUp(s, r, "caught"))
<1> DEFINE run == s.runs[r]
<1>1. s \in States /\ run \in RunRecords
  BY RunsOfState DEF Good, Sound
<1>2. SoundBut(s, r)
  BY <1>1 DEF SoundBut, Good, Sound
<1>3. Honest([run EXCEPT !.pc = "caught"])
  <2>1. Honest(run)
    BY DEF Good, Sound
  <2> QED
    BY <1>1, <2>1 DEF Honest, RunRecords, Preparing, Uploading
<1>4. Leaving(s, r, "caught")
  <2>1. run.pc # "over"
    BY DEF Preparing
  <2>2. s.stops = <<>> => /\ r = Len(s.runs) /\ Tidy(s, r) /\ s.cancelled = {}
                         /\ \A o \in DOMAIN s.runs :
                              o < r => s.runs[o].pc = "over" /\ s.runs[o].child # "alive"
    BY <2>1, LastRun
  <2> QED
    BY <2>2 DEF Leaving, Tidy
<1>5. "caught" \in CleanUps
  BY DEF CleanUps
<1> QED
  BY <1>2, <1>3, <1>4, <1>5, CleanUpSound DEF Good

\* The parts of a good state.
LEMMA GoodParts ==
  ASSUME NEW s, Good(s), NEW r \in DOMAIN s.runs
  PROVE  /\ s \in States /\ s.runs[r] \in RunRecords /\ Honest(s.runs[r])
         /\ s.mod \in Mods /\ s.cancelled \in SUBSET Jobs /\ s.dirs \in SUBSET Runs
         /\ r \in Runs
<1>1. s \in States /\ Honest(s.runs[r]) /\ Len(s.runs) <= MaxRuns
  BY DEF Good, Sound
<1> QED
  BY <1>1, RunsOfState, WorkerAssumption DEF States, Runs

\* At, as a record.
LEMMA AtIs ==
  ASSUME NEW s \in States, NEW r, NEW pc
  PROVE  At(s, r, pc)
           = [mod |-> s.mod, cancelled |-> s.cancelled,
              runs |-> [s.runs EXCEPT ![r] = [s.runs[r] EXCEPT !.pc = pc]],
              stops |-> s.stops, dirs |-> s.dirs]
<1>1. s = [mod |-> s.mod, cancelled |-> s.cancelled, runs |-> s.runs, stops |-> s.stops,
           dirs |-> s.dirs]
  BY DEF States
<1> QED
  BY <1>1 DEF At

\* States are records; what the updates of one component make of them.
State(m, C, q, S, D) == [mod |-> m, cancelled |-> C, runs |-> q, stops |-> S, dirs |-> D]

\* Each component is read and replaced on its own.
LEMMA StatePut ==
  ASSUME NEW m, NEW C, NEW q, NEW S, NEW D, NEW x
  PROVE  /\ State(m, C, q, S, D).mod = m /\ State(m, C, q, S, D).cancelled = C
         /\ State(m, C, q, S, D).runs = q /\ State(m, C, q, S, D).stops = S
         /\ State(m, C, q, S, D).dirs = D
         /\ [State(m, C, q, S, D) EXCEPT !.mod = x] = State(x, C, q, S, D)
         /\ [State(m, C, q, S, D) EXCEPT !.cancelled = x] = State(m, x, q, S, D)
         /\ [State(m, C, q, S, D) EXCEPT !.runs = x] = State(m, C, x, S, D)
         /\ [State(m, C, q, S, D) EXCEPT !.stops = x] = State(m, C, q, x, D)
         /\ [State(m, C, q, S, D) EXCEPT !.dirs = x] = State(m, C, q, S, x)
BY DEF State

\* A state is made of its components.
LEMMA StateIs ==
  ASSUME NEW s \in States
  PROVE  s = State(s.mod, s.cancelled, s.runs, s.stops, s.dirs)
BY DEF State, States

\* Run r at pc.
Moved(s, r, pc) == [s.runs EXCEPT ![r] = [s.runs[r] EXCEPT !.pc = pc]]

\* At, in these terms.
LEMMA AtMoved ==
  ASSUME NEW s \in States, NEW r, NEW pc
  PROVE  At(s, r, pc) = State(s.mod, s.cancelled, Moved(s, r, pc), s.stops, s.dirs)
BY AtIs DEF State, Moved


\* What a run keeps when it goes on with its preparation or with its upload.
MayMove(s, r, pc, m, D) ==
  /\ \/ s.runs[r].pc \in Preparing /\ pc \in Preparing
     \/ s.runs[r].pc \in Uploading /\ pc \in Uploading
  /\ pc = "delay" => s.runs[r].attempt < MaxAttempts
  /\ m \in Mods /\ m.starting = s.mod.starting /\ m.handbrake = s.mod.handbrake
  /\ m.stopping = s.mod.stopping
  /\ D \in SUBSET Runs
  /\ s.stops = <<>> /\ Tidy(s, r) =>
       D \subseteq {m.workspace} /\ (pc \in {"jobdata", "mkdtemp"} => m.workspace = 0)

\* Such a step is sound.
LEMMA Moves ==
  ASSUME NEW s, Good(s), NEW r \in DOMAIN s.runs, NEW pc, NEW m, NEW D,
         MayMove(s, r, pc, m, D)
  PROVE  Good(State(m, s.cancelled, Moved(s, r, pc), s.stops, D))
<1> DEFINE run == s.runs[r]
           new == [run EXCEPT !.pc = pc]
           t == [mod |-> m, cancelled |-> s.cancelled,
                 runs |-> [s.runs EXCEPT ![r] = new], stops |-> s.stops, dirs |-> D]
<1>1. /\ s \in States /\ run \in RunRecords /\ Honest(run) /\ s.cancelled \in SUBSET Jobs
  BY GoodParts
<1>2. new \in RunRecords /\ new.pc = pc /\ new.child = run.child /\ new.job = run.job
  BY <1>1 DEF MayMove, RunRecords, Phases, Preparing, Uploading
<1>3. Honest(new)
  BY <1>1 DEF MayMove, Honest, RunRecords, Uploading, Preparing
<1> HIDE DEF t, new
<1>4. ASSUME s.stops = <<>>, Tidy(s, r), s.cancelled = {}, t.runs[r] = new,
             t.mod = m, t.dirs = D
      PROVE  s.cancelled = {} /\ Tidy(t, r)
  BY <1>2, <1>4 DEF MayMove, Tidy, Preparing, Uploading, CleanUps
<1>5. run.pc # "over" /\ m \in Mods /\ D \in SUBSET Runs
  BY DEF MayMove, Preparing, Uploading
<1>6. t = [mod |-> m, cancelled |-> s.cancelled,
           runs |-> [s.runs EXCEPT ![r] = new], stops |-> s.stops, dirs |-> D]
  BY DEF t
<1>7. Good(t)
  BY <1>1, <1>2, <1>3, <1>4, <1>5, <1>6, RecordStep
<1> QED
  BY <1>7 DEF t, new, State, Moved

\* The answer to the request for the job.
LEMMA JobDataSound ==
  ASSUME NEW s, Good(s), NEW r \in DOMAIN s.runs, s.runs[r].pc = "jobdata"
  PROVE  Good([At(s, r, "mkdtemp") EXCEPT !.mod.loaded = TRUE,
                                          !.mod.current = s.runs[r].job])
<1> DEFINE n == [s.mod EXCEPT !.loaded = TRUE]
           m == [n EXCEPT !.current = s.runs[r].job]
<1>1. s \in States /\ s.runs[r] \in RunRecords /\ s.mod \in Mods /\ s.dirs \in SUBSET Runs
  BY GoodParts
<1>2. /\ m \in Mods /\ m.starting = s.mod.starting /\ m.handbrake = s.mod.handbrake
      /\ m.stopping = s.mod.stopping /\ m.workspace = s.mod.workspace
  BY <1>1 DEF Mods, RunRecords
<1>3. [At(s, r, "mkdtemp") EXCEPT !.mod.loaded = TRUE, !.mod.current = s.runs[r].job]
        = State(m, s.cancelled, Moved(s, r, "mkdtemp"), s.stops, s.dirs)
  <2>1. At(s, r, "mkdtemp")
          = State(s.mod, s.cancelled, Moved(s, r, "mkdtemp"), s.stops, s.dirs)
    BY <1>1, AtMoved
  <2> DEFINE q == Moved(s, r, "mkdtemp")
             a == At(s, r, "mkdtemp")
             b == State(n, s.cancelled, q, s.stops, s.dirs)
  <2>2. a.mod = s.mod
    BY <2>1, StatePut
  <2> HIDE DEF n, q
  <2>3. [a EXCEPT !.mod = n] = b
    BY <2>1, StatePut DEF q
  <2>4. b.mod = n
    BY StatePut
  <2> HIDE DEF m
  <2>5. [b EXCEPT !.mod = m] = State(m, s.cancelled, q, s.stops, s.dirs)
    BY StatePut
  <2> HIDE DEF a, b
  <2>6. [a EXCEPT !.mod.loaded = TRUE] = b
    BY <2>2, <2>3, Zenon DEF n
  <2>7. [b EXCEPT !.mod.current = s.runs[r].job]
          = State(m, s.cancelled, q, s.stops, s.dirs)
    BY <2>4, <2>5, Zenon DEF m
  <2> QED
    BY <2>6, <2>7, Zenon DEF a, q
<1>4. MayMove(s, r, "mkdtemp", m, s.dirs)
  BY <1>1, <1>2 DEF MayMove, Tidy, Preparing
<1> HIDE DEF m
<1>5. Good(State(m, s.cancelled, Moved(s, r, "mkdtemp"), s.stops, s.dirs))
  BY <1>4, Moves
<1> QED
  BY <1>3, <1>5, Zenon

\* The workspace directory is made.
LEMMA WorkspaceSound ==
  ASSUME NEW s, Good(s), NEW r \in DOMAIN s.runs, s.runs[r].pc = "mkdtemp"
  PROVE  Good([At(s, r, "inputlease") EXCEPT !.mod.workspace = r,
                                             !.dirs = @ \union {r}])
<1> DEFINE m == [s.mod EXCEPT !.workspace = r]
           D == s.dirs \union {r}
           q == Moved(s, r, "inputlease")
<1>1. s \in States /\ s.mod \in Mods /\ s.dirs \in SUBSET Runs /\ r \in Runs
  BY GoodParts
<1>2. /\ m \in Mods /\ m.starting = s.mod.starting /\ m.handbrake = s.mod.handbrake
      /\ m.stopping = s.mod.stopping /\ m.workspace = r
  BY <1>1, WorkerAssumption DEF Mods, Runs
<1>3. [At(s, r, "inputlease") EXCEPT !.mod.workspace = r, !.dirs = @ \union {r}]
        = State(m, s.cancelled, q, s.stops, D)
  <2>1. At(s, r, "inputlease") = State(s.mod, s.cancelled, q, s.stops, s.dirs)
    BY <1>1, AtMoved
  <2> DEFINE a == At(s, r, "inputlease")
  <2>2. a.mod = s.mod
    BY <2>1, StatePut
  <2> HIDE DEF m, D, q
  <2>3. [a EXCEPT !.mod = m] = State(m, s.cancelled, q, s.stops, s.dirs)
    BY <2>1, StatePut
  <2>4. [State(m, s.cancelled, q, s.stops, s.dirs) EXCEPT !.dirs = D]
          = State(m, s.cancelled, q, s.stops, D)
    BY StatePut
  <2>5. State(m, s.cancelled, q, s.stops, s.dirs).dirs = s.dirs
    BY StatePut
  <2> HIDE DEF a
  <2>6. [a EXCEPT !.mod.workspace = r] = State(m, s.cancelled, q, s.stops, s.dirs)
    BY <2>2, <2>3, Zenon DEF m
  <2> QED
    BY <2>4, <2>5, <2>6, Zenon DEF a, D
<1>4. MayMove(s, r, "inputlease", m, D)
  BY <1>1, <1>2 DEF MayMove, Tidy, Preparing, Runs
<1> HIDE DEF m, D
<1>5. Good(State(m, s.cancelled, q, s.stops, D))
  BY <1>4, Moves
<1> QED
  BY <1>3, <1>5, Zenon

\* A transfer starts, or ends in the state of the caller's choice.
LEMMA TransferSound ==
  ASSUME NEW s, Good(s), NEW r \in DOMAIN s.runs, NEW x \in 0 .. MaxRuns, NEW pc,
         \/ s.runs[r].pc \in Preparing /\ pc \in Preparing \ {"jobdata", "mkdtemp"}
         \/ s.runs[r].pc \in Uploading /\ pc \in Uploading \ {"delay"}
  PROVE  Good([At(s, r, pc) EXCEPT !.mod.transfer = x])
<1> DEFINE m == [s.mod EXCEPT !.transfer = x]
<1>1. s \in States /\ s.mod \in Mods /\ s.dirs \in SUBSET Runs
  BY GoodParts
<1>2. /\ m \in Mods /\ m.starting = s.mod.starting /\ m.handbrake = s.mod.handbrake
      /\ m.stopping = s.mod.stopping /\ m.workspace = s.mod.workspace
  BY <1>1 DEF Mods
<1>3. [At(s, r, pc) EXCEPT !.mod.transfer = x]
        = State(m, s.cancelled, Moved(s, r, pc), s.stops, s.dirs)
  <2>1. At(s, r, pc) = State(s.mod, s.cancelled, Moved(s, r, pc), s.stops, s.dirs)
    BY <1>1, AtMoved
  <2>2. At(s, r, pc).mod = s.mod
    BY <2>1, StatePut
  <2> HIDE DEF m
  <2>3. [At(s, r, pc) EXCEPT !.mod = m]
          = State(m, s.cancelled, Moved(s, r, pc), s.stops, s.dirs)
    BY <2>1, StatePut
  <2> QED
    BY <2>2, <2>3, Zenon DEF m
<1>4. MayMove(s, r, pc, m, s.dirs)
  BY <1>1, <1>2 DEF MayMove, Tidy, Preparing, Uploading
<1> HIDE DEF m
<1>5. Good(State(m, s.cancelled, Moved(s, r, pc), s.stops, s.dirs))
  BY <1>4, Moves
<1> QED
  BY <1>3, <1>5, Zenon

\* A run goes on and nothing else changes.
LEMMA AtSound ==
  ASSUME NEW s, Good(s), NEW r \in DOMAIN s.runs, NEW pc,
         \/ s.runs[r].pc \in Preparing /\ pc \in Preparing \ {"jobdata", "mkdtemp"}
         \/ s.runs[r].pc \in Uploading /\ pc \in Uploading,
         pc = "delay" => s.runs[r].attempt < MaxAttempts
  PROVE  Good(At(s, r, pc))
<1>1. s \in States /\ s.mod \in Mods /\ s.dirs \in SUBSET Runs
  BY GoodParts
<1>2. At(s, r, pc) = State(s.mod, s.cancelled, Moved(s, r, pc), s.stops, s.dirs)
  BY <1>1, AtMoved
<1>3. MayMove(s, r, pc, s.mod, s.dirs)
  BY <1>1 DEF MayMove, Tidy, Preparing, Uploading
<1>4. Good(State(s.mod, s.cancelled, Moved(s, r, pc), s.stops, s.dirs))
  BY <1>3, Moves
<1> QED
  BY <1>2, <1>4

\* The preset is about to be written.
LEMMA PresetSound ==
  ASSUME NEW s, Good(s), NEW r \in DOMAIN s.runs, s.runs[r].pc = "preset"
  PROVE  Good([At(s, r, "write") EXCEPT !.mod.preset = s.mod.workspace])
<1> DEFINE m == [s.mod EXCEPT !.preset = s.mod.workspace]
           q == Moved(s, r, "write")
           a == At(s, r, "write")
<1>1. s \in States /\ s.mod \in Mods /\ s.dirs \in SUBSET Runs
  BY GoodParts
<1>2. /\ m \in Mods /\ m.starting = s.mod.starting /\ m.handbrake = s.mod.handbrake
      /\ m.stopping = s.mod.stopping /\ m.workspace = s.mod.workspace
  BY <1>1 DEF Mods
<1>3. [a EXCEPT !.mod.preset = s.mod.workspace] = State(m, s.cancelled, q, s.stops, s.dirs)
  <2>1. a = State(s.mod, s.cancelled, q, s.stops, s.dirs)
    BY <1>1, AtMoved
  <2>2. a.mod = s.mod
    BY <2>1, StatePut
  <2> HIDE DEF m, q
  <2>3. [a EXCEPT !.mod = m] = State(m, s.cancelled, q, s.stops, s.dirs)
    BY <2>1, StatePut
  <2> HIDE DEF a
  <2> QED
    BY <2>2, <2>3, Zenon DEF m
<1>4. MayMove(s, r, "write", m, s.dirs)
  BY <1>1, <1>2 DEF MayMove, Tidy, Preparing
<1> HIDE DEF m
<1>5. Good(State(m, s.cancelled, q, s.stops, s.dirs))
  BY <1>4, Moves
<1> QED
  BY <1>3, <1>5, Zenon

\* A transfer has ended; its run decides afterwards.
LEMMA ForgetTransferSound ==
  ASSUME NEW s, Good(s), NEW r \in DOMAIN s.runs
  PROVE  /\ Good([s EXCEPT !.mod.transfer = 0])
         /\ [s EXCEPT !.mod.transfer = 0].runs = s.runs
<1> DEFINE m == [s.mod EXCEPT !.transfer = 0]
           t == [s EXCEPT !.mod.transfer = 0]
<1>1. /\ s \in States /\ s.mod \in Mods /\ s.runs # <<>>
      /\ s \in Sound /\ Sequential(s)
  <2>1. s \in States /\ s.mod \in Mods
    BY GoodParts
  <2>2. s.runs # <<>>
    BY <2>1, RunsOfState
  <2> QED
    BY <2>1, <2>2 DEF Good
<1>2. /\ m \in Mods /\ m.starting = s.mod.starting /\ m.handbrake = s.mod.handbrake
      /\ m.stopping = s.mod.stopping /\ m.workspace = s.mod.workspace
      /\ m.current = s.mod.current
  BY <1>1, WorkerAssumption DEF Mods
<1>3. t = State(m, s.cancelled, s.runs, s.stops, s.dirs)
  <2>1. s = State(s.mod, s.cancelled, s.runs, s.stops, s.dirs)
    BY <1>1, StateIs
  <2> HIDE DEF m
  <2>2. [s EXCEPT !.mod = m] = State(m, s.cancelled, s.runs, s.stops, s.dirs)
    BY <2>1, StatePut
  <2> QED
    BY <2>2, Zenon DEF m
<1> HIDE DEF m, t
<1>4. /\ t \in States /\ t.mod = m /\ t.runs = s.runs /\ t.stops = s.stops
      /\ t.cancelled = s.cancelled /\ t.dirs = s.dirs
  BY <1>1, <1>2, <1>3 DEF State, States
<1>5. t \in Sound
  BY <1>1, <1>4 DEF Sound
<1>6. Tidy(s, Len(s.runs)) => Tidy(t, Len(s.runs))
  BY <1>2, <1>4 DEF Tidy, Forgetful
<1>7. Sequential(t)
  BY <1>1, <1>4, <1>6 DEF Sequential
<1> QED
  BY <1>4, <1>5, <1>7 DEF Good, t

\* The spawn: the run owns the only process.
LEMMA SpawnSound ==
  ASSUME NEW s, Good(s), NEW r \in DOMAIN s.runs, s.runs[r].pc = "write"
  PROVE  Good(Settle([At(s, r, "encoding") EXCEPT !.runs[r].child = "alive",
                                                  !.mod.handbrake = r,
                                                  !.mod.starting = NoJob], r))
<1> DEFINE run == s.runs[r]
           new == [run EXCEPT !.pc = "encoding", !.child = "alive"]
           q == [s.runs EXCEPT ![r] = new]
           n == [s.mod EXCEPT !.handbrake = r]
           m == [n EXCEPT !.starting = NoJob]
           a == At(s, r, "encoding")
           b == [a EXCEPT !.runs[r].child = "alive"]
           c == [b EXCEPT !.mod.handbrake = r]
           d == [c EXCEPT !.mod.starting = NoJob]
           C == s.cancelled \ {new.job}
<1>1. /\ s \in States /\ run \in RunRecords /\ Honest(run) /\ s.mod \in Mods
      /\ s.cancelled \in SUBSET Jobs /\ s.dirs \in SUBSET Runs /\ r \in Runs
  BY GoodParts
<1>2. /\ new \in RunRecords /\ new.pc = "encoding" /\ new.child = "alive"
      /\ new.job = run.job /\ new.terminal = run.terminal
  BY <1>1 DEF RunRecords, Phases
<1>3. /\ m \in Mods /\ m.starting = NoJob /\ m.handbrake = r
      /\ m.stopping = s.mod.stopping /\ m.workspace = s.mod.workspace
      /\ m.current = s.mod.current
  <2>1. /\ n \in Mods /\ n.handbrake = r /\ n.stopping = s.mod.stopping
        /\ n.workspace = s.mod.workspace /\ n.current = s.mod.current
    BY <1>1, WorkerAssumption DEF Mods, Runs
  <2> HIDE DEF n
  <2> QED
    BY <2>1 DEF Mods
<1>4. b = State(s.mod, s.cancelled, q, s.stops, s.dirs)
  <2>1. a = State(s.mod, s.cancelled, Moved(s, r, "encoding"), s.stops, s.dirs)
    BY <1>1, AtMoved
  <2>2. a.runs = Moved(s, r, "encoding")
    BY <2>1, StatePut
  <2>3. a.runs[r] = [run EXCEPT !.pc = "encoding"]
    BY <2>2 DEF Moved
  <2>4. [a.runs EXCEPT ![r] = new] = q
    <3> HIDE DEF new
    <3> QED
      BY <2>2 DEF Moved
  <2>5. [a EXCEPT !.runs = q] = State(s.mod, s.cancelled, q, s.stops, s.dirs)
    <3> HIDE DEF q, a
    <3> QED
      BY <2>1, StatePut
  <2>6. [a.runs[r] EXCEPT !.child = "alive"] = new
    BY <2>3
  <2> HIDE DEF a, q, new
  <2> QED
    BY <2>4, <2>5, <2>6, Zenon
<1>5. c = State(n, s.cancelled, q, s.stops, s.dirs)
  <2> HIDE DEF b, n, q
  <2>1. b.mod = s.mod
    BY <1>4, StatePut
  <2>2. [b EXCEPT !.mod = n] = State(n, s.cancelled, q, s.stops, s.dirs)
    BY <1>4, StatePut
  <2> QED
    BY <2>1, <2>2, Zenon DEF n
<1>6. d = State(m, s.cancelled, q, s.stops, s.dirs)
  <2> HIDE DEF c, n, m, q
  <2>1. c.mod = n
    BY <1>5, StatePut
  <2>2. [c EXCEPT !.mod = m] = State(m, s.cancelled, q, s.stops, s.dirs)
    BY <1>5, StatePut
  <2> QED
    BY <2>1, <2>2, Zenon DEF m
<1>7. Settle(d, r) = State(m, C, q, s.stops, s.dirs)
  <2> HIDE DEF d, m, q, new
  <2>1. d.cancelled = s.cancelled /\ d.runs = q
    BY <1>6, StatePut
  <2>2. q[r] = new
    BY DEF q
  <2>3. [d EXCEPT !.cancelled = C] = State(m, C, q, s.stops, s.dirs)
    <3> HIDE DEF C
    <3> QED
      BY <1>6, StatePut
  <2> QED
    BY <2>1, <2>2, <2>3, Zenon DEF Settle
<1>8. Honest(new)
  BY <1>1 DEF Honest, RunRecords, Preparing, Uploading
<1> DEFINE t == State(m, C, q, s.stops, s.dirs)
<1>9. C \in SUBSET Jobs /\ (s.cancelled = {} => C = {})
  BY <1>1
<1>10. t = [mod |-> m, cancelled |-> C, runs |-> [s.runs EXCEPT ![r] = new],
            stops |-> s.stops, dirs |-> s.dirs]
  BY DEF State
<1> HIDE DEF t, m, new, C
<1>11. ASSUME s.stops = <<>>, Tidy(s, r), s.cancelled = {}, t.runs[r] = new,
              t.mod = m, t.dirs = s.dirs
       PROVE  C = {} /\ Tidy(t, r)
  <2>1. ~run.terminal
    BY <1>1 DEF Honest, Preparing
  <2> QED
    BY <1>2, <1>3, <1>9, <1>11, <2>1 DEF Tidy, Preparing, CleanUps
<1>12. Good(t)
  BY <1>1, <1>2, <1>3, <1>8, <1>9, <1>10, <1>11, RecordStep
<1> QED
  BY <1>7, <1>12, Zenon DEF t

\* A step into a good state keeps the invariant.
LEMMA BecomeSound ==
  ASSUME NEW s, Good(s), Become(s)
  PROVE  IInv'
<1>1. s = State(mod', cancelled', runs', stops', dirs')
  BY StateIs DEF Good, Sound, Become
<1>2. Worker' = s
  BY <1>1 DEF Worker, State
<1> QED
  BY <1>2 DEF IInv, Good

\* Every step of the preparation, failures included.
LEMMA PreparationSound ==
  ASSUME IInv, NEW r \in DOMAIN runs, Preparation(r)
  PROVE  IInv'
<1> DEFINE s == Worker
<1>1. /\ Good(s) /\ s.runs = runs /\ s.mod = mod /\ r \in DOMAIN s.runs
  BY DEF IInv, Good, Worker
<1>2. PICK ok \in BOOLEAN :
        \/ JobDataAnswered(r, ok)
        \/ WorkspaceMade(r, ok)
        \/ InputLeaseAnswered(r, ok)
        \/ DownloadEnds(r, ok)
        \/ PresetAnswered(r, ok)
        \/ PresetWritten(r, ok)
  BY DEF Preparation
<1>3. s.runs[r].pc \in Preparing => Good(CleanUp(s, r, "caught"))
  BY <1>1, CaughtSound
<1> HIDE DEF s
<1>4. CASE JobDataAnswered(r, ok)
  <2>1. s.runs[r].pc = "jobdata"
    BY <1>1, <1>4 DEF JobDataAnswered, Awaits
  <2>2. Good([At(s, r, "mkdtemp") EXCEPT !.mod.loaded = TRUE, !.mod.current = s.runs[r].job])
    BY <1>1, <2>1, JobDataSound
  <2>3. Good(CleanUp(s, r, "caught"))
    BY <1>3, <2>1 DEF Preparing
  <2>4. \/ Become([At(s, r, "mkdtemp") EXCEPT !.mod.loaded = TRUE,
                                              !.mod.current = s.runs[r].job])
        \/ Become(CleanUp(s, r, "caught"))
    <3>1. runs = s.runs
      BY <1>1
    <3> QED
      BY <1>4, <3>1, Zenon DEF JobDataAnswered, s
  <2> QED
    BY <2>2, <2>3, <2>4, BecomeSound
<1>5. CASE WorkspaceMade(r, ok)
  <2>1. s.runs[r].pc = "mkdtemp"
    BY <1>1, <1>5 DEF WorkspaceMade, Awaits
  <2>2. Good([At(s, r, "inputlease") EXCEPT !.mod.workspace = r, !.dirs = @ \union {r}])
    BY <1>1, <2>1, WorkspaceSound
  <2>3. Good(CleanUp(s, r, "caught"))
    BY <1>3, <2>1 DEF Preparing
  <2>4. \/ Become([At(s, r, "inputlease") EXCEPT !.mod.workspace = r,
                                                 !.dirs = @ \union {r}])
        \/ Become(CleanUp(s, r, "caught"))
    BY <1>5, Zenon DEF WorkspaceMade, s
  <2> QED
    BY <2>2, <2>3, <2>4, BecomeSound
<1>6. CASE InputLeaseAnswered(r, ok)
  <2>1. s.runs[r].pc = "inputlease"
    BY <1>1, <1>6 DEF InputLeaseAnswered, Awaits
  <2>2. r \in 0 .. MaxRuns /\ "download" \in Preparing \ {"jobdata", "mkdtemp"}
    BY <1>1, GoodParts, WorkerAssumption DEF Preparing, Runs
  <2>3. Good([At(s, r, "download") EXCEPT !.mod.transfer = r])
    BY <1>1, <2>1, <2>2, TransferSound DEF Preparing
  <2>4. Good(CleanUp(s, r, "caught"))
    BY <1>3, <2>1 DEF Preparing
  <2>5. \/ Become([At(s, r, "download") EXCEPT !.mod.transfer = r])
        \/ Become(CleanUp(s, r, "caught"))
    BY <1>6, Zenon DEF InputLeaseAnswered, s
  <2> QED
    BY <2>3, <2>4, <2>5, BecomeSound
<1>7. CASE DownloadEnds(r, ok)
  <2> DEFINE t == [s EXCEPT !.mod.transfer = 0]
  <2>1. s.runs[r].pc = "download"
    BY <1>1, <1>7 DEF DownloadEnds, Awaits
  <2>2. Good(t) /\ t.runs = s.runs
    BY <1>1, ForgetTransferSound
  <2>3. \/ Become(At(t, r, "preset"))
        \/ Become(CleanUp(t, r, "caught"))
    BY <1>7, Zenon DEF DownloadEnds, s
  <2> HIDE DEF t
  <2>4. Good(CleanUp(t, r, "caught"))
    BY <1>1, <2>1, <2>2, CaughtSound DEF Preparing
  <2>5. Good(At(t, r, "preset"))
    BY <1>1, <2>1, <2>2, AtSound DEF Preparing
  <2> QED
    BY <2>3, <2>4, <2>5, BecomeSound
<1>8. CASE PresetAnswered(r, ok)
  <2>1. s.runs[r].pc = "preset"
    BY <1>1, <1>8 DEF PresetAnswered, Awaits
  <2>2. Good([At(s, r, "write") EXCEPT !.mod.preset = s.mod.workspace])
    BY <1>1, <2>1, PresetSound
  <2>3. Good(CleanUp(s, r, "caught"))
    BY <1>3, <2>1 DEF Preparing
  <2>4. \/ Become([At(s, r, "write") EXCEPT !.mod.preset = s.mod.workspace])
        \/ Become(CleanUp(s, r, "caught"))
    <3>1. mod = s.mod
      BY <1>1
    <3> QED
      BY <1>8, <3>1, Zenon DEF PresetAnswered, s
  <2> QED
    BY <2>2, <2>3, <2>4, BecomeSound
<1>9. CASE PresetWritten(r, ok)
  <2>1. s.runs[r].pc = "write"
    BY <1>1, <1>9 DEF PresetWritten, Awaits
  <2>2. Good(Settle([At(s, r, "encoding") EXCEPT !.runs[r].child = "alive",
                                                 !.mod.handbrake = r,
                                                 !.mod.starting = NoJob], r))
    BY <1>1, <2>1, SpawnSound
  <2>3. Good(CleanUp(s, r, "caught"))
    BY <1>3, <2>1 DEF Preparing
  <2>4. \/ Become(Settle([At(s, r, "encoding") EXCEPT !.runs[r].child = "alive",
                                                      !.mod.handbrake = r,
                                                      !.mod.starting = NoJob], r))
        \/ Become(CleanUp(s, r, "caught"))
    BY <1>9, Zenon DEF PresetWritten, s
  <2> QED
    BY <2>2, <2>3, <2>4, BecomeSound
<1> QED
  BY <1>2, <1>4, <1>5, <1>6, <1>7, <1>8, <1>9

-----------------------------------------------------------------------------
(* The output and the end of HandBrakeCLI. *)

\* One record of a run is replaced.
LEMMA PutRunState ==
  ASSUME NEW s \in States, NEW r \in DOMAIN s.runs, NEW new \in RunRecords
  PROVE  Changed([s EXCEPT !.runs = [s.runs EXCEPT ![r] = new]], s, r, new,
                 s.mod, s.cancelled, s.dirs)
<1> DEFINE q == [s.runs EXCEPT ![r] = new]
           t == [s EXCEPT !.runs = q]
<1>1. s.mod \in Mods /\ s.cancelled \in SUBSET Jobs /\ s.dirs \in SUBSET Runs
  BY DEF States
<1>2. t = State(s.mod, s.cancelled, q, s.stops, s.dirs)
  <2> HIDE DEF q
  <2> QED
    BY StateIs, StatePut
<1>3. t = [mod |-> s.mod, cancelled |-> s.cancelled, runs |-> [s.runs EXCEPT ![r] = new],
           stops |-> s.stops, dirs |-> s.dirs]
  BY <1>2 DEF State
<1> HIDE DEF t
<1>4. Changed(t, s, r, new, s.mod, s.cancelled, s.dirs)
  BY <1>1, <1>3, ChangedType
<1> QED
  BY <1>4 DEF t

\* At replaces the record of one run.
LEMMA AtChanged ==
  ASSUME NEW s \in States, NEW r \in DOMAIN s.runs, NEW pc \in Phases
  PROVE  Changed(At(s, r, pc), s, r, [s.runs[r] EXCEPT !.pc = pc],
                 s.mod, s.cancelled, s.dirs)
<1>1. [s.runs[r] EXCEPT !.pc = pc] \in RunRecords
  BY RunsOfState DEF RunRecords
<1> QED
  BY <1>1, PutRunState DEF At

\* A run whose output is over may be cleaned up, possibly after a change of its own.
MayLeave(s, r, run, kind) ==
  /\ s.runs[r].pc \in Uploading \union {"encoding"}
  /\ kind \in {"failed", "garbled", "finished"} /\ run \in RunRecords
  /\ run.terminal /\ run.child = s.runs[r].child /\ run.job = s.runs[r].job
  /\ run.reports = s.runs[r].reports /\ run.received = s.runs[r].received
  /\ run.reports = <<>> \/ (kind = "garbled" /\ run.garbled)
  /\ kind = "finished" => run.received

\* Such a run is left in order.
LEMMA LeaveSound ==
  ASSUME NEW s, Good(s), NEW r \in DOMAIN s.runs, NEW kind, NEW run, NEW t,
         MayLeave(s, r, run, kind),
         Changed(t, s, r, run, s.mod, s.cancelled, s.dirs)
  PROVE  Good(CleanUp(t, r, kind))
<1> USE DEF MayLeave
<1>1. s \in States /\ s.runs[r] \in RunRecords /\ Honest(s.runs[r])
  BY GoodParts
<1>2. SoundBut(t, r)
  BY <1>1 DEF SoundBut, Good, Sound, Changed
<1>3. Honest([run EXCEPT !.pc = kind])
  <2> DEFINE new == [run EXCEPT !.pc = kind]
  <2>1. /\ new.pc = kind /\ new.terminal /\ new.garbled = run.garbled
        /\ new.received = run.received /\ new.reports = run.reports
    BY DEF RunRecords
  <2>2. \A i \in DOMAIN run.reports : run.reports[i] = "finished" => i = 1 /\ run.received
    BY <1>1 DEF Honest
  <2>3. run.reports = <<>> => Len(run.reports) <= 1
    OBVIOUS
  <2> HIDE DEF new
  <2>4. Honest(new)
    BY <2>1, <2>2, <2>3 DEF Honest, Preparing, Uploading
  <2> QED
    BY <2>4 DEF new
<1>4. Leaving(t, r, kind)
  <2>1. s.runs[r].pc \notin Preparing \union {"caught", "over"}
    BY DEF Preparing, Uploading
  <2>2. s.stops = <<>> => /\ r = Len(s.runs) /\ Tidy(s, r) /\ s.cancelled = {}
                         /\ \A o \in DOMAIN s.runs :
                              o < r => s.runs[o].pc = "over" /\ s.runs[o].child # "alive"
    BY <2>1, LastRun
  <2>3. \A o \in DOMAIN s.runs : o < r => t.runs[o] = s.runs[o]
    BY <1>1, RunsOfState DEF Changed
  <2> QED
    BY <2>1, <2>2, <2>3 DEF Leaving, Tidy, Changed
<1>5. kind \in CleanUps
  BY DEF CleanUps
<1>6. t.runs[r] = run
  BY DEF Changed
<1> QED
  BY <1>2, <1>3, <1>4, <1>5, <1>6, CleanUpSound DEF Good

\* The WORKDONE record, with and without an error.
LEMMA WorkDoneSound ==
  ASSUME IInv, NEW r \in DOMAIN runs, NEW error \in BOOLEAN, WorkDone(r, error)
  PROVE  IInv'
<1> DEFINE s == Worker
           run == s.runs[r]
           new == [run EXCEPT !.terminal = TRUE]
           t == [s EXCEPT !.runs[r].terminal = TRUE]
<1>1. /\ Good(s) /\ s.runs = runs /\ s.mod = mod /\ r \in DOMAIN s.runs
  BY DEF IInv, Good, Worker
<1>2. run.pc = "encoding" /\ run.child # "none" /\ ~run.terminal
  BY <1>1 DEF WorkDone, Awaits
<1> HIDE DEF s
<1>3. s \in States /\ run \in RunRecords /\ Honest(run)
  BY <1>1, GoodParts
<1>4. new \in RunRecords
  BY <1>3 DEF RunRecords
<1>5. Changed(t, s, r, new, s.mod, s.cancelled, s.dirs)
  BY <1>1, <1>3, <1>4, PutRunState
<1>6. /\ new.terminal /\ new.child = run.child /\ new.pc = "encoding"
      /\ new.received = run.received /\ new.reports = <<>> /\ run.reports = <<>>
      /\ new.job = run.job /\ new.garbled = run.garbled
  BY <1>2, <1>3 DEF RunRecords, Honest
<1> DEFINE c == [At(t, r, "stat") EXCEPT !.runs[r].file = s.mod.workspace]
           d == [c EXCEPT !.runs[r].attempt = 1]
<1>7. \/ Become(d) /\ s.mod.workspace # 0
      \/ Become(CleanUp(t, r, "failed"))
  <2>1. mod = s.mod
    BY <1>1
  <2> QED
    BY <2>1, Zenon DEF WorkDone, s
<1> HIDE DEF t, new
<1>8. Good(CleanUp(t, r, "failed"))
  <2>1. MayLeave(s, r, new, "failed")
    BY <1>2, <1>4, <1>6 DEF MayLeave
  <2> QED
    BY <1>1, <1>5, <2>1, LeaveSound
<1>9. Good(d)
  <2> DEFINE a == At(t, r, "stat")
             runA == [new EXCEPT !.pc = "stat"]
             runC == [runA EXCEPT !.file = s.mod.workspace]
             runD == [runC EXCEPT !.attempt = 1]
  <2>1. t \in States /\ t.runs[r] = new /\ r \in DOMAIN t.runs
    BY <1>1, <1>5 DEF Changed
  <2>2. Changed(a, t, r, runA, t.mod, t.cancelled, t.dirs) /\ runA \in RunRecords
    BY <1>4, <2>1, AtChanged DEF Phases, RunRecords
  <2>3. a \in States /\ a.runs[r] = runA /\ r \in DOMAIN a.runs
    BY <2>1, <2>2 DEF Changed
  <2>4. /\ runA.terminal /\ runA.child = run.child /\ runA.pc = "stat"
        /\ runA.reports = <<>> /\ runA.job = run.job
    BY <1>4, <1>6 DEF RunRecords
  <2> HIDE DEF a, runA
  <2>5. runC \in RunRecords
    BY <1>3, <2>2 DEF RunRecords, States, Mods
  <2>6. /\ runC.terminal /\ runC.child = run.child /\ runC.pc = "stat"
        /\ runC.reports = <<>> /\ runC.job = run.job
    BY <2>2, <2>4 DEF RunRecords
  <2>7. Changed(c, a, r, runC, a.mod, a.cancelled, a.dirs)
    BY <2>3, <2>5, PutRunState DEF a
  <2>8. c \in States /\ c.runs[r] = runC /\ r \in DOMAIN c.runs
    BY <2>3, <2>7 DEF Changed
  <2> HIDE DEF c, runC
  <2>9. runD \in RunRecords
    BY <2>5, WorkerAssumption DEF RunRecords
  <2>10. /\ runD.terminal /\ runD.child = run.child /\ runD.pc = "stat"
         /\ runD.reports = <<>> /\ runD.job = run.job
    BY <2>5, <2>6 DEF RunRecords
  <2>11. Changed(d, c, r, runD, c.mod, c.cancelled, c.dirs)
    BY <2>8, <2>9, PutRunState
  <2> HIDE DEF d, runD
  <2>12. Changed(d, s, r, runD, s.mod, s.cancelled, s.dirs)
    BY <1>1, <1>5, <2>2, <2>7, <2>11 DEF Changed
  <2>13. Honest(runD)
    <3>1. DOMAIN runD.reports = {} /\ Len(runD.reports) = 0
      BY <2>10
    <3> QED
      BY <2>10, <3>1 DEF Honest, Preparing, Uploading
  <2>14. s.stops = <<>> /\ Tidy(s, r) /\ s.cancelled = {} => s.cancelled = {} /\ Tidy(d, r)
    BY <1>2, <2>10, <2>12 DEF Tidy, Changed, Preparing, CleanUps
  <2> QED
    BY <1>1, <1>2, <2>12, <2>13, <2>14, RunStep
<1> QED
  BY <1>7, <1>8, <1>9, BecomeSound

\* A record that cannot be read.
LEMMA GarbledOutputSound ==
  ASSUME IInv, NEW r \in DOMAIN runs, GarbledOutput(r)
  PROVE  IInv'
<1> DEFINE s == Worker
           run == s.runs[r]
           runA == [run EXCEPT !.terminal = TRUE]
           runB == [runA EXCEPT !.garbled = TRUE]
           a == [s EXCEPT !.runs[r].terminal = TRUE]
           b == [a EXCEPT !.runs[r].garbled = TRUE]
<1>1. /\ Good(s) /\ s.runs = runs /\ r \in DOMAIN s.runs
  BY DEF IInv, Good, Worker
<1>2. run.pc = "encoding" /\ run.child # "none"
  BY <1>1 DEF GarbledOutput, Awaits
<1>3. Become(CleanUp(b, r, "garbled"))
  BY Zenon DEF GarbledOutput
<1> HIDE DEF s
<1>4. s \in States /\ run \in RunRecords
  BY <1>1, GoodParts
<1>5. /\ runA \in RunRecords /\ runA.terminal /\ runA.child = run.child
      /\ runA.pc = "encoding" /\ runA.received = run.received
      /\ runA.reports = run.reports /\ runA.job = run.job
  BY <1>2, <1>4 DEF RunRecords
<1>6. Changed(a, s, r, runA, s.mod, s.cancelled, s.dirs)
  BY <1>1, <1>4, <1>5, PutRunState
<1> HIDE DEF runA, a
<1>7. /\ runB \in RunRecords /\ runB.terminal /\ runB.child = run.child
      /\ runB.pc = "encoding" /\ runB.received = run.received
      /\ runB.reports = run.reports /\ runB.job = run.job /\ runB.garbled
  BY <1>5 DEF RunRecords
<1>8. a \in States /\ a.runs[r] = runA /\ r \in DOMAIN a.runs
  BY <1>1, <1>6 DEF Changed
<1>9. Changed(b, a, r, runB, a.mod, a.cancelled, a.dirs)
  BY <1>7, <1>8, PutRunState
<1> HIDE DEF runB, b
<1>10. Changed(b, s, r, runB, s.mod, s.cancelled, s.dirs)
  BY <1>1, <1>6, <1>9 DEF Changed
<1>11. Good(CleanUp(b, r, "garbled"))
  <2>1. MayLeave(s, r, runB, "garbled")
    BY <1>2, <1>7 DEF MayLeave
  <2> QED
    BY <1>1, <1>10, <2>1, LeaveSound
<1> QED
  BY <1>3, <1>11, BecomeSound

\* The process ends.
LEMMA ChildClosesSound ==
  ASSUME IInv, NEW r \in DOMAIN runs, ChildCloses(r)
  PROVE  IInv'
<1> DEFINE s == Worker
           run == s.runs[r]
           new == [run EXCEPT !.child = "closed"]
           t == [s EXCEPT !.runs[r].child = "closed"]
<1>1. /\ Good(s) /\ s.runs = runs /\ r \in DOMAIN s.runs /\ run.child = "alive"
  BY DEF IInv, Good, Worker, ChildCloses
<1>2. Become(t)
  BY Zenon DEF ChildCloses
<1> HIDE DEF s
<1>3. s \in States /\ run \in RunRecords /\ Honest(run)
  BY <1>1, GoodParts
<1>4. /\ new \in RunRecords /\ new.child = "closed" /\ new.pc = run.pc
      /\ new.terminal = run.terminal /\ new.job = run.job /\ new.dir = run.dir
  BY <1>3 DEF RunRecords
<1>5. Changed(t, s, r, new, s.mod, s.cancelled, s.dirs)
  BY <1>1, <1>3, <1>4, PutRunState
<1>6. Honest(new)
  BY <1>3 DEF Honest, RunRecords
<1> HIDE DEF t, new
<1>7. s.stops = <<>> /\ Tidy(s, r) /\ s.cancelled = {} => s.cancelled = {} /\ Tidy(t, r)
  BY <1>1, <1>4, <1>5 DEF Tidy, Changed
<1>8. Good(t)
  BY <1>1, <1>5, <1>6, <1>7, RunStep
<1> QED
  BY <1>2, <1>8, BecomeSound

\* The close listener leaves a run whose end was reported, or that is being stopped.
LEMMA CloseSound ==
  ASSUME NEW s, Good(s), NEW r \in DOMAIN s.runs, s.runs[r].pc = "encoding",
         s.runs[r].child = "closed",
         \/ s.runs[r].terminal
         \/ s.mod.stopping # NoJob
         \/ s.runs[r].job \in s.cancelled
  PROVE  Good(Close(s, r))
<1> DEFINE run == s.runs[r]
           new == [run EXCEPT !.pc = "over", !.reports = run.reports]
           m == Forgotten(s.mod)
           t == With(s, r, m, s.cancelled, "over", run.reports)
<1>1. /\ s \in States /\ run \in RunRecords /\ Honest(run) /\ s.mod \in Mods
      /\ s.cancelled \in SUBSET Jobs
  BY GoodParts
<1>2. Close(s, r) = t
  BY <1>1, WithItself, CloseWith
<1>3. /\ m \in Mods /\ m.starting = NoJob /\ m.handbrake = 0
      /\ m.stopping = s.mod.stopping /\ m.workspace = s.mod.workspace
      /\ m.current = s.mod.current
  <2> DEFINE n == [s.mod EXCEPT !.handbrake = 0]
  <2>1. /\ n \in Mods /\ n.handbrake = 0 /\ n.stopping = s.mod.stopping
        /\ n.workspace = s.mod.workspace /\ n.current = s.mod.current
    BY <1>1, WorkerAssumption DEF Mods
  <2>2. m = [n EXCEPT !.starting = NoJob]
    BY Zenon DEF Forgotten
  <2> HIDE DEF n
  <2> QED
    BY <2>1, <2>2 DEF Mods
<1>4. run.reports \in Seq(Ends) /\ "over" \in Phases
  BY <1>1 DEF RunRecords, Ends, Phases
<1> HIDE DEF m
<1>5. Changed(t, s, r, new, m, s.cancelled, s.dirs)
  BY <1>1, <1>3, <1>4, WithType
<1>6. new.pc = "over" /\ new.child = "closed" /\ new.job = run.job
  BY <1>1 DEF RunRecords
<1>7. Honest(new)
  BY <1>1 DEF Honest, RunRecords, Preparing, Uploading
<1> HIDE DEF t, new
<1>8. s.stops = <<>> /\ Tidy(s, r) /\ s.cancelled = {} => s.cancelled = {} /\ Tidy(t, r)
  BY <1>3, <1>5, <1>6 DEF Tidy, Changed, Preparing, CleanUps, Forgetful
<1>9. Good(t)
  BY <1>5, <1>7, <1>8, RunStep
<1> QED
  BY <1>2, <1>9, Zenon

\* The close listener.
LEMMA CloseHandledSound ==
  ASSUME IInv, NEW r \in DOMAIN runs, CloseHandled(r)
  PROVE  IInv'
<1> DEFINE s == Worker
           run == s.runs[r]
<1>1. /\ Good(s) /\ s.runs = runs /\ s.mod = mod /\ s.cancelled = cancelled
      /\ r \in DOMAIN s.runs
  BY DEF IInv, Good, Worker
<1>2. run.pc = "encoding" /\ run.child = "closed"
  BY <1>1 DEF CloseHandled, Awaits
<1>3. \/ /\ ~run.terminal
         /\ Become(CleanUp(s, r, "closed"))
      \/ /\ run.terminal \/ s.mod.stopping # NoJob \/ run.job \in s.cancelled
         /\ Become(Close(s, r))
  BY <1>1, Zenon DEF CloseHandled
<1> HIDE DEF s
<1>4. CASE ~run.terminal /\ Become(CleanUp(s, r, "closed"))
  <2>1. s \in States /\ run \in RunRecords /\ Honest(run)
    BY <1>1, GoodParts
  <2>2. SoundBut(s, r)
    BY <1>1, <2>1 DEF SoundBut, Good, Sound
  <2>3. Honest([run EXCEPT !.pc = "closed"])
    BY <1>2, <1>4, <2>1 DEF Honest, RunRecords, Preparing, Uploading
  <2>4. Leaving(s, r, "closed")
    <3>1. s.stops = <<>> => /\ r = Len(s.runs) /\ Tidy(s, r) /\ s.cancelled = {}
                           /\ \A o \in DOMAIN s.runs :
                                o < r => s.runs[o].pc = "over" /\ s.runs[o].child # "alive"
      BY <1>1, <1>2, LastRun
    <3> QED
      BY <1>2, <3>1 DEF Leaving, Tidy, Preparing
  <2>5. Good(CleanUp(s, r, "closed"))
    BY <2>2, <2>3, <2>4, CleanUpSound DEF Good, CleanUps
  <2> QED
    BY <1>4, <2>5, BecomeSound
<1>5. CASE /\ run.terminal \/ s.mod.stopping # NoJob \/ run.job \in s.cancelled
           /\ Become(Close(s, r))
  BY <1>1, <1>2, <1>5, CloseSound, BecomeSound
<1> QED
  BY <1>3, <1>4, <1>5

\* A workspace has been removed.
LEMMA CleanUpEndsSound ==
  ASSUME IInv, NEW r \in DOMAIN runs, CleanUpEnds(r)
  PROVE  IInv'
<1> DEFINE s == Worker
           run == s.runs[r]
           kind == run.pc
           t == [s EXCEPT !.dirs = @ \ {run.dir}]
<1>1. /\ Good(s) /\ s.runs = runs /\ r \in DOMAIN s.runs
  BY DEF IInv, Good, Worker
<1>2. kind \in CleanUps
  BY <1>1 DEF CleanUpEnds
<1>3. Become(AfterCleanUp(t, r, kind))
  BY Zenon DEF CleanUpEnds, Worker
<1> HIDE DEF s
<1>4. s \in States /\ run \in RunRecords /\ Honest(run)
  BY <1>1, GoodParts
<1>5. /\ t \in States /\ t.mod = s.mod /\ t.cancelled = s.cancelled /\ t.runs = s.runs
      /\ t.stops = s.stops /\ t.dirs = s.dirs \ {run.dir}
  BY <1>4 DEF States
<1> HIDE DEF t
<1>6. SoundBut(t, r)
  BY <1>1, <1>5 DEF SoundBut, Good, Sound
<1>7. Honest([t.runs[r] EXCEPT !.pc = kind])
  <2>1. [run EXCEPT !.pc = kind] = run
    BY <1>4 DEF RunRecords
  <2> QED
    BY <1>4, <1>5, <2>1
<1>8. Leaving(t, r, kind) /\ (t.stops = <<>> => t.dirs = {})
  <2>1. run.pc # "over"
    BY <1>2 DEF CleanUps
  <2>2. s.stops = <<>> => /\ r = Len(s.runs) /\ Tidy(s, r) /\ s.cancelled = {}
                         /\ \A o \in DOMAIN s.runs :
                              o < r => s.runs[o].pc = "over" /\ s.runs[o].child # "alive"
    BY <1>1, <2>1, LastRun
  <2>3. CASE s.stops # <<>>
    BY <1>5, <2>3 DEF Leaving
  <2>4. CASE s.stops = <<>>
    <3>1. t.dirs = {}
      BY <1>2, <1>5, <2>2, <2>4 DEF Tidy
    <3>2. Leaving(t, r, kind)
      BY <1>2, <1>5, <2>2, <2>4, <3>1 DEF Leaving, Tidy, CleanUps, Preparing
    <3> QED
      BY <3>1, <3>2
  <2> QED
    BY <2>3, <2>4
<1>9. Good(AfterCleanUp(t, r, kind))
  BY <1>2, <1>6, <1>7, <1>8, AfterCleanUpSound DEF Good
<1> QED
  BY <1>3, <1>9, BecomeSound

-----------------------------------------------------------------------------
(* uploadOutput. *)

\* An upload that has ended, well or not, is cleaned up.
LEMMA UploadLeftSound ==
  ASSUME NEW s, Good(s), NEW r \in DOMAIN s.runs, s.runs[r].pc \in Uploading,
         NEW kind \in {"garbled", "finished"}, kind = "finished" => s.runs[r].received
  PROVE  Good(CleanUp(s, r, kind))
<1>1. s \in States /\ s.runs[r] \in RunRecords /\ Honest(s.runs[r])
  BY GoodParts
<1>2. Changed(s, s, r, s.runs[r], s.mod, s.cancelled, s.dirs)
  BY <1>1 DEF Changed
<1>3. s.runs[r].terminal /\ s.runs[r].reports = <<>>
  BY <1>1 DEF Honest, Uploading
<1>4. MayLeave(s, r, s.runs[r], kind)
  BY <1>1, <1>3 DEF MayLeave
<1> QED
  BY <1>2, <1>4, LeaveSound

\* The start of an attempt.
LEMMA AttemptSound ==
  ASSUME NEW s, Good(s), NEW r \in DOMAIN s.runs, s.runs[r].pc \in Uploading
  PROVE  Good(Attempt(s, r))
<1>1. Good(CleanUp(s, r, "garbled"))
  BY UploadLeftSound
<1>2. "outputlease" \in Uploading /\ "outputlease" # "delay"
  BY DEF Uploading
<1>3. Good(At(s, r, "outputlease"))
  BY <1>2, AtSound
<1> QED
  BY <1>1, <1>3 DEF Attempt

\* The output file is there, or not.
LEMMA OutputStatSound ==
  ASSUME IInv, NEW r \in DOMAIN runs, NEW ok \in BOOLEAN, OutputStat(r, ok)
  PROVE  IInv'
<1>1. Good(Worker) /\ r \in DOMAIN Worker.runs /\ Worker.runs[r].pc \in Uploading
  BY DEF IInv, Good, Worker, OutputStat, Awaits, Uploading
<1>2. Good(Attempt(Worker, r))
  BY <1>1, AttemptSound
<1>3. Good(CleanUp(Worker, r, "garbled"))
  BY <1>1, UploadLeftSound
<1>4. Become(Attempt(Worker, r)) \/ Become(CleanUp(Worker, r, "garbled"))
  BY Zenon DEF OutputStat
<1> QED
  BY <1>2, <1>3, <1>4, BecomeSound

\* The answer to the request for a lease.
LEMMA OutputLeaseAnsweredSound ==
  ASSUME IInv, NEW r \in DOMAIN runs, NEW ok \in BOOLEAN, OutputLeaseAnswered(r, ok)
  PROVE  IInv'
<1>1. Good(Worker) /\ r \in DOMAIN Worker.runs /\ Worker.runs[r].pc \in Uploading
  BY DEF IInv, Good, Worker, OutputLeaseAnswered, Awaits, Uploading
<1>2. /\ r \in 0 .. MaxRuns /\ "upload" \in Uploading \ {"delay"}
      /\ "checking" \in Uploading \ {"delay"}
  BY <1>1, GoodParts, WorkerAssumption DEF Uploading, Runs
<1>3. Good([At(Worker, r, "upload") EXCEPT !.mod.transfer = r])
  BY <1>1, <1>2, TransferSound
<1>4. Good(At(Worker, r, "checking"))
  BY <1>1, <1>2, AtSound
<1>5. \/ Become([At(Worker, r, "upload") EXCEPT !.mod.transfer = r])
      \/ Become(At(Worker, r, "checking"))
  BY Zenon DEF OutputLeaseAnswered
<1> QED
  BY <1>3, <1>4, <1>5, BecomeSound

\* The upload ends, with or without a response.
LEMMA UploadEndsSound ==
  ASSUME IInv, NEW r \in DOMAIN runs, NEW ok \in BOOLEAN, NEW received \in BOOLEAN,
         UploadEnds(r, ok, received)
  PROVE  IInv'
<1> DEFINE s == [Worker EXCEPT !.mod.transfer = 0]
           run == s.runs[r]
           runA == [run EXCEPT !.aborted = FALSE]
           runB == [runA EXCEPT !.received = run.received \/ received]
           a == [s EXCEPT !.runs[r].aborted = FALSE]
           b == [a EXCEPT !.runs[r].received = @ \/ received]
<1>1. Good(Worker) /\ r \in DOMAIN Worker.runs /\ Worker.runs = runs
  BY DEF IInv, Good, Worker
<1>2. Good(s) /\ s.runs = Worker.runs
  BY <1>1, ForgetTransferSound
<1>3. runs[r].pc = "upload" /\ (ok => received)
  BY DEF UploadEnds, Awaits
<1>4. \/ ok /\ Become(CleanUp(b, r, "finished"))
      \/ Become(At(b, r, "checking"))
  BY ZenonT(60) DEF UploadEnds
<1> HIDE DEF s
<1>5. r \in DOMAIN s.runs /\ run.pc = "upload"
  BY <1>1, <1>2, <1>3
<1>6. s \in States /\ run \in RunRecords /\ Honest(run)
  BY <1>2, <1>5, GoodParts
<1>7. /\ runA \in RunRecords /\ runA.pc = "upload" /\ runA.terminal = run.terminal
      /\ runA.child = run.child /\ runA.job = run.job /\ runA.reports = run.reports
      /\ runA.received = run.received /\ runA.garbled = run.garbled
      /\ runA.dir = run.dir
  BY <1>5, <1>6 DEF RunRecords
<1>8. Changed(a, s, r, runA, s.mod, s.cancelled, s.dirs)
  BY <1>5, <1>6, <1>7, PutRunState
<1> HIDE DEF a, runA
<1>9. a \in States /\ a.runs[r] = runA /\ r \in DOMAIN a.runs
  BY <1>5, <1>8 DEF Changed
<1>10. /\ runB \in RunRecords /\ runB.pc = "upload" /\ runB.terminal = run.terminal
       /\ runB.child = run.child /\ runB.job = run.job /\ runB.reports = run.reports
       /\ runB.received = (run.received \/ received) /\ runB.garbled = run.garbled
       /\ runB.dir = run.dir
  BY <1>6, <1>7 DEF RunRecords
<1>11. b = [a EXCEPT !.runs = [a.runs EXCEPT ![r] = runB]]
  <2>1. a.runs[r].received = run.received
    BY <1>7, <1>9
  <2> QED
    BY <1>9, <2>1, Zenon
<1>12. Changed(b, a, r, runB, a.mod, a.cancelled, a.dirs)
  <2> HIDE DEF b, runB
  <2> QED
    BY <1>9, <1>10, <1>11, PutRunState
<1> HIDE DEF b, runB
<1>13. Changed(b, s, r, runB, s.mod, s.cancelled, s.dirs)
  BY <1>5, <1>8, <1>12 DEF Changed
<1>14. Honest(runB)
  BY <1>6, <1>10, <1>5 DEF Honest
<1>15. s.stops = <<>> /\ Tidy(s, r) /\ s.cancelled = {} => s.cancelled = {} /\ Tidy(b, r)
  BY <1>5, <1>10, <1>13 DEF Tidy, Changed
<1>16. Good(b)
  BY <1>2, <1>5, <1>13, <1>14, <1>15, RunStep
<1>17. /\ r \in DOMAIN b.runs /\ b.runs[r] = runB /\ runB.pc \in Uploading
       /\ "checking" \in Uploading
  BY <1>5, <1>10, <1>13 DEF Changed, Uploading
<1>18. Good(At(b, r, "checking"))
  BY <1>16, <1>17, AtSound
<1>19. ok => Good(CleanUp(b, r, "finished"))
  BY <1>3, <1>10, <1>16, <1>17, UploadLeftSound
<1> QED
  BY <1>4, <1>18, <1>19, BecomeSound

\* The server is asked whether it has the file.
LEMMA CompletionAnsweredSound ==
  ASSUME IInv, NEW r \in DOMAIN runs, NEW completed \in BOOLEAN, NEW retryable \in BOOLEAN,
         CompletionAnswered(r, completed, retryable)
  PROVE  IInv'
<1> DEFINE s == Worker
<1>1. /\ Good(s) /\ r \in DOMAIN s.runs /\ s.runs = runs
  BY DEF IInv, Good, Worker
<1>2. s.runs[r].pc \in Uploading /\ (completed => s.runs[r].received)
  BY <1>1 DEF CompletionAnswered, Awaits, Uploading
<1>3. \/ completed /\ Become(CleanUp(s, r, "finished"))
      \/ s.runs[r].attempt < MaxAttempts /\ Become(At(s, r, "delay"))
      \/ Become(CleanUp(s, r, "garbled"))
  BY <1>1, Zenon DEF CompletionAnswered
<1> HIDE DEF s
<1>4. "delay" \in Uploading
  BY DEF Uploading
<1>5. completed => Good(CleanUp(s, r, "finished"))
  BY <1>1, <1>2, UploadLeftSound
<1>6. Good(CleanUp(s, r, "garbled"))
  BY <1>1, <1>2, UploadLeftSound
<1>7. s.runs[r].attempt < MaxAttempts => Good(At(s, r, "delay"))
  BY <1>1, <1>2, <1>4, AtSound
<1> QED
  BY <1>3, <1>5, <1>6, <1>7, BecomeSound

\* The next attempt.
LEMMA DelayEndsSound ==
  ASSUME IInv, NEW r \in DOMAIN runs, DelayEnds(r)
  PROVE  IInv'
<1> DEFINE s == Worker
           run == s.runs[r]
           new == [run EXCEPT !.attempt = run.attempt + 1]
           to == [new EXCEPT !.pc = "outputlease"]
           t == [s EXCEPT !.runs[r].attempt = @ + 1]
           u == At(t, r, "outputlease")
<1>1. /\ Good(s) /\ r \in DOMAIN s.runs /\ run.pc = "delay"
  BY DEF IInv, Good, Worker, DelayEnds, Awaits
<1>2. Become(CleanUp(t, r, "garbled")) \/ Become(u)
  BY Zenon DEF DelayEnds, Attempt
<1> HIDE DEF s
<1>3. s \in States /\ run \in RunRecords /\ Honest(run)
  BY <1>1, GoodParts
<1>4. run.attempt < MaxAttempts /\ run.terminal /\ run.reports = <<>>
  BY <1>1, <1>3 DEF Honest, Uploading
<1>5. run.attempt + 1 \in 0 .. MaxAttempts
  BY <1>3, <1>4, WorkerAssumption DEF RunRecords
<1>6. /\ new \in RunRecords /\ new.terminal /\ new.child = run.child
      /\ new.job = run.job /\ new.reports = <<>> /\ new.received = run.received
  BY <1>3, <1>4, <1>5 DEF RunRecords
<1>7. Changed(t, s, r, new, s.mod, s.cancelled, s.dirs)
  BY <1>1, <1>3, <1>6, PutRunState
<1> HIDE DEF t, new
<1>8. Good(CleanUp(t, r, "garbled"))
  <2>1. MayLeave(s, r, new, "garbled")
    BY <1>1, <1>4, <1>6 DEF MayLeave, Uploading
  <2> QED
    BY <1>1, <1>7, <2>1, LeaveSound
<1>9. Good(u)
  <2>1. t \in States /\ t.runs[r] = new /\ r \in DOMAIN t.runs
    BY <1>1, <1>7 DEF Changed
  <2>2. Changed(u, t, r, to, t.mod, t.cancelled, t.dirs)
    BY <2>1, AtChanged DEF Phases
  <2>3. /\ to.pc = "outputlease" /\ to.terminal /\ to.child = run.child
        /\ to.job = run.job /\ to.reports = <<>>
    BY <1>6 DEF RunRecords
  <2> HIDE DEF u, to
  <2>4. Changed(u, s, r, to, s.mod, s.cancelled, s.dirs)
    BY <1>1, <1>7, <2>2 DEF Changed
  <2>5. Honest(to)
    <3>1. DOMAIN to.reports = {} /\ Len(to.reports) = 0
      BY <2>3
    <3> QED
      BY <2>3, <3>1 DEF Honest, Preparing, Uploading
  <2>6. s.stops = <<>> /\ Tidy(s, r) /\ s.cancelled = {} => s.cancelled = {} /\ Tidy(u, r)
    BY <1>1, <2>3, <2>4 DEF Tidy, Changed, Preparing, CleanUps
  <2> QED
    BY <1>1, <2>4, <2>5, <2>6, RunStep
<1> QED
  BY <1>2, <1>8, <1>9, BecomeSound

\* Every step of the upload.
LEMMA UploadSound ==
  ASSUME IInv, NEW r \in DOMAIN runs, Upload(r)
  PROVE  IInv'
BY OutputStatSound, OutputLeaseAnsweredSound, UploadEndsSound, CompletionAnsweredSound,
   DelayEndsSound DEF Upload

-----------------------------------------------------------------------------
(* StopTranscode. *)

\* After a stop the runs need not follow one another any more.
Stopped(s) == s \in Sound /\ s.stops # <<>>

\* Nothing more is asked of the runs then.
LEMMA StoppedIsGood ==
  ASSUME NEW s, Stopped(s)
  PROVE  Good(s)
BY DEF Stopped, Good, Sequential

\* What there is to know of the stops of a state.
LEMMA StopsOfState ==
  ASSUME NEW s \in States
  PROVE  /\ Len(s.stops) \in Nat /\ DOMAIN s.stops = 1 .. Len(s.stops)
         /\ \A i \in DOMAIN s.stops : s.stops[i] \in StopRecords
         /\ \A i \in DOMAIN s.stops : s.stops # <<>>
<1>1. s.stops \in Seq(StopRecords)
  BY DEF States
<1> QED
  BY <1>1, LenProperties, ElementOfSeq

\* The record of a call of StopTranscode is replaced.
LEMMA StopReplaced ==
  ASSUME NEW s, Stopped(s), NEW i \in DOMAIN s.stops, NEW stop \in StopRecords
  PROVE  /\ Stopped([s EXCEPT !.stops = [s.stops EXCEPT ![i] = stop]])
         /\ [s EXCEPT !.stops = [s.stops EXCEPT ![i] = stop]].stops
              = [s.stops EXCEPT ![i] = stop]
<1> DEFINE q == [s.stops EXCEPT ![i] = stop]
           t == [s EXCEPT !.stops = q]
<1>1. s \in States /\ s.stops \in Seq(StopRecords) /\ i \in 1 .. Len(s.stops)
  BY StopsOfState DEF Stopped, Sound, States
<1>2. q \in Seq(StopRecords) /\ Len(q) = Len(s.stops)
  BY <1>1, ExceptSeq
<1>3. q # <<>>
  <2> HIDE DEF q
  <2> QED
    BY <1>1, <1>2, StopsOfState
<1> HIDE DEF q
<1>4. t = State(s.mod, s.cancelled, s.runs, q, s.dirs)
  BY <1>1, StateIs, StatePut
<1> HIDE DEF t
<1>5. /\ t \in States /\ t.runs = s.runs /\ t.stops = q
  BY <1>1, <1>2, <1>4 DEF State, States
<1>6. Stopped(t)
  BY <1>3, <1>5 DEF Stopped, Sound
<1> QED
  BY <1>5, <1>6 DEF q, t

\* A call of StopTranscode goes on.
LEMMA StopPut ==
  ASSUME NEW s, Stopped(s), NEW i \in DOMAIN s.stops,
         NEW pc \in {"killing", "telling", "removing", "answered"}
  PROVE  Stopped([s EXCEPT !.stops[i].pc = pc])
<1> DEFINE stop == [s.stops[i] EXCEPT !.pc = pc]
<1>1. stop \in StopRecords
  BY StopsOfState DEF Stopped, Sound, States, StopRecords
<1>2. Stopped([s EXCEPT !.stops = [s.stops EXCEPT ![i] = stop]])
  <2> HIDE DEF stop
  <2> QED
    BY <1>1, StopReplaced
<1> QED
  BY <1>2, Zenon

\* The variables of the module may change.
LEMMA StoppedModule ==
  ASSUME NEW s, Stopped(s), NEW m \in Mods
  PROVE  /\ Stopped([s EXCEPT !.mod = m])
         /\ [s EXCEPT !.mod = m].stops = s.stops /\ [s EXCEPT !.mod = m].mod = m
BY DEF Stopped, Sound, States

\* The end of StopTranscode.
LEMMA FinishStopSound ==
  ASSUME NEW s, Stopped(s), NEW i \in DOMAIN s.stops
  PROVE  Stopped(FinishStop(s, i))
<1> DEFINE m == IdleWith(s.mod.handbrake)
           n == [m EXCEPT !.handbrake = 0]
           a == ClearCurrentJobState(s)
           b == [a EXCEPT !.mod.handbrake = 0]
<1>1. m \in Mods
  <2>1. s.mod.handbrake \in 0 .. MaxRuns /\ 0 \in 0 .. MaxRuns
    BY WorkerAssumption DEF Stopped, Sound, States, Mods
  <2> QED
    BY <2>1 DEF IdleWith, IdleModule, Mods
<1>2. n \in Mods
  <2> HIDE DEF m
  <2> QED
    BY <1>1, WorkerAssumption DEF Mods
<1> HIDE DEF m, n
<1>3. a = [s EXCEPT !.mod = m]
  BY Zenon DEF ClearCurrentJobState, m, IdleWith
<1>4. Stopped(a) /\ a.stops = s.stops /\ a.mod = m
  BY <1>1, <1>3, StoppedModule
<1> HIDE DEF a
<1>5. b = [a EXCEPT !.mod = n]
  BY <1>4, Zenon DEF n
<1>6. Stopped(b) /\ b.stops = s.stops
  BY <1>2, <1>4, <1>5, StoppedModule
<1> HIDE DEF b
<1>7. Stopped([b EXCEPT !.stops[i].pc = "answered"])
  BY <1>6, StopPut
<1> QED
  BY <1>7, Zenon DEF FinishStop, a, b

\* The workspace of the stopped job is removed.
LEMMA RemoveStoppedSound ==
  ASSUME NEW s, Stopped(s), NEW i \in DOMAIN s.stops
  PROVE  Stopped(RemoveStopped(s, i))
<1> DEFINE dir == IF s.stops[i].dir = 0 THEN s.mod.workspace ELSE s.stops[i].dir
           stop == [s.stops[i] EXCEPT !.dir = dir]
           t == [s EXCEPT !.stops[i].dir = dir]
<1>1. s.stops[i] \in StopRecords /\ s.mod \in Mods
  BY StopsOfState DEF Stopped, Sound, States
<1>2. stop \in StopRecords
  <2>1. dir \in 0 .. MaxRuns
    BY <1>1 DEF StopRecords, Mods
  <2> HIDE DEF dir
  <2> QED
    BY <1>1, <2>1 DEF StopRecords
<1>3. t = [s EXCEPT !.stops = [s.stops EXCEPT ![i] = stop]]
  OBVIOUS
<1> HIDE DEF stop, dir
<1>4. Stopped(t) /\ i \in DOMAIN t.stops
  <2> HIDE DEF t
  <2>1. /\ Stopped([s EXCEPT !.stops = [s.stops EXCEPT ![i] = stop]])
        /\ [s EXCEPT !.stops = [s.stops EXCEPT ![i] = stop]].stops
             = [s.stops EXCEPT ![i] = stop]
    BY <1>2, StopReplaced
  <2> QED
    BY <1>3, <2>1
<1> HIDE DEF t
<1>5. Stopped([t EXCEPT !.stops[i].pc = "removing"])
  BY <1>4, StopPut
<1>6. RemoveStopped(s, i) \in {FinishStop(s, i), [t EXCEPT !.stops[i].pc = "removing"]}
  BY Zenon DEF RemoveStopped, t, dir
<1> QED
  BY <1>5, <1>6, FinishStopSound

\* The server is told.
LEMMA TellServerSound ==
  ASSUME NEW s, Stopped(s), NEW i \in DOMAIN s.stops, NEW connected
  PROVE  Stopped(TellServer(s, i, connected))
<1>1. Stopped([s EXCEPT !.stops[i].pc = "telling"])
  BY StopPut
<1> QED
  BY <1>1, RemoveStoppedSound DEF TellServer

\* A stop is accepted: the job is cancelled and its transfer aborted.
LEMMA StopTranscodeSound ==
  ASSUME IInv, NEW j \in Jobs, NEW connected \in BOOLEAN, StopTranscode(j, connected)
  PROVE  IInv'
<1> DEFINE h == mod.handbrake
           i == Len(stops) + 1
           stop == [job |-> j, dir |-> mod.workspace, child |-> h, pc |-> "killing"]
           q == [r \in DOMAIN runs |->
                  IF r = mod.transfer THEN [runs[r] EXCEPT !.aborted = TRUE] ELSE runs[r]]
           m == [mod EXCEPT !.stopping = j]
           s == [mod |-> m, cancelled |-> cancelled \union {j}, runs |-> q,
                 stops |-> Append(stops, stop), dirs |-> dirs]
<1>1. /\ Worker \in States /\ Worker.runs = runs /\ Worker.stops = stops
      /\ mod \in Mods /\ cancelled \in SUBSET Jobs /\ dirs \in SUBSET Runs
      /\ runs \in Seq(RunRecords) /\ stops \in Seq(StopRecords)
      /\ Len(runs) <= MaxRuns /\ \A r \in DOMAIN runs : Honest(runs[r])
  BY DEF IInv, Sound, States, Worker
<1>2. Become(s) \/ Become(TellServer(s, i, connected))
  <2> DEFINE C == cancelled \union {j}
             S == Append(stops, stop)
             a == [Worker EXCEPT !.cancelled = @ \union {j}]
             b == [a EXCEPT !.mod.stopping = j]
             c == [b EXCEPT !.stops = Append(@, stop)]
             d == [c EXCEPT !.runs = [r \in DOMAIN @ |->
                     IF r = mod.transfer THEN [@[r] EXCEPT !.aborted = TRUE] ELSE @[r]]]
  <2>1. Become(d) \/ Become(TellServer(d, i, connected))
    BY Zenon DEF StopTranscode
  <2>2. a = State(mod, C, runs, stops, dirs)
    BY DEF Worker, State
  <2>3. b = State(m, C, runs, stops, dirs)
    <3> HIDE DEF a, m, C
    <3>1. a.mod = mod
      BY <2>2, StatePut
    <3>2. [a EXCEPT !.mod = m] = State(m, C, runs, stops, dirs)
      BY <2>2, StatePut
    <3> QED
      BY <3>1, <3>2, Zenon DEF m
  <2>4. c = State(m, C, runs, S, dirs)
    <3> HIDE DEF b, m, C, S
    <3>1. b.stops = stops
      BY <2>3, StatePut
    <3>2. [b EXCEPT !.stops = S] = State(m, C, runs, S, dirs)
      BY <2>3, StatePut
    <3> QED
      BY <3>1, <3>2, Zenon DEF S
  <2>5. d = State(m, C, q, S, dirs)
    <3> HIDE DEF c, m, C, S
    <3>1. c.runs = runs
      BY <2>4, StatePut
    <3>2. [c EXCEPT !.runs = q] = State(m, C, q, S, dirs)
      <4> HIDE DEF q
      <4> QED
        BY <2>4, StatePut
    <3> QED
      BY <3>1, <3>2, Zenon DEF q
  <2>6. d = s
    BY <2>5 DEF State
  <2> QED
    BY <2>1, <2>6, Zenon
<1>3. q \in Seq(RunRecords) /\ Len(q) = Len(runs) /\ DOMAIN q = DOMAIN runs
  <2>1. DOMAIN runs = 1 .. Len(runs) /\ Len(runs) \in Nat
    BY <1>1, LenProperties
  <2>2. \A r \in DOMAIN runs : q[r] \in RunRecords
    <3>1. \A r \in DOMAIN runs : runs[r] \in RunRecords
      BY <1>1, ElementOfSeq, <2>1
    <3>2. \A r \in DOMAIN runs : [runs[r] EXCEPT !.aborted = TRUE] \in RunRecords
      BY <3>1 DEF RunRecords
    <3> QED
      BY <3>1, <3>2
  <2>3. q \in [1 .. Len(runs) -> RunRecords]
    BY <2>1, <2>2
  <2> HIDE DEF q
  <2>4. q \in Seq(RunRecords)
    BY <2>1, <2>3, SeqDef
  <2>5. DOMAIN q = 1 .. Len(runs)
    BY <2>3
  <2> QED
    BY <2>1, <2>4, <2>5, LenProperties
<1>4. \A r \in DOMAIN q : Honest(q[r])
  <2> SUFFICES ASSUME NEW r \in DOMAIN runs
               PROVE  Honest(q[r])
    BY <1>3
  <2>1. runs[r] \in RunRecords /\ Honest(runs[r])
    BY <1>1, ElementOfSeq, LenProperties
  <2>2. Honest([runs[r] EXCEPT !.aborted = TRUE])
    BY <2>1 DEF Honest, RunRecords
  <2> QED
    BY <2>1, <2>2
<1>5. stop \in StopRecords
  BY <1>1 DEF StopRecords, Mods
<1>6. m \in Mods
  BY <1>1 DEF Mods
<1>7. /\ Append(stops, stop) \in Seq(StopRecords) /\ i \in 1 .. Len(Append(stops, stop))
      /\ DOMAIN Append(stops, stop) = 1 .. Len(Append(stops, stop))
      /\ Append(stops, stop) # <<>>
  <2> HIDE DEF stop
  <2> QED
    BY <1>1, <1>5, AppendProperties, LenProperties
<1> HIDE DEF q, m, stop
<1>8. Stopped(s) /\ i \in DOMAIN s.stops
  BY <1>1, <1>3, <1>4, <1>6, <1>7 DEF Stopped, Sound, States
<1> HIDE DEF s, i
<1>9. Stopped(TellServer(s, i, connected))
  BY <1>8, TellServerSound
<1> QED
  BY <1>2, <1>8, <1>9, StoppedIsGood, BecomeSound

\* Every step of a stop that was accepted.
LEMMA StoppingSound ==
  ASSUME IInv, NEW i \in DOMAIN stops, Stopping(i)
  PROVE  IInv'
<1>1. Stopped(Worker) /\ i \in DOMAIN Worker.stops /\ Worker.stops = stops
  <2>1. Worker \in Sound /\ Worker \in States /\ Worker.stops = stops
    BY DEF IInv, Sound, Worker
  <2>2. Worker.stops # <<>>
    BY <2>1, StopsOfState
  <2> QED
    BY <2>1, <2>2 DEF Stopped
<1> DEFINE s == Worker
           t == [s EXCEPT !.dirs = @ \ {stops[i].dir}]
<1>2. \/ \E connected \in BOOLEAN : Become(TellServer(s, i, connected))
      \/ Become(RemoveStopped(s, i))
      \/ Become([s EXCEPT !.stops[i].pc = "answered"])
      \/ Become(FinishStop(t, i))
  BY Zenon DEF Stopping, KillWaitEnds, StopAcknowledged, StoppedWorkspaceRemoved
<1> HIDE DEF s
<1>3. Stopped(t) /\ i \in DOMAIN t.stops
  BY <1>1 DEF Stopped, Sound, States, s
<1> HIDE DEF t
<1>4. Stopped(FinishStop(t, i))
  BY <1>3, FinishStopSound
<1>5. Stopped(RemoveStopped(s, i))
  BY <1>1, RemoveStoppedSound DEF s
<1>6. Stopped([s EXCEPT !.stops[i].pc = "answered"])
  BY <1>1, StopPut DEF s
<1>7. \A connected : Stopped(TellServer(s, i, connected))
  BY <1>1, TellServerSound DEF s
<1> QED
  BY <1>2, <1>4, <1>5, <1>6, <1>7, StoppedIsGood, BecomeSound

-----------------------------------------------------------------------------
(* A new run. *)

\* Before the first stop an idle worker has nothing left of its runs.
LEMMA IdleIsOver ==
  ASSUME IInv, stops = <<>>, ~IsTranscoding
  PROVE  /\ Forgetful(mod) /\ mod.stopping = NoJob /\ mod.handbrake = 0
         /\ dirs = {} /\ cancelled = {}
         /\ \A r \in DOMAIN runs : runs[r].pc = "over" /\ runs[r].child # "alive"
<1>1. /\ Worker \in States /\ Sequential(Worker) /\ Worker.runs = runs /\ Worker.mod = mod
      /\ Worker.stops = stops /\ Worker.dirs = dirs /\ Worker.cancelled = cancelled
      /\ dirs \subseteq Runs
  BY DEF IInv, Sound, States, Worker
<1>2. mod.handbrake = 0 /\ mod.starting = NoJob /\ mod.current = NoJob
  BY DEF IsTranscoding
<1>3. cancelled = {}
  BY <1>1 DEF Sequential
<1>4. CASE runs = <<>>
  <2>1. mod = IdleModule /\ dirs = {}
    BY <1>1, <1>4 DEF Sequential
  <2>2. Forgetful(mod) /\ mod.stopping = NoJob
    BY <2>1 DEF Forgetful, IdleModule
  <2>3. DOMAIN runs = {}
    BY <1>4
  <2> QED
    BY <1>2, <1>3, <2>1, <2>2, <2>3
<1>5. CASE runs # <<>>
  <2> DEFINE n == Len(runs)
  <2>1. /\ Tidy(Worker, n)
        /\ \A r \in DOMAIN runs : r < n => runs[r].pc = "over" /\ runs[r].child # "alive"
    BY <1>1, <1>5 DEF Sequential
  <2>2. n \in DOMAIN runs /\ n # 0 /\ \A r \in DOMAIN runs : r < n \/ r = n
    <3>1. runs \in Seq(RunRecords)
      BY <1>1 DEF States
    <3>2. n \in Nat /\ DOMAIN runs = 1 .. n /\ n # 0
      BY <1>1, <1>5, <3>1, RunsOfState, EmptySeq
    <3> QED
      BY <3>2
  <2>3. runs[n] \in RunRecords
    BY <1>1, <2>2, RunsOfState
  <2>4. runs[n].pc = "over"
    <3>1. runs[n].job # NoJob
      BY <2>3, WorkerAssumption DEF RunRecords
    <3> QED
      BY <1>1, <1>2, <2>1, <2>2, <3>1 DEF Tidy
  <2>5. /\ Forgetful(mod) /\ runs[n].child # "alive" /\ mod.stopping = NoJob
        /\ dirs \subseteq {mod.workspace}
    BY <1>1, <2>1, <2>4 DEF Tidy
  <2>6. dirs = {}
    BY <1>1, <2>5 DEF Forgetful, Runs
  <2> QED
    BY <1>2, <1>3, <2>1, <2>2, <2>4, <2>5, <2>6
<1> QED
  BY <1>4, <1>5

\* A job is accepted.
LEMMA StartTranscodeSound ==
  ASSUME IInv, NEW j \in Jobs, StartTranscode(j)
  PROVE  IInv'
<1> DEFINE new == NewRun(j)
           q == Append(runs, new)
           n == Len(runs) + 1
           a == [Worker EXCEPT !.mod.starting = j]
           b == [a EXCEPT !.mod.current = j]
           c == [b EXCEPT !.runs = Append(@, new)]
           m1 == [mod EXCEPT !.starting = j]
           m == [m1 EXCEPT !.current = j]
           s == State(m, cancelled, q, stops, dirs)
<1>1. /\ mod \in Mods /\ cancelled \in SUBSET Jobs /\ dirs \in SUBSET Runs
      /\ runs \in Seq(RunRecords) /\ stops \in Seq(StopRecords)
      /\ Len(runs) <= MaxRuns /\ \A r \in DOMAIN runs : Honest(runs[r])
  BY DEF IInv, Sound, States, Worker
<1>2. Len(runs) < MaxRuns /\ ~IsTranscoding /\ Become(c)
  BY Zenon DEF StartTranscode
<1>3. c = s
  <2>1. Worker = State(mod, cancelled, runs, stops, dirs)
    BY DEF Worker, State
  <2>2. a = State(m1, cancelled, runs, stops, dirs)
    <3> HIDE DEF m1
    <3>1. Worker.mod = mod
      BY <2>1, StatePut
    <3>2. [Worker EXCEPT !.mod = m1] = State(m1, cancelled, runs, stops, dirs)
      BY <2>1, StatePut
    <3> QED
      BY <3>1, <3>2, Zenon DEF m1
  <2>3. b = State(m, cancelled, runs, stops, dirs)
    <3> HIDE DEF a, m1, m
    <3>1. a.mod = m1
      BY <2>2, StatePut
    <3>2. [a EXCEPT !.mod = m] = State(m, cancelled, runs, stops, dirs)
      BY <2>2, StatePut
    <3> QED
      BY <3>1, <3>2, Zenon DEF m
  <2> HIDE DEF b, m, q
  <2>4. b.runs = runs
    BY <2>3, StatePut
  <2>5. [b EXCEPT !.runs = q] = s
    BY <2>3, StatePut
  <2> QED
    BY <2>4, <2>5, Zenon DEF q
<1>4. /\ new \in RunRecords /\ new.pc = "jobdata" /\ new.child = "none" /\ new.job = j
      /\ ~new.terminal /\ new.reports = <<>>
  BY WorkerAssumption DEF NewRun, RunRecords, Phases
<1>5. Honest(new)
  BY <1>4 DEF Honest, Uploading
<1>6. m \in Mods /\ m.starting = j /\ m.handbrake = mod.handbrake
      /\ m.stopping = mod.stopping /\ m.workspace = mod.workspace
  BY <1>1 DEF Mods
<1> HIDE DEF new, m
<1>7. /\ q \in Seq(RunRecords) /\ Len(q) = n /\ DOMAIN q = 1 .. n /\ n \in Nat
      /\ n <= MaxRuns /\ q[n] = new /\ DOMAIN runs = 1 .. Len(runs) /\ Len(runs) \in Nat
      /\ \A r \in 1 .. Len(runs) : q[r] = runs[r]
  BY <1>1, <1>2, <1>4, AppendProperties, LenProperties, WorkerAssumption
<1> HIDE DEF q
<1>8. /\ s.mod = m /\ s.cancelled = cancelled /\ s.runs = q /\ s.stops = stops
      /\ s.dirs = dirs /\ s \in States
  BY <1>1, <1>6, <1>7 DEF State, States
<1> HIDE DEF s, c
<1>9. \A r \in DOMAIN q : r = n \/ r \in DOMAIN runs
  BY <1>7
<1>10. s \in Sound
  BY <1>1, <1>5, <1>7, <1>8, <1>9 DEF Sound
<1>11. ASSUME stops = <<>>
       PROVE  Sequential(s)
  <2>1. /\ Forgetful(mod) /\ mod.stopping = NoJob /\ mod.handbrake = 0
        /\ dirs = {} /\ cancelled = {}
        /\ \A r \in DOMAIN runs : runs[r].pc = "over" /\ runs[r].child # "alive"
    BY <1>2, <1>11, IdleIsOver
  <2>2. Tidy(s, n)
    BY <1>4, <1>6, <1>7, <1>8, <2>1 DEF Tidy, Preparing, CleanUps, Forgetful
  <2>3. \A r \in DOMAIN q : r < n => q[r].pc = "over" /\ q[r].child # "alive"
    BY <1>7, <2>1
  <2>4. q # <<>>
    BY <1>7
  <2> QED
    BY <1>7, <1>8, <2>1, <2>2, <2>3, <2>4 DEF Sequential
<1>12. Sequential(s)
  BY <1>8, <1>11 DEF Sequential
<1> QED
  BY <1>2, <1>3, <1>10, <1>12, BecomeSound DEF Good

-----------------------------------------------------------------------------
(* The specification. *)

\* The invariant holds initially.
LEMMA InitSound == Init => IInv
<1> SUFFICES ASSUME Init
             PROVE  IInv
  OBVIOUS
<1>1. /\ Worker.mod = IdleModule /\ Worker.cancelled = {} /\ Worker.runs = <<>>
      /\ Worker.stops = <<>> /\ Worker.dirs = {}
  BY DEF Init, Worker
<1>2. IdleModule \in Mods
  BY WorkerAssumption DEF IdleModule, Mods
<1>3. <<>> \in Seq(RunRecords) /\ <<>> \in Seq(StopRecords) /\ Len(<<>>) = 0
  OBVIOUS
<1>4. Worker \in States
  <2>1. Worker = [mod |-> IdleModule, cancelled |-> {}, runs |-> <<>>, stops |-> <<>>,
                  dirs |-> {}]
    BY DEF Init, Worker
  <2> QED
    BY <1>2, <1>3, <2>1 DEF States
<1>5. DOMAIN Worker.runs = {} /\ Len(Worker.runs) <= MaxRuns
  BY <1>1, <1>3, WorkerAssumption
<1> QED
  BY <1>1, <1>4, <1>5 DEF IInv, Sound, Sequential

\* Every step keeps the invariant.
LEMMA NextSound == IInv /\ [Next]_vars => IInv'
<1> SUFFICES ASSUME IInv, [Next]_vars
             PROVE  IInv'
  OBVIOUS
<1>1. CASE UNCHANGED vars
  BY <1>1 DEF vars, IInv, Worker
<1>2. ASSUME NEW j \in Jobs, StartTranscode(j)
      PROVE  IInv'
  BY <1>2, StartTranscodeSound
<1>3. ASSUME NEW r \in DOMAIN runs, Progress(r) \/ Output(r) \/ ChildCloses(r)
      PROVE  IInv'
  BY <1>3, PreparationSound, UploadSound, CloseHandledSound, CleanUpEndsSound,
     WorkDoneSound, GarbledOutputSound, ChildClosesSound DEF Progress, Output
<1>4. ASSUME NEW j \in Jobs, NEW connected \in BOOLEAN, StopTranscode(j, connected)
      PROVE  IInv'
  BY <1>4, StopTranscodeSound
<1>5. ASSUME NEW i \in DOMAIN stops, Stopping(i)
      PROVE  IInv'
  BY <1>5, StoppingSound
<1> QED
  BY <1>1, <1>2, <1>3, <1>4, <1>5 DEF Next

\* The invariant holds in every state.
LEMMA SpecSound == Spec => []IInv
BY InitSound, NextSound, PTL DEF Spec

\* The module's variables and the records of runs and stops keep their types.
THEOREM WorkerTypes == Spec => []TypeOK
<1>1. IInv => TypeOK
  BY DEF IInv, Sound, States, Worker, Mods, TypeOK
<1> QED
  BY <1>1, SpecSound, PTL

\* A run that reports "finished" has put its file on the server, whatever failed,
\* was retried, was aborted by a stop, or got lost on the way.
THEOREM FinishedRunsWereReceived == Spec => []FinishedWasReceived
<1>1. IInv => FinishedWasReceived
  <2> SUFFICES ASSUME IInv, NEW r \in DOMAIN runs, "finished" \in Range(runs[r].reports)
               PROVE  runs[r].received
    BY DEF FinishedWasReceived
  <2>1. Honest(runs[r])
    BY DEF IInv, Sound, Worker
  <2>2. PICK i \in DOMAIN runs[r].reports : runs[r].reports[i] = "finished"
    BY DEF Range
  <2> QED
    BY <2>1, <2>2 DEF Honest
<1> QED
  BY <1>1, SpecSound, PTL

\* Whichever callback gets there first, a run whose output can be read reports its end
\* at most once, and no run is reported finished after it has failed.
THEOREM RunsReportOnce == Spec => []ReportsOnce
<1>1. IInv => ReportsOnce
  BY DEF IInv, Sound, Worker, Honest, ReportsOnce
<1> QED
  BY <1>1, SpecSound, PTL

\* Until it is first told to stop, a worker that is ready for a job has no process and
\* no workspace left of its earlier runs.
THEOREM IdleWorkersAreClean == Spec => []IdleIsClean
<1>1. IInv => IdleIsClean
  BY IdleIsOver DEF IdleIsClean
<1> QED
  BY <1>1, SpecSound, PTL

===================================================================================
