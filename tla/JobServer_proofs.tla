---------------------------- MODULE JobServer_proofs ----------------------------
(***************************************************************************)
(* Proofs about JobServer, for every number of jobs, workers, connections  *)
(* and pending calls.                                                      *)
(*                                                                         *)
(* The handlers are functions of server states, so the invariant is stated *)
(* as a set of server states, Sound(D), where D is the set of jobs of      *)
(* which an upload completed; each operator of QueueOps has a lemma that   *)
(* says that it maps sound states to sound states, and each action is one  *)
(* or two citations of those lemmas.  What a handler may ask of disabled   *)
(* workers is a relation of two states, Respects(s, t), with a lemma for   *)
(* each operator again.                                                    *)
(***************************************************************************)
EXTENDS JobServer, TLAPS, WellFoundedInduction, FiniteSetTheorems, SequenceTheorems

-----------------------------------------------------------------------------
(* The invariant. *)

Rests == [sockets : SUBSET Sockets, jobs : SUBSET Jobs, order : [Jobs -> Int]]

States ==
  [running : BOOLEAN,
   stage : [Jobs -> Stages \union {"Absent"}],
   owner : [Jobs -> Workers \union {NoWorker}],
   order : [Jobs -> Int],
   queue : QueueStatus,
   workers : SUBSET Sockets, props : SUBSET Workers, disabled : SUBSET Sockets,
   calls : Seq(CallRecords),
   completed : [Jobs -> Workers \union {NoWorker}],
   uploads : SUBSET (Workers \X Jobs),
   verifying : SUBSET (Sockets \X Jobs)]

\* ActiveJobHasOwner and FinishedWasDelivered, and what makes the latter
\* inductive: a recorded upload, and a report whose file is being looked up,
\* are of a job whose upload completed.
Sound(D) ==
  {s \in States :
     /\ \A j \in Jobs : s.stage[j] \in ActiveStages => s.owner[j] # NoWorker
     /\ \A j \in Jobs : s.stage[j] = "Finished" => j \in D
     /\ \A j \in Jobs : s.completed[j] # NoWorker => j \in D
     /\ \A v \in s.verifying : v[2] \in D}

IInv ==
  /\ Server \in Sound(delivered)
  /\ nextJob \in Nat /\ sockets \in Nat /\ delivered \subseteq Jobs

-----------------------------------------------------------------------------
(* Least and greatest elements of sets of numbers: what makes the CHOOSE of  *)
(* FirstSocket, FirstJob, Min and Max well defined.                          *)

\* Every set of natural numbers that is not empty has a least element.
LEMMA LeastNatural ==
  ASSUME NEW S \in SUBSET Nat, S # {}
  PROVE  \E n \in S : \A m \in S : n <= m
<1>1. PICK n \in S : \A m \in S : ~(<<m, n>> \in OpToRel(<, Nat))
  <2> HIDE DEF OpToRel
  <2> QED
    BY NatLessThanWellFounded, WFMin
<1>2. \A m \in S : m < n => <<m, n>> \in OpToRel(<, Nat)
  BY DEF OpToRel
<1>3. \A m \in S : ~(m < n)
  BY <1>1, <1>2
<1>4. n \in Nat /\ \A m \in S : m \in Nat
  OBVIOUS
<1> QED
  BY <1>3, <1>4

\* A set of integers with a lower bound has a least element.
LEMMA LeastInteger ==
  ASSUME NEW S \in SUBSET Int, S # {}, NEW b \in Int, \A m \in S : b <= m
  PROVE  \E n \in S : \A m \in S : n <= m
<1> DEFINE T == {m - b : m \in S}
<1>1. T \in SUBSET Nat /\ T # {}
  <2>1. \A m \in S : m - b \in Nat
    OBVIOUS
  <2>2. PICK m \in S : TRUE
    OBVIOUS
  <2>3. T # {}
    BY <2>2
  <2> QED
    BY <2>1, <2>3
<1>2. PICK t \in T : \A u \in T : t <= u
  BY <1>1, LeastNatural
<1>3. PICK n \in S : t = n - b
  BY <1>2
<1>4. \A m \in S : n - b <= m - b
  BY <1>2, <1>3
<1> QED
  BY <1>4

\* A set of integers with an upper bound has a greatest element.
LEMMA GreatestInteger ==
  ASSUME NEW S \in SUBSET Int, S # {}, NEW b \in Int, \A m \in S : m <= b
  PROVE  \E n \in S : \A m \in S : n >= m
<1> DEFINE T == {b - m : m \in S}
<1>1. T \in SUBSET Nat /\ T # {}
  <2>1. \A m \in S : b - m \in Nat
    OBVIOUS
  <2>2. PICK m \in S : TRUE
    OBVIOUS
  <2>3. T # {}
    BY <2>2
  <2> QED
    BY <2>1, <2>3
<1>2. PICK t \in T : \A u \in T : t <= u
  BY <1>1, LeastNatural
<1>3. PICK n \in S : t = b - n
  BY <1>2
<1>4. \A m \in S : b - n <= b - m
  BY <1>2, <1>3
<1> QED
  BY <1>4

\* An integer function on 1..n is bounded on both sides.
LEMMA FunctionIsBounded ==
  ASSUME NEW n \in Nat, NEW f, \A i \in 1 .. n : f[i] \in Int
  PROVE  \E b \in Nat : \A i \in 1 .. n : -b <= f[i] /\ f[i] <= b
<1> DEFINE Bounded(k) == \E b \in Nat : \A i \in 1 .. k : -b <= f[i] /\ f[i] <= b
           Bad == {k \in 0 .. n : ~Bounded(k)}
<1>1. SUFFICES ASSUME ~Bounded(n) PROVE FALSE
  OBVIOUS
<1>2. PICK k \in Bad : \A m \in Bad : k <= m
  <2>1. Bad \in SUBSET Nat /\ Bad # {}
    <3> HIDE DEF Bounded
    <3>1. n \in Bad
      BY <1>1
    <3> QED
      BY <3>1
  <2> HIDE DEF Bad
  <2> QED
    BY <2>1, LeastNatural
<1>3. k # 0
  <2>1. \A i \in 1 .. 0 : -0 <= f[i] /\ f[i] <= 0
    OBVIOUS
  <2> QED
    BY <2>1
<1>4. Bounded(k - 1)
  <2>1. k - 1 \in 0 .. n /\ k - 1 < k
    BY <1>2, <1>3
  <2>2. ~(k <= k - 1)
    BY <1>2
  <2>3. k - 1 \notin Bad
    <3> HIDE DEF Bad
    <3> QED
      BY <1>2, <2>2
  <2> QED
    BY <2>1, <2>3
<1>5. PICK b \in Nat : \A i \in 1 .. (k - 1) : -b <= f[i] /\ f[i] <= b
  BY <1>4
<1>6. k \in 1 .. n /\ f[k] \in Int /\ ~Bounded(k)
  BY <1>2, <1>3
<1>7. PICK c \in Nat : -c <= f[k] /\ f[k] <= c /\ b <= c
  <2>1. CASE f[k] \in Nat /\ b <= f[k]
    BY <1>6, <2>1
  <2>2. CASE -f[k] \in Nat /\ b <= -f[k]
    BY <1>6, <2>2
  <2>3. CASE -b <= f[k] /\ f[k] <= b
    BY <1>6, <2>3
  <2> QED
    BY <1>6, <2>1, <2>2, <2>3
<1>8. \A i \in 1 .. k : -c <= f[i] /\ f[i] <= c
  <2> TAKE i \in 1 .. k
  <2>1. CASE i = k
    BY <1>7, <2>1
  <2>2. CASE i # k
    <3>1. i \in 1 .. (k - 1) /\ f[i] \in Int
      BY <1>6, <2>2
    <3> QED
      BY <1>5, <1>7, <3>1
  <2> QED
    BY <2>1, <2>2
<1> QED
  BY <1>6, <1>8

-----------------------------------------------------------------------------
(* What is chosen exists. *)

\* The socket that StartJob is given is one of those that were eligible.
LEMMA FirstSocketIsMember ==
  ASSUME NEW K \in SUBSET Sockets, K # {}
  PROVE  FirstSocket(K) \in K
<1> DEFINE N == {k[2] : k \in K}
<1>1. N \in SUBSET Nat /\ N # {}
  BY DEF Sockets
<1>2. PICK n \in N : \A m \in N : n <= m
  BY <1>1, LeastNatural
<1>3. PICK k \in K : n = k[2]
  BY <1>2
<1>4. \A l \in K : k[2] <= l[2]
  BY <1>2, <1>3
<1> QED
  BY <1>4 DEF FirstSocket

\* The job picked first by its order is one of those that were eligible.
LEMMA FirstJobIsMember ==
  ASSUME NEW order_ \in [Jobs -> Int], NEW J \in SUBSET Jobs, J # {}
  PROVE  FirstJob(order_, J) \in J
<1> DEFINE N == {order_[j] : j \in J}
<1>1. PICK b \in Nat : \A i \in 1 .. NJobs : -b <= order_[i] /\ order_[i] <= b
  BY QueueAssumption, FunctionIsBounded DEF Jobs
<1>2. N \in SUBSET Int /\ N # {} /\ -b \in Int /\ \A m \in N : -b <= m
  <2>1. \A j \in J : j \in 1 .. NJobs /\ order_[j] \in Int
    BY DEF Jobs
  <2>2. N # {}
    OBVIOUS
  <2> QED
    BY <1>1, <2>1, <2>2
<1>3. PICK n \in N : \A m \in N : n <= m
  BY <1>2, LeastInteger
<1> DEFINE L == {j \in J : order_[j] = n}
<1>4. L \in SUBSET Nat /\ L # {}
  <2>1. \A j \in J : j \in Nat
    BY QueueAssumption DEF Jobs
  <2>2. PICK j \in J : order_[j] = n
    BY <1>3
  <2> QED
    BY <2>1, <2>2
<1>5. PICK j \in L : \A i \in L : j <= i
  BY <1>4, LeastNatural
<1>6. ASSUME NEW i \in J PROVE Precedes(order_, j, i)
  <2>1. order_[j] = n /\ n <= order_[i] /\ order_[i] \in Int /\ n \in Int
    BY <1>3, <1>5
  <2>2. order_[i] = n => j <= i
    BY <1>5
  <2> QED
    BY <2>1, <2>2 DEF Precedes
<1> QED
  BY <1>5, <1>6 DEF FirstJob

\* The smallest of some jobs is one of them.
LEMMA MinIsMember ==
  ASSUME NEW S \in SUBSET Jobs, S # {}
  PROVE  Min(S) \in S
<1>1. PICK n \in S : \A m \in S : n <= m
  BY LeastNatural DEF Jobs
<1> QED
  BY <1>1 DEF Min

\* The order index of a new job is an integer.
LEMMA NextOrderIndexType ==
  ASSUME NEW s \in States
  PROVE  NextOrderIndex(s) \in Int
<1> DEFINE N == {s.order[j] : j \in Jobs} \union {0}
<1>1. \A j \in Jobs : s.order[j] \in Int
  BY DEF States
<1>2. PICK b \in Nat : \A i \in 1 .. NJobs : -b <= s.order[i] /\ s.order[i] <= b
  BY <1>1, QueueAssumption, FunctionIsBounded DEF Jobs
<1>3. N \in SUBSET Int /\ N # {} /\ b \in Int /\ \A m \in N : m <= b
  BY <1>1, <1>2 DEF Jobs
<1>4. PICK n \in N : \A m \in N : n >= m
  BY <1>3, GreatestInteger
<1>5. Max(N) \in N
  BY <1>4 DEF Max
<1>6. NextOrderIndex(s) = 1 + Max(N)
  BY DEF NextOrderIndex
<1>7. Max(N) \in Int
  BY <1>3, <1>5
<1> QED
  BY <1>6, <1>7

\* A connected worker has a socket, and SocketOf finds one of its own.
LEMMA SocketOfConnected ==
  ASSUME NEW s \in States, NEW w, Connected(s, w)
  PROVE  /\ SocketOf(s, w) \in s.workers /\ SocketOf(s, w) \in Sockets
         /\ WorkerOf(SocketOf(s, w)) = w /\ w \in Workers
<1>1. SocketOf(s, w) \in s.workers /\ WorkerOf(SocketOf(s, w)) = w
  BY DEF SocketOf, Connected
<1> QED
  BY <1>1 DEF States, Sockets, WorkerOf

\* The seq of pending calls stays one when a call leaves it.
LEMMA RemoveAtType ==
  ASSUME NEW S, NEW q \in Seq(S), NEW i \in DOMAIN q
  PROVE  RemoveAt(q, i) \in Seq(S)
<1>1. Len(q) \in Nat /\ i \in 1 .. Len(q) /\ \A n \in 1 .. Len(q) : q[n] \in S
  BY ElementOfSeq, LenProperties
<1>2. SubSeq(q, 1, i - 1) \in Seq(S)
  BY <1>1, SubSeqProperties, i - 1 \in Int
<1>3. SubSeq(q, i + 1, Len(q)) \in Seq(S)
  BY <1>1, SubSeqProperties, i + 1 \in Int
<1> QED
  BY <1>2, <1>3, ConcatProperties DEF RemoveAt

-----------------------------------------------------------------------------
(* Sound states. *)

\* A write of the queue status touches no job.
LEMMA SetQueueStatusSound ==
  ASSUME NEW D, NEW s \in Sound(D), NEW status \in QueueStatus
  PROVE  SetQueueStatus(s, status) \in Sound(D)
BY DEF Sound, States, SetQueueStatus

\* A call of a known kind may be made in any sound state.
LEMMA AskSound ==
  ASSUME NEW D, NEW s \in Sound(D), NEW c \in CallRecords
  PROVE  Ask(s, c) \in Sound(D)
<1>1. Append(s.calls, c) \in Seq(CallRecords)
  BY AppendProperties DEF Sound, States
<1> QED
  BY <1>1 DEF Sound, States, Ask

\* The calls of the handlers have the fields that their answers use.
LEMMA CallType ==
  ASSUME NEW op \in Ops, NEW k \in Sockets, NEW j \in Jobs \union {NoJob},
         NEW then \in Thens,
         op \in {"start", "stop"} => j \in Jobs,
         op = "stop" <=> then \in {"Stopped", "Error"}
  PROVE  Call(op, k, j, then) \in CallRecords
BY DEF Call, CallRecords, NoRest

\* A status update is sound if an active stage comes with an owner and Finished
\* with a completed upload.
LEMMA UpdateJobStatusSound ==
  ASSUME NEW D, NEW s \in Sound(D), NEW j \in Jobs,
         NEW to \in Stages \union {"Absent"}, NEW w \in Workers \union {NoWorker},
         to \in ActiveStages => w # NoWorker,
         to = "Finished" => j \in D
  PROVE  UpdateJobStatus(s, j, to, w) \in Sound(D)
BY DEF Sound, States, UpdateJobStatus

\* The release of a claim leaves no active job without an owner.
LEMMA ReleaseClaimedJobSound ==
  ASSUME NEW D, NEW s \in Sound(D), NEW j \in Jobs, NEW w
  PROVE  ReleaseClaimedJob(s, j, w) \in Sound(D)
BY DEF Sound, States, ReleaseClaimedJob, Stages, ActiveStages, EndedStages

\* A job that enters the order gets an integer index.
LEMMA InsertJobOrderSound ==
  ASSUME NEW D, NEW s \in Sound(D), NEW j \in Jobs
  PROVE  InsertJobOrder(s, j) \in Sound(D)
<1>1. NextOrderIndex(s) \in Int
  BY NextOrderIndexType DEF Sound
<1> QED
  BY <1>1 DEF Sound, States, InsertJobOrder

\* Order indices may change to any integers.
LEMMA ReorderedSound ==
  ASSUME NEW D, NEW s \in Sound(D), NEW f \in [Jobs -> Int]
  PROVE  [s EXCEPT !.order = f] \in Sound(D)
BY DEF Sound, States

\* When a job leaves the order the other indices stay integers.
LEMMA RemoveJobOrderSound ==
  ASSUME NEW D, NEW s \in Sound(D), NEW j \in Jobs
  PROVE  RemoveJobOrder(s, j) \in Sound(D)
<1>1. \A i \in Jobs : s.order[i] \in Int /\ s.order[i] - 1 \in Int
  BY DEF Sound, States
<1>2. [i \in Jobs |-> IF i = j THEN 0
                     ELSE IF s.order[i] >= s.order[j] THEN s.order[i] - 1
                     ELSE s.order[i]] \in [Jobs -> Int]
  BY <1>1
<1> QED
  BY <1>2, ReorderedSound DEF RemoveJobOrder

\* When a job is moved all indices stay integers.
LEMMA MoveJobOrderSound ==
  ASSUME NEW D, NEW s \in Sound(D), NEW j \in Jobs, NEW n \in Int
  PROVE  MoveJobOrder(s, j, n) \in Sound(D)
<1> DEFINE f == [i \in Jobs |->
              CASE i = j                                         -> n
                [] i # j /\ s.order[j] < s.order[i] /\ s.order[i] <= n ->
                     s.order[i] - 1
                [] i # j /\ n <= s.order[i] /\ s.order[i] < s.order[j] ->
                     s.order[i] + 1
                [] OTHER                                         -> s.order[i]]
<1>1. \A i \in Jobs : s.order[i] \in Int /\ s.order[i] - 1 \in Int /\ s.order[i] + 1 \in Int
  BY DEF Sound, States
<1>2. f \in [Jobs -> Int]
  BY <1>1
<1>3. [s EXCEPT !.order = f] \in Sound(D)
  BY <1>2, ReorderedSound
<1>4. MoveJobOrder(s, j, n) = [s EXCEPT !.order = f]
  BY DEF MoveJobOrder
<1> QED
  BY <1>3, <1>4

\* A new job starts as Waiting and without an owner.
LEMMA InsertJobSound ==
  ASSUME NEW D, NEW s \in Sound(D), NEW j \in Jobs
  PROVE  InsertJob(s, j) \in Sound(D)
<1> DEFINE t == [s EXCEPT !.stage[j] = "Waiting", !.owner[j] = NoWorker]
<1>1. t \in Sound(D)
  BY DEF Sound, States, Stages, ActiveStages, EndedStages
<1> QED
  BY <1>1, InsertJobOrderSound DEF InsertJob

\* A removed job leaves nothing behind.
LEMMA RemoveJobByIDSound ==
  ASSUME NEW D, NEW s \in Sound(D), NEW j \in Jobs
  PROVE  RemoveJobByID(s, j) \in Sound(D)
<1> DEFINE t == RemoveJobOrder(s, j)
<1>1. t \in Sound(D)
  BY RemoveJobOrderSound
<1> HIDE DEF t
<1>2. [t EXCEPT !.stage[j] = "Absent", !.owner[j] = NoWorker] \in Sound(D)
  BY <1>1, "Absent" \notin ActiveStages, "Absent" # "Finished"
     DEF Sound, States, ActiveStages
<1> QED
  BY <1>2 DEF RemoveJobByID, t

\* An uncaught exception leaves the database as it is.
LEMMA ThrowSound ==
  ASSUME NEW D, NEW s \in Sound(D)
  PROVE  Throw(s) \in Sound(D)
<1>1. <<>> \in Seq(CallRecords)
  BY EmptySeq
<1> QED
  BY <1>1 DEF Sound, States, Throw

\* The queue may become idle in any sound state.
LEMMA IdleIfNoneBusySound ==
  ASSUME NEW D, NEW s \in Sound(D)
  PROVE  IdleIfNoneBusy(s) \in Sound(D)
BY SetQueueStatusSound DEF IdleIfNoneBusy, QueueStatus

\* The result of a start changes the queue status only.
LEMMA ReportStartSound ==
  ASSUME NEW D, NEW s \in Sound(D), NEW didStart \in BOOLEAN
  PROVE  ReportStart(s, didStart) \in Sound(D)
BY SetQueueStatusSound DEF ReportStart, QueueStatus

\* A claim gives the job an owner and makes a well-formed call.
LEMMA ClaimSound ==
  ASSUME NEW D, NEW s \in Sound(D), NEW j \in Jobs, NEW k \in Sockets,
         NEW then \in {"Assign", "Init", "Loop"}, NEW rest \in Rests
  PROVE  Claim(s, j, k, then, rest) \in Sound(D)
<1> DEFINE t == [s EXCEPT !.owner[j] = WorkerOf(k)]
           c == [Call("start", k, j, then) EXCEPT !.rest = rest]
<1>1. WorkerOf(k) \in Workers
  BY DEF Sockets, WorkerOf
<1>2. t \in Sound(D)
  BY <1>1, QueueAssumption DEF Sound, States
<1>3. c \in CallRecords
  BY DEF Call, CallRecords, Rests, Ops, Thens
<1> HIDE DEF t, c
<1>4. Ask(t, c) \in Sound(D)
  BY <1>2, <1>3, AskSound
<1> QED
  BY <1>4 DEF Claim, t, c

\* The assignment of a job to a socket is a claim or nothing.
LEMMA AssignSound ==
  ASSUME NEW D, NEW s \in Sound(D), NEW j \in Jobs, NEW k \in Sockets,
         NEW then \in {"Assign", "Init"}
  PROVE  Assign(s, j, k, then) \in Sound(D)
<1>1. NoRest \in Rests
  BY DEF NoRest, Rests
<1>2. Claim(s, j, k, then, NoRest) \in Sound(D)
  BY <1>1, ClaimSound
<1>3. ReportStart(s, FALSE) \in Sound(D)
  BY ReportStartSound
<1> QED
  BY <1>2, <1>3 DEF Assign

\* A job that looks for a worker is assigned soundly.
LEMMA JobForAvailableWorkersSound ==
  ASSUME NEW D, NEW s \in Sound(D), NEW j \in Jobs
  PROVE  JobForAvailableWorkers(s, j) \in Sound(D)
<1> DEFINE eligible == GetEligibleWorkers(s, GetAvailableWorkers(s), j)
<1>1. eligible \in SUBSET Sockets
  BY DEF GetEligibleWorkers, GetAvailableWorkers, Sound, States
<1>2. CASE s.queue = "Stopped" \/ eligible = {}
  BY <1>2 DEF JobForAvailableWorkers
<1>3. CASE ~(s.queue = "Stopped" \/ eligible = {})
  <2>1. FirstSocket(eligible) \in Sockets
    BY <1>1, <1>3, FirstSocketIsMember
  <2>2. Assign(s, j, FirstSocket(eligible), "Assign") \in Sound(D)
    BY <2>1, AssignSound
  <2> QED
    BY <1>3, <2>2 DEF JobForAvailableWorkers
<1> QED
  BY <1>2, <1>3

\* A worker that looks for a job is assigned soundly.
LEMMA WorkerForAvailableJobsSound ==
  ASSUME NEW D, NEW s \in Sound(D), NEW w, NEW then \in {"Assign", "Init"}
  PROVE  WorkerForAvailableJobs(s, w, then) \in Sound(D)
<1> DEFINE eligible == GetEligibleJobs(GetAvailableJobs(s), w)
<1>1. eligible \in SUBSET Jobs
  BY DEF GetEligibleJobs, GetAvailableJobs
<1>2. CASE ~MayTakeJob(s, w) \/ w \notin s.props
  BY <1>2 DEF WorkerForAvailableJobs
<1>3. CASE ~(~MayTakeJob(s, w) \/ w \notin s.props) /\ eligible = {}
  <2>1. IdleIfNoneBusy(s) \in Sound(D)
    BY IdleIfNoneBusySound
  <2> QED
    BY <1>3, <2>1 DEF WorkerForAvailableJobs
<1>4. CASE ~(~MayTakeJob(s, w) \/ w \notin s.props) /\ eligible # {}
  <2>1. s \in States /\ s.order \in [Jobs -> Int] /\ Connected(s, w)
    BY <1>4 DEF MayTakeJob, Sound, States
  <2>2. FirstJob(s.order, eligible) \in Jobs
    BY <1>1, <1>4, <2>1, FirstJobIsMember
  <2>3. SocketOf(s, w) \in Sockets
    BY <2>1, SocketOfConnected
  <2>4. Assign(s, FirstJob(s.order, eligible), SocketOf(s, w), then) \in Sound(D)
    BY <2>2, <2>3, AssignSound
  <2> QED
    BY <1>4, <2>4 DEF WorkerForAvailableJobs
<1> QED
  BY <1>2, <1>3, <1>4

\* The same for callers that do not catch.
LEMMA WorkerForAvailableJobsOrThrowSound ==
  ASSUME NEW D, NEW s \in Sound(D), NEW w
  PROVE  WorkerForAvailableJobsOrThrow(s, w) \in Sound(D)
BY ThrowSound, WorkerForAvailableJobsSound DEF WorkerForAvailableJobsOrThrow

\* Every turn of the loop of StartQueue is sound.
LEMMA ContinueStartQueueSound ==
  ASSUME NEW D, NEW s \in Sound(D), NEW rest \in Rests
  PROVE  ContinueStartQueue(s, rest) \in Sound(D)
<1> DEFINE stops == LoopStops(s, rest)
           k == FirstSocket(stops)
           passed == {l \in rest.sockets : stops = {} \/ l[2] < k[2]}
           idle == \E l \in passed : GetEligibleJobs(rest.jobs, WorkerOf(l)) = {}
           s1 == IF idle THEN IdleIfNoneBusy(s) ELSE s
           J == GetEligibleJobs(rest.jobs, WorkerOf(k))
           j == FirstJob(rest.order, J)
           left == [rest EXCEPT !.sockets = {l \in @ : l[2] > k[2]}]
<1>1. s1 \in Sound(D)
  BY IdleIfNoneBusySound
<1>2. stops \in SUBSET Sockets
  BY DEF LoopStops, Rests
<1>3. CASE stops = {} \/ WorkerOf(k) \notin s.props
  BY <1>1, <1>3 DEF ContinueStartQueue
<1>4. CASE ~(stops = {} \/ WorkerOf(k) \notin s.props)
  <2>1. k \in stops /\ k \in Sockets
    BY <1>2, <1>4, FirstSocketIsMember
  <2>2. J # {} /\ J \in SUBSET Jobs
    <3>1. GetEligibleJobs(rest.jobs, WorkerOf(k)) # {}
      BY <1>4, <2>1 DEF LoopStops
    <3> QED
      BY <3>1 DEF GetEligibleJobs, Rests
  <2>3. rest.order \in [Jobs -> Int]
    BY DEF Rests
  <2>4. j \in Jobs
    <3> HIDE DEF J
    <3> QED
      BY <2>2, <2>3, FirstJobIsMember
  <2>5. left \in Rests
    <3> HIDE DEF k
    <3> QED
      BY DEF Rests
  <2>6. Claim(s1, j, k, "Loop", left) \in Sound(D)
    <3> HIDE DEF s1, j, k, left
    <3> QED
      BY <1>1, <2>1, <2>4, <2>5, ClaimSound
  <2> QED
    BY <1>4, <2>6 DEF ContinueStartQueue
<1> QED
  BY <1>3, <1>4

\* The start of the queue is sound.
LEMMA StartQueueSound ==
  ASSUME NEW D, NEW s \in Sound(D)
  PROVE  StartQueue(s) \in Sound(D)
<1> DEFINE rest == [sockets |-> GetAvailableWorkers(s), jobs |-> GetAvailableJobs(s),
                    order |-> s.order]
<1>1. rest \in Rests
  BY DEF Rests, GetAvailableWorkers, GetAvailableJobs, Sound, States
<1> HIDE DEF rest
<1>2. ContinueStartQueue(s, rest) \in Sound(D)
  BY <1>1, ContinueStartQueueSound
<1> QED
  BY <1>2 DEF StartQueue, rest

\* An answered, refused or timed-out start gives an owner to the job or releases it.
LEMMA StartAnsweredSound ==
  ASSUME NEW D, NEW s \in Sound(D), NEW c \in CallRecords, c.op = "start",
         NEW didStart \in BOOLEAN
  PROVE  StartAnswered(s, c, didStart) \in Sound(D)
<1> DEFINE w == WorkerOf(c.to)
           s1 == IF didStart THEN UpdateJobStatus(s, c.job, s.stage[c.job], w)
                 ELSE ReleaseClaimedJob(s, c.job, w)
           rest == [c.rest EXCEPT !.jobs = @ \ {c.job}]
<1>1. c.job \in Jobs /\ c.to \in Sockets /\ c.rest \in Rests /\ rest \in Rests
  BY DEF CallRecords, Rests
<1>2. w \in Workers /\ w # NoWorker
  BY <1>1, QueueAssumption DEF Sockets, WorkerOf
<1>3. /\ s.stage[c.job] \in Stages \union {"Absent"}
      /\ s.stage[c.job] = "Finished" => c.job \in D
  BY <1>1 DEF Sound, States
<1>4. s1 \in Sound(D)
  <2> HIDE DEF w
  <2>1. UpdateJobStatus(s, c.job, s.stage[c.job], w) \in Sound(D)
    BY <1>1, <1>2, <1>3, UpdateJobStatusSound
  <2>2. ReleaseClaimedJob(s, c.job, w) \in Sound(D)
    BY <1>1, ReleaseClaimedJobSound
  <2> QED
    BY <2>1, <2>2
<1> HIDE DEF s1, rest
<1>5. SetQueueStatus(s1, "Active") \in Sound(D)
  BY <1>4, SetQueueStatusSound DEF QueueStatus
<1>6. /\ ContinueStartQueue(SetQueueStatus(s1, "Active"), rest) \in Sound(D)
      /\ ContinueStartQueue(s1, c.rest) \in Sound(D)
      /\ ReportStart(s1, didStart) \in Sound(D)
  BY <1>1, <1>4, <1>5, ContinueStartQueueSound, ReportStartSound
<1>7. StartAnswered(s, c, didStart) =
        CASE c.then # "Loop" -> ReportStart(s1, didStart)
          [] c.then = "Loop" /\ didStart ->
               ContinueStartQueue(SetQueueStatus(s1, "Active"), rest)
          [] OTHER -> ContinueStartQueue(s1, c.rest)
  BY DEF StartAnswered, s1, rest
<1> QED
  BY <1>6, <1>7

\* The stage written after a stop is an ended one.
LEMMA FinishStopSound ==
  ASSUME NEW D, NEW s \in Sound(D), NEW j \in Jobs, NEW w,
         NEW to \in {"Stopped", "Error"}
  PROVE  FinishStop(s, j, w, to) \in Sound(D)
<1> DEFINE s1 == UpdateJobStatus(RemoveJobOrder(s, j), j, to, NoWorker)
<1>1. to \in Stages /\ to \notin ActiveStages /\ to # "Finished"
  BY DEF Stages, ActiveStages, EndedStages
<1>2. s1 \in Sound(D)
  BY <1>1, RemoveJobOrderSound, UpdateJobStatusSound
<1> HIDE DEF s1
<1>3. WorkerForAvailableJobsOrThrow(s1, w) \in Sound(D)
  BY <1>2, WorkerForAvailableJobsOrThrowSound
<1> QED
  BY <1>2, <1>3 DEF FinishStop, s1

\* A stop asks the worker or ends at once; both are sound.
LEMMA StopJobSound ==
  ASSUME NEW D, NEW s \in Sound(D), NEW j \in Jobs, NEW to \in {"Stopped", "Error"}
  PROVE  StopJob(s, j, to) \in Sound(D)
<1> DEFINE w == s.owner[j]
<1>1. Throw(s) \in Sound(D) /\ FinishStop(s, j, w, to) \in Sound(D)
  BY ThrowSound, FinishStopSound
<1>2. ASSUME Connected(s, w)
      PROVE  Ask(s, Call("stop", SocketOf(s, w), j, to)) \in Sound(D)
  <2>1. SocketOf(s, w) \in Sockets
    BY <1>2, SocketOfConnected DEF Sound
  <2>2. Call("stop", SocketOf(s, w), j, to) \in CallRecords
    BY <2>1, CallType DEF Ops, Thens
  <2> QED
    BY <2>2, AskSound
<1> QED
  BY <1>1, <1>2 DEF StopJob

\* A reset job waits without an owner.
LEMMA ResetJobSound ==
  ASSUME NEW D, NEW s \in Sound(D), NEW j \in Jobs
  PROVE  ResetJob(s, j) \in Sound(D)
<1> DEFINE s1 == UpdateJobStatus(InsertJobOrder(s, j), j, "Waiting", NoWorker)
<1>1. "Waiting" \in Stages /\ "Waiting" \notin ActiveStages
  BY DEF Stages, ActiveStages
<1>2. s1 \in Sound(D)
  BY <1>1, InsertJobOrderSound, UpdateJobStatusSound
<1> QED
  BY <1>2, JobForAvailableWorkersSound DEF ResetJob

\* The removal of a job, or its refusal, is sound.
LEMMA RemoveJobSound ==
  ASSUME NEW D, NEW s \in Sound(D), NEW j \in Jobs
  PROVE  RemoveJob(s, j) \in Sound(D)
BY ThrowSound, RemoveJobByIDSound DEF RemoveJob

\* The clean-up after a disconnect is sound.
LEMMA CleanupWorkerSound ==
  ASSUME NEW D, NEW s \in Sound(D), NEW k
  PROVE  CleanupWorker(s, k) \in Sound(D)
<1> DEFINE active == {j \in Jobs : s.owner[j] = WorkerOf(k) /\ s.stage[j] \in ActiveStages}
           s1 == [s EXCEPT !.workers = @ \ {k}, !.props = @ \ {WorkerOf(k)}]
<1>1. s1 \in Sound(D)
  BY DEF Sound, States
<1>2. ASSUME active # {}
      PROVE  [s1 EXCEPT !.stage[Min(active)] = "Unknown"] \in Sound(D)
  <2>1. Min(active) \in active
    BY <1>2, MinIsMember
  <2>2. Min(active) \in Jobs /\ s1.stage[Min(active)] \in ActiveStages
    BY <2>1
  <2>3. "Unknown" \in Stages /\ "Unknown" # "Finished"
    BY DEF Stages, ActiveStages
  <2> HIDE DEF active, s1
  <2> QED
    BY <1>1, <2>2, <2>3 DEF Sound, States
<1> QED
  BY <1>1, <1>2 DEF CleanupWorker

-----------------------------------------------------------------------------
(* The actions. *)

\* The invariant holds initially.
LEMMA InitSound == Init => IInv
<1> SUFFICES ASSUME Init PROVE IInv
  OBVIOUS
<1>1. <<>> \in Seq(CallRecords)
  BY EmptySeq
<1>2. Server \in States
  BY <1>1 DEF Init, Server, States, QueueStatus
<1>3. Server \in Sound(delivered)
  BY <1>2, "Absent" \notin ActiveStages DEF Init, Server, Sound, ActiveStages
<1> QED
  BY <1>3 DEF Init, IInv

\* A handler that moves to a sound state keeps the invariant.
LEMMA BecomeSound ==
  ASSUME NEW D, NEW s \in Sound(D), Become(s)
  PROVE  Server' \in Sound(D)
<1>1. s \in States
  BY DEF Sound
<1>2. s = [running |-> s.running, stage |-> s.stage, owner |-> s.owner,
           order |-> s.order, queue |-> s.queue, workers |-> s.workers,
           props |-> s.props, disabled |-> s.disabled, calls |-> s.calls,
           completed |-> s.completed, uploads |-> s.uploads,
           verifying |-> s.verifying]
  BY <1>1 DEF States
<1>3. Server' = s
  BY <1>2 DEF Become, Server
<1> QED
  BY <1>3

\* A restart keeps the invariant: the stages it repairs stay owned.
LEMMA RestartSound ==
  ASSUME IInv, Restart
  PROVE  IInv'
<1>1. queue' \in QueueStatus
  BY ServerAssumption DEF IInv, Sound, States, Server, Restart, StartupStatus, QueueStatus
<1>2. /\ stage' \in [Jobs -> Stages \union {"Absent"}]
      /\ \A j \in Jobs : stage'[j] = "Finished" => stage[j] = "Finished"
      /\ \A j \in Jobs : stage'[j] \in ActiveStages => stage[j] \in ActiveStages
  BY DEF IInv, Sound, States, Server, Restart, Stages, ActiveStages
<1>3. Server' \in States
  BY <1>1, <1>2 DEF IInv, Sound, States, Server, Restart, memory
<1> QED
  BY <1>2, <1>3 DEF IInv, Sound, Server, Restart, memory

\* Clearing the queue removes jobs only.
LEMMA ClearsQueueSound ==
  ASSUME IInv, NEW finishedOnly \in BOOLEAN, ClientClearsQueue(finishedOnly)
  PROVE  Server' \in Sound(delivered)
<1> DEFINE gone == {j \in Jobs : stage[j] \in ClearableStages(finishedOnly)}
           left == {j \in Jobs \ gone : order[j] # 0}
           below(j) == {i \in gone : 0 < order[i] /\ order[i] < order[j]}
           f == [j \in Jobs |-> IF j \notin left THEN 0
                                ELSE order[j] - Cardinality(below(j))]
           s1 == [Server EXCEPT
                    !.stage = [j \in Jobs |-> IF j \in gone THEN "Absent" ELSE @[j]],
                    !.owner = [j \in Jobs |-> IF j \in gone THEN NoWorker ELSE @[j]]]
<1>1. Server \in Sound(delivered) /\ order \in [Jobs -> Int]
  BY DEF IInv, Sound, States, Server
<1>2. s1 \in Sound(delivered)
  <2> HIDE DEF gone
  <2> QED
    BY <1>1 DEF Sound, States, Server, ActiveStages
<1>3. f \in [Jobs -> Int]
  <2>1. ASSUME NEW j \in Jobs PROVE Cardinality(below(j)) \in Int
    <3>1. IsFiniteSet(Jobs)
      BY QueueAssumption, FS_Interval DEF Jobs
    <3>2. IsFiniteSet(below(j))
      BY <3>1, FS_Subset, below(j) \subseteq Jobs
    <3> QED
      BY <3>2, FS_CardinalityType
  <2>2. \A j \in Jobs : order[j] - Cardinality(below(j)) \in Int
    BY <1>1, <2>1
  <2> HIDE DEF below, left
  <2> QED
    BY <2>2
<1>4. [s1 EXCEPT !.order = f] \in Sound(delivered)
  BY <1>2, <1>3, ReorderedSound
<1>5. Become([s1 EXCEPT !.order = f])
  BY DEF ClientClearsQueue, ClientRequest, ClientStep, Server
<1> QED
  BY <1>4, <1>5, BecomeSound

\* Every request of a client keeps the invariant.
LEMMA ClientSound ==
  ASSUME IInv, ClientNext
  PROVE  IInv'
<1>1. Server \in Sound(delivered)
  BY DEF IInv
<1>2. UNCHANGED <<sockets, delivered>> /\ nextJob' \in {nextJob, nextJob + 1}
  BY DEF ClientNext, ClientAddsJob, ClientStartsQueue, ClientStopsQueue, ClientStopsJob,
         ClientResetsJob, ClientRemovesJob, ClientReordersJob, ClientClearsQueue,
         ClientSetsWorkerEnabled, ClientRequest, ClientStep
<1>3. SUFFICES Server' \in Sound(delivered)
  BY <1>2 DEF IInv
<1>4. CASE ClientAddsJob
  <2>1. nextJob \in Jobs
    BY <1>4 DEF ClientAddsJob
  <2>2. JobForAvailableWorkers(InsertJob(Server, nextJob), nextJob) \in Sound(delivered)
    BY <1>1, <2>1, InsertJobSound, JobForAvailableWorkersSound
  <2> QED
    BY <1>4, <2>2, BecomeSound DEF ClientAddsJob, ClientStep
<1>5. CASE ClientStartsQueue
  BY <1>1, <1>5, StartQueueSound, BecomeSound DEF ClientStartsQueue, ClientRequest, ClientStep
<1>6. CASE ClientStopsQueue
  <2>1. SetQueueStatus(Server, "Stopped") \in Sound(delivered)
    BY <1>1, SetQueueStatusSound DEF QueueStatus
  <2> QED
    BY <1>6, <2>1, BecomeSound DEF ClientStopsQueue, ClientRequest, ClientStep
<1>7. ASSUME NEW j \in KnownJobs, ClientStopsJob(j)
      PROVE  Server' \in Sound(delivered)
  <2>1. StopJob(Server, j, "Stopped") \in Sound(delivered)
    BY <1>1, StopJobSound DEF KnownJobs
  <2> QED
    BY <1>7, <2>1, BecomeSound DEF ClientStopsJob, ClientRequest, ClientStep
<1>8. ASSUME NEW j \in KnownJobs, ClientResetsJob(j)
      PROVE  Server' \in Sound(delivered)
  <2>1. ResetJob(Server, j) \in Sound(delivered)
    BY <1>1, ResetJobSound DEF KnownJobs
  <2> QED
    BY <1>8, <2>1, BecomeSound DEF ClientResetsJob, ClientRequest, ClientStep
<1>9. ASSUME NEW j \in KnownJobs, ClientRemovesJob(j)
      PROVE  Server' \in Sound(delivered)
  <2>1. RemoveJob(Server, j) \in Sound(delivered)
    BY <1>1, RemoveJobSound DEF KnownJobs
  <2> QED
    BY <1>9, <2>1, BecomeSound DEF ClientRemovesJob, ClientRequest, ClientStep
<1>10. ASSUME NEW j \in KnownJobs, NEW n \in Jobs, ClientReordersJob(j, n)
       PROVE  Server' \in Sound(delivered)
  <2>1. j \in Jobs /\ n \in Int
    BY DEF KnownJobs, Jobs
  <2>2. Throw(Server) \in Sound(delivered) /\ MoveJobOrder(Server, j, n) \in Sound(delivered)
    BY <1>1, <2>1, ThrowSound, MoveJobOrderSound
  <2> QED
    BY <1>10, <2>2, BecomeSound DEF ClientReordersJob, ClientRequest, ClientStep
<1>11. ASSUME NEW w \in Workers, NEW accepts \in BOOLEAN, ClientSetsWorkerEnabled(w, accepts)
       PROVE  Server' \in Sound(delivered)
  <2> DEFINE k == SocketOf(Server, w)
             s == [Server EXCEPT !.disabled = IF accepts THEN @ \ {k} ELSE @ \union {k}]
  <2>1. k \in Sockets
    BY <1>1, <1>11, SocketOfConnected DEF Sound, ClientSetsWorkerEnabled
  <2>2. s \in Sound(delivered)
    <3> HIDE DEF k
    <3> QED
      BY <1>1, <2>1 DEF Sound, States
  <2>3. WorkerForAvailableJobs(s, w, "Assign") \in Sound(delivered)
    <3> HIDE DEF s
    <3> QED
      BY <2>2, WorkerForAvailableJobsSound
  <2>4. Become(IF accepts THEN WorkerForAvailableJobs(s, w, "Assign") ELSE s)
    BY <1>11 DEF ClientSetsWorkerEnabled, ClientStep
  <2> HIDE DEF s
  <2> QED
    BY <2>2, <2>3, <2>4, BecomeSound
<1> QED
  BY <1>4, <1>5, <1>6, <1>7, <1>8, <1>9, <1>10, <1>11, ClearsQueueSound DEF ClientNext

\* What a step of the server owes to the invariant.
LEMMA ServerStepSound ==
  ASSUME IInv, NEW s \in Sound(delivered), ServerStep(s), sockets' \in Nat
  PROVE  IInv'
<1>1. Server' \in Sound(delivered)
  BY BecomeSound DEF ServerStep
<1> QED
  BY <1>1 DEF IInv, ServerStep

\* A new connection of a worker keeps the invariant.
LEMMA ConnectsSound ==
  ASSUME IInv, NEW w \in Workers, WorkerConnects(w)
  PROVE  IInv'
<1> DEFINE k == <<w, sockets + 1>>
           s == [Server EXCEPT !.workers = @ \union {k}]
<1>1. k \in Sockets /\ sockets' \in Nat
  BY DEF IInv, Sockets, WorkerConnects
<1>2. PICK accepts \in BOOLEAN :
        ServerStep(Ask([s EXCEPT !.disabled = IF accepts THEN @ ELSE @ \union {k}],
                       Call("properties", k, NoJob, "Init")))
  BY DEF WorkerConnects
<1> DEFINE t == [s EXCEPT !.disabled = IF accepts THEN @ ELSE @ \union {k}]
<1>3. Call("properties", k, NoJob, "Init") \in CallRecords
  <2> HIDE DEF k
  <2> QED
    BY <1>1, CallType DEF Ops, Thens
<1>4. t \in Sound(delivered)
  <2> HIDE DEF k
  <2> QED
    BY <1>1 DEF IInv, Sound, States
<1>5. Ask(t, Call("properties", k, NoJob, "Init")) \in Sound(delivered)
  <2> HIDE DEF t, k
  <2> QED
    BY <1>3, <1>4, AskSound
<1> QED
  BY <1>1, <1>2, <1>5, ServerStepSound

\* A lost connection keeps the invariant.
LEMMA DisconnectsSound ==
  ASSUME IInv, NEW k, WorkerDisconnects(k)
  PROVE  IInv'
<1>1. CleanupWorker(Server, k) \in Sound(delivered)
  BY CleanupWorkerSound DEF IInv
<1> QED
  BY <1>1, ServerStepSound DEF WorkerDisconnects, IInv

\* An answered call is forgotten; the state stays sound.
LEMMA WithoutSound ==
  ASSUME IInv, NEW i \in DOMAIN calls
  PROVE  /\ Without(i) \in Sound(delivered)
         /\ calls[i] \in CallRecords /\ calls[i].to \in Sockets
         /\ calls[i].op \in {"start", "stop"} => calls[i].job \in Jobs
         /\ calls[i].op = "stop" => calls[i].then \in {"Stopped", "Error"}
<1>1. calls \in Seq(CallRecords)
  BY DEF IInv, Sound, States, Server
<1>2. RemoveAt(calls, i) \in Seq(CallRecords)
  BY <1>1, RemoveAtType
<1>3. Without(i) \in Sound(delivered)
  BY <1>2 DEF Without, IInv, Sound, States, Server
<1>4. i \in 1 .. Len(calls)
  BY <1>1, LenProperties
<1>5. calls[i] \in CallRecords
  BY <1>1, <1>4, ElementOfSeq
<1> QED
  BY <1>3, <1>5 DEF CallRecords

\* Every answer to a call keeps the invariant.
LEMMA AnswerSound ==
  ASSUME IInv, AnswerNext, UNCHANGED sockets
  PROVE  IInv'
<1>1. sockets' \in Nat
  BY DEF IInv
<1>2. SUFFICES ASSUME NEW i \in DOMAIN calls,
                      \/ PropertiesAnswered(i)
                      \/ \E j \in KnownJobs \union {NoJob} : ExistingJobAnswered(i, j)
                      \/ StaleStopAnswered(i)
                      \/ \E didStart \in BOOLEAN : StartCallAnswered(i, didStart)
                      \/ StopAnswered(i)
               PROVE  IInv'
  BY DEF AnswerNext
<1> DEFINE c == calls[i]
           k == c.to
           s == Without(i)
<1>3. /\ s \in Sound(delivered) /\ c \in CallRecords /\ k \in Sockets
      /\ c.op \in {"start", "stop"} => c.job \in Jobs
      /\ c.op = "stop" => c.then \in {"Stopped", "Error"}
  BY WithoutSound
<1>4. WorkerOf(k) \in Workers /\ WorkerOf(k) # NoWorker
  BY <1>3, QueueAssumption DEF Sockets, WorkerOf
<1>5. CASE PropertiesAnswered(i)
  <2> DEFINE t == [s EXCEPT !.props = @ \union {WorkerOf(k)}]
  <2>1. Call("existing", k, NoJob, "Init") \in CallRecords
    BY <1>3, CallType DEF Ops, Thens
  <2>2. t \in Sound(delivered)
    <3> HIDE DEF s, k
    <3> QED
      BY <1>3, <1>4 DEF Sound, States
  <2>3. Ask(t, Call("existing", k, NoJob, "Init")) \in Sound(delivered)
    <3> HIDE DEF t, k
    <3> QED
      BY <2>1, <2>2, AskSound
  <2> QED
    BY <1>1, <1>5, <2>3, ServerStepSound DEF PropertiesAnswered
<1>6. ASSUME NEW j \in KnownJobs \union {NoJob}, ExistingJobAnswered(i, j)
      PROVE  IInv'
  <2> DEFINE t == CASE j = NoJob -> WorkerForAvailableJobs(s, WorkerOf(k), "Init")
                    [] j # NoJob /\ ~Owns(k, j) -> Ask(s, Call("stale", k, j, "Init"))
                    [] j # NoJob /\ Owns(k, j) /\ stage[j] \notin ActiveStages ->
                         UpdateJobStatus(s, j, "Unknown", WorkerOf(k))
                    [] OTHER -> s
  <2>1. WorkerForAvailableJobs(s, WorkerOf(k), "Init") \in Sound(delivered)
    BY <1>3, WorkerForAvailableJobsSound
  <2>2. Ask(s, Call("stale", k, j, "Init")) \in Sound(delivered)
    <3>1. j \in Jobs \union {NoJob}
      BY DEF KnownJobs
    <3>2. Call("stale", k, j, "Init") \in CallRecords
      BY <1>3, <3>1, CallType DEF Ops, Thens
    <3> QED
      BY <1>3, <3>2, AskSound
  <2>3. ASSUME j # NoJob PROVE UpdateJobStatus(s, j, "Unknown", WorkerOf(k)) \in Sound(delivered)
    <3>1. j \in Jobs /\ "Unknown" \in Stages
      BY <2>3 DEF KnownJobs, Stages, ActiveStages
    <3> HIDE DEF s, k
    <3> QED
      BY <1>3, <1>4, <3>1, UpdateJobStatusSound
  <2>4. t \in Sound(delivered)
    <3> HIDE DEF s, k
    <3> QED
      BY <1>3, <2>1, <2>2, <2>3
  <2>5. ServerStep(t)
    BY <1>6 DEF ExistingJobAnswered
  <2> HIDE DEF t
  <2> QED
    BY <1>1, <2>4, <2>5, ServerStepSound
<1>7. CASE StaleStopAnswered(i)
  <2>1. WorkerForAvailableJobs(s, WorkerOf(k), "Init") \in Sound(delivered)
    BY <1>3, WorkerForAvailableJobsSound
  <2> QED
    BY <1>1, <1>7, <2>1, ServerStepSound DEF StaleStopAnswered
<1>8. ASSUME NEW didStart \in BOOLEAN, StartCallAnswered(i, didStart)
      PROVE  IInv'
  <2>1. c.op = "start" /\ ServerStep(StartAnswered(s, c, didStart))
    BY <1>8 DEF StartCallAnswered, Answered
  <2>2. StartAnswered(s, c, didStart) \in Sound(delivered)
    <3> HIDE DEF s, c
    <3> QED
      BY <1>3, <2>1, StartAnsweredSound
  <2> QED
    BY <1>1, <2>1, <2>2, ServerStepSound
<1>9. CASE StopAnswered(i)
  <2>1. c.op = "stop" /\ ServerStep(FinishStop(s, c.job, WorkerOf(k), c.then))
    BY <1>9 DEF StopAnswered, Answered
  <2>2. FinishStop(s, c.job, WorkerOf(k), c.then) \in Sound(delivered)
    BY <1>3, <2>1, FinishStopSound
  <2> QED
    BY <1>1, <2>1, <2>2, ServerStepSound
<1> QED
  BY <1>2, <1>5, <1>6, <1>7, <1>8, <1>9

\* Every time-out of a call keeps the invariant.
LEMMA TimeoutSound ==
  ASSUME IInv, CallTimesOut
  PROVE  IInv'
<1> DEFINE c == calls[1]
           s == Without(1)
           t == CASE c.op = "start" -> StartAnswered(s, c, FALSE)
                  [] c.op = "stop"  -> FinishStop(s, c.job, WorkerOf(c.to), c.then)
                  [] c.op = "stale" -> s
                  [] c.op \in {"properties", "existing"} ->
                       IF c.to \in workers THEN CleanupWorker(s, c.to) ELSE s
<1>1. ServerStep(t) /\ sockets' \in Nat
  BY DEF CallTimesOut, IInv
<1>2. 1 \in DOMAIN calls
  <2>1. calls \in Seq(CallRecords) /\ calls # <<>>
    BY DEF IInv, Sound, States, Server, CallTimesOut
  <2> QED
    BY <2>1, EmptySeq, LenProperties
<1>3. /\ s \in Sound(delivered) /\ c \in CallRecords
      /\ c.op \in {"start", "stop"} => c.job \in Jobs
      /\ c.op = "stop" => c.then \in {"Stopped", "Error"}
  BY <1>2, WithoutSound
<1> HIDE DEF s, c
<1>4. c.op = "start" => StartAnswered(s, c, FALSE) \in Sound(delivered)
  BY <1>3, StartAnsweredSound
<1>5. c.op = "stop" => FinishStop(s, c.job, WorkerOf(c.to), c.then) \in Sound(delivered)
  BY <1>3, FinishStopSound
<1>6. CleanupWorker(s, c.to) \in Sound(delivered)
  BY <1>3, CleanupWorkerSound
<1>7. c.op \in Ops
  BY <1>3 DEF CallRecords
<1>8. t \in Sound(delivered)
  BY <1>3, <1>4, <1>5, <1>6, <1>7 DEF Ops
<1> HIDE DEF t
<1> QED
  BY <1>1, <1>8, ServerStepSound

\* An event of an owning worker that moves to a sound state keeps the invariant.
LEMMA WorkerEventSound ==
  ASSUME IInv, NEW k, NEW s \in Sound(delivered), WorkerEvent(k, s)
  PROVE  IInv'
BY ServerStepSound DEF WorkerEvent, IInv

\* The record of a completed upload may be dropped at any time.
LEMMA ClearCompletedSound ==
  ASSUME NEW D, NEW s \in Sound(D), NEW j \in Jobs
  PROVE  ClearCompleted(s, j) \in Sound(D)
BY DEF Sound, States, ClearCompleted

\* A verified finish was delivered, because the record of the upload said so.
LEMMA FinishVerifiedSound ==
  ASSUME IInv, NEW v \in verifying, NEW isFile \in BOOLEAN,
         FinishVerified(v[1], v[2], isFile)
  PROVE  IInv'
<1> DEFINE k == v[1]
           j == v[2]
           s == [Server EXCEPT !.verifying = @ \ {<<k, j>>}]
           s0 == UpdateJobStatus(s, j, "Finished", WorkerOf(k))
           s1 == RemoveJobOrder(s0, j)
           t == IF isFile
                THEN WorkerForAvailableJobsOrThrow(ClearCompleted(s1, j), WorkerOf(k))
                ELSE StopJob(s, j, "Error")
<1>1. k \in Sockets /\ j \in Jobs /\ j \in delivered
  BY DEF IInv, Sound, States, Server
<1>2. WorkerOf(k) \in Workers
  BY <1>1 DEF Sockets, WorkerOf
<1>3. s \in Sound(delivered)
  <2> HIDE DEF k, j
  <2> QED
    BY DEF IInv, Sound, States, Server
<1>4. s0 \in Sound(delivered)
  <2>1. "Finished" \in Stages /\ "Finished" \notin ActiveStages
    BY DEF Stages, EndedStages, ActiveStages
  <2> HIDE DEF s, k, j
  <2> QED
    BY <1>1, <1>2, <1>3, <2>1, UpdateJobStatusSound
<1>5. s1 \in Sound(delivered)
  <2> HIDE DEF s0, j
  <2> QED
    BY <1>1, <1>4, RemoveJobOrderSound
<1>6. ClearCompleted(s1, j) \in Sound(delivered)
  <2> HIDE DEF s1, j
  <2> QED
    BY <1>1, <1>5, ClearCompletedSound
<1>7. WorkerForAvailableJobsOrThrow(ClearCompleted(s1, j), WorkerOf(k)) \in Sound(delivered)
  BY <1>6, WorkerForAvailableJobsOrThrowSound
<1>8. StopJob(s, j, "Error") \in Sound(delivered)
  <2> HIDE DEF s, j
  <2> QED
    BY <1>1, <1>3, StopJobSound
<1>9. t \in Sound(delivered)
  BY <1>7, <1>8
<1>10. ServerStep(t) /\ sockets' \in Nat
  BY DEF FinishVerified, IInv
<1> HIDE DEF t
<1> QED
  BY <1>9, <1>10, ServerStepSound

\* Every event of a worker keeps the invariant.
LEMMA EventSound ==
  ASSUME IInv, EventNext
  PROVE  IInv'
<1>1. Server \in Sound(delivered)
  BY DEF IInv
<1>2. ASSUME NEW k \in workers, NEW j \in KnownJobs,
             \/ \E reported \in ReportedStages : TranscodeUpdate(k, j, reported)
             \/ TranscodeStopped(k, j)
             \/ TranscodeError(k, j)
             \/ UnverifiedFinish(k, j)
             \/ FinishReported(k, j)
      PROVE  IInv'
  <2>1. j \in Jobs /\ k \in Sockets
    BY DEF KnownJobs, IInv, Sound, States, Server
  <2>2. WorkerOf(k) \in Workers /\ WorkerOf(k) # NoWorker
    BY <2>1, QueueAssumption DEF Sockets, WorkerOf
  <2>3. ClearCompleted(Server, j) \in Sound(delivered)
    BY <1>1, <2>1, ClearCompletedSound
  <2>4. ASSUME NEW reported \in ReportedStages, TranscodeUpdate(k, j, reported)
        PROVE  IInv'
    <3>1. reported \in Stages /\ reported # "Finished"
      BY DEF ReportedStages, Stages, ActiveStages
    <3>2. UpdateJobStatus(Server, j, reported, WorkerOf(k)) \in Sound(delivered)
      BY <1>1, <2>1, <2>2, <3>1, UpdateJobStatusSound
    <3> QED
      BY <2>4, <3>2, WorkerEventSound DEF TranscodeUpdate
  <2>5. CASE TranscodeStopped(k, j)
    <3> DEFINE s1 == RemoveJobOrder(ClearCompleted(Server, j), j)
               s2 == UpdateJobStatus(s1, j, "Stopped", NoWorker)
    <3>1. s1 \in Sound(delivered)
      BY <2>1, <2>3, RemoveJobOrderSound
    <3>2. "Stopped" \in Stages /\ "Stopped" \notin ActiveStages
      BY DEF Stages, EndedStages, ActiveStages
    <3>3. s2 \in Sound(delivered)
      <4> HIDE DEF s1
      <4> QED
        BY <2>1, <3>1, <3>2, UpdateJobStatusSound
    <3>4. IdleIfNoneBusy(s2) \in Sound(delivered)
      BY <3>3, IdleIfNoneBusySound
    <3> QED
      BY <2>5, <3>4, WorkerEventSound DEF TranscodeStopped
  <2>6. CASE TranscodeError(k, j)
    <3>1. StopJob(ClearCompleted(Server, j), j, "Error") \in Sound(delivered)
      BY <2>1, <2>3, StopJobSound
    <3> QED
      BY <2>6, <3>1, WorkerEventSound DEF TranscodeError
  <2>7. CASE UnverifiedFinish(k, j)
    <3>1. StopJob(Server, j, "Error") \in Sound(delivered)
      BY <1>1, <2>1, StopJobSound
    <3> QED
      BY <2>7, <3>1, WorkerEventSound DEF UnverifiedFinish
  <2>8. CASE FinishReported(k, j)
    <3> DEFINE s == [Server EXCEPT !.verifying = @ \union {<<k, j>>}]
    <3>1. completed[j] # NoWorker
      BY <2>2, <2>8 DEF FinishReported
    <3>2. j \in delivered
      BY <1>1, <2>1, <3>1 DEF Sound, Server
    <3>3. /\ Server.verifying \union {<<k, j>>} \subseteq Sockets \X Jobs
          /\ \A v \in Server.verifying \union {<<k, j>>} : v[2] \in delivered
      BY <1>1, <2>1, <3>2 DEF Sound, States
    <3>4. s \in Sound(delivered)
      BY <1>1, <3>3 DEF Sound, States
    <3> QED
      BY <2>8, <3>4, WorkerEventSound DEF FinishReported
  <2> QED
    BY <1>2, <2>4, <2>5, <2>6, <2>7, <2>8
<1> QED
  BY <1>2, FinishVerifiedSound DEF EventNext

\* The begin and the end of an upload keep the invariant.
LEMMA UploadSound ==
  ASSUME IInv, UploadNext
  PROVE  IInv'
<1>1. Server \in Sound(delivered)
  BY DEF IInv
<1>2. ASSUME NEW w \in Workers, NEW j \in KnownJobs, UploadStarts(w, j)
      PROVE  IInv'
  <2> DEFINE s == ClearCompleted(Server, j)
             t == [s EXCEPT !.uploads = @ \union {<<w, j>>}]
  <2>1. j \in Jobs
    BY DEF KnownJobs
  <2>2. s \in Sound(delivered)
    BY <1>1, <2>1, ClearCompletedSound
  <2>3. t \in Sound(delivered)
    <3> HIDE DEF s
    <3>1. s.uploads \union {<<w, j>>} \subseteq Workers \X Jobs
      BY <2>1, <2>2 DEF Sound, States
    <3> QED
      BY <2>2, <3>1 DEF Sound, States
  <2>4. ServerStep(t) /\ sockets' \in Nat
    BY <1>2 DEF UploadStarts, IInv
  <2> HIDE DEF t
  <2> QED
    BY <2>3, <2>4, ServerStepSound
<1>3. ASSUME NEW w \in Workers, NEW j \in KnownJobs, NEW ok \in BOOLEAN, UploadEnds(w, j, ok)
      PROVE  IInv'
  <2> DEFINE s == [Server EXCEPT !.uploads = @ \ {<<w, j>>}]
             t == IF ok THEN [s EXCEPT !.completed[j] = w] ELSE s
  <2>1. j \in Jobs
    BY DEF KnownJobs
  <2>2. delivered' = (IF ok THEN delivered \union {j} ELSE delivered) /\ Become(t)
        /\ nextJob' \in Nat /\ sockets' \in Nat
    BY <1>3 DEF UploadEnds, IInv
  <2>3. s \in Sound(delivered)
    BY <1>1 DEF Sound, States
  <2>4. t \in Sound(delivered')
    <3> HIDE DEF s
    <3> QED
      BY <2>1, <2>2, <2>3 DEF Sound, States
  <2>5. Server' \in Sound(delivered')
    <3> HIDE DEF t
    <3> QED
      BY <2>2, <2>4, BecomeSound
  <2> QED
    BY <2>1, <2>2, <2>5 DEF IInv
<1> QED
  BY <1>2, <1>3 DEF UploadNext

-----------------------------------------------------------------------------
(* The theorems. *)

\* The invariant is inductive.
LEMMA NextSound == IInv /\ [Next]_vars => IInv'
<1> SUFFICES ASSUME IInv, [Next]_vars PROVE IInv'
  OBVIOUS
<1>1. CASE Kill
  <2>1. Throw(Server) \in Sound(delivered)
    BY ThrowSound DEF IInv
  <2>2. Server' \in Sound(delivered)
    BY <1>1, <2>1, BecomeSound DEF Kill
  <2> QED
    BY <1>1, <2>2 DEF Kill, IInv
<1>2. CASE UNCHANGED vars
  BY <1>2 DEF vars, IInv, Server
<1> QED
  BY <1>1, <1>2, RestartSound, ClientSound, ConnectsSound, DisconnectsSound,
     AnswerSound, TimeoutSound, EventSound, UploadSound DEF Next

\* The invariant holds in every reachable state.
LEMMA SpecSound == Spec => []IInv
<1> QED
  BY InitSound, NextSound, PTL DEF Spec

\* The tables and the memory of the server keep their types.
THEOREM TypesHold == Spec => []TypeOK
<1>1. IInv => TypeOK
  BY DEF IInv, Sound, States, Server, TypeOK
<1> QED
  BY <1>1, SpecSound, PTL

\* An active job names its worker, for any number of jobs, workers and calls.
THEOREM ActiveJobsHaveOwners == Spec => []ActiveJobHasOwner
<1>1. IInv => ActiveJobHasOwner
  BY DEF IInv, Sound, Server, ActiveJobHasOwner
<1> QED
  BY <1>1, SpecSound, PTL

\* A Finished job was delivered, for any number of jobs, workers and calls.
THEOREM FinishedJobsWereDelivered == Spec => []FinishedWasDelivered
<1>1. IInv => FinishedWasDelivered
  BY DEF IInv, Sound, Server, FinishedWasDelivered
<1> QED
  BY <1>1, SpecSound, PTL

-----------------------------------------------------------------------------
(* Disabled workers.  Respects(s, t) says of what a handler does to a server *)
(* state that the starts it asks for go to workers that accept jobs, and     *)
(* that it does not disable a worker itself.                                 *)

Respects(s, t) ==
  /\ t.disabled \subseteq s.disabled
  /\ \A c \in Range(t.calls) :
       c.op = "start" => c \in Range(s.calls) \/ c.to \notin t.disabled

\* The calls and the flags are as before.
Quiet(s, t) == t.calls = s.calls /\ t.disabled = s.disabled

\* What one part of a handler respects and the next part too, the handler respects.
LEMMA RespectsCompose ==
  ASSUME NEW s, NEW t, NEW u, Respects(s, t), Respects(t, u)
  PROVE  Respects(s, u)
BY DEF Respects

\* A part that makes no call changes nothing about that.
LEMMA QuietRespects ==
  ASSUME NEW s, NEW t, Quiet(s, t)
  PROVE  Respects(s, t)
BY DEF Respects, Quiet

\* The same for a quiet part before one that makes calls.
LEMMA QuietThenRespects ==
  ASSUME NEW s, NEW t, NEW u, Quiet(s, t), Respects(t, u)
  PROVE  Respects(s, u)
BY QuietRespects, RespectsCompose

\* Writes of the tables are quiet.
LEMMA RowsAreQuiet ==
  ASSUME NEW D, NEW s \in Sound(D), NEW j, NEW w, NEW x
  PROVE  /\ Quiet(s, s) /\ Quiet(s, SetQueueStatus(s, x)) /\ Quiet(s, ReportStart(s, x))
         /\ Quiet(s, IdleIfNoneBusy(s)) /\ Quiet(s, UpdateJobStatus(s, j, x, w))
         /\ Quiet(s, ReleaseClaimedJob(s, j, w)) /\ Quiet(s, ClearCompleted(s, j))
<1>1. s \in States
  BY DEF Sound
<1> QED
  BY <1>1 DEF Quiet, States, SetQueueStatus, ReportStart, IdleIfNoneBusy, UpdateJobStatus,
              ReleaseClaimedJob, ClearCompleted

\* So are writes of the order.
LEMMA OrderIsQuiet ==
  ASSUME NEW D, NEW s \in Sound(D), NEW j, NEW n
  PROVE  /\ Quiet(s, InsertJobOrder(s, j)) /\ Quiet(s, RemoveJobOrder(s, j))
         /\ Quiet(s, MoveJobOrder(s, j, n))
<1>1. s \in States
  BY DEF Sound
<1>2. \A f : Quiet(s, [s EXCEPT !.order = f])
  BY <1>1 DEF Quiet, States
<1>3. Quiet(s, s)
  BY DEF Quiet
<1>4. Quiet(s, InsertJobOrder(s, j))
  BY <1>2, <1>3 DEF InsertJobOrder
<1>5. Quiet(s, RemoveJobOrder(s, j))
  BY <1>2, <1>3 DEF RemoveJobOrder
<1>6. Quiet(s, MoveJobOrder(s, j, n))
  BY <1>2 DEF MoveJobOrder
<1> QED
  BY <1>4, <1>5, <1>6

\* The calls after one more are the ones before and the new one.
LEMMA RangeOfAppend ==
  ASSUME NEW S, NEW q \in Seq(S), NEW c \in S
  PROVE  Range(Append(q, c)) \subseteq Range(q) \union {c}
<1>1. Len(q) \in Nat /\ Len(Append(q, c)) = Len(q) + 1 /\ Append(q, c) \in Seq(S)
  BY LenProperties, AppendProperties
<1>2. DOMAIN q = 1 .. Len(q) /\ DOMAIN Append(q, c) = 1 .. Len(q) + 1
  BY <1>1, LenProperties
<1>3. ASSUME NEW i \in 1 .. Len(q) + 1
      PROVE  Append(q, c)[i] \in Range(q) \union {c}
  <2>1. CASE i = Len(q) + 1
    BY <2>1, AppendProperties
  <2>2. CASE i # Len(q) + 1
    <3>1. i \in 1 .. Len(q)
      BY <1>1, <2>2
    <3>2. Append(q, c)[i] = q[i]
      BY <3>1, AppendProperties
    <3> QED
      BY <1>2, <3>1, <3>2 DEF Range
  <2> QED
    BY <2>1, <2>2
<1> QED
  BY <1>2, <1>3 DEF Range

\* The calls after one has left were calls before.
LEMMA RangeOfRemoveAt ==
  ASSUME NEW S, NEW q \in Seq(S), NEW i \in DOMAIN q
  PROVE  Range(RemoveAt(q, i)) \subseteq Range(q)
<1> DEFINE a == SubSeq(q, 1, i - 1)
           b == SubSeq(q, i + 1, Len(q))
<1>1. Len(q) \in Nat /\ i \in 1 .. Len(q) /\ DOMAIN q = 1 .. Len(q)
  BY LenProperties
<1>2. a \in Seq(S) /\ Len(a) = i - 1 /\ \A n \in 1 .. i - 1 : a[n] = q[n]
  <2>1. \A n \in 1 .. i - 1 : n \in 1 .. Len(q)
    BY <1>1
  <2>2. 1 \in Int /\ i - 1 \in Int /\ (1 <= i - 1 => 1 \in 1 .. Len(q) /\ i - 1 \in 1 .. Len(q))
    BY <1>1
  <2> QED
    BY <1>1, <2>1, <2>2, SubSeqProperties
<1>3. b \in Seq(S) /\ Len(b) = Len(q) - i /\ \A n \in 1 .. Len(q) - i : b[n] = q[i + n]
  BY <1>1, SubSeqProperties, i + 1 \in Int
<1> HIDE DEF a, b
<1>4. /\ a \o b \in Seq(S) /\ Len(a \o b) = Len(a) + Len(b)
      /\ \A n \in 1 .. Len(a) + Len(b) :
           (a \o b)[n] = IF n <= Len(a) THEN a[n] ELSE b[n - Len(a)]
  BY <1>2, <1>3, ConcatProperties
<1>5. Len(a) = i - 1 /\ Len(a) + Len(b) = Len(q) - 1 /\ DOMAIN (a \o b) = 1 .. Len(q) - 1
  <2>1. Len(a) = i - 1 /\ Len(a) + Len(b) = Len(q) - 1
    BY <1>1, <1>2, <1>3
  <2>2. DOMAIN (a \o b) = 1 .. Len(a \o b) /\ Len(a \o b) = Len(q) - 1
    BY <1>4, <2>1, LenProperties
  <2> QED
    BY <2>1, <2>2
<1>6. ASSUME NEW n \in 1 .. Len(q) - 1 PROVE (a \o b)[n] \in Range(q)
  <2>1. CASE n <= i - 1
    <3>1. n \in 1 .. Len(q) /\ (a \o b)[n] = q[n]
      BY <1>1, <1>2, <1>3, <1>4, <2>1
    <3> QED
      BY <1>1, <3>1 DEF Range
  <2>2. CASE ~(n <= i - 1)
    <3>1. n - (i - 1) \in 1 .. Len(q) - i /\ i + (n - (i - 1)) = n + 1 /\ n + 1 \in 1 .. Len(q)
      BY <1>1, <2>2
    <3>2. (a \o b)[n] = b[n - (i - 1)]
      BY <1>1, <1>4, <1>5, <2>2
    <3>3. b[n - (i - 1)] = q[n + 1]
      BY <1>3, <3>1
    <3> QED
      BY <1>1, <3>1, <3>2, <3>3 DEF Range
  <2> QED
    BY <2>1, <2>2
<1>7. RemoveAt(q, i) = a \o b
  BY DEF RemoveAt, a, b
<1> QED
  BY <1>5, <1>6, <1>7 DEF Range

\* A question is asked of a worker that accepts jobs, or it is not a start.
LEMMA AskRespects ==
  ASSUME NEW D, NEW s \in Sound(D), NEW c \in CallRecords,
         c.op = "start" => c.to \notin s.disabled
  PROVE  Respects(s, Ask(s, c))
<1>1. s \in States /\ s.calls \in Seq(CallRecords)
  BY DEF Sound, States
<1>2. Ask(s, c).calls = Append(s.calls, c) /\ Ask(s, c).disabled = s.disabled
  BY <1>1 DEF Ask, States
<1>3. Range(Append(s.calls, c)) \subseteq Range(s.calls) \union {c}
  BY <1>1, RangeOfAppend
<1> QED
  BY <1>2, <1>3 DEF Respects

\* The end of the process leaves no call.
LEMMA ThrowRespects ==
  ASSUME NEW D, NEW s \in Sound(D)
  PROVE  Respects(s, Throw(s))
<1>1. s \in States
  BY DEF Sound
<1>2. Throw(s).calls = <<>> /\ Throw(s).disabled = {}
  BY <1>1 DEF Throw, States
<1>3. Range(<<>>) = {}
  BY DEF Range
<1> QED
  BY <1>2, <1>3 DEF Respects

\* A claim respects the flags if the worker accepts jobs when it is made.
LEMMA ClaimRespects ==
  ASSUME NEW D, NEW s \in Sound(D), NEW j \in Jobs, NEW k \in Sockets, Accepts(s, k),
         NEW then \in {"Assign", "Init", "Loop"}, NEW rest \in Rests
  PROVE  Respects(s, Claim(s, j, k, then, rest))
<1> DEFINE t == [s EXCEPT !.owner[j] = WorkerOf(k)]
           c == [Call("start", k, j, then) EXCEPT !.rest = rest]
<1>1. WorkerOf(k) \in Workers
  BY DEF Sockets, WorkerOf
<1>2. t \in Sound(D) /\ Quiet(s, t)
  BY <1>1, QueueAssumption DEF Sound, States, Quiet
<1>3. c \in CallRecords /\ c.to = k
  BY DEF Call, CallRecords, Rests, Ops, Thens
<1> HIDE DEF t, c
<1>4. Respects(t, Ask(t, c))
  BY <1>2, <1>3, AskRespects DEF Accepts, Quiet
<1> QED
  BY <1>2, <1>4, QuietThenRespects DEF Claim, t, c

\* StartJob looks at the flag itself.
LEMMA AssignRespects ==
  ASSUME NEW D, NEW s \in Sound(D), NEW j \in Jobs, NEW k \in Sockets,
         NEW then \in {"Assign", "Init"}
  PROVE  Respects(s, Assign(s, j, k, then))
<1>1. NoRest \in Rests
  BY DEF NoRest, Rests
<1>2. CASE CanClaim(s, j, k)
  <2>1. Respects(s, Claim(s, j, k, then, NoRest))
    BY <1>1, <1>2, ClaimRespects DEF CanClaim
  <2> QED
    BY <1>2, <2>1 DEF Assign
<1>3. CASE ~CanClaim(s, j, k)
  <2>1. Respects(s, ReportStart(s, FALSE))
    BY RowsAreQuiet, QuietRespects
  <2> QED
    BY <1>3, <2>1 DEF Assign
<1> QED
  BY <1>2, <1>3

\* A job that looks for a worker finds one that accepts jobs.
LEMMA JobForAvailableWorkersRespects ==
  ASSUME NEW D, NEW s \in Sound(D), NEW j \in Jobs
  PROVE  Respects(s, JobForAvailableWorkers(s, j))
<1> DEFINE eligible == GetEligibleWorkers(s, GetAvailableWorkers(s), j)
<1>1. eligible \in SUBSET Sockets
  BY DEF GetEligibleWorkers, GetAvailableWorkers, Sound, States
<1>2. ASSUME eligible # {}
      PROVE  Respects(s, Assign(s, j, FirstSocket(eligible), "Assign"))
  BY <1>1, <1>2, FirstSocketIsMember, AssignRespects
<1>3. Respects(s, s)
  BY RowsAreQuiet, QuietRespects
<1> QED
  BY <1>2, <1>3 DEF JobForAvailableWorkers

\* A worker that looks for a job, also where the lookup of the capabilities throws.
LEMMA WorkerForAvailableJobsRespects ==
  ASSUME NEW D, NEW s \in Sound(D), NEW w
  PROVE  /\ \A then \in {"Assign", "Init"} : Respects(s, WorkerForAvailableJobs(s, w, then))
         /\ Respects(s, WorkerForAvailableJobsOrThrow(s, w))
<1> DEFINE eligible == GetEligibleJobs(GetAvailableJobs(s), w)
<1>1. eligible \in SUBSET Jobs /\ s.order \in [Jobs -> Int] /\ s \in States
  BY DEF GetEligibleJobs, GetAvailableJobs, Sound, States
<1>2. ASSUME MayTakeJob(s, w), eligible # {}, NEW then \in {"Assign", "Init"}
      PROVE  Respects(s, Assign(s, FirstJob(s.order, eligible), SocketOf(s, w), then))
  <2>1. SocketOf(s, w) \in Sockets
    BY <1>1, <1>2, SocketOfConnected DEF MayTakeJob
  <2>2. FirstJob(s.order, eligible) \in Jobs
    BY <1>1, <1>2, FirstJobIsMember
  <2> QED
    BY <2>1, <2>2, AssignRespects
<1>3. Respects(s, s) /\ Respects(s, IdleIfNoneBusy(s))
  BY RowsAreQuiet, QuietRespects
<1>4. \A then \in {"Assign", "Init"} : Respects(s, WorkerForAvailableJobs(s, w, then))
  BY <1>2, <1>3 DEF WorkerForAvailableJobs
<1> QED
  BY <1>4, ThrowRespects DEF WorkerForAvailableJobsOrThrow

\* Every turn of StartQueue looks at the flag again, however old its snapshot is.
LEMMA ContinueStartQueueRespects ==
  ASSUME NEW D, NEW s \in Sound(D), NEW rest \in Rests
  PROVE  Respects(s, ContinueStartQueue(s, rest))
<1> DEFINE stops == LoopStops(s, rest)
           k == FirstSocket(stops)
           passed == {l \in rest.sockets : stops = {} \/ l[2] < k[2]}
           idle == \E l \in passed : GetEligibleJobs(rest.jobs, WorkerOf(l)) = {}
           s1 == IF idle THEN IdleIfNoneBusy(s) ELSE s
           J == GetEligibleJobs(rest.jobs, WorkerOf(k))
           j == FirstJob(rest.order, J)
           left == [rest EXCEPT !.sockets = {l \in @ : l[2] > k[2]}]
<1>1. s1 \in Sound(D) /\ Quiet(s, s1)
  BY IdleIfNoneBusySound, RowsAreQuiet
<1>2. ASSUME stops # {}, WorkerOf(k) \in s.props
      PROVE  Respects(s1, Claim(s1, j, k, "Loop", left))
  <2>1. stops \in SUBSET Sockets
    BY DEF LoopStops, Rests
  <2>2. k \in stops /\ k \in Sockets
    <3> HIDE DEF stops
    <3> QED
      BY <1>2, <2>1, FirstSocketIsMember
  <2>3. J # {} /\ Accepts(s, k)
    BY <1>2, <2>2 DEF LoopStops, CanClaim
  <2>4. J \in SUBSET Jobs /\ rest.order \in [Jobs -> Int]
    BY DEF GetEligibleJobs, Rests
  <2>5. j \in Jobs
    <3> HIDE DEF J
    <3> QED
      BY <2>3, <2>4, FirstJobIsMember
  <2>6. left \in Rests
    <3> HIDE DEF k
    <3> QED
      BY DEF Rests
  <2> HIDE DEF s1, j, k, left
  <2>7. Accepts(s1, k)
    BY <1>1, <2>3 DEF Accepts, Quiet
  <2> QED
    BY <1>1, <2>2, <2>5, <2>6, <2>7, ClaimRespects
<1>3. ContinueStartQueue(s, rest) =
        IF stops = {} \/ WorkerOf(k) \notin s.props THEN s1
        ELSE Claim(s1, j, k, "Loop", left)
  BY DEF ContinueStartQueue
<1> HIDE DEF stops, k, s1, j, left
<1> QED
  BY <1>1, <1>2, <1>3, QuietRespects, QuietThenRespects

\* StartQueue before its first await.
LEMMA StartQueueRespects ==
  ASSUME NEW D, NEW s \in Sound(D)
  PROVE  Respects(s, StartQueue(s))
<1> DEFINE rest == [sockets |-> GetAvailableWorkers(s), jobs |-> GetAvailableJobs(s),
                    order |-> s.order]
<1>1. rest \in Rests
  BY DEF Rests, GetAvailableWorkers, GetAvailableJobs, Sound, States
<1> HIDE DEF rest
<1>2. Respects(s, ContinueStartQueue(s, rest)) /\ Respects(s, s)
  BY <1>1, ContinueStartQueueRespects, RowsAreQuiet, QuietRespects
<1> QED
  BY <1>2 DEF StartQueue, rest

\* An answer to a start, a refusal or a time-out, and what its caller does next.
LEMMA StartAnsweredRespects ==
  ASSUME NEW D, NEW s \in Sound(D), NEW c \in CallRecords, c.op = "start",
         NEW didStart \in BOOLEAN
  PROVE  Respects(s, StartAnswered(s, c, didStart))
<1> DEFINE w == WorkerOf(c.to)
           s1 == IF didStart THEN UpdateJobStatus(s, c.job, s.stage[c.job], w)
                 ELSE ReleaseClaimedJob(s, c.job, w)
           rest == [c.rest EXCEPT !.jobs = @ \ {c.job}]
           s2 == SetQueueStatus(s1, "Active")
<1>1. c.job \in Jobs /\ c.to \in Sockets /\ c.rest \in Rests /\ rest \in Rests
  BY DEF CallRecords, Rests
<1>2. w \in Workers /\ w # NoWorker
  BY <1>1, QueueAssumption DEF Sockets, WorkerOf
<1>3. /\ s.stage[c.job] \in Stages \union {"Absent"}
      /\ s.stage[c.job] = "Finished" => c.job \in D
  BY <1>1 DEF Sound, States
<1>4. s1 \in Sound(D) /\ Quiet(s, s1)
  <2> HIDE DEF w
  <2>1. UpdateJobStatus(s, c.job, s.stage[c.job], w) \in Sound(D)
    BY <1>1, <1>2, <1>3, UpdateJobStatusSound
  <2>2. ReleaseClaimedJob(s, c.job, w) \in Sound(D)
    BY <1>1, ReleaseClaimedJobSound
  <2> QED
    BY <2>1, <2>2, RowsAreQuiet
<1> HIDE DEF s1, rest
<1>5. s2 \in Sound(D) /\ Quiet(s1, s2) /\ Quiet(s1, ReportStart(s1, didStart))
  BY <1>4, SetQueueStatusSound, RowsAreQuiet DEF QueueStatus
<1> HIDE DEF s2
<1>6. /\ Respects(s1, ReportStart(s1, didStart)) /\ Respects(s1, ContinueStartQueue(s1, c.rest))
      /\ Respects(s1, ContinueStartQueue(s2, rest))
  <2>1. Respects(s1, ContinueStartQueue(s1, c.rest)) /\ Respects(s2, ContinueStartQueue(s2, rest))
    BY <1>1, <1>4, <1>5, ContinueStartQueueRespects
  <2> QED
    BY <1>5, <2>1, QuietRespects, QuietThenRespects
<1>7. /\ Respects(s, ReportStart(s1, didStart)) /\ Respects(s, ContinueStartQueue(s1, c.rest))
      /\ Respects(s, ContinueStartQueue(s2, rest))
  BY <1>4, <1>6, QuietThenRespects
<1>8. StartAnswered(s, c, didStart) =
        CASE c.then # "Loop" -> ReportStart(s1, didStart)
          [] c.then = "Loop" /\ didStart -> ContinueStartQueue(s2, rest)
          [] OTHER -> ContinueStartQueue(s1, c.rest)
  BY DEF StartAnswered, s1, s2, rest
<1> QED
  BY <1>7, <1>8

\* The end of a stop, and the job that the worker gets next.
LEMMA FinishStopRespects ==
  ASSUME NEW D, NEW s \in Sound(D), NEW j \in Jobs, NEW w,
         NEW to \in {"Stopped", "Error"}
  PROVE  Respects(s, FinishStop(s, j, w, to))
<1> DEFINE s0 == RemoveJobOrder(s, j)
           s1 == UpdateJobStatus(s0, j, to, NoWorker)
<1>1. to \in Stages /\ to \notin ActiveStages /\ to # "Finished"
  BY DEF Stages, ActiveStages, EndedStages
<1>2. s0 \in Sound(D) /\ Quiet(s, s0)
  BY RemoveJobOrderSound, OrderIsQuiet
<1> HIDE DEF s0
<1>3. s1 \in Sound(D) /\ Quiet(s0, s1)
  BY <1>1, <1>2, UpdateJobStatusSound, RowsAreQuiet
<1> HIDE DEF s1
<1>4. Respects(s1, s1) /\ Respects(s1, WorkerForAvailableJobsOrThrow(s1, w))
  BY <1>3, RowsAreQuiet, QuietRespects, WorkerForAvailableJobsRespects
<1>5. Respects(s, s1) /\ Respects(s, WorkerForAvailableJobsOrThrow(s1, w))
  BY <1>2, <1>3, <1>4, QuietThenRespects
<1> QED
  BY <1>5 DEF FinishStop, s1, s0

\* A stop asks the worker or ends at once.
LEMMA StopJobRespects ==
  ASSUME NEW D, NEW s \in Sound(D), NEW j \in Jobs, NEW to \in {"Stopped", "Error"}
  PROVE  Respects(s, StopJob(s, j, to))
<1> DEFINE w == s.owner[j]
<1>1. Respects(s, Throw(s)) /\ Respects(s, FinishStop(s, j, w, to))
  BY ThrowRespects, FinishStopRespects
<1>2. ASSUME Connected(s, w)
      PROVE  Respects(s, Ask(s, Call("stop", SocketOf(s, w), j, to)))
  <2>1. SocketOf(s, w) \in Sockets
    BY <1>2, SocketOfConnected DEF Sound
  <2>2. Call("stop", SocketOf(s, w), j, to) \in CallRecords
    BY <2>1, CallType DEF Ops, Thens
  <2>3. Call("stop", SocketOf(s, w), j, to).op = "stop"
    BY DEF Call
  <2> QED
    BY <2>2, <2>3, AskRespects
<1> QED
  BY <1>1, <1>2 DEF StopJob

\* A new or a reset job looks for a worker.
LEMMA QueuedRespects ==
  ASSUME NEW D, NEW s \in Sound(D), NEW j \in Jobs
  PROVE  Respects(s, ResetJob(s, j)) /\ Respects(s, JobForAvailableWorkers(InsertJob(s, j), j))
<1> DEFINE s0 == InsertJobOrder(s, j)
           s1 == UpdateJobStatus(s0, j, "Waiting", NoWorker)
           t == [s EXCEPT !.stage[j] = "Waiting", !.owner[j] = NoWorker]
<1>1. "Waiting" \in Stages /\ "Waiting" \notin ActiveStages
  BY DEF Stages, ActiveStages
<1>2. s0 \in Sound(D) /\ Quiet(s, s0)
  BY InsertJobOrderSound, OrderIsQuiet
<1>3. t \in Sound(D) /\ Quiet(s, t)
  BY DEF Sound, States, Stages, ActiveStages, EndedStages, Quiet
<1>4. InsertJob(s, j) \in Sound(D) /\ Quiet(t, InsertJob(s, j))
  <2> HIDE DEF t
  <2>1. InsertJobOrder(t, j) \in Sound(D) /\ Quiet(t, InsertJobOrder(t, j))
    BY <1>3, InsertJobOrderSound, OrderIsQuiet
  <2> QED
    BY <2>1 DEF InsertJob, t
<1> HIDE DEF s0, t
<1>5. s1 \in Sound(D) /\ Quiet(s0, s1)
  BY <1>1, <1>2, UpdateJobStatusSound, RowsAreQuiet
<1> HIDE DEF s1
<1>6. Respects(s, JobForAvailableWorkers(s1, j))
  BY <1>2, <1>5, JobForAvailableWorkersRespects, QuietThenRespects
<1>7. Respects(s, JobForAvailableWorkers(InsertJob(s, j), j))
  BY <1>3, <1>4, JobForAvailableWorkersRespects, QuietThenRespects
<1>8. Respects(s, s)
  BY RowsAreQuiet, QuietRespects
<1> QED
  BY <1>6, <1>7, <1>8 DEF ResetJob, s1, s0

\* A removal of a job asks nobody.
LEMMA RemoveJobRespects ==
  ASSUME NEW D, NEW s \in Sound(D), NEW j \in Jobs
  PROVE  Respects(s, RemoveJob(s, j))
<1> DEFINE t == RemoveJobOrder(s, j)
           u == [t EXCEPT !.stage[j] = "Absent", !.owner[j] = NoWorker]
<1>1. t \in Sound(D) /\ Quiet(s, t)
  BY RemoveJobOrderSound, OrderIsQuiet
<1> HIDE DEF t
<1>2. Quiet(t, u)
  BY <1>1 DEF Sound, States, Quiet
<1>3. RemoveJobByID(s, j) = u
  BY DEF RemoveJobByID, t
<1> HIDE DEF u
<1>4. Respects(s, RemoveJobByID(s, j))
  BY <1>1, <1>2, <1>3, QuietRespects, QuietThenRespects
<1> QED
  BY <1>4, ThrowRespects DEF RemoveJob

\* The clean-up after a disconnect asks nobody.
LEMMA CleanupWorkerQuiet ==
  ASSUME NEW D, NEW s \in Sound(D), NEW k
  PROVE  Quiet(s, CleanupWorker(s, k))
<1> DEFINE active == {j \in Jobs : s.owner[j] = WorkerOf(k) /\ s.stage[j] \in ActiveStages}
           s1 == [s EXCEPT !.workers = @ \ {k}, !.props = @ \ {WorkerOf(k)}]
<1>1. s1 \in States /\ Quiet(s, s1)
  BY DEF Sound, States, Quiet
<1> HIDE DEF s1, active
<1>2. \A n : Quiet(s1, [s1 EXCEPT !.stage[n] = "Unknown"])
  BY <1>1 DEF States, Quiet
<1>3. CleanupWorker(s, k) = IF active = {} THEN s1 ELSE [s1 EXCEPT !.stage[Min(active)] = "Unknown"]
  BY DEF CleanupWorker, s1, active
<1> QED
  BY <1>1, <1>2, <1>3 DEF Quiet

\* What DisabledWorkerGetsNoJob says of a step.
StartsRespected == \A c \in NewStarts : c.to \notin disabled'

\* A handler that has removed its call, or has set the flag of a worker, before it
\* goes on.
LEMMA BecomeRespected ==
  ASSUME NEW s, NEW t, Range(s.calls) \subseteq Range(calls), Respects(s, t), Become(t)
  PROVE  StartsRespected
<1>1. calls' = t.calls /\ disabled' = t.disabled
  BY DEF Become
<1>2. \A c \in Range(calls') : c.op = "start" => c \in Range(calls) \/ c.to \notin disabled'
  BY <1>1 DEF Respects
<1> QED
  BY <1>2 DEF StartsRespected, NewStarts

\* A handler that goes on from the present state.
LEMMA ServerRespected ==
  ASSUME NEW t, Respects(Server, t), Become(t)
  PROVE  StartsRespected
<1>1. Server.calls = calls
  BY DEF Server
<1>2. Range(Server.calls) \subseteq Range(calls)
  BY <1>1
<1> QED
  BY <1>2, BecomeRespected

\* Requests of a client.
LEMMA ClientRespected ==
  ASSUME IInv, ClientNext
  PROVE  StartsRespected
<1>1. Server \in Sound(delivered)
  BY DEF IInv
<1>2. CASE ClientAddsJob
  <2>1. nextJob \in Jobs /\ Become(JobForAvailableWorkers(InsertJob(Server, nextJob), nextJob))
    BY <1>2 DEF ClientAddsJob, ClientStep
  <2>2. Respects(Server, JobForAvailableWorkers(InsertJob(Server, nextJob), nextJob))
    BY <1>1, <2>1, QueuedRespects
  <2> QED
    BY <2>1, <2>2, ServerRespected
<1>3. CASE ClientStartsQueue
  BY <1>1, <1>3, StartQueueRespects, ServerRespected
     DEF ClientStartsQueue, ClientRequest, ClientStep
<1>4. CASE ClientStopsQueue
  <2>1. Respects(Server, SetQueueStatus(Server, "Stopped"))
    BY <1>1, RowsAreQuiet, QuietRespects
  <2> QED
    BY <1>4, <2>1, ServerRespected DEF ClientStopsQueue, ClientRequest, ClientStep
<1>5. ASSUME NEW j \in KnownJobs, ClientStopsJob(j) \/ ClientResetsJob(j) \/ ClientRemovesJob(j)
      PROVE  StartsRespected
  <2>1. /\ Respects(Server, StopJob(Server, j, "Stopped"))
        /\ Respects(Server, ResetJob(Server, j)) /\ Respects(Server, RemoveJob(Server, j))
    BY <1>1, StopJobRespects, QueuedRespects, RemoveJobRespects DEF KnownJobs
  <2>2. \/ Become(StopJob(Server, j, "Stopped")) \/ Become(ResetJob(Server, j))
        \/ Become(RemoveJob(Server, j))
    BY <1>5 DEF ClientStopsJob, ClientResetsJob, ClientRemovesJob, ClientRequest, ClientStep
  <2> QED
    BY <2>1, <2>2, ServerRespected
<1>6. ASSUME NEW j \in KnownJobs, NEW n \in Jobs, ClientReordersJob(j, n)
      PROVE  StartsRespected
  <2>1. Respects(Server, Throw(Server)) /\ Respects(Server, MoveJobOrder(Server, j, n))
    BY <1>1, ThrowRespects, OrderIsQuiet, QuietRespects
  <2>2. Become(Throw(Server)) \/ Become(MoveJobOrder(Server, j, n))
    BY <1>6 DEF ClientReordersJob, ClientRequest, ClientStep
  <2> QED
    BY <2>1, <2>2, ServerRespected
<1>7. ASSUME NEW finishedOnly \in BOOLEAN, ClientClearsQueue(finishedOnly)
      PROVE  StartsRespected
  <2>1. calls' = calls /\ disabled' = disabled
    BY <1>7 DEF ClientClearsQueue, ClientRequest, ClientStep, Become, Server
  <2> QED
    BY <2>1 DEF StartsRespected, NewStarts
<1>8. ASSUME NEW w \in Workers, NEW accepts \in BOOLEAN, ClientSetsWorkerEnabled(w, accepts)
      PROVE  StartsRespected
  <2> DEFINE k == SocketOf(Server, w)
             s == [Server EXCEPT !.disabled = IF accepts THEN @ \ {k} ELSE @ \union {k}]
  <2>1. k \in Sockets
    BY <1>1, <1>8, SocketOfConnected DEF Sound, ClientSetsWorkerEnabled
  <2>2. s \in Sound(delivered) /\ s.calls = calls
    <3> HIDE DEF k
    <3> QED
      BY <1>1, <2>1 DEF Sound, States, Server
  <2>3. Become(IF accepts THEN WorkerForAvailableJobs(s, w, "Assign") ELSE s)
    BY <1>8 DEF ClientSetsWorkerEnabled, ClientStep
  <2> HIDE DEF s
  <2>4. Respects(s, WorkerForAvailableJobs(s, w, "Assign")) /\ Respects(s, s)
    BY <2>2, WorkerForAvailableJobsRespects, RowsAreQuiet, QuietRespects
  <2>5. Range(s.calls) \subseteq Range(calls)
    BY <2>2
  <2> QED
    BY <2>3, <2>4, <2>5, BecomeRespected
<1> QED
  BY <1>2, <1>3, <1>4, <1>5, <1>6, <1>7, <1>8 DEF ClientNext

\* Connections come and go.
LEMMA ConnectionRespected ==
  ASSUME IInv,
         \/ \E w \in Workers : WorkerConnects(w)
         \/ \E k \in workers : WorkerDisconnects(k)
  PROVE  StartsRespected
<1>1. Server \in Sound(delivered)
  BY DEF IInv
<1>2. ASSUME NEW w \in Workers, WorkerConnects(w) PROVE StartsRespected
  <2> DEFINE k == <<w, sockets + 1>>
             s == [Server EXCEPT !.workers = @ \union {k}]
             c == Call("properties", k, NoJob, "Init")
  <2>1. PICK accepts \in BOOLEAN :
          Become(Ask([s EXCEPT !.disabled = IF accepts THEN @ ELSE @ \union {k}], c))
    BY <1>2 DEF WorkerConnects, ServerStep
  <2> DEFINE t == [s EXCEPT !.disabled = IF accepts THEN @ ELSE @ \union {k}]
  <2>2. k \in Sockets
    BY DEF IInv, Sockets
  <2>3. c \in CallRecords /\ c.op # "start"
    <3> HIDE DEF k
    <3>1. c.op = "properties"
      BY DEF Call
    <3>2. Call("properties", k, NoJob, "Init") \in CallRecords
      BY <2>2, CallType DEF Ops, Thens
    <3> QED
      BY <3>1, <3>2
  <2>4. t \in Sound(delivered) /\ t.calls = calls
    <3> HIDE DEF k
    <3>1. t \in Sound(delivered)
      BY <1>1, <2>2 DEF Sound, States
    <3>2. Server \in States
      BY <1>1 DEF Sound
    <3>3. t.calls = Server.calls
      BY <3>2 DEF States
    <3> QED
      BY <3>1, <3>3 DEF Server
  <2> HIDE DEF t, c, k
  <2>5. Respects(t, Ask(t, c)) /\ Range(t.calls) \subseteq Range(calls)
    BY <2>3, <2>4, AskRespects
  <2> QED
    BY <2>1, <2>5, BecomeRespected DEF t
<1>3. ASSUME NEW k \in workers, WorkerDisconnects(k) PROVE StartsRespected
  <2>1. Respects(Server, CleanupWorker(Server, k))
    BY <1>1, CleanupWorkerQuiet, QuietRespects
  <2> QED
    BY <1>3, <2>1, ServerRespected DEF WorkerDisconnects, ServerStep
<1> QED
  BY <1>2, <1>3

\* The calls without one of them.
LEMMA WithoutCalls ==
  ASSUME IInv, NEW i \in DOMAIN calls
  PROVE  Range(Without(i).calls) \subseteq Range(calls)
<1>1. calls \in Seq(CallRecords)
  BY DEF IInv, Sound, States, Server
<1>2. Without(i).calls = RemoveAt(calls, i)
  BY DEF Without, Server
<1> QED
  BY <1>1, <1>2, RangeOfRemoveAt

\* Answers of workers.
LEMMA AnswerRespected ==
  ASSUME IInv, AnswerNext
  PROVE  StartsRespected
<1>1. SUFFICES ASSUME NEW i \in DOMAIN calls,
                      \/ PropertiesAnswered(i)
                      \/ \E j \in KnownJobs \union {NoJob} : ExistingJobAnswered(i, j)
                      \/ StaleStopAnswered(i)
                      \/ \E didStart \in BOOLEAN : StartCallAnswered(i, didStart)
                      \/ StopAnswered(i)
               PROVE  StartsRespected
  BY DEF AnswerNext
<1> DEFINE c == calls[i]
           k == c.to
           s == Without(i)
<1>2. /\ s \in Sound(delivered) /\ c \in CallRecords /\ k \in Sockets
      /\ c.op \in {"start", "stop"} => c.job \in Jobs
      /\ c.op = "stop" => c.then \in {"Stopped", "Error"}
  BY WithoutSound
<1>3. Range(s.calls) \subseteq Range(calls)
  BY WithoutCalls
<1>4. WorkerOf(k) \in Workers
  BY <1>2 DEF Sockets, WorkerOf
<1>5. CASE PropertiesAnswered(i)
  <2> DEFINE r == [s EXCEPT !.props = @ \union {WorkerOf(k)}]
             d == Call("existing", k, NoJob, "Init")
  <2>1. Become(Ask(r, d))
    BY <1>5 DEF PropertiesAnswered, ServerStep
  <2>2. d \in CallRecords /\ d.op # "start"
    <3>1. Call("existing", k, NoJob, "Init") \in CallRecords
      BY <1>2, CallType DEF Ops, Thens
    <3>2. d.op = "existing"
      BY DEF Call
    <3> QED
      BY <3>1, <3>2
  <2> HIDE DEF d, s, k
  <2>3. r \in Sound(delivered) /\ r.calls = s.calls
    BY <1>2, <1>4 DEF Sound, States
  <2> HIDE DEF r
  <2>4. Respects(r, Ask(r, d)) /\ Range(r.calls) \subseteq Range(calls)
    BY <1>3, <2>2, <2>3, AskRespects
  <2> QED
    BY <2>1, <2>4, BecomeRespected
<1>6. ASSUME NEW j \in KnownJobs \union {NoJob}, ExistingJobAnswered(i, j)
      PROVE  StartsRespected
  <2> DEFINE d == Call("stale", k, j, "Init")
             t == CASE j = NoJob -> WorkerForAvailableJobs(s, WorkerOf(k), "Init")
                    [] j # NoJob /\ ~Owns(k, j) -> Ask(s, d)
                    [] j # NoJob /\ Owns(k, j) /\ stage[j] \notin ActiveStages ->
                         UpdateJobStatus(s, j, "Unknown", WorkerOf(k))
                    [] OTHER -> s
  <2>1. Become(t)
    BY <1>6 DEF ExistingJobAnswered, ServerStep
  <2>2. d \in CallRecords /\ d.op # "start"
    <3>1. Call("stale", k, j, "Init") \in CallRecords
      BY <1>2, CallType DEF KnownJobs, Ops, Thens
    <3>2. d.op = "stale"
      BY DEF Call
    <3> QED
      BY <3>1, <3>2
  <2> HIDE DEF d, s, k
  <2>3. /\ Respects(s, WorkerForAvailableJobs(s, WorkerOf(k), "Init"))
        /\ Respects(s, Ask(s, d)) /\ Respects(s, s)
        /\ Respects(s, UpdateJobStatus(s, j, "Unknown", WorkerOf(k)))
    BY <1>2, <2>2, WorkerForAvailableJobsRespects, AskRespects, RowsAreQuiet, QuietRespects
  <2>4. Respects(s, t)
    BY <2>3
  <2> HIDE DEF t
  <2> QED
    BY <1>3, <2>1, <2>4, BecomeRespected
<1>7. CASE StaleStopAnswered(i)
  <2>1. Become(WorkerForAvailableJobs(s, WorkerOf(k), "Init"))
    BY <1>7 DEF StaleStopAnswered, ServerStep
  <2>2. Respects(s, WorkerForAvailableJobs(s, WorkerOf(k), "Init"))
    BY <1>2, WorkerForAvailableJobsRespects
  <2> QED
    BY <1>3, <2>1, <2>2, BecomeRespected
<1>8. ASSUME NEW didStart \in BOOLEAN, StartCallAnswered(i, didStart)
      PROVE  StartsRespected
  <2>1. c.op = "start" /\ Become(StartAnswered(s, c, didStart))
    BY <1>8 DEF StartCallAnswered, Answered, ServerStep
  <2>2. Respects(s, StartAnswered(s, c, didStart))
    BY <1>2, <2>1, StartAnsweredRespects
  <2> QED
    BY <1>3, <2>1, <2>2, BecomeRespected
<1>9. CASE StopAnswered(i)
  <2>1. c.op = "stop" /\ Become(FinishStop(s, c.job, WorkerOf(k), c.then))
    BY <1>9 DEF StopAnswered, Answered, ServerStep
  <2>2. Respects(s, FinishStop(s, c.job, WorkerOf(k), c.then))
    BY <1>2, <2>1, FinishStopRespects
  <2> QED
    BY <1>3, <2>1, <2>2, BecomeRespected
<1> QED
  BY <1>1, <1>5, <1>6, <1>7, <1>8, <1>9

\* Time-outs of calls.
LEMMA TimeoutRespected ==
  ASSUME IInv, CallTimesOut
  PROVE  StartsRespected
<1> DEFINE c == calls[1]
           s == Without(1)
           t == CASE c.op = "start" -> StartAnswered(s, c, FALSE)
                  [] c.op = "stop"  -> FinishStop(s, c.job, WorkerOf(c.to), c.then)
                  [] c.op = "stale" -> s
                  [] c.op \in {"properties", "existing"} ->
                       IF c.to \in workers THEN CleanupWorker(s, c.to) ELSE s
<1>1. Become(t)
  BY DEF CallTimesOut, ServerStep
<1>2. 1 \in DOMAIN calls
  <2>1. calls \in Seq(CallRecords) /\ calls # <<>>
    BY DEF IInv, Sound, States, Server, CallTimesOut
  <2> QED
    BY <2>1, EmptySeq, LenProperties
<1>3. /\ s \in Sound(delivered) /\ c \in CallRecords
      /\ c.op \in {"start", "stop"} => c.job \in Jobs
      /\ c.op = "stop" => c.then \in {"Stopped", "Error"}
  BY <1>2, WithoutSound
<1>4. Range(s.calls) \subseteq Range(calls)
  BY <1>2, WithoutCalls
<1> HIDE DEF s, c
<1>5. c.op = "start" => Respects(s, StartAnswered(s, c, FALSE))
  BY <1>3, StartAnsweredRespects
<1>6. c.op = "stop" => Respects(s, FinishStop(s, c.job, WorkerOf(c.to), c.then))
  BY <1>3, FinishStopRespects
<1>7. Respects(s, CleanupWorker(s, c.to)) /\ Respects(s, s)
  BY <1>3, CleanupWorkerQuiet, RowsAreQuiet, QuietRespects
<1>8. c.op \in Ops
  BY <1>3 DEF CallRecords
<1>9. Respects(s, t)
  BY <1>5, <1>6, <1>7, <1>8 DEF Ops
<1> HIDE DEF t
<1> QED
  BY <1>1, <1>4, <1>9, BecomeRespected

\* The rest of transcode-finished.
LEMMA FinishVerifiedRespected ==
  ASSUME IInv, NEW v \in verifying, NEW isFile \in BOOLEAN,
         FinishVerified(v[1], v[2], isFile)
  PROVE  StartsRespected
<1> DEFINE k == v[1]
           j == v[2]
           s == [Server EXCEPT !.verifying = @ \ {<<k, j>>}]
           s0 == UpdateJobStatus(s, j, "Finished", WorkerOf(k))
           s1 == RemoveJobOrder(s0, j)
           s2 == ClearCompleted(s1, j)
           t == IF isFile THEN WorkerForAvailableJobsOrThrow(s2, WorkerOf(k))
                ELSE StopJob(s, j, "Error")
<1>1. k \in Sockets /\ j \in Jobs /\ j \in delivered
  BY DEF IInv, Sound, States, Server
<1>2. WorkerOf(k) \in Workers
  BY <1>1 DEF Sockets, WorkerOf
<1>3. Become(t)
  BY DEF FinishVerified, ServerStep
<1>4. s \in Sound(delivered) /\ s.calls = calls
  <2> HIDE DEF k, j
  <2> QED
    BY DEF IInv, Sound, States, Server
<1> HIDE DEF s
<1>5. s0 \in Sound(delivered) /\ Quiet(s, s0)
  <2>1. "Finished" \in Stages /\ "Finished" \notin ActiveStages
    BY DEF Stages, EndedStages, ActiveStages
  <2> HIDE DEF k, j
  <2> QED
    BY <1>1, <1>2, <1>4, <2>1, UpdateJobStatusSound, RowsAreQuiet
<1> HIDE DEF s0, j
<1>6. s1 \in Sound(delivered) /\ Quiet(s0, s1)
  BY <1>1, <1>5, RemoveJobOrderSound, OrderIsQuiet
<1> HIDE DEF s1
<1>7. s2 \in Sound(delivered) /\ Quiet(s1, s2)
  BY <1>1, <1>6, ClearCompletedSound, RowsAreQuiet
<1> HIDE DEF s2
<1>8. Respects(s2, WorkerForAvailableJobsOrThrow(s2, WorkerOf(k)))
  BY <1>7, WorkerForAvailableJobsRespects
<1>9. Respects(s, WorkerForAvailableJobsOrThrow(s2, WorkerOf(k)))
  BY <1>5, <1>6, <1>7, <1>8, QuietThenRespects
<1>10. Respects(s, StopJob(s, j, "Error"))
  BY <1>1, <1>4, StopJobRespects
<1>11. Respects(s, t) /\ Range(s.calls) \subseteq Range(calls)
  BY <1>4, <1>9, <1>10
<1> HIDE DEF t
<1> QED
  BY <1>3, <1>11, BecomeRespected

\* Events of workers.
LEMMA EventRespected ==
  ASSUME IInv, EventNext
  PROVE  StartsRespected
<1>1. Server \in Sound(delivered)
  BY DEF IInv
<1>2. ASSUME NEW k \in workers, NEW j \in KnownJobs,
             \/ \E reported \in ReportedStages : TranscodeUpdate(k, j, reported)
             \/ TranscodeStopped(k, j)
             \/ TranscodeError(k, j)
             \/ UnverifiedFinish(k, j)
             \/ FinishReported(k, j)
      PROVE  StartsRespected
  <2> DEFINE s == ClearCompleted(Server, j)
             s1 == RemoveJobOrder(s, j)
             s2 == UpdateJobStatus(s1, j, "Stopped", NoWorker)
             t == [Server EXCEPT !.verifying = @ \union {<<k, j>>}]
  <2>1. j \in Jobs
    BY DEF KnownJobs
  <2>2. s \in Sound(delivered) /\ Quiet(Server, s)
    BY <1>1, <2>1, ClearCompletedSound, RowsAreQuiet
  <2>3. Quiet(Server, t)
    BY <1>1 DEF Sound, States, Quiet
  <2>4. \/ \E reported : Become(UpdateJobStatus(Server, j, reported, WorkerOf(k)))
        \/ Become(IdleIfNoneBusy(s2))
        \/ Become(StopJob(s, j, "Error"))
        \/ Become(StopJob(Server, j, "Error"))
        \/ Become(t)
    BY <1>2 DEF TranscodeUpdate, TranscodeStopped, TranscodeError, UnverifiedFinish,
                FinishReported, WorkerEvent, ServerStep
  <2> HIDE DEF s, t
  <2>5. s1 \in Sound(delivered) /\ Quiet(s, s1)
    BY <2>1, <2>2, RemoveJobOrderSound, OrderIsQuiet
  <2> HIDE DEF s1
  <2>6. s2 \in Sound(delivered) /\ Quiet(s1, s2)
    <3>1. "Stopped" \in Stages /\ "Stopped" \notin ActiveStages
      BY DEF Stages, EndedStages, ActiveStages
    <3> QED
      BY <2>1, <2>5, <3>1, UpdateJobStatusSound, RowsAreQuiet
  <2> HIDE DEF s2
  <2>7. Quiet(s2, IdleIfNoneBusy(s2))
    BY <2>6, RowsAreQuiet
  <2>8. Respects(Server, IdleIfNoneBusy(s2))
    BY <2>2, <2>5, <2>6, <2>7, QuietRespects, QuietThenRespects
  <2>9. Respects(Server, StopJob(s, j, "Error")) /\ Respects(Server, StopJob(Server, j, "Error"))
    BY <1>1, <2>1, <2>2, StopJobRespects, QuietThenRespects
  <2>10. \A reported : Respects(Server, UpdateJobStatus(Server, j, reported, WorkerOf(k)))
    BY <1>1, RowsAreQuiet, QuietRespects
  <2>11. Respects(Server, t)
    BY <2>3, QuietRespects
  <2> QED
    BY <2>4, <2>8, <2>9, <2>10, <2>11, ServerRespected
<1> QED
  BY <1>2, FinishVerifiedRespected DEF EventNext

\* Uploads make no calls.
LEMMA UploadRespected ==
  ASSUME UploadNext
  PROVE  StartsRespected
<1>1. calls' = calls
  BY DEF UploadNext, UploadStarts, UploadEnds, ServerStep, Become, ClearCompleted, Server
<1> QED
  BY <1>1 DEF StartsRespected, NewStarts

\* A worker that was disabled is asked to start nothing, for any number of jobs,
\* workers and pending calls, and also by a StartQueue that began before.
THEOREM DisabledWorkersGetNoJob == Spec => DisabledWorkerGetsNoJob
<1>1. ASSUME IInv, [Next]_vars
      PROVE  \A c \in NewStarts : c.to \notin disabled'
  <2>1. CASE Kill
    <3>1. Respects(Server, Throw(Server))
      <4>1. Server \in Sound(delivered)
        BY <1>1 DEF IInv
      <4> QED
        BY <4>1, ThrowRespects
    <3>2. StartsRespected
      BY <2>1, <3>1, ServerRespected DEF Kill
    <3> QED
      BY <3>2 DEF StartsRespected
  <2>2. CASE Restart \/ UNCHANGED vars
    <3>1. calls' = calls
      BY <2>2 DEF Restart, memory, vars
    <3> QED
      BY <3>1 DEF NewStarts
  <2>3. ASSUME ~Kill, ~Restart, ~(UNCHANGED vars)
        PROVE  StartsRespected
    BY <1>1, <2>3, ClientRespected, ConnectionRespected, AnswerRespected, TimeoutRespected,
       EventRespected, UploadRespected DEF Next
  <2> QED
    BY <2>1, <2>2, <2>3 DEF StartsRespected
<1> QED
  BY <1>1, SpecSound, PTL DEF Spec, DisabledWorkerGetsNoJob

=============================================================================
