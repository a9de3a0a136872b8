-------------------------- MODULE JobLifecycle_proofs --------------------------
(***************************************************************************)
(* JobServer implements JobLifecycle, and keeps the order of the jobs, for *)
(* every number of jobs, workers, connections and pending calls.           *)
(*                                                                         *)
(* The argument is about pairs of server states.  Leads(D, n, m, s, t)     *)
(* says of a step from s to t what the abstract specification allows each  *)
(* job, in terms of the tables (D is delivered, n and m are nextJob before *)
(* and after), and that the order stays sound.  The operators that look    *)
(* for work only write down claims, Claims(s, t), so a handler that        *)
(* changes a job and then looks for work leads where its first half leads. *)
(***************************************************************************)
EXTENDS JobServer_proofs

-----------------------------------------------------------------------------
(* What a step does to the tables. *)

\* Waiting jobs that nobody holds get a holder; nothing else happens to a job.
Claims(s, t) ==
  /\ t.stage = s.stage /\ t.order = s.order
  /\ \A j \in Jobs :
       \/ t.owner[j] = s.owner[j]
       \/ s.stage[j] = "Waiting" /\ s.owner[j] = NoWorker /\ t.owner[j] \in Workers

\* The disjuncts of JobLifecycle!Moves, said of the columns stage and owner.
Kept(n, m, s, t, j) ==
  /\ t.stage[j] = s.stage[j] /\ t.owner[j] = s.owner[j]
  /\ s.stage[j] = "Absent" => (j < n <=> j < m)

Added(n, m, s, t, j) ==
  /\ s.stage[j] = "Absent" /\ j = n /\ m = n + 1
  /\ t.stage[j] = "Waiting" /\ t.owner[j] \in Workers \union {NoWorker}

Given(s, t, j) ==
  s.stage[j] # "Absent" /\ t.stage[j] = s.stage[j] /\ t.owner[j] \in Workers

Worked(s, t, j) ==
  /\ s.stage[j] # "Absent" /\ s.owner[j] # NoWorker
  /\ t.stage[j] \in ActiveStages /\ t.owner[j] = s.owner[j]

Requeued(s, t, j) ==
  /\ s.stage[j] \in EndedStages \/ (s.stage[j] # "Absent" /\ s.owner[j] # NoWorker)
  /\ t.stage[j] = "Waiting" /\ t.owner[j] \in Workers \union {NoWorker}

Finishes(D, s, t, j) ==
  s.stage[j] # "Absent" /\ j \in D /\ t.stage[j] = "Finished" /\ t.owner[j] \in Workers

Stops(s, t, j) ==
  s.stage[j] # "Absent" /\ t.stage[j] \in {"Stopped", "Error"} /\ t.owner[j] = NoWorker

Goes(s, t, j) ==
  /\ s.stage[j] \notin ActiveStages \union {"Absent"}
  /\ t.stage[j] = "Absent" /\ t.owner[j] = NoWorker

Evolves(D, n, m, s, t, j) ==
  \/ Kept(n, m, s, t, j) \/ Added(n, m, s, t, j) \/ Given(s, t, j) \/ Worked(s, t, j)
  \/ Requeued(s, t, j) \/ Finishes(D, s, t, j) \/ Stops(s, t, j) \/ Goes(s, t, j)

\* No two jobs share an index, no index is negative, and no index is left behind.
Ordered(s) ==
  /\ \A j \in Jobs : s.order[j] >= 0
  /\ \A i, j \in Jobs : s.order[i] = s.order[j] /\ s.order[i] # 0 => i = j
  /\ \A j \in Jobs : s.stage[j] = "Absent" => s.order[j] = 0

Leads(D, n, m, s, t) ==
  /\ \A j \in Jobs : Evolves(D, n, m, s, t, j)
  /\ Ordered(s) => Ordered(t)

\* A job that is gone or not there yet belongs to nobody, and ids are not used twice.
Placed(n, s) ==
  \A j \in Jobs : /\ s.stage[j] = "Absent" => s.owner[j] = NoWorker
                  /\ s.stage[j] # "Absent" => j < n

LInv == IInv /\ Placed(nextJob, Server) /\ Ordered(Server)

-----------------------------------------------------------------------------
(* Claims. *)

\* Writing the queue status, asking and throwing touch no row of a job.
LEMMA RowsKept ==
  ASSUME NEW s \in States
  PROVE  /\ Claims(s, s) /\ Claims(s, Throw(s)) /\ Claims(s, IdleIfNoneBusy(s))
         /\ \A q : Claims(s, SetQueueStatus(s, q))
         /\ \A c : Claims(s, Ask(s, c))
         /\ \A b : Claims(s, ReportStart(s, b))
BY DEF Claims, States, Throw, IdleIfNoneBusy, SetQueueStatus, Ask, ReportStart

\* Claims after claims are claims.
LEMMA ClaimsCompose ==
  ASSUME NEW s, NEW t, NEW u, Claims(s, t), Claims(t, u)
  PROVE  Claims(s, u)
BY DEF Claims

\* StartJob claims only a job that waits and is free.
LEMMA ClaimClaims ==
  ASSUME NEW s \in States, NEW j \in Jobs, NEW k \in Sockets, CanClaim(s, j, k),
         NEW then, NEW rest
  PROVE  Claims(s, Claim(s, j, k, then, rest))
<1>1. WorkerOf(k) \in Workers
  BY DEF Sockets, WorkerOf
<1> QED
  BY <1>1 DEF Claims, Claim, Ask, CanClaim, States

\* A job that is handed to a connection is claimed, or handed back as it was.
LEMMA AssignClaims ==
  ASSUME NEW s \in States, NEW j \in Jobs, NEW k \in Sockets, NEW then
  PROVE  Claims(s, Assign(s, j, k, then))
BY ClaimClaims, RowsKept DEF Assign

\* A job that looks for a worker is claimed at most.
LEMMA JobForAvailableWorkersClaims ==
  ASSUME NEW s \in States, NEW j \in Jobs
  PROVE  Claims(s, JobForAvailableWorkers(s, j))
<1> DEFINE eligible == GetEligibleWorkers(s, GetAvailableWorkers(s), j)
<1>1. eligible \in SUBSET Sockets
  BY DEF GetEligibleWorkers, GetAvailableWorkers, States
<1>2. ASSUME eligible # {}
      PROVE  Claims(s, Assign(s, j, FirstSocket(eligible), "Assign"))
  BY <1>1, <1>2, FirstSocketIsMember, AssignClaims
<1> QED
  BY <1>2, RowsKept DEF JobForAvailableWorkers

\* A worker that looks for a job claims one at most.
LEMMA WorkerForAvailableJobsClaims ==
  ASSUME NEW s \in States, NEW w, NEW then
  PROVE  Claims(s, WorkerForAvailableJobs(s, w, then))
<1> DEFINE eligible == GetEligibleJobs(GetAvailableJobs(s), w)
<1>1. eligible \in SUBSET Jobs /\ s.order \in [Jobs -> Int]
  BY DEF GetEligibleJobs, GetAvailableJobs, States
<1>2. ASSUME MayTakeJob(s, w), eligible # {}
      PROVE  Claims(s, Assign(s, FirstJob(s.order, eligible), SocketOf(s, w), then))
  <2>1. SocketOf(s, w) \in Sockets
    BY <1>2, SocketOfConnected DEF MayTakeJob
  <2>2. FirstJob(s.order, eligible) \in Jobs
    BY <1>1, <1>2, FirstJobIsMember
  <2> QED
    BY <2>1, <2>2, AssignClaims
<1> QED
  BY <1>2, RowsKept DEF WorkerForAvailableJobs

\* The same where the lookup of the capabilities throws.
LEMMA WorkerForAvailableJobsOrThrowClaims ==
  ASSUME NEW s \in States, NEW w
  PROVE  Claims(s, WorkerForAvailableJobsOrThrow(s, w))
BY WorkerForAvailableJobsClaims, RowsKept DEF WorkerForAvailableJobsOrThrow

\* A turn of the loop of StartQueue claims one job at most, and only one that
\* still waits although its snapshot is old.
LEMMA ContinueStartQueueClaims ==
  ASSUME NEW D, NEW s \in Sound(D), NEW rest \in Rests
  PROVE  Claims(s, ContinueStartQueue(s, rest))
<1> DEFINE stops == LoopStops(s, rest)
           k == FirstSocket(stops)
           passed == {l \in rest.sockets : stops = {} \/ l[2] < k[2]}
           idle == \E l \in passed : GetEligibleJobs(rest.jobs, WorkerOf(l)) = {}
           s1 == IF idle THEN IdleIfNoneBusy(s) ELSE s
           J == GetEligibleJobs(rest.jobs, WorkerOf(k))
           j == FirstJob(rest.order, J)
           left == [rest EXCEPT !.sockets = {l \in @ : l[2] > k[2]}]
<1>1. s \in States /\ s1 \in Sound(D) /\ s1 \in States
  BY IdleIfNoneBusySound DEF Sound
<1>2. Claims(s, s1)
  BY <1>1, RowsKept
<1>3. ASSUME stops # {}, WorkerOf(k) \in s.props
      PROVE  Claims(s1, Claim(s1, j, k, "Loop", left))
  <2>1. stops \in SUBSET Sockets
    BY DEF LoopStops, Rests
  <2>2. k \in stops /\ k \in Sockets
    <3> HIDE DEF stops
    <3> QED
      BY <1>3, <2>1, FirstSocketIsMember
  <2>3. J # {} /\ CanClaim(s, j, k)
    BY <1>3, <2>2 DEF LoopStops
  <2>4. J \in SUBSET Jobs /\ rest.order \in [Jobs -> Int]
    BY DEF GetEligibleJobs, Rests
  <2>5. j \in Jobs
    <3> HIDE DEF J
    <3> QED
      BY <2>3, <2>4, FirstJobIsMember
  <2>6. s1.stage = s.stage /\ s1.owner = s.owner /\ s1.disabled = s.disabled
    BY <1>1 DEF IdleIfNoneBusy, SetQueueStatus, States
  <2> HIDE DEF s1, j, k, left
  <2>7. CanClaim(s1, j, k)
    BY <2>3, <2>6 DEF CanClaim, Accepts
  <2> QED
    BY <1>1, <2>2, <2>5, <2>7, ClaimClaims
<1>4. ContinueStartQueue(s, rest) =
        IF stops = {} \/ WorkerOf(k) \notin s.props THEN s1
        ELSE Claim(s1, j, k, "Loop", left)
  BY DEF ContinueStartQueue
<1> HIDE DEF stops, k, s1, j, left
<1> QED
  BY <1>2, <1>3, <1>4, ClaimsCompose

\* StartQueue before its first await.
LEMMA StartQueueClaims ==
  ASSUME NEW D, NEW s \in Sound(D)
  PROVE  Claims(s, StartQueue(s))
<1> DEFINE rest == [sockets |-> GetAvailableWorkers(s), jobs |-> GetAvailableJobs(s),
                    order |-> s.order]
<1>1. rest \in Rests /\ s \in States
  BY DEF Rests, GetAvailableWorkers, GetAvailableJobs, Sound, States
<1> HIDE DEF rest
<1>2. Claims(s, ContinueStartQueue(s, rest))
  BY <1>1, ContinueStartQueueClaims
<1> QED
  BY <1>1, <1>2, RowsKept DEF StartQueue, rest

-----------------------------------------------------------------------------
(* Leading. *)

\* Claims alone are given jobs.
LEMMA ClaimsLead ==
  ASSUME NEW D, NEW n, NEW s \in States, NEW t \in States, Claims(s, t)
  PROVE  Leads(D, n, n, s, t)
<1>1. ASSUME NEW j \in Jobs PROVE Evolves(D, n, n, s, t, j)
  <2>1. Kept(n, n, s, t, j) \/ Given(s, t, j)
    BY DEF Claims, Kept, Given
  <2> QED
    BY <2>1 DEF Evolves
<1> QED
  BY <1>1 DEF Leads, Ordered, Claims

\* A handler may look for work when it has done its own.
LEMMA LeadsThenClaims ==
  ASSUME NEW D, NEW n, NEW m, NEW s \in States, NEW t \in States, NEW u \in States,
         Leads(D, n, m, s, t), Claims(t, u)
  PROVE  Leads(D, n, m, s, u)
<1>1. ASSUME NEW j \in Jobs PROVE Evolves(D, n, m, s, u, j)
  <2>1. u.stage[j] = t.stage[j]
    BY DEF Claims
  <2>2. CASE u.owner[j] = t.owner[j]
    BY <2>1, <2>2 DEF Leads, Evolves, Kept, Added, Given, Worked, Requeued, Finishes, Stops,
       Goes
  <2>3. CASE t.stage[j] = "Waiting" /\ t.owner[j] = NoWorker /\ u.owner[j] \in Workers
    <3>1. Kept(n, m, s, t, j) \/ Added(n, m, s, t, j) \/ Requeued(s, t, j)
      BY <2>3, QueueAssumption
         DEF Leads, Evolves, Given, Worked, Finishes, Stops, Goes, ActiveStages
    <3>2. Given(s, u, j) \/ Added(n, m, s, u, j) \/ Requeued(s, u, j)
      BY <2>1, <2>3, <3>1 DEF Kept, Added, Given, Requeued
    <3> QED
      BY <3>2 DEF Evolves
  <2> QED
    BY <2>2, <2>3 DEF Claims
<1> QED
  BY <1>1 DEF Leads, Ordered, Claims

-----------------------------------------------------------------------------
(* The order. *)

\* Deleting an order row leaves no gap and no double.
LEMMA RemoveJobOrderOrdered ==
  ASSUME NEW s \in States, NEW j \in Jobs
  PROVE  /\ RemoveJobOrder(s, j).stage = s.stage /\ RemoveJobOrder(s, j).owner = s.owner
         /\ Ordered(s) => Ordered(RemoveJobOrder(s, j)) /\ RemoveJobOrder(s, j).order[j] = 0
<1> DEFINE f == [i \in Jobs |-> IF i = j THEN 0
                 ELSE IF s.order[i] >= s.order[j] THEN s.order[i] - 1 ELSE s.order[i]]
<1>1. s.order \in [Jobs -> Int]
  BY DEF States
<1>2. CASE s.order[j] = 0
  BY <1>2 DEF RemoveJobOrder
<1>3. CASE s.order[j] # 0
  <2> DEFINE t == [s EXCEPT !.order = f]
  <2>1. RemoveJobOrder(s, j) = t
    BY <1>3 DEF RemoveJobOrder
  <2>2. t.stage = s.stage /\ t.owner = s.owner /\ t.order = f
    BY DEF States
  <2>3. ASSUME Ordered(s) PROVE Ordered(t) /\ t.order[j] = 0
    <3>1. f[j] = 0 /\ \A i \in Jobs : f[i] \in Int /\ f[i] >= 0
      BY <1>1, <1>3, <2>3 DEF Ordered
    <3>2. ASSUME NEW i \in Jobs, NEW l \in Jobs, f[i] = f[l], f[i] # 0 PROVE i = l
      BY <1>1, <1>3, <2>3, <3>2 DEF Ordered
    <3>3. ASSUME NEW i \in Jobs, s.stage[i] = "Absent" PROVE f[i] = 0
      BY <1>1, <1>3, <2>3, <3>3 DEF Ordered
    <3> HIDE DEF f
    <3> QED
      BY <2>2, <3>1, <3>2, <3>3 DEF Ordered
  <2> QED
    BY <2>1, <2>2, <2>3
<1> QED
  BY <1>2, <1>3

\* A move shifts the jobs between the old and the new index by one.
LEMMA MoveJobOrderOrdered ==
  ASSUME NEW s \in States, NEW j \in Jobs, NEW n \in Jobs, s.order[j] # 0
  PROVE  /\ MoveJobOrder(s, j, n).stage = s.stage /\ MoveJobOrder(s, j, n).owner = s.owner
         /\ Ordered(s) => Ordered(MoveJobOrder(s, j, n))
<1> DEFINE f == [i \in Jobs |->
              CASE i = j                                         -> n
                [] i # j /\ s.order[j] < s.order[i] /\ s.order[i] <= n ->
                     s.order[i] - 1
                [] i # j /\ n <= s.order[i] /\ s.order[i] < s.order[j] ->
                     s.order[i] + 1
                [] OTHER                                         -> s.order[i]]
           t == [s EXCEPT !.order = f]
<1>1. s.order \in [Jobs -> Int] /\ n \in Int /\ n >= 1
  BY DEF States, Jobs
<1>2. MoveJobOrder(s, j, n) = t
  BY DEF MoveJobOrder
<1>3. t.stage = s.stage /\ t.owner = s.owner /\ t.order = f
  BY DEF States
<1>4. ASSUME Ordered(s) PROVE Ordered(t)
  <2>1. \A i \in Jobs : s.order[i] >= 0
    BY <1>4 DEF Ordered
  <2>2. \A i, l \in Jobs : s.order[i] = s.order[l] /\ s.order[i] # 0 => i = l
    BY <1>4 DEF Ordered
  <2>3. /\ f[j] = n
        /\ \A i \in Jobs \ {j} :
             \/ s.order[j] < s.order[i] /\ s.order[i] <= n /\ f[i] = s.order[i] - 1
             \/ n <= s.order[i] /\ s.order[i] < s.order[j] /\ f[i] = s.order[i] + 1
             \/ /\ f[i] = s.order[i]
                /\ ~(s.order[j] < s.order[i] /\ s.order[i] <= n)
                /\ ~(n <= s.order[i] /\ s.order[i] < s.order[j])
    BY <1>1
  <2> HIDE DEF f
  <2>4. \A i \in Jobs : f[i] >= 0
    BY <1>1, <2>1, <2>3
  <2>5. ASSUME NEW i \in Jobs, NEW l \in Jobs, f[i] = f[l], f[i] # 0 PROVE i = l
    <3>1. CASE i = j \/ l = j
      BY <1>1, <2>1, <2>2, <2>3, <2>5, <3>1
    <3>2. CASE i # j /\ l # j
      BY <1>1, <2>1, <2>2, <2>3, <2>5, <3>2
    <3> QED
      BY <3>1, <3>2
  <2>6. ASSUME NEW i \in Jobs, s.stage[i] = "Absent" PROVE f[i] = 0
    <3>1. s.order[i] = 0 /\ i # j
      BY <1>4, <2>6 DEF Ordered
    <3> QED
      BY <1>1, <2>1, <2>3, <3>1
  <2> QED
    BY <1>3, <2>4, <2>5, <2>6 DEF Ordered
<1> QED
  BY <1>2, <1>3, <1>4

\* The index after the greatest one is free.
LEMMA NextOrderIndexIsFree ==
  ASSUME NEW s \in States
  PROVE  /\ NextOrderIndex(s) \in Int /\ NextOrderIndex(s) >= 1
         /\ \A j \in Jobs : s.order[j] < NextOrderIndex(s)
<1> DEFINE N == {s.order[j] : j \in Jobs} \union {0}
<1>1. \A j \in Jobs : s.order[j] \in Int
  BY DEF States
<1>2. PICK b \in Nat : \A i \in 1 .. NJobs : -b <= s.order[i] /\ s.order[i] <= b
  BY <1>1, QueueAssumption, FunctionIsBounded DEF Jobs
<1>3. N \in SUBSET Int /\ N # {} /\ b \in Int /\ \A m \in N : m <= b
  BY <1>1, <1>2 DEF Jobs
<1>4. PICK n \in N : \A m \in N : n >= m
  BY <1>3, GreatestInteger
<1>5. Max(N) \in N /\ \A m \in N : Max(N) >= m
  BY <1>4 DEF Max
<1>6. NextOrderIndex(s) = 1 + Max(N)
  BY DEF NextOrderIndex
<1>7. Max(N) \in Int /\ Max(N) >= 0 /\ \A j \in Jobs : s.order[j] <= Max(N)
  BY <1>3, <1>5
<1> HIDE DEF N
<1> QED
  BY <1>1, <1>6, <1>7

\* A job that is present may enter the order.
LEMMA InsertJobOrderOrdered ==
  ASSUME NEW s \in States, NEW j \in Jobs, s.stage[j] # "Absent"
  PROVE  /\ InsertJobOrder(s, j).stage = s.stage /\ InsertJobOrder(s, j).owner = s.owner
         /\ Ordered(s) => Ordered(InsertJobOrder(s, j))
<1> DEFINE n == NextOrderIndex(s)
           t == [s EXCEPT !.order[j] = n]
<1>1. /\ n \in Int /\ n >= 1 /\ s.order \in [Jobs -> Int]
      /\ \A i \in Jobs : s.order[i] < n
  BY NextOrderIndexIsFree DEF States
<1> HIDE DEF n
<1>2. /\ t.stage = s.stage /\ t.owner = s.owner
      /\ \A i \in Jobs : t.order[i] = IF i = j THEN n ELSE s.order[i]
  BY DEF States
<1>3. Ordered(s) => Ordered(t)
  <2> HIDE DEF t
  <2> QED
    BY <1>1, <1>2 DEF Ordered
<1> QED
  BY <1>2, <1>3 DEF InsertJobOrder, n

-----------------------------------------------------------------------------
(* The handlers. *)

\* A write to one row leads if it leads that job.
LEMMA RowLeads ==
  ASSUME NEW D, NEW n, NEW m, NEW s, NEW t, NEW j \in Jobs,
         Evolves(D, n, m, s, t, j),
         \A i \in Jobs \ {j} : Kept(n, m, s, t, i),
         Ordered(s) => Ordered(t)
  PROVE  Leads(D, n, m, s, t)
<1>1. ASSUME NEW i \in Jobs PROVE Evolves(D, n, m, s, t, i)
  BY DEF Evolves
<1> QED
  BY <1>1 DEF Leads

\* The status updates that the handlers make; a write to a job that is gone does nothing.
LEMMA UpdateJobStatusLeads ==
  ASSUME NEW D, NEW n, NEW r, NEW s \in Sound(D), NEW j \in Jobs,
         NEW to, NEW w \in Workers \union {NoWorker},
         r.stage = s.stage, r.owner = s.owner, Ordered(r) => Ordered(s),
         \/ to = s.stage[j] /\ w \in Workers
         \/ to \in ActiveStages /\ w = s.owner[j] /\ w # NoWorker
         \/ to \in {"Stopped", "Error"} /\ w = NoWorker
         \/ to = "Finished" /\ j \in D /\ w \in Workers
         \/ to = "Waiting" /\ s.stage[j] \in EndedStages
  PROVE  Leads(D, n, n, r, UpdateJobStatus(s, j, to, w))
<1> DEFINE t == UpdateJobStatus(s, j, to, w)
<1>1. s.stage \in [Jobs -> Stages \union {"Absent"}]
      /\ s.owner \in [Jobs -> Workers \union {NoWorker}]
  BY DEF Sound, States
<1>2. CASE s.stage[j] = "Absent"
  <2>1. t = s
    BY <1>2 DEF UpdateJobStatus
  <2>2. \A i \in Jobs : Kept(n, n, r, s, i)
    BY DEF Kept
  <2> QED
    BY <2>1, <2>2 DEF Leads, Evolves
<1>3. CASE s.stage[j] # "Absent"
  <2>1. /\ t.stage = [s.stage EXCEPT ![j] = to] /\ t.owner = [s.owner EXCEPT ![j] = w]
        /\ t.order = s.order
    BY <1>3 DEF UpdateJobStatus, Sound, States
  <2>2. t.stage[j] = to /\ t.owner[j] = w /\ to # "Absent"
    BY <1>1, <1>3, <2>1 DEF ActiveStages
  <2>3. \A i \in Jobs \ {j} : t.stage[i] = s.stage[i] /\ t.owner[i] = s.owner[i]
    BY <1>1, <2>1
  <2> HIDE DEF t
  <2>4. \A i \in Jobs \ {j} : Kept(n, n, r, t, i)
    BY <2>3 DEF Kept
  <2>5. \/ Given(r, t, j) \/ Worked(r, t, j) \/ Stops(r, t, j) \/ Finishes(D, r, t, j)
        \/ Requeued(r, t, j)
    BY <1>3, <2>2 DEF Given, Worked, Stops, Finishes, Requeued
  <2>6. Ordered(s) => Ordered(t)
    BY <2>1, <2>2, <2>3 DEF Ordered
  <2>7. Leads(D, n, n, r, t)
    BY <2>4, <2>5, <2>6, RowLeads DEF Evolves
  <2> QED
    BY <2>7 DEF t
<1> QED
  BY <1>2, <1>3

\* A claim is released only by the worker that holds it.
LEMMA ReleaseClaimedJobLeads ==
  ASSUME NEW D, NEW n, NEW s \in States, NEW j \in Jobs, NEW w \in Workers, Placed(n, s)
  PROVE  Leads(D, n, n, s, ReleaseClaimedJob(s, j, w))
<1> DEFINE t == ReleaseClaimedJob(s, j, w)
<1>1. \A i \in Jobs : Kept(n, n, s, s, i)
  BY DEF Kept
<1>2. CASE s.owner[j] # w
  BY <1>1, <1>2 DEF ReleaseClaimedJob, Leads, Evolves
<1>3. CASE s.owner[j] = w
  <2>1. s.stage[j] # "Absent" /\ s.owner[j] # NoWorker
    BY <1>3, QueueAssumption DEF Placed
  <2>2. /\ t.stage = [s.stage EXCEPT ![j] = "Waiting"]
        /\ t.owner = [s.owner EXCEPT ![j] = NoWorker] /\ t.order = s.order
    BY <1>3 DEF ReleaseClaimedJob, States
  <2>3. t.stage[j] = "Waiting" /\ t.owner[j] = NoWorker
        /\ \A i \in Jobs \ {j} : t.stage[i] = s.stage[i] /\ t.owner[i] = s.owner[i]
    BY <2>2 DEF States
  <2> HIDE DEF t
  <2>4. Requeued(s, t, j) /\ \A i \in Jobs \ {j} : Kept(n, n, s, t, i)
    BY <2>1, <2>3 DEF Requeued, Kept
  <2>5. Ordered(s) => Ordered(t)
    BY <2>2, <2>3 DEF Ordered
  <2>6. Leads(D, n, n, s, t)
    BY <2>4, <2>5, RowLeads DEF Evolves
  <2> QED
    BY <2>6 DEF t
<1> QED
  BY <1>2, <1>3

\* A new job starts its life.
LEMMA InsertJobLeads ==
  ASSUME NEW D, NEW s \in Sound(D), NEW j \in Jobs, Placed(j, s)
  PROVE  Leads(D, j, j + 1, s, InsertJob(s, j))
<1> DEFINE s1 == [s EXCEPT !.stage[j] = "Waiting", !.owner[j] = NoWorker]
           t == InsertJob(s, j)
<1>1. s \in States /\ j \in Nat /\ s.stage[j] = "Absent" /\ s.owner[j] = NoWorker
  BY DEF Sound, Placed, Jobs
<1>2. /\ s1 \in States /\ s1.order = s.order
      /\ s1.stage = [s.stage EXCEPT ![j] = "Waiting"]
      /\ s1.owner = [s.owner EXCEPT ![j] = NoWorker]
  BY <1>1 DEF States, Stages
<1>3. s1.stage[j] = "Waiting" /\ s1.owner[j] = NoWorker
      /\ \A i \in Jobs \ {j} : s1.stage[i] = s.stage[i] /\ s1.owner[i] = s.owner[i]
  BY <1>1, <1>2 DEF States
<1> HIDE DEF s1
<1>4. t.stage = s1.stage /\ t.owner = s1.owner /\ (Ordered(s1) => Ordered(t))
  BY <1>2, <1>3, InsertJobOrderOrdered DEF InsertJob, s1
<1> HIDE DEF t
<1>5. Ordered(s) => Ordered(s1)
  BY <1>2, <1>3 DEF Ordered
<1>6. Added(j, j + 1, s, t, j)
  BY <1>1, <1>3, <1>4 DEF Added
<1>7. ASSUME NEW i \in Jobs \ {j} PROVE Kept(j, j + 1, s, t, i)
  <2>1. i \in Int /\ j \in Int /\ i # j
    BY DEF Jobs
  <2>2. i < j <=> i < j + 1
    BY <2>1
  <2> QED
    BY <1>3, <1>4, <2>2 DEF Kept
<1>8. Leads(D, j, j + 1, s, t)
  BY <1>4, <1>5, <1>6, <1>7, RowLeads DEF Evolves
<1> QED
  BY <1>8 DEF t

\* A stop that ends writes an ended stage, and its worker looks for work.
LEMMA FinishStopLeads ==
  ASSUME NEW D, NEW n, NEW s \in Sound(D), NEW j \in Jobs, NEW w,
         NEW to \in {"Stopped", "Error"}
  PROVE  Leads(D, n, n, s, FinishStop(s, j, w, to))
<1> DEFINE s0 == RemoveJobOrder(s, j)
           s1 == UpdateJobStatus(s0, j, to, NoWorker)
<1>1. s \in States /\ s0 \in Sound(D)
  BY RemoveJobOrderSound DEF Sound
<1>2. s0.stage = s.stage /\ s0.owner = s.owner /\ (Ordered(s) => Ordered(s0))
  BY <1>1, RemoveJobOrderOrdered
<1>3. s1 \in Sound(D)
  BY <1>1, UpdateJobStatusSound DEF Stages, ActiveStages, EndedStages
<1> HIDE DEF s0
<1>4. Leads(D, n, n, s, s1)
  BY <1>1, <1>2, UpdateJobStatusLeads
<1> HIDE DEF s1
<1>5. /\ Claims(s1, WorkerForAvailableJobsOrThrow(s1, w))
      /\ WorkerForAvailableJobsOrThrow(s1, w) \in Sound(D)
  BY <1>3, WorkerForAvailableJobsOrThrowClaims, WorkerForAvailableJobsOrThrowSound DEF Sound
<1>6. Leads(D, n, n, s, WorkerForAvailableJobsOrThrow(s1, w))
  BY <1>1, <1>3, <1>4, <1>5, LeadsThenClaims DEF Sound
<1> QED
  BY <1>4, <1>6 DEF FinishStop, s0, s1

\* StopJob ends a job at once, or asks the worker that holds it and changes no row.
LEMMA StopJobLeads ==
  ASSUME NEW D, NEW n, NEW s \in Sound(D), NEW j \in Jobs, NEW to \in {"Stopped", "Error"}
  PROVE  Leads(D, n, n, s, StopJob(s, j, to))
<1> DEFINE w == s.owner[j]
           c == Call("stop", SocketOf(s, w), j, to)
<1>1. s \in States /\ StopJob(s, j, to) \in States
  BY StopJobSound DEF Sound
<1>2. CASE s.stage[j] = "Absent"
  BY <1>1, <1>2, RowsKept, ClaimsLead DEF StopJob
<1>3. CASE s.stage[j] # "Absent" /\ Connected(s, w)
  <2>1. StopJob(s, j, to) = Ask(s, c)
    BY <1>3 DEF StopJob
  <2>2. Claims(s, StopJob(s, j, to))
    BY <1>1, <2>1, RowsKept
  <2> QED
    BY <1>1, <2>2, ClaimsLead
<1>4. CASE s.stage[j] # "Absent" /\ ~Connected(s, w)
  BY <1>4, FinishStopLeads DEF StopJob
<1> QED
  BY <1>2, <1>3, <1>4

\* Only an ended job is reset.
LEMMA ResetJobLeads ==
  ASSUME NEW D, NEW n, NEW s \in Sound(D), NEW j \in Jobs
  PROVE  Leads(D, n, n, s, ResetJob(s, j))
<1> DEFINE s0 == InsertJobOrder(s, j)
           s1 == UpdateJobStatus(s0, j, "Waiting", NoWorker)
<1>1. s \in States
  BY DEF Sound
<1>2. CASE s.stage[j] \notin EndedStages
  BY <1>1, <1>2, RowsKept, ClaimsLead DEF ResetJob
<1>3. CASE s.stage[j] \in EndedStages
  <2>1. s.stage[j] # "Absent"
    BY <1>3 DEF EndedStages
  <2>2. s0 \in Sound(D) /\ s0.stage = s.stage /\ s0.owner = s.owner
        /\ (Ordered(s) => Ordered(s0))
    BY <1>1, <2>1, InsertJobOrderSound, InsertJobOrderOrdered
  <2> HIDE DEF s0
  <2>3. s1 \in Sound(D)
    BY <2>2, UpdateJobStatusSound DEF Stages, ActiveStages
  <2>4. Leads(D, n, n, s, s1)
    BY <1>3, <2>2, UpdateJobStatusLeads
  <2> HIDE DEF s1
  <2>5. Claims(s1, JobForAvailableWorkers(s1, j)) /\ JobForAvailableWorkers(s1, j) \in Sound(D)
    BY <2>3, JobForAvailableWorkersClaims, JobForAvailableWorkersSound DEF Sound
  <2>6. Leads(D, n, n, s, JobForAvailableWorkers(s1, j))
    BY <1>1, <2>3, <2>4, <2>5, LeadsThenClaims DEF Sound
  <2> QED
    BY <1>3, <2>6 DEF ResetJob, s0, s1
<1> QED
  BY <1>2, <1>3

\* An active job is not removed.
LEMMA RemoveJobLeads ==
  ASSUME NEW D, NEW n, NEW s \in Sound(D), NEW j \in Jobs
  PROVE  Leads(D, n, n, s, RemoveJob(s, j))
<1> DEFINE s0 == RemoveJobOrder(s, j)
           t == [s0 EXCEPT !.stage[j] = "Absent", !.owner[j] = NoWorker]
<1>1. s \in States /\ s0 \in States /\ Throw(s) \in States
  BY RemoveJobOrderSound, ThrowSound DEF Sound
<1>2. CASE s.stage[j] \in ActiveStages \union {"Absent"}
  BY <1>1, <1>2, RowsKept, ClaimsLead DEF RemoveJob
<1>3. CASE s.stage[j] \notin ActiveStages \union {"Absent"}
  <2>1. /\ s0.stage = s.stage /\ s0.owner = s.owner
        /\ Ordered(s) => Ordered(s0) /\ s0.order[j] = 0
    BY <1>1, RemoveJobOrderOrdered
  <2> HIDE DEF s0
  <2>2. /\ t.stage = [s.stage EXCEPT ![j] = "Absent"]
        /\ t.owner = [s.owner EXCEPT ![j] = NoWorker] /\ t.order = s0.order
    BY <1>1, <2>1 DEF States
  <2>3. t.stage[j] = "Absent" /\ t.owner[j] = NoWorker
        /\ \A i \in Jobs \ {j} : t.stage[i] = s.stage[i] /\ t.owner[i] = s.owner[i]
    BY <1>1, <2>2 DEF States
  <2> HIDE DEF t
  <2>4. Goes(s, t, j) /\ \A i \in Jobs \ {j} : Kept(n, n, s, t, i)
    BY <1>3, <2>3 DEF Goes, Kept
  <2>5. Ordered(s) => Ordered(t)
    BY <2>1, <2>2, <2>3 DEF Ordered
  <2>6. Leads(D, n, n, s, t)
    BY <2>4, <2>5, RowLeads DEF Evolves
  <2> QED
    BY <1>3, <2>6 DEF RemoveJob, RemoveJobByID, s0, t
<1> QED
  BY <1>2, <1>3

\* The answer to a start: the job is given, or the claim is released.
LEMMA StartAnsweredLeads ==
  ASSUME NEW D, NEW n, NEW s \in Sound(D), NEW c \in CallRecords, c.op = "start",
         NEW didStart \in BOOLEAN, Placed(n, s)
  PROVE  Leads(D, n, n, s, StartAnswered(s, c, didStart))
<1> DEFINE w == WorkerOf(c.to)
           s1 == IF didStart THEN UpdateJobStatus(s, c.job, s.stage[c.job], w)
                 ELSE ReleaseClaimedJob(s, c.job, w)
           s2 == SetQueueStatus(s1, "Active")
           rest == [c.rest EXCEPT !.jobs = @ \ {c.job}]
           t == StartAnswered(s, c, didStart)
<1>1. c.job \in Jobs /\ c.to \in Sockets /\ c.rest \in Rests /\ rest \in Rests
  BY DEF CallRecords, Rests
<1>2. w \in Workers /\ w # NoWorker
  BY <1>1, QueueAssumption DEF Sockets, WorkerOf
<1>3. /\ s \in States /\ s.stage[c.job] \in Stages \union {"Absent"}
      /\ s.stage[c.job] = "Finished" => c.job \in D
  BY <1>1 DEF Sound, States
<1> HIDE DEF w
<1>4. s1 \in Sound(D)
  BY <1>1, <1>2, <1>3, UpdateJobStatusSound, ReleaseClaimedJobSound
<1>5. Leads(D, n, n, s, s1)
  <2>1. Leads(D, n, n, s, UpdateJobStatus(s, c.job, s.stage[c.job], w))
    BY <1>1, <1>2, UpdateJobStatusLeads
  <2>2. Leads(D, n, n, s, ReleaseClaimedJob(s, c.job, w))
    BY <1>1, <1>2, <1>3, ReleaseClaimedJobLeads
  <2> QED
    BY <2>1, <2>2
<1>6. t = CASE c.then # "Loop" -> ReportStart(s1, didStart)
            [] c.then = "Loop" /\ didStart -> ContinueStartQueue(s2, rest)
            [] OTHER -> ContinueStartQueue(s1, c.rest)
  BY DEF StartAnswered, w
<1>7. t \in States
  BY StartAnsweredSound DEF Sound
<1> HIDE DEF s1, t, rest
<1>8. s1 \in States /\ s2 \in Sound(D)
  BY <1>4, SetQueueStatusSound DEF Sound, QueueStatus
<1>9. Claims(s1, s2) /\ Claims(s1, ReportStart(s1, didStart))
  BY <1>8, RowsKept
<1> HIDE DEF s2
<1>10. /\ Claims(s2, ContinueStartQueue(s2, rest))
       /\ Claims(s1, ContinueStartQueue(s1, c.rest))
  BY <1>1, <1>4, <1>8, ContinueStartQueueClaims
<1>11. Claims(s1, t)
  BY <1>6, <1>9, <1>10, ClaimsCompose
<1> QED
  BY <1>3, <1>5, <1>7, <1>8, <1>11, LeadsThenClaims DEF t

\* The clean-up after a disconnect touches an active job only.
LEMMA CleanupWorkerLeads ==
  ASSUME NEW D, NEW n, NEW s \in Sound(D), NEW k
  PROVE  Leads(D, n, n, s, CleanupWorker(s, k))
<1> DEFINE active == {j \in Jobs : s.owner[j] = WorkerOf(k) /\ s.stage[j] \in ActiveStages}
           s1 == [s EXCEPT !.workers = @ \ {k}, !.props = @ \ {WorkerOf(k)}]
           j == Min(active)
           t == [s1 EXCEPT !.stage[j] = "Unknown"]
<1>1. s \in States /\ s1 \in States /\ s1.stage = s.stage /\ s1.owner = s.owner
      /\ s1.order = s.order
  BY DEF Sound, States
<1>2. Leads(D, n, n, s, s1)
  <2> HIDE DEF s1
  <2> QED
    BY <1>1, ClaimsLead DEF Claims
<1>3. ASSUME active # {} PROVE Leads(D, n, n, s, t)
  <2>1. j \in active
    BY <1>3, MinIsMember
  <2>2. j \in Jobs /\ s.stage[j] \in ActiveStages /\ s.owner[j] # NoWorker
    BY <2>1 DEF Sound
  <2> HIDE DEF j, s1
  <2>3. /\ t.stage = [s.stage EXCEPT ![j] = "Unknown"] /\ t.owner = s.owner
        /\ t.order = s.order
    BY <1>1 DEF States
  <2>4. t.stage[j] = "Unknown" /\ \A i \in Jobs \ {j} : t.stage[i] = s.stage[i]
    BY <1>1, <2>2, <2>3 DEF States
  <2> HIDE DEF t
  <2>5. Worked(s, t, j) /\ \A i \in Jobs \ {j} : Kept(n, n, s, t, i)
    BY <2>2, <2>3, <2>4 DEF Worked, Kept, ActiveStages
  <2>6. Ordered(s) => Ordered(t)
    BY <2>2, <2>3, <2>4 DEF Ordered
  <2> QED
    BY <2>2, <2>5, <2>6, RowLeads DEF Evolves
<1> QED
  BY <1>2, <1>3 DEF CleanupWorker

-----------------------------------------------------------------------------
(* Clearing the queue. *)

\* The cleared jobs with an index from a on and below b.
Between(o, gone, a, b) == {i \in gone : a <= o[i] /\ o[i] < b}

\* Between two indices there are no more jobs than integers.
LEMMA CountBetween ==
  ASSUME NEW o \in [Jobs -> Int], \A i, j \in Jobs : o[i] = o[j] /\ o[i] # 0 => i = j,
         NEW gone \in SUBSET Jobs, NEW a \in Nat, NEW b \in Nat, 1 <= a, a <= b
  PROVE  /\ IsFiniteSet(Between(o, gone, a, b))
         /\ Cardinality(Between(o, gone, a, b)) \in Nat
         /\ Cardinality(Between(o, gone, a, b)) <= b - a
<1> DEFINE S == Between(o, gone, a, b)
           T == a .. (b - 1)
           f == [i \in S |-> o[i]]
<1>1. IsFiniteSet(T) /\ Cardinality(T) = b - a
  BY FS_Interval
<1>2. f \in [S -> T]
  BY DEF Between
<1>3. \A i, j \in S : f[i] = f[j] => i = j
  BY DEF Between
<1>4. f \in Injection(S, T)
  BY <1>2, <1>3 DEF Injection, IsInjective
<1> HIDE DEF S, T, f
<1>5. IsFiniteSet(S) /\ Cardinality(S) <= Cardinality(T)
  BY <1>1, <1>4, FS_Injection
<1>6. Cardinality(S) \in Nat
  BY <1>5, FS_CardinalityType
<1> QED
  BY <1>1, <1>5, <1>6 DEF S

\* An index from which the cleared jobs below are taken stays positive.
LEMMA ClearedIndex ==
  ASSUME NEW o \in [Jobs -> Int], \A i, j \in Jobs : o[i] = o[j] /\ o[i] # 0 => i = j,
         NEW gone \in SUBSET Jobs, NEW j \in Jobs, 0 < o[j]
  PROVE  o[j] - Cardinality(Between(o, gone, 1, o[j])) \in Nat \ {0}
<1>1. o[j] \in Nat /\ 1 <= o[j]
  OBVIOUS
<1>2. /\ Cardinality(Between(o, gone, 1, o[j])) \in Nat
      /\ Cardinality(Between(o, gone, 1, o[j])) <= o[j] - 1
  BY <1>1, CountBetween
<1> QED
  BY <1>1, <1>2

\* Taking the cleared jobs below from each index keeps the indices apart.
LEMMA ClearedOrder ==
  ASSUME NEW o \in [Jobs -> Int], \A i, j \in Jobs : o[i] = o[j] /\ o[i] # 0 => i = j,
         NEW gone \in SUBSET Jobs,
         NEW j \in Jobs \ gone, NEW l \in Jobs, 0 < o[j], o[j] < o[l]
  PROVE  o[j] - Cardinality(Between(o, gone, 1, o[j]))
           < o[l] - Cardinality(Between(o, gone, 1, o[l]))
<1> DEFINE first == Between(o, gone, 1, o[j])
           rest == Between(o, gone, o[j] + 1, o[l])
           below == Between(o, gone, 1, o[l])
<1>1. o[j] \in Nat /\ o[l] \in Nat /\ 1 <= o[j] /\ o[j] + 1 <= o[l] /\ o[j] + 1 \in Nat
      /\ 1 <= o[j] + 1
  OBVIOUS
<1>2. /\ IsFiniteSet(first) /\ Cardinality(first) \in Nat
      /\ Cardinality(first) <= o[j] - 1
  BY <1>1, CountBetween
<1>3. /\ IsFiniteSet(rest) /\ Cardinality(rest) \in Nat
      /\ Cardinality(rest) <= o[l] - (o[j] + 1)
  BY <1>1, CountBetween
<1>4. \A g \in gone : o[g] # o[j] /\ o[g] \in Int
  BY <1>1
<1>5. \A g \in gone : 1 <= o[g] /\ o[g] < o[l]
        <=> (1 <= o[g] /\ o[g] < o[j]) \/ (o[j] + 1 <= o[g] /\ o[g] < o[l])
  BY <1>1, <1>4
<1>6. below = first \union rest
  BY <1>5 DEF Between
<1>7. first \cap rest = {}
  BY <1>1, <1>4 DEF Between
<1> HIDE DEF below, first, rest
<1>8. Cardinality({}) = 0
  BY FS_EmptySet
<1>9. Cardinality(first \union rest)
        = Cardinality(first) + Cardinality(rest) - Cardinality(first \cap rest)
  BY <1>2, <1>3, FS_Union
<1>10. Cardinality(below) = Cardinality(first) + Cardinality(rest)
  <2>1. Cardinality(first \cap rest) = 0
    BY <1>7, <1>8, Zenon
  <2>2. Cardinality(first \union rest) = Cardinality(first) + Cardinality(rest)
    BY <1>2, <1>3, <1>9, <2>1
  <2> QED
    BY <1>6, <2>2, Zenon
<1>11. o[j] - Cardinality(first) < o[l] - Cardinality(below)
  BY <1>1, <1>2, <1>3, <1>10
<1> QED
  BY <1>11 DEF first, below

\* A handler that becomes a state gives the variables its values.
LEMMA BecomeIs ==
  ASSUME NEW s \in States, Become(s)
  PROVE  Server' = s
<1>1. s = [running |-> s.running, stage |-> s.stage, owner |-> s.owner,
           order |-> s.order, queue |-> s.queue, workers |-> s.workers,
           props |-> s.props, disabled |-> s.disabled, calls |-> s.calls,
           completed |-> s.completed, uploads |-> s.uploads,
           verifying |-> s.verifying]
  BY DEF States
<1> QED
  BY <1>1 DEF Become, Server

\* Only jobs that are done or wait are cleared.
LEMMA ClearsQueueLeads ==
  ASSUME LInv, NEW finishedOnly \in BOOLEAN, ClientClearsQueue(finishedOnly)
  PROVE  Leads(delivered, nextJob, nextJob, Server, Server')
<1> DEFINE gone == {j \in Jobs : stage[j] \in ClearableStages(finishedOnly)}
           left == {j \in Jobs \ gone : order[j] # 0}
           below(j) == {i \in gone : 0 < order[i] /\ order[i] < order[j]}
           f == [j \in Jobs |-> IF j \notin left THEN 0
                                ELSE order[j] - Cardinality(below(j))]
           t == Server'
<1>1. /\ stage \in [Jobs -> Stages \union {"Absent"}]
      /\ owner \in [Jobs -> Workers \union {NoWorker}] /\ order \in [Jobs -> Int]
  BY DEF LInv, IInv, Sound, States, Server
<1>2. /\ t.stage = [j \in Jobs |-> IF j \in gone THEN "Absent" ELSE stage[j]]
      /\ t.owner = [j \in Jobs |-> IF j \in gone THEN NoWorker ELSE owner[j]]
      /\ t.order = f
  BY DEF ClientClearsQueue, ClientRequest, ClientStep, Become, Server
<1>3. Server.stage = stage /\ Server.owner = owner /\ Server.order = order
  BY DEF Server
<1>4. ASSUME NEW j \in Jobs
      PROVE  Kept(nextJob, nextJob, Server, t, j) \/ Goes(Server, t, j)
  <2>1. CASE j \in gone
    <3>1. stage[j] \notin ActiveStages \union {"Absent"}
      BY <2>1 DEF ClearableStages, ActiveStages
    <3> HIDE DEF gone
    <3> QED
      BY <1>2, <1>3, <2>1, <3>1 DEF Goes
  <2>2. CASE j \notin gone
    <3> HIDE DEF gone
    <3> QED
      BY <1>2, <1>3, <2>2 DEF Kept
  <2> QED
    BY <2>1, <2>2
<1>5. Ordered(t)
  <2>10. ASSUME NEW j \in Jobs PROVE below(j) = Between(order, gone, 1, order[j])
    <3>1. \A i \in gone : 0 < order[i] <=> 1 <= order[i]
      BY <1>1
    <3> QED
      BY <3>1 DEF Between
  <2>1. /\ \A i \in Jobs : order[i] >= 0
        /\ \A i, j \in Jobs : order[i] = order[j] /\ order[i] # 0 => i = j
        /\ \A j \in Jobs : stage[j] = "Absent" => order[j] = 0
    BY <1>3 DEF LInv, Ordered
  <2>2. ASSUME NEW j \in left PROVE f[j] \in Nat \ {0}
    <3>1. order[j] - Cardinality(below(j)) \in Nat \ {0}
      <4>1. j \in Jobs /\ 0 < order[j]
        BY <1>1, <2>1
      <4>2. order[j] - Cardinality(Between(order, gone, 1, order[j])) \in Nat \ {0}
        BY <1>1, <2>1, <4>1, ClearedIndex
      <4> HIDE DEF below, gone
      <4> QED
        BY <2>10, <4>1, <4>2
    <3> HIDE DEF below, left
    <3>2. j \in Jobs
      BY DEF left
    <3> QED
      BY <3>1, <3>2
  <2>3. \A j \in Jobs \ left : f[j] = 0
    <3> HIDE DEF left, below
    <3> QED
      OBVIOUS
  <2>4. ASSUME NEW i \in left, NEW j \in left, order[i] < order[j] PROVE f[i] < f[j]
    <3>1. order[i] - Cardinality(below(i)) < order[j] - Cardinality(below(j))
      <4>1. i \in Jobs \ gone /\ j \in Jobs /\ 0 < order[i]
        BY <1>1, <2>1
      <4>2. order[i] - Cardinality(Between(order, gone, 1, order[i]))
              < order[j] - Cardinality(Between(order, gone, 1, order[j]))
        BY <1>1, <2>1, <2>4, <4>1, ClearedOrder
      <4> HIDE DEF below, gone
      <4> QED
        BY <2>10, <4>1, <4>2
    <3>2. i \in Jobs /\ j \in Jobs
      OBVIOUS
    <3> HIDE DEF below, left
    <3> QED
      BY <3>1, <3>2
  <2>5. ASSUME NEW i \in left, NEW j \in left PROVE i = j \/ order[i] < order[j] \/ order[j] < order[i]
    BY <1>1, <2>1
  <2>6. ASSUME NEW j \in Jobs, t.stage[j] = "Absent" PROVE j \notin left
    <3>1. j \in gone \/ stage[j] = "Absent"
      BY <1>2, <2>6
    <3> QED
      BY <2>1, <3>1
  <2> HIDE DEF f, left, gone
  <2>7. \A j \in Jobs : f[j] \in Nat
    BY <2>2, <2>3
  <2>8. \A i, j \in Jobs : f[i] = f[j] /\ f[i] # 0 => i = j
    <3>1. ASSUME NEW i \in Jobs, NEW j \in Jobs, f[i] = f[j], f[i] # 0 PROVE i = j
      <4>1. i \in left /\ j \in left
        BY <2>3, <3>1
      <4> QED
        BY <2>4, <2>5, <2>7, <3>1, <4>1
    <3> QED
      BY <3>1
  <2>9. \A j \in Jobs : t.stage[j] = "Absent" => f[j] = 0
    BY <2>3, <2>6
  <2> QED
    BY <1>2, <2>7, <2>8, <2>9 DEF Ordered
<1> QED
  BY <1>4, <1>5 DEF Leads, Evolves

-----------------------------------------------------------------------------
(* The actions. *)

\* What a step of the server does to the jobs, the ids and the order.
LeadsOn ==
  /\ nextJob' \in {nextJob, nextJob + 1}
  /\ Leads(delivered, nextJob, nextJob', Server, Server')

\* A handler that removes its call, or notes something down, before it leads.
LEMMA ServerLeads ==
  ASSUME NEW s \in States, s.stage = stage, s.owner = owner, s.order = order,
         NEW t \in States, Leads(delivered, nextJob, nextJob, s, t),
         Become(t), nextJob' = nextJob
  PROVE  LeadsOn
<1>1. Server' = t
  BY BecomeIs
<1>2. Server.stage = s.stage /\ Server.owner = s.owner /\ Server.order = s.order
  BY DEF Server
<1>3. \A j \in Jobs : Evolves(delivered, nextJob, nextJob, Server, t, j)
  BY <1>2 DEF Leads, Evolves, Kept, Added, Given, Worked, Requeued, Finishes, Stops, Goes
<1>4. Ordered(Server) => Ordered(t)
  BY <1>2 DEF Leads, Ordered
<1> QED
  BY <1>1, <1>3, <1>4 DEF Leads, LeadsOn

\* The same for a handler that only looks for work.
LEMMA ServerClaims ==
  ASSUME NEW s \in States, s.stage = stage, s.owner = owner, s.order = order,
         NEW t \in States, Claims(s, t), Become(t), nextJob' = nextJob
  PROVE  LeadsOn
BY ClaimsLead, ServerLeads

\* What LInv says of the server's state as one value.
LEMMA ServerState ==
  ASSUME LInv
  PROVE  /\ Server \in Sound(delivered) /\ Server \in States
         /\ Server.stage = stage /\ Server.owner = owner /\ Server.order = order
         /\ nextJob \in Nat
BY DEF LInv, IInv, Sound, Server

\* A restart moves active jobs to Unknown.
LEMMA RestartLeads ==
  ASSUME LInv, Restart
  PROVE  LeadsOn
<1>1. /\ nextJob' = nextJob /\ owner' = owner /\ order' = order
      /\ stage' = [j \in Jobs |-> IF stage[j] \in ActiveStages THEN "Unknown" ELSE stage[j]]
  BY DEF Restart
<1>2. ASSUME NEW j \in Jobs
      PROVE  Kept(nextJob, nextJob, Server, Server', j) \/ Worked(Server, Server', j)
  <2>1. stage[j] \in ActiveStages => owner[j] # NoWorker /\ stage[j] # "Absent"
    BY DEF LInv, IInv, Sound, Server, ActiveStages
  <2> QED
    BY <1>1, <2>1 DEF Kept, Worked, Server, ActiveStages
<1>3. Ordered(Server)'
  BY <1>1 DEF LInv, Ordered, Server, ActiveStages
<1> QED
  BY <1>1, <1>2, <1>3 DEF LeadsOn, Leads, Evolves

\* Every request of a client leads.
LEMMA ClientLeads ==
  ASSUME LInv, ClientNext
  PROVE  LeadsOn
<1>1. /\ Server \in Sound(delivered) /\ Server \in States
      /\ Server.stage = stage /\ Server.owner = owner /\ Server.order = order
      /\ nextJob \in Nat
  BY ServerState
<1>2. CASE ClientAddsJob
  <2> DEFINE s1 == InsertJob(Server, nextJob)
             t == JobForAvailableWorkers(s1, nextJob)
  <2>1. nextJob \in Jobs /\ Placed(nextJob, Server) /\ Become(t) /\ nextJob' = nextJob + 1
    BY <1>2 DEF ClientAddsJob, ClientStep, LInv
  <2>2. s1 \in Sound(delivered) /\ Leads(delivered, nextJob, nextJob + 1, Server, s1)
    BY <1>1, <2>1, InsertJobSound, InsertJobLeads
  <2> HIDE DEF s1
  <2>3. t \in States /\ s1 \in States /\ Claims(s1, t)
    BY <2>1, <2>2, JobForAvailableWorkersSound, JobForAvailableWorkersClaims DEF Sound
  <2> HIDE DEF t
  <2>4. Server' = t /\ Leads(delivered, nextJob, nextJob + 1, Server, t)
    BY <1>1, <2>1, <2>2, <2>3, BecomeIs, LeadsThenClaims
  <2> QED
    BY <2>1, <2>4 DEF LeadsOn
<1>3. CASE ClientStartsQueue
  <2>1. StartQueue(Server) \in States /\ Claims(Server, StartQueue(Server))
    BY <1>1, StartQueueSound, StartQueueClaims DEF Sound
  <2> QED
    BY <1>1, <1>3, <2>1, ServerClaims DEF ClientStartsQueue, ClientRequest, ClientStep
<1>4. CASE ClientStopsQueue
  <2>1. SetQueueStatus(Server, "Stopped") \in States
    BY <1>1, SetQueueStatusSound DEF QueueStatus, Sound
  <2> QED
    BY <1>1, <1>4, <2>1, RowsKept, ServerClaims
       DEF ClientStopsQueue, ClientRequest, ClientStep
<1>5. ASSUME NEW j \in KnownJobs,
             ClientStopsJob(j) \/ ClientResetsJob(j) \/ ClientRemovesJob(j)
      PROVE  LeadsOn
  <2>1. j \in Jobs
    BY DEF KnownJobs
  <2>2. /\ StopJob(Server, j, "Stopped") \in States
        /\ Leads(delivered, nextJob, nextJob, Server, StopJob(Server, j, "Stopped"))
        /\ ResetJob(Server, j) \in States
        /\ Leads(delivered, nextJob, nextJob, Server, ResetJob(Server, j))
        /\ RemoveJob(Server, j) \in States
        /\ Leads(delivered, nextJob, nextJob, Server, RemoveJob(Server, j))
    BY <1>1, <2>1, StopJobSound, StopJobLeads, ResetJobSound, ResetJobLeads,
       RemoveJobSound, RemoveJobLeads DEF Sound
  <2> QED
    BY <1>1, <1>5, <2>2, ServerLeads
       DEF ClientStopsJob, ClientResetsJob, ClientRemovesJob, ClientRequest, ClientStep
<1>6. ASSUME NEW j \in KnownJobs, NEW n \in Jobs, ClientReordersJob(j, n)
      PROVE  LeadsOn
  <2>1. j \in Jobs /\ n \in Int
    BY DEF KnownJobs, Jobs
  <2>2. Throw(Server) \in States /\ MoveJobOrder(Server, j, n) \in States
    BY <1>1, <2>1, ThrowSound, MoveJobOrderSound DEF Sound
  <2>3. CASE order[j] = 0
    BY <1>1, <1>6, <2>2, <2>3, RowsKept, ServerClaims
       DEF ClientReordersJob, ClientRequest, ClientStep
  <2>4. CASE order[j] # 0
    <3> DEFINE t == MoveJobOrder(Server, j, n)
    <3>1. /\ t.stage = Server.stage /\ t.owner = Server.owner
          /\ Ordered(Server) => Ordered(t)
      BY <1>1, <2>1, <2>4, MoveJobOrderOrdered
    <3> HIDE DEF t
    <3>2. Leads(delivered, nextJob, nextJob, Server, t)
      BY <3>1 DEF Leads, Evolves, Kept
    <3> QED
      BY <1>1, <1>6, <2>2, <2>4, <3>2, ServerLeads
         DEF ClientReordersJob, ClientRequest, ClientStep, t
  <2> QED
    BY <2>3, <2>4
<1>7. ASSUME NEW finishedOnly \in BOOLEAN, ClientClearsQueue(finishedOnly)
      PROVE  LeadsOn
  <2>1. nextJob' = nextJob
    BY <1>7 DEF ClientClearsQueue, ClientRequest
  <2> QED
    BY <1>7, <2>1, ClearsQueueLeads DEF LeadsOn
<1>8. ASSUME NEW w \in Workers, NEW accepts \in BOOLEAN, ClientSetsWorkerEnabled(w, accepts)
      PROVE  LeadsOn
  <2> DEFINE k == SocketOf(Server, w)
             s == [Server EXCEPT !.disabled = IF accepts THEN @ \ {k} ELSE @ \union {k}]
             t == IF accepts THEN WorkerForAvailableJobs(s, w, "Assign") ELSE s
  <2>1. k \in Sockets
    BY <1>1, <1>8, SocketOfConnected DEF ClientSetsWorkerEnabled
  <2>2. Become(t) /\ nextJob' = nextJob
    BY <1>8 DEF ClientSetsWorkerEnabled, ClientStep
  <2> HIDE DEF k
  <2>3. s \in Sound(delivered) /\ s.stage = stage /\ s.owner = owner /\ s.order = order
    BY <1>1, <2>1 DEF Sound, States
  <2> HIDE DEF s
  <2>4. t \in States /\ Claims(s, t) /\ s \in States
    BY <2>3, WorkerForAvailableJobsSound, WorkerForAvailableJobsClaims, RowsKept DEF Sound
  <2> HIDE DEF t
  <2> QED
    BY <2>2, <2>3, <2>4, ServerClaims
<1> QED
  BY <1>2, <1>3, <1>4, <1>5, <1>6, <1>7, <1>8 DEF ClientNext

\* Connections come and go.
LEMMA ConnectionLeads ==
  ASSUME LInv, (\E w \in Workers : WorkerConnects(w)) \/ (\E k \in workers : WorkerDisconnects(k))
  PROVE  LeadsOn
<1>1. /\ Server \in Sound(delivered) /\ Server \in States
      /\ Server.stage = stage /\ Server.owner = owner /\ Server.order = order
  BY ServerState
<1>2. ASSUME NEW w \in Workers, WorkerConnects(w) PROVE LeadsOn
  <2> DEFINE k == <<w, sockets + 1>>
             s1 == [Server EXCEPT !.workers = @ \union {k}]
             c == Call("properties", k, NoJob, "Init")
  <2>1. PICK accepts \in BOOLEAN :
          ServerStep(Ask([s1 EXCEPT !.disabled = IF accepts THEN @ ELSE @ \union {k}], c))
    BY <1>2 DEF WorkerConnects
  <2> DEFINE s == [s1 EXCEPT !.disabled = IF accepts THEN @ ELSE @ \union {k}]
  <2>2. k \in Sockets
    BY DEF LInv, IInv, Sockets
  <2> HIDE DEF k
  <2>3. c \in CallRecords
    BY <2>2, CallType DEF Ops, Thens
  <2> HIDE DEF c
  <2>4. s \in Sound(delivered) /\ s.stage = stage /\ s.owner = owner /\ s.order = order
    BY <1>1, <2>2 DEF Sound, States
  <2> HIDE DEF s
  <2>5. s \in States /\ Ask(s, c) \in States /\ Claims(s, Ask(s, c))
    BY <2>3, <2>4, AskSound, RowsKept DEF Sound
  <2>6. Become(Ask(s, c)) /\ nextJob' = nextJob
    BY <2>1 DEF ServerStep, s
  <2> QED
    BY <2>4, <2>5, <2>6, ServerClaims
<1>3. ASSUME NEW k \in workers, WorkerDisconnects(k) PROVE LeadsOn
  <2>1. /\ CleanupWorker(Server, k) \in States
        /\ Leads(delivered, nextJob, nextJob, Server, CleanupWorker(Server, k))
    BY <1>1, CleanupWorkerSound, CleanupWorkerLeads DEF Sound
  <2> QED
    BY <1>1, <1>3, <2>1, ServerLeads DEF WorkerDisconnects, ServerStep
<1> QED
  BY <1>2, <1>3

\* What is left when a call is answered or has timed out.
LEMMA WithoutState ==
  ASSUME LInv, NEW i \in DOMAIN calls
  PROVE  /\ Without(i) \in Sound(delivered) /\ Without(i) \in States
         /\ Without(i).stage = stage /\ Without(i).owner = owner /\ Without(i).order = order
         /\ Placed(nextJob, Without(i))
<1>1. Without(i) \in Sound(delivered)
  BY WithoutSound DEF LInv
<1>2. /\ Without(i).stage = stage /\ Without(i).owner = owner /\ Without(i).order = order
  BY DEF Without, Server
<1> QED
  BY <1>1, <1>2 DEF LInv, Placed, Server, Sound

\* Every answer to a call leads, however late it comes.
LEMMA AnswerLeads ==
  ASSUME LInv, AnswerNext
  PROVE  LeadsOn
<1>1. SUFFICES ASSUME NEW i \in DOMAIN calls,
                      \/ PropertiesAnswered(i)
                      \/ \E j \in KnownJobs \union {NoJob} : ExistingJobAnswered(i, j)
                      \/ StaleStopAnswered(i)
                      \/ \E didStart \in BOOLEAN : StartCallAnswered(i, didStart)
                      \/ StopAnswered(i)
               PROVE  LeadsOn
  BY DEF AnswerNext
<1> DEFINE c == calls[i]
           k == c.to
           s == Without(i)
<1>2. /\ c \in CallRecords /\ k \in Sockets
      /\ c.op \in {"start", "stop"} => c.job \in Jobs
      /\ c.op = "stop" => c.then \in {"Stopped", "Error"}
  BY WithoutSound DEF LInv
<1>3. /\ s \in Sound(delivered) /\ s \in States
      /\ s.stage = stage /\ s.owner = owner /\ s.order = order
      /\ Placed(nextJob, s)
  BY WithoutState
<1>4. WorkerOf(k) \in Workers /\ WorkerOf(k) # NoWorker
  BY <1>2, QueueAssumption DEF Sockets, WorkerOf
<1>5. CASE PropertiesAnswered(i)
  <2> DEFINE r == [s EXCEPT !.props = @ \union {WorkerOf(k)}]
             d == Call("existing", k, NoJob, "Init")
  <2>1. Become(Ask(r, d)) /\ nextJob' = nextJob
    BY <1>5 DEF PropertiesAnswered, ServerStep
  <2>2. d \in CallRecords
    BY <1>2, CallType DEF Ops, Thens
  <2> HIDE DEF d, s, k
  <2>3. r \in Sound(delivered) /\ r.stage = stage /\ r.owner = owner /\ r.order = order
    BY <1>3, <1>4 DEF Sound, States
  <2> HIDE DEF r
  <2>4. r \in States /\ Ask(r, d) \in States /\ Claims(r, Ask(r, d))
    BY <2>2, <2>3, AskSound, RowsKept DEF Sound
  <2> QED
    BY <2>1, <2>3, <2>4, ServerClaims
<1>6. ASSUME NEW j \in KnownJobs \union {NoJob}, ExistingJobAnswered(i, j)
      PROVE  LeadsOn
  <2> DEFINE d == Call("stale", k, j, "Init")
             t == CASE j = NoJob -> WorkerForAvailableJobs(s, WorkerOf(k), "Init")
                    [] j # NoJob /\ ~Owns(k, j) -> Ask(s, d)
                    [] j # NoJob /\ Owns(k, j) /\ stage[j] \notin ActiveStages ->
                         UpdateJobStatus(s, j, "Unknown", WorkerOf(k))
                    [] OTHER -> s
  <2>1. Become(t) /\ nextJob' = nextJob
    BY <1>6 DEF ExistingJobAnswered, ServerStep
  <2>2. d \in CallRecords
    BY <1>2, CallType DEF KnownJobs, Ops, Thens
  <2>3. Owns(k, j) <=> owner[j] = WorkerOf(k)
    BY DEF Owns
  <2> HIDE DEF d, s, k
  <2>4. /\ WorkerForAvailableJobs(s, WorkerOf(k), "Init") \in States
        /\ Claims(s, WorkerForAvailableJobs(s, WorkerOf(k), "Init"))
        /\ Ask(s, d) \in States /\ Claims(s, Ask(s, d)) /\ Claims(s, s)
    BY <1>3, <2>2, WorkerForAvailableJobsSound, WorkerForAvailableJobsClaims, AskSound, RowsKept
       DEF Sound
  <2>5. ASSUME j # NoJob, Owns(k, j)
        PROVE  /\ UpdateJobStatus(s, j, "Unknown", WorkerOf(k)) \in States
               /\ Leads(delivered, nextJob, nextJob, s,
                        UpdateJobStatus(s, j, "Unknown", WorkerOf(k)))
    <3>1. j \in Jobs /\ "Unknown" \in Stages /\ "Unknown" \in ActiveStages
      BY <2>5 DEF KnownJobs, Stages, ActiveStages
    <3>2. WorkerOf(k) = s.owner[j]
      BY <1>3, <2>3, <2>5
    <3>3. UpdateJobStatus(s, j, "Unknown", WorkerOf(k)) \in States
      BY <1>3, <1>4, <3>1, UpdateJobStatusSound DEF Sound
    <3> QED
      BY <1>3, <1>4, <3>1, <3>2, <3>3, UpdateJobStatusLeads
  <2>6. t \in States /\ (Claims(s, t) \/ Leads(delivered, nextJob, nextJob, s, t))
    BY <1>3, <2>4, <2>5
  <2> HIDE DEF t
  <2> QED
    BY <1>3, <2>1, <2>6, ServerClaims, ServerLeads
<1>7. CASE StaleStopAnswered(i)
  <2> DEFINE t == WorkerForAvailableJobs(s, WorkerOf(k), "Init")
  <2>1. Become(t) /\ nextJob' = nextJob
    BY <1>7 DEF StaleStopAnswered, ServerStep
  <2> HIDE DEF s, k
  <2>2. t \in States /\ Claims(s, t)
    BY <1>3, WorkerForAvailableJobsSound, WorkerForAvailableJobsClaims DEF Sound
  <2> QED
    BY <1>3, <2>1, <2>2, ServerClaims
<1>8. ASSUME NEW didStart \in BOOLEAN, StartCallAnswered(i, didStart)
      PROVE  LeadsOn
  <2>1. c.op = "start" /\ Become(StartAnswered(s, c, didStart)) /\ nextJob' = nextJob
    BY <1>8 DEF StartCallAnswered, Answered, ServerStep
  <2> HIDE DEF s, c
  <2>2. /\ StartAnswered(s, c, didStart) \in States
        /\ Leads(delivered, nextJob, nextJob, s, StartAnswered(s, c, didStart))
    BY <1>2, <1>3, <2>1, StartAnsweredSound, StartAnsweredLeads DEF Sound
  <2> QED
    BY <1>3, <2>1, <2>2, ServerLeads
<1>9. CASE StopAnswered(i)
  <2> DEFINE t == FinishStop(s, c.job, WorkerOf(k), c.then)
  <2>1. c.op = "stop" /\ Become(t) /\ nextJob' = nextJob
    BY <1>9 DEF StopAnswered, Answered, ServerStep
  <2>2. t \in States /\ Leads(delivered, nextJob, nextJob, s, t)
    <3> HIDE DEF s, c
    <3> QED
      BY <1>2, <1>3, <2>1, FinishStopSound, FinishStopLeads DEF Sound
  <2> HIDE DEF s, t
  <2> QED
    BY <1>3, <2>1, <2>2, ServerLeads
<1> QED
  BY <1>1, <1>5, <1>6, <1>7, <1>8, <1>9

\* Every time-out leads.
LEMMA TimeoutLeads ==
  ASSUME LInv, CallTimesOut
  PROVE  LeadsOn
<1> DEFINE c == calls[1]
           s == Without(1)
           t == CASE c.op = "start" -> StartAnswered(s, c, FALSE)
                  [] c.op = "stop"  -> FinishStop(s, c.job, WorkerOf(c.to), c.then)
                  [] c.op = "stale" -> s
                  [] c.op \in {"properties", "existing"} ->
                       IF c.to \in workers THEN CleanupWorker(s, c.to) ELSE s
<1>1. Become(t) /\ nextJob' = nextJob
  BY DEF CallTimesOut, ServerStep
<1>2. 1 \in DOMAIN calls
  <2>1. calls \in Seq(CallRecords) /\ calls # <<>>
    BY DEF LInv, IInv, Sound, States, Server, CallTimesOut
  <2> QED
    BY <2>1, EmptySeq, LenProperties
<1>3. /\ c \in CallRecords
      /\ c.op \in {"start", "stop"} => c.job \in Jobs
      /\ c.op = "stop" => c.then \in {"Stopped", "Error"}
  BY <1>2, WithoutSound DEF LInv
<1>4. /\ s \in Sound(delivered) /\ s \in States
      /\ s.stage = stage /\ s.owner = owner /\ s.order = order
      /\ Placed(nextJob, s)
  BY <1>2, WithoutState
<1> HIDE DEF s, c
<1>5. c.op = "start" =>
        /\ StartAnswered(s, c, FALSE) \in States
        /\ Leads(delivered, nextJob, nextJob, s, StartAnswered(s, c, FALSE))
  BY <1>3, <1>4, StartAnsweredSound, StartAnsweredLeads DEF Sound
<1>6. c.op = "stop" =>
        /\ FinishStop(s, c.job, WorkerOf(c.to), c.then) \in States
        /\ Leads(delivered, nextJob, nextJob, s, FinishStop(s, c.job, WorkerOf(c.to), c.then))
  <2>1. ASSUME c.op = "stop"
        PROVE  /\ FinishStop(s, c.job, WorkerOf(c.to), c.then) \in Sound(delivered)
               /\ Leads(delivered, nextJob, nextJob, s,
                        FinishStop(s, c.job, WorkerOf(c.to), c.then))
    <3>1. c.job \in Jobs /\ c.then \in {"Stopped", "Error"}
      BY <1>3, <2>1
    <3>2. FinishStop(s, c.job, WorkerOf(c.to), c.then) \in Sound(delivered)
      BY <1>4, <3>1, FinishStopSound
    <3> QED
      BY <1>4, <3>1, <3>2, FinishStopLeads
  <2> QED
    BY <2>1 DEF Sound
<1>7. /\ CleanupWorker(s, c.to) \in States
      /\ Leads(delivered, nextJob, nextJob, s, CleanupWorker(s, c.to))
  BY <1>4, CleanupWorkerSound, CleanupWorkerLeads DEF Sound
<1>8. Leads(delivered, nextJob, nextJob, s, s)
  BY <1>4, RowsKept, ClaimsLead
<1>9. c.op \in Ops
  BY <1>3 DEF CallRecords
<1>10. t \in States /\ Leads(delivered, nextJob, nextJob, s, t)
  BY <1>4, <1>5, <1>6, <1>7, <1>8, <1>9 DEF Ops
<1> HIDE DEF t
<1> QED
  BY <1>1, <1>4, <1>10, ServerLeads

\* A verified finish needs the delivery; the job it is about may be gone by then.
LEMMA FinishVerifiedLeads ==
  ASSUME LInv, NEW v \in verifying, NEW isFile \in BOOLEAN,
         FinishVerified(v[1], v[2], isFile)
  PROVE  LeadsOn
<1> DEFINE k == v[1]
           j == v[2]
           s == [Server EXCEPT !.verifying = @ \ {<<k, j>>}]
           s0 == UpdateJobStatus(s, j, "Finished", WorkerOf(k))
           s1 == RemoveJobOrder(s0, j)
           s2 == ClearCompleted(s1, j)
           t == IF isFile THEN WorkerForAvailableJobsOrThrow(s2, WorkerOf(k))
                ELSE StopJob(s, j, "Error")
<1>1. k \in Sockets /\ j \in Jobs /\ j \in delivered
  BY DEF LInv, IInv, Sound, States, Server
<1>2. WorkerOf(k) \in Workers
  BY <1>1 DEF Sockets, WorkerOf
<1>3. Become(t) /\ nextJob' = nextJob
  BY DEF FinishVerified, ServerStep
<1> HIDE DEF k, j
<1>4. s \in Sound(delivered) /\ s.stage = stage /\ s.owner = owner /\ s.order = order
  BY DEF LInv, IInv, Sound, States, Server
<1> HIDE DEF s
<1>5. s0 \in Sound(delivered)
  BY <1>1, <1>2, <1>4, UpdateJobStatusSound DEF Stages, EndedStages, ActiveStages
<1>6. Leads(delivered, nextJob, nextJob, s, s0)
  BY <1>1, <1>2, <1>4, UpdateJobStatusLeads
<1> HIDE DEF s0
<1>7. /\ s1 \in Sound(delivered) /\ s1.stage = s0.stage /\ s1.owner = s0.owner
      /\ Ordered(s0) => Ordered(s1)
  BY <1>1, <1>5, RemoveJobOrderSound, RemoveJobOrderOrdered DEF Sound
<1> HIDE DEF s1
<1>8. s2 \in Sound(delivered)
  BY <1>1, <1>7, ClearCompletedSound
<1>9. s2.stage = s1.stage /\ s2.owner = s1.owner /\ s2.order = s1.order
  BY <1>7 DEF ClearCompleted, Sound, States
<1> HIDE DEF s2
<1>10. Leads(delivered, nextJob, nextJob, s, s2)
  BY <1>6, <1>7, <1>9
     DEF Leads, Ordered, Evolves, Kept, Added, Given, Worked, Requeued, Finishes, Stops, Goes
<1>11. /\ WorkerForAvailableJobsOrThrow(s2, WorkerOf(k)) \in States /\ s2 \in States
       /\ Claims(s2, WorkerForAvailableJobsOrThrow(s2, WorkerOf(k)))
  BY <1>8, WorkerForAvailableJobsOrThrowSound, WorkerForAvailableJobsOrThrowClaims DEF Sound
<1>12. Leads(delivered, nextJob, nextJob, s, WorkerForAvailableJobsOrThrow(s2, WorkerOf(k)))
  BY <1>4, <1>10, <1>11, LeadsThenClaims DEF Sound
<1>13. /\ StopJob(s, j, "Error") \in States
       /\ Leads(delivered, nextJob, nextJob, s, StopJob(s, j, "Error"))
  BY <1>1, <1>4, StopJobSound, StopJobLeads DEF Sound
<1>14. s \in States /\ t \in States /\ Leads(delivered, nextJob, nextJob, s, t)
  BY <1>4, <1>11, <1>12, <1>13 DEF Sound
<1> HIDE DEF t
<1> QED
  BY <1>3, <1>4, <1>14, ServerLeads

\* Every event of a worker leads.
LEMMA EventLeads ==
  ASSUME LInv, EventNext
  PROVE  LeadsOn
<1>1. /\ Server \in Sound(delivered) /\ Server \in States
      /\ Server.stage = stage /\ Server.owner = owner /\ Server.order = order
  BY ServerState
<1>2. ASSUME NEW k \in workers, NEW j \in KnownJobs,
             \/ \E reported \in ReportedStages : TranscodeUpdate(k, j, reported)
             \/ TranscodeStopped(k, j)
             \/ TranscodeError(k, j)
             \/ UnverifiedFinish(k, j)
             \/ FinishReported(k, j)
      PROVE  LeadsOn
  <2>1. j \in Jobs /\ k \in Sockets
    BY DEF KnownJobs, LInv, IInv, Sound, States, Server
  <2>2. WorkerOf(k) \in Workers /\ WorkerOf(k) # NoWorker
    BY <2>1, QueueAssumption DEF Sockets, WorkerOf
  <2> DEFINE c == ClearCompleted(Server, j)
  <2>3. c \in Sound(delivered) /\ c.stage = stage /\ c.owner = owner /\ c.order = order
    BY <1>1, <2>1, ClearCompletedSound DEF ClearCompleted, Sound, States
  <2>4. ASSUME NEW reported \in ReportedStages, TranscodeUpdate(k, j, reported)
        PROVE  LeadsOn
    <3> DEFINE t == UpdateJobStatus(Server, j, reported, WorkerOf(k))
    <3>1. Become(t) /\ nextJob' = nextJob /\ owner[j] = WorkerOf(k)
      BY <2>4 DEF TranscodeUpdate, WorkerEvent, ServerStep, Owns
    <3>2. reported \in Stages /\ reported \in ActiveStages /\ reported # "Finished"
      BY DEF ReportedStages, Stages, ActiveStages
    <3>3. t \in States
      BY <1>1, <2>1, <2>2, <3>2, UpdateJobStatusSound DEF Sound
    <3>4. Leads(delivered, nextJob, nextJob, Server, t)
      BY <1>1, <2>1, <2>2, <3>1, <3>2, UpdateJobStatusLeads
    <3> HIDE DEF t
    <3> QED
      BY <1>1, <3>1, <3>3, <3>4, ServerLeads
  <2>5. CASE TranscodeStopped(k, j)
    <3> DEFINE s1 == RemoveJobOrder(c, j)
               s2 == UpdateJobStatus(s1, j, "Stopped", NoWorker)
               t == IdleIfNoneBusy(s2)
    <3>1. Become(t) /\ nextJob' = nextJob
      BY <2>5 DEF TranscodeStopped, WorkerEvent, ServerStep
    <3> HIDE DEF c
    <3>2. /\ s1 \in Sound(delivered) /\ s1.stage = c.stage /\ s1.owner = c.owner
          /\ Ordered(c) => Ordered(s1)
      BY <2>1, <2>3, RemoveJobOrderSound, RemoveJobOrderOrdered DEF Sound
    <3> HIDE DEF s1
    <3>3. s2 \in Sound(delivered)
      BY <2>1, <3>2, UpdateJobStatusSound DEF Stages, EndedStages, ActiveStages
    <3>4. Leads(delivered, nextJob, nextJob, c, s2)
      BY <2>1, <3>2, UpdateJobStatusLeads
    <3> HIDE DEF s2
    <3>5. t \in States /\ s2 \in States /\ c \in States /\ Claims(s2, t)
      BY <2>3, <3>3, IdleIfNoneBusySound, RowsKept DEF Sound
    <3>6. Leads(delivered, nextJob, nextJob, c, t)
      BY <3>4, <3>5, LeadsThenClaims
    <3> HIDE DEF t
    <3> QED
      BY <2>3, <3>1, <3>5, <3>6, ServerLeads
  <2>6. CASE TranscodeError(k, j)
    <3>1. Become(StopJob(c, j, "Error")) /\ nextJob' = nextJob
      BY <2>6 DEF TranscodeError, WorkerEvent, ServerStep
    <3> HIDE DEF c
    <3>2. /\ c \in States /\ StopJob(c, j, "Error") \in States
          /\ Leads(delivered, nextJob, nextJob, c, StopJob(c, j, "Error"))
      BY <2>1, <2>3, StopJobSound, StopJobLeads DEF Sound
    <3> QED
      BY <2>3, <3>1, <3>2, ServerLeads
  <2>7. CASE UnverifiedFinish(k, j)
    <3>1. Become(StopJob(Server, j, "Error")) /\ nextJob' = nextJob
      BY <2>7 DEF UnverifiedFinish, WorkerEvent, ServerStep
    <3>2. /\ StopJob(Server, j, "Error") \in States
          /\ Leads(delivered, nextJob, nextJob, Server, StopJob(Server, j, "Error"))
      BY <1>1, <2>1, StopJobSound, StopJobLeads DEF Sound
    <3> QED
      BY <1>1, <3>1, <3>2, ServerLeads
  <2>8. CASE FinishReported(k, j)
    <3> DEFINE t == [Server EXCEPT !.verifying = @ \union {<<k, j>>}]
    <3>1. Become(t) /\ nextJob' = nextJob
      BY <2>8 DEF FinishReported, WorkerEvent, ServerStep
    <3>2. Server.verifying \union {<<k, j>>} \in SUBSET (Sockets \X Jobs)
      BY <1>1, <2>1 DEF States
    <3>3. t \in States /\ t.stage = stage /\ t.owner = owner /\ t.order = order
      BY <1>1, <3>2 DEF States
    <3> HIDE DEF t
    <3>4. Claims(Server, t)
      BY <1>1, <3>3 DEF Claims
    <3> QED
      BY <1>1, <3>1, <3>3, <3>4, ServerClaims
  <2> QED
    BY <1>2, <2>4, <2>5, <2>6, <2>7, <2>8
<1> QED
  BY <1>2, FinishVerifiedLeads DEF EventNext

\* An upload touches no row.
LEMMA UploadLeads ==
  ASSUME LInv, UploadNext
  PROVE  LeadsOn
<1>1. /\ stage' = stage /\ owner' = owner /\ order' = order /\ nextJob' = nextJob
  BY DEF UploadNext, UploadStarts, UploadEnds, ServerStep, Become, Server, ClearCompleted
<1> QED
  BY <1>1 DEF LeadsOn, Leads, Evolves, Kept, Ordered, Server

-----------------------------------------------------------------------------
(* The theorems. *)

\* Every step of the server leads.
LEMMA NextLeads ==
  ASSUME LInv, [Next]_vars
  PROVE  LeadsOn
<1>1. CASE Kill
  <2>1. Throw(Server) \in States /\ Claims(Server, Throw(Server))
    BY ServerState, ThrowSound, RowsKept DEF Sound
  <2> QED
    BY <1>1, <2>1, ServerState, ServerClaims DEF Kill
<1>2. CASE UNCHANGED vars
  BY <1>2 DEF vars, LeadsOn, Leads, Evolves, Kept, Ordered, Server
<1> QED
  BY <1>1, <1>2, RestartLeads, ClientLeads, ConnectionLeads, AnswerLeads, TimeoutLeads,
     EventLeads, UploadLeads DEF Next

\* The strengthened invariant holds initially ...
LEMMA InitLInv == Init => LInv
<1> SUFFICES ASSUME Init PROVE LInv
  OBVIOUS
<1>1. IInv
  BY InitSound
<1>2. Placed(nextJob, Server) /\ Ordered(Server)
  BY DEF Init, Placed, Ordered, Server
<1> QED
  BY <1>1, <1>2 DEF LInv

\* ... and every step keeps it: leading is enough.
LEMMA NextLInv == LInv /\ [Next]_vars => LInv'
<1> SUFFICES ASSUME LInv, [Next]_vars PROVE LInv'
  OBVIOUS
<1>1. IInv'
  BY NextSound DEF LInv
<1>2. LeadsOn /\ nextJob \in Nat /\ nextJob' \in Int /\ nextJob <= nextJob'
  BY NextLeads DEF LeadsOn, LInv, IInv
<1>3. Ordered(Server')
  BY <1>2 DEF LeadsOn, Leads, LInv
<1>4. ASSUME NEW j \in Jobs
      PROVE  /\ Server'.stage[j] = "Absent" => Server'.owner[j] = NoWorker
             /\ Server'.stage[j] # "Absent" => j < nextJob'
  <2>1. /\ Server.stage[j] = "Absent" => Server.owner[j] = NoWorker
        /\ Server.stage[j] # "Absent" => j < nextJob
        /\ j \in Int
    BY DEF LInv, Placed, Jobs
  <2>2. Evolves(delivered, nextJob, nextJob', Server, Server', j)
    BY <1>2 DEF LeadsOn, Leads
  <2> QED
    BY <1>2, <2>1, <2>2 DEF Evolves, Kept, Added, Given, Worked, Requeued, Finishes, Stops,
       Goes, ActiveStages, EndedStages
<1>5. Placed(nextJob', Server')
  BY <1>4 DEF Placed
<1>6. Placed(nextJob, Server)' /\ Ordered(Server)'
  BY <1>3, <1>5 DEF Placed, Ordered
<1> QED
  BY <1>1, <1>6 DEF LInv

\* The invariant of the tables: rows, owners and indexes fit each other.
LEMMA SpecLInv == Spec => []LInv
<1> QED
  BY InitLInv, NextLInv, PTL DEF Spec

\* No two jobs ever share an order index, and none is left behind by a job
\* that is gone, for any number of jobs.
THEOREM JobsHaveOneOrder == Spec => []OrderFitsJobs
<1>1. LInv => OrderFitsJobs
  BY DEF LInv, Ordered, OrderFitsJobs, Server
<1> QED
  BY <1>1, SpecLInv, PTL

-----------------------------------------------------------------------------
(* The refinement. *)

\* What a step does to one row is a move of JobLifecycle.
LEMMA EvolutionMoves ==
  ASSUME LInv, LeadsOn, Server' \in States, NEW j \in Jobs
  PROVE  Lifecycle!Moves(j)
<1>1. Evolves(delivered, nextJob, nextJob', Server, Server', j)
  BY DEF LeadsOn, Leads
<1>2. /\ j \in Int /\ nextJob \in Nat /\ nextJob' \in {nextJob, nextJob + 1}
      /\ stage[j] = "Absent" => owner[j] = NoWorker
      /\ stage[j] # "Absent" => j < nextJob
      /\ stage[j] \in Stages \union {"Absent"} /\ owner[j] \in Workers \union {NoWorker}
      /\ stage'[j] \in Stages \union {"Absent"}
  BY DEF LInv, IInv, Sound, States, Placed, Server, Jobs, LeadsOn
<1>3. /\ stage[j] = "Waiting" => Phase(j) = "Queued"
      /\ stage[j] \in ActiveStages => Phase(j) = "Active"
      /\ stage[j] \in {"Stopped", "Error"} => Phase(j) = "Ended"
      /\ stage[j] = "Finished" => Phase(j) = "Finished"
      /\ stage[j] = "Absent" => Phase(j) = IF j < nextJob THEN "Removed" ELSE "New"
  <2>1. stage[j] = "Waiting" => Phase(j) = "Queued"
    BY DEF Phase, ActiveStages
  <2>2. stage[j] \in ActiveStages => Phase(j) = "Active"
    BY DEF Phase, ActiveStages
  <2>3. stage[j] \in {"Stopped", "Error"} => Phase(j) = "Ended"
    BY DEF Phase, ActiveStages
  <2>4. stage[j] = "Finished" => Phase(j) = "Finished"
    BY DEF Phase, ActiveStages
  <2>5. stage[j] = "Absent" => Phase(j) = IF j < nextJob THEN "Removed" ELSE "New"
    BY DEF Phase, ActiveStages
  <2> QED
    BY <2>1, <2>2, <2>3, <2>4, <2>5
<1>4. /\ stage'[j] = "Waiting" => Phase(j)' = "Queued"
      /\ stage'[j] \in ActiveStages => Phase(j)' = "Active"
      /\ stage'[j] \in {"Stopped", "Error"} => Phase(j)' = "Ended"
      /\ stage'[j] = "Finished" => Phase(j)' = "Finished"
      /\ stage'[j] = "Absent" => Phase(j)' = IF j < nextJob' THEN "Removed" ELSE "New"
  <2>1. stage'[j] = "Waiting" => Phase(j)' = "Queued"
    BY DEF Phase, ActiveStages
  <2>2. stage'[j] \in ActiveStages => Phase(j)' = "Active"
    BY DEF Phase, ActiveStages
  <2>3. stage'[j] \in {"Stopped", "Error"} => Phase(j)' = "Ended"
    BY DEF Phase, ActiveStages
  <2>4. stage'[j] = "Finished" => Phase(j)' = "Finished"
    BY DEF Phase, ActiveStages
  <2>5. stage'[j] = "Absent" => Phase(j)' = IF j < nextJob' THEN "Removed" ELSE "New"
    BY DEF Phase, ActiveStages
  <2> QED
    BY <2>1, <2>2, <2>3, <2>4, <2>5
<1>5. \A p, w : Lifecycle!Becomes(j, p, w) <=> Phase(j)' = p /\ owner'[j] = w
  BY DEF Lifecycle!Becomes
<1>6. stage[j] # "Absent" => Phase(j) \in Lifecycle!Present
  BY <1>2, <1>3 DEF Lifecycle!Present, Stages, EndedStages
<1>7. CASE Kept(nextJob, nextJob', Server, Server', j)
  <2>1. stage'[j] = stage[j] /\ owner'[j] = owner[j]
        /\ (stage[j] = "Absent" => (j < nextJob <=> j < nextJob'))
    BY <1>7 DEF Kept, Server
  <2>2. Phase(j)' = Phase(j)
    BY <1>2, <1>3, <1>4, <2>1 DEF Stages, EndedStages, ActiveStages
  <2>3. Lifecycle!Stays(j)
    BY <1>5, <2>1, <2>2 DEF Lifecycle!Stays
  <2> QED
    BY <2>3 DEF Lifecycle!Moves
<1>8. CASE Added(nextJob, nextJob', Server, Server', j)
  <2>1. stage[j] = "Absent" /\ j = nextJob /\ stage'[j] = "Waiting"
        /\ owner'[j] \in Workers \union {NoWorker}
    BY <1>8 DEF Added, Server
  <2>2. Phase(j) = "New" /\ Phase(j)' = "Queued"
    BY <1>2, <1>3, <1>4, <2>1
  <2>3. Lifecycle!Added(j)
    BY <1>5, <2>1, <2>2 DEF Lifecycle!Added
  <2> QED
    BY <2>3 DEF Lifecycle!Moves
<1>9. CASE Given(Server, Server', j)
  <2>1. stage[j] # "Absent" /\ stage'[j] = stage[j] /\ owner'[j] \in Workers
    BY <1>9 DEF Given, Server
  <2>2. Phase(j)' = Phase(j)
    BY <1>2, <1>3, <1>4, <2>1 DEF Stages, EndedStages, ActiveStages
  <2>3. Lifecycle!Given(j)
    BY <1>5, <1>6, <2>1, <2>2 DEF Lifecycle!Given
  <2> QED
    BY <2>3 DEF Lifecycle!Moves
<1>10. CASE Worked(Server, Server', j)
  <2>1. /\ stage[j] # "Absent" /\ owner[j] # NoWorker
        /\ stage'[j] \in ActiveStages /\ owner'[j] = owner[j]
    BY <1>10 DEF Worked, Server
  <2>2. Phase(j)' = "Active"
    BY <1>4, <2>1 DEF ActiveStages
  <2>3. Lifecycle!Worked(j)
    BY <1>5, <1>6, <2>1, <2>2 DEF Lifecycle!Worked
  <2> QED
    BY <2>3 DEF Lifecycle!Moves
<1>11. CASE Requeued(Server, Server', j)
  <2>1. /\ stage[j] \in EndedStages \/ (stage[j] # "Absent" /\ owner[j] # NoWorker)
        /\ stage'[j] = "Waiting" /\ owner'[j] \in Workers \union {NoWorker}
    BY <1>11 DEF Requeued, Server
  <2>2. Phase(j)' = "Queued"
    BY <1>4, <2>1
  <2>3. stage[j] \in EndedStages => Phase(j) \in {"Finished", "Ended"}
    BY <1>3 DEF EndedStages, ActiveStages
  <2>4. Lifecycle!Requeued(j) \/ Lifecycle!Released(j)
    BY <1>5, <1>6, <2>1, <2>2, <2>3 DEF Lifecycle!Requeued, Lifecycle!Released
  <2> QED
    BY <2>4 DEF Lifecycle!Moves
<1>12. CASE Finishes(delivered, Server, Server', j)
  <2>1. stage[j] # "Absent" /\ j \in delivered /\ stage'[j] = "Finished"
        /\ owner'[j] \in Workers
    BY <1>12 DEF Finishes, Server
  <2>2. Phase(j)' = "Finished"
    BY <1>4, <2>1 DEF ActiveStages
  <2>3. Lifecycle!Finished(j)
    BY <1>5, <1>6, <2>1, <2>2 DEF Lifecycle!Finished
  <2> QED
    BY <2>3 DEF Lifecycle!Moves
<1>13. CASE Stops(Server, Server', j)
  <2>1. stage[j] # "Absent" /\ stage'[j] \in {"Stopped", "Error"} /\ owner'[j] = NoWorker
    BY <1>13 DEF Stops, Server
  <2>2. Phase(j)' = "Ended"
    BY <1>4, <2>1 DEF ActiveStages
  <2>3. Lifecycle!Stopped(j)
    BY <1>5, <1>6, <2>1, <2>2 DEF Lifecycle!Stopped
  <2> QED
    BY <2>3 DEF Lifecycle!Moves
<1>14. CASE Goes(Server, Server', j)
  <2>1. stage[j] \notin ActiveStages \union {"Absent"} /\ stage'[j] = "Absent"
        /\ owner'[j] = NoWorker
    BY <1>14 DEF Goes, Server
  <2>2. Phase(j)' = "Removed" /\ Phase(j) # "Active"
    BY <1>2, <1>3, <1>4, <2>1 DEF Stages, EndedStages, ActiveStages
  <2>3. Lifecycle!Removed(j)
    BY <1>5, <1>6, <2>1, <2>2 DEF Lifecycle!Removed
  <2> QED
    BY <2>3 DEF Lifecycle!Moves
<1> QED
  BY <1>1, <1>7, <1>8, <1>9, <1>10, <1>11, <1>12, <1>13, <1>14 DEF Evolves

\* Deliveries are not forgotten.
LEMMA DeliveriesGrow ==
  ASSUME [Next]_vars
  PROVE  delivered \subseteq delivered'
BY DEF Next, vars, Kill, Restart, ClientNext, ClientAddsJob, ClientStartsQueue,
   ClientStopsQueue, ClientStopsJob, ClientResetsJob, ClientRemovesJob, ClientReordersJob,
   ClientClearsQueue, ClientSetsWorkerEnabled, ClientRequest, ClientStep, WorkerConnects,
   WorkerDisconnects, AnswerNext, PropertiesAnswered, ExistingJobAnswered,
   StaleStopAnswered, StartCallAnswered, StopAnswered, CallTimesOut, EventNext,
   TranscodeUpdate, TranscodeStopped, TranscodeError, UnverifiedFinish, FinishReported,
   FinishVerified, WorkerEvent, UploadNext, UploadStarts, UploadEnds, ServerStep

\* A server that has just been installed has no jobs yet.
LEMMA LifecycleInit == Init => Lifecycle!Init
<1> SUFFICES ASSUME Init PROVE Lifecycle!Init
  OBVIOUS
<1>1. ASSUME NEW j \in Jobs PROVE Phase(j) = "New"
  <2>1. stage[j] = "Absent" /\ ~(j < nextJob)
    BY DEF Init, Jobs
  <2> QED
    BY <2>1 DEF Phase, ActiveStages
<1> QED
  BY <1>1 DEF Init, Lifecycle!Init

\* Every step of the server is a step of the life of its jobs, or a stutter.
LEMMA LifecycleNext ==
  ASSUME LInv, [Next]_vars
  PROVE  [Lifecycle!Next]_(Lifecycle!vars)
<1>1. LeadsOn /\ LInv'
  BY NextLeads, NextLInv
<1>2. /\ Server' \in States /\ delivered' \subseteq Jobs
      /\ owner' \in [Jobs -> Workers \union {NoWorker}]
  BY <1>1 DEF LInv, IInv, Sound, States, Server
<1>3. \A j \in Jobs : Lifecycle!Moves(j)
  BY <1>1, <1>2, EvolutionMoves
<1>4. delivered \subseteq delivered'
  BY DeliveriesGrow
<1>5. [j \in Jobs |-> Phase(j)]' = [j \in Jobs |-> [i \in Jobs |-> Phase(i)]'[j]]
  OBVIOUS
<1>6. owner' = [j \in Jobs |-> owner'[j]]
  BY <1>2
<1>7. Lifecycle!Next
  BY <1>2, <1>3, <1>4, <1>5, <1>6 DEF Lifecycle!Next
<1> QED
  BY <1>7

\* The server implements the life of its jobs, for any number of jobs, workers,
\* connections and calls, through crashes, time-outs and late answers.
THEOREM ServerImplementsLifecycle == Spec => ImplementsLifecycle
<1>1. LInv /\ [Next]_vars => [Lifecycle!Next]_(Lifecycle!vars)
  BY LifecycleNext
<1> QED
  BY <1>1, SpecLInv, LifecycleInit, PTL DEF Spec, ImplementsLifecycle, Lifecycle!Spec

=============================================================================
