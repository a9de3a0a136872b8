-------------------------- MODULE TransferLease_proofs --------------------------
(***************************************************************************)
(* Proofs about TransferLease, for every number of jobs, workers, leases   *)
(* and requests.                                                           *)
(***************************************************************************)
EXTENDS TransferLease, TLAPS

\* Whoever may still begin an upload finds none running.  This is what keeps
\* PutStarts out of its 409 branch, whose finally block would take the mark of
\* the running upload away.
LeaseExcludesUpload ==
  \A l \in leases, p \in puts : l.purpose = "output" => l.job # p.job

IInv ==
  /\ TypeOK
  /\ OneUploadPerJob
  /\ OneOutputLeasePerJob
  /\ CompletedIsSettled
  /\ LeaseExcludesUpload

USE DEF Tokens, Purposes, PutPhases, Request, Lease, Put

-----------------------------------------------------------------------------
(* The operators on the two tables of leases. *)

\* What is left of the leases and of the index is still of their types.
LEMMA TablesType ==
  ASSUME NEW L \in SUBSET Lease, NEW index \in [Jobs -> 0 .. MaxTokens], NEW gone
  PROVE  /\ Without(L, gone) \in SUBSET Lease /\ Without(L, gone) \subseteq L
         /\ Unindexed(index, gone) \in [Jobs -> 0 .. MaxTokens]
<1>1. Without(L, gone) \subseteq L
  BY DEF Without
<1>2. Unindexed(index, gone) \in [Jobs -> 0 .. MaxTokens]
  BY LeaseAssumption DEF Unindexed
<1> QED
  BY <1>1, <1>2

\* The index finds every output lease that is left, if it found it before.
LEMMA TablesAgree ==
  ASSUME NEW L \in SUBSET Lease, NEW index \in [Jobs -> 0 .. MaxTokens], NEW gone,
         \A l \in L : l.purpose = "output" => index[l.job] = l.token
  PROVE  \A l \in Without(L, gone) :
           l.purpose = "output" => Unindexed(index, gone)[l.job] = l.token
BY DEF Without, Unindexed

\* The sweep of the expired leases keeps the types and the agreement.
LEMMA SweepAgrees ==
  ASSUME TypeOK, OneOutputLeasePerJob
  PROVE  /\ Unexpired \in SUBSET Lease /\ Unexpired \subseteq leases
         /\ UnexpiredOf \in [Jobs -> 0 .. MaxTokens]
         /\ \A l \in Unexpired : l.purpose = "output" => UnexpiredOf[l.job] = l.token
<1>1. leases \in SUBSET Lease /\ leaseOf \in [Jobs -> 0 .. MaxTokens]
  BY DEF TypeOK
<1>2. \A l \in leases : l.purpose = "output" => leaseOf[l.job] = l.token
  BY DEF OneOutputLeasePerJob
<1>3. Unexpired = Without(leases, expired) /\ UnexpiredOf = Unindexed(leaseOf, expired)
  BY DEF Unexpired, UnexpiredOf
<1>4. /\ Unexpired \in SUBSET Lease /\ Unexpired \subseteq leases
      /\ UnexpiredOf \in [Jobs -> 0 .. MaxTokens]
  BY <1>1, <1>3, TablesType
<1>5. \A l \in Unexpired : l.purpose = "output" => UnexpiredOf[l.job] = l.token
  BY <1>1, <1>2, <1>3, TablesAgree
<1> QED
  BY <1>4, <1>5

-----------------------------------------------------------------------------
(* One lemma for each kind of step. *)

\* Nothing is leased and nothing is uploaded at first.
LEMMA InitHolds == Init => IInv
BY LeaseAssumption
   DEF Init, IInv, TypeOK, OneUploadPerJob, OneOutputLeasePerJob, CompletedIsSettled,
       LeaseExcludesUpload

\* A request for a lease removes leases only.
LEMMA RequestedHolds ==
  ASSUME IInv, NEW w \in Workers, NEW j \in Jobs, NEW purpose \in Purposes,
         LeaseRequested(w, j, purpose)
  PROVE  IInv'
<1>1. /\ leases' \in SUBSET Lease /\ leases' \subseteq leases
      /\ leaseOf' \in [Jobs -> 0 .. MaxTokens]
      /\ \A l \in leases' : l.purpose = "output" => leaseOf'[l.job] = l.token
  BY SweepAgrees DEF IInv, LeaseRequested
<1>2. TypeOK'
  BY <1>1 DEF IInv, TypeOK, LeaseRequested
<1>3. OneOutputLeasePerJob'
  BY <1>1 DEF OneOutputLeasePerJob
<1>4. (OneUploadPerJob /\ CompletedIsSettled /\ LeaseExcludesUpload)'
  BY <1>1 DEF IInv, LeaseRequested, OneUploadPerJob, CompletedIsSettled, LeaseExcludesUpload
<1> QED
  BY <1>2, <1>3, <1>4 DEF IInv

\* A new output lease comes when no upload is running, takes the place of the
\* old one, and forgets the completed upload.
LEMMA CreatedHolds ==
  ASSUME IInv, NEW q \in requests, LeaseCreated(q)
  PROVE  IInv'
<1> DEFINE t == tokens + 1
           new == [token |-> t, worker |-> q.worker, job |-> q.job, purpose |-> q.purpose]
           left == Without(leases, Replaced(q))
<1>1. q \in Request /\ tokens \in Nat /\ t \in Tokens
  BY LeaseAssumption DEF IInv, TypeOK, LeaseCreated, Granted
<1>2. new \in Lease
  BY <1>1
<1>3. left \in SUBSET Lease /\ left \subseteq leases
  BY TablesType DEF IInv, TypeOK
<1>4. leases' = left \union {new}
  BY DEF LeaseCreated, Granted
<1>5. UNCHANGED <<owner, expired, inProgress, puts>> /\ requests' = requests \ {q}
      /\ tokens' = t
  BY DEF LeaseCreated, Granted
<1>6. /\ leaseOf' \in [Jobs -> 0 .. MaxTokens]
      /\ completed' \in [Jobs -> Workers \union {NoWorker}]
      /\ \A j \in Jobs : completed'[j] # NoWorker => completed'[j] = completed[j]
  BY <1>1 DEF IInv, TypeOK, LeaseCreated, Granted, Forgotten
<1>7. TypeOK'
  BY <1>1, <1>2, <1>3, <1>4, <1>5, <1>6 DEF IInv, TypeOK
<1>8. OneUploadPerJob'
  BY <1>5 DEF IInv, OneUploadPerJob
<1>9. CASE q.purpose = "output"
  <2>1. /\ leaseOf' = [leaseOf EXCEPT ![q.job] = t]
        /\ completed' = [completed EXCEPT ![q.job] = NoWorker]
        /\ q.job \notin inProgress
    BY <1>9 DEF LeaseCreated, Granted, Forgotten, Uploading
  <2>2. \A l \in left : l.purpose = "output" => l.job # q.job /\ leaseOf[l.job] = l.token
    BY <1>3, <1>9 DEF IInv, OneOutputLeasePerJob, Without, Replaced
  <2>3. OneOutputLeasePerJob'
    BY <1>1, <1>3, <1>4, <2>1, <2>2 DEF IInv, TypeOK, OneOutputLeasePerJob
  <2>4. \A p \in puts : p.job # q.job
    BY <2>1 DEF IInv, OneUploadPerJob
  <2>5. LeaseExcludesUpload'
    BY <1>3, <1>4, <1>5, <2>4 DEF IInv, LeaseExcludesUpload
  <2>6. completed'[q.job] = NoWorker
    BY <1>1, <2>1 DEF IInv, TypeOK
  <2>7. CompletedIsSettled'
    BY <1>3, <1>4, <1>5, <1>6, <2>6 DEF IInv, CompletedIsSettled
  <2> QED
    BY <1>7, <1>8, <2>3, <2>5, <2>7 DEF IInv
<1>10. CASE q.purpose # "output"
  <2>1. UNCHANGED <<leaseOf, completed>>
    BY <1>10 DEF LeaseCreated, Granted
  <2>2. (OneOutputLeasePerJob /\ LeaseExcludesUpload /\ CompletedIsSettled)'
    BY <1>3, <1>4, <1>5, <1>10, <2>1
       DEF IInv, OneOutputLeasePerJob, LeaseExcludesUpload, CompletedIsSettled
  <2> QED
    BY <1>7, <1>8, <2>2 DEF IInv
<1> QED
  BY <1>9, <1>10

\* A refused request leaves everything else alone.
LEMMA RefusedHolds ==
  ASSUME IInv, NEW q \in requests, LeaseRefused(q)
  PROVE  IInv'
BY DEF IInv, LeaseRefused, TypeOK, OneUploadPerJob, OneOutputLeasePerJob,
       CompletedIsSettled, LeaseExcludesUpload

\* A redeemed token is gone from both tables, and nothing else is lost.
LEMMA RedeemTables ==
  ASSUME IInv, NEW l \in leases, Redeem(l)
  PROVE  /\ leases' \in SUBSET Lease /\ leases' \subseteq leases
         /\ leaseOf' \in [Jobs -> 0 .. MaxTokens]
         /\ OneOutputLeasePerJob'
         /\ \A k \in leases' : k.token # l.token
         /\ UNCHANGED <<owner, tokens, expired, completed, requests>>
<1>1. /\ leases' = Without(Unexpired, {l.token})
      /\ leaseOf' = Unindexed(UnexpiredOf, {l.token})
  BY DEF Redeem
<1>2. /\ Unexpired \in SUBSET Lease /\ Unexpired \subseteq leases
      /\ UnexpiredOf \in [Jobs -> 0 .. MaxTokens]
      /\ \A k \in Unexpired : k.purpose = "output" => UnexpiredOf[k.job] = k.token
  BY SweepAgrees DEF IInv
<1>3. OneOutputLeasePerJob'
  BY <1>1, <1>2, TablesAgree DEF OneOutputLeasePerJob
<1>4. \A k \in leases' : k.token # l.token
  BY <1>1 DEF Without
<1>5. /\ leases' \in SUBSET Lease /\ leases' \subseteq Unexpired
      /\ leaseOf' \in [Jobs -> 0 .. MaxTokens]
  BY <1>1, <1>2, TablesType
<1>6. UNCHANGED <<owner, tokens, expired, completed, requests>>
  BY DEF Redeem
<1> QED
  BY <1>2, <1>3, <1>4, <1>5, <1>6

\* A spent token only leaves the tables.
LEMMA SpentHolds ==
  ASSUME IInv, NEW l \in leases, TokenSpent(l)
  PROVE  IInv'
<1>1. Redeem(l) /\ UNCHANGED <<inProgress, puts>>
  BY DEF TokenSpent
<1> QED
  BY <1>1, RedeemTables
     DEF IInv, TypeOK, OneUploadPerJob, CompletedIsSettled, LeaseExcludesUpload

\* An upload begins when none is running and no other lease for it is left.
LEMMA StartsHolds ==
  ASSUME IInv, NEW l \in leases, PutStarts(l)
  PROVE  IInv'
<1> DEFINE new == [token |-> l.token, worker |-> l.worker, job |-> l.job, pc |-> "checking"]
<1>1. Redeem(l) /\ l.purpose = "output" /\ l \in Lease
  BY DEF PutStarts, IInv, TypeOK
<1>2. \A p \in puts : p.job # l.job
  BY <1>1 DEF IInv, LeaseExcludesUpload
<1>3. completed[l.job] = NoWorker
  BY <1>1 DEF IInv, CompletedIsSettled
<1>4. \A k \in leases' : k.purpose = "output" => k.job # l.job
  BY <1>1, RedeemTables DEF IInv, OneOutputLeasePerJob
<1>5. CASE l.job \in inProgress
  <2>1. inProgress' = inProgress \ {l.job} /\ UNCHANGED puts
    BY <1>5 DEF PutStarts
  <2> QED
    BY <1>1, <1>2, <2>1, RedeemTables
       DEF IInv, TypeOK, OneUploadPerJob, CompletedIsSettled, LeaseExcludesUpload
<1>6. CASE l.job \notin inProgress
  <2>1. inProgress' = inProgress \union {l.job} /\ puts' = puts \union {new}
    BY <1>6 DEF PutStarts
  <2>2. new \in Put
    BY <1>1
  <2>3. TypeOK'
    BY <1>1, <2>1, <2>2, RedeemTables DEF IInv, TypeOK
  <2>4. OneUploadPerJob'
    BY <1>2, <2>1 DEF IInv, OneUploadPerJob
  <2>5. CompletedIsSettled'
    BY <1>1, <1>3, <2>1, RedeemTables DEF IInv, CompletedIsSettled
  <2>6. LeaseExcludesUpload'
    BY <1>1, <1>4, <2>1, RedeemTables DEF IInv, LeaseExcludesUpload
  <2> QED
    BY <1>1, <2>3, <2>4, <2>5, <2>6, RedeemTables DEF IInv
<1> QED
  BY <1>5, <1>6

\* An upload that goes on stays the upload it was.
LEMMA MovesHolds ==
  ASSUME IInv, NEW p \in puts, NEW pc \in PutPhases, Moves(p, pc)
  PROVE  IInv'
<1> DEFINE new == [p EXCEPT !.pc = pc]
<1>1. p \in Put /\ new \in Put /\ new.job = p.job
  BY DEF IInv, TypeOK
<1>2. /\ puts' = (puts \ {p}) \union {new}
      /\ UNCHANGED <<owner, tokens, leases, expired, leaseOf, inProgress, completed, requests>>
  BY DEF Moves
<1>3. TypeOK'
  BY <1>1, <1>2 DEF IInv, TypeOK
<1>4. OneUploadPerJob'
  BY <1>1, <1>2 DEF IInv, OneUploadPerJob
<1>5. (OneOutputLeasePerJob /\ CompletedIsSettled /\ LeaseExcludesUpload)'
  BY <1>1, <1>2 DEF IInv, OneOutputLeasePerJob, CompletedIsSettled, LeaseExcludesUpload
<1> QED
  BY <1>3, <1>4, <1>5 DEF IInv

\* An upload that ends takes only its own mark away; if it is recorded as
\* completed, no lease is left to begin another.
LEMMA EndsHolds ==
  ASSUME IInv, NEW p \in puts, Ends(p),
         \/ UNCHANGED completed
         \/ completed' = [completed EXCEPT ![p.job] = p.worker]
  PROVE  IInv'
<1>1. p \in Put
  BY DEF IInv, TypeOK
<1>2. TypeOK'
  BY <1>1 DEF IInv, TypeOK, Ends
<1>3. \A r \in puts' : r \in puts /\ r.job # p.job
  BY DEF IInv, Ends, OneUploadPerJob
<1>4. OneUploadPerJob'
  BY <1>3 DEF IInv, Ends, OneUploadPerJob
<1>5. OneOutputLeasePerJob' /\ LeaseExcludesUpload'
  BY <1>3 DEF IInv, Ends, OneOutputLeasePerJob, LeaseExcludesUpload
<1>6. \A l \in leases' : l.purpose = "output" => l.job # p.job
  BY DEF IInv, Ends, LeaseExcludesUpload
<1>7. \A j \in Jobs : j # p.job => completed'[j] = completed[j]
  BY DEF IInv, TypeOK
<1>8. CompletedIsSettled'
  BY <1>3, <1>6, <1>7 DEF IInv, Ends, CompletedIsSettled
<1> QED
  BY <1>2, <1>4, <1>5, <1>8 DEF IInv

\* Every step of an upload keeps the invariant.
LEMMA PutHolds ==
  ASSUME IInv, NEW p \in puts, PutNext(p)
  PROVE  IInv'
<1>1. ASSUME NEW ok \in BOOLEAN, PutChecked(p, ok) PROVE IInv'
  <2>1. CASE ok
    BY <1>1, <2>1, MovesHolds DEF PutChecked
  <2>2. CASE ~ok
    BY <1>1, <2>2, EndsHolds DEF PutChecked
  <2> QED
    BY <2>1, <2>2
<1>2. ASSUME NEW ok \in BOOLEAN, PutReceived(p, ok) PROVE IInv'
  <2>1. (IF ok THEN "renaming" ELSE "failing") \in PutPhases
    OBVIOUS
  <2> QED
    BY <1>2, <2>1, MovesHolds DEF PutReceived
<1>3. ASSUME NEW ok \in BOOLEAN, PutRenamed(p, ok) PROVE IInv'
  <2>1. CASE ok
    BY <1>3, <2>1, EndsHolds DEF PutRenamed
  <2>2. CASE ~ok
    BY <1>3, <2>2, MovesHolds DEF PutRenamed
  <2> QED
    BY <2>1, <2>2
<1>4. ASSUME TemporaryFileRemoved(p) PROVE IInv'
  BY <1>4, EndsHolds DEF TemporaryFileRemoved
<1> QED
  BY <1>1, <1>2, <1>3, <1>4 DEF PutNext

\* What the rest of the server does keeps the invariant.
LEMMA RestHolds ==
  ASSUME IInv,
         \/ \E l \in leases : LeaseExpires(l)
         \/ \E j \in Jobs, w \in Workers \union {NoWorker} : OwnerChanges(j, w)
         \/ \E j \in Jobs : ClearCompleted(j)
         \/ Restart
  PROVE  IInv'
<1>1. ASSUME NEW l \in leases, LeaseExpires(l) PROVE IInv'
  <2>1. l.token \in Tokens
    BY DEF IInv, TypeOK
  <2> QED
    BY <1>1, <2>1 DEF IInv, LeaseExpires, TypeOK, OneUploadPerJob, OneOutputLeasePerJob,
                      CompletedIsSettled, LeaseExcludesUpload
<1>2. ASSUME NEW j \in Jobs, NEW w \in Workers \union {NoWorker}, OwnerChanges(j, w)
      PROVE  IInv'
  BY <1>2 DEF IInv, OwnerChanges, TypeOK, OneUploadPerJob, OneOutputLeasePerJob,
              CompletedIsSettled, LeaseExcludesUpload
<1>3. ASSUME NEW j \in Jobs, ClearCompleted(j) PROVE IInv'
  BY <1>3 DEF IInv, ClearCompleted, TypeOK, OneUploadPerJob, OneOutputLeasePerJob,
              CompletedIsSettled, LeaseExcludesUpload
<1>4. ASSUME Restart PROVE IInv'
  BY <1>4, LeaseAssumption
     DEF IInv, Restart, TypeOK, OneUploadPerJob, OneOutputLeasePerJob,
         CompletedIsSettled, LeaseExcludesUpload
<1> QED
  BY <1>1, <1>2, <1>3, <1>4

\* Every step keeps the invariant.
LEMMA NextHolds == IInv /\ [Next]_vars => IInv'
<1>1. ASSUME IInv, Next PROVE IInv'
  BY <1>1, RequestedHolds, CreatedHolds, RefusedHolds, SpentHolds, StartsHolds, PutHolds,
     RestHolds DEF Next
<1>2. ASSUME IInv, UNCHANGED vars PROVE IInv'
  BY <1>2 DEF IInv, vars, TypeOK, OneUploadPerJob, OneOutputLeasePerJob,
              CompletedIsSettled, LeaseExcludesUpload
<1> QED
  BY <1>1, <1>2

-----------------------------------------------------------------------------
(* The theorems. *)

\* The tables of worker-transfers.ts keep their types.
THEOREM TransferTypesHold == Spec => []TypeOK
<1>1. IInv => TypeOK
  BY DEF IInv
<1> QED
  BY <1>1, InitHolds, NextHolds, PTL DEF Spec

\* No two uploads ever write the output of one job at the same time, and the
\* mark of a running upload stays until it ends.
THEOREM UploadsExcludeEachOther == Spec => []OneUploadPerJob
<1>1. IInv => OneUploadPerJob
  BY DEF IInv
<1> QED
  BY <1>1, InitHolds, NextHolds, PTL DEF Spec

\* The index of output leases finds every one of them.
THEOREM IndexFindsLeases == Spec => []OneOutputLeasePerJob
<1>1. IInv => OneOutputLeasePerJob
  BY DEF IInv
<1> QED
  BY <1>1, InitHolds, NextHolds, PTL DEF Spec

\* A remembered upload is never followed by another one that is under way.
THEOREM CompletedUploadsAreSettled == Spec => []CompletedIsSettled
<1>1. IInv => CompletedIsSettled
  BY DEF IInv
<1> QED
  BY <1>1, InitHolds, NextHolds, PTL DEF Spec

================================================================================
