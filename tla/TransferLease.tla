----------------------------- MODULE TransferLease -----------------------------
(***************************************************************************)
(* The file transfers between workers and server:                          *)
(* server/src/scripts/worker-transfers.ts.                                 *)
(*                                                                         *)
(* A worker asks for a lease (get-transfer-lease on its socket) and uses   *)
(* its token for one HTTP request.  A request suspends while it looks up   *)
(* paths, receives the body, renames or removes the temporary file; in     *)
(* between other requests run, leases expire, and the queue (JobServer)    *)
(* gives the job to another worker.                                        *)
(***************************************************************************)
EXTENDS Naturals, FiniteSets

CONSTANTS Jobs, Workers,
          NoWorker,   \* no owner; no completed transfer
          MaxTokens,  \* leases that a behaviour creates
          MayRestart  \* whether the server process may be restarted

ASSUME LeaseAssumption ==
  /\ NoWorker \notin Workers
  /\ MaxTokens \in Nat
  /\ MayRestart \in BOOLEAN

VARIABLES
  owner,       \* worker_id of the jobs
  tokens,      \* the number of tokens drawn so far; a token is its number
  leases,      \* transferLeases
  expired,     \* the tokens whose lifetime of ten minutes is over
  leaseOf,     \* outputLeaseTokensByJob; 0: no entry
  inProgress,  \* outputUploadsInProgress
  completed,   \* completedOutputTransfers
  requests,    \* lease requests that look up the path of the file
  puts         \* uploads that are being served

vars == <<owner, tokens, leases, expired, leaseOf, inProgress, completed, requests, puts>>

Tokens == 1 .. MaxTokens
Purposes == {"input", "output"}
PutPhases == {"checking", "receiving", "renaming", "failing"}

Request == [worker : Workers, job : Jobs, purpose : Purposes]
Lease == [token : Tokens, worker : Workers, job : Jobs, purpose : Purposes]
Put == [token : Tokens, worker : Workers, job : Jobs, pc : PutPhases]

-----------------------------------------------------------------------------
Init ==
  /\ owner \in [Jobs -> Workers \union {NoWorker}]
  /\ tokens = 0
  /\ leases = {} /\ expired = {}
  /\ leaseOf = [j \in Jobs |-> 0]
  /\ inProgress = {}
  /\ completed = [j \in Jobs |-> NoWorker]
  /\ requests = {} /\ puts = {}

\* What is left of a set of leases L and of the index after some tokens go.
Without(L, gone) == {l \in L : l.token \notin gone}
Unindexed(index, gone) == [j \in Jobs |-> IF index[j] \in gone THEN 0 ELSE index[j]]

\* deleteExpiredTransferLeases.
Unexpired == Without(leases, expired)
UnexpiredOf == Unindexed(leaseOf, expired)

-----------------------------------------------------------------------------
(* CreateWorkerTransferLease. *)

\* Expired leases go; only the owner of the job gets as far as the look-up of the path.
LeaseRequested(w, j, purpose) ==
  /\ leases' = Unexpired
  /\ leaseOf' = UnexpiredOf
  /\ requests' = requests \union (IF owner[j] = w
                                 THEN {[worker |-> w, job |-> j, purpose |-> purpose]}
                                 ELSE {})
  /\ UNCHANGED <<owner, tokens, expired, inProgress, completed, puts>>

\* An unused output lease that stands in the way of the request.
Blocks(q) ==
  \E l \in leases : l.token = leaseOf[q.job] /\ l.worker # q.worker

\* The token is drawn.  The leases in gone are replaced by the new one; an
\* output lease also enters the index and resets the completed uploads to done.
Granted(q, gone, done) ==
  LET t == tokens + 1
  IN  /\ tokens < MaxTokens
      /\ tokens' = t
      /\ leases' = Without(leases, gone) \union
                     {[token |-> t, worker |-> q.worker, job |-> q.job, purpose |-> q.purpose]}
      /\ IF q.purpose = "output"
         THEN leaseOf' = [leaseOf EXCEPT ![q.job] = t] /\ completed' = done
         ELSE UNCHANGED <<leaseOf, completed>>
      /\ requests' = requests \ {q}
      /\ UNCHANGED <<owner, expired, inProgress, puts>>

Replaced(q) == IF q.purpose = "output" THEN {leaseOf[q.job]} ELSE {}
Forgotten(q) == [completed EXCEPT ![q.job] = NoWorker]
Uploading(q) == q.job \in inProgress

\* Slips: a running upload does not refuse the request; the record of a
\* completed upload, or the old lease, is kept.
LeaseCreated_DuringUpload(q) ==
  /\ q.purpose = "output" => ~Blocks(q)
  /\ Granted(q, Replaced(q), Forgotten(q))
LeaseCreated_KeepsCompleted(q) ==
  /\ q.purpose = "output" => ~Uploading(q) /\ ~Blocks(q)
  /\ Granted(q, Replaced(q), completed)
LeaseCreated_KeepsLease(q) ==
  /\ q.purpose = "output" => ~Uploading(q) /\ ~Blocks(q)
  /\ Granted(q, {}, Forgotten(q))

\* After the look-up.  The owner is not read again.  A new output lease replaces
\* the unused one of the same worker and forgets the last completed upload.
LeaseCreated(q) ==
  /\ q.purpose = "output" => ~Uploading(q) /\ ~Blocks(q)
  /\ Granted(q, Replaced(q), Forgotten(q))

\* The path is missing, an upload is running, or another worker has a lease.
LeaseRefused(q) ==
  /\ requests' = requests \ {q}
  /\ UNCHANGED <<owner, tokens, leases, expired, leaseOf, inProgress, completed, puts>>

-----------------------------------------------------------------------------
(* HTTP requests. *)

\* getTransferJob: a token is good for one request, whatever becomes of it.
Redeem(l) ==
  /\ l.token \notin expired
  /\ leases' = Without(Unexpired, {l.token})
  /\ leaseOf' = Unindexed(UnexpiredOf, {l.token})
  /\ UNCHANGED <<owner, tokens, expired, completed, requests>>

\* The input is streamed; or the token is for another address, or the worker no longer
\* owns the job (403 for both).
TokenSpent(l) ==
  /\ Redeem(l)
  /\ UNCHANGED <<inProgress, puts>>

\* An upload next to a running one is refused (409); the finally block then
\* takes the mark of the running one away.
PutStarts(l) ==
  /\ Redeem(l)
  /\ l.purpose = "output" /\ owner[l.job] = l.worker
  /\ IF l.job \in inProgress
     THEN inProgress' = inProgress \ {l.job} /\ UNCHANGED puts
     ELSE /\ inProgress' = inProgress \union {l.job}
          /\ puts' = puts \union {[token |-> l.token, worker |-> l.worker,
                                   job |-> l.job, pc |-> "checking"]}

Moves(p, pc) ==
  /\ puts' = (puts \ {p}) \union {[p EXCEPT !.pc = pc]}
  /\ UNCHANGED <<owner, tokens, leases, expired, leaseOf, inProgress, completed, requests>>

\* The end of the handler, with its finally block.
Ends(p) ==
  /\ puts' = puts \ {p}
  /\ inProgress' = inProgress \ {p.job}
  /\ UNCHANGED <<owner, tokens, leases, expired, leaseOf, requests>>

\* The input is gone or the length is missing, malformed or too large; or the
\* look-up of a path throws.
PutChecked(p, ok) ==
  /\ p.pc = "checking"
  /\ IF ok THEN Moves(p, "receiving") ELSE Ends(p) /\ UNCHANGED completed

\* The body is complete; or it is too long, or the connection breaks.
PutReceived(p, ok) ==
  /\ p.pc = "receiving"
  /\ Moves(p, IF ok THEN "renaming" ELSE "failing")

\* A slip: the record of the completed upload names the job, not the worker.
PutRenamed_WrongField(p, ok) ==
  /\ p.pc = "renaming"
  /\ IF ok THEN Ends(p) /\ completed' = [completed EXCEPT ![p.job] = p.job]
     ELSE Moves(p, "failing")

\* The temporary file becomes the output, whoever owns the job by now.
PutRenamed(p, ok) ==
  /\ p.pc = "renaming"
  /\ IF ok THEN Ends(p) /\ completed' = [completed EXCEPT ![p.job] = p.worker]
     ELSE Moves(p, "failing")

TemporaryFileRemoved(p) ==
  /\ p.pc = "failing"
  /\ Ends(p) /\ UNCHANGED completed

PutNext(p) ==
  \/ \E ok \in BOOLEAN : PutChecked(p, ok) \/ PutReceived(p, ok) \/ PutRenamed(p, ok)
  \/ TemporaryFileRemoved(p)

-----------------------------------------------------------------------------
(* The rest of the server. *)

\* The queue gives the job to a worker, or takes it back.
OwnerChanges(j, w) ==
  /\ owner[j] # w
  /\ owner' = [owner EXCEPT ![j] = w]
  /\ UNCHANGED <<tokens, leases, expired, leaseOf, inProgress, completed, requests, puts>>

\* A worker reports that the job has stopped, failed or finished.
ClearCompleted(j) ==
  /\ completed' = [completed EXCEPT ![j] = NoWorker]
  /\ UNCHANGED <<owner, tokens, leases, expired, leaseOf, inProgress, requests, puts>>

LeaseExpires(l) ==
  /\ expired' = expired \union {l.token}
  /\ UNCHANGED <<owner, tokens, leases, leaseOf, inProgress, completed, requests, puts>>

\* The memory of the process is lost.
Restart ==
  /\ MayRestart
  /\ leases' = {} /\ leaseOf' = [j \in Jobs |-> 0]
  /\ inProgress' = {} /\ completed' = [j \in Jobs |-> NoWorker]
  /\ requests' = {} /\ puts' = {}
  /\ UNCHANGED <<owner, tokens, expired>>

-----------------------------------------------------------------------------
Next ==
  \/ \E w \in Workers, j \in Jobs, purpose \in Purposes : LeaseRequested(w, j, purpose)
  \/ \E q \in requests : LeaseCreated(q) \/ LeaseRefused(q)
  \/ \E l \in leases : TokenSpent(l) \/ PutStarts(l) \/ LeaseExpires(l)
  \/ \E p \in puts : PutNext(p)
  \/ \E j \in Jobs, w \in Workers \union {NoWorker} : OwnerChanges(j, w)
  \/ \E j \in Jobs : ClearCompleted(j)
  \/ Restart

Spec == Init /\ [][Next]_vars

-----------------------------------------------------------------------------
(* Properties. *)

\* The types of the tables of the module and of the requests being served.
TypeOK ==
  /\ owner \in [Jobs -> Workers \union {NoWorker}]
  /\ tokens \in 0 .. MaxTokens
  /\ leases \subseteq Lease /\ expired \subseteq Tokens
  /\ leaseOf \in [Jobs -> 0 .. MaxTokens]
  /\ inProgress \subseteq Jobs
  /\ completed \in [Jobs -> Workers \union {NoWorker}]
  /\ requests \subseteq Request
  /\ puts \subseteq Put

\* Two uploads never write the output of one job at the same time, and the mark
\* of a running upload stays until it ends: the refusal that would take it away
\* (409) is never reached, because no lease exists while an upload runs.
OneUploadPerJob ==
  /\ \A p, q \in puts : p.job = q.job => p = q
  /\ \A p \in puts : p.job \in inProgress

\* A job has at most one output lease: the one the index finds, so that a retry
\* and the expiry remove all of it.
OneOutputLeasePerJob ==
  \A l \in leases : l.purpose = "output" => leaseOf[l.job] = l.token

\* A completed upload that the server remembers is the last word on the job:
\* nobody holds a lease to replace the file and no upload is running.
CompletedIsSettled ==
  \A j \in Jobs : completed[j] # NoWorker =>
    /\ \A l \in leases : ~(l.purpose = "output" /\ l.job = j)
    /\ \A p \in puts : p.job # j

================================================================================
