------------------------------ MODULE WorkerTokens ------------------------------
(***************************************************************************)
(* The token of one worker: server/src/scripts/auth.ts.                    *)
(*                                                                         *)
(* Clients create, rotate and revoke the token and enable or disable the   *)
(* worker; the worker authenticates its socket with it.  The row of the    *)
(* token says whether the worker accepts jobs, and the socket keeps a copy *)
(* of that flag, which the queue looks at.  An action suspends while a     *)
(* secret is hashed and while the active job of the worker is stopped; an  *)
(* authentication suspends while the secret is verified.  Both have read   *)
(* the row before, and other actions run in between.  A change of the row  *)
(* is a statement that writes it and one that reads it again: when only    *)
(* the second fails, the caller takes the change for one that failed.      *)
(*                                                                         *)
(* The rows of different workers are independent.                          *)
(***************************************************************************)
EXTENDS Naturals

CONSTANTS MaxActions,  \* actions on the token that a behaviour starts
          MayFail,     \* whether a statement of the database may fail
          MayRestart   \* whether the server process may be restarted

ASSUME TokensAssumption ==
  /\ MaxActions \in Nat
  /\ MayFail \in BOOLEAN
  /\ MayRestart \in BOOLEAN

VARIABLES
  hash,     \* token_hash of the row: the number of the token; 0: no row
  accepts,  \* accepts_jobs of the row
  socket,   \* the registered connection of the worker
  auths,    \* authentications whose secret is being verified
  actions,  \* creations, rotations and revocations in progress
  started,  \* how many actions were started; an action and its token have one number
  asked,    \* what the last enable, disable or creation asked accepts_jobs to be
  lost      \* whether something else has written the flag since

row == <<hash, accepts>>
vars == <<hash, accepts, socket, auths, actions, started, asked, lost>>

\* In what follows stale is no part of the code: it says that the row was
\* changed by another after it was read for this authentication or action, or,
\* for a connection, that its token or flag comes from such a read or is what it
\* was before a change of the row that was taken for failed.
Numbers == 1 .. MaxActions
Kinds == {"create", "rotate", "revoke"}
Action == [id : Numbers, kind : Kinds, pc : {"hashing", "stopping"},
           accepts : BOOLEAN, stale : BOOLEAN]
Auth == [token : Numbers, accepts : BOOLEAN, stale : BOOLEAN]
Nobody == [token |-> 0, accepts |-> FALSE, stale |-> FALSE]

Connected == socket # Nobody

\* Whoever else has read the row has read an old one from now on.
Outdated(S) == {[x EXCEPT !.stale = TRUE] : x \in S}

\* Slip: without "if (worker)".
WithFlag_Unguarded(s, flag) == [s EXCEPT !.accepts = flag]

\* worker.data.acceptsJobs = flag, when there is a worker; the flag may be stale.
WithRead(s, flag, stale) ==
  IF s = Nobody
  THEN s
  ELSE [token |-> s.token, accepts |-> flag, stale |-> s.stale \/ stale]

WithFlag(s, flag) == WithRead(s, flag, FALSE)

Init ==
  /\ hash = 0 /\ accepts = TRUE
  /\ socket = Nobody
  /\ auths = {} /\ actions = {}
  /\ started = 0
  /\ asked = TRUE /\ lost = FALSE

-----------------------------------------------------------------------------
(* The steps of an action. *)

\* An action that has read the row.
Started(kind, pc) ==
  [id |-> started + 1, kind |-> kind, pc |-> pc, accepts |-> accepts, stale |-> FALSE]

MayStart == started < MaxActions /\ started' = started + 1

\* The end of an action a that changes nothing; of one that changes the row.
Ends(a) == actions' = actions \ {a} /\ UNCHANGED auths
EndsChanging(a) == actions' = Outdated(actions \ {a}) /\ auths' = Outdated(auths)

\* The end of one that fails, and may have changed the row all the same.
EndsFailing(a) == IF UNCHANGED row THEN Ends(a) ELSE EndsChanging(a)

\* CreateWorkerAuthToken up to the hash: there must be no token.
CreateStarts ==
  /\ MayStart
  /\ hash = 0
  /\ actions' = actions \union {Started("create", "hashing")}
  /\ UNCHANGED <<row, socket, auths, asked, lost>>

\* The worker ID is the primary key: the row of a creation that was faster stays.
CreateInserted(a) ==
  /\ a.kind = "create"
  /\ IF hash = 0
     THEN /\ hash' = a.id /\ accepts' = TRUE
          /\ asked' = TRUE /\ lost' = FALSE
          /\ EndsChanging(a)
     ELSE Ends(a) /\ UNCHANGED <<row, asked, lost>>
  /\ UNCHANGED <<socket, started>>

\* The row is not inserted.  (When it was, and could not be read again, the
\* client gets no token; the row is that of CreateInserted.)
CreateFails(a) ==
  /\ MayFail
  /\ a.kind = "create"
  /\ Ends(a)
  /\ UNCHANGED <<row, socket, started, asked, lost>>

\* RotateWorkerAuthToken up to the hash.
RotateStarts ==
  /\ MayStart
  /\ hash # 0
  /\ actions' = actions \union {Started("rotate", "hashing")}
  /\ UNCHANGED <<row, socket, auths, asked, lost>>

\* pauseWorkerForTokenAction: no more jobs; then StopJob is awaited.  When the
\* worker has no job the next step of the action follows at once.
Pauses(a, flag) ==
  /\ accepts' = flag
  /\ socket' = WithFlag(socket, FALSE)
  /\ actions' = Outdated(actions \ {a}) \union {[a EXCEPT !.pc = "stopping"]}
  /\ auths' = Outdated(auths)
  /\ UNCHANGED <<hash, asked, lost>>

\* The row is gone, or a statement fails, maybe the one that reads the row again
\* when it is paused already: the flag of the socket goes back to what was read.
PauseFails(a) ==
  /\ MayFail \/ hash = 0
  /\ accepts' \in {accepts} \union (IF hash # 0 THEN {FALSE} ELSE {})
  /\ socket' = WithRead(socket, a.accepts, a.stale \/ accepts' # accepts)
  /\ lost' = (lost \/ accepts' # accepts)
  /\ UNCHANGED <<hash, asked>>
  /\ EndsFailing(a)

\* Slip: the pause is not written to the row.
RotatePauses_InMemory(a) ==
  /\ a.kind = "rotate" /\ a.pc = "hashing"
  /\ (hash # 0 /\ Pauses(a, accepts)) \/ PauseFails(a)
  /\ UNCHANGED started

RotatePauses(a) ==
  /\ a.kind = "rotate" /\ a.pc = "hashing"
  /\ (hash # 0 /\ Pauses(a, FALSE)) \/ PauseFails(a)
  /\ UNCHANGED started

\* RevokeWorkerAuthToken reads the row and pauses the worker in one step.
RevokeStarts ==
  /\ MayStart
  /\ hash # 0
  /\ LET a == Started("revoke", "stopping")
     IN  Pauses(a, FALSE) \/ PauseFails(a)

\* The job was stopped, or did not stop in time.  The row gets its new hash and
\* the flag that was read at first; the worker is disconnected.
Rotated(a, flag, connection) ==
  /\ a.kind = "rotate" /\ a.pc = "stopping" /\ hash # 0
  /\ hash' = a.id /\ accepts' = flag
  /\ socket' = connection
  /\ lost' = (lost \/ a.stale)
  /\ EndsChanging(a)
  /\ UNCHANGED <<started, asked>>

\* Slips: the pause is not undone; the worker stays connected.
RotationWritten_StaysPaused(a) == Rotated(a, FALSE, Nobody)
RotationWritten_KeepsSocket(a) == Rotated(a, a.accepts, WithFlag(socket, a.accepts))

RotationWritten(a) == Rotated(a, a.accepts, Nobody)

RowDeleted(a) ==
  /\ a.kind = "revoke" /\ a.pc = "stopping" /\ hash # 0
  /\ hash' = 0 /\ accepts' = TRUE
  /\ socket' = Nobody
  /\ EndsChanging(a)
  /\ UNCHANGED <<started, asked, lost>>

\* The hash of the row after a rotation or deletion that failed: that of a
\* rotation was written if the row could not be read again.
HashAfterFailure(a) == {hash} \union (IF a.kind = "rotate" THEN {a.id} ELSE {})

\* restoreWorkerAfterTokenActionFailure, when the row is there: the flag is what
\* was read; the worker stays connected, whatever the hash is now.
Restores(a) ==
  /\ MayFail
  /\ a.pc = "stopping" /\ hash # 0
  /\ hash' \in HashAfterFailure(a)
  /\ accepts' = a.accepts
  /\ socket' = WithRead(socket, a.accepts, hash' # hash)
  /\ lost' = (lost \/ a.stale)
  /\ EndsChanging(a)
  /\ UNCHANGED <<started, asked>>

\* There is no row any more, or the restoring statement fails as well, having
\* written the flag or not: the worker is disconnected.
RestoreFails(a) ==
  /\ a.pc = "stopping"
  /\ \/ hash = 0 /\ UNCHANGED row
     \/ /\ MayFail /\ hash # 0
        /\ hash' \in HashAfterFailure(a)
        /\ accepts' \in {a.accepts} \union (IF hash' = hash THEN {accepts} ELSE {})
  /\ socket' = Nobody
  /\ lost' = TRUE
  /\ EndsFailing(a)
  /\ UNCHANGED <<started, asked>>

ActionNext(a) ==
  \/ CreateInserted(a) \/ CreateFails(a)
  \/ RotatePauses(a) \/ RotationWritten(a)
  \/ RowDeleted(a)
  \/ Restores(a) \/ RestoreFails(a)

\* SetWorkerEnabled does not suspend before it is done.
SetWorkerEnabled(flag) ==
  /\ hash # 0
  /\ accepts' = flag
  /\ socket' = WithFlag(socket, flag)
  /\ asked' = flag /\ lost' = FALSE
  /\ actions' = Outdated(actions) /\ auths' = Outdated(auths)
  /\ UNCHANGED <<hash, started>>

\* The row has the new flag but cannot be read again: the flag of the socket is
\* what it was, and the client is told that nothing happened.  (When the row was
\* not written, or has the same flag as before, nothing has.)
SetWorkerEnabledFails(flag) ==
  /\ MayFail
  /\ hash # 0 /\ accepts # flag
  /\ accepts' = flag
  /\ socket' = WithRead(socket, socket.accepts, TRUE)
  /\ lost' = TRUE
  /\ actions' = Outdated(actions) /\ auths' = Outdated(auths)
  /\ UNCHANGED <<hash, started, asked>>

-----------------------------------------------------------------------------
(* Connections. *)

\* AuthenticateWorkerSocket, with the token of the row; any other is refused.
AuthStarts ==
  /\ hash # 0
  /\ auths' = auths \union {[token |-> hash, accepts |-> accepts, stale |-> FALSE]}
  /\ UNCHANGED <<row, socket, actions, started, asked, lost>>

\* The secret was right; a second connection of the worker is turned away.
AuthEnds(u) ==
  /\ auths' = auths \ {u}
  /\ socket' = IF Connected THEN socket ELSE u
  /\ UNCHANGED <<row, actions, started, asked, lost>>

\* The worker has left, or a statement fails.
AuthFails(u) ==
  /\ auths' = auths \ {u}
  /\ UNCHANGED <<row, socket, actions, started, asked, lost>>

Disconnects ==
  /\ Connected
  /\ socket' = Nobody
  /\ UNCHANGED <<row, auths, actions, started, asked, lost>>

\* The process ends, maybe with the worker paused.
Restart ==
  /\ MayRestart
  /\ socket' = Nobody /\ auths' = {} /\ actions' = {}
  /\ lost' = (lost \/ \E a \in actions : a.pc = "stopping")
  /\ UNCHANGED <<row, started, asked>>

Next ==
  \/ CreateStarts \/ RotateStarts \/ RevokeStarts
  \/ \E a \in actions : ActionNext(a)
  \/ \E flag \in BOOLEAN : SetWorkerEnabled(flag) \/ SetWorkerEnabledFails(flag)
  \/ AuthStarts
  \/ \E u \in auths : AuthEnds(u) \/ AuthFails(u)
  \/ Disconnects
  \/ Restart

Spec == Init /\ [][Next]_vars

-----------------------------------------------------------------------------
(* Properties. *)

\* The row, the connection and what is in progress have their types; the flag
\* is kept for connections only (every "if (worker)" of auth.ts).
TypeOK ==
  /\ hash \in 0 .. MaxActions /\ accepts \in BOOLEAN
  /\ socket \in Auth \union {Nobody}
  /\ auths \in SUBSET Auth
  /\ actions \in SUBSET Action
  /\ started \in 0 .. MaxActions
  /\ asked \in BOOLEAN /\ lost \in BOOLEAN

\* A connection has the token and the flag of the row, through pauses, failures
\* that are undone and restored rows, except in two cases (stale): it comes from
\* a read of the row that was overtaken by a change, or the row was changed by a
\* statement that was taken for failed because it could not be read again
\* (auth.ts:562, 692, 800), which leaves the connection with what was before.
SocketFollowsRow ==
  Connected /\ ~socket.stale => socket.token = hash /\ socket.accepts = accepts

\* When no action has the worker paused, accepts_jobs is what was asked for
\* last: a rotation, or a revocation that fails, puts it back (auth.ts:604, 695).
\* Except after the events that lose it: the end of an action that overlapped
\* with a change, a pause or enabling that wrote the row but was taken for
\* failed, a failed restore, or the end of the process during a pause.
FlagIsAsAsked ==
  hash # 0 /\ ~lost /\ (\A a \in actions : a.pc # "stopping") => accepts = asked

\* While an action waits for the job of the worker to stop, the queue may not
\* give it another one, also when the worker connects again meanwhile.
PausedWorkerGetsNoJob ==
  \A a \in actions :
    a.pc = "stopping" /\ ~a.stale /\ Connected /\ ~socket.stale => ~socket.accepts

=============================================================================
