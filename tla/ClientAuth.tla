------------------------------ MODULE ClientAuth ------------------------------
(***************************************************************************)
(* The login of the web client, scripts/auth.ts and                        *)
(* scripts/database/database-auth.ts: the row 'client' and the credentials *)
(* in memory, the temporary password that every start makes until the user *)
(* has changed it, the change of the credentials, the tokens of sessions   *)
(* and the counters of failed attempts.  scrypt runs in a thread: between  *)
(* the check of the counter and the answer of the hash other requests run. *)
(* A password stands for its hash as well; equal means that the hash       *)
(* verifies.                                                               *)
(***************************************************************************)
EXTENDS Naturals

CONSTANTS Users,          \* user names, the default name among them
          Default,        \* defaultClientAuthUsername
          Keys,           \* remote addresses
          MaxFailures,    \* maxAttempts of a limiter
          Window,         \* windowMs of a limiter, in ticks
          MaxAttempts,    \* attempts in progress at a time
          MaxStamp        \* bound on the readings of the clock

ASSUME AuthAssumption ==
  /\ Default \in Users /\ MaxFailures \in Nat \ {0} /\ Window \in Nat \ {0}
  /\ MaxAttempts \in Nat /\ MaxStamp \in Nat

VARIABLES
  row,        \* the row of the table client_auth
  cred,       \* clientAuthCredentials
  authStart,  \* where InitializeClientAuth is
  printed,    \* the temporary password printed last
  change,     \* the update in progress: clientAuthCredentialsUpdateInProgress and its data
  sessions,   \* tokens signed with the present secret; none expires, which only adds valid ones
  attempts,   \* the logins whose password is being verified
  limits,     \* the counters of the limiters
  stamp       \* readings of the clock so far; each reading is later than the one before

authVars == <<row, cred, authStart, printed, change, sessions, attempts, limits, stamp>>

\* A generated password is the number of the reading it was stored with, a chosen one 0:
\* nothing else of a password matters.
Stamps == 0 .. MaxStamp
NoRow == [user |-> Default, password |-> 0, must |-> FALSE, at |-> 0]
Row == [user : Users, password : Stamps, must : BOOLEAN, at : Stamps]
Idle == [at |-> "idle", row |-> NoRow]
Limiters == {"http", "socket"} \X Keys
Clear == [count |-> 0, left |-> 0]

TypeOKAuth ==
  /\ row \in Row /\ cred \in Row /\ printed \in Stamps /\ stamp \in Stamps
  /\ authStart \in {"before", "hash", "keep", "after"}
  /\ change \in [at : {"idle", "verify", "store", "keep"}, row : Row]
  /\ sessions \subseteq [user : Users, at : Stamps]
  /\ \A a \in attempts : a.limiter \in Limiters /\ a.ok \in BOOLEAN /\ a.user \in Users
  /\ \A l \in Limiters : limits[l].count \in Nat /\ limits[l].left \in 0 .. Window

InitAuth ==
  /\ row = NoRow /\ cred = NoRow /\ authStart = "before" /\ printed = 0
  /\ change = Idle /\ sessions = {} /\ attempts = {}
  /\ limits = [l \in Limiters |-> Clear] /\ stamp = 0

Reads == stamp < MaxStamp /\ stamp' = stamp + 1

-----------------------------------------------------------------------------
(* InitializeClientAuth. *)

\* A slip: a temporary password is kept as well.
ReadCredentials_KeepsTemporary ==
  /\ authStart = "before"
  /\ IF row # NoRow
     THEN cred' = row /\ authStart' = "after"
     ELSE UNCHANGED cred /\ authStart' = "hash"
  /\ UNCHANGED <<row, printed, change, sessions, attempts, limits, stamp>>

\* Credentials that the user has chosen are kept, otherwise a password is made.
ReadCredentials ==
  /\ authStart = "before"
  /\ IF row # NoRow /\ ~row.must
     THEN cred' = row /\ authStart' = "after"
     ELSE UNCHANGED cred /\ authStart' = "hash"
  /\ UNCHANGED <<row, printed, change, sessions, attempts, limits, stamp>>

\* DatabaseUpdateClientAuth or DatabaseInsertClientAuth.
StoreGenerated ==
  /\ authStart = "hash" /\ authStart' = "keep"
  /\ Reads
  /\ row' = [user |-> row.user, password |-> stamp', must |-> TRUE, at |-> stamp']
  /\ UNCHANGED <<cred, printed, change, sessions, attempts, limits>>

KeepGenerated ==
  /\ authStart = "keep" /\ authStart' = "after"
  /\ cred' = row /\ printed' = row.password
  /\ UNCHANGED <<row, change, sessions, attempts, limits, stamp>>

-----------------------------------------------------------------------------
(* UpdateClientAuthCredentials: one update at a time. *)

\* A slip: the time of the change is not written.
Update_KeepsTime(user) ==
  [user |-> user, password |-> 0, must |-> FALSE, at |-> cred.at]

\* The new row: a chosen password, and the time read before it is hashed.
Update(user) == [user |-> user, password |-> 0, must |-> FALSE, at |-> stamp']

\* An invalid name or password is refused after the verification of the old password,
\* which a temporary password does not need.
BeginUpdate(user, currentOK, valid) ==
  /\ change = Idle
  /\ IF cred.must
     THEN valid /\ Reads /\ change' = [at |-> "store", row |-> Update(user)]
     ELSE change' = [at |-> "verify",
                     row |-> IF currentOK /\ valid THEN [cred EXCEPT !.user = user] ELSE NoRow]
                /\ UNCHANGED stamp
  /\ UNCHANGED <<row, cred, authStart, printed, sessions, attempts, limits>>

\* A wrong password or an invalid name ends it, and the flag is cleared.
VerifyCurrent ==
  /\ change.at = "verify"
  /\ IF change.row = NoRow
     THEN change' = Idle /\ UNCHANGED stamp
     ELSE Reads /\ change' = [at |-> "store", row |-> Update(change.row.user)]
  /\ UNCHANGED <<row, cred, authStart, printed, sessions, attempts, limits>>

\* The new password is hashed and the row is written; it is read again in "keep".
StoreUpdate ==
  /\ change.at = "store"
  /\ row' = change.row /\ change' = [change EXCEPT !.at = "keep"]
  /\ UNCHANGED <<cred, authStart, printed, sessions, attempts, limits, stamp>>

\* DatabaseUpdateClientAuth writes the row and reads it again.  Either fails: the
\* exception passes through finally, and what is in memory stays.
StoreFails ==
  /\ change.at \in {"store", "keep"} /\ change' = Idle
  /\ UNCHANGED <<row, cred, authStart, printed, sessions, attempts, limits, stamp>>

KeepUpdate ==
  /\ change.at = "keep"
  /\ cred' = row /\ change' = Idle
  /\ UNCHANGED <<row, authStart, printed, sessions, attempts, limits, stamp>>

-----------------------------------------------------------------------------
(* RequireHttpAuth and AuthenticateClientSocket. *)

\* A slip: a record stays although its window is over.
IsLimited_Forever(l) == limits[l].count >= MaxFailures

\* isLimited: records whose window is over are dropped first.
IsLimited(l) == limits[l].left > 0 /\ limits[l].count >= MaxFailures

\* recordFailure: the first failure opens a window, the others do not prolong it.
Failed(l) ==
  limits' = [limits EXCEPT ![l] =
    IF @.left = 0 THEN [count |-> 1, left |-> Window]
    ELSE [count |-> @.count + 1, left |-> @.left]]

Reset(l) == limits' = [limits EXCEPT ![l] = Clear]

\* IsClientAuthSessionTokenValid, for a token that has not expired.
IsValid(session, c) == session.user = c.user /\ session.at = c.at

\* CreateClientAuthSessionToken: the name that was sent, and the time of the credentials
\* as they are now.
NewSession(user) == [user |-> user, at |-> cred.at]

WithSession(l, session) ==
  /\ ~IsLimited(l) /\ session \in sessions /\ IsValid(session, cred)
  /\ Reset(l)
  /\ UNCHANGED <<row, cred, authStart, printed, change, sessions, attempts, stamp>>

\* No valid session, and no credentials or another name: nothing is hashed.
WithoutCredentials(l) ==
  /\ ~IsLimited(l)
  /\ Failed(l)
  /\ UNCHANGED <<row, cred, authStart, printed, change, sessions, attempts, stamp>>

\* The hash that counts is the one of this moment.
WithPassword(l, i, ok) ==
  /\ ~IsLimited(l) /\ \A a \in attempts : a.id # i
  /\ \A j \in 1 .. i - 1 : \E a \in attempts : a.id = j
  /\ attempts' = attempts \cup {[id |-> i, limiter |-> l, ok |-> ok, user |-> cred.user]}
  /\ UNCHANGED <<row, cred, authStart, printed, change, sessions, limits, stamp>>

\* The hash is known: the page gets a cookie, a socket is let in.
Verified(a) ==
  /\ a \in attempts /\ attempts' = attempts \ {a}
  /\ IF a.ok THEN Reset(a.limiter) ELSE Failed(a.limiter)
  /\ sessions' = IF a.ok /\ a.limiter[1] = "http"
                 THEN sessions \cup {NewSession(a.user)} ELSE sessions
  /\ UNCHANGED <<row, cred, authStart, printed, change, stamp>>

\* A slip: windows that are over go on.
Tick_Below ==
  /\ \E l \in Limiters : limits[l].left > 0
  /\ limits' = [l \in Limiters |-> [limits[l] EXCEPT !.left = @ - 1]]
  /\ UNCHANGED <<row, cred, authStart, printed, change, sessions, attempts, stamp>>

\* Time passes for the windows of the limiters.
Tick ==
  /\ \E l \in Limiters : limits[l].left > 0
  /\ limits' = [l \in Limiters |->
       IF limits[l].left > 0 THEN [limits[l] EXCEPT !.left = @ - 1] ELSE limits[l]]
  /\ UNCHANGED <<row, cred, authStart, printed, change, sessions, attempts, stamp>>

-----------------------------------------------------------------------------

\* The process ends: the secret that signs the tokens goes with it.
LoseAuth ==
  /\ cred' = NoRow /\ authStart' = "before" /\ change' = Idle
  /\ sessions' = {} /\ attempts' = {} /\ limits' = [l \in Limiters |-> Clear]
  /\ UNCHANGED <<row, printed, stamp>>

AuthStart == ReadCredentials \/ StoreGenerated \/ KeepGenerated

AuthRequest ==
  \/ \E user \in Users, currentOK, valid \in BOOLEAN : BeginUpdate(user, currentOK, valid)
  \/ \E l \in Limiters :
       \/ \E s \in sessions : WithSession(l, s)
       \/ WithoutCredentials(l)
       \/ \E i \in 1 .. MaxAttempts, ok \in BOOLEAN : WithPassword(l, i, ok)

AuthStep ==
  \/ VerifyCurrent \/ StoreUpdate \/ KeepUpdate
  \/ \E a \in attempts : Verified(a)

AuthFault == StoreFails

\* While clients can log in, the row differs from the credentials in memory only by a
\* later change that a client has chosen: one that is not answered yet, or that was taken
\* for failed because the row could not be read again, and holds from the next start on
\* (auth.ts:491).  A temporary password in use is the one that was printed last: a crash
\* between storing one and printing it leaves nobody out.
CredentialsAgree ==
  authStart = "after" =>
    /\ row # cred => ~row.must /\ row.at > cred.at
    /\ cred.must => cred.password = printed

\* A change of the credentials ends every session there is.
ChangeEndsSessions ==
  [][cred' # cred => \A s \in sessions' : ~IsValid(s, cred')]_authVars

\* An address that is shut out is let in again.
LimitEnds == \A l \in Limiters : IsLimited(l) ~> ~IsLimited(l)

=============================================================================
