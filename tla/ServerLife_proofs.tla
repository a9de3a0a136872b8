--------------------------- MODULE ServerLife_proofs ---------------------------
(***************************************************************************)
(* What survives the end of the server process, at whatever step: the      *)
(* presets and their list, the temporary password, and that a change of    *)
(* the credentials ends the sessions; and the types of all its parts.  For *)
(* every set of categories, names and users, and any number of operations, *)
(* attempts and faults.                                                    *)
(***************************************************************************)
EXTENDS ServerLife, TLAPS

-----------------------------------------------------------------------------
(* The login. *)

\* Rows, copies and times: a session is not younger than the credentials in memory, an
\* update is younger, and no time lies ahead of the clock.
AuthTypes ==
  /\ row \in Row /\ cred \in Row /\ change.row \in Row
  /\ stamp \in Nat /\ printed \in Nat
  /\ row.at <= stamp /\ cred.at <= stamp

SessionsAreOld == \A s \in sessions : s.at \in Nat /\ s.at <= cred.at

ChangeIsNew ==
  /\ change.at \in {"store", "keep"} =>
       change.row.at > cred.at /\ change.row.at <= stamp /\ change.row.must = FALSE
  /\ change.at = "keep" => row = change.row

AInv ==
  /\ AuthTypes /\ SessionsAreOld /\ ChangeIsNew
  /\ CredentialsAgree
  /\ authStart # "after" => change = Idle /\ sessions = {}
  /\ stage \in {"queue", "listening", "closing"} => authStart = "after"

\* A server that was never started has no credentials, no session and no update.
LEMMA InitAInv == Init => AInv
<1> SUFFICES ASSUME Init PROVE AInv
  OBVIOUS
<1>1. NoRow \in Row /\ NoRow.at = 0
  BY AuthAssumption DEF NoRow, Row, Stamps
<1>2. row = NoRow /\ cred = NoRow /\ change = Idle /\ authStart = "before" /\ sessions = {}
      /\ stamp = 0 /\ printed = 0 /\ stage = "down"
  BY DEF Init, InitAuth
<1>3. change.at = "idle" /\ change.row = NoRow
  BY <1>2 DEF Idle
<1> QED
  BY <1>1, <1>2, <1>3
     DEF AInv, AuthTypes, SessionsAreOld, ChangeIsNew, CredentialsAgree

\* A start makes a temporary password, or reads one that was chosen.
LEMMA AuthStartKeeps ==
  ASSUME AInv, AuthStart, stage = "auth",
         stage' = IF authStart' = "after" THEN "queue" ELSE stage
  PROVE  AInv'
<1>1. AuthTypes /\ authStart # "after" /\ change = Idle /\ sessions = {}
  BY DEF AInv, AuthStart, ReadCredentials, StoreGenerated, KeepGenerated
<1>2. UNCHANGED <<change, sessions>> /\ change.at = "idle"
  BY <1>1 DEF AuthStart, ReadCredentials, StoreGenerated, KeepGenerated, Idle
<1>3. CASE ReadCredentials
  <2>1. UNCHANGED <<row, printed, stamp>> /\ cred' \in {row, cred}
        /\ (authStart' = "after" => cred' = row /\ row.must = FALSE)
    BY <1>1, <1>3 DEF ReadCredentials, AuthTypes, Row
  <2> QED
    BY <1>1, <1>2, <2>1
       DEF AInv, AuthTypes, SessionsAreOld, ChangeIsNew, CredentialsAgree
<1>4. CASE StoreGenerated
  <2>1. stamp \in Nat /\ stamp' = stamp + 1 /\ stamp' \in Stamps /\ authStart' = "keep"
        /\ UNCHANGED <<cred, printed>>
    BY <1>1, <1>4, AuthAssumption DEF StoreGenerated, Reads, AuthTypes, Stamps
  <2>2. row' = [user |-> row.user, password |-> stamp', must |-> TRUE, at |-> stamp']
    BY <1>4 DEF StoreGenerated
  <2>3. row' \in Row /\ row'.at = stamp'
    BY <1>1, <2>1, <2>2 DEF AuthTypes, Row
  <2>4. AuthTypes'
    BY <1>1, <1>2, <2>1, <2>3 DEF AuthTypes, Row, Stamps
  <2> QED
    BY <1>1, <1>2, <2>1, <2>4
       DEF AInv, SessionsAreOld, ChangeIsNew, CredentialsAgree
<1>5. CASE KeepGenerated
  <2>1. cred' = row /\ printed' = row.password /\ UNCHANGED <<row, stamp>>
    BY <1>5 DEF KeepGenerated
  <2>2. row.password \in Nat
    BY <1>1 DEF AuthTypes, Row, Stamps
  <2> QED
    BY <1>1, <1>2, <2>1, <2>2
       DEF AInv, AuthTypes, SessionsAreOld, ChangeIsNew, CredentialsAgree
<1> QED
  BY <1>3, <1>4, <1>5 DEF AuthStart

\* A new row has the time of the clock, and is no temporary one.
LEMMA UpdateIsNew ==
  ASSUME AuthTypes, Reads, NEW user \in Users
  PROVE  /\ Update(user) \in Row /\ Update(user).at = stamp + 1 /\ Update(user).must = FALSE
         /\ stamp' = stamp + 1
<1>1. stamp' = stamp + 1 /\ stamp' \in Stamps /\ 0 \in Stamps
  BY AuthAssumption DEF Reads, AuthTypes, Stamps
<1> QED
  BY <1>1 DEF Update, Row

\* The update of the credentials, by one request at a time.
LEMMA UpdateKeeps ==
  ASSUME AInv, authStart = "after", UNCHANGED authStart, stage' \in {"listening", "closing"},
         \/ \E user \in Users, currentOK, valid \in BOOLEAN : BeginUpdate(user, currentOK, valid)
         \/ VerifyCurrent \/ StoreUpdate \/ KeepUpdate \/ StoreFails
  PROVE  AInv'
<1>1. AuthTypes /\ SessionsAreOld /\ ChangeIsNew /\ CredentialsAgree
  BY DEF AInv
<1>2. UNCHANGED <<sessions, printed>>
  BY DEF BeginUpdate, VerifyCurrent, StoreUpdate, KeepUpdate, StoreFails
<1>3. NoRow \in Row /\ Idle.at = "idle" /\ Idle.row = NoRow
  BY AuthAssumption DEF NoRow, Row, Stamps, Idle
<1>4. ASSUME NEW user \in Users, NEW currentOK, NEW valid, BeginUpdate(user, currentOK, valid)
      PROVE  AInv'
  <2>1. UNCHANGED <<row, cred>> /\ change = Idle
    BY <1>4 DEF BeginUpdate
  <2>2. CASE cred.must
    <3>1. Reads /\ change' = [at |-> "store", row |-> Update(user)]
      BY <1>4, <2>2 DEF BeginUpdate
    <3>2. /\ Update(user) \in Row /\ Update(user).at = stamp + 1
          /\ Update(user).must = FALSE /\ stamp' = stamp + 1
      BY <1>1, <3>1, UpdateIsNew
    <3>3. change'.at = "store" /\ change'.row = Update(user)
      BY <3>1
    <3>4. AuthTypes' /\ ChangeIsNew'
      BY <1>1, <1>2, <2>1, <3>2, <3>3 DEF AuthTypes, ChangeIsNew, Row, Stamps
    <3> QED
      BY <1>1, <1>2, <1>3, <2>1, <3>3, <3>4
         DEF AInv, SessionsAreOld, CredentialsAgree
  <2>3. CASE ~cred.must
    <3>1. UNCHANGED stamp /\ change'.at = "verify" /\ change'.row \in Row
      <4>1. [cred EXCEPT !.user = user] \in Row
        BY <1>1 DEF AuthTypes, Row
      <4> QED
        BY <1>3, <1>4, <2>3, <4>1 DEF BeginUpdate
    <3> QED
      BY <1>1, <1>2, <1>3, <2>1, <3>1
         DEF AInv, AuthTypes, ChangeIsNew, SessionsAreOld, CredentialsAgree
  <2> QED
    BY <2>2, <2>3
<1>5. CASE VerifyCurrent
  <2>1. UNCHANGED <<row, cred>> /\ change.at = "verify"
    BY <1>5 DEF VerifyCurrent
  <2>2. CASE change.row = NoRow
    <3>1. change' = Idle /\ UNCHANGED stamp
      BY <1>5, <2>2 DEF VerifyCurrent
    <3> QED
      BY <1>1, <1>2, <1>3, <2>1, <3>1
         DEF AInv, AuthTypes, ChangeIsNew, SessionsAreOld, CredentialsAgree
  <2>3. CASE change.row # NoRow
    <3>1. Reads /\ change' = [at |-> "store", row |-> Update(change.row.user)]
      BY <1>5, <2>3 DEF VerifyCurrent
    <3>2. change.row.user \in Users
      BY <1>1 DEF AuthTypes, Row
    <3> DEFINE user == change.row.user
    <3>3. /\ Update(user) \in Row /\ Update(user).at = stamp + 1
          /\ Update(user).must = FALSE /\ stamp' = stamp + 1
      BY <1>1, <3>1, <3>2, UpdateIsNew
    <3>4. change'.at = "store" /\ change'.row = Update(user)
      BY <3>1
    <3> HIDE DEF user
    <3>5. AuthTypes' /\ ChangeIsNew'
      BY <1>1, <1>2, <2>1, <3>3, <3>4 DEF AuthTypes, ChangeIsNew, Row, Stamps
    <3> QED
      BY <1>1, <1>2, <2>1, <3>4, <3>5 DEF AInv, SessionsAreOld, CredentialsAgree
  <2> QED
    BY <2>2, <2>3
<1>6. CASE StoreUpdate
  <2>1. /\ change.at = "store" /\ row' = change.row /\ UNCHANGED <<cred, stamp>>
        /\ change'.at = "keep" /\ change'.row = change.row
    BY <1>1, <1>6 DEF StoreUpdate, AuthTypes
  <2> QED
    BY <1>1, <1>2, <2>1
       DEF AInv, AuthTypes, ChangeIsNew, SessionsAreOld, CredentialsAgree
<1>7. CASE KeepUpdate
  <2>1. change.at = "keep" /\ cred' = row /\ change' = Idle /\ UNCHANGED <<row, stamp>>
    BY <1>7 DEF KeepUpdate
  <2>2. row = change.row /\ row.at > cred.at /\ row.must = FALSE
    BY <1>1, <2>1 DEF ChangeIsNew
  <2>3. SessionsAreOld'
    BY <1>1, <1>2, <2>1, <2>2 DEF SessionsAreOld, AuthTypes, Row, Stamps
  <2> QED
    BY <1>1, <1>2, <1>3, <2>1, <2>2, <2>3
       DEF AInv, AuthTypes, ChangeIsNew, CredentialsAgree
<1>8. CASE StoreFails
  <2>1. change' = Idle /\ UNCHANGED <<row, cred, stamp>>
    BY <1>8 DEF StoreFails
  <2> QED
    BY <1>1, <1>2, <1>3, <2>1
       DEF AInv, AuthTypes, ChangeIsNew, SessionsAreOld, CredentialsAgree
<1> QED
  BY <1>4, <1>5, <1>6, <1>7, <1>8

\* A login leaves the credentials alone, and a session has their present time.
LEMMA LoginKeeps ==
  ASSUME AInv, authStart = "after", stage' \in {"listening", "closing"},
         \/ \E l \in Limiters :
              \/ \E s \in sessions : WithSession(l, s)
              \/ WithoutCredentials(l)
              \/ \E i \in 1 .. MaxAttempts, ok \in BOOLEAN : WithPassword(l, i, ok)
         \/ \E a \in attempts : Verified(a)
         \/ Tick
  PROVE  AInv'
<1>1. /\ AuthTypes /\ SessionsAreOld /\ ChangeIsNew /\ CredentialsAgree
  BY DEF AInv
<1>2. UNCHANGED <<row, cred, authStart, printed, change, stamp>>
  BY DEF WithSession, WithoutCredentials, WithPassword, Verified, Tick
<1>3. \A s \in sessions' : s \in sessions \/ s.at = cred.at
  BY DEF WithSession, WithoutCredentials, WithPassword, Verified, Tick, NewSession
<1>4. SessionsAreOld'
  BY <1>1, <1>2, <1>3 DEF SessionsAreOld, AuthTypes, Row, Stamps
<1> QED
  BY <1>1, <1>2, <1>4 DEF AInv, AuthTypes, ChangeIsNew, CredentialsAgree

\* The process ends with its copies and its sessions.
LEMMA LoseAuthKeeps ==
  ASSUME AInv, LoseAuth, stage' = "down"
  PROVE  AInv'
<1>1. NoRow \in Row /\ NoRow.at = 0 /\ Idle.at = "idle" /\ Idle.row = NoRow
  BY AuthAssumption DEF NoRow, Row, Stamps, Idle
<1>2. /\ cred' = NoRow /\ change' = Idle /\ sessions' = {} /\ authStart' = "before"
      /\ UNCHANGED <<row, printed, stamp>>
  BY DEF LoseAuth
<1>3. AuthTypes
  BY DEF AInv
<1> QED
  BY <1>1, <1>2, <1>3
     DEF AInv, AuthTypes, SessionsAreOld, ChangeIsNew, CredentialsAgree

\* Steps of the other parts, which come to listen only when the login is ready.
LEMMA OthersKeepAuth ==
  ASSUME AInv, UNCHANGED authVars,
         stage' \in {"queue", "listening", "closing"} =>
           stage \in {"queue", "listening", "closing"}
  PROVE  AInv'
BY DEF AInv, authVars, AuthTypes, SessionsAreOld, ChangeIsNew, CredentialsAgree

\* Every step of the server keeps what is known of the login.
LEMMA NextAInv == AInv /\ [Next]_vars => AInv'
<1> SUFFICES ASSUME AInv, [Next]_vars PROVE AInv'
  OBVIOUS
<1>1. CASE UNCHANGED vars
  BY <1>1, OthersKeepAuth DEF vars
<1>2. CASE Boot \/ StartConfig \/ StartPresets \/ MigrationOfPresetsFails
  BY <1>2, OthersKeepAuth
     DEF Boot, StartConfig, StartPresets, MigrationOfPresetsFails
<1>3. CASE StartDatabase \/ StartQueue
  BY <1>3, OthersKeepAuth DEF StartDatabase, StartQueue
<1>4. CASE StartAuth
  BY <1>4, AuthStartKeeps DEF StartAuth
<1>5. CASE StartThrows \/ InvalidConfig \/ Crash \/ EndShutdown
  BY <1>5, LoseAuthKeeps DEF StartThrows, InvalidConfig, Crash, EndShutdown, ProcessEnds
<1>6. CASE ConfigRequest \/ PresetsAreAsked \/ BeginShutdown
  BY <1>6, OthersKeepAuth DEF ConfigRequest, PresetsAreAsked, BeginShutdown
<1>7. CASE LoginIsAsked
  <2>1. stage = "listening" /\ stage' = "listening" /\ AuthRequest /\ authStart = "after"
    BY <1>7 DEF LoginIsAsked, AInv
  <2> QED
    BY <2>1, UpdateKeeps, LoginKeeps DEF AuthRequest, BeginUpdate
<1>8. CASE Works
  <2>1. stage \in {"listening", "closing"} /\ stage' = stage /\ authStart = "after"
    BY <1>8 DEF Works, AInv
  <2>2. CASE UNCHANGED authVars
    BY <2>1, <2>2, OthersKeepAuth
  <2>3. CASE AuthStep
    <3>1. UNCHANGED authStart
      BY <2>3 DEF AuthStep, VerifyCurrent, StoreUpdate, KeepUpdate, Verified
    <3> QED
      BY <2>1, <2>3, <3>1, UpdateKeeps, LoginKeeps DEF AuthStep
  <2> QED
    BY <1>8, <2>2, <2>3 DEF Works
<1>9. CASE Fails
  <2>1. stage \in {"listening", "closing"} /\ stage' = stage /\ authStart = "after"
    BY <1>9 DEF Fails, AInv
  <2>2. CASE UNCHANGED authVars
    BY <2>1, <2>2, OthersKeepAuth
  <2>3. CASE AuthFault
    BY <2>1, <2>3, UpdateKeeps DEF AuthFault, StoreFails
  <2> QED
    BY <1>9, <2>2, <2>3 DEF Fails
<1>10. CASE TimePasses
  <2>1. stage' = "listening" /\ Tick /\ authStart = "after"
    BY <1>10 DEF TimePasses, AInv
  <2> QED
    BY <2>1, LoginKeeps
<1> QED
  BY <1>1, <1>2, <1>3, <1>4, <1>5, <1>6, <1>7, <1>8, <1>9, <1>10 DEF Next, Start

\* The row is the credentials in memory or a later change of them by a client, and the
\* temporary password in use is the one that was printed last, through every crash
\* between storing and printing it.
THEOREM CredentialsAlwaysAgree == Spec => []CredentialsAgree
<1>1. AInv => CredentialsAgree
  BY DEF AInv
<1> QED
  BY <1>1, InitAInv, NextAInv, PTL DEF Spec

\* Whatever changes the credentials in memory leaves no session valid.
LEMMA ChangesEndSessions ==
  ASSUME AInv, AInv', [Next]_vars, cred' # cred
  PROVE  \A s \in sessions' : ~IsValid(s, cred')
<1>1. CASE ReadCredentials \/ KeepGenerated \/ StoreGenerated
  BY <1>1 DEF AInv, ReadCredentials, KeepGenerated, StoreGenerated
<1>2. CASE LoseAuth
  BY <1>2 DEF LoseAuth
<1>3. CASE KeepUpdate
  <2>1. /\ cred' = row /\ row.at > cred.at /\ UNCHANGED sessions
        /\ row.at \in Nat /\ cred.at \in Nat
    BY <1>3 DEF KeepUpdate, AInv, ChangeIsNew, AuthTypes, Row, Stamps
  <2>2. \A s \in sessions : s.at \in Nat /\ s.at <= cred.at
    BY DEF AInv, SessionsAreOld
  <2> QED
    BY <2>1, <2>2 DEF IsValid
<1>4. \/ ReadCredentials \/ KeepGenerated \/ StoreGenerated \/ LoseAuth \/ KeepUpdate
      \/ UNCHANGED cred
  BY DEF Next, Start, vars, Boot, StartConfig, StartPresets, StartDatabase, StartAuth,
     StartQueue, StartThrows, MigrationOfPresetsFails, ConfigRequest, InvalidConfig,
     PresetsAreAsked, LoginIsAsked, Works, Fails, TimePasses, Crash, BeginShutdown,
     EndShutdown, ProcessEnds, authVars, AuthStart, AuthRequest, AuthStep, AuthFault,
     BeginUpdate, VerifyCurrent, StoreUpdate, StoreFails, WithSession, WithoutCredentials,
     WithPassword, Verified, Tick
<1> QED
  BY <1>1, <1>2, <1>3, <1>4

\* A change of the credentials ends every session, however many logins and updates are
\* in progress: a token that was made during the update has the older time.
THEOREM EveryChangeEndsSessions == Spec => ChangeEndsSessions
<1> DEFINE Ended == cred' # cred => \A s \in sessions' : ~IsValid(s, cred')
<1>1. AInv /\ AInv' /\ [Next]_vars => [Ended]_authVars
  BY ChangesEndSessions
<1> QED
  BY <1>1, InitAInv, NextAInv, PTL DEF Spec, ChangeEndsSessions

-----------------------------------------------------------------------------
(* The migration of the presets. *)

\* What may be at a path.
Contents == Names \cup {"none", "part"}

\* Presets that are not left to migrate have a file of their own, and nobody else
\* writes while they are migrated.
MInv ==
  /\ migration.at = "during" =>
       /\ stage = "presets" /\ migration.writing \subseteq migration.left
       /\ \A p \in OldPresets \ migration.left : files[p] = p[2]
  /\ migration.at # "during" => migration.left = {} /\ migration.writing = {}
  /\ files \in [Preset -> Contents]
  /\ stage \notin {"listening", "closing"} => presetOps = {}

\* The steps of LoadPresets keep what is migrated.
LEMMA MigrationKeeps ==
  ASSUME MInv, stage = "presets", UNCHANGED presetOps,
         \/ /\ stage' = stage
            /\ \/ BeginMigration \/ RemoveOldFile \/ MigrationFails
               \/ \E p \in OldPresets : MigrateOpens(p) \/ MigrateWrites(p)
         \/ ReadPresets /\ stage' = "database"
  PROVE  MInv'
<1>1. OldPresets \subseteq Preset /\ \A p \in OldPresets : p[2] \in Contents
  BY PresetAssumption DEF OldPresets, Preset, Contents
<1>1a. "part" \in Contents
  BY DEF Contents
<1>2. CASE BeginMigration /\ stage' = stage
  <2>1. /\ migration'.at = "during" /\ migration'.left = OldPresets /\ migration'.writing = {}
        /\ UNCHANGED files
    BY <1>2 DEF BeginMigration, Migration
  <2> QED
    BY <1>2, <2>1 DEF MInv
<1>3. CASE RemoveOldFile \/ MigrationFails \/ ReadPresets
  <2>1. migration' = Migration("after", {}, {}) /\ files' = files
    BY <1>3 DEF RemoveOldFile, MigrationFails, ReadPresets
  <2>2. migration'.at = "after" /\ migration'.left = {} /\ migration'.writing = {}
    BY <2>1 DEF Migration
  <2> QED
    BY <1>3, <2>1, <2>2 DEF MInv
<1>4. ASSUME NEW p \in OldPresets, MigrateOpens(p), stage' = stage
      PROVE  MInv'
  <2>1. /\ p \in migration.left /\ migration.writing = {}
        /\ files' = [files EXCEPT ![p] = "part"]
        /\ migration' = Migration("during", migration.left, {p})
    BY <1>4 DEF MigrateOpens
  <2>2. migration'.at = "during" /\ migration'.left = migration.left /\ migration'.writing = {p}
    BY <2>1 DEF Migration
  <2>3. \A q \in OldPresets \ migration.left : files[q] = q[2] \/ migration.at # "during"
    BY DEF MInv
  <2>4. migration.at = "during"
    BY <2>1 DEF MInv
  <2> QED
    BY <1>1, <1>1a, <1>4, <2>1, <2>2, <2>3, <2>4 DEF MInv
<1>5. ASSUME NEW p \in OldPresets, MigrateWrites(p), stage' = stage
      PROVE  MInv'
  <2>1. /\ p \in migration.writing
        /\ files' = [files EXCEPT ![p] = p[2]]
        /\ migration' = Migration("during", migration.left \ {p}, {})
    BY <1>5 DEF MigrateWrites
  <2>2. /\ migration'.at = "during" /\ migration'.left = migration.left \ {p}
        /\ migration'.writing = {}
    BY <2>1 DEF Migration
  <2>3. migration.at = "during"
    BY <2>1 DEF MInv
  <2> QED
    BY <1>1, <1>5, <2>1, <2>2, <2>3 DEF MInv
<1> QED
  BY <1>2, <1>4, <1>5, <1>3

-----------------------------------------------------------------------------
(* The operations on presets. *)

\* The paths are among the presets; what else a path is, most proofs need not know.
LEMMA PathIsPreset == \A p \in Preset : Path(p) \in Preset
BY PresetAssumption DEF Path, Directory, Preset

\* An operation and the paths it touches, given the disturbed paths D, the files F and
\* the list L.
Fits(op, D, F, L) ==
  /\ op \in PresetOp
  /\ op.kind = "add" =>
       /\ op.from = op.to /\ op.at \in {"access", "mkdir", "open", "write"}
       /\ Path(op.to) \notin D => op.to \in L
  /\ op.kind = "remove" => op.from = op.to /\ op.at \in {"rm", "removed"}
  /\ op.kind = "rename" =>
       /\ op.from # op.to /\ op.at \in {"rm", "open", "write"}
       /\ op.at # "rm" /\ Path(op.from) # Path(op.to) /\ Path(op.from) \notin D
            => F[Path(op.from)] = "none"
  /\ op.kind # "add" /\ Path(op.from) \notin D => Alone(op.from, L)
  /\ op.at = "write" /\ Path(op.to) \notin D => F[Path(op.to)] = "part"
  /\ op.at = "removed" /\ Path(op.from) \notin D => F[Path(op.from)] = "none"

\* Two operations share only paths that are disturbed.
Apart(S, D) ==
  \A op, other \in S : op # other => op.id # other.id /\ Named(op) \cap Named(other) \subseteq D

\* The file at x and the presets that have this path.
Matches(x, F, L) ==
  /\ F[x] \in Names => \E p \in L : Path(p) = x /\ p[2] = F[x]
  /\ (\E p \in L : Path(p) = x) => F[x] \in Names

\* ListIsDirectory, of given values.
Agrees(S, D, F, L) ==
  \A x \in Preset \ D : (\A op \in S : x \notin Named(op)) => Matches(x, F, L)

OInv ==
  /\ loaded => stage \notin {"down", "config", "presets"}
  /\ \A op \in presetOps : Fits(op, disturbed, files, listed)
  /\ Apart(presetOps, disturbed)
  /\ loaded => Agrees(presetOps, disturbed, files, listed)

\* Operations that fit, and share only what is disturbed.
Fit(S, D, F, L) == (\A op \in S : Fits(op, D, F, L)) /\ Apart(S, D)

\* The lists L and M have the same presets, but for those whose path is among X.
SameBut(X, L, M) == \A q \in L \cup M : Path(q) \notin X => (q \in L <=> q \in M)

\* The operations S, without op, and the paths op does not touch.
OthersFit(S, D, F, L, op) ==
  /\ \A o \in S \ {op} :
       o.id # op.id /\ Fits(o, D, F, L) /\ Named(o) \cap Named(op) \subseteq D
  /\ Apart(S \ {op}, D)

OthersAgree(S, D, F, L, op) ==
  \A x \in Preset \ D :
    x \notin Named(op) /\ (\A o \in S \ {op} : x \notin Named(o)) => Matches(x, F, L)

\* An operation that changes only what is at its paths leaves the others as they are.
LEMMA OthersStay ==
  ASSUME NEW S, NEW D, NEW F, NEW L, NEW E, NEW G, NEW M, NEW op \in S,
         Fit(S, D, F, L), D \subseteq E,
         \A x \in Preset \ Named(op) : G[x] = F[x], SameBut(Named(op), L, M)
  PROVE  /\ OthersFit(S, E, G, M, op)
         /\ Agrees(S, D, F, L) => OthersAgree(S, E, G, M, op)
<1>1. ASSUME NEW o \in S \ {op}
      PROVE  /\ o.id # op.id /\ Fits(o, E, G, M)
             /\ Named(o) \cap Named(op) \subseteq E
  <2>1. o.id # op.id /\ Named(o) \cap Named(op) \subseteq D
    BY <1>1 DEF Fit, Apart
  <2>2. /\ Fits(o, D, F, L) /\ o \in PresetOp /\ o.from \in Preset /\ o.to \in Preset
        /\ Path(o.from) \in Preset /\ Path(o.to) \in Preset
    BY <1>1, PathIsPreset DEF Fit, Fits, PresetOp
  <2>3. \A x \in {Path(o.from), Path(o.to)} :
          x \in E \/ (x \notin D /\ x \notin Named(op) /\ G[x] = F[x])
    BY <2>1, <2>2 DEF Named
  <2>4. Path(o.to) \notin E /\ o.to \in L => o.to \in M
    BY <2>3 DEF SameBut
  <2>5. Path(o.from) \notin E /\ Alone(o.from, L) => Alone(o.from, M)
    BY <2>3 DEF SameBut, Alone
  <2> QED
    BY <2>1, <2>2, <2>3, <2>4, <2>5 DEF Fits
<1>2. Apart(S \ {op}, E)
  BY DEF Fit, Apart
<1>3. ASSUME Agrees(S, D, F, L), NEW x \in Preset \ E,
             x \notin Named(op), \A o \in S \ {op} : x \notin Named(o)
      PROVE  Matches(x, G, M)
  <2>1. x \in Preset \ D /\ \A o \in S : x \notin Named(o)
    BY <1>3
  <2>2. Matches(x, F, L)
    BY <1>3, <2>1 DEF Agrees
  <2>3. G[x] = F[x] /\ \A q \in L \cup M : Path(q) = x => (q \in L <=> q \in M)
    BY <1>3 DEF SameBut
  <2> QED
    BY <2>2, <2>3 DEF Matches
<1> QED
  BY <1>1, <1>2, <1>3 DEF OthersFit, OthersAgree

\* An operation that goes on to its next step keeps its identity and its presets.
LEMMA NextPlace ==
  ASSUME NEW op \in PresetOp, NEW new,
         NEW at \in {"access", "mkdir", "open", "write", "rm", "removed"},
         new = [op EXCEPT !.at = at]
  PROVE  /\ new \in PresetOp /\ new.at = at
         /\ new.id = op.id /\ new.kind = op.kind /\ new.from = op.from /\ new.to = op.to
BY DEF PresetOp

\* An operation that goes on touches only files of presets it names.
LEMMA Moved ==
  ASSUME NEW S, NEW D, NEW F, NEW L, NEW G, NEW op \in S, NEW new,
         Fit(S, D, F, L), Fits(new, D, G, L),
         new.id = op.id, new.from = op.from, new.to = op.to,
         \A x \in Preset \ Named(op) : G[x] = F[x]
  PROVE  /\ Fit((S \ {op}) \cup {new}, D, G, L)
         /\ Agrees(S, D, F, L) => Agrees((S \ {op}) \cup {new}, D, G, L)
<1>1. D \subseteq D /\ SameBut(Named(op), L, L)
  BY DEF SameBut
<1>2. /\ OthersFit(S, D, G, L, op)
      /\ Agrees(S, D, F, L) => OthersAgree(S, D, G, L, op)
  BY <1>1, OthersStay
<1>3. Named(new) = Named(op)
  BY DEF Named
<1>4. Apart((S \ {op}) \cup {new}, D)
  BY <1>3, <1>2 DEF Apart, OthersFit
<1>5. Agrees(S, D, F, L) => Agrees((S \ {op}) \cup {new}, D, G, L)
  BY <1>3, <1>2 DEF Agrees, OthersAgree
<1> QED
  BY <1>4, <1>5, <1>2 DEF Fit, OthersFit

\* An operation that ends leaves its paths in agreement, or disturbed.
LEMMA Ended ==
  ASSUME NEW S, NEW D, NEW F, NEW L, NEW E, NEW G, NEW M, NEW op \in S,
         Fit(S, D, F, L), D \subseteq E,
         \A x \in Preset \ Named(op) : G[x] = F[x], SameBut(Named(op), L, M),
         \A x \in Named(op) \ E : Matches(x, G, M)
  PROVE  /\ Fit(S \ {op}, E, G, M)
         /\ Agrees(S, D, F, L) => Agrees(S \ {op}, E, G, M)
<1>1. /\ OthersFit(S, E, G, M, op)
      /\ Agrees(S, D, F, L) => OthersAgree(S, E, G, M, op)
  BY OthersStay
<1>2. Agrees(S, D, F, L) => Agrees(S \ {op}, E, G, M)
  BY <1>1 DEF Agrees, OthersAgree
<1> QED
  BY <1>1, <1>2 DEF Fit, OthersFit

\* What OInv says of the operations.
LEMMA WhatFits ==
  ASSUME MInv, OInv, NEW op \in presetOps
  PROVE  /\ Fit(presetOps, disturbed, files, listed)
         /\ Fits(op, disturbed, files, listed) /\ op \in PresetOp
         /\ op.from \in Preset /\ op.to \in Preset
         /\ Path(op.from) \in Preset /\ Path(op.to) \in Preset
         /\ files \in [Preset -> Contents]
BY PathIsPreset DEF MInv, OInv, Fit, Fits, PresetOp

\* The invariants of the operations after a step, given MInv and OInv before it.
Kept ==
  /\ files' \in [Preset -> Contents]
  /\ Fit(presetOps', disturbed', files', listed')
  /\ Agrees(presetOps, disturbed, files, listed)
       => Agrees(presetOps', disturbed', files', listed')

\* The directory of a category.
LEMMA CategoryKeeps ==
  ASSUME MInv, OInv, NEW op \in presetOps, FindCategory(op) \/ MakeCategory(op)
  PROVE  Kept
<1>1. /\ Fit(presetOps, disturbed, files, listed)
      /\ Fits(op, disturbed, files, listed) /\ op \in PresetOp
      /\ op.from \in Preset /\ op.to \in Preset
      /\ Path(op.from) \in Preset /\ Path(op.to) \in Preset
      /\ files \in [Preset -> Contents]
  BY WhatFits
<1>2. UNCHANGED <<files, listed>>
  BY DEF FindCategory, MakeCategory, presetMemory
<1>3. op.kind = "add" /\ op.at \in {"access", "mkdir"}
  BY <1>1 DEF FindCategory, MakeCategory, Fits, PresetOp
<1>4. ASSUME NEW at \in {"mkdir", "open"}, Moves(op, at), UNCHANGED disturbed
      PROVE  Kept
  <2> DEFINE new == [op EXCEPT !.at = at]
  <2>1. presetOps' = (presetOps \ {op}) \cup {new}
    BY <1>4 DEF Moves
  <2>2. /\ new \in PresetOp /\ new.at = at
        /\ new.id = op.id /\ new.kind = op.kind /\ new.from = op.from /\ new.to = op.to
    BY <1>1, NextPlace
  <2> HIDE DEF new
  <2>3. Fits(new, disturbed, files, listed)
    BY <1>1, <1>3, <2>2 DEF Fits
  <2> QED
    BY <1>1, <1>2, <1>4, <2>1, <2>2, <2>3, Moved DEF Kept
<1>5. ASSUME GivesUp(op)
      PROVE  Kept
  <2>1. SameBut(Named(op), listed, listed')
    BY <1>2 DEF SameBut
  <2> QED
    BY <1>1, <1>2, <1>5, <2>1, Ended DEF Kept, GivesUp, Ends
<1>6. CASE FindCategory(op)
  BY <1>4, <1>6 DEF FindCategory
<1>7. CASE MakeCategory(op)
  BY <1>4, <1>5, <1>7 DEF MakeCategory
<1> QED
  BY <1>6, <1>7

\* The file of an added or renamed preset.
LEMMA WriteKeeps ==
  ASSUME MInv, OInv, NEW op \in presetOps, OpenFile(op) \/ EndWrite(op)
  PROVE  Kept
<1>1. /\ Fit(presetOps, disturbed, files, listed)
      /\ Fits(op, disturbed, files, listed) /\ op \in PresetOp
      /\ op.from \in Preset /\ op.to \in Preset
      /\ Path(op.from) \in Preset /\ Path(op.to) \in Preset
      /\ files \in [Preset -> Contents]
  BY WhatFits
<1>2. op.kind \in {"add", "rename"} /\ op.at \in {"open", "write"}
  BY <1>1 DEF OpenFile, EndWrite, Fits, PresetOp
<1>3. CASE OpenFile(op)
  <2> DEFINE new == [op EXCEPT !.at = "write"]
  <2>1. /\ files' = [files EXCEPT ![Path(op.to)] = "part"] /\ UNCHANGED <<listed, disturbed>>
        /\ presetOps' = (presetOps \ {op}) \cup {new}
    BY <1>3 DEF OpenFile, Moves, presetMemory
  <2>2. files' \in [Preset -> Contents] /\ files'[Path(op.to)] = "part"
        /\ \A x \in Preset \ {Path(op.to)} : files'[x] = files[x]
    BY <1>1, <2>1 DEF Contents
  <2>3. op.at = "open"
    BY <1>3 DEF OpenFile
  <2>4. /\ new \in PresetOp /\ new.at = "write"
        /\ new.id = op.id /\ new.kind = op.kind /\ new.from = op.from /\ new.to = op.to
    BY <1>1, NextPlace
  <2> HIDE DEF new
  <2>5. Fits(new, disturbed, files', listed)
    BY <1>1, <1>2, <2>2, <2>3, <2>4 DEF Fits
  <2>6. \A x \in Preset \ Named(op) : files'[x] = files[x]
    BY <2>2 DEF Named
  <2> QED
    BY <1>1, <2>1, <2>2, <2>4, <2>5, <2>6, Moved DEF Kept
<1>4. CASE EndWrite(op)
  <2>1. /\ listed' = IF op.kind = "rename" THEN (listed \cup {op.to}) \ {op.from} ELSE listed
        /\ presetOps' = presetOps \ {op} /\ UNCHANGED disturbed /\ op.at = "write"
    BY <1>4 DEF EndWrite, Ends
  <2>2. PICK content \in Written(op) : files' = [files EXCEPT ![Path(op.to)] = content]
    BY <1>4 DEF EndWrite
  <2>3. content \in Contents
    <3>1. op.to[2] \in Contents /\ files[Path(op.to)] \in Contents
      BY <1>1 DEF Preset, Contents
    <3> QED
      BY <2>2, <3>1 DEF Written, Contents
  <2>4. files' \in [Preset -> Contents] /\ files'[Path(op.to)] = content
        /\ \A x \in Preset \ {Path(op.to)} : files'[x] = files[x]
    BY <1>1, <2>2, <2>3
  <2>5. /\ \A x \in Preset \ Named(op) : files'[x] = files[x]
        /\ SameBut(Named(op), listed, listed')
    BY <2>1, <2>4 DEF Named, SameBut
  <2>6. Path(op.to) \notin disturbed => content = op.to[2] /\ content \in Names
    <3> SUFFICES ASSUME Path(op.to) \notin disturbed PROVE content = op.to[2] /\ content \in Names
      OBVIOUS
    <3>1. files[Path(op.to)] = "part"
      BY <1>1, <2>1 DEF Fits
    <3>2. \A o \in presetOps \ {op} : Path(o.to) # Path(op.to)
      BY <1>1 DEF Fit, Apart, Named
    <3>3. Written(op) = {op.to[2]}
      BY <3>1, <3>2 DEF Written, WritesAlone
    <3> QED
      BY <1>1, <2>2, <3>3 DEF Preset
  <2>7. Path(op.to) \notin disturbed => op.to \in listed'
    BY <1>1, <1>2, <2>1 DEF Fits
  <2>8. Path(op.to) \notin disturbed => Matches(Path(op.to), files', listed')
    BY <2>4, <2>6, <2>7 DEF Matches
  <2>9. Path(op.from) \notin disturbed /\ Path(op.from) # Path(op.to)
          => Matches(Path(op.from), files', listed')
    <3> SUFFICES ASSUME Path(op.from) \notin disturbed, Path(op.from) # Path(op.to)
                 PROVE  Matches(Path(op.from), files', listed')
      OBVIOUS
    <3>1. op.kind = "rename" /\ Alone(op.from, listed)
      BY <1>1, <1>2 DEF Fits
    <3>2. files'[Path(op.from)] = "none"
      BY <1>1, <2>1, <2>4, <3>1 DEF Fits
    <3>3. \A q \in listed' : Path(q) # Path(op.from)
      BY <2>1, <3>1 DEF Alone
    <3> QED
      BY <3>2, <3>3, PresetAssumption DEF Matches
  <2>10. \A x \in Named(op) \ disturbed : Matches(x, files', listed')
    BY <2>8, <2>9 DEF Named
  <2>11. /\ Fit(presetOps \ {op}, disturbed, files', listed')
         /\ Agrees(presetOps, disturbed, files, listed)
              => Agrees(presetOps \ {op}, disturbed, files', listed')
    BY <1>1, <2>5, <2>10, Ended
  <2> QED
    BY <2>1, <2>4, <2>11 DEF Kept
<1> QED
  BY <1>3, <1>4

\* A step of an operation that fails.
LEMMA FailureKeeps ==
  ASSUME MInv, OInv, NEW op \in presetOps, StepFails(op)
  PROVE  Kept
<1>1. Fit(presetOps, disturbed, files, listed) /\ files \in [Preset -> Contents]
  BY WhatFits
<1>2. /\ UNCHANGED <<files, listed>> /\ presetOps' = presetOps \ {op}
      /\ disturbed' = disturbed \cup Named(op)
  BY DEF StepFails, GivesUp, Ends, presetMemory
<1>3. SameBut(Named(op), listed, listed')
  BY <1>2 DEF SameBut
<1> QED
  BY <1>1, <1>2, <1>3, Ended DEF Kept

\* The file of a removed or renamed preset.
LEMMA RemoveKeeps ==
  ASSUME MInv, OInv, NEW op \in presetOps, RemoveFile(op) \/ Forget(op)
  PROVE  Kept
<1>1. /\ Fit(presetOps, disturbed, files, listed)
      /\ Fits(op, disturbed, files, listed) /\ op \in PresetOp
      /\ op.from \in Preset /\ op.to \in Preset
      /\ Path(op.from) \in Preset /\ Path(op.to) \in Preset
      /\ files \in [Preset -> Contents]
  BY WhatFits
<1>2. op.kind \in {"remove", "rename"} /\ op.at \in {"rm", "removed"}
  BY <1>1 DEF RemoveFile, Forget, Fits, PresetOp
<1>3. CASE RemoveFile(op)
  <2>1. files' = [files EXCEPT ![Path(op.from)] = "none"] /\ UNCHANGED listed /\ op.at = "rm"
    BY <1>3 DEF RemoveFile, presetMemory
  <2>2. files' \in [Preset -> Contents] /\ files'[Path(op.from)] = "none"
        /\ \A x \in Preset \ {Path(op.from)} : files'[x] = files[x]
    BY <1>1, <2>1 DEF Contents
  <2>3. /\ \A x \in Preset \ Named(op) : files'[x] = files[x]
        /\ SameBut(Named(op), listed, listed')
    BY <2>1, <2>2 DEF Named, SameBut
  <2>4. CASE files[Path(op.from)] = "none"
    <3>1. presetOps' = presetOps \ {op} /\ disturbed' = disturbed \cup Named(op)
      BY <1>3, <2>4 DEF RemoveFile, GivesUp, Ends
    <3>2. /\ disturbed \subseteq disturbed'
          /\ \A x \in Named(op) \ disturbed' : Matches(x, files', listed')
      BY <3>1
    <3> QED
      BY <1>1, <2>2, <2>3, <3>1, <3>2, Ended DEF Kept
  <2>5. CASE files[Path(op.from)] # "none"
    <3> DEFINE at == IF op.kind = "rename" THEN "open" ELSE "removed"
           new == [op EXCEPT !.at = at]
    <3>1. presetOps' = (presetOps \ {op}) \cup {new} /\ UNCHANGED disturbed
      BY <1>3, <2>5 DEF RemoveFile, Moves
    <3>2. at \in {"open", "removed"} /\ (at = "open" <=> op.kind = "rename")
      OBVIOUS
    <3> HIDE DEF at
    <3>3. /\ new \in PresetOp /\ new.at = at
          /\ new.id = op.id /\ new.kind = op.kind /\ new.from = op.from /\ new.to = op.to
      BY <1>1, <3>2, NextPlace
    <3> HIDE DEF new
    <3>4. Fits(new, disturbed, files', listed)
      BY <1>1, <1>2, <2>2, <3>2, <3>3 DEF Fits
    <3> QED
      BY <1>1, <2>1, <2>2, <2>3, <3>1, <3>3, <3>4, Moved DEF Kept
  <2> QED
    BY <2>4, <2>5
<1>4. CASE Forget(op)
  <2>1. /\ listed' = listed \ {op.from} /\ presetOps' = presetOps \ {op}
        /\ UNCHANGED <<files, disturbed>> /\ op.at = "removed"
    BY <1>4 DEF Forget, Ends
  <2>2. /\ op.from = op.to
        /\ Path(op.from) \notin disturbed
             => files[Path(op.from)] = "none" /\ Alone(op.from, listed)
    BY <1>1, <1>2, <2>1 DEF Fits
  <2>3. ASSUME NEW x \in Named(op) \ disturbed PROVE Matches(x, files', listed')
    <3>1. x = Path(op.from) /\ files'[x] = "none" /\ Alone(op.from, listed)
      BY <2>1, <2>2, <2>3 DEF Named
    <3>2. \A q \in listed' : Path(q) # x
      BY <2>1, <3>1 DEF Alone
    <3> QED
      BY <3>1, <3>2, PresetAssumption DEF Matches
  <2>4. /\ \A x \in Preset \ Named(op) : files'[x] = files[x]
        /\ SameBut(Named(op), listed, listed')
    BY <2>1 DEF Named, SameBut
  <2>5. disturbed \subseteq disturbed
    OBVIOUS
  <2> QED
    BY <1>1, <2>1, <2>3, <2>4, <2>5, Ended DEF Kept
<1> QED
  BY <1>3, <1>4

\* What a request disturbs.
LEMMA WhatBegins ==
  ASSUME NEW op, Begins(op)
  PROVE  /\ presetOps' = presetOps \cup {op} /\ disturbed \subseteq disturbed'
         /\ \A o \in presetOps : op.id # o.id
         /\ \A o \in presetOps : Overlaps(op, o) => Named(op) \cup Named(o) \subseteq disturbed'
         /\ op.kind # "add" /\ Path(op.from) \notin disturbed' => Alone(op.from, listed)
<1> DEFINE clashing == {other \in presetOps : Overlaps(op, other)}
           shared == UNION {Named(o) : o \in clashing}
           own == IF clashing # {} THEN Named(op) ELSE {}
           among == IF op.kind = "add" \/ Alone(op.from, listed) THEN {} ELSE {Path(op.from)}
<1>1. /\ op.id \notin {other.id : other \in presetOps} /\ presetOps' = presetOps \cup {op}
      /\ disturbed' = disturbed \cup shared \cup own \cup among
  BY Zenon DEF Begins
<1>2. \A o \in clashing : Named(o) \subseteq shared
  OBVIOUS
<1>3. \A o \in clashing : Named(op) \subseteq own
  OBVIOUS
<1>4. op.kind # "add" /\ ~Alone(op.from, listed) => Path(op.from) \in among
  OBVIOUS
<1> HIDE DEF shared, own, among
<1>5. \A o \in presetOps : Overlaps(op, o) => Named(op) \cup Named(o) \subseteq disturbed'
  BY <1>1, <1>2, <1>3
<1> HIDE DEF clashing
<1>6. \A o \in presetOps : op.id # o.id
  BY <1>1, Zenon
<1>7. /\ disturbed \subseteq disturbed'
      /\ op.kind # "add" /\ Path(op.from) \notin disturbed' => Alone(op.from, listed)
  BY <1>1, <1>4
<1> QED
  BY <1>1, <1>5, <1>6, <1>7, Zenon

\* A request adds an operation; what it shares with those in progress is disturbed.
LEMMA BeginKeeps ==
  ASSUME MInv, OInv, UNCHANGED files, NEW op, Begins(op), op \in PresetOp,
         Fits(op, disturbed', files, listed'), listed \subseteq listed',
         SameBut(Named(op), listed, listed')
  PROVE  Kept
<1>1. /\ \A o \in presetOps : op.id # o.id
      /\ presetOps' = presetOps \cup {op}
      /\ disturbed \subseteq disturbed'
  BY WhatBegins
<1>2. \A o \in presetOps : Named(op) \cap Named(o) # {} => Overlaps(op, o)
  BY DEF Overlaps
<1>3. \A o \in presetOps : Named(op) \cap Named(o) \subseteq disturbed'
  BY <1>2, WhatBegins
<1>4. (\A o \in presetOps : Fits(o, disturbed, files, listed)) /\ Apart(presetOps, disturbed)
  BY DEF OInv
<1>5. ASSUME NEW o \in presetOps PROVE Fits(o, disturbed', files, listed')
  <2>1. Fits(o, disturbed, files, listed)
    BY <1>4
  <2>2. Path(o.from) \notin disturbed' => Path(o.from) \notin Named(op)
    BY <1>3 DEF Named
  <2>3. Path(o.from) \notin disturbed' /\ Alone(o.from, listed) => Alone(o.from, listed')
    BY <2>2 DEF Alone, SameBut
  <2> QED
    BY <1>1, <2>1, <2>3 DEF Fits
<1>6. Apart(presetOps', disturbed')
  <2>1. ASSUME NEW o \in presetOps', NEW other \in presetOps', o # other
        PROVE  o.id # other.id /\ Named(o) \cap Named(other) \subseteq disturbed'
    <3>1. CASE o = op \/ other = op
      BY <1>1, <1>3, <2>1, <3>1
    <3>2. CASE o # op /\ other # op
      BY <1>1, <1>4, <2>1, <3>2 DEF Apart
    <3> QED
      BY <3>1, <3>2
  <2> QED
    BY <2>1 DEF Apart
<1>7. Agrees(presetOps, disturbed, files, listed)
        => Agrees(presetOps', disturbed', files, listed')
  <2>1. ASSUME Agrees(presetOps, disturbed, files, listed), NEW x \in Preset \ disturbed',
               \A o \in presetOps' : x \notin Named(o)
        PROVE  Matches(x, files, listed')
    <3>1. x \in Preset \ disturbed /\ x \notin Named(op) /\ \A o \in presetOps : x \notin Named(o)
      BY <1>1, <2>1
    <3>2. Matches(x, files, listed)
      BY <2>1, <3>1 DEF Agrees
    <3>3. \A q \in listed \cup listed' : Path(q) = x => (q \in listed <=> q \in listed')
      BY <3>1 DEF SameBut
    <3> QED
      BY <3>2, <3>3 DEF Matches
  <2> QED
    BY <2>1 DEF Agrees
<1>8. files' = files /\ files \in [Preset -> Contents]
  BY DEF MInv
<1>9. Fit(presetOps', disturbed', files, listed')
  BY <1>1, <1>5, <1>6 DEF Fit
<1> QED
  BY <1>7, <1>8, <1>9 DEF Kept

\* The requests to add, remove and rename a preset.
LEMMA RequestKeeps ==
  ASSUME MInv, OInv, PresetRequest
  PROVE  Kept
<1>1. ASSUME NEW p \in Preset, NEW i \in 1 .. MaxPresetOps, NEW at \in {"open", "access"},
             NEW op, op = [id |-> i, kind |-> "add", from |-> p, to |-> p, at |-> at],
             Begins(op), listed' = listed \cup {p}, UNCHANGED files
      PROVE  Kept
  <2>1. op \in PresetOp /\ Named(op) = {Path(p)} /\ Fits(op, disturbed', files, listed')
    BY <1>1 DEF PresetOp, Named, Fits
  <2>2. SameBut(Named(op), listed, listed')
    BY <1>1, <2>1 DEF SameBut
  <2> QED
    BY <1>1, <2>1, <2>2, BeginKeeps
<1>2. ASSUME NEW p \in Preset, NEW i \in 1 .. MaxPresetOps,
             NEW op, op = [id |-> i, kind |-> "remove", from |-> p, to |-> p, at |-> "rm"],
             Begins(op), UNCHANGED <<listed, files>>
      PROVE  Kept
  <2>1. op \in PresetOp /\ op.kind # "add"
    BY <1>2 DEF PresetOp
  <2>2. Path(op.from) \notin disturbed' => Alone(op.from, listed')
    BY <1>2, <2>1, WhatBegins
  <2>3. Fits(op, disturbed', files, listed')
    BY <1>2, <2>1, <2>2 DEF Fits
  <2>4. SameBut(Named(op), listed, listed')
    BY <1>2 DEF SameBut
  <2> QED
    BY <1>2, <2>1, <2>3, <2>4, BeginKeeps
<1>3. ASSUME NEW p \in Preset, NEW to \in Preset, NEW i \in 1 .. MaxPresetOps, p # to,
             NEW op, op = [id |-> i, kind |-> "rename", from |-> p, to |-> to, at |-> "rm"],
             Begins(op), UNCHANGED <<listed, files>>
      PROVE  Kept
  <2>1. op \in PresetOp /\ op.kind # "add"
    BY <1>3 DEF PresetOp
  <2>2. Path(op.from) \notin disturbed' => Alone(op.from, listed')
    BY <1>3, <2>1, WhatBegins
  <2>3. Fits(op, disturbed', files, listed')
    BY <1>3, <2>1, <2>2 DEF Fits
  <2>4. SameBut(Named(op), listed, listed')
    BY <1>3 DEF SameBut
  <2> QED
    BY <1>3, <2>1, <2>3, <2>4, BeginKeeps
<1>4. ASSUME NEW p \in Preset, AddPreset(p)
      PROVE  Kept
  <2>1. PICK i \in 1 .. MaxPresetOps :
          Begins([id |-> i, kind |-> "add", from |-> p, to |-> p,
                  at |-> IF p[1] = "uncategorized" THEN "open" ELSE "access"])
    BY <1>4 DEF AddPreset
  <2> DEFINE at == IF p[1] = "uncategorized" THEN "open" ELSE "access"
             op == [id |-> i, kind |-> "add", from |-> p, to |-> p, at |-> at]
  <2>2. at \in {"open", "access"} /\ Begins(op)
    BY <2>1
  <2>3. listed' = listed \cup {p} /\ UNCHANGED files
    BY <1>4 DEF AddPreset
  <2> HIDE DEF at
  <2>4. op = [id |-> i, kind |-> "add", from |-> p, to |-> p, at |-> at]
    OBVIOUS
  <2> HIDE DEF op
  <2> QED
    BY <1>1, <2>2, <2>3, <2>4
<1>5. ASSUME NEW p \in Preset, RemovePreset(p)
      PROVE  Kept
  BY <1>2, <1>5 DEF RemovePreset, presetMemory
<1>6. ASSUME NEW p \in Preset, NEW to \in Preset, RenamePreset(p, to)
      PROVE  Kept
  BY <1>3, <1>6 DEF RenamePreset, presetMemory
<1> QED
  BY <1>4, <1>5, <1>6 DEF PresetRequest

-----------------------------------------------------------------------------

\* A server that was never started has no preset in memory.
LEMMA InitPInv == Init => MInv /\ OInv
<1> SUFFICES ASSUME Init PROVE MInv /\ OInv
  OBVIOUS
<1>1. /\ files = [p \in Preset |-> "none"] /\ migration = Migration("before", {}, {})
      /\ presetOps = {} /\ loaded = FALSE /\ "none" \in Contents
  BY DEF Init, InitPresets, Contents
<1>2. migration.at = "before" /\ migration.left = {} /\ migration.writing = {}
  BY <1>1 DEF Migration
<1> QED
  BY <1>1, <1>2 DEF MInv, OInv, Apart

\* Requests and operations, while the server listens or closes.
LEMMA ListeningKeeps ==
  ASSUME MInv, OInv, stage \in {"listening", "closing"}, UNCHANGED stage,
         PresetRequest \/ PresetStep \/ PresetFault
  PROVE  MInv' /\ OInv'
<1>1. Kept
  BY RequestKeeps, CategoryKeeps, WriteKeeps, RemoveKeeps, FailureKeeps
     DEF PresetStep, PresetFault
<1>2. UNCHANGED <<migration, loaded>>
  BY DEF PresetRequest, AddPreset, RemovePreset, RenamePreset, PresetStep, PresetFault,
         FindCategory, MakeCategory, OpenFile, StepFails, EndWrite, RemoveFile, Forget,
         presetMemory
<1>3. MInv'
  BY <1>1, <1>2 DEF MInv, Kept
<1>4. OInv'
  BY <1>1, <1>2 DEF OInv, Kept, Fit
<1> QED
  BY <1>3, <1>4

\* The end of the process: the files stay.
LEMMA LosePresetsKeeps ==
  ASSUME MInv, LosePresets, stage' = "down"
  PROVE  MInv' /\ OInv'
<1>1. /\ presetOps' = {} /\ loaded' = FALSE /\ files' = files
      /\ migration' = Migration("before", {}, {})
  BY DEF LosePresets
<1>2. migration'.at = "before" /\ migration'.left = {} /\ migration'.writing = {}
  BY <1>1 DEF Migration
<1> QED
  BY <1>1, <1>2 DEF MInv, OInv, Apart

\* The steps of LoadPresets; the last one makes the list of the whole files.
LEMMA LoadKeeps ==
  ASSUME MInv, OInv, StartPresets \/ MigrationOfPresetsFails
  PROVE  MInv' /\ OInv'
<1>1. stage = "presets" /\ presetOps = {} /\ ~loaded
  BY DEF MInv, OInv, StartPresets, MigrationOfPresetsFails
<1>2. presetOps' = {}
  BY <1>1 DEF StartPresets, MigrationOfPresetsFails, BeginMigration, RemoveOldFile,
     MigrationFails, MigrateOpens, MigrateWrites, ReadPresets
<1>3. MInv'
  BY <1>1, <1>2, MigrationKeeps DEF StartPresets, MigrationOfPresetsFails
<1>4. /\ \A op \in presetOps' : Fits(op, disturbed', files', listed')
      /\ Apart(presetOps', disturbed')
  BY <1>2 DEF Apart
<1>5. CASE ReadPresets /\ stage' = "database"
  <2>1. loaded' => /\ listed' = {<<x[1], files[x]>> : x \in {y \in Preset : files[y] \in Names}}
                   /\ files' = files
                   /\ disturbed' = Astray \cup {Path(<<x[1], files[x]>>) : x \in Astray}
    BY <1>5 DEF ReadPresets
  <2>2. loaded' => Agrees(presetOps', disturbed', files', listed')
    <3> SUFFICES ASSUME loaded', NEW x \in Preset, x \notin disturbed'
                 PROVE  Matches(x, files, listed')
      BY <2>1 DEF Agrees
    <3>1. files[x] \in Names => /\ Path(<<x[1], files[x]>>) = x
                                /\ <<x[1], files[x]>> \in listed'
                                /\ <<x[1], files[x]>>[2] = files[x]
      BY <2>1 DEF Astray
    <3>2. ASSUME NEW p \in listed', Path(p) = x PROVE files[x] \in Names
      <4>1. PICK y \in Preset : files[y] \in Names /\ p = <<y[1], files[y]>>
        BY <2>1, <3>2
      <4>2. y \notin Astray
        BY <2>1, <3>2, <4>1
      <4>3. Path(p) = y
        BY <4>1, <4>2 DEF Astray
      <4> QED
        BY <3>2, <4>1, <4>3
    <3> QED
      BY <3>1, <3>2, Zenon DEF Matches
  <2>3. loaded' => stage' \notin {"down", "config", "presets"}
    BY <1>5
  <2> QED
    BY <1>3, <1>4, <2>2, <2>3, Zenon DEF OInv
<1>6. CASE UNCHANGED loaded /\ UNCHANGED stage
  <2>1. ~loaded'
    BY <1>1, <1>6, Zenon
  <2>2. /\ loaded' => stage' \notin {"down", "config", "presets"}
        /\ loaded' => Agrees(presetOps', disturbed', files', listed')
    BY <2>1, Zenon
  <2> QED
    BY <1>3, <1>4, <2>2, Zenon DEF OInv
<1> QED
  BY <1>3, <1>5, <1>6 DEF StartPresets, MigrationOfPresetsFails, BeginMigration,
     RemoveOldFile, MigrationFails, MigrateOpens, MigrateWrites, presetMemory

\* Steps of the other parts, in the order of the start.
LEMMA OthersKeepPresets ==
  ASSUME MInv, OInv, UNCHANGED presetVars,
         stage' \in {"down", "config", "presets"} => stage \in {"down", "config", "presets"},
         stage = "presets" => stage' = "presets",
         stage' \notin {"listening", "closing"} => stage \notin {"listening", "closing"}
  PROVE  MInv' /\ OInv'
BY DEF MInv, OInv, presetVars

\* Every step of the server keeps what is known of the presets.
LEMMA NextPInv == MInv /\ OInv /\ [Next]_vars => MInv' /\ OInv'
<1> SUFFICES ASSUME MInv, OInv, [Next]_vars PROVE MInv' /\ OInv'
  OBVIOUS
<1>1. CASE UNCHANGED vars
  BY <1>1, OthersKeepPresets DEF vars
<1>2. CASE Boot \/ StartConfig \/ StartQueue
  BY <1>2, OthersKeepPresets DEF Boot, StartConfig, StartQueue
<1>3. CASE StartDatabase \/ StartAuth
  BY <1>3, OthersKeepPresets DEF StartDatabase, StartAuth
<1>4. CASE StartPresets \/ MigrationOfPresetsFails
  BY <1>4, LoadKeeps
<1>5. CASE StartThrows \/ InvalidConfig \/ Crash \/ EndShutdown
  BY <1>5, LosePresetsKeeps DEF StartThrows, InvalidConfig, Crash, EndShutdown, ProcessEnds
<1>6. CASE ConfigRequest \/ LoginIsAsked \/ BeginShutdown \/ TimePasses
  BY <1>6, OthersKeepPresets DEF ConfigRequest, LoginIsAsked, BeginShutdown, TimePasses
<1>7. CASE PresetsAreAsked
  BY <1>7, ListeningKeeps DEF PresetsAreAsked
<1>8. CASE Works
  <2>1. stage \in {"listening", "closing"} /\ UNCHANGED stage
        /\ (PresetStep \/ UNCHANGED presetVars)
    BY <1>8 DEF Works
  <2> QED
    BY <2>1, ListeningKeeps, OthersKeepPresets
<1>9. CASE Fails
  <2>1. stage \in {"listening", "closing"} /\ UNCHANGED stage
        /\ (PresetFault \/ UNCHANGED presetVars)
    BY <1>9 DEF Fails
  <2> QED
    BY <2>1, ListeningKeeps, OthersKeepPresets
<1> QED
  BY <1>1, <1>2, <1>3, <1>4, <1>5, <1>6, <1>7, <1>8, <1>9 DEF Next, Start

\* The list of the clients is the directory, but for paths that are disturbed, for any
\* number of presets, whatever paths they share, and operations in any order.
THEOREM ListIsTheDirectory == Spec => []ListIsDirectory
<1>1. MInv /\ OInv => ListIsDirectory
  BY DEF OInv, Agrees, Matches, ListIsDirectory
<1> QED
  BY <1>1, InitPInv, NextPInv, PTL DEF Spec

\* presets.json goes only in the last step of a migration that wrote every preset.
THEOREM MigrationKeepsEveryPreset == Spec => MigrationKeepsPresets
<1> DEFINE Migrated == oldFile /\ ~oldFile' => \A p \in OldPresets : files'[p] = p[2]
<1>1. ASSUME MInv, [Next]_vars
      PROVE  [Migrated]_presetVars
  <2>1. CASE RemoveOldFile
    <3>1. migration.at = "during" /\ migration.left = {} /\ UNCHANGED files
      BY <2>1 DEF RemoveOldFile, Migration
    <3> QED
      BY <1>1, <3>1 DEF MInv
  <2>2. RemoveOldFile \/ UNCHANGED oldFile
    BY <1>1 DEF Next, Start, vars, presetVars, Boot, StartConfig, StartPresets,
       StartDatabase, StartAuth, StartQueue, StartThrows, MigrationOfPresetsFails,
       ConfigRequest, InvalidConfig, PresetsAreAsked, LoginIsAsked, Works, Fails,
       TimePasses, Crash, BeginShutdown, EndShutdown, ProcessEnds, LosePresets,
       BeginMigration, MigrationFails, MigrateOpens, MigrateWrites, ReadPresets,
       PresetRequest, AddPreset, RemovePreset, RenamePreset, PresetStep, PresetFault,
       FindCategory, MakeCategory, OpenFile, StepFails, EndWrite, RemoveFile, Forget
  <2> QED
    BY <2>1, <2>2
<1> QED
  BY <1>1, InitPInv, NextPInv, PTL DEF Spec, MigrationKeepsPresets

-----------------------------------------------------------------------------
(* Types.  Each part of the server has an invariant of its own; what makes   *)
(* it inductive is that a write holds a whole file, that a migration is      *)
(* recorded only while one is left, that a directory is made only for a      *)
(* category, and that a counter is one for each limiter.                     *)

WholeFiles == [state : {"whole"}, version : 0 .. LatestConfig, settings : Settings]
Files == [state : {"none", "part", "whole"}, version : 0 .. LatestConfig, settings : Settings]
Writes == [id : Nat, at : {"open", "write"}, file : WholeFiles, startup : BOOLEAN]

StartTypes ==
  /\ configFile \in Files /\ config \in Files /\ writes \subseteq Writes
  /\ tables \in {"none", "some", "all"}
  /\ changed \in 0 .. LatestSchema /\ recorded \in 0 .. LatestSchema
  /\ schemaAt \in {"before", "create", "migrate", "record", "after"}
  /\ schemaAt = "record" => recorded < LatestSchema

PresetTypes ==
  /\ TypeOKPresets
  /\ \A op \in presetOps : op.at \in {"access", "mkdir"} => op.to[1] \in Categories

Attempts == [id : Nat, limiter : Limiters, ok : BOOLEAN, user : Users]
Counters == [count : Nat, left : 0 .. Window]

RowTypes ==
  /\ row \in Row /\ cred \in Row /\ printed \in Stamps /\ stamp \in Stamps
  /\ authStart \in {"before", "hash", "keep", "after"}
  /\ change \in [at : {"idle", "verify", "store", "keep"}, row : Row]

AttemptsTyped ==
  /\ sessions \subseteq [user : Users, at : Stamps]
  /\ attempts \subseteq Attempts /\ limits \in [Limiters -> Counters]

LoginTypes == RowTypes /\ AttemptsTyped

LifeTypes ==
  /\ stage \in Starting \cup {"down", "listening", "closing"}
  /\ cutOff \in BOOLEAN /\ requests \in 0 .. MaxRequests /\ faults \in 0 .. MaxFaults

\* The steps of a part, at whatever stage of the server.
StartStep ==
  \/ CreateConfig \/ MigrateConfig \/ ReadConfig \/ LoseStart
  \/ \E s \in Settings : WriteConfig(s)
  \/ \E w \in writes : OpenConfig(w) \/ EndConfig(w)
  \/ OpenDatabase \/ CreateTables \/ SkipMigrations \/ RunMigration \/ RecordMigration
  \/ SchemaIsLatest

PresetsStep ==
  \/ BeginMigration \/ RemoveOldFile \/ MigrationFails \/ ReadPresets \/ LosePresets
  \/ \E p \in OldPresets : MigrateOpens(p) \/ MigrateWrites(p)
  \/ PresetRequest \/ PresetStep \/ PresetFault

LoginStep == AuthStart \/ AuthRequest \/ AuthStep \/ AuthFault \/ LoseAuth \/ Tick

\* Every step of the server is, for each part, one of its steps or none.
LEMMA StepsOfParts ==
  ASSUME [Next]_vars
  PROVE  /\ StartStep \/ UNCHANGED startVars
         /\ PresetsStep \/ UNCHANGED presetVars
         /\ LoginStep \/ UNCHANGED authVars
<1>1. CASE UNCHANGED vars
  BY <1>1 DEF vars
<1>2. CASE StartThrows \/ InvalidConfig \/ Crash \/ EndShutdown
  BY <1>2 DEF StartThrows, InvalidConfig, Crash, EndShutdown, ProcessEnds, StartStep,
              PresetsStep, LoginStep
<1>3. CASE Boot \/ StartConfig \/ StartQueue
  BY <1>3 DEF Boot, StartConfig, StartQueue, StartStep
<1>4. CASE StartPresets \/ MigrationOfPresetsFails
  BY <1>4 DEF StartPresets, MigrationOfPresetsFails, PresetsStep
<1>5. CASE StartDatabase
  BY <1>5 DEF StartDatabase, StartStep
<1>6. CASE StartAuth
  BY <1>6 DEF StartAuth, LoginStep
<1>7. CASE ConfigRequest \/ BeginShutdown
  BY <1>7 DEF ConfigRequest, BeginShutdown, StartStep
<1>8. CASE PresetsAreAsked
  BY <1>8 DEF PresetsAreAsked, PresetsStep
<1>9. CASE LoginIsAsked \/ TimePasses
  BY <1>9 DEF LoginIsAsked, TimePasses, LoginStep
<1>10. CASE Works
  BY <1>10 DEF Works, StartStep, PresetsStep, LoginStep
<1>11. CASE Fails
  BY <1>11 DEF Fails, PresetsStep, LoginStep
<1> QED
  BY <1>1, <1>2, <1>3, <1>4, <1>5, <1>6, <1>7, <1>8, <1>9, <1>10, <1>11 DEF Next, Start

\* The files that are written.
LEMMA FileTypes ==
  /\ NoFile \in Files /\ Part \in Files /\ NotLoaded \in Files
  /\ WholeFiles \subseteq Files
  /\ \A s \in Settings, v \in 0 .. LatestConfig : File("whole", v, s) \in WholeFiles
  /\ \A i \in Nat, f \in WholeFiles, b \in BOOLEAN : Write(i, "open", f, b) \in Writes
  /\ DefaultSettings \in Settings /\ LatestConfig \in 0 .. LatestConfig
<1>1. DefaultSettings \in Settings
  BY StartAssumption DEF DefaultSettings
<1>2. 0 \in 0 .. LatestConfig /\ LatestConfig \in 0 .. LatestConfig
  BY DEF LatestConfig
<1> QED
  BY <1>1, <1>2 DEF NoFile, Part, NotLoaded, Files, WholeFiles, File, Write, Writes

\* The configuration and the schema keep their types.
LEMMA StartStepTypes ==
  ASSUME StartTypes, StartStep
  PROVE  StartTypes'
<1>1. /\ configFile \in Files /\ config \in Files /\ writes \subseteq Writes
      /\ tables \in {"none", "some", "all"}
      /\ changed \in 0 .. LatestSchema /\ recorded \in 0 .. LatestSchema
      /\ schemaAt \in {"before", "create", "migrate", "record", "after"}
      /\ schemaAt = "record" => recorded < LatestSchema
  BY DEF StartTypes
<1>2. ASSUME UNCHANGED schemaVars, configFile' \in Files, config' \in Files,
             writes' \subseteq Writes
      PROVE  StartTypes'
  BY <1>1, <1>2 DEF StartTypes, schemaVars
<1>3. CASE CreateConfig
  <2>1. Write(1, "open", File("whole", LatestConfig, DefaultSettings), TRUE) \in Writes
    BY FileTypes
  <2> QED
    BY <1>1, <1>2, <1>3, <2>1 DEF CreateConfig
<1>4. CASE MigrateConfig
  <2> DEFINE f == [configFile EXCEPT !.version = @ + 1]
  <2>1. f \in WholeFiles
    <3>1. /\ configFile.state = "whole" /\ configFile.version + 1 \in 0 .. LatestConfig
          /\ configFile.settings \in Settings
      BY <1>1, <1>4 DEF MigrateConfig, Files, LatestConfig
    <3> QED
      BY <1>1, <3>1 DEF Files, WholeFiles
  <2> HIDE DEF f
  <2>2. Write(1, "open", f, TRUE) \in Writes
    BY <2>1, FileTypes
  <2> QED
    BY <1>1, <1>2, <1>4, <2>2 DEF MigrateConfig, f
<1>5. CASE ReadConfig
  BY <1>1, <1>2, <1>5 DEF ReadConfig
<1>6. ASSUME NEW s \in Settings, WriteConfig(s) PROVE StartTypes'
  <2>1. PICK i \in 1 .. MaxWrites :
          writes' = writes \cup {Write(i, "open", File("whole", LatestConfig, s), FALSE)}
    BY <1>6 DEF WriteConfig
  <2>2. i \in Nat
    BY StartAssumption
  <2>3. Write(i, "open", File("whole", LatestConfig, s), FALSE) \in Writes
    BY <2>2, FileTypes
  <2> QED
    BY <1>1, <1>2, <1>6, <2>1, <2>3 DEF WriteConfig
<1>7. ASSUME NEW w \in writes, OpenConfig(w) PROVE StartTypes'
  <2>1. [w EXCEPT !.at = "write"] \in Writes
    BY <1>1 DEF Writes
  <2> QED
    BY <1>1, <1>2, <1>7, <2>1, FileTypes DEF OpenConfig
<1>8. ASSUME NEW w \in writes, EndConfig(w) PROVE StartTypes'
  <2>1. w.file \in Files
    BY <1>1, FileTypes DEF Writes
  <2> QED
    BY <1>1, <1>2, <1>8, <2>1, FileTypes DEF EndConfig
<1>9. CASE LoseStart
  <2>1. config' \in Files
    BY <1>9, FileTypes DEF LoseStart
  <2> QED
    BY <1>1, <1>9, <2>1 DEF LoseStart, StartTypes
<1>10. CASE OpenDatabase \/ CreateTables \/ SkipMigrations \/ SchemaIsLatest
  <2>1. UNCHANGED configVars
    BY <1>10 DEF OpenDatabase, CreateTables, SkipMigrations, SchemaIsLatest
  <2>2. LatestSchema \in 0 .. LatestSchema
    BY DEF LatestSchema
  <2> QED
    BY <1>1, <1>10, <2>1, <2>2
       DEF OpenDatabase, CreateTables, SkipMigrations, SchemaIsLatest, StartTypes, configVars
<1>11. CASE RunMigration \/ RecordMigration
  <2>1. UNCHANGED configVars /\ UNCHANGED tables
    BY <1>11 DEF RunMigration, RecordMigration
  <2>2. recorded < LatestSchema => Upcoming \in 0 .. LatestSchema
    BY <1>1 DEF Upcoming, LatestSchema
  <2>3. recorded < LatestSchema
    BY <1>1, <1>11 DEF RunMigration, RecordMigration
  <2> QED
    BY <1>1, <1>11, <2>1, <2>2, <2>3 DEF RunMigration, RecordMigration, StartTypes, configVars
<1> QED
  BY <1>3, <1>4, <1>5, <1>6, <1>7, <1>8, <1>9, <1>10, <1>11 DEF StartStep

\* The migration of the presets.
Migrations ==
  [at : {"before", "during", "after"}, left : SUBSET OldPresets, writing : SUBSET OldPresets]

\* Types of the pieces of the steps below.
LEMMA PresetPieces ==
  /\ OldPresets \subseteq Preset
  /\ \A at \in {"before", "during", "after"}, L, W \in SUBSET OldPresets :
       Migration(at, L, W) \in Migrations
  /\ \A p \in Preset : p[1] \in Categories \cup {"uncategorized"} /\ p[2] \in Names
  /\ \A c \in Categories : Directory(c) \in Categories
  /\ {} \in SUBSET OldPresets /\ "none" \in Contents /\ "part" \in Contents
  /\ Names \subseteq Contents
BY PresetAssumption DEF OldPresets, Preset, Migration, Migrations, Directory, Contents

\* The steps of LoadPresets keep the types.
LEMMA LoadTypes ==
  ASSUME PresetTypes,
         \/ BeginMigration \/ RemoveOldFile \/ MigrationFails \/ ReadPresets \/ LosePresets
         \/ \E p \in OldPresets : MigrateOpens(p) \/ MigrateWrites(p)
  PROVE  PresetTypes'
<1>1. /\ listed \subseteq Preset /\ categories \subseteq Categories \cup {"uncategorized"}
      /\ files \in [Preset -> Contents] /\ dirs \subseteq Categories
      /\ oldFile \in BOOLEAN /\ loaded \in BOOLEAN /\ migration \in Migrations
      /\ presetOps \subseteq PresetOp /\ disturbed \subseteq Preset
      /\ \A op \in presetOps : op.at \in {"access", "mkdir"} => op.to[1] \in Categories
  BY DEF PresetTypes, TypeOKPresets, Migrations, Contents
<1>2. ASSUME migration' \in Migrations, files' \in [Preset -> Contents],
             oldFile' \in BOOLEAN, UNCHANGED <<presetMemory, dirs, presetOps, disturbed>>
      PROVE  PresetTypes'
  BY <1>1, <1>2 DEF PresetTypes, TypeOKPresets, Migrations, presetMemory, Contents
<1>3. CASE BeginMigration \/ RemoveOldFile \/ MigrationFails
  <2>1. migration' \in Migrations
    BY <1>3, PresetPieces DEF BeginMigration, RemoveOldFile, MigrationFails
  <2> QED
    BY <1>1, <1>2, <1>3, <2>1 DEF BeginMigration, RemoveOldFile, MigrationFails
<1>4. ASSUME NEW p \in OldPresets, MigrateOpens(p) \/ MigrateWrites(p)
      PROVE  PresetTypes'
  <2>1. migration.left \in SUBSET OldPresets /\ migration.left \ {p} \in SUBSET OldPresets
        /\ {p} \in SUBSET OldPresets
    BY <1>1 DEF Migrations
  <2>2. migration' \in Migrations
    BY <1>4, <2>1, PresetPieces DEF MigrateOpens, MigrateWrites
  <2>3. files' \in [Preset -> Contents]
    <3>1. p[2] \in Contents /\ "part" \in Contents
      BY PresetPieces
    <3> QED
      BY <1>1, <1>4, <3>1 DEF MigrateOpens, MigrateWrites
  <2> QED
    BY <1>1, <1>2, <1>4, <2>2, <2>3 DEF MigrateOpens, MigrateWrites
<1>5. CASE ReadPresets
  <2>1. migration' \in Migrations
    BY <1>5, PresetPieces DEF ReadPresets
  <2>2. loaded' \in BOOLEAN
    BY <1>5 DEF ReadPresets
  <2>3. categories' \subseteq Categories \cup {"uncategorized"}
    BY <1>1, <1>5 DEF ReadPresets
  <2>4. UNCHANGED <<files, dirs, oldFile, presetOps>>
    BY <1>5 DEF ReadPresets
  <2>5. ASSUME NEW x \in Preset, files[x] \in Names PROVE <<x[1], files[x]>> \in Preset
    BY <2>5 DEF Preset
  <2>6. listed' \subseteq Preset
    BY <1>5, <2>5 DEF ReadPresets
  <2>7. disturbed' \subseteq Preset
    <3>1. \A x \in Astray : x \in Preset /\ Path(<<x[1], files[x]>>) \in Preset
      BY <2>5, PathIsPreset DEF Astray
    <3> QED
      BY <1>5, <3>1 DEF ReadPresets
  <2> QED
    BY <1>1, <2>1, <2>2, <2>3, <2>4, <2>6, <2>7
       DEF PresetTypes, TypeOKPresets, Migrations, Contents
<1>6. CASE LosePresets
  <2>1. migration' \in Migrations
    BY <1>6, PresetPieces DEF LosePresets
  <2> QED
    BY <1>1, <1>6, <2>1 DEF LosePresets, PresetTypes, TypeOKPresets, Migrations, Contents
<1> QED
  BY <1>3, <1>4, <1>5, <1>6

\* A request keeps the types: an operation begins with the directory only for a category.
LEMMA PresetRequestTypes ==
  ASSUME PresetTypes, PresetRequest
  PROVE  PresetTypes'
<1>1. /\ listed \subseteq Preset /\ categories \subseteq Categories \cup {"uncategorized"}
      /\ presetOps \subseteq PresetOp /\ disturbed \subseteq Preset
      /\ \A op \in presetOps : op.at \in {"access", "mkdir"} => op.to[1] \in Categories
  BY DEF PresetTypes, TypeOKPresets
<1>2. ASSUME NEW op \in PresetOp, Begins(op), op.at \in {"access", "mkdir"} => op.to[1] \in Categories,
             listed' \subseteq Preset, categories' \subseteq Categories \cup {"uncategorized"},
             UNCHANGED <<files, dirs, oldFile, migration, loaded>>
      PROVE  PresetTypes'
  <2>1. /\ \A o \in presetOps \cup {op} : Named(o) \subseteq Preset
        /\ Path(op.from) \in Preset
    BY <1>1, <1>2, PathIsPreset DEF Named, PresetOp
  <2>2. presetOps' = presetOps \cup {op} /\ disturbed' \subseteq Preset
    BY <1>1, <1>2, <2>1 DEF Begins
  <2> QED
    BY <1>1, <1>2, <2>2 DEF PresetTypes, TypeOKPresets
<1>3. ASSUME NEW i \in 1 .. MaxPresetOps, NEW kind \in {"add", "remove", "rename"},
             NEW from \in Preset, NEW to \in Preset, NEW at \in {"access", "open", "rm"}
      PROVE  /\ [id |-> i, kind |-> kind, from |-> from, to |-> to, at |-> at] \in PresetOp
             /\ [id |-> i, kind |-> kind, from |-> from, to |-> to, at |-> at].at = at
             /\ [id |-> i, kind |-> kind, from |-> from, to |-> to, at |-> at].to = to
  BY DEF PresetOp
<1>4. ASSUME NEW p \in Preset, AddPreset(p) PROVE PresetTypes'
  <2> DEFINE at == IF p[1] = "uncategorized" THEN "open" ELSE "access"
  <2>1. PICK i \in 1 .. MaxPresetOps :
          Begins([id |-> i, kind |-> "add", from |-> p, to |-> p, at |-> at])
    BY <1>4 DEF AddPreset
  <2> DEFINE op == [id |-> i, kind |-> "add", from |-> p, to |-> p, at |-> at]
  <2>2. at \in {"access", "open", "rm"} /\ (at = "access" => p[1] \in Categories)
        /\ p[1] \in Categories \cup {"uncategorized"} /\ at # "mkdir"
    BY PresetPieces
  <2>3. op \in PresetOp /\ op.at = at /\ op.to = p
    <3> HIDE DEF at
    <3> QED
      BY <1>3, <2>2
  <2>4. /\ listed' \subseteq Preset /\ categories' \subseteq Categories \cup {"uncategorized"}
        /\ UNCHANGED <<files, dirs, oldFile, migration, loaded>>
    BY <1>1, <1>4, <2>2 DEF AddPreset
  <2>5. Begins(op)
    BY <2>1
  <2> HIDE DEF op, at
  <2> QED
    BY <1>2, <2>2, <2>3, <2>4, <2>5
<1>5. ASSUME NEW from \in Preset, NEW to \in Preset, NEW kind \in {"remove", "rename"},
             NEW i \in 1 .. MaxPresetOps,
             Begins([id |-> i, kind |-> kind, from |-> from, to |-> to, at |-> "rm"]),
             UNCHANGED <<presetMemory, files, dirs, oldFile, migration>>
      PROVE  PresetTypes'
  <2> DEFINE op == [id |-> i, kind |-> kind, from |-> from, to |-> to, at |-> "rm"]
  <2>1. op \in PresetOp /\ op.at = "rm" /\ Begins(op)
    BY <1>3, <1>5
  <2>2. UNCHANGED <<listed, categories, loaded, files, dirs, oldFile, migration>>
    BY <1>5 DEF presetMemory
  <2> HIDE DEF op
  <2> QED
    BY <1>1, <1>2, <2>1, <2>2
<1>6. ASSUME NEW p \in Preset, RemovePreset(p) PROVE PresetTypes'
  BY <1>5, <1>6 DEF RemovePreset
<1>7. ASSUME NEW p \in Preset, NEW to \in Preset, RenamePreset(p, to) PROVE PresetTypes'
  BY <1>5, <1>7 DEF RenamePreset
<1> QED
  BY <1>4, <1>6, <1>7 DEF PresetRequest

\* So do the steps of the operations.
LEMMA PresetStepTypes ==
  ASSUME PresetTypes, PresetStep \/ PresetFault
  PROVE  PresetTypes'
<1>1. /\ listed \subseteq Preset /\ categories \subseteq Categories \cup {"uncategorized"}
      /\ files \in [Preset -> Contents] /\ dirs \subseteq Categories
      /\ oldFile \in BOOLEAN /\ loaded \in BOOLEAN /\ migration \in Migrations
      /\ presetOps \subseteq PresetOp /\ disturbed \subseteq Preset
      /\ \A op \in presetOps : op.at \in {"access", "mkdir"} => op.to[1] \in Categories
  BY DEF PresetTypes, TypeOKPresets, Migrations, Contents
<1>2. PICK op \in presetOps :
        \/ FindCategory(op) \/ MakeCategory(op) \/ OpenFile(op) \/ StepFails(op)
        \/ EndWrite(op) \/ RemoveFile(op) \/ Forget(op)
  BY DEF PresetStep, PresetFault
<1>3. /\ op \in PresetOp /\ op.from \in Preset /\ op.to \in Preset
      /\ Named(op) \subseteq Preset /\ Path(op.to) \in Preset
  BY <1>1, PathIsPreset DEF PresetOp, Named
<1>4. UNCHANGED <<categories, loaded, oldFile, migration>>
  BY <1>2 DEF FindCategory, MakeCategory, OpenFile, StepFails, EndWrite, RemoveFile, Forget,
              presetMemory
<1>5. files' \in [Preset -> Contents]
  <2>1. \/ files' = files
        \/ \E x \in {Path(op.from), Path(op.to)}, content \in Written(op) \cup {"none", "part"} :
             files' = [files EXCEPT ![x] = content]
    BY <1>2 DEF FindCategory, MakeCategory, OpenFile, StepFails, EndWrite, RemoveFile, Forget
  <2>2. Written(op) \cup {"none", "part"} \subseteq Contents
    <3>1. op.to[2] \in Contents /\ files[Path(op.to)] \in Contents
          /\ "none" \in Contents /\ "part" \in Contents
      BY <1>1, <1>3, PresetPieces
    <3> QED
      BY <3>1 DEF Written
  <2> QED
    BY <1>1, <2>1, <2>2
<1>6. listed' \subseteq Preset
  BY <1>1, <1>2, <1>3 DEF FindCategory, MakeCategory, OpenFile, StepFails, EndWrite,
                          RemoveFile, Forget, presetMemory
<1>7. dirs' \subseteq Categories
  BY <1>1, <1>2, PresetPieces DEF FindCategory, MakeCategory, OpenFile, StepFails, EndWrite, RemoveFile,
                    Forget
<1>8. disturbed' \subseteq Preset
  BY <1>1, <1>2, <1>3 DEF FindCategory, MakeCategory, OpenFile, StepFails, EndWrite,
                          RemoveFile, Forget, GivesUp
<1>9. \/ Ends(op)
      \/ \E at \in {"mkdir", "open", "write", "removed"} :
           Moves(op, at) /\ (at = "mkdir" => op.at = "access")
  BY <1>2 DEF FindCategory, MakeCategory, OpenFile, StepFails, EndWrite, RemoveFile,
              Forget, GivesUp
<1>10. /\ presetOps' \subseteq PresetOp
       /\ \A o \in presetOps' : o.at \in {"access", "mkdir"} => o.to[1] \in Categories
  <2>1. CASE Ends(op)
    BY <1>1, <2>1 DEF Ends
  <2>2. ASSUME NEW at \in {"mkdir", "open", "write", "removed"}, Moves(op, at),
               at = "mkdir" => op.at = "access"
        PROVE  /\ presetOps' \subseteq PresetOp
               /\ \A o \in presetOps' : o.at \in {"access", "mkdir"} => o.to[1] \in Categories
    <3> DEFINE new == [op EXCEPT !.at = at]
    <3>1. new \in PresetOp /\ new.at = at /\ new.to = op.to
      BY <1>3, <2>2, NextPlace
    <3>2. presetOps' = (presetOps \ {op}) \cup {new}
      BY <2>2 DEF Moves
    <3> HIDE DEF new
    <3>3. at \in {"access", "mkdir"} => op.to[1] \in Categories
      BY <1>1, <2>2
    <3> QED
      BY <1>1, <3>1, <3>2, <3>3
  <2> QED
    BY <1>9, <2>1, <2>2
<1> QED
  BY <1>1, <1>4, <1>5, <1>6, <1>7, <1>8, <1>10
     DEF PresetTypes, TypeOKPresets, Migrations, Contents

\* Rows of the login, and what is made of them.
LEMMA RowPieces ==
  /\ NoRow \in Row /\ 0 \in Stamps
  /\ Idle \in [at : {"idle", "verify", "store", "keep"}, row : Row]
  /\ \A at \in {"verify", "store", "keep"}, r \in Row :
       [at |-> at, row |-> r] \in [at : {"idle", "verify", "store", "keep"}, row : Row]
  /\ Clear \in Counters
<1>1. 0 \in Stamps /\ NoRow \in Row
  BY AuthAssumption DEF Stamps, NoRow, Row
<1>2. Clear \in Counters
  BY AuthAssumption DEF Clear, Counters
<1> QED
  BY <1>1, <1>2 DEF Idle

\* A reading of the clock is a time.
LEMMA ReadTypes ==
  ASSUME stamp \in Stamps, Reads
  PROVE  /\ stamp' \in Stamps
         /\ \A user \in Users : Update(user) \in Row
<1>1. stamp' \in Stamps /\ 0 \in Stamps
  BY AuthAssumption DEF Stamps, Reads
<1> QED
  BY <1>1 DEF Update, Row

\* The counters of the limiters.
LEMMA CounterTypes ==
  ASSUME limits \in [Limiters -> Counters], NEW l \in Limiters
  PROVE  /\ Failed(l) => limits' \in [Limiters -> Counters]
         /\ Reset(l) => limits' \in [Limiters -> Counters]
         /\ Tick => limits' \in [Limiters -> Counters]
<1>1. ASSUME NEW c \in Counters
      PROVE  /\ [count |-> 1, left |-> Window] \in Counters
             /\ [count |-> c.count + 1, left |-> c.left] \in Counters
             /\ c.left > 0 => [c EXCEPT !.left = @ - 1] \in Counters
  BY AuthAssumption DEF Counters
<1>2. limits[l] \in Counters
  OBVIOUS
<1>3. ASSUME Failed(l) PROVE limits' \in [Limiters -> Counters]
  BY <1>1, <1>2, <1>3 DEF Failed
<1>4. ASSUME Reset(l) PROVE limits' \in [Limiters -> Counters]
  BY <1>4, RowPieces DEF Reset
<1>5. ASSUME Tick PROVE limits' \in [Limiters -> Counters]
  <2>1. limits' = [k \in Limiters |-> IF limits[k].left > 0
                                      THEN [limits[k] EXCEPT !.left = @ - 1] ELSE limits[k]]
    BY <1>5 DEF Tick
  <2>2. ASSUME NEW k \in Limiters
        PROVE  (IF limits[k].left > 0 THEN [limits[k] EXCEPT !.left = @ - 1] ELSE limits[k])
                 \in Counters
    BY <1>1, limits[k] \in Counters
  <2> QED
    BY <2>1, <2>2
<1> QED
  BY <1>3, <1>4, <1>5

\* The rows, the update and the start of the login keep their types.
LEMMA CredentialTypes ==
  ASSUME LoginTypes,
         \/ AuthStart \/ VerifyCurrent \/ StoreUpdate \/ StoreFails \/ KeepUpdate
         \/ \E user \in Users, currentOK, valid \in BOOLEAN : BeginUpdate(user, currentOK, valid)
  PROVE  LoginTypes'
<1>1. /\ row \in Row /\ cred \in Row /\ printed \in Stamps /\ stamp \in Stamps
      /\ authStart \in {"before", "hash", "keep", "after"}
      /\ change \in [at : {"idle", "verify", "store", "keep"}, row : Row]
  BY DEF LoginTypes, RowTypes
<1>2. UNCHANGED <<sessions, attempts, limits>>
  BY DEF AuthStart, ReadCredentials, StoreGenerated, KeepGenerated, VerifyCurrent,
         StoreUpdate, StoreFails, KeepUpdate, BeginUpdate
<1>3. SUFFICES RowTypes'
  BY <1>2 DEF LoginTypes, AttemptsTyped
<1>4. CASE ReadCredentials \/ KeepGenerated
  <2>1. row.password \in Stamps
    BY <1>1 DEF Row
  <2> QED
    BY <1>1, <1>4, <2>1 DEF ReadCredentials, KeepGenerated, RowTypes
<1>5. CASE StoreGenerated
  <2>1. stamp' \in Stamps /\ UNCHANGED <<cred, printed, change>> /\ authStart' = "keep"
        /\ row' = [user |-> row.user, password |-> stamp', must |-> TRUE, at |-> stamp']
    BY <1>1, <1>5, ReadTypes DEF StoreGenerated
  <2>2. row.user \in Users
    BY <1>1 DEF Row
  <2> QED
    BY <1>1, <2>1, <2>2 DEF Row, RowTypes
<1>6. ASSUME NEW user \in Users, NEW currentOK, NEW valid, BeginUpdate(user, currentOK, valid)
      PROVE  RowTypes'
  <2>1. UNCHANGED <<row, cred, authStart, printed>>
    BY <1>6 DEF BeginUpdate
  <2>2. CASE cred.must
    <3>1. Reads /\ change' = [at |-> "store", row |-> Update(user)]
      BY <1>6, <2>2 DEF BeginUpdate
    <3>2. stamp' \in Stamps /\ Update(user) \in Row
      BY <1>1, <3>1, ReadTypes
    <3> QED
      BY <1>1, <2>1, <3>1, <3>2, RowPieces DEF RowTypes
  <2>3. CASE ~cred.must
    <3> DEFINE r == IF currentOK /\ valid THEN [cred EXCEPT !.user = user] ELSE NoRow
    <3>1. UNCHANGED stamp /\ change' = [at |-> "verify", row |-> r]
      BY <1>6, <2>3 DEF BeginUpdate
    <3>2. [cred EXCEPT !.user = user] \in Row
      BY <1>1 DEF Row
    <3>3. r \in Row
      BY <3>2, RowPieces
    <3> HIDE DEF r
    <3> QED
      BY <1>1, <2>1, <3>1, <3>3, RowPieces DEF RowTypes
  <2> QED
    BY <2>2, <2>3
<1>7. CASE VerifyCurrent
  <2>1. UNCHANGED <<row, cred, authStart, printed>>
    BY <1>7 DEF VerifyCurrent
  <2>2. CASE change.row = NoRow
    BY <1>1, <1>7, <2>1, <2>2, RowPieces DEF VerifyCurrent, RowTypes
  <2>3. CASE change.row # NoRow
    <3>1. Reads /\ change' = [at |-> "store", row |-> Update(change.row.user)]
      BY <1>7, <2>3 DEF VerifyCurrent
    <3>2. change.row.user \in Users
      BY <1>1 DEF Row
    <3>3. stamp' \in Stamps /\ Update(change.row.user) \in Row
      BY <1>1, <3>1, <3>2, ReadTypes
    <3> QED
      BY <1>1, <2>1, <3>1, <3>3, RowPieces DEF RowTypes
  <2> QED
    BY <2>2, <2>3
<1>8. CASE StoreUpdate
  BY <1>1, <1>8 DEF StoreUpdate, RowTypes
<1>9. CASE StoreFails \/ KeepUpdate
  BY <1>1, <1>9, RowPieces DEF StoreFails, KeepUpdate, RowTypes
<1> QED
  BY <1>4, <1>5, <1>6, <1>7, <1>8, <1>9 DEF AuthStart

\* So do the sessions, the attempts and the counters.
LEMMA AttemptTypes ==
  ASSUME LoginTypes,
         \/ \E l \in Limiters :
              \/ \E s \in sessions : WithSession(l, s)
              \/ WithoutCredentials(l)
              \/ \E i \in 1 .. MaxAttempts, ok \in BOOLEAN : WithPassword(l, i, ok)
         \/ \E a \in attempts : Verified(a)
         \/ Tick
  PROVE  LoginTypes'
<1>1. /\ cred \in Row /\ sessions \subseteq [user : Users, at : Stamps]
      /\ attempts \subseteq Attempts /\ limits \in [Limiters -> Counters]
  BY DEF LoginTypes, RowTypes, AttemptsTyped
<1>2. UNCHANGED <<row, cred, authStart, printed, change, stamp>>
  BY DEF WithSession, WithoutCredentials, WithPassword, Verified, Tick
<1>3. SUFFICES AttemptsTyped'
  BY <1>2 DEF LoginTypes, RowTypes
<1>4. ASSUME NEW l \in Limiters,
             (\E s \in sessions : WithSession(l, s)) \/ WithoutCredentials(l)
      PROVE  AttemptsTyped'
  BY <1>1, <1>4, CounterTypes DEF WithSession, WithoutCredentials, AttemptsTyped
<1>5. ASSUME NEW l \in Limiters, NEW i \in 1 .. MaxAttempts, NEW ok \in BOOLEAN,
             WithPassword(l, i, ok)
      PROVE  AttemptsTyped'
  <2>1. cred.user \in Users /\ i \in Nat
    BY <1>1, AuthAssumption DEF Row
  <2>2. [id |-> i, limiter |-> l, ok |-> ok, user |-> cred.user] \in Attempts
    BY <2>1 DEF Attempts
  <2> QED
    BY <1>1, <1>5, <2>2 DEF WithPassword, AttemptsTyped
<1>6. ASSUME NEW a \in attempts, Verified(a)
      PROVE  AttemptsTyped'
  <2>1. a.limiter \in Limiters /\ a.user \in Users /\ cred.at \in Stamps
    BY <1>1 DEF Attempts, Row
  <2>2. NewSession(a.user) \in [user : Users, at : Stamps]
    BY <2>1 DEF NewSession
  <2>3. limits' \in [Limiters -> Counters]
    BY <1>1, <1>6, <2>1, CounterTypes DEF Verified
  <2> QED
    BY <1>1, <1>6, <2>2, <2>3 DEF Verified, AttemptsTyped
<1>7. CASE Tick
  <2>1. limits' \in [Limiters -> Counters]
    <3>1. PICK l \in Limiters : TRUE
      BY <1>7 DEF Tick
    <3> QED
      BY <1>1, <1>7, CounterTypes
  <2> QED
    BY <1>1, <1>7, <2>1 DEF Tick, AttemptsTyped
<1> QED
  BY <1>4, <1>5, <1>6, <1>7

\* The end of the process.
LEMMA LoseAuthTypes ==
  ASSUME LoginTypes, LoseAuth
  PROVE  LoginTypes'
<1>1. RowTypes
  BY DEF LoginTypes
<1>2. RowTypes'
  BY <1>1, RowPieces DEF LoseAuth, RowTypes
<1>3. AttemptsTyped'
  BY RowPieces DEF LoseAuth, AttemptsTyped
<1> QED
  BY <1>2, <1>3 DEF LoginTypes

\* Each part keeps its types in every step.
LEMMA PartsKeepTypes ==
  ASSUME [Next]_vars
  PROVE  /\ StartTypes => StartTypes'
         /\ PresetTypes => PresetTypes'
         /\ LoginTypes => LoginTypes'
<1>1. /\ StartStep \/ UNCHANGED startVars
      /\ PresetsStep \/ UNCHANGED presetVars
      /\ LoginStep \/ UNCHANGED authVars
  BY StepsOfParts
<1>2. ASSUME StartTypes, UNCHANGED startVars PROVE StartTypes'
  BY <1>2 DEF StartTypes, startVars
<1>3. ASSUME PresetTypes, UNCHANGED presetVars PROVE PresetTypes'
  BY <1>3 DEF PresetTypes, TypeOKPresets, presetVars
<1>4. ASSUME LoginTypes, UNCHANGED authVars PROVE LoginTypes'
  BY <1>4 DEF LoginTypes, RowTypes, AttemptsTyped, authVars
<1>5. ASSUME StartTypes PROVE StartTypes'
  BY <1>1, <1>2, <1>5, StartStepTypes
<1>6. ASSUME PresetTypes PROVE PresetTypes'
  BY <1>1, <1>3, <1>6, LoadTypes, PresetRequestTypes, PresetStepTypes DEF PresetsStep
<1>7. ASSUME LoginTypes PROVE LoginTypes'
  BY <1>1, <1>4, <1>7, CredentialTypes, AttemptTypes, LoseAuthTypes
     DEF LoginStep, AuthRequest, AuthStep, AuthFault
<1> QED
  BY <1>5, <1>6, <1>7

\* The stage and the budgets of requests and faults.
LEMMA LifeKeepsTypes ==
  ASSUME LifeTypes, [Next]_vars
  PROVE  LifeTypes'
<1>1. stage' \in Starting \cup {"down", "listening", "closing"}
  BY DEF LifeTypes, Starting, Next, Start, vars, Boot, StartConfig, StartPresets,
     StartDatabase, StartAuth, StartQueue, StartThrows, MigrationOfPresetsFails,
     ConfigRequest, InvalidConfig, PresetsAreAsked, LoginIsAsked, Works, Fails,
     TimePasses, Crash, BeginShutdown, EndShutdown, ProcessEnds
<1>2. \/ UNCHANGED cutOff
      \/ cutOff' = (cutOff \/ InTheMiddle)
      \/ cutOff' = (cutOff \/ (writes' = {} /\ configFile'.state = "part"))
  BY DEF Next, Start, vars, Boot, StartConfig, StartPresets, StartDatabase, StartAuth,
     StartQueue, StartThrows, MigrationOfPresetsFails, ConfigRequest, InvalidConfig,
     PresetsAreAsked, LoginIsAsked, Works, Fails, TimePasses, Crash, BeginShutdown,
     EndShutdown, ProcessEnds
<1>3. cutOff' \in BOOLEAN
  BY <1>2 DEF LifeTypes
<1>4. Quietly \/ Request \/ Fault
  BY DEF Next, Start, vars, Boot, StartConfig, StartPresets, StartDatabase, StartAuth,
     StartQueue, StartThrows, MigrationOfPresetsFails, ConfigRequest, InvalidConfig,
     PresetsAreAsked, LoginIsAsked, Works, Fails, TimePasses, Crash, BeginShutdown,
     EndShutdown, Quietly
<1>5. requests' \in 0 .. MaxRequests /\ faults' \in 0 .. MaxFaults
  BY <1>4, ServerAssumption DEF LifeTypes, Quietly, Request, Fault
<1> QED
  BY <1>1, <1>3, <1>5 DEF LifeTypes

TInv == StartTypes /\ PresetTypes /\ LoginTypes /\ LifeTypes

\* The first start of an installation, or of an updated one.
LEMMA InitTInv == Init => TInv
<1> SUFFICES ASSUME Init PROVE TInv
  OBVIOUS
<1>1. StartTypes
  <2>1. config = NotLoaded /\ writes = {} /\ schemaAt = "before"
    BY DEF Init, InitStart
  <2>2. CASE configFile = NoFile /\ tables = "none" /\ changed = 0 /\ recorded = 0
    BY <2>1, <2>2, FileTypes DEF StartTypes, LatestSchema
  <2>3. CASE \E v \in OldConfigs, n \in OldSchemas, s \in Settings :
               /\ configFile = File("whole", v, s)
               /\ tables = "all" /\ changed = n /\ recorded = n
    <3>1. configFile \in Files /\ tables = "all" /\ changed = recorded
          /\ changed \in OldSchemas
      BY <2>3, FileTypes, StartAssumption
    <3>2. changed \in 0 .. LatestSchema
      BY <3>1, StartAssumption DEF LatestSchema
    <3> QED
      BY <2>1, <3>1, <3>2, FileTypes DEF StartTypes
  <2> QED
    BY <2>2, <2>3 DEF Init, InitStart
<1>2. PresetTypes
  BY PresetPieces DEF Init, InitPresets, PresetTypes, TypeOKPresets, Migrations, Contents
<1>3. LoginTypes
  BY RowPieces DEF Init, InitAuth, LoginTypes, RowTypes, AttemptsTyped
<1>4. LifeTypes
  <2>1. stage = "down" /\ cutOff = FALSE /\ requests = 0 /\ faults = 0
    BY DEF Init
  <2>2. 0 \in 0 .. MaxRequests /\ 0 \in 0 .. MaxFaults
    BY ServerAssumption
  <2>3. stage \in Starting \cup {"down", "listening", "closing"} /\ cutOff \in BOOLEAN
    BY <2>1, Zenon
  <2>4. requests \in 0 .. MaxRequests
    BY <2>1, <2>2, Zenon
  <2>5. faults \in 0 .. MaxFaults
    BY <2>1, <2>2, Zenon
  <2> QED
    BY <2>3, <2>4, <2>5, Zenon DEF LifeTypes
<1> QED
  BY <1>1, <1>2, <1>3, <1>4 DEF TInv

\* The types hold in every state, for every set of settings, presets, users and
\* addresses, and any number of requests and faults.
THEOREM ServerTypes == Spec => []TypeOK
<1>1. TInv /\ [Next]_vars => TInv'
  BY PartsKeepTypes, LifeKeepsTypes DEF TInv
<1>2. TInv => TypeOK
  <2>1. ASSUME StartTypes PROVE TypeOKStart
    BY <2>1, FileTypes DEF StartTypes, TypeOKStart, Files, Writes, WholeFiles
  <2>2. ASSUME LoginTypes PROVE TypeOKAuth
    BY <2>2 DEF LoginTypes, RowTypes, AttemptsTyped, TypeOKAuth, Attempts, Counters
  <2> QED
    BY <2>1, <2>2 DEF TInv, TypeOK, LifeTypes, PresetTypes
<1> QED
  BY <1>1, <1>2, InitTInv, PTL DEF Spec

=============================================================================
