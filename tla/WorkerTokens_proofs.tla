--------------------------- MODULE WorkerTokens_proofs ---------------------------
(***************************************************************************)
(* Proofs about WorkerTokens, for any number of actions, with or without   *)
(* failures and restarts.                                                  *)
(***************************************************************************)
EXTENDS WorkerTokens, TLAPS

\* What an authentication has read is what the row says, unless it is stale.
AuthsFollowRow ==
  \A u \in auths : ~u.stale => u.token = hash /\ u.accepts = accepts

\* What an action has read is what the row says until it pauses the worker;
\* the row says that the worker is paused from then on.
ActionsFollowRow ==
  \A a \in actions : ~a.stale /\ a.kind # "create" =>
    /\ hash # 0
    /\ a.pc = "hashing" => accepts = a.accepts
    /\ a.pc = "stopping" => ~accepts

\* An action that will put the flag back puts back the one that was asked for,
\* as long as no stale one is going to put back another.
PausesRemember ==
  hash # 0 /\ ~lost /\ (\A a \in actions : a.pc = "stopping" => ~a.stale) =>
    /\ \A a \in actions : a.pc = "stopping" => a.accepts = asked
    /\ (\A a \in actions : a.pc # "stopping") => accepts = asked

\* Creations hash only.
CreationsHash == \A a \in actions : a.kind = "create" => a.pc = "hashing"

\* The next number is a new one.
NumbersAreUsed == \A a \in actions : a.id <= started

IInv ==
  /\ TypeOK
  /\ SocketFollowsRow
  /\ AuthsFollowRow
  /\ ActionsFollowRow
  /\ PausesRemember
  /\ CreationsHash
  /\ NumbersAreUsed

USE DEF Numbers, Kinds, Action, Auth, Nobody

-----------------------------------------------------------------------------
(* The helpers. *)

\* Outdated records keep everything but stale, which is TRUE.
LEMMA OutdatedActions ==
  ASSUME NEW S \in SUBSET Action
  PROVE  /\ Outdated(S) \in SUBSET Action
         /\ \A y \in Outdated(S) :
              /\ y.stale
              /\ \E x \in S : /\ y.pc = x.pc /\ y.kind = x.kind
                             /\ y.accepts = x.accepts /\ y.id = x.id
         /\ \A x \in S : \E y \in Outdated(S) : y.pc = x.pc
<1>1. ASSUME NEW x \in S
      PROVE  LET y == [x EXCEPT !.stale = TRUE]
             IN  /\ y \in Action /\ y.stale
                 /\ y.pc = x.pc /\ y.kind = x.kind
                 /\ y.accepts = x.accepts /\ y.id = x.id
  OBVIOUS
<1>2. \A y \in Outdated(S) : \E x \in S : y = [x EXCEPT !.stale = TRUE]
  BY DEF Outdated
<1>3. \A x \in S : [x EXCEPT !.stale = TRUE] \in Outdated(S)
  BY DEF Outdated
<1> HIDE DEF Action
<1>4. Outdated(S) \in SUBSET Action
  BY <1>1, <1>2
<1>5. ASSUME NEW y \in Outdated(S)
      PROVE  /\ y.stale
             /\ \E x \in S : /\ y.pc = x.pc /\ y.kind = x.kind
                            /\ y.accepts = x.accepts /\ y.id = x.id
  <2>1. PICK x \in S : y = [x EXCEPT !.stale = TRUE]
    BY <1>2
  <2> QED
    BY <1>1, <2>1
<1>6. ASSUME NEW x \in S
      PROVE  \E y \in Outdated(S) : y.pc = x.pc
  BY <1>1, <1>3
<1> QED
  BY <1>4, <1>5, <1>6

\* Outdated marks every verdict it returns.
LEMMA OutdatedAuths ==
  ASSUME NEW S \in SUBSET Auth
  PROVE  Outdated(S) \in SUBSET Auth /\ \A y \in Outdated(S) : y.stale
BY DEF Outdated

\* A connection that is given a flag is still that connection.
LEMMA WithReadType ==
  ASSUME NEW s \in Auth \union {Nobody}, NEW flag \in BOOLEAN, NEW stale \in BOOLEAN
  PROVE  /\ WithRead(s, flag, stale) \in Auth \union {Nobody}
         /\ s = Nobody => WithRead(s, flag, stale) = Nobody
         /\ s # Nobody => /\ WithRead(s, flag, stale) # Nobody
                          /\ WithRead(s, flag, stale).token = s.token
                          /\ (WithRead(s, flag, stale).stale <=> s.stale \/ stale)
                          /\ WithRead(s, flag, stale).accepts = flag
<1>1. CASE s = Nobody
  BY <1>1 DEF WithRead
<1>2. CASE s # Nobody
  <2>1. /\ s \in Auth
        /\ WithRead(s, flag, stale)
             = [token |-> s.token, accepts |-> flag, stale |-> s.stale \/ stale]
    BY <1>2 DEF WithRead
  <2>2. /\ WithRead(s, flag, stale) \in Auth
        /\ WithRead(s, flag, stale).token = s.token
        /\ (WithRead(s, flag, stale).stale <=> s.stale \/ stale)
        /\ WithRead(s, flag, stale).accepts = flag
    BY <2>1
  <2>3. Nobody \notin Auth
    BY TokensAssumption
  <2> QED
    BY <1>2, <2>2, <2>3
<1> QED
  BY <1>1, <1>2

\* The same of a flag that is not stale.
LEMMA WithFlagType ==
  ASSUME NEW s \in Auth \union {Nobody}, NEW flag \in BOOLEAN
  PROVE  /\ WithFlag(s, flag) \in Auth \union {Nobody}
         /\ s = Nobody => WithFlag(s, flag) = Nobody
         /\ s # Nobody => /\ WithFlag(s, flag) # Nobody
                          /\ WithFlag(s, flag).token = s.token
                          /\ (WithFlag(s, flag).stale <=> s.stale)
                          /\ WithFlag(s, flag).accepts = flag
<1>1. FALSE \in BOOLEAN
  OBVIOUS
<1> HIDE DEF Auth, Nobody
<1> QED
  BY <1>1, WithReadType, Zenon DEF WithFlag

\* An action that has just read the row.
LEMMA StartedType ==
  ASSUME TypeOK, MayStart, NEW kind \in Kinds, NEW pc \in {"hashing", "stopping"}
  PROVE  /\ Started(kind, pc) \in Action
         /\ Started(kind, pc).kind = kind /\ Started(kind, pc).pc = pc
         /\ Started(kind, pc).accepts = accepts /\ ~Started(kind, pc).stale
         /\ Started(kind, pc).id = started + 1
         /\ started' \in 0 .. MaxActions /\ started' = started + 1
BY TokensAssumption DEF TypeOK, MayStart, Started

-----------------------------------------------------------------------------
(* One lemma for each kind of step. *)

\* There is no row at first, and nothing has read it.
LEMMA InitHolds == Init => IInv
<1> SUFFICES ASSUME Init
             PROVE  IInv
  OBVIOUS
<1>1. TypeOK
  <2>1. 0 \in 0 .. MaxActions
    BY TokensAssumption
  <2> HIDE DEF Auth, Action, Nobody
  <2> QED
    BY <2>1 DEF Init, TypeOK
<1>2. SocketFollowsRow
  BY DEF Init, SocketFollowsRow, Connected
<1>3. AuthsFollowRow /\ ActionsFollowRow /\ CreationsHash /\ NumbersAreUsed
  BY DEF Init, AuthsFollowRow, ActionsFollowRow, CreationsHash, NumbersAreUsed
<1>4. PausesRemember
  BY DEF Init, PausesRemember
<1> QED
  BY <1>1, <1>2, <1>3, <1>4 DEF IInv

\* Steps that leave the row, what was asked, and the actions alone, and from
\* which the connection and the authentications are as current as before.
LEMMA ConnectionStep ==
  ASSUME IInv, UNCHANGED <<hash, accepts, actions, started, asked, lost>>,
         auths' \in SUBSET Auth,
         \A u \in auths' : u \in auths \/ (u.token = hash /\ u.accepts = accepts),
         socket' \in auths \union {socket, Nobody}
  PROVE  IInv'
<1>1. TypeOK'
  BY DEF IInv, TypeOK
<1>2. SocketFollowsRow'
  BY DEF IInv, SocketFollowsRow, AuthsFollowRow, Connected
<1>3. AuthsFollowRow'
  BY DEF IInv, AuthsFollowRow
<1>4. (ActionsFollowRow /\ PausesRemember /\ CreationsHash /\ NumbersAreUsed)'
  BY DEF IInv, ActionsFollowRow, PausesRemember, CreationsHash, NumbersAreUsed
<1> QED
  BY <1>1, <1>2, <1>3, <1>4 DEF IInv

\* An action that hashes joins or leaves the others; nothing else happens to
\* the row.
LEMMA HashingStep ==
  ASSUME IInv, UNCHANGED <<hash, accepts, socket, auths, asked, lost>>,
         started' \in 0 .. MaxActions,
         actions' \in SUBSET Action,
         started <= started',
         NEW a \in Action, a.pc = "hashing", a.id <= started',
         actions \ {a} \subseteq actions' /\ actions' \subseteq actions \union {a},
         a \in actions' /\ ~a.stale /\ a.kind # "create" => hash # 0 /\ accepts = a.accepts
  PROVE  IInv'
<1>1. TypeOK'
  BY DEF IInv, TypeOK
<1>2. (SocketFollowsRow /\ AuthsFollowRow)'
  BY DEF IInv, SocketFollowsRow, AuthsFollowRow, Connected
<1>3. ActionsFollowRow'
  BY DEF IInv, ActionsFollowRow
<1>4. \A b \in Action : b.pc = "stopping" => (b \in actions' <=> b \in actions)
  OBVIOUS
<1>5. PausesRemember'
  BY <1>4 DEF IInv, PausesRemember, TypeOK
<1>6. CreationsHash'
  BY DEF IInv, CreationsHash
<1>7. NumbersAreUsed'
  BY TokensAssumption DEF IInv, TypeOK, NumbersAreUsed
<1> QED
  BY <1>1, <1>2, <1>3, <1>5, <1>6, <1>7 DEF IInv

\* The row changes with the connection, and everybody else has read an old one.
LEMMA ChangingStep ==
  ASSUME IInv, NEW S \in SUBSET actions,
         actions' = Outdated(S), auths' = Outdated(auths),
         hash' \in 0 .. MaxActions, accepts' \in BOOLEAN,
         asked' \in BOOLEAN, lost' \in BOOLEAN,
         started' \in 0 .. MaxActions, started <= started',
         socket' \in Auth \union {Nobody}, SocketFollowsRow',
         hash' # 0 /\ ~lost' /\ (\A a \in S : a.pc # "stopping") => accepts' = asked'
  PROVE  IInv'
<1>1. S \in SUBSET Action /\ auths \in SUBSET Auth
  BY DEF IInv, TypeOK
<1>2. TypeOK'
  BY <1>1, OutdatedActions, OutdatedAuths DEF IInv, TypeOK
<1>3. (AuthsFollowRow /\ ActionsFollowRow)'
  BY <1>1, OutdatedActions, OutdatedAuths DEF AuthsFollowRow, ActionsFollowRow
<1>4. CreationsHash'
  BY <1>1, OutdatedActions DEF IInv, CreationsHash
<1>5. PausesRemember'
  BY <1>1, OutdatedActions DEF PausesRemember
<1>6. NumbersAreUsed'
  <2>1. \A x \in S : x.id \in Nat /\ x.id <= started
    BY <1>1, TokensAssumption DEF IInv, NumbersAreUsed
  <2>2. started \in Nat /\ started' \in Nat
    BY TokensAssumption DEF IInv, TypeOK
  <2>3. \A x \in S : x.id <= started'
    BY <2>1, <2>2
  <2> QED
    BY <1>1, <2>3, OutdatedActions DEF NumbersAreUsed
<1> QED
  BY <1>2, <1>3, <1>4, <1>5, <1>6 DEF IInv

-----------------------------------------------------------------------------
(* The actions. *)

\* A creation, a rotation or nothing at all begins to hash.
LEMMA HashingStarts ==
  ASSUME IInv, CreateStarts \/ RotateStarts
  PROVE  IInv'
<1> TypeOK
  BY DEF IInv
<1>1. CASE CreateStarts
  <2> DEFINE a == Started("create", "hashing")
  <2>1. /\ a \in Action /\ a.kind = "create" /\ a.pc = "hashing"
        /\ a.id = started + 1 /\ started' = started + 1
        /\ started' \in 0 .. MaxActions
    BY <1>1, StartedType DEF CreateStarts
  <2>2. /\ actions' = actions \union {a}
        /\ UNCHANGED <<hash, accepts, socket, auths, asked, lost>>
    BY <1>1 DEF CreateStarts, row
  <2> HIDE DEF a
  <2> QED
    BY <2>1, <2>2, HashingStep, TokensAssumption DEF TypeOK
<1>2. CASE RotateStarts
  <2> DEFINE a == Started("rotate", "hashing")
  <2>1. /\ a \in Action /\ a.accepts = accepts /\ a.pc = "hashing"
        /\ a.id = started + 1 /\ started' = started + 1
        /\ started' \in 0 .. MaxActions
    BY <1>2, StartedType DEF RotateStarts
  <2>2. /\ actions' = actions \union {a} /\ hash # 0
        /\ UNCHANGED <<hash, accepts, socket, auths, asked, lost>>
    BY <1>2 DEF RotateStarts, row
  <2> HIDE DEF a
  <2> QED
    BY <2>1, <2>2, HashingStep, TokensAssumption DEF TypeOK
<1> QED
  BY <1>1, <1>2

\* A creation that loses against another one, or fails, only ends; one that
\* inserts the row makes everything that was read before stale.
LEMMA CreationEnds ==
  ASSUME IInv, NEW a \in actions, CreateInserted(a) \/ CreateFails(a)
  PROVE  IInv'
<1>0. a \in Action /\ a.pc = "hashing" /\ a.id <= started /\ TypeOK
  BY DEF IInv, TypeOK, CreationsHash, NumbersAreUsed, CreateInserted, CreateFails
<1>1. CASE CreateInserted(a) /\ hash = 0
  <2>1. /\ hash' = a.id /\ accepts' = TRUE /\ asked' = TRUE /\ lost' = FALSE
        /\ actions' = Outdated(actions \ {a}) /\ auths' = Outdated(auths)
        /\ UNCHANGED <<socket, started>>
    BY <1>1 DEF CreateInserted, EndsChanging
  <2>2. SocketFollowsRow'
    <3>1. Connected => socket.stale
      BY <1>0, <1>1, TokensAssumption DEF IInv, SocketFollowsRow, Connected, TypeOK
    <3> QED
      BY <2>1, <3>1 DEF SocketFollowsRow, Connected
  <2>3. hash' \in 0 .. MaxActions
    BY <1>0, <2>1, TokensAssumption
  <2>4. /\ started' \in 0 .. MaxActions /\ started <= started'
    BY <1>0, <2>1, TokensAssumption DEF TypeOK
  <2>5. /\ accepts' \in BOOLEAN /\ asked' \in BOOLEAN /\ lost' \in BOOLEAN
        /\ socket' \in Auth \union {Nobody}
    <3> HIDE DEF Action, Auth, Nobody
    <3> QED
      BY <1>0, <2>1 DEF TypeOK
  <2>6. actions \ {a} \in SUBSET actions
    OBVIOUS
  <2> HIDE DEF Action, Auth, Nobody
  <2> QED
    BY <2>1, <2>2, <2>3, <2>4, <2>5, <2>6, ChangingStep
<1>2. CASE CreateFails(a) \/ (CreateInserted(a) /\ hash # 0)
  <2>1. /\ actions' = actions \ {a}
        /\ UNCHANGED <<hash, accepts, socket, auths, started, asked, lost>>
    BY <1>2 DEF CreateFails, CreateInserted, Ends, row
  <2> QED
    BY <1>0, <2>1, HashingStep, TokensAssumption DEF TypeOK
<1> QED
  BY <1>1, <1>2

\* The worker is paused by an action a that is not in progress yet, or hashing.
LEMMA PauseHolds ==
  ASSUME IInv, NEW a \in Action, Pauses(a, FALSE), started' \in 0 .. MaxActions,
         started <= started', a.id <= started', hash # 0, a.kind # "create",
         a \in actions => a.pc = "hashing",
         ~a.stale => a.accepts = accepts
  PROVE  IInv'
<1> DEFINE b == [a EXCEPT !.pc = "stopping"]
           S == actions \ {a}
<1>1. /\ b \in Action /\ b.pc = "stopping" /\ b.kind = a.kind
      /\ b.accepts = a.accepts /\ b.stale = a.stale /\ b.id = a.id
  OBVIOUS
<1>2. S \in SUBSET Action /\ auths \in SUBSET Auth /\ S \subseteq actions
  BY DEF IInv, TypeOK
<1>3. /\ accepts' = FALSE /\ socket' = WithFlag(socket, FALSE)
      /\ actions' = Outdated(S) \union {b} /\ auths' = Outdated(auths)
      /\ UNCHANGED <<hash, asked, lost>>
  BY DEF Pauses
<1> HIDE DEF b, S
<1>4. TypeOK'
  <2>1. socket \in Auth \union {Nobody} /\ socket' \in Auth \union {Nobody}
    BY <1>3, WithFlagType DEF IInv, TypeOK
  <2> QED
    BY <1>1, <1>2, <1>3, <2>1, OutdatedActions, OutdatedAuths DEF IInv, TypeOK
<1>5. SocketFollowsRow'
  <2>1. socket \in Auth \union {Nobody}
    BY DEF IInv, TypeOK
  <2> QED
    BY <1>3, <2>1, WithFlagType DEF IInv, SocketFollowsRow, Connected
<1>6. AuthsFollowRow'
  BY <1>2, <1>3, OutdatedAuths DEF AuthsFollowRow
<1>7. ActionsFollowRow'
  BY <1>1, <1>2, <1>3, OutdatedActions DEF ActionsFollowRow
<1>8. CreationsHash'
  BY <1>1, <1>2, <1>3, OutdatedActions DEF IInv, CreationsHash
<1>9. NumbersAreUsed'
  <2>1. started \in Nat /\ started' \in Nat
    BY TokensAssumption DEF IInv, TypeOK
  <2>2. \A c \in S : c.id \in Nat /\ c.id <= started
    BY <1>2, TokensAssumption DEF IInv, NumbersAreUsed, S
  <2> QED
    BY <1>1, <1>2, <1>3, <2>1, <2>2, OutdatedActions DEF NumbersAreUsed
<1>10. PausesRemember'
  <2> SUFFICES ASSUME ~lost, \A c \in actions' : c.pc = "stopping" => ~c.stale
               PROVE  \A c \in actions' : c.pc = "stopping" => c.accepts = asked
    BY <1>1, <1>3 DEF PausesRemember
  <2>1. \A c \in S : c.pc # "stopping"
    BY <1>2, <1>3, OutdatedActions
  <2>2. \A c \in actions : c.pc # "stopping"
    BY <2>1 DEF S
  <2>3. accepts = asked
    BY <2>2 DEF IInv, PausesRemember
  <2>4. b.accepts = asked
    BY <1>1, <1>3, <2>3
  <2> QED
    BY <1>2, <1>3, <2>1, <2>4, OutdatedActions
<1> QED
  BY <1>4, <1>5, <1>6, <1>7, <1>8, <1>9, <1>10 DEF IInv

\* A pause that fails gives the connection the flag that was read, which is the
\* one of the row, or stale; the connection is stale as well if the row was written.
LEMMA PauseFailsHolds ==
  ASSUME IInv, NEW a \in Action, PauseFails(a), started' \in 0 .. MaxActions,
         started <= started',
         a.kind # "create",
         a.pc = "stopping" => a \notin actions,
         ~a.stale => hash # 0 /\ a.accepts = accepts
  PROVE  IInv'
<1>0. TypeOK
  BY DEF IInv
<1>1. /\ UNCHANGED <<hash, asked>>
      /\ accepts' \in {accepts, FALSE}
      /\ socket' = WithRead(socket, a.accepts, a.stale \/ accepts' # accepts)
      /\ lost' = (lost \/ accepts' # accepts)
  BY DEF PauseFails
<1>2. (a.stale \/ accepts' # accepts) \in BOOLEAN
  OBVIOUS
<1>3. /\ socket' \in Auth \union {Nobody}
      /\ SocketFollowsRow'
  <2>1. socket \in Auth \union {Nobody} /\ a.accepts \in BOOLEAN
    BY <1>0 DEF TypeOK
  <2>2. socket' \in Auth \union {Nobody}
    <3> DEFINE stale == a.stale \/ accepts' # accepts
    <3>1. stale \in BOOLEAN /\ socket' = WithRead(socket, a.accepts, stale)
      BY <1>1
    <3> HIDE DEF Auth, Nobody, stale
    <3> QED
      BY <2>1, <3>1, WithReadType, Zenon
  <2>3. ASSUME Connected', ~socket'.stale
        PROVE  socket'.token = hash /\ socket'.accepts = accepts'
    <3>1. /\ socket # Nobody /\ socket'.token = socket.token
          /\ socket'.accepts = a.accepts
          /\ (socket'.stale <=> socket.stale \/ a.stale \/ accepts' # accepts)
      <4> DEFINE stale == a.stale \/ accepts' # accepts
      <4>1. stale \in BOOLEAN /\ socket' = WithRead(socket, a.accepts, stale)
        BY <1>1
      <4>2. socket' # Nobody /\ (stale <=> a.stale \/ accepts' # accepts)
        BY <2>3 DEF Connected
      <4> HIDE DEF Auth, Nobody, stale
      <4> QED
        BY <2>1, <4>1, <4>2, WithReadType, Zenon
    <3>2. ~socket.stale /\ ~a.stale /\ accepts' = accepts
      BY <2>3, <3>1
    <3> QED
      BY <3>1, <3>2 DEF IInv, SocketFollowsRow, Connected
  <2> QED
    BY <1>1, <2>2, <2>3 DEF SocketFollowsRow
<1>4. CASE accepts' # accepts
  <2>1. actions' = Outdated(actions \ {a}) /\ auths' = Outdated(auths)
    BY <1>4 DEF PauseFails, EndsFailing, EndsChanging, row
  <2>2. lost' = TRUE /\ accepts' \in BOOLEAN /\ hash' \in 0 .. MaxActions /\ asked' \in BOOLEAN
    BY <1>0, <1>1, <1>4 DEF TypeOK
  <2>3. actions \ {a} \in SUBSET actions
    OBVIOUS
  <2> HIDE DEF Action, Auth, Nobody
  <2> QED
    BY <1>3, <2>1, <2>2, <2>3, ChangingStep
<1>5. CASE accepts' = accepts
  <2>1. /\ actions' = actions \ {a}
        /\ UNCHANGED <<hash, accepts, auths, asked, lost>>
    BY <1>0, <1>1, <1>5 DEF TypeOK, PauseFails, EndsFailing, Ends, row
  <2>2. TypeOK'
    BY <1>0, <1>3, <2>1 DEF TypeOK
  <2>3. (AuthsFollowRow /\ ActionsFollowRow /\ CreationsHash)'
    BY <2>1 DEF IInv, AuthsFollowRow, ActionsFollowRow, CreationsHash
  <2>4. NumbersAreUsed'
    BY <1>0, <2>1, TokensAssumption DEF IInv, TypeOK, NumbersAreUsed
  <2>5. \A b \in Action : b.pc = "stopping" => (b \in actions' <=> b \in actions)
    BY <2>1
  <2>6. PausesRemember'
    BY <1>0, <2>1, <2>5 DEF IInv, PausesRemember, TypeOK
  <2> QED
    BY <1>3, <2>2, <2>3, <2>4, <2>6 DEF IInv
<1> QED
  BY <1>4, <1>5

\* A rotation that has its hash pauses the worker or fails to.
LEMMA RotatePausesHolds ==
  ASSUME IInv, NEW a \in actions, RotatePauses(a)
  PROVE  IInv'
<1>1. /\ a \in Action /\ a.kind = "rotate" /\ a.pc = "hashing"
      /\ started' \in 0 .. MaxActions /\ started <= started' /\ a.id <= started'
      /\ ~a.stale => hash # 0 /\ a.accepts = accepts
  BY TokensAssumption DEF IInv, TypeOK, ActionsFollowRow, NumbersAreUsed, RotatePauses
<1>2. (hash # 0 /\ Pauses(a, FALSE)) \/ PauseFails(a)
  BY DEF RotatePauses
<1> QED
  BY <1>1, <1>2, PauseHolds, PauseFailsHolds

\* A revocation pauses the worker as it starts, or fails to.  (Its number is
\* new: it can replace no action in progress.)
LEMMA RevokeStartsHolds ==
  ASSUME IInv, RevokeStarts
  PROVE  IInv'
<1> DEFINE a == Started("revoke", "stopping")
<1>1. /\ a \in Action /\ a.kind = "revoke" /\ a.pc = "stopping"
      /\ a.accepts = accepts /\ ~a.stale /\ started' \in 0 .. MaxActions
      /\ a.id = started + 1 /\ started' = started + 1
  BY StartedType DEF IInv, RevokeStarts
<1>2. hash # 0 /\ (Pauses(a, FALSE) \/ PauseFails(a))
  BY DEF RevokeStarts
<1> HIDE DEF a
<1>3. started \in Nat /\ a \notin actions
  BY <1>1, TokensAssumption DEF IInv, TypeOK, NumbersAreUsed
<1>4. started <= started' /\ a.id <= started'
  BY <1>1, <1>3
<1> QED
  BY <1>1, <1>2, <1>3, <1>4, PauseHolds, PauseFailsHolds

\* The end of a rotation or revocation that writes the row.
LEMMA RowWritten ==
  ASSUME IInv, NEW a \in actions, RotationWritten(a) \/ RowDeleted(a) \/ Restores(a)
  PROVE  IInv'
<1>1. a \in Action /\ a.pc = "stopping" /\ TypeOK
  BY DEF IInv, TypeOK, RotationWritten, Rotated, RowDeleted, Restores
<1>2. /\ actions' = Outdated(actions \ {a}) /\ auths' = Outdated(auths)
      /\ UNCHANGED <<started, asked>>
  BY DEF RotationWritten, Rotated, RowDeleted, Restores, EndsChanging
<1>3. /\ hash' \in 0 .. MaxActions /\ accepts' \in BOOLEAN /\ lost' \in BOOLEAN
      /\ socket' \in Auth \union {Nobody}
  <2>1. a.id \in 0 .. MaxActions /\ 0 \in 0 .. MaxActions
        /\ a.accepts \in BOOLEAN /\ a.stale \in BOOLEAN
    BY <1>1, TokensAssumption
  <2>2. WithRead(socket, a.accepts, hash' # hash) \in Auth \union {Nobody}
    BY <1>1, <2>1, WithReadType DEF TypeOK
  <2> HIDE DEF Auth, Action, Nobody
  <2> QED
    BY <1>1, <2>1, <2>2
       DEF TypeOK, RotationWritten, Rotated, RowDeleted, Restores, HashAfterFailure
<1>4. SocketFollowsRow'
  <2>1. CASE RotationWritten(a) \/ RowDeleted(a)
    BY <2>1 DEF RotationWritten, Rotated, RowDeleted, SocketFollowsRow, Connected
  <2>2. CASE Restores(a)
    <3>1. /\ socket \in Auth \union {Nobody} /\ a.accepts \in BOOLEAN
          /\ accepts' = a.accepts
          /\ socket' = WithRead(socket, a.accepts, hash' # hash)
      BY <1>1, <2>2 DEF TypeOK, Restores
    <3>2. ASSUME Connected', ~socket'.stale
          PROVE  socket'.token = hash' /\ socket'.accepts = accepts'
      <4>1. /\ socket # Nobody /\ socket'.token = socket.token
            /\ socket'.accepts = a.accepts
            /\ (socket'.stale <=> socket.stale \/ hash' # hash)
        <5>1. (hash' # hash) \in BOOLEAN
          OBVIOUS
        <5> HIDE DEF Auth, Nobody
        <5> QED
          BY <3>1, <3>2, <5>1, WithReadType, Zenon DEF Connected
      <4>2. ~socket.stale /\ hash' = hash
        BY <3>2, <4>1
      <4> QED
        BY <3>1, <4>1, <4>2 DEF IInv, SocketFollowsRow, Connected
    <3> QED
      BY <3>2 DEF SocketFollowsRow
  <2> QED
    BY <2>1, <2>2
<1>5. ASSUME hash' # 0, ~lost', \A b \in actions \ {a} : b.pc # "stopping"
      PROVE  accepts' = asked'
  <2>1. /\ accepts' = a.accepts /\ ~lost /\ ~a.stale /\ hash # 0
    BY <1>5 DEF RotationWritten, Rotated, RowDeleted, Restores
  <2>2. a.accepts = asked
    BY <1>1, <1>5, <2>1 DEF IInv, PausesRemember
  <2> QED
    BY <1>2, <2>1, <2>2
<1> QED
  BY <1>1, <1>2, <1>3, <1>4, <1>5, ChangingStep, TokensAssumption DEF TypeOK

\* An action that ends without the flag it found, and says so.
LEMMA RestoreFailsHolds ==
  ASSUME IInv, NEW a \in actions, RestoreFails(a)
  PROVE  IInv'
<1>0. a \in Action /\ TypeOK
  BY DEF IInv, TypeOK
<1>1. /\ UNCHANGED <<started, asked>> /\ socket' = Nobody /\ lost' = TRUE
  BY DEF RestoreFails
<1>2. CASE UNCHANGED row
  <2>1. UNCHANGED <<hash, accepts, auths>> /\ actions' = actions \ {a}
    BY <1>2 DEF RestoreFails, EndsFailing, Ends, row
  <2> QED
    BY <1>1, <2>1 DEF IInv, TypeOK, SocketFollowsRow, AuthsFollowRow, ActionsFollowRow,
                      PausesRemember, CreationsHash, NumbersAreUsed, Connected
<1>3. CASE ~UNCHANGED row
  <2>1. actions' = Outdated(actions \ {a}) /\ auths' = Outdated(auths)
    BY <1>3 DEF RestoreFails, EndsFailing, EndsChanging
  <2>2. hash' \in 0 .. MaxActions /\ accepts' \in BOOLEAN
    <3>1. a.id \in 0 .. MaxActions /\ a.accepts \in BOOLEAN
      BY <1>0, TokensAssumption
    <3>2. hash \in 0 .. MaxActions /\ accepts \in BOOLEAN
      BY <1>0 DEF TypeOK
    <3> HIDE DEF Action
    <3> QED
      BY <3>1, <3>2 DEF RestoreFails, HashAfterFailure, row
  <2>3. SocketFollowsRow'
    BY <1>1 DEF SocketFollowsRow, Connected
  <2>4. asked' \in BOOLEAN /\ started' \in 0 .. MaxActions /\ started <= started'
    BY <1>0, <1>1, TokensAssumption DEF TypeOK
  <2>5. actions \ {a} \in SUBSET actions
    OBVIOUS
  <2> HIDE DEF Action, Auth, Nobody
  <2> QED
    BY <1>1, <2>1, <2>2, <2>3, <2>4, <2>5, ChangingStep
<1> QED
  BY <1>2, <1>3

\* A flag that is set reaches the row and the connection.
LEMMA EnabledHolds ==
  ASSUME IInv, NEW flag \in BOOLEAN, SetWorkerEnabled(flag)
  PROVE  IInv'
<1>1. socket \in Auth \union {Nobody} /\ socket' = WithFlag(socket, flag)
  BY DEF IInv, TypeOK, SetWorkerEnabled
<1>2. SocketFollowsRow' /\ socket' \in Auth \union {Nobody}
  BY <1>1, WithFlagType DEF IInv, SocketFollowsRow, SetWorkerEnabled, Connected
<1>3. started' \in 0 .. MaxActions /\ started <= started'
  BY TokensAssumption DEF IInv, TypeOK, SetWorkerEnabled
<1> QED
  BY <1>2, <1>3, ChangingStep DEF IInv, TypeOK, SetWorkerEnabled

\* A flag that reaches the row only leaves a stale connection.
LEMMA EnablingFailsHolds ==
  ASSUME IInv, NEW flag \in BOOLEAN, SetWorkerEnabledFails(flag)
  PROVE  IInv'
<1>1. /\ socket \in Auth \union {Nobody} /\ socket.accepts \in BOOLEAN
      /\ socket' = WithRead(socket, socket.accepts, TRUE)
  <2>1. socket \in Auth \union {Nobody}
    BY DEF IInv, TypeOK
  <2>2. CASE socket = Nobody
    <3>1. socket.accepts = FALSE
      BY <2>2
    <3> QED
      BY <2>1, <3>1 DEF SetWorkerEnabledFails
  <2>3. CASE socket \in Auth
    BY <2>1, <2>3 DEF SetWorkerEnabledFails
  <2> QED
    BY <2>1, <2>2, <2>3
<1>2. /\ socket' \in Auth \union {Nobody}
      /\ socket' # Nobody => socket'.stale
  <2>1. TRUE \in BOOLEAN
    OBVIOUS
  <2> HIDE DEF Auth, Nobody
  <2> QED
    <3>1. socket' \in Auth \union {Nobody}
      BY <1>1, <2>1, WithReadType, Zenon
    <3>2. socket' # Nobody => (socket'.stale <=> socket.stale \/ TRUE)
      BY <1>1, <2>1, WithReadType, Zenon
    <3> QED
      BY <3>1, <3>2
<1>3. SocketFollowsRow'
  BY <1>2 DEF SocketFollowsRow, Connected
<1>4. started' \in 0 .. MaxActions /\ started <= started'
  BY TokensAssumption DEF IInv, TypeOK, SetWorkerEnabledFails
<1> QED
  BY <1>2, <1>3, <1>4, ChangingStep DEF IInv, TypeOK, SetWorkerEnabledFails

\* Authentications read the row, and end as a connection or not.
LEMMA ConnectionsHold ==
  ASSUME IInv,
         \/ AuthStarts
         \/ \E u \in auths : AuthEnds(u) \/ AuthFails(u)
         \/ Disconnects
  PROVE  IInv'
<1>0. TypeOK
  BY DEF IInv
<1>1. CASE AuthStarts
  <2>1. [token |-> hash, accepts |-> accepts, stale |-> FALSE] \in Auth
    BY <1>0, <1>1 DEF TypeOK, AuthStarts
  <2>2. /\ UNCHANGED <<hash, accepts, actions, started, asked, lost>> /\ socket' = socket
        /\ auths' = auths \union {[token |-> hash, accepts |-> accepts, stale |-> FALSE]}
    BY <1>1 DEF AuthStarts, row
  <2>3. auths' \in SUBSET Auth
    BY <1>0, <2>1, <2>2 DEF TypeOK
  <2>4. \A u \in auths' : u \in auths \/ (u.token = hash /\ u.accepts = accepts)
    BY <2>2
  <2> QED
    BY <2>2, <2>3, <2>4, ConnectionStep
<1>2. ASSUME NEW u \in auths, AuthEnds(u) \/ AuthFails(u)
      PROVE  IInv'
  BY <1>0, <1>2, ConnectionStep DEF TypeOK, AuthEnds, AuthFails, row
<1>3. CASE Disconnects
  BY <1>0, <1>3, ConnectionStep DEF TypeOK, Disconnects, row
<1> QED
  BY <1>1, <1>2, <1>3

\* Nothing but the row survives; a pause that was cut off is recorded as lost.
LEMMA RestartHolds ==
  ASSUME IInv, Restart
  PROVE  IInv'
<1>1. /\ UNCHANGED <<hash, accepts, started, asked>>
      /\ socket' = Nobody /\ auths' = {} /\ actions' = {}
      /\ lost' = (lost \/ \E a \in actions : a.pc = "stopping")
  BY DEF Restart, row
<1>2. TypeOK'
  BY <1>1 DEF IInv, TypeOK
<1>3. PausesRemember'
  BY <1>1 DEF IInv, PausesRemember
<1>4. (SocketFollowsRow /\ AuthsFollowRow /\ ActionsFollowRow /\ CreationsHash /\ NumbersAreUsed)'
  BY <1>1 DEF SocketFollowsRow, AuthsFollowRow, ActionsFollowRow, CreationsHash,
              NumbersAreUsed, Connected
<1> QED
  BY <1>2, <1>3, <1>4 DEF IInv

-----------------------------------------------------------------------------
(* The theorems. *)

\* The inductive invariant holds in every reachable state.
LEMMA Invariance == Spec => []IInv
<1>1. ASSUME IInv, Next
      PROVE  IInv'
  <2>1. CASE CreateStarts \/ RotateStarts
    BY <1>1, <2>1, HashingStarts
  <2>2. CASE RevokeStarts
    BY <1>1, <2>2, RevokeStartsHolds
  <2>3. ASSUME NEW a \in actions, ActionNext(a)
        PROVE  IInv'
    BY <1>1, <2>3, CreationEnds, RotatePausesHolds, RowWritten, RestoreFailsHolds
       DEF ActionNext
  <2>4. ASSUME NEW flag \in BOOLEAN, SetWorkerEnabled(flag) \/ SetWorkerEnabledFails(flag)
        PROVE  IInv'
    BY <1>1, <2>4, EnabledHolds, EnablingFailsHolds
  <2>5. CASE AuthStarts \/ (\E u \in auths : AuthEnds(u) \/ AuthFails(u)) \/ Disconnects
    BY <1>1, <2>5, ConnectionsHold
  <2>6. CASE Restart
    BY <1>1, <2>6, RestartHolds
  <2> QED
    BY <1>1, <2>1, <2>2, <2>3, <2>4, <2>5, <2>6 DEF Next
<1>2. ASSUME IInv, UNCHANGED vars
      PROVE  IInv'
  BY <1>2 DEF vars, row, IInv, TypeOK, SocketFollowsRow, AuthsFollowRow, ActionsFollowRow,
              PausesRemember, CreationsHash, NumbersAreUsed, Connected
<1> QED
  BY InitHolds, <1>1, <1>2, PTL DEF Spec

\* The row, the connection and what is in progress keep their types.
THEOREM TokenTypesHold == Spec => []TypeOK
<1>1. IInv => TypeOK
  BY DEF IInv
<1> QED
  BY Invariance, <1>1, PTL

\* A connection has the token and the flag of the row, unless it comes from a
\* read of the row that was overtaken by a change, or the row was changed by a
\* statement that was taken for failed because it could not be read again.
THEOREM SocketsFollowTheRow == Spec => []SocketFollowsRow
<1>1. IInv => SocketFollowsRow
  BY DEF IInv
<1> QED
  BY Invariance, <1>1, PTL

\* Rotations and failed revocations put the flag back that was asked for, unless
\* they overlap with a change, a statement that wrote the row was taken for
\* failed, the restore fails, or the process ends.
THEOREM FlagIsPutBack == Spec => []FlagIsAsAsked
<1>1. IInv => FlagIsAsAsked
  BY DEF IInv, PausesRemember, FlagIsAsAsked
<1> QED
  BY Invariance, <1>1, PTL

\* A worker that is paused for its token gets no job, even if it connects again.
THEOREM PausedWorkersGetNoJob == Spec => []PausedWorkerGetsNoJob
<1>1. IInv => PausedWorkerGetsNoJob
  BY DEF IInv, CreationsHash, ActionsFollowRow, SocketFollowsRow, PausedWorkerGetsNoJob
<1> QED
  BY Invariance, <1>1, PTL
==================================================================================
