----------------------------- MODULE Watchers_proofs -----------------------------
(***************************************************************************)
(* Theorems about Watchers, for every number of watchers, files, presets   *)
(* and events: the types, that the listeners are those of the table, that  *)
(* only registrations that have a file in hand at once make two jobs of    *)
(* it, and that a job is made of a file that has been quiet.               *)
(***************************************************************************)
EXTENDS Watchers, TLAPS, WellFoundedInduction, FiniteSetTheorems, SequenceTheorems

-----------------------------------------------------------------------------
(* The inductive invariant. *)

RuntimeRecords ==
  [id : WatcherIDs, preset : Presets, open : BOOLEAN, scanned : BOOLEAN, known : SUBSET Files]
JobRecords ==
  [file : Files, preset : Presets, out : Names, by : Runtimes, seen : 0 .. MaxJobs,
   stage : {"Waiting", "Active", "Finished", "Stopped", "Absent"}]

RuntimesOK == runtimes \in Seq(RuntimeRecords) /\ Len(runtimes) <= MaxRuntimes

\* The tables; the key of a watcher that is not made yet is unused.
TablesOK ==
  /\ running \in BOOLEAN /\ overlap \in BOOLEAN /\ asked \in Nat
  /\ nextID \in 1 .. NWatchers + 1
  /\ row \in [WatcherIDs -> Presets \union {NoRow}]
  /\ table \in [WatcherIDs -> 0 .. Len(runtimes)]
  /\ \A w \in WatcherIDs : w >= nextID => row[w] = NoRow /\ table[w] = 0

PipesOK == pipe \in [Runtimes -> [Files -> Pipes]]
FilesOK == files \in [Files -> [there : BOOLEAN, size : Nat, mtime : Nat]]

\* The queue; a file of the output folder comes of a job.
QueueOK ==
  /\ queueRuns \in BOOLEAN
  /\ jobs \in Seq(JobRecords) /\ Len(jobs) <= MaxJobs
  /\ disk \subseteq Names
  /\ \A n \in disk : \E j \in DOMAIN jobs : jobs[j].out = n

SweepsOK ==
  \A sw \in sweeps : DOMAIN sw.todo \subseteq DOMAIN jobs /\ sw.stopping \in 0 .. Len(jobs)

Kinds == [check |-> {"add", "update"}, close |-> {"update", "rules", "remove"},
          register |-> {"add", "update", "rules"}]

\* What a request carries: a preset from the start, or else from its row; the key
\* of a watcher from the start, or else once its row is inserted.
Carries(q, next) ==
  /\ q = [kind |-> q.kind, id |-> q.id, preset |-> q.preset, at |-> q.at]
  /\ q.kind \in {"add", "update", "rules", "remove"}
  /\ q.kind \in {"add", "update"} \/ q.at = "register" => q.preset \in Presets
  /\ q.kind # "add" \/ q.at # "check" => q.id \in WatcherIDs /\ q.id < next

\* The awaits that each kind of request may be in.
Handled(q, next) ==
  /\ Carries(q, next)
  /\ q.at \in {"check", "close", "register"}
  /\ q.kind \in Kinds[q.at]

RequestsAreHandled == \A q \in requests : Handled(q, nextID)

\* One that listens is the one of the table, with the preset of its row; a request
\* past the close of the old one has left no listener of its watcher.
NoListener(w) == \A r \in DOMAIN runtimes : runtimes[r].open => runtimes[r].id # w
TableMatches ==
  \A r \in DOMAIN runtimes :
    runtimes[r].open => table[runtimes[r].id] = r /\ row[runtimes[r].id] = runtimes[r].preset
RequestsMatch ==
  \A q \in requests :
    q.at # "check" => NoListener(q.id) /\ (q.at = "register" => row[q.id] = q.preset)
Matched == TableMatches /\ RequestsMatch /\ \A q, p \in requests : q = p

Listeners ==
  /\ ~running => requests = {} /\ \A r \in DOMAIN runtimes : ~runtimes[r].open
  /\ running /\ ~overlap => Matched

\* A job has the preset of the runtime that made it; past the search for a match
\* the jobs for the file with its preset came later, and from other runtimes.
JobsHaveMakers ==
  /\ \A j \in DOMAIN jobs : /\ jobs[j].by \in DOMAIN runtimes
                            /\ jobs[j].preset = runtimes[jobs[j].by].preset
  /\ \A r \in Runtimes, f \in Files : pipe[r][f].at # "none" => r \in DOMAIN runtimes
NoMatch(p, r, f) ==
  /\ p.seen <= Len(jobs)
  /\ \A j \in Present :
       jobs[j].file = f /\ jobs[j].preset = runtimes[r].preset => p.seen < j /\ jobs[j].by # r
NoJobYet ==
  \A r \in Runtimes, f \in Files :
    pipe[r][f].at \in {"name", "add"} => NoMatch(pipe[r][f], r, f)

\* As long as the file has the statistics of the last stat it has been quiet since
\* then; a change makes them differ for good.
Watched(p, file) ==
  /\ p.stats[1] <= file.size /\ p.stats[2] <= file.mtime
  /\ p.stats = <<file.size, file.mtime>> => p.quiet >= p.age
  /\ p.part => p.at = "sleep" /\ p.stats # <<file.size, file.mtime>>
PollsAreTrue ==
  \A r \in Runtimes, f \in Files :
    pipe[r][f].at \in {"stat", "sleep"} => Watched(pipe[r][f], files[f])

WatcherSide ==
  RuntimesOK /\ TablesOK /\ RequestsAreHandled /\ PipesOK /\ SweepsOK /\ Listeners
FileSide ==
  /\ FilesOK /\ QueueOK /\ JobsHaveMakers /\ NoJobYet /\ DuplicatesOverlap
  /\ PollsAreTrue
IInv == WatcherSide /\ FileSide

-----------------------------------------------------------------------------
(* Data: least elements, the free name, the sequence of a set, sequences of *)
(* records with one of them changed.                                        *)

\* Every set of natural numbers that is not empty has a least element.
LEMMA LeastNatural ==
  ASSUME NEW S \in SUBSET Nat, S # {}
  PROVE  \E n \in S : \A m \in S : n <= m
<1>1. PICK n \in S : \A m \in S : ~(<<m, n>> \in OpToRel(<, Nat))
  <2> HIDE DEF OpToRel
  <2> QED
    BY NatLessThanWellFounded, WFMin
<1>2. \A m \in S : m < n => <<m, n>> \in OpToRel(<, Nat)
  BY DEF OpToRel
<1>3. \A m \in S : ~(m < n)
  BY <1>1, <1>2
<1>4. n \in Nat /\ \A m \in S : m \in Nat
  OBVIOUS
<1> QED
  BY <1>3, <1>4

\* Min picks an element of a set of numbers that is not empty.
LEMMA MinIsMember ==
  ASSUME NEW S \in SUBSET Nat, S # {}
  PROVE  Min(S) \in S
<1>1. \E n \in S : \A m \in S : n <= m
  BY LeastNatural
<1> QED
  BY <1>1 DEF Min

\* The capped count of polls.
LEMMA MinOfTwo ==
  ASSUME NEW a \in Nat, NEW b \in Nat
  PROVE  /\ a <= b => Min({a, b}) = a
         /\ b <= a => Min({a, b}) = b
<1>1. {a, b} \in SUBSET Nat /\ {a, b} # {}
  OBVIOUS
<1>2. \E n \in {a, b} : \A m \in {a, b} : n <= m
  BY <1>1, LeastNatural
<1>3. Min({a, b}) \in {a, b} /\ \A m \in {a, b} : Min({a, b}) <= m
  BY <1>2 DEF Min
<1> QED
  BY <1>3

\* The sizes of the intervals of names and of jobs.
LEMMA IntervalSizes ==
  ASSUME NEW n \in Nat
  PROVE  /\ IsFiniteSet(0 .. n) /\ Cardinality(0 .. n) = n + 1
         /\ IsFiniteSet(1 .. n) /\ Cardinality(1 .. n) = n
<1>1. IsFiniteSet(0 .. n) /\ Cardinality(0 .. n) = IF 0 > n THEN 0 ELSE n - 0 + 1
  BY FS_Interval
<1>2. IsFiniteSet(1 .. n) /\ Cardinality(1 .. n) = IF 1 > n THEN 0 ELSE n - 1 + 1
  BY FS_Interval
<1> QED
  BY <1>1, <1>2

\* CheckFilenameCollision always finds a name: there are more names than jobs.
LEMMA NameIsFree ==
  ASSUME QueueOK
  PROVE  FreeName \in Names
<1>0. MaxJobs \in Nat
  BY WatchersAssumption DEF WatchersAssumption
<1>1. \A n \in TakenNames : \E j \in DOMAIN jobs : jobs[j].out = n
  BY DEF TakenNames, QueueOK, Present
<1>2. Names \ TakenNames # {}
  <2> SUFFICES ASSUME Names \subseteq TakenNames PROVE FALSE
    OBVIOUS
  <2> DEFINE f == [n \in Names |-> CHOOSE j \in DOMAIN jobs : jobs[j].out = n]
  <2>1. \A n \in Names : f[n] \in DOMAIN jobs /\ jobs[f[n]].out = n
    BY <1>1
  <2>2. f \in [Names -> DOMAIN jobs]
    BY <2>1
  <2> HIDE DEF f
  <2>3. Len(jobs) \in Nat /\ DOMAIN jobs = 1 .. Len(jobs) /\ Len(jobs) <= MaxJobs
    BY DEF QueueOK
  <2>4. IsFiniteSet(Names) /\ Cardinality(Names) = MaxJobs + 1
    BY <1>0, IntervalSizes DEF Names
  <2>5. IsFiniteSet(1 .. Len(jobs)) /\ Cardinality(1 .. Len(jobs)) = Len(jobs)
    BY <2>3, IntervalSizes
  <2>6. IsFiniteSet(DOMAIN jobs) /\ Cardinality(DOMAIN jobs) < Cardinality(Names)
    BY <1>0, <2>3, <2>4, <2>5
  <2>7. \E x, y \in Names : x # y /\ f[x] = f[y]
    BY <2>2, <2>4, <2>6, FS_PigeonHole
  <2> QED
    BY <2>1, <2>7
<1>3. Names \ TakenNames \in SUBSET Nat
  BY <1>0 DEF Names
<1> QED
  BY <1>2, <1>3, MinIsMember DEF FreeName

\* SetToSeq lists every member of a finite set once.
LEMMA SequenceOfSet ==
  ASSUME NEW S, IsFiniteSet(S)
  PROVE  /\ Cardinality(S) \in Nat
         /\ SetToSeq(S) \in [1 .. Cardinality(S) -> S]
         /\ \A i, j \in 1 .. Cardinality(S) : SetToSeq(S)[i] = SetToSeq(S)[j] => i = j
         /\ \A x \in S : \E i \in 1 .. Cardinality(S) : SetToSeq(S)[i] = x
<1> DEFINE n == Cardinality(S)
           g == SetToSeq(S)
<1>1. n \in Nat /\ ExistsBijection(1 .. n, S)
  BY FS_CardinalityType
<1>2. PICK b \in [1 .. n -> S] : \A i, j \in 1 .. n : b[i] = b[j] => i = j
  BY <1>1 DEF ExistsBijection, Bijection, Injection, IsInjective
<1>3. IsInjective(b)
  BY <1>2 DEF IsInjective
<1>4. g \in [1 .. n -> S] /\ IsInjective(g)
  BY <1>2, <1>3 DEF SetToSeq
<1>5. \A i, j \in 1 .. n : g[i] = g[j] => i = j
  BY <1>4 DEF IsInjective
<1> HIDE DEF g
<1>6. g \in Injection(1 .. n, S)
  BY <1>4, <1>5 DEF Injection
<1>7. IsFiniteSet(1 .. n) /\ Cardinality(1 .. n) = n
  BY <1>1, IntervalSizes
<1>8. g \in Surjection(1 .. n, S)
  BY <1>6, <1>7, FS_Injection
<1>9. \A x \in S : \E i \in 1 .. n : g[i] = x
  BY <1>8 DEF Surjection
<1> QED
  BY <1>1, <1>4, <1>5, <1>9 DEF g

\* A file that is not pending has the type of one that is.
LEMMA IdleType == Idle \in Pipes
BY WatchersAssumption DEF Idle, Pipes, Names, WatchersAssumption

\* One element of a sequence changes.
LEMMA ElementChanges ==
  ASSUME NEW T, NEW s \in Seq(T), NEW i \in DOMAIN s, NEW x \in T
  PROVE  /\ [s EXCEPT ![i] = x] \in Seq(T)
         /\ Len([s EXCEPT ![i] = x]) = Len(s)
         /\ DOMAIN [s EXCEPT ![i] = x] = DOMAIN s
<1>1. i \in 1 .. Len(s)
  OBVIOUS
<1> QED
  BY <1>1, ExceptSeq

-----------------------------------------------------------------------------
(* Requests.  The files and the queue stay; a pending file is at most given *)
(* up, and no maker of a job changes.                                       *)

MakersStay ==
  \A r \in DOMAIN runtimes :
    /\ r \in DOMAIN runtimes'
    /\ runtimes'[r].id = runtimes[r].id /\ runtimes'[r].preset = runtimes[r].preset
FilesLeftAlone ==
  /\ UNCHANGED <<files, disk, jobs, queueRuns>>
  /\ \A r \in Runtimes, f \in Files : pipe'[r][f] \in {pipe[r][f], Idle}
  /\ MakersStay

\* The start of the step that handles q: what Arrives or Resumes says.
InHand(q) ==
  /\ running /\ Carries(q, nextID)
  /\ overlap' \in BOOLEAN /\ asked' \in Nat
  /\ UNCHANGED <<files, queueVars>>
  /\ ~overlap' => /\ TableMatches /\ requests \subseteq {q}
                  /\ q.at # "check" => NoListener(q.id)
RowWritten ==
  /\ row' \in [WatcherIDs -> Presets \union {NoRow}]
  /\ \A w \in WatcherIDs : w >= nextID => row'[w] = NoRow
Kept == WatcherSide' /\ FilesLeftAlone

\* What is said of jobs and files holds as long as they are left alone.
LEMMA FileSideStays ==
  ASSUME FileSide, RuntimesOK, FilesLeftAlone
  PROVE  FileSide'
<1>1. FilesOK' /\ QueueOK'
  BY DEF FileSide, FilesOK, QueueOK, FilesLeftAlone
<1>2. JobsHaveMakers'
  BY DEF FileSide, FilesLeftAlone, MakersStay, JobsHaveMakers, Idle
<1>3. NoJobYet'
  <2>1. /\ UNCHANGED jobs /\ MakersStay
        /\ \A r \in Runtimes, f \in Files : pipe'[r][f] \in {pipe[r][f], Idle}
    BY DEF FilesLeftAlone
  <2>2. ASSUME NEW r \in Runtimes, NEW f \in Files, pipe'[r][f].at \in {"name", "add"}
        PROVE  NoMatch(pipe[r][f], r, f)' /\ pipe'[r][f] = pipe[r][f]
    <3>1. pipe'[r][f] = pipe[r][f] /\ r \in DOMAIN runtimes
      BY <2>1, <2>2 DEF Idle, FileSide, JobsHaveMakers
    <3>2. NoMatch(pipe[r][f], r, f) /\ runtimes'[r].preset = runtimes[r].preset
      BY <2>1, <2>2, <3>1 DEF FileSide, NoJobYet, MakersStay
    <3> QED
      BY <2>1, <3>1, <3>2 DEF NoMatch, Present
  <2> QED
    BY <2>2 DEF NoJobYet
<1>4. DuplicatesOverlap'
  BY DEF FileSide, FilesLeftAlone, DuplicatesOverlap, Present
<1>5. PollsAreTrue'
  BY DEF FileSide, FilesLeftAlone, PollsAreTrue, Idle, Watched
<1> QED
  BY <1>1, <1>2, <1>3, <1>4, <1>5 DEF FileSide

\* A closed runtime is a runtime.
LEMMA ClosingType ==
  ASSUME NEW rt \in RuntimeRecords
  PROVE  /\ Closing(rt) \in RuntimeRecords
         /\ Closing(rt).id = rt.id /\ Closing(rt).preset = rt.preset /\ ~Closing(rt).open
BY DEF Closing, RuntimeRecords

\* An exception that nobody catches closes everything.
LEMMA ThrowsKeeps ==
  ASSUME WatcherSide, Throws, UNCHANGED <<nextID, files, queueVars>>, RowWritten,
         overlap' \in BOOLEAN, asked' \in Nat
  PROVE  Kept
<1>0. /\ running' = FALSE /\ table' = [w \in WatcherIDs |-> 0]
      /\ runtimes' = [r \in DOMAIN runtimes |-> Closing(runtimes[r])]
      /\ pipe' = NoPipes /\ sweeps' = {} /\ requests' = {}
  BY DEF Throws
<1>1. /\ runtimes' \in Seq(RuntimeRecords) /\ Len(runtimes') = Len(runtimes)
      /\ DOMAIN runtimes' = DOMAIN runtimes
      /\ \A r \in DOMAIN runtimes : runtimes'[r] = Closing(runtimes[r])
  BY <1>0, ClosingType DEF WatcherSide, RuntimesOK
<1>2. RuntimesOK'
  BY <1>1 DEF WatcherSide, RuntimesOK
<1>3. TablesOK'
  <2>1. Len(runtimes') \in Nat
    BY <1>2 DEF RuntimesOK
  <2>2. table' \in [WatcherIDs -> 0 .. Len(runtimes')]
    BY <1>0, <2>1
  <2> QED
    BY <1>0, <2>2 DEF WatcherSide, TablesOK, RowWritten
<1>4. RequestsAreHandled' /\ SweepsOK'
  BY <1>0 DEF RequestsAreHandled, SweepsOK
<1>5. PipesOK'
  <2>1. pipe' \in [Runtimes -> [Files -> Pipes]]
    BY <1>0, IdleType DEF NoPipes
  <2> QED
    BY <2>1 DEF PipesOK
<1>6. \A r \in DOMAIN runtimes : runtimes[r] \in RuntimeRecords
  BY DEF WatcherSide, RuntimesOK
<1>7. Listeners'
  BY <1>0, <1>1, <1>6, ClosingType DEF Listeners
<1>8. MakersStay
  BY <1>1, <1>6, ClosingType DEF MakersStay
<1>9. FilesLeftAlone
  BY <1>0, <1>8 DEF FilesLeftAlone, NoPipes, queueVars
<1> QED
  BY <1>2, <1>3, <1>4, <1>5, <1>7, <1>9 DEF Kept, WatcherSide

\* A request as a record of its parts, and at its next await.
Asked(k, i, s, b) == [kind |-> k, id |-> i, preset |-> s, at |-> b]
MovedTo(q, p, a) == [q EXCEPT !.preset = p, !.at = a]
Inserted(q, w, a) == [q EXCEPT !.id = w, !.at = a]
LEMMA RequestMoves ==
  ASSUME NEW q, NEW n, Carries(q, n), NEW p, NEW a
  PROVE  /\ MovedTo(q, p, a) = Asked(q.kind, q.id, p, a)
         /\ Inserted(q, p, a) = Asked(q.kind, p, q.preset, a)
<1>1. PICK k, i, s, b : q = Asked(k, i, s, b)
  BY DEF Carries, Asked
<1>2. q.kind = k /\ q.id = i /\ q.preset = s
  BY <1>1 DEF Asked
<1>3. [Asked(k, i, s, b) EXCEPT !.preset = p] = Asked(k, i, p, b)
  BY DEF Asked
<1>4. [Asked(k, i, p, b) EXCEPT !.at = a] = Asked(k, i, p, a)
  BY DEF Asked
<1>5. [Asked(k, i, s, b) EXCEPT !.id = p] = Asked(k, p, s, b)
  BY DEF Asked
<1>6. [Asked(k, p, s, b) EXCEPT !.at = a] = Asked(k, p, s, a)
  BY DEF Asked
<1> QED
  BY <1>1, <1>2, <1>3, <1>4, <1>5, <1>6, Zenon DEF MovedTo, Inserted

\* The request at its next await is handled there.
LEMMA MovedIsHandled ==
  ASSUME NEW k, NEW i, NEW s, NEW b, NEW n,
         i \in WatcherIDs, i < n, k \in {"add", "update", "rules", "remove"},
         k \in {"add", "update"} \/ b = "register" => s \in Presets,
         b \in {"close", "register"}, k \in Kinds[b]
  PROVE  /\ Handled(Asked(k, i, s, b), n)
         /\ Asked(k, i, s, b).kind = k /\ Asked(k, i, s, b).id = i
         /\ Asked(k, i, s, b).preset = s /\ Asked(k, i, s, b).at = b
<1>1. /\ Asked(k, i, s, b).kind = k /\ Asked(k, i, s, b).id = i
      /\ Asked(k, i, s, b).preset = s /\ Asked(k, i, s, b).at = b
  BY DEF Asked
<1> DEFINE x == Asked(k, i, s, b)
<1>2. x = [kind |-> x.kind, id |-> x.id, preset |-> x.preset, at |-> x.at]
  BY <1>1 DEF Asked
<1> HIDE DEF x
<1>3. Handled(x, n)
  <2>1. x.kind = k /\ x.id = i /\ x.preset = s /\ x.at = b
    BY <1>1 DEF x
  <2> QED
    BY <2>1, <1>2 DEF Handled, Carries
<1> QED
  BY <1>1, <1>3 DEF x

\* One request is replaced by what comes of it.
Becomes(q, x) == requests' = (requests \ {q}) \union {x}

\* The others stay as they were as long as the next key does not decrease; alone,
\* q is followed by x alone.
LEMMA RequestBecomes ==
  ASSUME NEW q, NEW x, RequestsAreHandled, Becomes(q, x), TablesOK, TablesOK',
         nextID' >= nextID, Handled(x, nextID')
  PROVE  /\ RequestsAreHandled'
         /\ requests \subseteq {q} => requests' = {x}
<1>1. \A p \in requests : Handled(p, nextID')
  BY DEF RequestsAreHandled, Handled, Carries, TablesOK, WatcherIDs
<1> QED
  BY <1>1 DEF Becomes, RequestsAreHandled

\* The row is written, and the entry of the table deleted.
LEMMA WritesRowKeeps ==
  ASSUME WatcherSide, NEW q, InHand(q), q.kind \in {"update", "rules"},
         NoListener(q.id) \/ overlap', WritesRow(q), UNCHANGED nextID
  PROVE  Kept
<1> DEFINE preset == IF q.kind = "rules" THEN row[q.id] ELSE q.preset
           x == Asked(q.kind, q.id, preset, "register")
<1>1. CASE row[q.id] = NoRow
  <2>1. Throws /\ RowWritten
    BY <1>1 DEF WritesRow, RowWritten, WatcherSide, TablesOK
  <2> QED
    BY <2>1, ThrowsKeeps DEF InHand
<1>2. CASE row[q.id] # NoRow
  <2>1. /\ row' = [row EXCEPT ![q.id] = preset]
        /\ table' = [table EXCEPT ![q.id] = 0]
        /\ Becomes(q, x)
        /\ UNCHANGED <<running, runtimes, pipe, sweeps>>
    <3>1. [q EXCEPT !.preset = preset, !.at = "register"] = x
      <4>1. MovedTo(q, preset, "register") = x
        BY RequestMoves DEF InHand
      <4> QED
        BY <4>1, Zenon DEF MovedTo
    <3> QED
      BY <1>2, <3>1 DEF WritesRow, GoesOn, Becomes
  <2>2. q.id \in WatcherIDs /\ q.id < nextID /\ Carries(q, nextID)
    BY DEF InHand, Carries
  <2>3. preset \in Presets
    BY <1>2, <2>2 DEF Carries, WatcherSide, TablesOK
  <2> HIDE DEF preset
  <2>4. "register" \in {"close", "register"} /\ q.kind \in Kinds["register"]
    BY DEF Kinds
  <2>5. /\ Handled(x, nextID') /\ x.id = q.id /\ x.at = "register" /\ x.preset = preset
    BY <2>2, <2>3, <2>4, MovedIsHandled
  <2> HIDE DEF x
  <2>6. RuntimesOK' /\ PipesOK' /\ SweepsOK'
    BY <2>1 DEF WatcherSide, RuntimesOK, PipesOK, SweepsOK, InHand, queueVars
  <2>7. TablesOK'
    <3>1. 0 \in 0 .. Len(runtimes)
      BY DEF WatcherSide, RuntimesOK
    <3> QED
      BY <2>1, <2>2, <2>3, <3>1 DEF WatcherSide, TablesOK, InHand, WatcherIDs
  <2>8. RequestsAreHandled' /\ (requests \subseteq {q} => requests' = {x})
    BY <2>1, <2>5, <2>7, RequestBecomes DEF WatcherSide, TablesOK
  <2>9. Listeners'
    <3> SUFFICES ASSUME ~overlap' PROVE Matched'
      BY <2>1 DEF Listeners, InHand
    <3>1. TableMatches /\ requests' = {x} /\ NoListener(q.id)
      BY <2>8 DEF InHand
    <3>2. \A r \in DOMAIN runtimes : runtimes[r].open => runtimes[r].id # q.id
      BY <3>1 DEF NoListener
    <3>3. TableMatches'
      BY <2>1, <3>1, <3>2 DEF TableMatches, WatcherSide, TablesOK, RuntimesOK, RuntimeRecords
    <3>4. RequestsMatch'
      BY <2>1, <2>2, <2>5, <3>1 DEF RequestsMatch, NoListener, WatcherSide, TablesOK
    <3> QED
      BY <3>1, <3>3, <3>4 DEF Matched
  <2>10. FilesLeftAlone
    BY <2>1 DEF FilesLeftAlone, MakersStay, InHand, queueVars
  <2> QED
    BY <2>6, <2>7, <2>8, <2>9, <2>10 DEF Kept, WatcherSide
<1> QED
  BY <1>1, <1>2

\* A runtime is closed: its watcher has no listener any more.
LEMMA DeregisterKeeps ==
  ASSUME WatcherSide, NEW q, InHand(q), q.kind \in {"update", "rules", "remove"},
         table[q.id] # 0, DeregisterWatcher(q), UNCHANGED nextID,
         \/ UNCHANGED row
         \/ q.kind = "remove" /\ row' = [row EXCEPT ![q.id] = NoRow]
  PROVE  Kept
<1> DEFINE r == table[q.id]
           x == Asked(q.kind, q.id, q.preset, "close")
<1>1. q.id \in WatcherIDs /\ q.id < nextID /\ Carries(q, nextID) /\ TablesOK /\ RuntimesOK
  BY DEF InHand, Carries, WatcherSide
<1>2. r \in DOMAIN runtimes /\ r \in Runtimes /\ runtimes[r] \in RuntimeRecords
  BY <1>1, WatchersAssumption DEF TablesOK, RuntimesOK, Runtimes, WatchersAssumption
<1>3. RowWritten
  BY <1>1 DEF RowWritten, TablesOK, WatcherIDs
<1>4. CASE Throws
  BY <1>3, <1>4, ThrowsKeeps DEF InHand
<1>5. CASE ~Throws
  <2>1. /\ runtimes' = [runtimes EXCEPT ![r] = Closing(runtimes[r])]
        /\ pipe' = [pipe EXCEPT ![r] =
              [f \in Files |-> IF pipe[r][f].at = "sleep" THEN Idle ELSE pipe[r][f]]]
        /\ Becomes(q, x)
        /\ UNCHANGED <<running, table, sweeps>>
    <3>1. [q EXCEPT !.preset = q.preset, !.at = "close"] = x
      <4>1. MovedTo(q, q.preset, "close") = x
        BY <1>1, RequestMoves
      <4> QED
        BY <4>1, Zenon DEF MovedTo
    <3> QED
      BY <1>5, <3>1 DEF DeregisterWatcher, GoesOn, Becomes
  <2> HIDE DEF r
  <2>2. Closing(runtimes[r]) \in RuntimeRecords
    BY <1>2, ClosingType
  <2>3. /\ runtimes' \in Seq(RuntimeRecords) /\ Len(runtimes') = Len(runtimes)
        /\ DOMAIN runtimes' = DOMAIN runtimes
    BY <1>1, <1>2, <2>1, <2>2, ElementChanges DEF RuntimesOK
  <2>4. /\ runtimes'[r] = Closing(runtimes[r])
        /\ \A s \in DOMAIN runtimes : s # r => runtimes'[s] = runtimes[s]
    BY <1>1, <1>2, <2>1 DEF RuntimesOK
  <2>5. /\ \A s \in DOMAIN runtimes : /\ runtimes'[s].id = runtimes[s].id
                                      /\ runtimes'[s].preset = runtimes[s].preset
                                      /\ runtimes'[s].open => runtimes[s].open
        /\ ~runtimes'[r].open
    BY <1>2, <2>4, ClosingType
  <2>6. "close" \in {"close", "register"} /\ q.kind \in Kinds["close"]
    BY DEF Kinds
  <2>7. Handled(x, nextID') /\ x.id = q.id /\ x.at = "close"
    <3>1. q.kind \in {"add", "update"} \/ "close" = "register" => q.preset \in Presets
      BY <1>1 DEF Carries
    <3> QED
      BY <1>1, <2>6, <3>1, MovedIsHandled
  <2> HIDE DEF x
  <2>8. RuntimesOK' /\ SweepsOK'
    BY <1>1, <2>1, <2>3 DEF WatcherSide, RuntimesOK, SweepsOK, InHand, queueVars
  <2>9. PipesOK'
    <3>1. pipe[r] \in [Files -> Pipes]
      BY <1>2 DEF WatcherSide, PipesOK
    <3>2. [f \in Files |-> IF pipe[r][f].at = "sleep" THEN Idle ELSE pipe[r][f]]
            \in [Files -> Pipes]
      BY <3>1, IdleType
    <3> QED
      BY <1>2, <2>1, <3>2 DEF WatcherSide, PipesOK
  <2>10. TablesOK'
    BY <1>1, <1>3, <2>1, <2>3 DEF TablesOK, InHand, RowWritten
  <2>11. RequestsAreHandled' /\ (requests \subseteq {q} => requests' = {x})
    BY <1>1, <2>1, <2>7, <2>10, RequestBecomes DEF WatcherSide, TablesOK
  <2>12. Listeners'
    <3> SUFFICES ASSUME ~overlap' PROVE Matched'
      BY <2>1 DEF Listeners, InHand
    <3>1. TableMatches /\ requests' = {x}
      BY <2>11 DEF InHand
    <3>2. \A s \in DOMAIN runtimes : runtimes'[s].open => runtimes[s].id # q.id
      BY <2>4, <2>5, <3>1 DEF TableMatches, r
    <3>3. TableMatches'
      <4>1. \A w \in WatcherIDs : w # q.id => row'[w] = row[w]
        BY <1>1 DEF TablesOK
      <4>2. \A s \in DOMAIN runtimes : runtimes[s].id \in WatcherIDs
        <5>1. \A s \in DOMAIN runtimes : runtimes[s] \in RuntimeRecords
          BY <1>1 DEF RuntimesOK
        <5> QED
          BY <5>1 DEF RuntimeRecords
      <4> QED
        BY <2>1, <2>3, <2>5, <3>1, <3>2, <4>1, <4>2 DEF TableMatches
    <3>4. RequestsMatch'
      BY <2>3, <2>5, <2>7, <3>1, <3>2 DEF RequestsMatch, NoListener
    <3> QED
      BY <3>1, <3>3, <3>4 DEF Matched
  <2>13. MakersStay
    BY <2>3, <2>5 DEF MakersStay
  <2>14. FilesLeftAlone
    <3>1. \A s \in Runtimes, f \in Files : pipe'[s][f] \in {pipe[s][f], Idle}
      BY <1>2, <2>1 DEF WatcherSide, PipesOK
    <3> QED
      BY <2>13, <3>1 DEF FilesLeftAlone, InHand, queueVars
  <2> QED
    BY <2>8, <2>9, <2>10, <2>11, <2>12, <2>14 DEF Kept, WatcherSide
<1> QED
  BY <1>4, <1>5

\* AddWatcher inserts the row, with a key that nothing has used.
LEMMA AddKeeps ==
  ASSUME WatcherSide, NEW q, InHand(q), q.kind = "add", Proceeds(q)
  PROVE  Kept
<1> DEFINE x == Asked(q.kind, nextID, q.preset, "register")
<1>1. /\ nextID \in WatcherIDs /\ row' = [row EXCEPT ![nextID] = q.preset]
      /\ nextID' = nextID + 1
      /\ Becomes(q, x)
      /\ UNCHANGED <<running, table, runtimes, pipe, sweeps>>
  <2>1. Inserted(q, nextID, "register") = x
    BY RequestMoves DEF InHand
  <2>2. /\ nextID \in WatcherIDs /\ row' = [row EXCEPT ![nextID] = q.preset]
        /\ nextID' = nextID + 1
        /\ requests' = (requests \ {q}) \union {[q EXCEPT !.id = nextID, !.at = "register"]}
        /\ UNCHANGED memory
    BY DEF Proceeds
  <2> QED
    BY <2>1, <2>2, Zenon DEF Inserted, Becomes, memory
<1>2. TablesOK /\ RuntimesOK /\ Carries(q, nextID) /\ q.preset \in Presets
  BY DEF WatcherSide, InHand, Carries
<1>3. /\ Handled(x, nextID') /\ x.id = nextID /\ x.at = "register"
      /\ x.preset = q.preset
  <2>1. "register" \in {"close", "register"} /\ q.kind \in Kinds["register"]
    BY DEF Kinds
  <2>2. nextID < nextID'
    BY <1>1, <1>2 DEF TablesOK
  <2> QED
    BY <1>1, <1>2, <2>1, <2>2, MovedIsHandled
<1> HIDE DEF x
<1>4. RuntimesOK' /\ PipesOK' /\ SweepsOK'
  BY <1>1 DEF WatcherSide, RuntimesOK, PipesOK, SweepsOK, InHand, queueVars
<1>5. TablesOK'
  <2>1. nextID' \in 1 .. NWatchers + 1 /\ nextID \in 1 .. NWatchers
    BY <1>1, <1>2, WatchersAssumption DEF TablesOK, WatcherIDs, WatchersAssumption
  <2>2. \A w \in WatcherIDs : w >= nextID' => w # nextID /\ w >= nextID
    BY <1>1, <2>1 DEF WatcherIDs
  <2> QED
    BY <1>1, <1>2, <2>1, <2>2 DEF TablesOK, InHand
<1>6. RequestsAreHandled' /\ (requests \subseteq {q} => requests' = {x})
  <2>1. nextID' >= nextID
    BY <1>1, <1>2 DEF TablesOK
  <2> QED
    BY <1>1, <1>3, <1>5, <2>1, RequestBecomes DEF WatcherSide
<1>7. Listeners'
  <2> SUFFICES ASSUME ~overlap' PROVE Matched'
    BY <1>1 DEF Listeners, InHand
  <2>1. TableMatches /\ requests' = {x}
    BY <1>6 DEF InHand
  <2>2. table[nextID] = 0
    BY <1>1, <1>2 DEF TablesOK, WatcherIDs
  <2>3. DOMAIN runtimes = 1 .. Len(runtimes)
    BY <1>2 DEF RuntimesOK
  <2>4. \A r \in DOMAIN runtimes : runtimes[r].open => runtimes[r].id # nextID
    BY <2>1, <2>2, <2>3 DEF TableMatches
  <2>5. \A w \in WatcherIDs : w # nextID => row'[w] = row[w]
    BY <1>1, <1>2 DEF TablesOK
  <2>6. \A s \in DOMAIN runtimes : runtimes[s].id \in WatcherIDs
    <3>1. \A s \in DOMAIN runtimes : runtimes[s] \in RuntimeRecords
      BY <1>2 DEF RuntimesOK
    <3> QED
      BY <3>1 DEF RuntimeRecords
  <2>7. TableMatches'
    BY <1>1, <2>1, <2>4, <2>5, <2>6 DEF TableMatches
  <2>8. RequestsMatch'
    BY <1>1, <1>2, <1>3, <2>1, <2>4 DEF RequestsMatch, NoListener, TablesOK
  <2> QED
    BY <2>1, <2>7, <2>8 DEF Matched
<1>8. FilesLeftAlone
  BY <1>1 DEF FilesLeftAlone, MakersStay, InHand, queueVars
<1> QED
  BY <1>4, <1>5, <1>6, <1>7, <1>8 DEF Kept, WatcherSide

\* The removal of a watcher ends: its row and its entry may go, it has no listener.
LEMMA RemoveKeeps ==
  ASSUME WatcherSide, NEW q, InHand(q), q.kind = "remove", NoListener(q.id) \/ overlap',
         Done(q), UNCHANGED <<running, runtimes, pipe, sweeps, nextID>>,
         row' = row \/ row' = [row EXCEPT ![q.id] = NoRow],
         table' = table \/ table' = [table EXCEPT ![q.id] = 0]
  PROVE  Kept
<1>1. q.id \in WatcherIDs /\ TablesOK /\ RuntimesOK
  BY DEF InHand, Carries, WatcherSide
<1>2. RuntimesOK' /\ PipesOK' /\ SweepsOK'
  BY DEF WatcherSide, RuntimesOK, PipesOK, SweepsOK, InHand, queueVars
<1>3. TablesOK'
  <2>1. 0 \in 0 .. Len(runtimes)
    BY <1>1 DEF RuntimesOK
  <2>2. /\ row' \in [WatcherIDs -> Presets \union {NoRow}]
        /\ \A w \in WatcherIDs : w >= nextID => row'[w] = NoRow
    BY <1>1 DEF TablesOK
  <2>3. /\ table' \in [WatcherIDs -> 0 .. Len(runtimes)]
        /\ \A w \in WatcherIDs : w >= nextID => table'[w] = 0
    BY <1>1, <2>1 DEF TablesOK
  <2> QED
    BY <1>1, <2>2, <2>3 DEF TablesOK, InHand
<1>4. RequestsAreHandled'
  BY DEF WatcherSide, RequestsAreHandled, Done
<1>5. Listeners'
  <2> SUFFICES ASSUME ~overlap' PROVE Matched'
    BY DEF Listeners, InHand
  <2>1. TableMatches /\ requests' = {} /\ NoListener(q.id)
    BY DEF InHand, Done
  <2>2. \A w \in WatcherIDs : w # q.id => row'[w] = row[w] /\ table'[w] = table[w]
    BY <1>1 DEF TablesOK
  <2>3. \A s \in DOMAIN runtimes : runtimes[s].id \in WatcherIDs
    <3>1. \A s \in DOMAIN runtimes : runtimes[s] \in RuntimeRecords
      BY <1>1 DEF RuntimesOK
    <3> QED
      BY <3>1 DEF RuntimeRecords
  <2>4. TableMatches'
    BY <2>1, <2>2, <2>3 DEF TableMatches, NoListener
  <2> QED
    BY <2>1, <2>4 DEF Matched, RequestsMatch
<1>6. FilesLeftAlone
  BY DEF FilesLeftAlone, MakersStay, InHand, queueVars
<1> QED
  BY <1>2, <1>3, <1>4, <1>5, <1>6 DEF Kept, WatcherSide

\* RegisterWatcher adds a listener, which is the one of the table.
LEMMA RegisterKeeps ==
  ASSUME WatcherSide, NEW q, InHand(q), q.at = "register",
         (NoListener(q.id) /\ row[q.id] = q.preset) \/ overlap',
         RegisterWatcher(q.id, q.preset), Done(q),
         UNCHANGED <<running, pipe, sweeps, row, nextID>>
  PROVE  Kept
<1> DEFINE n == Len(runtimes)
           rt == Runtime(q.id, q.preset)
<1>1. /\ q.id \in WatcherIDs /\ q.id < nextID /\ q.preset \in Presets
      /\ TablesOK /\ RuntimesOK
  BY DEF InHand, Carries, WatcherSide
<1>2. /\ rt \in RuntimeRecords /\ rt.id = q.id /\ rt.preset = q.preset
  BY <1>1 DEF Runtime, RuntimeRecords
<1>3. /\ n < MaxRuntimes /\ n \in Nat
      /\ runtimes' = Append(runtimes, rt)
      /\ table' = [table EXCEPT ![q.id] = n + 1]
  BY <1>1 DEF RegisterWatcher, RuntimesOK
<1> HIDE DEF rt
<1>4. /\ runtimes' \in Seq(RuntimeRecords) /\ Len(runtimes') = n + 1
      /\ DOMAIN runtimes = 1 .. n /\ DOMAIN runtimes' = 1 .. n + 1
      /\ \A r \in 1 .. n : runtimes'[r] = runtimes[r]
      /\ runtimes'[n + 1] = rt
  BY <1>1, <1>2, <1>3, AppendProperties DEF RuntimesOK
<1> HIDE DEF n
<1>5. RuntimesOK'
  BY <1>3, <1>4, WatchersAssumption DEF RuntimesOK, WatchersAssumption
<1>6. PipesOK' /\ SweepsOK'
  BY DEF WatcherSide, PipesOK, SweepsOK, InHand, queueVars
<1>7. TablesOK'
  <2>1. table' \in [WatcherIDs -> 0 .. Len(runtimes')]
    BY <1>1, <1>3, <1>4 DEF TablesOK, n
  <2>2. \A w \in WatcherIDs : w >= nextID => w # q.id
    BY <1>1 DEF TablesOK, WatcherIDs
  <2> QED
    BY <1>1, <1>3, <2>1, <2>2 DEF TablesOK, InHand
<1>8. RequestsAreHandled'
  BY DEF WatcherSide, RequestsAreHandled, Done
<1>9. Listeners'
  <2> SUFFICES ASSUME ~overlap' PROVE Matched'
    BY DEF Listeners, InHand
  <2>1. TableMatches /\ requests' = {} /\ NoListener(q.id) /\ row[q.id] = q.preset
    BY DEF InHand, Done
  <2>2. /\ \A w \in WatcherIDs : w # q.id => table'[w] = table[w]
        /\ table'[q.id] = n + 1
    BY <1>1, <1>3 DEF TablesOK
  <2>3. \A s \in DOMAIN runtimes : runtimes[s].id \in WatcherIDs
    <3>1. \A s \in DOMAIN runtimes : runtimes[s] \in RuntimeRecords
      BY <1>1 DEF RuntimesOK
    <3> QED
      BY <3>1 DEF RuntimeRecords
  <2>4. ASSUME NEW r \in DOMAIN runtimes', runtimes'[r].open
        PROVE  /\ table'[runtimes'[r].id] = r
               /\ row'[runtimes'[r].id] = runtimes'[r].preset
    <3>1. CASE r = n + 1
      BY <1>2, <1>4, <2>1, <2>2, <3>1
    <3>2. CASE r # n + 1
      <4>1. r \in DOMAIN runtimes /\ runtimes'[r] = runtimes[r]
        BY <1>3, <1>4, <3>2
      <4> QED
        BY <2>1, <2>2, <2>3, <2>4, <4>1 DEF TableMatches, NoListener
    <3> QED
      BY <3>1, <3>2
  <2>5. TableMatches'
    BY <2>4 DEF TableMatches
  <2> QED
    BY <2>1, <2>5 DEF Matched, RequestsMatch
<1>10. MakersStay
  BY <1>3, <1>4 DEF MakersStay
<1>11. FilesLeftAlone
  BY <1>10 DEF FilesLeftAlone, InHand, queueVars
<1> QED
  BY <1>5, <1>6, <1>7, <1>8, <1>9, <1>11 DEF Kept, WatcherSide

\* A watcher without an entry in the table has no listener.
LEMMA NoEntryNoListener ==
  ASSUME RuntimesOK, NEW w, table[w] = 0, TableMatches
  PROVE  NoListener(w)
<1>1. DOMAIN runtimes = 1 .. Len(runtimes)
  BY DEF RuntimesOK
<1> QED
  BY <1>1 DEF TableMatches, NoListener

\* The stretch after the path checks, of every kind of request.
LEMMA ProceedsKeeps ==
  ASSUME WatcherSide, NEW q, InHand(q), q.at = "check", Proceeds(q)
  PROVE  Kept
<1>1. CASE q.kind = "add"
  BY <1>1, AddKeeps
<1>2. table[q.id] = 0 => NoListener(q.id) \/ overlap'
  BY NoEntryNoListener DEF InHand, WatcherSide
<1>3. CASE q.kind \in {"update", "rules"}
  <2>1. /\ IF table[q.id] = 0 THEN WritesRow(q) ELSE DeregisterWatcher(q) /\ UNCHANGED row
        /\ UNCHANGED nextID
    BY <1>3 DEF Proceeds
  <2>2. CASE table[q.id] = 0
    BY <1>2, <1>3, <2>1, <2>2, WritesRowKeeps
  <2>3. CASE table[q.id] # 0
    <3>1. q.kind \in {"update", "rules", "remove"}
      BY <1>3
    <3> QED
      BY <2>1, <2>3, <3>1, DeregisterKeeps
  <2> QED
    BY <2>2, <2>3
<1>4. CASE q.kind = "remove"
  <2>1. /\ row' = [row EXCEPT ![q.id] = NoRow]
        /\ IF table[q.id] = 0 THEN Done(q) /\ UNCHANGED memory ELSE DeregisterWatcher(q)
        /\ UNCHANGED nextID
    BY <1>4 DEF Proceeds
  <2>2. CASE table[q.id] = 0
    <3>1. Done(q) /\ UNCHANGED <<running, runtimes, pipe, sweeps, nextID>> /\ table' = table
      BY <2>1, <2>2 DEF memory
    <3> QED
      BY <1>2, <1>4, <2>1, <2>2, <3>1, RemoveKeeps
  <2>3. CASE table[q.id] # 0
    <3>1. q.kind \in {"update", "rules", "remove"}
      BY <1>4
    <3> QED
      BY <1>4, <2>1, <2>3, <3>1, DeregisterKeeps
  <2> QED
    BY <2>2, <2>3
<1> QED
  BY <1>1, <1>3, <1>4 DEF InHand, Carries

\* A request that arrives is in hand; unless it overlaps it is the only one.
LEMMA ArrivesInHand ==
  ASSUME WatcherSide, Arrives, NEW q, Carries(q, nextID), q.at = "check"
  PROVE  InHand(q)
<1>1. running /\ asked' = asked + 1 /\ overlap' = (overlap \/ requests # {})
      /\ UNCHANGED <<files, queueVars>>
  BY DEF Arrives
<1>2. overlap \in BOOLEAN /\ asked \in Nat /\ Listeners
  BY DEF WatcherSide, TablesOK
<1>3. overlap' \in BOOLEAN /\ asked' \in Nat
  BY <1>1, <1>2
<1>4. ~overlap' => Matched /\ requests = {}
  BY <1>1, <1>2 DEF Listeners
<1> QED
  BY <1>1, <1>3, <1>4 DEF InHand, Matched

\* So is a request that goes on, with what is known of it.
LEMMA ResumesInHand ==
  ASSUME WatcherSide, NEW q \in requests, UNCHANGED <<asked, overlap, files, queueVars>>
  PROVE  /\ InHand(q) /\ Handled(q, nextID)
         /\ q.at # "check" => NoListener(q.id) \/ overlap'
         /\ q.at = "register" => (NoListener(q.id) /\ row[q.id] = q.preset) \/ overlap'
<1>1. running /\ (~overlap => Matched) /\ Handled(q, nextID) /\ overlap \in BOOLEAN
      /\ asked \in Nat
  BY DEF WatcherSide, Listeners, TablesOK, RequestsAreHandled
<1>2. overlap' \in BOOLEAN /\ asked' \in Nat
  BY <1>1
<1>3. Carries(q, nextID)
  BY <1>1 DEF Handled
<1>4. q.at # "check" /\ ~overlap' => NoListener(q.id)
  BY <1>1 DEF Matched, RequestsMatch
<1>5. q.at = "register" /\ ~overlap' => NoListener(q.id) /\ row[q.id] = q.preset
  BY <1>1 DEF Matched, RequestsMatch
<1>6. ~overlap' => TableMatches /\ requests \subseteq {q}
  BY <1>1 DEF Matched
<1> QED
  BY <1>1, <1>2, <1>3, <1>4, <1>5, <1>6 DEF InHand

\* A request waits for its path checks.
LEMMA WaitsKeeps ==
  ASSUME WatcherSide, Arrives, NEW q, Handled(q, nextID), q.at = "check", Waits(q)
  PROVE  Kept
<1>1. InHand(q)
  BY ArrivesInHand DEF Handled
<1>2. /\ requests' = requests \union {q}
      /\ UNCHANGED <<row, nextID, running, table, runtimes, pipe, sweeps>>
  BY DEF Waits, memory
<1>3. RuntimesOK' /\ PipesOK' /\ SweepsOK' /\ TablesOK'
  BY <1>1, <1>2 DEF WatcherSide, RuntimesOK, PipesOK, SweepsOK, TablesOK, InHand, queueVars
<1>4. RequestsAreHandled'
  <2>1. \A p \in requests : Handled(p, nextID')
    BY <1>2 DEF WatcherSide, RequestsAreHandled
  <2>2. Handled(q, nextID')
    BY <1>2
  <2> QED
    BY <1>2, <2>1, <2>2 DEF RequestsAreHandled
<1>5. Listeners'
  <2> SUFFICES ASSUME ~overlap' PROVE Matched'
    BY <1>1, <1>2 DEF Listeners, InHand
  <2>1. requests = {} /\ TableMatches
    BY <1>1 DEF InHand, Arrives
  <2>2. TableMatches'
    BY <1>2, <2>1 DEF TableMatches
  <2> QED
    BY <1>2, <2>1, <2>2 DEF Matched, RequestsMatch
<1>6. FilesLeftAlone
  BY <1>1, <1>2 DEF FilesLeftAlone, MakersStay, InHand, queueVars
<1> QED
  BY <1>3, <1>4, <1>5, <1>6 DEF Kept, WatcherSide

\* The requests of clients, as they come.
LEMMA RequestIsCarried ==
  ASSUME NEW k \in {"add", "update", "rules", "remove"}, NEW w, NEW p,
         k # "add" => w \in WatcherIDs /\ w < nextID,
         k \in {"add", "update"} => p \in Presets
  PROVE  /\ Carries(Request(k, w, p), nextID) /\ Request(k, w, p).at = "check"
         /\ Request(k, w, p).kind = k
         /\ k \in {"add", "update"} => Handled(Request(k, w, p), nextID)
<1> DEFINE q == Request(k, w, p)
<1>1. /\ q.kind = k /\ q.id = w /\ q.preset = p /\ q.at = "check"
      /\ q = [kind |-> q.kind, id |-> q.id, preset |-> q.preset, at |-> q.at]
  BY DEF Request
<1> HIDE DEF q
<1>2. Carries(q, nextID)
  BY <1>1 DEF Carries
<1>3. k \in {"add", "update"} => q.kind \in Kinds["check"]
  BY <1>1 DEF Kinds
<1>4. k \in {"add", "update"} => Handled(q, nextID)
  BY <1>1, <1>2, <1>3 DEF Handled
<1> QED
  BY <1>1, <1>2, <1>4 DEF q

\* A watcher that has a row has a key that was given out.
LEMMA RowHasKey ==
  ASSUME WatcherSide, NEW w \in WatcherIDs, row[w] # NoRow
  PROVE  w < nextID
BY DEF WatcherSide, TablesOK, WatcherIDs

\* Every step that handles a request leaves the watchers in order and the files alone.
LEMMA RequestNextKeeps ==
  ASSUME WatcherSide, RequestNext
  PROVE  Kept
<1>1. ASSUME NEW p \in Presets, AddWatcher(p) PROVE Kept
  <2> DEFINE q == Request("add", 0, p)
  <2>1. Handled(q, nextID) /\ q.at = "check"
    BY RequestIsCarried
  <2>2. Arrives /\ Waits(q)
    BY <1>1 DEF AddWatcher
  <2> HIDE DEF q
  <2> QED
    BY <2>1, <2>2, WaitsKeeps
<1>2. ASSUME NEW w \in WatcherIDs, NEW p \in Presets, UpdateWatcher(w, p) PROVE Kept
  <2> DEFINE q == Request("update", w, p)
  <2>1. row[w] # NoRow /\ Arrives /\ (Waits(q) \/ Proceeds(q))
    BY <1>2 DEF UpdateWatcher
  <2>2. Handled(q, nextID) /\ q.at = "check" /\ Carries(q, nextID)
    BY <2>1, RowHasKey, RequestIsCarried
  <2> HIDE DEF q
  <2>3. InHand(q)
    BY <2>1, <2>2, ArrivesInHand
  <2> QED
    BY <2>1, <2>2, <2>3, WaitsKeeps, ProceedsKeeps
<1>3. ASSUME NEW w \in WatcherIDs, ChangeRules(w) PROVE Kept
  <2> DEFINE q == Request("rules", w, NoRow)
  <2>1. row[w] # NoRow /\ Arrives /\ (Proceeds(q) \/ Refused)
    BY <1>3 DEF ChangeRules
  <2>2. q.at = "check" /\ Carries(q, nextID)
    BY <2>1, RowHasKey, RequestIsCarried
  <2> HIDE DEF q
  <2>3. InHand(q)
    BY <2>1, <2>2, ArrivesInHand
  <2>4. Refused => Kept
    <3>1. TablesOK
      BY DEF WatcherSide
    <3>2. Refused => Throws /\ UNCHANGED nextID /\ RowWritten
      BY <3>1 DEF Refused, RowWritten, TablesOK
    <3> QED
      BY <2>3, <3>2, ThrowsKeeps DEF InHand
  <2> QED
    BY <2>1, <2>2, <2>3, <2>4, ProceedsKeeps
<1>4. ASSUME NEW w \in WatcherIDs, RemoveWatcher(w) PROVE Kept
  <2> DEFINE q == Request("remove", w, NoRow)
  <2>1. row[w] # NoRow /\ Arrives /\ Proceeds(q)
    BY <1>4 DEF RemoveWatcher
  <2>2. q.at = "check" /\ Carries(q, nextID)
    BY <2>1, RowHasKey, RequestIsCarried
  <2> HIDE DEF q
  <2>3. InHand(q)
    BY <2>1, <2>2, ArrivesInHand
  <2> QED
    BY <2>1, <2>2, <2>3, ProceedsKeeps
<1>5. ASSUME NEW q \in requests, Checked(q) PROVE Kept
  <2>1. q.at = "check" /\ UNCHANGED <<asked, overlap, files, queueVars>>
        /\ (Proceeds(q) \/ Refused)
    BY <1>5 DEF Checked, Resumes
  <2>2. InHand(q)
    BY <2>1, ResumesInHand
  <2>3. Refused => Throws /\ UNCHANGED nextID /\ RowWritten
    BY DEF Refused, RowWritten, TablesOK, WatcherSide
  <2>4. Refused => Kept
    BY <2>2, <2>3, ThrowsKeeps DEF InHand
  <2> QED
    BY <2>1, <2>2, <2>4, ProceedsKeeps
<1>6. ASSUME NEW q \in requests, Closed(q) PROVE Kept
  <2>1. q.at = "close" /\ UNCHANGED <<asked, overlap, files, queueVars>> /\ UNCHANGED nextID
    BY <1>6 DEF Closed, Resumes
  <2>2. InHand(q) /\ Handled(q, nextID) /\ (NoListener(q.id) \/ overlap')
    BY <2>1, ResumesInHand
  <2>3. q.kind \in {"update", "rules", "remove"}
    BY <2>1, <2>2 DEF Handled, Kinds
  <2>4. CASE q.kind # "remove"
    <3>1. WritesRow(q) /\ q.kind \in {"update", "rules"}
      BY <1>6, <2>3, <2>4 DEF Closed
    <3> QED
      BY <2>1, <2>2, <3>1, WritesRowKeeps
  <2>5. CASE q.kind = "remove"
    <3>1. /\ table' = [table EXCEPT ![q.id] = 0] /\ Done(q) /\ row' = row
          /\ UNCHANGED <<running, runtimes, pipe, sweeps, nextID>>
      BY <1>6, <2>1, <2>5 DEF Closed
    <3> QED
      BY <2>2, <2>5, <3>1, RemoveKeeps
  <2> QED
    BY <2>4, <2>5
<1>7. ASSUME NEW q \in requests, Registered(q) PROVE Kept
  <2>1. q.at = "register" /\ UNCHANGED <<asked, overlap, files, queueVars>>
        /\ UNCHANGED <<row, nextID>>
    BY <1>7 DEF Registered, Resumes
  <2>2. InHand(q) /\ ((NoListener(q.id) /\ row[q.id] = q.preset) \/ overlap')
    BY <2>1, ResumesInHand
  <2>3. CASE Throws
    <3>1. RowWritten
      BY <2>1 DEF RowWritten, TablesOK, WatcherSide
    <3> QED
      BY <2>1, <2>2, <2>3, <3>1, ThrowsKeeps DEF InHand
  <2>4. CASE RegisterWatcher(q.id, q.preset) /\ Done(q) /\ UNCHANGED <<running, pipe, sweeps>>
    BY <2>1, <2>2, <2>4, RegisterKeeps
  <2> QED
    BY <1>7, <2>3, <2>4 DEF Registered
<1> QED
  BY <1>1, <1>2, <1>3, <1>4, <1>5, <1>6, <1>7 DEF RequestNext

\* A function on 1..n is a sequence of length n.
LEMMA FunctionIsSequence ==
  ASSUME NEW T, NEW n \in Nat, NEW s \in [1 .. n -> T]
  PROVE  s \in Seq(T) /\ Len(s) = n /\ DOMAIN s = 1 .. n
<1>1. s \in Seq(T)
  BY SeqDef
<1>2. DOMAIN s = 1 .. Len(s) /\ Len(s) \in Nat /\ DOMAIN s = 1 .. n
  BY <1>1
<1>3. Len(s) = n
  <2>1. CASE n = 0
    BY <1>2, <2>1
  <2>2. CASE n > 0
    <3>1. n \in 1 .. Len(s) /\ 1 \in 1 .. Len(s)
      BY <1>2, <2>2
    <3>2. Len(s) \in 1 .. n
      BY <1>2, <3>1
    <3> QED
      BY <3>1, <3>2
  <2> QED
    BY <2>1, <2>2
<1> QED
  BY <1>1, <1>2, <1>3

\* A new process registers watchers of the table, each with the preset of its row.
LEMMA RestartKeeps ==
  ASSUME WatcherSide, Restart
  PROVE  Kept
<1>1. PICK S \in SUBSET {w \in WatcherIDs : row[w] # NoRow} :
        LET ids == SetToSeq(S)
            n == Len(runtimes)
        IN  /\ n + Len(ids) <= MaxRuntimes
            /\ runtimes' = runtimes \o [i \in DOMAIN ids |-> Runtime(ids[i], row[ids[i]])]
            /\ table' = [w \in WatcherIDs |->
                           IF w \in S THEN n + CHOOSE i \in DOMAIN ids : ids[i] = w ELSE 0]
  BY DEF Restart
<1> DEFINE ids == SetToSeq(S)
           n == Len(runtimes)
           m == Cardinality(S)
           new == [i \in DOMAIN ids |-> Runtime(ids[i], row[ids[i]])]
<1>2. /\ ~running /\ running' = TRUE /\ overlap' = FALSE
      /\ UNCHANGED <<row, nextID, pipe, sweeps, requests, asked, files, queueVars>>
      /\ TablesOK /\ RuntimesOK
  BY DEF Restart, WatcherSide
<1>3. /\ n + Len(ids) <= MaxRuntimes
      /\ runtimes' = runtimes \o new
      /\ table' = [w \in WatcherIDs |->
                     IF w \in S THEN n + CHOOSE i \in DOMAIN ids : ids[i] = w ELSE 0]
  BY <1>1
<1>4. IsFiniteSet(S)
  <2>1. NWatchers \in Nat
    BY WatchersAssumption DEF WatchersAssumption
  <2>2. IsFiniteSet(WatcherIDs)
    BY <2>1, IntervalSizes DEF WatcherIDs
  <2> QED
    BY <2>2, FS_Subset
<1>5. /\ m \in Nat /\ ids \in [1 .. m -> S]
      /\ \A i, j \in 1 .. m : ids[i] = ids[j] => i = j
      /\ \A w \in S : \E i \in 1 .. m : ids[i] = w
  BY <1>4, SequenceOfSet
<1> HIDE DEF ids, m
<1>6. Len(ids) = m /\ DOMAIN ids = 1 .. m
  BY <1>5, FunctionIsSequence
<1>7. \A i \in 1 .. m : /\ ids[i] \in S /\ ids[i] \in WatcherIDs /\ row[ids[i]] \in Presets
                        /\ ids[i] < nextID
  <2>1. \A w \in S : w \in WatcherIDs /\ row[w] \in Presets /\ w < nextID
    BY <1>2 DEF TablesOK, WatcherIDs
  <2> QED
    BY <1>5, <2>1
<1>8. \A i \in 1 .. m : /\ new[i] \in RuntimeRecords /\ new[i].id = ids[i]
                        /\ new[i].preset = row[ids[i]]
  BY <1>6, <1>7 DEF Runtime, RuntimeRecords
<1>9. new \in [1 .. m -> RuntimeRecords]
  <2>1. DOMAIN new = 1 .. m /\ new = [i \in 1 .. m |-> new[i]]
    BY <1>6
  <2> HIDE DEF new
  <2> QED
    BY <1>8, <2>1
<1> HIDE DEF new
<1>10. new \in Seq(RuntimeRecords) /\ Len(new) = m
  BY <1>5, <1>9, FunctionIsSequence
<1>11. n \in Nat /\ DOMAIN runtimes = 1 .. n /\ runtimes \in Seq(RuntimeRecords)
  BY <1>2 DEF RuntimesOK
<1> HIDE DEF n
<1>12. /\ runtimes' \in Seq(RuntimeRecords) /\ Len(runtimes') = n + m
       /\ DOMAIN runtimes' = 1 .. n + m
       /\ \A r \in 1 .. n : runtimes'[r] = runtimes[r]
       /\ \A r \in n + 1 .. n + m : runtimes'[r] = new[r - n]
  <2>1. /\ runtimes \o new \in Seq(RuntimeRecords)
        /\ Len(runtimes \o new) = Len(runtimes) + Len(new)
        /\ \A i \in 1 .. Len(runtimes) + Len(new) :
             (runtimes \o new)[i] = IF i <= Len(runtimes) THEN runtimes[i]
                                    ELSE new[i - Len(runtimes)]
    BY <1>10, <1>11, ConcatProperties
  <2>2. Len(runtimes) = n
    BY DEF n
  <2> QED
    BY <1>3, <1>5, <1>10, <1>11, <2>1, <2>2
<1>13. \A w \in WatcherIDs :
         /\ w \in S => \E i \in 1 .. m : ids[i] = w /\ table'[w] = n + i
         /\ w \notin S => table'[w] = 0
  <2> TAKE w \in WatcherIDs
  <2>1. CASE w \in S
    <3>1. \E i \in DOMAIN ids : ids[i] = w
      BY <1>5, <1>6, <2>1
    <3> DEFINE i == CHOOSE i \in DOMAIN ids : ids[i] = w
    <3>2. i \in DOMAIN ids /\ ids[i] = w
      BY <3>1
    <3>3. table'[w] = n + i
      BY <1>3, <2>1 DEF n
    <3> HIDE DEF i
    <3> QED
      BY <1>6, <2>1, <3>2, <3>3
  <2>2. CASE w \notin S
    BY <1>3, <2>2
  <2> QED
    BY <2>1, <2>2
<1>14. RuntimesOK'
  BY <1>3, <1>6, <1>12 DEF RuntimesOK, n
<1>15. TablesOK'
  <2>1. DOMAIN table' = WatcherIDs /\ table' = [w \in WatcherIDs |-> table'[w]]
    BY <1>3
  <2>2. \A w \in WatcherIDs : table'[w] \in 0 .. n + m
    BY <1>5, <1>11, <1>13
  <2>3. table' \in [WatcherIDs -> 0 .. Len(runtimes')]
    BY <1>12, <2>1, <2>2
  <2>4. \A w \in WatcherIDs : w >= nextID => w \notin S
    BY <1>2 DEF TablesOK
  <2> QED
    BY <1>2, <1>13, <2>3, <2>4 DEF TablesOK
<1>16. requests = {} /\ \A r \in DOMAIN runtimes : ~runtimes[r].open
  BY <1>2 DEF WatcherSide, Listeners
<1>17. RequestsAreHandled' /\ PipesOK' /\ SweepsOK'
  BY <1>2, <1>16 DEF WatcherSide, RequestsAreHandled, PipesOK, SweepsOK, queueVars
<1>18. Listeners'
  <2>1. ASSUME NEW r \in DOMAIN runtimes', runtimes'[r].open
        PROVE  /\ table'[runtimes'[r].id] = r
               /\ row'[runtimes'[r].id] = runtimes'[r].preset
    <3>1. r \in n + 1 .. n + m
      BY <1>11, <1>12, <1>16, <2>1
    <3> DEFINE i == r - n
    <3>2. i \in 1 .. m /\ r = n + i /\ runtimes'[r] = new[i]
      BY <1>5, <1>11, <1>12, <3>1
    <3> HIDE DEF i
    <3>3. runtimes'[r].id = ids[i] /\ runtimes'[r].preset = row[ids[i]]
      BY <1>8, <3>2
    <3>4. PICK j \in 1 .. m : ids[j] = ids[i] /\ table'[ids[i]] = n + j
      BY <1>7, <1>13, <3>2
    <3>5. i = j
      BY <1>5, <3>2, <3>4
    <3> QED
      BY <1>2, <3>2, <3>3, <3>4, <3>5
  <2>2. TableMatches'
    BY <2>1 DEF TableMatches
  <2> QED
    BY <1>2, <1>16, <2>2 DEF Listeners, Matched, RequestsMatch
<1>19. FilesLeftAlone
  <2>1. MakersStay
    BY <1>5, <1>11, <1>12 DEF MakersStay
  <2> QED
    BY <1>2, <2>1 DEF FilesLeftAlone, queueVars
<1> QED
  BY <1>14, <1>15, <1>17, <1>18, <1>19 DEF Kept, WatcherSide

-----------------------------------------------------------------------------
(* Files and jobs.  No watcher comes or goes; a job moves from stage to     *)
(* stage, and what is removed stays removed.                                *)

WatchersLeftAlone ==
  /\ UNCHANGED <<running, row, nextID, table, requests, asked, overlap>>
  /\ RuntimesOK' /\ Len(runtimes') = Len(runtimes)
  /\ \A r \in DOMAIN runtimes : /\ runtimes'[r].id = runtimes[r].id
                               /\ runtimes'[r].preset = runtimes[r].preset
                               /\ runtimes'[r].open = runtimes[r].open
JobsAdvance ==
  /\ QueueOK' /\ Len(jobs') = Len(jobs)
  /\ \A j \in DOMAIN jobs :
       /\ jobs'[j].by = jobs[j].by /\ jobs'[j].preset = jobs[j].preset
       /\ jobs'[j].file = jobs[j].file /\ jobs'[j].seen = jobs[j].seen
       /\ jobs[j].stage = "Absent" => jobs'[j].stage = "Absent"

\* Listeners, tables and requests are as they were.
LEMMA WatchersStay ==
  ASSUME WatcherSide, WatchersLeftAlone
  PROVE  /\ RuntimesOK' /\ TablesOK' /\ RequestsAreHandled' /\ Listeners'
         /\ DOMAIN runtimes' = DOMAIN runtimes
<1>1. RuntimesOK' /\ DOMAIN runtimes' = DOMAIN runtimes
  BY DEF WatchersLeftAlone, WatcherSide, RuntimesOK
<1>2. TablesOK'
  BY DEF WatchersLeftAlone, WatcherSide, TablesOK
<1>3. RequestsAreHandled'
  BY DEF WatchersLeftAlone, WatcherSide, RequestsAreHandled
<1>4. Matched => Matched'
  BY <1>1 DEF WatchersLeftAlone, Matched, TableMatches, RequestsMatch, NoListener
<1>5. Listeners'
  BY <1>1, <1>4 DEF WatchersLeftAlone, WatcherSide, Listeners
<1> QED
  BY <1>1, <1>2, <1>3, <1>5

\* The present jobs are among those that were present, with the same makers.
LEMMA JobsStay ==
  ASSUME IInv, WatchersLeftAlone, JobsAdvance
  PROVE  /\ Present' \subseteq Present /\ DOMAIN jobs' = DOMAIN jobs
         /\ \A j \in DOMAIN jobs : /\ jobs'[j].by \in DOMAIN runtimes'
                                  /\ jobs'[j].preset = runtimes'[jobs'[j].by].preset
         /\ DuplicatesOverlap'
<1>1. DOMAIN jobs' = DOMAIN jobs
  BY DEF JobsAdvance, QueueOK, IInv, FileSide
<1>2. Present' \subseteq Present
  BY <1>1 DEF JobsAdvance, Present
<1>3. DOMAIN runtimes' = DOMAIN runtimes
  BY WatchersStay DEF IInv
<1>4. \A j \in DOMAIN jobs : /\ jobs'[j].by \in DOMAIN runtimes'
                           /\ jobs'[j].preset = runtimes'[jobs'[j].by].preset
  BY <1>3 DEF IInv, FileSide, JobsHaveMakers, JobsAdvance, WatchersLeftAlone
<1>5. \A j \in Present : j \in DOMAIN jobs
  BY DEF Present
<1>6. DuplicatesOverlap'
  BY <1>2, <1>5 DEF IInv, FileSide, DuplicatesOverlap, JobsAdvance
<1> QED
  BY <1>1, <1>2, <1>4, <1>6

\* What was true of the jobs for a file past the search for a match stays true.
LEMMA MatchesStay ==
  ASSUME IInv, WatchersLeftAlone, JobsAdvance, NEW r \in DOMAIN runtimes, NEW f,
         NoMatch(pipe'[r][f], r, f)
  PROVE  NoMatch(pipe[r][f], r, f)'
<1>1. Present' \subseteq Present /\ \A j \in Present : j \in DOMAIN jobs
  BY JobsStay DEF Present
<1>2. runtimes'[r].preset = runtimes[r].preset
  BY DEF WatchersLeftAlone
<1>3. \A j \in Present' : /\ jobs'[j].by = jobs[j].by /\ jobs'[j].file = jobs[j].file
                          /\ jobs'[j].preset = jobs[j].preset
  BY <1>1 DEF JobsAdvance
<1>4. Len(jobs') = Len(jobs)
  BY DEF JobsAdvance
<1> QED
  BY <1>1, <1>2, <1>3, <1>4 DEF NoMatch

\* The queue is left alone.
LEMMA QueueStays ==
  ASSUME QueueOK, UNCHANGED <<disk, jobs>>, queueRuns' \in BOOLEAN
  PROVE  JobsAdvance
BY DEF QueueOK, JobsAdvance

\* One job that is there moves to another stage.
LEMMA StageIsSet ==
  ASSUME QueueOK, NEW j \in DOMAIN jobs,
         NEW stage \in {"Waiting", "Active", "Finished", "Stopped", "Absent"},
         SetStage(j, stage), jobs[j].stage # "Absent", queueRuns' \in BOOLEAN,
         disk' = disk \/ disk' = disk \union {jobs[j].out}
  PROVE  JobsAdvance
<1> DEFINE x == [jobs[j] EXCEPT !.stage = stage]
<1>1. jobs \in Seq(JobRecords) /\ jobs[j] \in JobRecords
  BY DEF QueueOK
<1>2. jobs' = [jobs EXCEPT ![j] = x]
  BY DEF SetStage
<1>3. /\ x \in JobRecords /\ x.by = jobs[j].by /\ x.preset = jobs[j].preset
      /\ x.file = jobs[j].file /\ x.out = jobs[j].out /\ x.seen = jobs[j].seen
  BY <1>1 DEF JobRecords
<1> HIDE DEF x
<1>4. jobs' \in Seq(JobRecords) /\ Len(jobs') = Len(jobs) /\ DOMAIN jobs' = DOMAIN jobs
  BY <1>1, <1>2, <1>3, ElementChanges
<1>5. jobs'[j] = x /\ \A k \in DOMAIN jobs : k # j => jobs'[k] = jobs[k]
  BY <1>2
<1>6. QueueOK'
  <2>1. jobs[j].out \in Names
    BY <1>1 DEF JobRecords
  <2>2. \A k \in DOMAIN jobs : jobs'[k].out = jobs[k].out
    BY <1>3, <1>5
  <2> QED
    BY <1>4, <2>1, <2>2 DEF QueueOK
<1> QED
  BY <1>3, <1>4, <1>5, <1>6 DEF JobsAdvance

\* One pending file goes on, and the queue advances.
LEMMA PipeChanges ==
  ASSUME IInv, NEW r \in DOMAIN runtimes, NEW f \in Files, NEW p \in Pipes,
         pipe' = [pipe EXCEPT ![r][f] = p], UNCHANGED <<sweeps, files>>,
         WatchersLeftAlone, JobsAdvance,
         p.at \in {"name", "add"} => NoMatch(p, r, f),
         p.at \in {"stat", "sleep"} => Watched(p, files[f])
  PROVE  IInv'
<1>2. r \in Runtimes /\ pipe \in [Runtimes -> [Files -> Pipes]]
  BY WatchersAssumption
     DEF IInv, WatcherSide, RuntimesOK, PipesOK, Runtimes, WatchersAssumption
<1>3. /\ pipe' \in [Runtimes -> [Files -> Pipes]] /\ pipe'[r][f] = p
      /\ \A s \in Runtimes, g \in Files :
           s # r \/ g # f => pipe'[s][g] = pipe[s][g]
  BY <1>2
<1>4. WatchersLeftAlone /\ DOMAIN runtimes' = DOMAIN runtimes
  BY WatchersStay DEF IInv
<1>5. WatcherSide'
  <2>1. PipesOK'
    BY <1>3 DEF PipesOK
  <2>2. SweepsOK'
    BY <1>4, JobsStay DEF IInv, WatcherSide, SweepsOK, JobsAdvance
  <2> QED
    BY <1>4, <2>1, <2>2, WatchersStay DEF IInv, WatcherSide
<1>6. FilesOK' /\ QueueOK' /\ DuplicatesOverlap'
  BY <1>4, JobsStay DEF IInv, FileSide, FilesOK, JobsAdvance
<1>7. JobsHaveMakers'
  <2>1. \A s \in Runtimes, g \in Files : pipe'[s][g].at # "none" => s \in DOMAIN runtimes'
    BY <1>3, <1>4 DEF IInv, FileSide, JobsHaveMakers
  <2> QED
    BY <1>4, <2>1, JobsStay DEF JobsHaveMakers
<1>8. NoJobYet'
  <2> SUFFICES ASSUME NEW s \in Runtimes, NEW g \in Files, pipe'[s][g].at \in {"name", "add"}
               PROVE  NoMatch(pipe[s][g], s, g)'
    BY DEF NoJobYet
  <2>1. NoMatch(pipe'[s][g], s, g)
    BY <1>3 DEF IInv, FileSide, NoJobYet
  <2>2. s \in DOMAIN runtimes
    BY <1>3 DEF IInv, FileSide, JobsHaveMakers
  <2> QED
    BY <1>4, <2>1, <2>2, MatchesStay
<1>9. PollsAreTrue'
  BY <1>3 DEF IInv, FileSide, PollsAreTrue
<1> QED
  BY <1>5, <1>6, <1>7, <1>8, <1>9 DEF IInv, FileSide

\* The steps that change nothing of a runtime.
LEMMA PipeGoes ==
  ASSUME IInv, NEW r \in DOMAIN runtimes, NEW f \in Files, NEW p \in Pipes,
         Goes(r, f, p), JobsAdvance,
         p.at \in {"name", "add"} => NoMatch(p, r, f),
         p.at \in {"stat", "sleep"} => Watched(p, files[f])
  PROVE  IInv'
<1>1. /\ pipe' = [pipe EXCEPT ![r][f] = p]
      /\ UNCHANGED <<running, row, nextID, table, runtimes, sweeps, requests, asked,
                     overlap, files>>
  BY DEF Goes
<1>2. WatchersLeftAlone
  BY <1>1 DEF WatchersLeftAlone, IInv, WatcherSide, RuntimesOK
<1> QED
  BY <1>1, <1>2, PipeChanges

\* No pending file changes, and the queue advances.
LEMMA PipesStay ==
  ASSUME IInv, WatchersLeftAlone, JobsAdvance, SweepsOK', UNCHANGED <<pipe, files>>
  PROVE  IInv'
<1>1. WatcherSide'
  BY WatchersStay DEF IInv, WatcherSide, PipesOK
<1>2. FilesOK' /\ QueueOK' /\ DuplicatesOverlap' /\ PollsAreTrue'
  BY JobsStay DEF IInv, FileSide, FilesOK, JobsAdvance, PollsAreTrue
<1>3. JobsHaveMakers'
  BY JobsStay, WatchersStay DEF IInv, FileSide, JobsHaveMakers
<1>4. NoJobYet'
  <2> SUFFICES ASSUME NEW s \in Runtimes, NEW g \in Files, pipe'[s][g].at \in {"name", "add"}
               PROVE  NoMatch(pipe[s][g], s, g)'
    BY DEF NoJobYet
  <2>1. NoMatch(pipe[s][g], s, g) /\ s \in DOMAIN runtimes
    BY DEF IInv, FileSide, NoJobYet, JobsHaveMakers
  <2> QED
    BY <2>1, MatchesStay
<1> QED
  BY <1>1, <1>2, <1>3, <1>4 DEF IInv, FileSide

\* One field of a pending file changes.
WithAt(p, v) == [p EXCEPT !.at = v]
WithStats(p, v) == [p EXCEPT !.stats = v]
WithAge(p, v) == [p EXCEPT !.age = v]
WithOut(p, v) == [p EXCEPT !.out = v]
WithQuiet(p, v) == [p EXCEPT !.quiet = v]
WithPart(p, v) == [p EXCEPT !.part = v]
WithSeen(p, v) == [p EXCEPT !.seen = v]

\* Its type, and the other fields.
LEMMA PipeFields ==
  ASSUME NEW p \in Pipes, NEW v
  PROVE  /\ /\ v \in {"none", "stat", "sleep", "probe", "name", "add", "offer"} => WithAt(p, v) \in Pipes
            /\ WithAt(p, v).at = v /\ WithAt(p, v).stats = p.stats
            /\ WithAt(p, v).age = p.age /\ WithAt(p, v).out = p.out
            /\ WithAt(p, v).quiet = p.quiet /\ WithAt(p, v).part = p.part
            /\ WithAt(p, v).seen = p.seen
         /\ /\ v \in Nat \X Nat => WithStats(p, v) \in Pipes
            /\ WithStats(p, v).at = p.at /\ WithStats(p, v).stats = v
            /\ WithStats(p, v).age = p.age /\ WithStats(p, v).out = p.out
            /\ WithStats(p, v).quiet = p.quiet /\ WithStats(p, v).part = p.part
            /\ WithStats(p, v).seen = p.seen
         /\ /\ v \in 0 .. Stability => WithAge(p, v) \in Pipes
            /\ WithAge(p, v).at = p.at /\ WithAge(p, v).stats = p.stats
            /\ WithAge(p, v).age = v /\ WithAge(p, v).out = p.out
            /\ WithAge(p, v).quiet = p.quiet /\ WithAge(p, v).part = p.part
            /\ WithAge(p, v).seen = p.seen
         /\ /\ v \in Names => WithOut(p, v) \in Pipes
            /\ WithOut(p, v).at = p.at /\ WithOut(p, v).stats = p.stats
            /\ WithOut(p, v).age = p.age /\ WithOut(p, v).out = v
            /\ WithOut(p, v).quiet = p.quiet /\ WithOut(p, v).part = p.part
            /\ WithOut(p, v).seen = p.seen
         /\ /\ v \in 0 .. Stability => WithQuiet(p, v) \in Pipes
            /\ WithQuiet(p, v).at = p.at /\ WithQuiet(p, v).stats = p.stats
            /\ WithQuiet(p, v).age = p.age /\ WithQuiet(p, v).out = p.out
            /\ WithQuiet(p, v).quiet = v /\ WithQuiet(p, v).part = p.part
            /\ WithQuiet(p, v).seen = p.seen
         /\ /\ v \in BOOLEAN => WithPart(p, v) \in Pipes
            /\ WithPart(p, v).at = p.at /\ WithPart(p, v).stats = p.stats
            /\ WithPart(p, v).age = p.age /\ WithPart(p, v).out = p.out
            /\ WithPart(p, v).quiet = p.quiet /\ WithPart(p, v).part = v
            /\ WithPart(p, v).seen = p.seen
         /\ /\ v \in 0 .. MaxJobs => WithSeen(p, v) \in Pipes
            /\ WithSeen(p, v).at = p.at /\ WithSeen(p, v).seen = v
BY DEF Pipes, WithAt, WithStats, WithAge, WithOut, WithQuiet, WithPart, WithSeen

\* A runtime that is there, and what is pending for it.
LEMMA PipeType ==
  ASSUME IInv, NEW r \in DOMAIN runtimes, NEW f \in Files
  PROVE  /\ r \in Runtimes /\ pipe[r][f] \in Pipes /\ runtimes[r] \in RuntimeRecords
         /\ files[f] \in [there : BOOLEAN, size : Nat, mtime : Nat]
         /\ Stats(f) \in Nat \X Nat /\ Stats(f)[1] = files[f].size
         /\ Stats(f)[2] = files[f].mtime /\ Stats(f) = <<files[f].size, files[f].mtime>>
<1>1. r \in Runtimes /\ runtimes[r] \in RuntimeRecords
  BY WatchersAssumption DEF IInv, WatcherSide, RuntimesOK, Runtimes, WatchersAssumption
<1>2. pipe[r][f] \in Pipes
  BY <1>1 DEF IInv, WatcherSide, PipesOK
<1>3. files[f] \in [there : BOOLEAN, size : Nat, mtime : Nat]
  BY DEF IInv, FileSide, FilesOK
<1> QED
  BY <1>1, <1>2, <1>3 DEF Stats

\* The queue is left alone, by steps that say so of all its variables.
LEMMA NoQueueStep ==
  ASSUME IInv, UNCHANGED queueVars
  PROVE  JobsAdvance
<1>1. QueueOK /\ UNCHANGED <<disk, jobs>> /\ queueRuns' \in BOOLEAN
  BY DEF IInv, FileSide, QueueOK, queueVars
<1> QED
  BY <1>1, QueueStays

\* A file is given up.
LEMMA PipeEnds ==
  ASSUME IInv, NEW r \in DOMAIN runtimes, NEW f \in Files, Ends(r, f), JobsAdvance
  PROVE  IInv'
<1>1. Idle \in Pipes /\ Idle.at = "none" /\ Goes(r, f, Idle)
  BY IdleType DEF Idle, Ends
<1> QED
  BY <1>1, PipeGoes

\* A job is offered to the workers.
LEMMA PipeGoesTo ==
  ASSUME IInv, NEW r \in DOMAIN runtimes, NEW f \in Files, GoesTo(r, f, "offer"), JobsAdvance
  PROVE  IInv'
<1> DEFINE p == WithAt(pipe[r][f], "offer")
<1>1. p \in Pipes /\ p.at = "offer"
  BY PipeType, PipeFields
<1>2. Goes(r, f, p)
  BY DEF GoesTo, WithAt
<1> HIDE DEF p
<1> QED
  BY <1>1, <1>2, PipeGoes

\* The stat of a pending file ends.
LEMMA StatEndsKeeps ==
  ASSUME IInv, NEW r \in DOMAIN runtimes, NEW f \in Files, StatEnds(r, f)
  PROVE  IInv'
<1> DEFINE p == pipe[r][f]
           age == IF SameStats(p, f) THEN p.age ELSE 0
           probed == WithAt(Idle, "probe")
           x == WithAt(p, "sleep")
           y == WithStats(x, Stats(f))
           slept == WithAge(y, age)
<1>1. JobsAdvance /\ p.at = "stat"
  BY NoQueueStep DEF StatEnds, At
<1>2. \/ Ends(r, f)
      \/ Goes(r, f, [Idle EXCEPT !.at = "probe"])
      \/ Goes(r, f, [p EXCEPT !.at = "sleep", !.stats = Stats(f),
                               !.age = IF SameStats(p, f) THEN @ ELSE 0])
  BY DEF StatEnds
<1>3. /\ p \in Pipes /\ Stats(f) \in Nat \X Nat
      /\ Stats(f) = <<files[f].size, files[f].mtime>>
      /\ files[f].size \in Nat /\ files[f].mtime \in Nat
  BY PipeType
<1>4. Watched(p, files[f])
  BY <1>1, PipeType DEF IInv, FileSide, PollsAreTrue
<1>5. CASE Goes(r, f, [Idle EXCEPT !.at = "probe"])
  <2>1. Goes(r, f, probed)
    BY <1>5 DEF WithAt
  <2>2. probed \in Pipes /\ probed.at = "probe"
    BY IdleType, PipeFields
  <2> HIDE DEF probed
  <2> QED
    BY <1>1, <2>1, <2>2, PipeGoes
<1>6. CASE Goes(r, f, [p EXCEPT !.at = "sleep", !.stats = Stats(f),
                                !.age = IF SameStats(p, f) THEN @ ELSE 0])
  <2>1. Goes(r, f, slept)
    BY <1>6, Zenon DEF WithAt, WithStats, WithAge
  <2>2. age \in 0 .. Stability /\ (SameStats(p, f) => age = p.age) /\ 0 <= p.quiet
    BY <1>3, WatchersAssumption DEF Pipes, WatchersAssumption
  <2> HIDE DEF age, p
  <2>3. x \in Pipes /\ x.at = "sleep" /\ x.quiet = p.quiet /\ x.part = p.part
    BY <1>3, PipeFields
  <2> HIDE DEF x
  <2>4. /\ y \in Pipes /\ y.at = "sleep" /\ y.quiet = p.quiet /\ y.part = p.part
        /\ y.stats = Stats(f)
    BY <1>3, <2>3 DEF Pipes, WithStats
  <2> HIDE DEF y
  <2>5. /\ slept \in Pipes /\ slept.at = "sleep" /\ slept.quiet = p.quiet
        /\ slept.part = p.part /\ slept.stats = Stats(f) /\ slept.age = age
    BY <2>2, <2>4, PipeFields
  <2> HIDE DEF slept
  <2>6. ~p.part
    BY <1>1, <1>4 DEF Watched, p
  <2>7. slept.quiet >= slept.age
    <3>1. CASE SameStats(p, f)
      BY <1>3, <1>4, <2>2, <2>5, <3>1 DEF SameStats, Watched
    <3>2. CASE ~SameStats(p, f)
      BY <2>2, <2>5, <3>2 DEF age
    <3> QED
      BY <3>1, <3>2
  <2>8. Watched(slept, files[f])
    BY <1>3, <2>5, <2>6, <2>7 DEF Watched
  <2> QED
    BY <1>1, <2>1, <2>5, <2>8, PipeGoes
<1> QED
  BY <1>1, <1>2, <1>5, <1>6, PipeEnds

\* The poll timer fires: as many periods of quiet as were counted were complete.
LEMMA TimerFiresKeeps ==
  ASSUME IInv, NEW r \in DOMAIN runtimes, NEW f \in Files, TimerFires(r, f)
  PROVE  IInv'
<1> DEFINE p == pipe[r][f]
           age == Min({p.age + 1, Stability})
           quiet == IF p.part THEN 0 ELSE Min({p.quiet + 1, Stability})
           x == WithAt(p, "stat")
           y == WithPart(x, FALSE)
           z == WithAge(y, age)
           polled == WithQuiet(z, quiet)
<1>1. JobsAdvance /\ p.at = "sleep"
  BY NoQueueStep DEF TimerFires, At
<1>2. Goes(r, f, [p EXCEPT !.at = "stat", !.part = FALSE, !.age = Min({@ + 1, Stability}),
                           !.quiet = IF p.part THEN 0 ELSE Min({@ + 1, Stability})])
  BY DEF TimerFires
<1>3. Goes(r, f, polled)
  BY <1>2, Zenon DEF WithAt, WithPart, WithAge, WithQuiet
<1>4. p \in Pipes
  BY PipeType
<1>5. Watched(p, files[f])
  BY <1>1, PipeType DEF IInv, FileSide, PollsAreTrue
<1>6. p.age \in 0 .. Stability /\ p.quiet \in 0 .. Stability /\ Stability \in Nat
      /\ p.part \in BOOLEAN
  BY <1>4, WatchersAssumption DEF Pipes, WatchersAssumption
<1> HIDE DEF p
<1>7. /\ p.age + 1 <= Stability => Min({p.age + 1, Stability}) = p.age + 1
      /\ Stability <= p.age + 1 => Min({p.age + 1, Stability}) = Stability
      /\ p.quiet + 1 <= Stability => Min({p.quiet + 1, Stability}) = p.quiet + 1
      /\ Stability <= p.quiet + 1 => Min({p.quiet + 1, Stability}) = Stability
  BY <1>6, MinOfTwo
<1>8. /\ age \in 0 .. Stability /\ quiet \in 0 .. Stability
      /\ ~p.part /\ p.quiet >= p.age => quiet >= age
  BY <1>6, <1>7
<1> HIDE DEF age, quiet
<1>9. x \in Pipes /\ x.at = "stat" /\ x.stats = p.stats
  BY <1>4, PipeFields
<1> HIDE DEF x
<1>10. y \in Pipes /\ y.at = "stat" /\ y.stats = p.stats /\ y.part = FALSE
  BY <1>9 DEF Pipes, WithPart
<1> HIDE DEF y
<1>11. z \in Pipes /\ z.at = "stat" /\ z.stats = p.stats /\ z.part = FALSE /\ z.age = age
  BY <1>8, <1>10 DEF Pipes, WithAge
<1> HIDE DEF z
<1>12. /\ polled \in Pipes /\ polled.at = "stat" /\ polled.stats = p.stats
       /\ polled.part = FALSE /\ polled.age = age /\ polled.quiet = quiet
  BY <1>8, <1>11, PipeFields
<1> HIDE DEF polled
<1>13. Watched(polled, files[f])
  BY <1>5, <1>8, <1>12 DEF Watched
<1> QED
  BY <1>1, <1>3, <1>12, <1>13, PipeGoes

\* The media of a file is probed: the queue has a job for it or gets none from this
\* step.
LEMMA ProbeEndsKeeps ==
  ASSUME IInv, NEW r \in DOMAIN runtimes, NEW f \in Files, ProbeEnds(r, f)
  PROVE  IInv'
<1> DEFINE match == Matching(f, runtimes[r].preset)
           j == Min(match)
           x == WithAt(pipe[r][f], "name")
           searched == WithSeen(x, Len(jobs))
<1>1. /\ UNCHANGED disk
      /\ \/ Rejected(r, f)
         \/ match = {} /\ Goes(r, f, searched) /\ UNCHANGED <<jobs, queueRuns>>
         \/ /\ match # {}
            /\ GoesTo(r, f, "offer")
            /\ StartQueueIfStopped /\ UNCHANGED jobs
         \/ /\ match # {} /\ jobs[j].stage = "Stopped"
            /\ GoesTo(r, f, "offer")
            /\ SetStage(j, "Waiting") /\ StartQueueIfStopped
  BY Zenon DEF ProbeEnds, WithAt, WithSeen
<1>2. QueueOK /\ queueRuns \in BOOLEAN
  BY DEF IInv, FileSide, QueueOK
<1>3. StartQueueIfStopped => queueRuns' \in BOOLEAN
  BY <1>2, WatchersAssumption DEF StartQueueIfStopped, WatchersAssumption
<1>4. CASE Rejected(r, f)
  BY <1>1, <1>2, <1>4, QueueStays, PipeEnds DEF Rejected
<1>5. CASE match = {} /\ Goes(r, f, searched) /\ UNCHANGED <<jobs, queueRuns>>
  <2>1. JobsAdvance
    BY <1>1, <1>2, <1>5, QueueStays
  <2>3. pipe[r][f] \in Pipes /\ Len(jobs) \in 0 .. MaxJobs
    BY <1>2, PipeType DEF QueueOK
  <2>4. x \in Pipes /\ x.at = "name"
    BY <2>3, PipeFields
  <2> HIDE DEF x
  <2>5. searched \in Pipes /\ searched.at = "name" /\ searched.seen = Len(jobs)
    BY <2>3, <2>4, PipeFields
  <2> HIDE DEF searched
  <2>2. NoMatch(searched, r, f)
    BY <1>5, <2>3, <2>5 DEF Matching, NoMatch
  <2> QED
    BY <1>5, <2>1, <2>2, <2>5, PipeGoes
<1>6. CASE GoesTo(r, f, "offer") /\ StartQueueIfStopped /\ UNCHANGED jobs
  BY <1>1, <1>2, <1>3, <1>6, QueueStays, PipeGoesTo
<1>7. CASE /\ match # {} /\ jobs[j].stage = "Stopped"
           /\ GoesTo(r, f, "offer")
           /\ SetStage(j, "Waiting") /\ StartQueueIfStopped
  <2>1. j \in match
    <3>1. match \in SUBSET Nat
      BY <1>2 DEF Matching, Present, QueueOK
    <3> HIDE DEF match
    <3> QED
      BY <1>7, <3>1, MinIsMember
  <2>2. j \in DOMAIN jobs
    BY <2>1 DEF Matching, Present
  <2> HIDE DEF j
  <2>3. JobsAdvance
    BY <1>1, <1>2, <1>3, <1>7, <2>2, StageIsSet
  <2> QED
    BY <1>7, <2>3, PipeGoesTo
<1> QED
  BY <1>1, <1>4, <1>5, <1>6, <1>7

\* An output name is chosen.
LEMMA NameFoundKeeps ==
  ASSUME IInv, NEW r \in DOMAIN runtimes, NEW f \in Files, NameFound(r, f)
  PROVE  IInv'
<1> DEFINE p == pipe[r][f]
           x == WithAt(p, "add")
           named == WithOut(x, FreeName)
<1>1. JobsAdvance /\ p.at = "name"
  BY NoQueueStep DEF NameFound, At
<1>2. Goes(r, f, named)
  BY Zenon DEF NameFound, WithAt, WithOut
<1>3. p \in Pipes /\ FreeName \in Names
  BY PipeType, NameIsFree DEF IInv, FileSide
<1>4. NoMatch(p, r, f)
  BY <1>1, PipeType DEF IInv, FileSide, NoJobYet
<1> HIDE DEF p
<1>5. x \in Pipes /\ x.at = "add" /\ x.seen = p.seen
  BY <1>3, PipeFields
<1> HIDE DEF x
<1>6. named \in Pipes /\ named.at = "add" /\ named.seen = p.seen
  BY <1>3, <1>5, PipeFields
<1> HIDE DEF named
<1>7. NoMatch(named, r, f)
  BY <1>4, <1>6 DEF NoMatch
<1> QED
  BY <1>1, <1>2, <1>6, <1>7, PipeGoes

\* A job is added: others for the file with its preset were added since the runtime
\* looked for a match, and not by this runtime.
LEMMA JobAddedKeeps ==
  ASSUME IInv, NEW r \in DOMAIN runtimes, NEW f \in Files, JobAdded(r, f)
  PROVE  IInv'
<1> DEFINE p == pipe[r][f]
           n == Len(jobs)
           job == [file |-> f, preset |-> runtimes[r].preset, out |-> p.out,
                   stage |-> "Waiting", by |-> r, seen |-> p.seen]
           offered == WithAt(p, "offer")
<1>1. /\ p.at = "add" /\ n < MaxJobs /\ jobs' = Append(jobs, job)
      /\ Goes(r, f, offered) /\ StartQueueIfStopped /\ UNCHANGED disk
  BY DEF JobAdded, At, GoesTo, WithAt
<1>2. /\ r \in Runtimes /\ p \in Pipes /\ runtimes[r] \in RuntimeRecords
      /\ pipe \in [Runtimes -> [Files -> Pipes]]
  BY PipeType DEF IInv, WatcherSide, PipesOK
<1>3. NoMatch(p, r, f)
  BY <1>1, <1>2 DEF IInv, FileSide, NoJobYet
<1>4. /\ job \in JobRecords /\ job.file = f /\ job.by = r
      /\ job.preset = runtimes[r].preset /\ job.seen = p.seen
  BY <1>2 DEF JobRecords, RuntimeRecords, Pipes
<1>5. /\ offered \in Pipes /\ offered.at = "offer"
  BY <1>2, PipeFields
<1>6. /\ pipe' = [pipe EXCEPT ![r][f] = offered]
      /\ UNCHANGED <<running, row, nextID, table, runtimes, sweeps, requests, asked,
                     overlap, files>>
  BY <1>1 DEF Goes
<1> HIDE DEF p, offered
<1>7. /\ pipe' \in [Runtimes -> [Files -> Pipes]] /\ pipe'[r][f] = offered
      /\ \A s \in Runtimes, g \in Files :
           s # r \/ g # f => pipe'[s][g] = pipe[s][g]
  BY <1>2, <1>5, <1>6
<1>8. /\ jobs \in Seq(JobRecords) /\ n \in Nat /\ DOMAIN jobs = 1 .. n
      /\ queueRuns \in BOOLEAN /\ QueueOK
  BY DEF IInv, FileSide, QueueOK
<1> HIDE DEF job
<1>9. /\ jobs' \in Seq(JobRecords) /\ Len(jobs') = n + 1 /\ DOMAIN jobs' = 1 .. n + 1
      /\ \A j \in 1 .. n : jobs'[j] = jobs[j]
      /\ jobs'[n + 1] = job
  BY <1>1, <1>4, <1>8, AppendProperties
<1> HIDE DEF n
<1>10. \A j \in Present' : (j \in Present /\ jobs'[j] = jobs[j]) \/ (j = n + 1)
  BY <1>8, <1>9 DEF Present
<1>11. WatchersLeftAlone
  BY <1>6 DEF WatchersLeftAlone, IInv, WatcherSide, RuntimesOK
<1>12. WatcherSide'
  <2>1. PipesOK'
    BY <1>7 DEF PipesOK
  <2>2. SweepsOK'
    BY <1>6, <1>8, <1>9 DEF IInv, WatcherSide, SweepsOK, n
  <2> QED
    BY <1>11, <2>1, <2>2, WatchersStay DEF IInv, WatcherSide
<1>13. FilesOK' /\ PollsAreTrue'
  BY <1>5, <1>6, <1>7 DEF IInv, FileSide, FilesOK, PollsAreTrue
<1>14. QueueOK'
  <2>1. n + 1 <= MaxJobs
    BY <1>1, <1>8, WatchersAssumption DEF WatchersAssumption
  <2>2. queueRuns' \in BOOLEAN
    BY <1>1, <1>8, WatchersAssumption DEF StartQueueIfStopped, WatchersAssumption
  <2>3. \A k \in disk' : \E j \in DOMAIN jobs' : jobs'[j].out = k
    BY <1>1, <1>8, <1>9 DEF QueueOK
  <2> QED
    BY <1>1, <1>8, <1>9, <2>1, <2>2, <2>3 DEF QueueOK
<1>15. JobsHaveMakers'
  <2>1. \A j \in DOMAIN jobs' : /\ jobs'[j].by \in DOMAIN runtimes'
                              /\ jobs'[j].preset = runtimes'[jobs'[j].by].preset
    <3> TAKE j \in DOMAIN jobs'
    <3>1. CASE j = n + 1
      BY <1>4, <1>6, <1>9, <3>1
    <3>2. CASE j # n + 1
      <4>1. j \in DOMAIN jobs /\ jobs'[j] = jobs[j]
        BY <1>8, <1>9, <3>2
      <4> QED
        BY <1>6, <4>1 DEF IInv, FileSide, JobsHaveMakers
    <3> QED
      BY <3>1, <3>2
  <2>2. \A s \in Runtimes, g \in Files : pipe'[s][g].at # "none" => s \in DOMAIN runtimes'
    BY <1>6, <1>7 DEF IInv, FileSide, JobsHaveMakers
  <2> QED
    BY <2>1, <2>2 DEF JobsHaveMakers
<1>16. NoJobYet'
  <2> SUFFICES ASSUME NEW s \in Runtimes, NEW g \in Files, pipe'[s][g].at \in {"name", "add"}
               PROVE  NoMatch(pipe[s][g], s, g)'
    BY DEF NoJobYet
  <2>1. s # r \/ g # f
    BY <1>5, <1>7
  <2>2. /\ pipe'[s][g] = pipe[s][g] /\ NoMatch(pipe[s][g], s, g)
        /\ pipe[s][g].seen \in Nat
    BY <1>2, <1>7, <2>1, WatchersAssumption
       DEF IInv, FileSide, NoJobYet, Pipes, WatchersAssumption
  <2>3. pipe[s][g].seen <= n /\ pipe[s][g].seen < n + 1
    BY <1>8, <2>2 DEF NoMatch, n
  <2>4. ASSUME NEW j \in Present', jobs'[j].file = g, jobs'[j].preset = runtimes[s].preset
        PROVE  pipe[s][g].seen < j /\ jobs'[j].by # s
    <3>1. CASE j = n + 1
      BY <1>4, <1>9, <2>1, <2>3, <2>4, <3>1
    <3>2. CASE j \in Present /\ jobs'[j] = jobs[j]
      BY <2>2, <2>4, <3>2 DEF NoMatch
    <3> QED
      BY <1>10, <2>4, <3>1, <3>2
  <2> QED
    BY <1>6, <1>8, <1>9, <2>2, <2>3, <2>4 DEF NoMatch
<1>17. DuplicatesOverlap'
  <2>1. ASSUME NEW i \in Present', NEW j \in Present', i < j,
               jobs'[i].file = jobs'[j].file, jobs'[i].preset = jobs'[j].preset
        PROVE  jobs'[j].seen < i /\ jobs'[i].by # jobs'[j].by
    <3>1. i \in 1 .. n + 1 /\ j \in 1 .. n + 1
      BY <1>9 DEF Present
    <3>2. i # n + 1 /\ i \in Present /\ jobs'[i] = jobs[i]
      BY <1>8, <1>10, <2>1, <3>1
    <3>3. CASE j = n + 1
      BY <1>3, <1>4, <1>9, <2>1, <3>2, <3>3 DEF NoMatch
    <3>4. CASE j \in Present /\ jobs'[j] = jobs[j]
      BY <2>1, <3>2, <3>4 DEF IInv, FileSide, DuplicatesOverlap
    <3> QED
      BY <1>10, <3>3, <3>4
  <2> QED
    BY <2>1 DEF DuplicatesOverlap
<1> QED
  BY <1>12, <1>13, <1>14, <1>15, <1>16, <1>17 DEF IInv, FileSide

\* Every step of a pending file.
LEMMA PipeStepKeeps ==
  ASSUME IInv, NEW r \in DOMAIN runtimes, NEW f \in Files, PipeStep(r, f)
  PROVE  IInv'
<1>1. CheckFails(r, f) => IInv'
  BY NoQueueStep, PipeEnds DEF CheckFails
<1>2. OfferEnds(r, f) => IInv'
  BY NoQueueStep, PipeEnds DEF OfferEnds
<1> QED
  BY <1>1, <1>2, StatEndsKeeps, TimerFiresKeeps, ProbeEndsKeeps, NameFoundKeeps,
     JobAddedKeeps DEF PipeStep

\* What a listener has seen changes nothing else of a runtime.
SameWatchers(t) ==
  /\ t \in Seq(RuntimeRecords) /\ Len(t) = Len(runtimes)
  /\ \A r \in DOMAIN runtimes : /\ t[r].id = runtimes[r].id
                               /\ t[r].preset = runtimes[r].preset
                               /\ t[r].open = runtimes[r].open
ScannedAt(t, r) == [t EXCEPT ![r].scanned = TRUE]
KnownAt(t, r, S) == [t EXCEPT ![r].known = S]
LEMMA SeenChanges ==
  ASSUME NEW t, SameWatchers(t), NEW r \in DOMAIN t, NEW S \in SUBSET Files,
         DOMAIN t = DOMAIN runtimes
  PROVE  /\ SameWatchers(ScannedAt(t, r)) /\ SameWatchers(KnownAt(t, r, S))
         /\ DOMAIN ScannedAt(t, r) = DOMAIN t
<1> DEFINE x == [t[r] EXCEPT !.scanned = TRUE]
           y == [t[r] EXCEPT !.known = S]
<1>1. t \in Seq(RuntimeRecords) /\ t[r] \in RuntimeRecords
  BY DEF SameWatchers
<1>2. /\ x \in RuntimeRecords /\ x.id = t[r].id /\ x.preset = t[r].preset
      /\ x.open = t[r].open
  BY <1>1 DEF RuntimeRecords
<1>3. /\ y \in RuntimeRecords /\ y.id = t[r].id /\ y.preset = t[r].preset
      /\ y.open = t[r].open
  BY <1>1 DEF RuntimeRecords
<1>4. ScannedAt(t, r) = [t EXCEPT ![r] = x] /\ KnownAt(t, r, S) = [t EXCEPT ![r] = y]
  BY DEF ScannedAt, KnownAt
<1> HIDE DEF x, y
<1>5. /\ [t EXCEPT ![r] = x] \in Seq(RuntimeRecords) /\ Len([t EXCEPT ![r] = x]) = Len(t)
      /\ DOMAIN [t EXCEPT ![r] = x] = DOMAIN t
      /\ [t EXCEPT ![r] = y] \in Seq(RuntimeRecords) /\ Len([t EXCEPT ![r] = y]) = Len(t)
  BY <1>1, <1>2, <1>3, ElementChanges
<1>6. /\ SameWatchers([t EXCEPT ![r] = x]) /\ SameWatchers([t EXCEPT ![r] = y])
  BY <1>2, <1>3, <1>5 DEF SameWatchers
<1> QED
  BY <1>4, <1>5, <1>6

\* The runtimes are those there are.
LEMMA WatchersAreSame ==
  ASSUME RuntimesOK
  PROVE  SameWatchers(runtimes)
BY DEF RuntimesOK, SameWatchers

\* As long as the runtimes are the same, no watcher comes or goes.
LEMMA SameIsAlone ==
  ASSUME WatcherSide, SameWatchers(runtimes'),
         UNCHANGED <<running, row, nextID, table, requests, asked, overlap>>
  PROVE  WatchersLeftAlone
BY DEF WatcherSide, SameWatchers, WatchersLeftAlone, RuntimesOK

\* The first scan.
LEMMA ScansKeeps ==
  ASSUME IInv, NEW r \in DOMAIN runtimes, Scans(r)
  PROVE  IInv'
<1> DEFINE t == ScannedAt(runtimes, r)
           S == {f \in Files : files[f].there}
<1>1. /\ runtimes' = [runtimes EXCEPT ![r].scanned = TRUE, ![r].known = S]
      /\ UNCHANGED <<running, row, nextID, table, pipe, sweeps, requests, asked, overlap,
                     files, queueVars>>
  BY DEF Scans
<1>2. runtimes' = KnownAt(t, r, S)
  BY <1>1, Zenon DEF KnownAt, ScannedAt
<1>3. S \in SUBSET Files
  OBVIOUS
<1>4. SameWatchers(t) /\ DOMAIN t = DOMAIN runtimes
  BY <1>3, WatchersAreSame, SeenChanges DEF IInv, WatcherSide
<1> HIDE DEF t, S
<1>5. SameWatchers(runtimes')
  BY <1>2, <1>3, <1>4, SeenChanges
<1>6. WatchersLeftAlone /\ JobsAdvance
  BY <1>1, <1>5, SameIsAlone, NoQueueStep DEF IInv
<1>7. SweepsOK'
  BY <1>1 DEF IInv, WatcherSide, SweepsOK, queueVars
<1> QED
  BY <1>1, <1>6, <1>7, PipesStay

\* A new file is heard of, and pending unless it is so already.
LEMMA DetectsKeeps ==
  ASSUME IInv, NEW r \in DOMAIN runtimes, NEW f \in Files, Detects(r, f)
  PROVE  IInv'
<1> DEFINE S == runtimes[r].known \union {f}
           p == WithAt(Idle, "stat")
<1>1. /\ runtimes' = KnownAt(runtimes, r, S)
      /\ pipe' = IF pipe[r][f].at # "none" THEN pipe ELSE [pipe EXCEPT ![r][f] = p]
      /\ UNCHANGED <<running, row, nextID, table, sweeps, requests, asked, overlap,
                     files, queueVars>>
  BY DEF Detects, KnownAt, WithAt
<1>2. S \in SUBSET Files
  BY PipeType DEF RuntimeRecords
<1> HIDE DEF S
<1>3. SameWatchers(runtimes')
  BY <1>1, <1>2, WatchersAreSame, SeenChanges DEF IInv, WatcherSide
<1>4. WatchersLeftAlone /\ JobsAdvance
  BY <1>1, <1>3, SameIsAlone, NoQueueStep DEF IInv
<1>5. SweepsOK'
  BY <1>1 DEF IInv, WatcherSide, SweepsOK, queueVars
<1>6. CASE pipe' = pipe
  BY <1>1, <1>4, <1>5, <1>6, PipesStay
<1>7. CASE pipe' = [pipe EXCEPT ![r][f] = p]
  <2>1. p \in Pipes /\ p.at = "stat" /\ p.stats = <<0, 0>> /\ p.age = 0 /\ p.quiet = 0
        /\ p.part = FALSE
    <3>1. /\ Idle.stats = <<0, 0>> /\ Idle.age = 0 /\ Idle.quiet = 0
          /\ Idle.part = FALSE
      BY DEF Idle
    <3> HIDE DEF p
    <3>2. /\ p \in Pipes /\ p.at = "stat" /\ p.stats = Idle.stats /\ p.age = Idle.age
          /\ p.quiet = Idle.quiet /\ p.part = Idle.part
      BY IdleType, PipeFields DEF p
    <3> QED
      BY <3>1, <3>2
  <2> HIDE DEF p
  <2>2. p.stats[1] = 0 /\ p.stats[2] = 0
    BY <2>1
  <2>3. files[f].size \in Nat /\ files[f].mtime \in Nat
    BY PipeType
  <2>4. Watched(p, files[f])
    BY <2>1, <2>2, <2>3 DEF Watched
  <2> QED
    BY <1>1, <1>4, <1>7, <2>1, <2>4, PipeChanges
<1> QED
  BY <1>1, <1>6, <1>7

\* One iteration of the handling of a deletion.
LEMMA HandlesAdvances ==
  ASSUME QueueOK, SweepsOK, NEW sw, DOMAIN sw.todo \subseteq DOMAIN jobs, Handles(sw),
         UNCHANGED <<disk, queueRuns>>
  PROVE  JobsAdvance /\ SweepsOK'
<1> DEFINE j == Min(DOMAIN sw.todo)
           rest == Restrict(sw.todo, DOMAIN sw.todo \ {j})
<1>1. queueRuns' \in BOOLEAN /\ DOMAIN jobs = 1 .. Len(jobs) /\ Len(jobs) \in Nat
  BY DEF QueueOK
<1>2. DOMAIN rest \subseteq DOMAIN jobs
  BY DEF Restrict
<1>3. DOMAIN sw.todo # {} => j \in DOMAIN jobs
  <2> DEFINE D == DOMAIN sw.todo
  <2>1. D \in SUBSET Nat /\ D \subseteq DOMAIN jobs
    BY <1>1
  <2> HIDE DEF D
  <2>2. D # {} => Min(D) \in D
    BY <2>1, MinIsMember
  <2> QED
    BY <2>1, <2>2 DEF D
<1>4. \/ Leaves(sw, {}) /\ UNCHANGED jobs
      \/ /\ DOMAIN sw.todo # {} /\ jobs[j].stage # "Absent"
         /\ SetStage(j, "Absent") /\ Leaves(sw, {Sweep(rest, 0)})
      \/ DOMAIN sw.todo # {} /\ UNCHANGED jobs /\ Leaves(sw, {Sweep(rest, j)})
  BY DEF Handles
<1> HIDE DEF j, rest
<1>5. \A k : Sweep(rest, k).todo = rest /\ Sweep(rest, k).stopping = k
  BY DEF Sweep
<1>6. CASE Leaves(sw, {}) /\ UNCHANGED jobs
  <2>1. JobsAdvance
    BY <1>1, <1>6, QueueStays
  <2> QED
    BY <1>6, <2>1 DEF Leaves, SweepsOK
<1>7. CASE /\ DOMAIN sw.todo # {} /\ jobs[j].stage # "Absent"
           /\ SetStage(j, "Absent") /\ Leaves(sw, {Sweep(rest, 0)})
  <2>1. JobsAdvance
    BY <1>1, <1>3, <1>7, StageIsSet
  <2>2. DOMAIN jobs' = DOMAIN jobs /\ Len(jobs') = Len(jobs)
    BY <2>1 DEF JobsAdvance, QueueOK
  <2>3. 0 \in 0 .. Len(jobs)
    BY <1>1
  <2> QED
    BY <1>2, <1>5, <1>7, <2>1, <2>2, <2>3 DEF Leaves, SweepsOK
<1>8. CASE DOMAIN sw.todo # {} /\ UNCHANGED jobs /\ Leaves(sw, {Sweep(rest, j)})
  <2>1. JobsAdvance
    BY <1>1, <1>8, QueueStays
  <2>2. j \in 0 .. Len(jobs)
    BY <1>1, <1>3, <1>8
  <2> QED
    BY <1>2, <1>5, <1>8, <2>1, <2>2 DEF Leaves, SweepsOK
<1> QED
  BY <1>4, <1>6, <1>7, <1>8

\* A deletion is heard of.
LEMMA LosesKeeps ==
  ASSUME IInv, NEW r \in DOMAIN runtimes, NEW f \in Files, Loses(r, f)
  PROVE  IInv'
<1> DEFINE hit == {j \in Present : jobs[j].file = f /\ jobs[j].stage \in {"Waiting", "Active"}}
           todo == [j \in hit |-> jobs[j].stage]
           S == runtimes[r].known \ {f}
           sw == Sweep(todo, 0)
<1>1. /\ runtimes' = KnownAt(runtimes, r, S)
      /\ Handles(sw)
      /\ UNCHANGED <<running, row, nextID, table, pipe, requests, asked, overlap, files,
                     disk, queueRuns>>
  BY DEF Loses, KnownAt, SweepStays
<1>2. S \in SUBSET Files
  BY PipeType DEF RuntimeRecords
<1>3. DOMAIN todo \subseteq DOMAIN jobs
  BY DEF Present
<1> HIDE DEF S, todo
<1>4. SameWatchers(runtimes')
  BY <1>1, <1>2, WatchersAreSame, SeenChanges DEF IInv, WatcherSide
<1>5. DOMAIN sw.todo \subseteq DOMAIN jobs
  BY <1>3 DEF Sweep
<1> HIDE DEF sw
<1>6. JobsAdvance /\ SweepsOK'
  BY <1>1, <1>5, HandlesAdvances DEF IInv, FileSide, WatcherSide
<1>7. WatchersLeftAlone
  BY <1>1, <1>4, SameIsAlone DEF IInv
<1> QED
  BY <1>1, <1>6, <1>7, PipesStay

\* The handling of a deletion goes on.
LEMMA SweepsKeeps ==
  ASSUME IInv, NEW sw \in sweeps, Sweeps(sw)
  PROVE  IInv'
<1>1. /\ UNCHANGED <<running, row, nextID, table, pipe, requests, asked, overlap, files,
                     disk, queueRuns, runtimes>>
      /\ QueueOK /\ SweepsOK /\ queueRuns' \in BOOLEAN
  BY DEF Sweeps, SweepStays, IInv, WatcherSide, FileSide, QueueOK
<1>2. WatchersLeftAlone
  BY <1>1 DEF WatchersLeftAlone, IInv, WatcherSide, RuntimesOK
<1>3. DOMAIN sw.todo \subseteq DOMAIN jobs /\ sw.stopping \in 0 .. Len(jobs)
  BY <1>1 DEF SweepsOK
<1>4. CASE Handles(sw)
  BY <1>1, <1>2, <1>3, <1>4, HandlesAdvances, PipesStay
<1>5. CASE /\ sw.stopping # 0 /\ jobs[sw.stopping].stage # "Absent"
           /\ SetStage(sw.stopping, "Stopped") /\ Leaves(sw, {Sweep(sw.todo, 0)})
  <2>1. sw.stopping \in DOMAIN jobs /\ Len(jobs) \in Nat
    BY <1>1, <1>3, <1>5 DEF QueueOK
  <2>2. JobsAdvance
    BY <1>1, <1>5, <2>1, StageIsSet
  <2>3. DOMAIN jobs' = DOMAIN jobs /\ Len(jobs') = Len(jobs)
    BY <1>1, <2>2 DEF JobsAdvance, QueueOK
  <2>4. Sweep(sw.todo, 0).todo = sw.todo /\ Sweep(sw.todo, 0).stopping = 0
    BY DEF Sweep
  <2>5. SweepsOK'
    <3>1. 0 \in 0 .. Len(jobs)
      BY <2>1
    <3> QED
      BY <1>1, <1>3, <1>5, <2>3, <2>4, <3>1 DEF Leaves, SweepsOK
  <2> QED
    BY <1>1, <1>2, <2>2, <2>5, PipesStay
<1> QED
  BY <1>4, <1>5 DEF Sweeps

\* A file appears, grows or is rewritten: whoever polls it sees other statistics.
LEMMA FileChangesKeeps ==
  ASSUME IInv, NEW f \in Files, NEW file \in [there : BOOLEAN, size : Nat, mtime : Nat],
         file.size >= files[f].size, file.mtime >= files[f].mtime,
         file.size > files[f].size \/ file.mtime > files[f].mtime,
         FileChanges(f, file)
  PROVE  IInv'
<1> DEFINE Touched(p) == WithPart(WithQuiet(p, 0), p.at = "sleep")
<1>1. /\ files' = [files EXCEPT ![f] = file]
      /\ pipe' = Disturbed(f)
      /\ UNCHANGED <<running, row, nextID, table, runtimes, sweeps, requests, asked, overlap,
                     queueVars>>
  BY DEF FileChanges
<1>2. /\ pipe \in [Runtimes -> [Files -> Pipes]]
      /\ files \in [Files -> [there : BOOLEAN, size : Nat, mtime : Nat]]
  BY DEF IInv, WatcherSide, PipesOK, FileSide, FilesOK
<1>3. ASSUME NEW p \in Pipes
      PROVE  /\ Touched(p) \in Pipes /\ Touched(p).at = p.at /\ Touched(p).stats = p.stats
             /\ Touched(p).part = (p.at = "sleep") /\ Touched(p).seen = p.seen
  <2> DEFINE x == WithQuiet(p, 0)
             b == p.at = "sleep"
  <2>1. 0 \in 0 .. Stability
    BY WatchersAssumption DEF WatchersAssumption
  <2>2. x \in Pipes /\ x.at = p.at /\ x.stats = p.stats
    BY <2>1 DEF Pipes, WithQuiet
  <2>2a. x.seen = p.seen
    BY DEF WithQuiet
  <2> HIDE DEF x
  <2>3. b \in BOOLEAN
    OBVIOUS
  <2> HIDE DEF b
  <2>4. /\ WithPart(x, b) \in Pipes /\ WithPart(x, b).at = p.at
        /\ WithPart(x, b).stats = p.stats /\ WithPart(x, b).part = b
    BY <2>2, <2>3, PipeFields
  <2>5. WithPart(x, b).seen = p.seen
    BY <2>2a DEF WithPart
  <2> QED
    BY <2>4, <2>5 DEF x, b
<1>4. pipe' = [r \in Runtimes |-> [pipe[r] EXCEPT ![f] =
                IF pipe[r][f].at \in {"stat", "sleep"} THEN Touched(pipe[r][f]) ELSE pipe[r][f]]]
  BY <1>1, Zenon DEF Disturbed, WithPart, WithQuiet
<1> HIDE DEF Touched
<1>5. \A r \in Runtimes :
        /\ pipe'[r] \in [Files -> Pipes]
        /\ pipe'[r][f] = IF pipe[r][f].at \in {"stat", "sleep"} THEN Touched(pipe[r][f])
                         ELSE pipe[r][f]
        /\ \A g \in Files : g # f => pipe'[r][g] = pipe[r][g]
  <2> TAKE r \in Runtimes
  <2>1. pipe[r] \in [Files -> Pipes] /\ pipe[r][f] \in Pipes
    BY <1>2
  <2> DEFINE x == IF pipe[r][f].at \in {"stat", "sleep"} THEN Touched(pipe[r][f])
                  ELSE pipe[r][f]
  <2>2. x \in Pipes
    BY <1>3, <2>1
  <2>3. pipe'[r] = [pipe[r] EXCEPT ![f] = x]
    BY <1>4
  <2> QED
    BY <2>1, <2>2, <2>3
<1>6. \A r \in Runtimes, g \in Files : /\ pipe'[r][g].at = pipe[r][g].at
                                        /\ pipe'[r][g].seen = pipe[r][g].seen
  BY <1>2, <1>3, <1>5
<1>7. WatchersLeftAlone
  BY <1>1 DEF WatchersLeftAlone, IInv, WatcherSide, RuntimesOK
<1>8. JobsAdvance
  BY <1>1, NoQueueStep
<1>9. WatcherSide'
  <2>1. PipesOK'
    <3>1. pipe' \in [Runtimes -> [Files -> Pipes]]
      <4>1. DOMAIN pipe' = Runtimes /\ pipe' = [r \in Runtimes |-> pipe'[r]]
        BY <1>4
      <4> QED
        BY <1>5, <4>1
    <3> QED
      BY <3>1 DEF PipesOK
  <2>2. SweepsOK'
    BY <1>1 DEF IInv, WatcherSide, SweepsOK, queueVars
  <2> QED
    BY <1>7, <2>1, <2>2, WatchersStay DEF IInv, WatcherSide
<1>10. FilesOK'
  BY <1>1, <1>2 DEF FilesOK
<1>11. QueueOK' /\ DuplicatesOverlap'
  BY <1>7, <1>8, JobsStay DEF JobsAdvance
<1>12. JobsHaveMakers'
  BY <1>1, <1>6 DEF IInv, FileSide, JobsHaveMakers, queueVars
<1>13. NoJobYet'
  BY <1>1, <1>6 DEF IInv, FileSide, NoJobYet, NoMatch, Present, queueVars
<1>14. PollsAreTrue'
  <2>1. ASSUME NEW r \in Runtimes, NEW g \in Files, pipe'[r][g].at \in {"stat", "sleep"}
        PROVE  Watched(pipe'[r][g], files'[g])
    <3>1. Watched(pipe[r][g], files[g])
      BY <1>6, <2>1 DEF IInv, FileSide, PollsAreTrue
    <3>2. CASE g # f
      BY <1>1, <1>2, <1>5, <3>1, <3>2
    <3>3. CASE g = f
      <4> DEFINE p == pipe[r][f]
                 x == pipe'[r][f]
      <4>1. p \in Pipes /\ p.at \in {"stat", "sleep"} /\ files'[f] = file
        BY <1>1, <1>2, <1>6, <2>1, <3>3
      <4>2. x.at = p.at /\ x.stats = p.stats /\ x.part = (p.at = "sleep")
        BY <1>3, <1>5, <4>1
      <4>3. p.stats[1] \in Nat /\ p.stats[2] \in Nat
        BY <4>1 DEF Pipes
      <4>4. files[f].size \in Nat /\ files[f].mtime \in Nat
        BY <1>2
      <4>5. p.stats[1] <= files[f].size /\ p.stats[2] <= files[f].mtime
        BY <3>1, <3>3 DEF Watched
      <4> HIDE DEF p, x
      <4>6. p.stats # <<file.size, file.mtime>>
        BY <4>3, <4>4, <4>5
      <4>7. Watched(x, file)
        <5>1. x.stats[1] <= file.size /\ x.stats[2] <= file.mtime
          BY <4>2, <4>3, <4>4, <4>5
        <5>2. x.stats # <<file.size, file.mtime>>
          BY <4>2, <4>6
        <5>3. x.part => x.at = "sleep"
          BY <4>2
        <5> QED
          BY <5>1, <5>2, <5>3 DEF Watched
      <4> QED
        BY <3>3, <4>1, <4>7 DEF x
    <3> QED
      BY <3>2, <3>3
  <2> QED
    BY <2>1 DEF PollsAreTrue
<1> QED
  BY <1>9, <1>10, <1>11, <1>12, <1>13, <1>14 DEF IInv, FileSide

\* The writers of the folder.
LEMMA FileStepKeeps ==
  ASSUME IInv, NEW f \in Files,
         FileAppears(f) \/ FileGrows(f) \/ FileIsRewritten(f) \/ FileDisappears(f)
  PROVE  IInv'
<1> DEFINE F == files[f]
<1>1. files[f] \in [there : BOOLEAN, size : Nat, mtime : Nat]
  BY DEF IInv, FileSide, FilesOK
<1>2. CASE FileAppears(f)
  <2> DEFINE x == [F EXCEPT !.there = TRUE]
             y == [x EXCEPT !.mtime = F.mtime + 1]
  <2>1. /\ x \in [there : BOOLEAN, size : Nat, mtime : Nat] /\ x.size = F.size
        /\ x.mtime = F.mtime
    BY <1>1
  <2>2. FileChanges(f, y)
    <3>1. FileChanges(f, [files[f] EXCEPT !.there = TRUE, !.mtime = @ + 1])
      BY <1>2 DEF FileAppears
    <3> QED
      BY <3>1, Zenon
  <2> HIDE DEF x
  <2>3. /\ y \in [there : BOOLEAN, size : Nat, mtime : Nat] /\ y.size = F.size
        /\ y.mtime = F.mtime + 1
    BY <1>1, <2>1
  <2> HIDE DEF y
  <2> QED
    BY <1>1, <2>2, <2>3, FileChangesKeeps
<1>3. CASE FileGrows(f)
  <2> DEFINE y == [F EXCEPT !.size = F.size + 1]
  <2>1. FileChanges(f, y)
    BY <1>3 DEF FileGrows
  <2>2. /\ y \in [there : BOOLEAN, size : Nat, mtime : Nat] /\ y.size = F.size + 1
        /\ y.mtime = F.mtime
    BY <1>1
  <2> HIDE DEF y
  <2> QED
    BY <1>1, <2>1, <2>2, FileChangesKeeps
<1>4. CASE FileIsRewritten(f)
  <2> DEFINE y == [F EXCEPT !.mtime = F.mtime + 1]
  <2>1. FileChanges(f, y)
    BY <1>4 DEF FileIsRewritten
  <2>2. /\ y \in [there : BOOLEAN, size : Nat, mtime : Nat] /\ y.size = F.size
        /\ y.mtime = F.mtime + 1
    BY <1>1
  <2> HIDE DEF y
  <2> QED
    BY <1>1, <2>1, <2>2, FileChangesKeeps
<1>5. CASE FileDisappears(f)
  <2> DEFINE y == [F EXCEPT !.there = FALSE]
  <2>1. /\ files' = [files EXCEPT ![f] = y]
        /\ UNCHANGED <<running, row, nextID, table, runtimes, pipe, sweeps, requests, asked,
                       overlap, queueVars>>
    BY <1>5 DEF FileDisappears, MemoryStays, memory
  <2>2. /\ y \in [there : BOOLEAN, size : Nat, mtime : Nat] /\ y.size = F.size
        /\ y.mtime = F.mtime
    BY <1>1
  <2> HIDE DEF y
  <2>3. FilesOK' /\ \A g \in Files : /\ files'[g].size = files[g].size
                                    /\ files'[g].mtime = files[g].mtime
    BY <2>1, <2>2 DEF IInv, FileSide, FilesOK
  <2>4. WatchersLeftAlone /\ JobsAdvance
    BY <2>1, NoQueueStep DEF WatchersLeftAlone, IInv, WatcherSide, RuntimesOK
  <2>5. WatcherSide'
    BY <2>1, <2>4, WatchersStay
       DEF IInv, WatcherSide, PipesOK, SweepsOK, queueVars
  <2>6. QueueOK' /\ DuplicatesOverlap'
    BY <2>4, JobsStay DEF JobsAdvance
  <2>7. JobsHaveMakers' /\ NoJobYet'
    BY <2>1 DEF IInv, FileSide, JobsHaveMakers, NoJobYet, NoMatch, Present, queueVars
  <2>8. PollsAreTrue'
    BY <2>1, <2>3 DEF IInv, FileSide, PollsAreTrue, Watched
  <2> QED
    BY <2>3, <2>5, <2>6, <2>7, <2>8 DEF IInv, FileSide
<1> QED
  BY <1>2, <1>3, <1>4, <1>5

\* The queue and the workers.
LEMMA JobMovesKeeps ==
  ASSUME IInv, NEW j \in DOMAIN jobs, NEW stage \in {"Active", "Finished", "Stopped"},
         JobMoves(j, stage)
  PROVE  IInv'
<1>1. /\ jobs[j].stage # "Absent" /\ SetStage(j, stage)
      /\ disk' = disk \/ disk' = disk \union {jobs[j].out}
      /\ UNCHANGED <<running, row, nextID, table, runtimes, pipe, sweeps, requests, asked,
                     overlap, files, queueRuns>>
  BY DEF JobMoves, MemoryStays, memory
<1>2. QueueOK /\ queueRuns' \in BOOLEAN
  BY <1>1 DEF IInv, FileSide, QueueOK
<1>3. JobsAdvance
  BY <1>1, <1>2, StageIsSet
<1>4. WatchersLeftAlone
  BY <1>1 DEF WatchersLeftAlone, IInv, WatcherSide, RuntimesOK
<1>5. SweepsOK'
  BY <1>1, <1>3, <1>4, JobsStay DEF IInv, WatcherSide, SweepsOK, JobsAdvance
<1> QED
  BY <1>1, <1>3, <1>4, <1>5, PipesStay

-----------------------------------------------------------------------------
(* The theorems. *)

\* The invariant holds at the start.
LEMMA InitIInv ==
  ASSUME Init
  PROVE  IInv
<1>1. /\ ~running /\ running \in BOOLEAN /\ runtimes = <<>> /\ pipe = NoPipes
      /\ sweeps = {} /\ requests = {} /\ asked = 0 /\ overlap = FALSE
      /\ disk = {} /\ jobs = <<>> /\ queueRuns = FALSE
      /\ files = [f \in Files |-> NoFile]
      /\ table = [w \in WatcherIDs |-> 0]
      /\ nextID \in 1 .. NWatchers + 1
      /\ row \in [WatcherIDs -> Presets \union {NoRow}]
      /\ \A w \in WatcherIDs : w >= nextID => row[w] = NoRow
  BY DEF Init
<1>2. RuntimesOK /\ Len(runtimes) = 0 /\ DOMAIN runtimes = {}
  BY <1>1, WatchersAssumption DEF RuntimesOK, WatchersAssumption
<1>3. TablesOK
  <2>1. table \in [WatcherIDs -> 0 .. Len(runtimes)]
    BY <1>1, <1>2
  <2> QED
    BY <1>1, <2>1 DEF TablesOK
<1>4. pipe \in [Runtimes -> [Files -> Pipes]]
      /\ \A r \in Runtimes, f \in Files : pipe[r][f].at = "none"
  <2>1. \A r \in Runtimes, f \in Files : pipe[r][f] = Idle
    BY <1>1 DEF NoPipes
  <2>2. pipe \in [Runtimes -> [Files -> Pipes]]
    BY <1>1, IdleType DEF NoPipes
  <2>3. Idle.at = "none"
    BY DEF Idle
  <2> QED
    BY <2>1, <2>2, <2>3
<1>5. WatcherSide
  BY <1>1, <1>2, <1>3, <1>4
     DEF WatcherSide, PipesOK, SweepsOK, RequestsAreHandled, Listeners
<1>6. FilesOK
  BY <1>1 DEF FilesOK, NoFile
<1>7. QueueOK /\ DOMAIN jobs = {}
  <2>1. jobs \in Seq(JobRecords) /\ Len(jobs) = 0 /\ DOMAIN jobs = {}
    BY <1>1
  <2> QED
    <3>1. MaxJobs \in Nat
      BY WatchersAssumption DEF WatchersAssumption
    <3>2. queueRuns \in BOOLEAN /\ disk = {}
      BY <1>1
    <3>3. Len(jobs) <= MaxJobs
      BY <2>1, <3>1
    <3> QED
      BY <2>1, <3>2, <3>3 DEF QueueOK
<1>8. JobsHaveMakers /\ NoJobYet /\ DuplicatesOverlap /\ PollsAreTrue
  BY <1>4, <1>7
     DEF JobsHaveMakers, NoJobYet, DuplicatesOverlap, PollsAreTrue, Present
<1> QED
  BY <1>5, <1>6, <1>7, <1>8 DEF IInv, FileSide

\* Every step preserves it.
LEMMA NextIInv ==
  ASSUME IInv, [Next]_vars
  PROVE  IInv'
<1>1. Kept => IInv'
  BY FileSideStays DEF Kept, IInv, WatcherSide
<1>2. CASE Restart
  BY <1>1, <1>2, RestartKeeps DEF IInv
<1>3. CASE RequestNext
  BY <1>1, <1>3, RequestNextKeeps DEF IInv
<1>4. CASE \E r \in DOMAIN runtimes :
             \/ Scans(r)
             \/ \E f \in Files : Detects(r, f) \/ Loses(r, f) \/ PipeStep(r, f)
  BY <1>4, ScansKeeps, DetectsKeeps, LosesKeeps, PipeStepKeeps
<1>5. CASE \E sw \in sweeps : Sweeps(sw)
  BY <1>5, SweepsKeeps
<1>6. CASE \E f \in Files :
             FileAppears(f) \/ FileGrows(f) \/ FileIsRewritten(f) \/ FileDisappears(f)
  BY <1>6, FileStepKeeps
<1>7. CASE \E j \in DOMAIN jobs, stage \in {"Active", "Finished", "Stopped"} : JobMoves(j, stage)
  BY <1>7, JobMovesKeeps
<1>8. CASE UNCHANGED vars
  <2>1. UNCHANGED <<running, row, nextID, table, runtimes, pipe, sweeps, requests, asked,
                    overlap, files, disk, jobs, queueRuns>>
    BY <1>8 DEF vars
  <2> QED
    BY <2>1 DEF IInv, WatcherSide, FileSide, RuntimesOK, TablesOK, RequestsAreHandled,
       PipesOK, SweepsOK, Listeners, Matched, TableMatches, RequestsMatch, NoListener,
       FilesOK, QueueOK, JobsHaveMakers, NoJobYet, NoMatch, DuplicatesOverlap,
       PollsAreTrue, Present
<1> QED
  BY <1>2, <1>3, <1>4, <1>5, <1>6, <1>7, <1>8 DEF Next

\* The inductive invariant is one.
LEMMA AlwaysIInv == Spec => []IInv
<1>1. Init => IInv
  BY InitIInv
<1>2. IInv /\ [Next]_vars => IInv'
  BY NextIInv
<1> QED
  BY <1>1, <1>2, PTL DEF Spec

\* The types: a request uses a row only while it is there, a name is always found,
\* and a deletion handles jobs that were made.
THEOREM WatcherTypes == Spec => []TypeOK
<1>1. IInv => TypeOK
  <2> SUFFICES ASSUME IInv PROVE TypeOK
    OBVIOUS
  <2>1. nextID \in Nat
    BY DEF IInv, WatcherSide, TablesOK
  <2>2. \A q \in requests : q.kind \in {"add", "update", "rules", "remove"}
    BY DEF IInv, WatcherSide, RequestsAreHandled, Handled, Carries
  <2> QED
    BY <2>1, <2>2 DEF IInv, WatcherSide, FileSide, RuntimesOK, TablesOK, PipesOK, SweepsOK,
       FilesOK, QueueOK, TypeOK, RuntimeRecords, JobRecords
<1> QED
  BY <1>1, AlwaysIInv, PTL

\* A file gets a second job with a preset only from another registration, of the same
\* watcher or of another, that had looked for a match before the first was added;
\* whatever happens to the file while it waits, is probed or is added.
THEOREM SecondJobsOverlap == Spec => []DuplicatesOverlap
<1>1. IInv => DuplicatesOverlap
  BY DEF IInv, FileSide
<1> QED
  BY <1>1, AlwaysIInv, PTL

\* Unless two requests have overlapped, the listeners are those of the table, each
\* with the configuration of its row.
THEOREM ListenersAreRows == Spec => []ListenersMatchRows
<1>1. IInv => ListenersMatchRows
  BY DEF IInv, WatcherSide, Listeners, ListenersMatchRows, Matched, TableMatches
<1> QED
  BY <1>1, AlwaysIInv, PTL

\* One pending file goes on: the others stay.
LEMMA OthersStay ==
  ASSUME IInv, NEW s \in DOMAIN runtimes, NEW g \in Files, NEW p, Goes(s, g, p)
  PROVE  /\ pipe'[s][g] = p
         /\ \A r \in Runtimes, f \in Files : r # s \/ f # g => pipe'[r][f] = pipe[r][f]
<1>1. s \in Runtimes /\ pipe \in [Runtimes -> [Files -> Pipes]]
  BY PipeType DEF IInv, WatcherSide, PipesOK
<1>2. pipe' = [pipe EXCEPT ![s][g] = p]
  BY DEF Goes
<1> QED
  BY <1>1, <1>2

\* The stat that finds a file ready ends a complete quiet period.
LEMMA ReadyIsQuiet ==
  ASSUME IInv, NEW r \in DOMAIN runtimes, NEW f \in Files, StatEnds(r, f),
         pipe'[r][f].at = "probe"
  PROVE  pipe[r][f].quiet >= Stability
<1> DEFINE p == pipe[r][f]
           x == WithAt(p, "sleep")
           y == WithStats(x, Stats(f))
<1>1. /\ p.at = "stat" /\ p \in Pipes /\ Stats(f) \in Nat \X Nat
      /\ Stats(f) = <<files[f].size, files[f].mtime>>
  BY PipeType DEF StatEnds, At
<1>2. Watched(p, files[f])
  BY <1>1, PipeType DEF IInv, FileSide, PollsAreTrue
<1>3. CASE SameStats(p, f) /\ p.age >= Stability
  BY <1>1, <1>2, <1>3, WatchersAssumption DEF SameStats, Watched, Pipes, WatchersAssumption
<1>4. CASE Ends(r, f)
  <2>1. Idle.at = "none"
    BY DEF Idle
  <2> QED
    BY <1>4, <2>1, OthersStay DEF Ends
<1>5. CASE Goes(r, f, [p EXCEPT !.at = "sleep", !.stats = Stats(f),
                                !.age = IF SameStats(p, f) THEN @ ELSE 0])
  <2> DEFINE age == IF SameStats(p, f) THEN p.age ELSE 0
             slept == WithAge(y, age)
  <2>1. Goes(r, f, slept)
    BY <1>5, Zenon DEF WithAt, WithStats, WithAge
  <2>2. x \in Pipes /\ x.at = "sleep"
    BY <1>1 DEF Pipes, WithAt
  <2> HIDE DEF x
  <2>3. y \in Pipes /\ y.at = "sleep"
    BY <1>1, <2>2 DEF Pipes, WithStats
  <2> HIDE DEF y, age
  <2>4. slept.at = "sleep"
    BY <2>3, PipeFields
  <2> HIDE DEF slept
  <2> QED
    BY <2>1, <2>4, OthersStay
<1> QED
  BY <1>3, <1>4, <1>5 DEF StatEnds

\* Every other step of a pending file leaves one that is not being looked at, or the
\* file is not in a stat.
LEMMA OtherPipeSteps ==
  ASSUME IInv, NEW s \in DOMAIN runtimes, NEW g \in Files, PipeStep(s, g),
         NEW r \in Runtimes, NEW f \in Files,
         pipe[r][f].at = "stat", pipe'[r][f].at = "probe"
  PROVE  r = s /\ f = g /\ StatEnds(r, f)
<1>1. \E p : Goes(s, g, p)
  BY DEF PipeStep, StatEnds, TimerFires, ProbeEnds, Rejected, NameFound, JobAdded, CheckFails,
     OfferEnds, Ends, GoesTo
<1>2. r = s /\ f = g
  BY <1>1, OthersStay
<1>3. StatEnds(s, g)
  BY <1>2 DEF PipeStep, TimerFires, ProbeEnds, NameFound, JobAdded, CheckFails, OfferEnds, At
<1> QED
  BY <1>2, <1>3

\* Only a stat that ends makes a file ready.
LEMMA ProbedIsQuiet ==
  ASSUME IInv, Next, NEW r \in Runtimes, NEW f \in Files,
         pipe[r][f].at = "stat", pipe'[r][f].at = "probe"
  PROVE  pipe[r][f].quiet >= Stability
<1>1. pipe'[r][f] # Idle /\ pipe'[r][f] # pipe[r][f]
  BY DEF Idle
<1>2. pipe \in [Runtimes -> [Files -> Pipes]]
  BY DEF IInv, WatcherSide, PipesOK
<1>3. CASE Restart \/ RequestNext
  <2>1. FilesLeftAlone
    BY <1>3, RestartKeeps, RequestNextKeeps DEF Kept, IInv
  <2> QED
    BY <1>1, <2>1 DEF FilesLeftAlone
<1>4. CASE pipe' = pipe
  BY <1>1, <1>4
<1>5. ASSUME NEW s \in DOMAIN runtimes, NEW g \in Files, Detects(s, g) PROVE FALSE
  <2> DEFINE p == WithAt(Idle, "stat")
  <2>1. pipe' = pipe \/ pipe' = [pipe EXCEPT ![s][g] = p]
    BY <1>5 DEF Detects, WithAt
  <2>2. p.at = "stat"
    BY IdleType, PipeFields
  <2> HIDE DEF p
  <2>3. s \in Runtimes
    BY PipeType
  <2> QED
    BY <1>1, <1>2, <2>1, <2>2, <2>3
<1>6. ASSUME NEW s \in DOMAIN runtimes, NEW g \in Files, PipeStep(s, g)
      PROVE  pipe[r][f].quiet >= Stability
  BY <1>6, OtherPipeSteps, ReadyIsQuiet
<1>7. ASSUME NEW g \in Files, NEW file, FileChanges(g, file) PROVE FALSE
  <2>1. pipe'[r] = [pipe[r] EXCEPT ![g] =
          IF pipe[r][g].at \in {"stat", "sleep"}
            THEN WithPart(WithQuiet(pipe[r][g], 0), pipe[r][g].at = "sleep") ELSE pipe[r][g]]
    <3>1. pipe' = Disturbed(g)
      BY <1>7 DEF FileChanges
    <3>2. pipe' = [q \in Runtimes |-> [pipe[q] EXCEPT ![g] =
            IF pipe[q][g].at \in {"stat", "sleep"}
              THEN WithPart(WithQuiet(pipe[q][g], 0), pipe[q][g].at = "sleep")
              ELSE pipe[q][g]]]
      BY <3>1, Zenon DEF Disturbed, WithPart, WithQuiet
    <3> QED
      BY <3>2
  <2> DEFINE x == WithQuiet(pipe[r][g], 0)
             b == pipe[r][g].at = "sleep"
  <2>2. 0 \in 0 .. Stability /\ pipe[r][g] \in Pipes /\ pipe[r] \in [Files -> Pipes]
    BY <1>2, WatchersAssumption DEF WatchersAssumption
  <2>3. x \in Pipes /\ x.at = pipe[r][g].at
    BY <2>2 DEF Pipes, WithQuiet
  <2> HIDE DEF x, b
  <2>4. WithPart(x, b).at = pipe[r][g].at
    BY <2>3, PipeFields
  <2>5. pipe'[r] = [pipe[r] EXCEPT ![g] =
          IF pipe[r][g].at \in {"stat", "sleep"} THEN WithPart(x, b) ELSE pipe[r][g]]
    BY <2>1 DEF x, b
  <2> QED
    BY <1>1, <2>2, <2>4, <2>5
<1>8. CASE \E g \in Files :
             FileAppears(g) \/ FileGrows(g) \/ FileIsRewritten(g) \/ FileDisappears(g)
  <2>1. PICK g \in Files :
          FileAppears(g) \/ FileGrows(g) \/ FileIsRewritten(g) \/ FileDisappears(g)
    BY <1>8
  <2>2. (\E file : FileChanges(g, file)) \/ pipe' = pipe
    BY <2>1 DEF FileAppears, FileGrows, FileIsRewritten, FileDisappears, MemoryStays, memory
  <2> QED
    BY <1>4, <1>7, <2>2
<1>9. CASE \/ \E s \in DOMAIN runtimes : Scans(s) \/ \E g \in Files : Loses(s, g)
           \/ \E sw \in sweeps : Sweeps(sw)
           \/ \E j \in DOMAIN jobs, stage \in {"Active", "Finished", "Stopped"} :
                JobMoves(j, stage)
  BY <1>4, <1>9 DEF Scans, Loses, Sweeps, SweepStays, JobMoves, MemoryStays, memory
<1> QED
  BY <1>3, <1>5, <1>6, <1>8, <1>9 DEF Next

\* A job is made only of a file whose size and modification time were unchanged for
\* the whole quiet period (WaitForFileReady).
THEOREM JobsOfQuietFiles == Spec => OnlyQuietFiles
<1> DEFINE Quiet ==
             \A r \in Runtimes, f \in Files :
               pipe[r][f].at = "stat" /\ pipe'[r][f].at = "probe" =>
                 pipe[r][f].quiet >= Stability
<1>1. IInv /\ [Next]_vars => [Quiet]_vars
  <2> SUFFICES ASSUME IInv, Next PROVE Quiet
    BY Zenon
  <2> QED
    BY ProbedIsQuiet
<1> QED
  BY <1>1, AlwaysIInv, PTL DEF Spec, OnlyQuietFiles

=============================================================================
