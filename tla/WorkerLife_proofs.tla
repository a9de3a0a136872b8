--------------------------- MODULE WorkerLife_proofs ---------------------------
(***************************************************************************)
(* The retry controller of the worker never races itself, waits as long as *)
(* the outage asks for, and is quiet once it is stopped: for every base    *)
(* and maximum of the delay, every random number, and any number of        *)
(* faults.                                                                 *)
(***************************************************************************)
EXTENDS WorkerLife, TLAPS

-----------------------------------------------------------------------------
(* Arithmetic. *)

\* The least of two numbers.
LEMMA MinOfTwo ==
  ASSUME NEW a \in Int, NEW b \in Int
  PROVE  Min({a, b}) = IF a <= b THEN a ELSE b
<1>1. \E x \in {a, b} : \A y \in {a, b} : x <= y
  OBVIOUS
<1>2. Min({a, b}) \in {a, b} /\ \A y \in {a, b} : Min({a, b}) <= y
  BY <1>1 DEF Min
<1> QED
  BY <1>2

\* The greater of two numbers.
LEMMA MaxOfTwo ==
  ASSUME NEW a \in Int, NEW b \in Int
  PROVE  Max({a, b}) = IF a <= b THEN b ELSE a
<1>1. \E x \in {a, b} : \A y \in {a, b} : x >= y
  OBVIOUS
<1>2. Max({a, b}) \in {a, b} /\ \A y \in {a, b} : Max({a, b}) >= y
  BY <1>1 DEF Max
<1> QED
  BY <1>2

\* The powers a delay is made of are positive.
LEMMA PowersArePositive ==
  ASSUME NEW n \in 0 .. MaxAttempt
  PROVE  2 ^ n \in Nat \ {0}
<1>1. \/ n = 0 \/ n = 1 \/ n = 2 \/ n = 3 \/ n = 4 \/ n = 5 \/ n = 6 \/ n = 7 \/ n = 8
      \/ n = 9 \/ n = 10 \/ n = 11 \/ n = 12 \/ n = 13 \/ n = 14 \/ n = 15 \/ n = 16
  BY DEF MaxAttempt
<1> DEFINE Power(m) == 2 ^ m
<1>2. /\ Power(0) = 1 /\ Power(1) = 2 /\ Power(2) = 4 /\ Power(3) = 8 /\ Power(4) = 16
      /\ Power(5) = 32 /\ Power(6) = 64 /\ Power(7) = 128 /\ Power(8) = 256
  OBVIOUS
<1>3. /\ Power(9) = 512 /\ Power(10) = 1024 /\ Power(11) = 2048 /\ Power(12) = 4096
      /\ Power(13) = 8192 /\ Power(14) = 16384 /\ Power(15) = 32768 /\ Power(16) = 65536
  OBVIOUS
<1> HIDE DEF Power
<1>4. Power(n) \in Nat \ {0}
  BY <1>1, <1>2, <1>3
<1> QED
  BY <1>4 DEF Power

\* Without jitter the delay is positive, at most the maximum, and does not change
\* after MaxAttempt failures.
LEMMA ExponentialDelayType ==
  ASSUME NEW n \in 0 .. MaxOutage
  PROVE  /\ ExponentialDelay(n) \in 1 .. MaxDelay
         /\ ExponentialDelay(n) = ExponentialDelay(Min({n, MaxAttempt}))
<1> DEFINE k == Min({n, MaxAttempt})
<1>1. k \in 0 .. MaxAttempt /\ Min({k, MaxAttempt}) = k
  BY MinOfTwo DEF MaxOutage, MaxAttempt
<1>2. 2 ^ k \in Nat \ {0}
  BY <1>1, PowersArePositive
<1> DEFINE p == 2 ^ k
<1>3. BaseDelay * p \in Nat \ {0}
  <2> HIDE DEF p
  <2>1. p \in Nat \ {0}
    BY <1>2 DEF p
  <2> QED
    BY <2>1, RetryAssumption
<1>4. Min({BaseDelay * p, MaxDelay}) \in 1 .. MaxDelay
  BY <1>3, MinOfTwo, RetryAssumption
<1>5. ExponentialDelay(n) = Min({BaseDelay * p, MaxDelay})
  BY DEF ExponentialDelay
<1>6. ExponentialDelay(k) = Min({BaseDelay * p, MaxDelay})
  BY <1>1, Zenon DEF ExponentialDelay
<1> QED
  BY <1>4, <1>5, <1>6

\* A delay d that is right after n failed attempts.
Fitting(d, n) ==
  /\ 100 * d >= 80 * ExponentialDelay(n) - 100
  /\ 100 * d <= 120 * ExponentialDelay(n) + 100
  /\ d \in 1 .. MaxDelay

\* GetConnectionRetryDelayMs keeps what DelayFollowsOutage asks for.
LEMMA DelayFits ==
  ASSUME NEW n \in 0 .. MaxOutage, NEW random \in Randoms
  PROVE  Fitting(Delay(Min({n, MaxAttempt}), random), n)
<1> DEFINE e == ExponentialDelay(n)
           x == e * (8000 + 40 * random)
           j == (x + 5000) \div 10000
<1>1. e \in 1 .. MaxDelay /\ e = ExponentialDelay(Min({n, MaxAttempt}))
  BY ExponentialDelayType
<1>2. MaxDelay \in Nat \ {0} /\ random \in 0 .. 100
  BY RetryAssumption
<1>3. x \in Int /\ 8000 * e <= x /\ x <= 12000 * e
  <2> HIDE DEF e
  <2> QED
    BY <1>1, <1>2
<1>4. j \in Int /\ 10000 * j <= x + 5000 /\ x + 5000 < 10000 * j + 10000
  <2> HIDE DEF x
  <2> QED
    BY <1>3
<1> DEFINE k == Min({n, MaxAttempt})
           f == ExponentialDelay(k)
<1>5. Delay(k, random) = Max({1, Min({MaxDelay, j})})
  <2>1. Delay(k, random) = Max({1, Min({MaxDelay, (f * (8000 + 40 * random) + 5000) \div 10000})})
    BY DEF Delay
  <2>2. e = f
    BY <1>1
  <2> HIDE DEF e, f, k
  <2> QED
    BY <2>1, <2>2
<1>6. Max({1, Min({MaxDelay, j})}) = IF j > MaxDelay THEN MaxDelay ELSE IF j < 1 THEN 1 ELSE j
  <2> HIDE DEF j
  <2>1. Min({MaxDelay, j}) = IF MaxDelay <= j THEN MaxDelay ELSE j
    BY <1>2, <1>4, MinOfTwo
  <2>2. Min({MaxDelay, j}) \in Int
    BY <1>2, <1>4, <2>1
  <2>3. Max({1, Min({MaxDelay, j})})
          = IF 1 <= Min({MaxDelay, j}) THEN Min({MaxDelay, j}) ELSE 1
    BY <2>2, MaxOfTwo
  <2> QED
    BY <1>2, <1>4, <2>1, <2>3
<1>7. ASSUME NEW d, d = IF j > MaxDelay THEN MaxDelay ELSE IF j < 1 THEN 1 ELSE j
      PROVE  Fitting(d, n)
  <2> HIDE DEF e, x, j
  <2>1. e >= 1 /\ e <= MaxDelay /\ e \in Int
    BY <1>1
  <2>2. 100 * d >= 80 * e - 100 /\ 100 * d <= 120 * e + 100 /\ d \in 1 .. MaxDelay
    BY <1>2, <1>3, <1>4, <1>7, <2>1
  <2> QED
    BY <2>2 DEF Fitting, e
<1> QED
  BY <1>5, <1>6, <1>7

-----------------------------------------------------------------------------
(* The controller. *)

Controllers ==
  [attempt : 0 .. MaxAttempt, handle : BOOLEAN, timers : 0 .. 2, delay : 0 .. MaxDelay,
   stopped : BOOLEAN]

\* A controller k after n failed attempts: its handle stands for the only timer, a
\* stopped one has none, and a pending one waits as long as it should.
Kept(k, n) ==
  /\ k \in Controllers /\ n \in 0 .. MaxOutage
  /\ k.timers = IF k.handle THEN 1 ELSE 0
  /\ k.stopped => ~k.handle
  /\ ~k.stopped => k.attempt = Min({n, MaxAttempt})
  /\ k.handle => n > 0 /\ Fitting(k.delay, n - 1)

\* The updates below lead from controllers to controllers.
LEMMA ControllerUpdates ==
  ASSUME NEW k \in Controllers
  PROVE  /\ \A a \in 0 .. MaxAttempt : [k EXCEPT !.attempt = a] \in Controllers
         /\ \A s \in BOOLEAN : [k EXCEPT !.stopped = s] \in Controllers
         /\ \A h \in BOOLEAN, t \in 0 .. 2 :
              /\ [k EXCEPT !.handle = h, !.timers = t] \in Controllers
              /\ \A a \in 0 .. MaxAttempt, d \in 0 .. MaxDelay :
                   [k EXCEPT !.attempt = a, !.handle = h, !.timers = t, !.delay = d]
                     \in Controllers
BY DEF Controllers

\* Without its timer a controller is as before.
LEMMA ClearedController ==
  ASSUME NEW k \in Controllers, k.timers = IF k.handle THEN 1 ELSE 0
  PROVE  LET f == ClearTimer(k)
         IN  /\ f \in Controllers /\ f.timers = 0 /\ f.handle = FALSE
             /\ f.attempt = k.attempt /\ f.stopped = k.stopped
<1>1. CASE k.handle
  <2> DEFINE f == [k EXCEPT !.handle = FALSE, !.timers = 0]
  <2>1. f \in Controllers
    <3>1. FALSE \in BOOLEAN /\ 0 \in 0 .. 2
      OBVIOUS
    <3> QED
      BY <3>1, ControllerUpdates, Zenon
  <2>2. ClearTimer(k) = f
    BY <1>1 DEF ClearTimer
  <2>3. f.timers = 0 /\ f.handle = FALSE /\ f.attempt = k.attempt /\ f.stopped = k.stopped
    BY DEF Controllers
  <2> QED
    BY <2>1, <2>2, <2>3, Zenon
<1>2. CASE ~k.handle
  BY <1>2 DEF ClearTimer, Controllers
<1> QED
  BY <1>1, <1>2

\* A controller starts without attempts and timers.
LEMMA NewControllerKept ==
  /\ Kept(NewController, 0) /\ ~NewController.handle /\ ~NewController.stopped
BY MinOfTwo, RetryAssumption
   DEF Kept, NewController, Controllers, MaxAttempt, MaxOutage

\* A connection clears the timer and begins a new count.
LEMMA RestoredKept ==
  ASSUME NEW k, NEW n, Kept(k, n)
  PROVE  /\ Kept(Restored(k), 0) /\ ~Restored(k).handle
         /\ Restored(k).stopped = k.stopped
<1> DEFINE f == Restored(k)
<1>1. k \in Controllers /\ k.timers = IF k.handle THEN 1 ELSE 0
  BY DEF Kept
<1>2. /\ f \in Controllers /\ f.timers = 0 /\ f.handle = FALSE /\ f.attempt = 0
      /\ f.stopped = k.stopped
  <2> DEFINE g == ClearTimer(k)
  <2>1. /\ g \in Controllers /\ g.timers = 0 /\ g.handle = FALSE /\ g.stopped = k.stopped
    BY <1>1, ClearedController
  <2>2. 0 \in 0 .. MaxAttempt
    BY DEF MaxAttempt
  <2>3. f = [g EXCEPT !.attempt = 0]
    BY DEF Restored
  <2> HIDE DEF f, g
  <2>4. f \in Controllers
    BY <2>1, <2>2, <2>3, ControllerUpdates, Zenon
  <2> QED
    BY <2>1, <2>3, <2>4 DEF Controllers
<1>3. 0 \in 0 .. MaxOutage /\ Min({0, MaxAttempt}) = 0
  BY MinOfTwo DEF MaxAttempt, MaxOutage
<1> HIDE DEF f
<1>4. Kept(f, 0)
  BY <1>2, <1>3 DEF Kept
<1> QED
  BY <1>2, <1>4 DEF f

\* A stop clears the timer for good.
LEMMA StopKept ==
  ASSUME NEW k, NEW n, Kept(k, n)
  PROVE  Kept(Stop(k), n) /\ ~Stop(k).handle /\ Stop(k).stopped
<1> DEFINE f == Stop(k)
<1>1. k \in Controllers /\ k.timers = IF k.handle THEN 1 ELSE 0
  BY DEF Kept
<1>2. f \in Controllers /\ f.timers = 0 /\ f.handle = FALSE /\ f.stopped = TRUE
  <2> DEFINE g == ClearTimer(k)
  <2>1. g \in Controllers /\ g.timers = 0 /\ g.handle = FALSE
    BY <1>1, ClearedController
  <2>2. f = [g EXCEPT !.stopped = TRUE]
    BY DEF Stop
  <2> HIDE DEF f, g
  <2>3. f \in Controllers
    BY <2>1, <2>2, ControllerUpdates, Zenon
  <2> QED
    BY <2>1, <2>2, <2>3 DEF Controllers
<1>3. n \in 0 .. MaxOutage
  BY DEF Kept
<1> HIDE DEF f
<1>4. Kept(f, n)
  BY <1>2, <1>3 DEF Kept
<1> QED
  BY <1>2, <1>4 DEF f

\* The callback of the only timer leaves none.
LEMMA FiresKept ==
  ASSUME NEW k, NEW n, Kept(k, n), k.timers > 0
  PROVE  Kept(Fires(k), n) /\ ~Fires(k).handle /\ ~Fires(k).stopped /\ ~k.stopped
<1> DEFINE f == Fires(k)
<1>1. /\ k \in Controllers /\ k.timers = 1 /\ ~k.stopped
      /\ n \in 0 .. MaxOutage /\ k.attempt = Min({n, MaxAttempt})
  BY DEF Kept
<1>2. /\ f \in Controllers /\ f.timers = 0 /\ f.handle = FALSE /\ f.stopped = k.stopped
      /\ f.attempt = k.attempt
  <2>1. FALSE \in BOOLEAN /\ 0 \in 0 .. 2
    OBVIOUS
  <2>2. f = [k EXCEPT !.handle = FALSE, !.timers = 0]
    BY <1>1 DEF Fires
  <2> HIDE DEF f
  <2>3. f \in Controllers
    BY <1>1, <2>1, <2>2, ControllerUpdates, Zenon
  <2> QED
    BY <1>1, <2>2, <2>3 DEF Controllers
<1> HIDE DEF f
<1>3. Kept(f, n)
  BY <1>1, <1>2 DEF Kept
<1> QED
  BY <1>1, <1>2, <1>3 DEF f

\* A failure sets one timer, with the delay of the failures before it.
LEMMA FailedKept ==
  ASSUME NEW k, NEW n, Kept(k, n), ~k.handle, ~k.stopped, NEW random \in Randoms
  PROVE  LET f == Failed(k, random)
         IN  Kept(f, Min({n + 1, MaxOutage})) /\ f.handle /\ ~f.stopped
<1> DEFINE f == Failed(k, random)
           m == Min({n + 1, MaxOutage})
           d == Delay(k.attempt, random)
<1>1. n \in 0 .. MaxOutage /\ k.attempt = Min({n, MaxAttempt}) /\ k.timers = 0
  BY DEF Kept
<1>2. Fitting(d, n)
  BY <1>1, DelayFits
<1>3. /\ m = IF n < MaxOutage THEN n + 1 ELSE MaxOutage
      /\ m \in 1 .. MaxOutage
  BY <1>1, MinOfTwo DEF MaxOutage, MaxAttempt
<1>4. f = [k EXCEPT !.attempt = Min({k.attempt + 1, MaxAttempt}), !.handle = TRUE,
                    !.timers = 1, !.delay = d]
  BY <1>1 DEF Failed
<1>5. Min({k.attempt + 1, MaxAttempt}) = Min({m, MaxAttempt})
      /\ Min({m, MaxAttempt}) \in 0 .. MaxAttempt
  BY <1>1, <1>3, MinOfTwo DEF MaxOutage, MaxAttempt
<1>6. Fitting(d, m - 1)
  <2>1. CASE n < MaxOutage
    <3>1. m - 1 = n
      BY <1>1, <1>3, <2>1 DEF MaxOutage, MaxAttempt
    <3> QED
      BY <1>2, <3>1
  <2>2. CASE n = MaxOutage
    <3>1. ExponentialDelay(MaxOutage) = ExponentialDelay(MaxOutage - 1)
      <4>1. /\ Min({MaxOutage, MaxAttempt}) = MaxAttempt /\ MaxOutage - 1 = MaxAttempt
            /\ MaxOutage \in 0 .. MaxOutage
        BY MinOfTwo DEF MaxOutage, MaxAttempt
      <4>2. ExponentialDelay(MaxOutage) = ExponentialDelay(Min({MaxOutage, MaxAttempt}))
        BY <4>1, ExponentialDelayType
      <4> QED
        BY <4>1, <4>2
    <3>2. m = n /\ n = MaxOutage
      BY <1>1, <1>3, <2>2 DEF MaxOutage, MaxAttempt
    <3> QED
      BY <1>2, <3>1, <3>2, Zenon DEF Fitting
  <2> QED
    BY <1>1, <2>1, <2>2 DEF MaxOutage, MaxAttempt
<1>7. d \in 0 .. MaxDelay
  BY <1>2, RetryAssumption DEF Fitting
<1>8. k \in Controllers /\ k.stopped = FALSE
  BY DEF Kept, Controllers
<1> HIDE DEF d, m
<1>9. /\ f \in Controllers /\ f.timers = 1 /\ f.handle = TRUE /\ f.delay = d
      /\ f.stopped = FALSE /\ f.attempt = Min({m, MaxAttempt})
  <2>1. TRUE \in BOOLEAN /\ 1 \in 0 .. 2
    OBVIOUS
  <2> DEFINE a == Min({m, MaxAttempt})
  <2>2. a \in 0 .. MaxAttempt /\ f = [k EXCEPT !.attempt = a, !.handle = TRUE, !.timers = 1,
                                              !.delay = d]
    BY <1>4, <1>5
  <2> HIDE DEF f, a
  <2>3. f \in Controllers
    BY <1>7, <1>8, <2>1, <2>2, ControllerUpdates, Zenon
  <2>4. f.attempt = a
    BY <1>8, <2>2 DEF Controllers
  <2>5. /\ f.timers = 1 /\ f.handle = TRUE /\ f.delay = d /\ f.stopped = FALSE
    BY <1>8, <2>2 DEF Controllers
  <2> QED
    BY <2>3, <2>4, <2>5 DEF a
<1> HIDE DEF f
<1>10. Kept(f, m)
  BY <1>3, <1>6, <1>9 DEF Kept, MaxOutage, MaxAttempt
<1> QED
  BY <1>9, <1>10 DEF f, m

\* failed() twice for one connection is failed() once; stopped, it does nothing.
LEMMA FailedTwice ==
  ASSUME NEW k, NEW random
  PROVE  k.handle \/ k.stopped => Failed(k, random) = k
BY DEF Failed

-----------------------------------------------------------------------------
(* The inductive invariant. *)

\* The types of everything but the controller and its history.
OtherTypes ==
  /\ phase \in Phases /\ conn \in Conns /\ registered \in Entries
  /\ reporting \in [timer : BOOLEAN, live : BOOLEAN]
  /\ busy \in BOOLEAN /\ sampling \in BOOLEAN /\ up \in BOOLEAN /\ usage \in BOOLEAN
  /\ faults \in 0 .. MaxFaults

\* A pending retry and a connection exclude each other, which makes the next failure
\* the first one without a timer; only a worker that shuts down stops its controller.
IInv ==
  /\ OtherTypes
  /\ Kept(c, outage)
  /\ c.handle => conn = "idle"
  /\ c.stopped => phase = "stopping"
  /\ phase \notin {"running", "stopping"} =>
       c = NewController /\ conn = "idle" /\ outage = 0

\* The invariant holds what the run checks.
LEMMA IInvImplies == IInv => TypeOK /\ OneAttemptAtATime /\ DelayFollowsOutage
<1> SUFFICES ASSUME IInv PROVE TypeOK /\ OneAttemptAtATime /\ DelayFollowsOutage
  OBVIOUS
<1>1. /\ c \in Controllers /\ outage \in 0 .. MaxOutage
      /\ c.timers = IF c.handle THEN 1 ELSE 0
      /\ c.handle => conn = "idle" /\ Fitting(c.delay, outage - 1)
  BY DEF IInv, Kept
<1>2. TypeOK
  BY <1>1 DEF IInv, OtherTypes, TypeOK, Controllers
<1>3. OneAttemptAtATime
  BY <1>1 DEF OneAttemptAtATime
<1>4. DelayFollowsOutage
  <2> SUFFICES ASSUME c.timers > 0 PROVE Fitting(c.delay, outage - 1)
    BY DEF DelayFollowsOutage, Fitting
  <2> QED
    BY <1>1
<1> QED
  BY <1>2, <1>3, <1>4

\* A worker that was never started has an idle controller.
LEMMA InitIInv == Init => IInv
<1> SUFFICES ASSUME Init PROVE IInv
  OBVIOUS
<1>1. OtherTypes
  <2>1. reporting \in [timer : BOOLEAN, live : BOOLEAN]
    BY DEF Init, NotReporting
  <2>2. busy \in BOOLEAN /\ sampling \in BOOLEAN /\ up \in BOOLEAN /\ usage \in BOOLEAN
    BY DEF Init
  <2>3. /\ phase \in Phases /\ conn \in Conns /\ registered \in Entries
        /\ faults \in 0 .. MaxFaults
    BY LifeAssumption DEF Init, Phases, Conns, Entries
  <2> QED
    BY <2>1, <2>2, <2>3 DEF OtherTypes
<1>2. Kept(c, outage) /\ ~c.handle /\ ~c.stopped
  BY NewControllerKept, Zenon DEF Init
<1> QED
  BY <1>1, <1>2 DEF Init, IInv

\* The faults are counted.
LEMMA FaultsCounted ==
  ASSUME faults \in 0 .. MaxFaults, Fault \/ NoFault
  PROVE  faults' \in 0 .. MaxFaults
BY LifeAssumption DEF Fault, NoFault

\* An attempt begins a connection or, when it throws at once, the next delay.
LEMMA AttemptKept ==
  ASSUME NEW k, Kept(k, outage), ~k.handle, ~k.stopped, faults \in 0 .. MaxFaults,
         AttemptConnection(k)
  PROVE  /\ Kept(c', outage') /\ ~c'.stopped
         /\ c'.handle => conn' = conn
         /\ conn' \in {conn, "opening"}
         /\ faults' \in 0 .. MaxFaults
<1>1. CASE conn' = "opening" /\ c' = k /\ NoFault /\ UNCHANGED outage
  BY <1>1, FaultsCounted
<1>2. CASE /\ Fault
           /\ \E random \in Randoms : c' = Failed(k, random)
           /\ outage' = Min({outage + 1, MaxOutage})
           /\ UNCHANGED conn
  <2>1. PICK random \in Randoms : c' = Failed(k, random)
    BY <1>2
  <2>2. Kept(c', outage') /\ ~c'.stopped
    BY <1>2, <2>1, FailedKept
  <2> QED
    BY <1>2, <2>2, FaultsCounted
<1> QED
  BY <1>1, <1>2 DEF AttemptConnection

\* However often the failure of one connection is told, it counts once.
LEMMA ConnectionFailsKept ==
  ASSUME Kept(c, outage), ~c.handle, ConnectionFails
  PROVE  Kept(c', outage') /\ c'.stopped = c.stopped /\ conn' = "idle"
<1>1. PICK r1 \in Randoms, r2 \in Randoms : c' \in {Failed(c, r1), Failed(Failed(c, r1), r2)}
  BY DEF ConnectionFails
<1>2. CASE c.stopped
  <2>1. Failed(c, r1) = c /\ Failed(Failed(c, r1), r2) = c
    BY <1>2, FailedTwice
  <2> QED
    BY <1>1, <1>2, <2>1 DEF ConnectionFails
<1>3. CASE ~c.stopped
  <2>1. LET f == Failed(c, r1)
        IN  Kept(f, Min({outage + 1, MaxOutage})) /\ f.handle /\ ~f.stopped
    BY <1>3, FailedKept
  <2>2. Failed(Failed(c, r1), r2) = Failed(c, r1)
    BY <2>1, FailedTwice
  <2>3. c' = Failed(c, r1)
    BY <1>1, <2>2
  <2>4. outage' = Min({outage + 1, MaxOutage})
    BY <1>3 DEF ConnectionFails
  <2>5. c.stopped = FALSE /\ c'.stopped = FALSE
    BY <1>3, <2>1, <2>3 DEF Kept, Controllers
  <2> QED
    BY <2>1, <2>3, <2>4, <2>5 DEF ConnectionFails
<1> QED
  BY <1>2, <1>3

-----------------------------------------------------------------------------
(* The steps. *)

\* A step that leaves controller, connection and outage alone keeps the invariant if it
\* leaves a live process live.
LEMMA OthersKeep ==
  ASSUME IInv, OtherTypes', UNCHANGED <<c, conn, outage>>,
         \/ phase' = phase
         \/ phase \notin {"running", "stopping"} /\ phase' \notin {"running", "stopping"}
  PROVE  IInv'
<1>1. Kept(c, outage)' = Kept(c, outage)
  BY DEF Kept, Fitting
<1> QED
  BY <1>1 DEF IInv

\* A process that ends takes its controller with it.
LEMMA ExitsKeeps ==
  ASSUME IInv, Exits, faults' \in 0 .. MaxFaults
  PROVE  IInv'
<1>1. OtherTypes'
  <2>1. reporting' \in [timer : BOOLEAN, live : BOOLEAN]
    BY DEF Exits, NotReporting
  <2>2. busy' \in BOOLEAN /\ sampling' \in BOOLEAN /\ up' \in BOOLEAN /\ usage' \in BOOLEAN
    BY DEF Exits, IInv, OtherTypes
  <2>3. phase' \in Phases /\ conn' \in Conns /\ registered' \in Entries
    BY DEF Exits, LosesLink, IInv, OtherTypes, Phases, Conns, Entries
  <2> QED
    BY <2>1, <2>2, <2>3 DEF OtherTypes
<1>2. c' = NewController /\ outage' = 0 /\ conn' = "idle" /\ phase' = "exited"
  BY DEF Exits
<1>3. Kept(c', outage') /\ ~c'.handle /\ ~c'.stopped
  BY <1>2, NewControllerKept
<1>4. Kept(c, outage)' /\ ~c.handle' /\ ~c.stopped'
  BY <1>3 DEF Kept, Fitting
<1> QED
  BY <1>1, <1>2, <1>4 DEF IInv

\* Starting and stopping of the process, and the begin and end of its job.
LEMMA ProcessKeeps ==
  ASSUME IInv,
         \/ Boots \/ ChecksConfiguration \/ PropertiesFail \/ AddressInvalid
         \/ Killed \/ SignalWhenIdle \/ SignalWhenBusy \/ SelfStopSettles
         \/ JobStarts \/ JobEnds
  PROVE  IInv'
<1>1. faults' \in 0 .. MaxFaults
  BY FaultsCounted
     DEF Boots, ChecksConfiguration, PropertiesFail, AddressInvalid, Killed, SignalWhenIdle,
         SignalWhenBusy, SelfStopSettles, SelfStopEnds, JobStarts, JobEnds, IInv, OtherTypes
<1>2. CASE Killed \/ SignalWhenIdle \/ SelfStopSettles
  BY <1>1, <1>2, ExitsKeeps DEF Killed, SignalWhenIdle, SelfStopSettles, SelfStopEnds
<1>3. CASE Boots \/ ChecksConfiguration \/ PropertiesFail \/ AddressInvalid
  <2>1. OtherTypes' /\ UNCHANGED <<c, conn, outage>>
    BY <1>1, <1>3
       DEF Boots, ChecksConfiguration, PropertiesFail, AddressInvalid, server, IInv,
           OtherTypes, Phases
  <2>2. phase \notin {"running", "stopping"} /\ phase' \notin {"running", "stopping"}
    BY <1>3 DEF Boots, ChecksConfiguration, PropertiesFail, AddressInvalid
  <2> QED
    BY <2>1, <2>2, OthersKeep, Zenon
<1>4. CASE JobStarts \/ JobEnds
  <2>1. OtherTypes' /\ UNCHANGED <<c, conn, outage>> /\ phase' = phase
    BY <1>1, <1>4 DEF JobStarts, JobEnds, server, IInv, OtherTypes
  <2> QED
    BY <2>1, OthersKeep, Zenon
<1>5. CASE SignalWhenBusy
  <2>1. OtherTypes'
    BY <1>1, <1>5 DEF SignalWhenBusy, server, IInv, OtherTypes, Phases
  <2>2. c' = Stop(c) /\ UNCHANGED <<conn, outage>> /\ phase' = "stopping"
    BY <1>5 DEF SignalWhenBusy
  <2>3. Kept(Stop(c), outage) /\ ~Stop(c).handle
    BY StopKept DEF IInv
  <2>4. Kept(c, outage)' /\ ~c.handle'
    BY <2>2, <2>3 DEF Kept, Fitting
  <2> QED
    BY <2>1, <2>2, <2>4 DEF IInv
<1> QED
  BY <1>2, <1>3, <1>4, <1>5

\* The attempts, by the timer and by the start.
LEMMA AttemptsKeep ==
  ASSUME IInv, TimerFires \/ StartsController
  PROVE  IInv' /\ (c.stopped => ~c'.stopped)
<1>1. PICK k : /\ Kept(k, outage) /\ ~k.handle /\ ~k.stopped
               /\ AttemptConnection(k) /\ conn = "idle" /\ phase' \in {"running", "stopping"}
  <2>1. CASE TimerFires
    <3>1. c.timers > 0 /\ Kept(c, outage) /\ AttemptConnection(Fires(c))
      BY <2>1 DEF TimerFires, IInv
    <3>2. Kept(Fires(c), outage) /\ ~Fires(c).handle /\ ~Fires(c).stopped
      BY <3>1, FiresKept
    <3>3. conn = "idle" /\ phase' \in {"running", "stopping"}
      BY <2>1, <3>1 DEF TimerFires, IInv, Kept
    <3> QED
      BY <3>1, <3>2, <3>3
  <2>2. CASE StartsController
    <3>1. c = NewController /\ conn = "idle" /\ outage = 0 /\ phase' = "running"
      BY <2>2 DEF StartsController, IInv
    <3> DEFINE k == [c EXCEPT !.stopped = FALSE]
    <3>2. Kept(c, outage) /\ ~c.handle /\ ~c.stopped
      BY <3>1, NewControllerKept
    <3>3. /\ k \in Controllers /\ k.handle = c.handle /\ k.timers = c.timers
          /\ k.attempt = c.attempt /\ k.delay = c.delay /\ k.stopped = FALSE
      <4>1. c \in Controllers /\ FALSE \in BOOLEAN
        BY <3>2 DEF Kept
      <4>2. k \in Controllers
        BY <4>1, ControllerUpdates, Zenon
      <4> QED
        BY <4>1, <4>2 DEF Controllers
    <3>4. AttemptConnection(k)
      BY <2>2 DEF StartsController
    <3> HIDE DEF k
    <3>5. Kept(k, outage) /\ ~k.handle /\ ~k.stopped
      BY <3>2, <3>3 DEF Kept
    <3> QED
      BY <3>1, <3>4, <3>5
  <2> QED
    BY <2>1, <2>2
<1>2. faults \in 0 .. MaxFaults
  BY DEF IInv, OtherTypes
<1>3. /\ Kept(c', outage') /\ ~c'.stopped /\ (c'.handle => conn' = conn)
      /\ conn' \in {conn, "opening"} /\ faults' \in 0 .. MaxFaults
  BY <1>1, <1>2, AttemptKept
<1>4. OtherTypes'
  BY <1>1, <1>3 DEF TimerFires, StartsController, server, IInv, OtherTypes, Conns, Phases
<1>5. Kept(c, outage)' /\ ~c.stopped' /\ (c.handle' => conn' = conn)
  BY <1>3 DEF Kept, Fitting
<1> QED
  BY <1>1, <1>3, <1>4, <1>5 DEF IInv

\* The events of the socket, the reporter and the server.
LEMMA EventsKeep ==
  ASSUME IInv,
         \/ ConnectionSettles \/ Connects \/ Disconnects \/ LinkBreaks
         \/ IntervalFires \/ SampleEnds
         \/ ServerNotices \/ ServerDisconnects \/ ServerStops \/ ServerStarts
  PROVE  IInv'
<1>1. faults' \in 0 .. MaxFaults
  BY FaultsCounted
     DEF ConnectionSettles, Admitted, Refused, Connects, Disconnects, LinkBreaks,
         IntervalFires, SampleEnds, ServerNotices, ServerDisconnects, ServerStops,
         ServerStarts, IInv, OtherTypes
<1>2. Kept(c, outage) /\ (conn # "idle" => ~c.handle)
      /\ (phase \notin {"running", "stopping"} => conn = "idle")
  BY DEF IInv
<1>3. CASE Refused \/ Disconnects
  <2>1. conn # "idle" /\ ConnectionFails /\ phase' = phase
    BY <1>3 DEF Refused, Disconnects
  <2>2. Kept(c', outage') /\ c'.stopped = c.stopped /\ conn' = "idle"
    BY <1>2, <2>1, ConnectionFailsKept
  <2>3. reporting' \in [timer : BOOLEAN, live : BOOLEAN]
    <3>1. reporting \in [timer : BOOLEAN, live : BOOLEAN]
          /\ NotReporting \in [timer : BOOLEAN, live : BOOLEAN]
      BY DEF NotReporting, IInv, OtherTypes
    <3> QED
      BY <1>3, <3>1, Zenon DEF Refused, Disconnects, StopReporting
  <2>4. OtherTypes'
    BY <1>1, <1>3, <2>2, <2>3
       DEF Refused, Disconnects, StopReporting, server, IInv, OtherTypes, Conns
  <2>5. Kept(c, outage)' /\ c.stopped' = c.stopped
    BY <2>2 DEF Kept, Fitting
  <2> QED
    BY <1>2, <2>1, <2>2, <2>4, <2>5 DEF IInv
<1>4. CASE Connects
  <2>1. conn # "idle" /\ c' = Restored(c) /\ outage' = 0 /\ phase' = phase
        /\ conn' \in Conns
    BY <1>4 DEF Connects, Conns
  <2>2. Kept(c', outage') /\ ~c'.handle /\ c'.stopped = c.stopped
    BY <1>2, <2>1, RestoredKept
  <2>3. reporting' \in [timer : BOOLEAN, live : BOOLEAN] /\ sampling' \in BOOLEAN
    <3>1. /\ reporting \in [timer : BOOLEAN, live : BOOLEAN] /\ sampling \in BOOLEAN
          /\ [timer |-> TRUE, live |-> TRUE] \in [timer : BOOLEAN, live : BOOLEAN]
      BY DEF IInv, OtherTypes
    <3> QED
      BY <1>4, <3>1, Zenon DEF Connects, StartReporting
  <2>4. OtherTypes'
    BY <1>1, <1>4, <2>1, <2>3 DEF Connects, server, IInv, OtherTypes
  <2>5. Kept(c, outage)' /\ ~c.handle' /\ c.stopped' = c.stopped
    BY <2>2 DEF Kept, Fitting
  <2> QED
    BY <1>2, <2>1, <2>4, <2>5 DEF IInv
<1>5. CASE Admitted
  <2>1. OtherTypes'
    BY <1>1, <1>5 DEF Admitted, IInv, OtherTypes, Conns, Entries
  <2>2. UNCHANGED <<c, outage, phase>> /\ conn = "opening"
    BY <1>5 DEF Admitted
  <2>3. Kept(c, outage)' = Kept(c, outage)
    BY <2>2 DEF Kept, Fitting
  <2> QED
    BY <1>2, <2>1, <2>2, <2>3 DEF IInv
<1>6. CASE IntervalFires \/ SampleEnds
  <2>1. OtherTypes'
    <3>1. usage' \in BOOLEAN /\ sampling' \in BOOLEAN
      BY <1>6 DEF IntervalFires, SampleEnds, StoresUsage, server, IInv, OtherTypes
    <3> QED
      BY <1>1, <1>6, <3>1 DEF IntervalFires, SampleEnds, server, IInv, OtherTypes
  <2>2. UNCHANGED <<c, conn, outage>> /\ phase' = phase
    BY <1>6 DEF IntervalFires, SampleEnds
  <2> QED
    BY <2>1, <2>2, OthersKeep, Zenon
<1>7. CASE LinkBreaks \/ ServerNotices \/ ServerDisconnects \/ ServerStops \/ ServerStarts
  <2>1. OtherTypes'
    BY <1>1, <1>7
       DEF LinkBreaks, LosesLink, ServerNotices, ServerDisconnects, ServerStops,
           ServerStarts, worker, IInv, OtherTypes, Entries
  <2>2. UNCHANGED <<c, conn, outage>> /\ phase' = phase
    BY <1>7
       DEF LinkBreaks, ServerNotices, ServerDisconnects, ServerStops, ServerStarts, worker
  <2> QED
    BY <2>1, <2>2, OthersKeep, Zenon
<1> QED
  BY <1>3, <1>4, <1>5, <1>6, <1>7 DEF ConnectionSettles

\* Every step keeps the invariant.
LEMMA NextIInv == IInv /\ [Next]_vars => IInv'
<1> SUFFICES ASSUME IInv, [Next]_vars PROVE IInv'
  OBVIOUS
<1>1. CASE UNCHANGED vars
  <2>1. OtherTypes' /\ UNCHANGED <<c, conn, outage>> /\ phase' = phase
    BY <1>1 DEF vars, worker, server, IInv, OtherTypes
  <2> QED
    BY <2>1, OthersKeep, Zenon
<1> QED
  BY <1>1, ProcessKeeps, AttemptsKeep, EventsKeep DEF Next

-----------------------------------------------------------------------------
(* The theorems. *)

\* The process, its controller and the server keep their types; the counter of the
\* timers that fire does, too, which failed() alone does not ensure.
THEOREM WorkerTypesHold == Spec => []TypeOK
BY InitIInv, NextIInv, IInvImplies, PTL DEF Spec

\* However a connection fails, the controller has one pending retry at most, and none
\* while there is a connection.
THEOREM RetriesDoNotRace == Spec => []OneAttemptAtATime
BY InitIInv, NextIInv, IInvImplies, PTL DEF Spec

\* A pending retry waits as long as the failures since the last connection ask for,
\* whatever the base and the maximum of the delay are.
THEOREM RetriesFollowOutage == Spec => []DelayFollowsOutage
BY InitIInv, NextIInv, IInvImplies, PTL DEF Spec

\* A step that keeps the controller stopped begins no connection and leaves no timer.
LEMMA QuietStep ==
  ASSUME IInv, IInv', [Next]_vars, c.stopped, c'.stopped
  PROVE  c'.timers = 0 /\ (conn' = "opening" => conn = "opening")
<1>1. c'.timers = 0
  BY DEF IInv, Kept
<1>2. ~(TimerFires \/ StartsController)
  BY AttemptsKeep
<1>3. conn' = "opening" => conn = "opening"
  BY <1>2
     DEF Next, vars, worker, server, Boots, ChecksConfiguration, PropertiesFail,
         AddressInvalid, Killed, SignalWhenIdle, SignalWhenBusy, SelfStopSettles,
         SelfStopEnds, Exits, JobStarts, JobEnds, ConnectionSettles, Admitted, Refused,
         Connects, Disconnects, ConnectionFails, LinkBreaks, IntervalFires, SampleEnds,
         ServerNotices, ServerDisconnects, ServerStops, ServerStarts
<1> QED
  BY <1>1, <1>3

\* A worker that shuts down does not come back, however long the stop of its job takes
\* and whatever becomes of its connection meanwhile.
THEOREM StoppedWorkersAreQuiet == Spec => StoppedIsQuiet
<1> DEFINE Quiet == c.stopped /\ c'.stopped =>
                      c'.timers = 0 /\ (conn' = "opening" => conn = "opening")
<1>1. IInv /\ IInv' /\ [Next]_vars => Quiet
  BY QuietStep
<1>2. IInv /\ IInv' /\ [Next]_vars => [Quiet]_vars
  BY <1>1
<1> QED
  BY <1>2, InitIInv, NextIInv, PTL DEF Spec, StoppedIsQuiet

=============================================================================
