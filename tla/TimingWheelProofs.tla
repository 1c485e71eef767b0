-------------------------- MODULE TimingWheelProofs --------------------------
(***************************************************************************)
(* Proofs about TimingWheel, for any number of timers and of calls of      *)
(* Stop, any tick, wheel size, delays, start and horizon: first what every *)
(* schedule keeps, and then what holds under prompt calls of AfterFunc:    *)
(* nothing is forgotten in a bucket, no bucket is queued twice, W never    *)
(* waits for its own mutex and, as long as W keeps up with the clock, no   *)
(* task starts early.                                                      *)
(***************************************************************************)
EXTENDS MCKeptWheel, TLAPS

-----------------------------------------------------------------------------
(* Under every schedule.                                                   *)

(* Where a goroutine is on the chain of wheels exists, and so does the     *)
(* wheel it is going to make.                                              *)
Chain ==
  /\ \A l \in 1 .. wheels : tick[l] > 0
  /\ \A p \in Procs : /\ lvl[p] <= wheels
                      /\ pc[p] = "create" => lvl[p] < Levels /\ loc[p] \in Nat

(* W inserts a timer only while it flushes a bucket, Stop is called with a *)
(* timer that AfterFunc has returned, and nothing has happened to a timer  *)
(* before AfterFunc.                                                       *)
Control ==
  /\ pc[W] # "done"
  /\ pc[W] # "idle" => wpc = "flush" /\ wt \in Timers
  /\ wpc \notin {"receive", "stopped"} => wb \in Buckets
  /\ \A s \in Stops :
       /\ spc[s] = "idle" => ~stopped[s]
       /\ spc[s] # "idle" => target[s] \in Timers /\ pc[target[s]] = "done"
       /\ spc[s] = "remove" => sb[s] \in Buckets /\ ~stopped[s]
  /\ \A t \in Timers : pc[t] = "idle" => /\ tb[t] = Nil /\ runs[t] = 0
                                         /\ Holders(t) = {}

(* The inductive invariant.                                                *)
IInv ==
  /\ TypeOK
  /\ Chain
  /\ Control
  /\ BucketAgrees
  /\ OneFate
  /\ NoTimerLost

-----------------------------------------------------------------------------
(* Arithmetic of the wheels.                                               *)
LEMMA TruncateNat == ASSUME NEW x \in Nat, NEW m \in Nat \ {0}
                     PROVE  Truncate(x, m) \in Nat
  BY DEF Truncate

LEMMA TruncateInt == ASSUME NEW x \in Int, NEW m \in Nat \ {0}
                     PROVE  Truncate(x, m) \in Int
  BY DEF Truncate

LEMMA IntervalPositive == ASSUME WheelAssumption, TypeOK, NEW l \in 1 .. Levels, tick[l] > 0
                          PROVE  Interval(l) \in Nat \ {0}
  BY DEF WheelAssumption, TypeOK, Interval

(* The bucket that a goroutine has reached is one of the wheels' buckets.  *)
LEMMA BucketInRange ==
  ASSUME TypeOK, Chain, NEW p \in Procs, TimerOf(p) \in Timers
  PROVE  BucketOf(p) \in Buckets /\ SlotOf(p) \in Int
<1>1. lvl[p] \in 1 .. Levels /\ tick[lvl[p]] \in Nat \ {0} /\ texp[TimerOf(p)] \in Nat
  BY WheelAssumption DEF TypeOK, Chain
<1>2. (texp[TimerOf(p)] \div tick[lvl[p]]) \in Nat
  BY <1>1
<1>3. (texp[TimerOf(p)] \div tick[lvl[p]]) % Size \in 0 .. Size - 1
  BY <1>2, WheelAssumption DEF WheelAssumption
<1>4. SlotOf(p) \in Int
  BY <1>1, TruncateInt DEF SlotOf
<1>5. QED
  BY <1>1, <1>3, <1>4 DEF BucketOf, Buckets

(* What Offer and Take do to the bag of buckets.                           *)
LEMMA BagOffer == ASSUME NEW q, NEW e, IsABag(q)
                  PROVE  /\ IsABag(q (+) SetToBag({e}))
                         /\ BagToSet(q (+) SetToBag({e})) = BagToSet(q) \cup {e}
  BY DEF IsABag, BagToSet, SetToBag, (+)

LEMMA BagTake == ASSUME NEW q, NEW e, IsABag(q)
                 PROVE  /\ IsABag(q (-) SetToBag({e}))
                        /\ BagToSet(q (-) SetToBag({e})) \subseteq BagToSet(q)
  BY DEF IsABag, BagToSet, SetToBag, (-)

(* A timer is held by its caller of AfterFunc, by W, or by nobody.         *)
LEMMA HolderIs ==
  ASSUME WheelAssumption, NEW t \in Timers, NEW p
  PROVE  p \in Holders(t) <=> \/ p = t /\ pc[t] \in Holding
                              \/ p = W /\ wt = t /\ pc[W] \in Holding
  BY DEF WheelAssumption, Holders, TimerOf, Procs

(* A step that moves no timer and starts or ends no hold changes nothing   *)
(* of where the timers are.                                                *)
LEMMA Frame ==
  ASSUME TypeOK, BucketAgrees, OneFate, NoTimerLost,
         UNCHANGED <<timers, tb, runs, target, stopped>>,
         pc[W] \in Holding => wt' = wt,
         \A q \in Procs : pc'[q] \in Holding <=> pc[q] \in Holding,
         \A t \in Timers : pc'[t] = "idle" <=> pc[t] = "idle"
  PROVE  /\ BucketAgrees' /\ OneFate' /\ NoTimerLost'
         /\ \A t \in Timers : Holders(t)' = Holders(t)
<1>1. ASSUME NEW t \in Timers PROVE Holders(t)' = Holders(t)
  BY WheelAssumption DEF WheelAssumption, Holders, TimerOf, Procs
<1>2. ASSUME NEW t \in Timers PROVE Stopped(t)' = Stopped(t)
  BY DEF Stopped
<1>3. BucketAgrees'
  BY DEF BucketAgrees
<1>4. OneFate'
  BY <1>2 DEF OneFate
<1>5. NoTimerLost'
  BY <1>1, <1>2 DEF NoTimerLost
<1>6. QED
  BY <1>1, <1>3, <1>4, <1>5

(* The inductive invariant holds initially.                                *)
LEMMA InitIInv == Init => IInv
<1> SUFFICES ASSUME Init PROVE IInv
  OBVIOUS
<1> USE WheelAssumption DEF WheelAssumption
<1>1. Truncate(Start, Tick) \in Nat
  BY TruncateNat
<1>2. TypeOK
  <2>1. tick \in [1 .. Levels -> Nat] /\ currentTime \in [1 .. Levels -> Nat]
    BY <1>1 DEF Init
  <2>2. /\ timers \in [Buckets -> SUBSET Timers]
        /\ expiration \in [Buckets -> Int]
        /\ tb \in [Timers -> Buckets \cup {Nil}]
    BY DEF Init
  <2>3. texp \in [Timers -> Nat] /\ runs \in [Timers -> Nat]
    BY DEF Init
  <2>4. /\ pc \in [Procs -> AddStates]
        /\ lvl \in [Procs -> 1 .. Levels]
        /\ loc \in [Procs -> Int]
    BY DEF Init, AddStates
  <2>5. /\ spc \in [Stops -> StopStates]
        /\ target \in [Stops -> Timers \cup {Nil}]
        /\ sb \in [Stops -> Buckets \cup {Nil}]
        /\ stopped \in [Stops -> BOOLEAN]
    BY DEF Init, StopStates
  <2>6. IsABag(queue) /\ BagToSet(queue) = {}
    BY DEF Init, EmptyBag, SetToBag, IsABag, BagToSet
  <2>7. closed \in BOOLEAN
    BY DEF Init
  <2>8. /\ now = Start /\ wheels = 1 /\ wpc = "receive"
        /\ taken = Nil /\ wb = Nil /\ wt = Nil
    BY DEF Init
  <2>9. now \in Nat /\ wheels \in 1 .. Levels /\ wpc \in WStates
    BY <2>8 DEF WStates
  <2>10. QED
    BY <2>1, <2>2, <2>3, <2>4, <2>5, <2>6, <2>7, <2>8, <2>9 DEF TypeOK
<1>3. \A t \in Timers : Holders(t) = {} /\ Stopped(t) = {}
  BY DEF Init, Holders, Holding, Stopped, Procs
<1>4. Chain
  BY DEF Init, Chain, Procs
<1>5. Control
  BY <1>3 DEF Init, Control, Procs
<1>6. BucketAgrees /\ OneFate /\ NoTimerLost
  BY <1>3 DEF Init, BucketAgrees, OneFate, NoTimerLost, Procs
<1>7. QED
  BY <1>2, <1>4, <1>5, <1>6 DEF IInv

-----------------------------------------------------------------------------
(* AfterFunc: the caller becomes the holder of its timer.                  *)
LEMMA AfterFuncIInv ==
  ASSUME IInv, NEW t \in Timers, NEW d \in Delays, AfterFunc(t, d)
  PROVE  IInv'
<1> USE DEF IInv
<1> USE WheelAssumption DEF WheelAssumption, clockVars, wheelVars, queueVars,
        wVars, stopVars
<1>1. t \in Procs /\ t # W /\ d \in Nat /\ pc[t] = "idle"
  BY DEF AfterFunc, Procs
<1>2. texp' \in [Timers -> Nat] /\ pc' \in [Procs -> AddStates]
  BY <1>1 DEF AfterFunc, TypeOK, AddStates
<1>3. /\ pc'[t] = "expired?"
      /\ \A q \in Procs : q # t => pc'[q] = pc[q]
  BY <1>1 DEF AfterFunc, TypeOK
<1>4. TypeOK'
  BY <1>2 DEF AfterFunc, TypeOK
<1>5. Chain'
  BY <1>3 DEF AfterFunc, Chain
<1>6. /\ \A u \in Timers : u # t => Holders(u)' = Holders(u)
      /\ Holders(t)' = {t}
  <2>1. Holders(t) = {} 
    BY <1>1 DEF Control
  <2>2. ~(wt = t /\ pc[W] \in Holding)
    BY <2>1, HolderIs
  <2>3. QED
    BY <1>1, <1>3, <2>2 DEF AfterFunc, Holders, TimerOf, Procs, Holding
<1>7. \A u \in Timers : Stopped(u)' = Stopped(u)
  BY DEF AfterFunc, Stopped
<1>8. Stopped(t) = {}
  BY <1>1 DEF Stopped, Control
<1>9. Control'
  BY <1>1, <1>3, <1>6 DEF AfterFunc, Control, Procs
<1>10. BucketAgrees' /\ OneFate'
  BY <1>7 DEF AfterFunc, BucketAgrees, OneFate
<1>11. NoTimerLost'
  BY <1>1, <1>3, <1>6, <1>7, <1>8 DEF AfterFunc, NoTimerLost, Control, Procs
<1>12. QED
  BY <1>4, <1>5, <1>9, <1>10, <1>11

(* The steps of add that neither place nor start the timer.                *)
LEMMA WalkIInv ==
  ASSUME IInv, NEW p \in Procs,
         \/ CheckInterval(p) \/ LoadOverflow(p) \/ CreateOverflow(p)
         \/ SetExpiration(p) \/ ReadExpiration(p) \/ Offer(p)
  PROVE  IInv'
<1> USE DEF IInv
<1> USE WheelAssumption DEF WheelAssumption, clockVars, wheelVars, queueVars,
        wVars, stopVars
<1>1. /\ pc[p] \notin {"idle", "done"}
      /\ TimerOf(p) \in Timers
  BY DEF CheckInterval, LoadOverflow, CreateOverflow, SetExpiration,
     ReadExpiration, Offer, Control, TimerOf, Procs
<1>2. BucketOf(p) \in Buckets /\ SlotOf(p) \in Int
  BY <1>1, BucketInRange
<1>3. /\ lvl[p] \in 1 .. Levels /\ lvl[p] <= wheels
      /\ tick[lvl[p]] \in Nat \ {0} /\ Interval(lvl[p]) \in Nat \ {0}
  <2>1. lvl[p] \in 1 .. Levels /\ lvl[p] <= wheels /\ tick[lvl[p]] \in Nat \ {0}
    BY DEF TypeOK, Chain
  <2>2. QED
    BY <2>1, IntervalPositive
<1>4. /\ pc' \in [Procs -> AddStates]
      /\ \A q \in Procs : q # p => pc'[q] = pc[q]
      /\ pc'[p] \in Holding <=> pc[p] \in Holding
      /\ p = W => pc'[p] # "done"
      /\ p # W => pc'[p] # "idle"
  <2>1. PICK s \in AddStates :
          /\ pc' = [pc EXCEPT ![p] = s]
          /\ s \in Holding <=> pc[p] \in Holding
          /\ (p = W => s # "done") /\ (p # W => s # "idle")
    <3>1. CASE CheckInterval(p)
      BY ONLY <3>1 DEF CheckInterval, AddStates, Holding
    <3>2. CASE LoadOverflow(p)
      BY ONLY <3>2 DEF LoadOverflow, AddStates, Holding
    <3>3. CASE CreateOverflow(p) \/ ReadExpiration(p)
      BY ONLY <3>3 DEF CreateOverflow, ReadExpiration, AddStates, Holding
    <3>4. CASE SetExpiration(p) \/ Offer(p)
      BY ONLY <3>4 DEF SetExpiration, Offer, Returned, AddStates, Holding
    <3>5. QED
      BY <3>1, <3>2, <3>3, <3>4
  <2>2. pc \in [Procs -> AddStates]
    BY DEF TypeOK
  <2>3. QED
    BY ONLY <2>1, <2>2, p \in Procs
<1>5. UNCHANGED <<now, closed, timers, texp, tb, runs, wpc, wb, wt, taken, spc,
                  target, sb, stopped>>
  BY DEF CheckInterval, LoadOverflow, CreateOverflow, SetExpiration,
     ReadExpiration, Offer
<1>6. BucketAgrees' /\ OneFate' /\ NoTimerLost'
      /\ \A t \in Timers : Holders(t)' = Holders(t)
  <2>1. \A q \in Procs : pc'[q] \in Holding <=> pc[q] \in Holding
    BY <1>4
  <2>2. \A t \in Timers : pc'[t] = "idle" <=> pc[t] = "idle"
    BY <1>1, <1>4 DEF Procs
  <2>3. QED
    BY <1>5, <2>1, <2>2, Frame
<1>7. Control'
  BY <1>1, <1>4, <1>5, <1>6 DEF Control, Procs
<1>8. /\ lvl \in [Procs -> 1 .. Levels] /\ loc \in [Procs -> Int]
      /\ wheels \in 1 .. Levels
      /\ tick \in [1 .. Levels -> Nat] /\ currentTime \in [1 .. Levels -> Nat]
  BY DEF TypeOK
<1>9. /\ \A l \in 1 .. wheels : tick[l] > 0
      /\ \A q \in Procs : /\ lvl[q] <= wheels
                          /\ pc[q] = "create" => lvl[q] < Levels /\ loc[q] \in Nat
  BY DEF Chain
<1>10. TypeOK' /\ Chain'
  <2>1. CASE CheckInterval(p)
    BY <2>1, <1>4, <1>5 DEF CheckInterval, TypeOK, Chain
  <2>2. CASE LoadOverflow(p)
    <3>1. lvl[p] < Levels /\ UNCHANGED <<expiration, queue, wheelVars>>
      BY <2>2 DEF LoadOverflow
    <3>2. CASE wheels > lvl[p]
      <4>1. lvl' = [lvl EXCEPT ![p] = lvl[p] + 1] /\ pc'[p] = "expired?" /\ loc' = loc
        BY <2>2, <3>2, <1>4 DEF LoadOverflow, TypeOK
      <4>2. lvl[p] + 1 \in 1 .. Levels /\ lvl[p] + 1 <= wheels
        BY <3>1, <3>2, <1>8
      <4>3. lvl' \in [Procs -> 1 .. Levels]
        BY <4>1, <4>2, <1>8
      <4>4. TypeOK'
        BY <3>1, <4>1, <4>3, <1>4, <1>5 DEF TypeOK
      <4>5. Chain'
        BY <3>1, <4>1, <4>2, <1>4, <1>8, <1>9 DEF Chain
      <4>6. QED
        BY <4>4, <4>5
    <3>3. CASE ~(wheels > lvl[p])
      <4>1. /\ loc' = [loc EXCEPT ![p] = currentTime[lvl[p]]]
            /\ lvl' = lvl
        BY <2>2, <3>3 DEF LoadOverflow
      <4>2. currentTime[lvl[p]] \in Nat
        BY <1>3, <1>8
      <4>3. loc' \in [Procs -> Int]
        BY <4>1, <4>2, <1>8
      <4>4. TypeOK'
        BY <3>1, <4>1, <4>3, <1>4, <1>5 DEF TypeOK
      <4>5. Chain'
        BY <3>1, <4>1, <4>2, <1>4, <1>8, <1>9 DEF Chain
      <4>6. QED
        BY <4>4, <4>5
    <3>4. QED
      BY <3>2, <3>3
  <2>3. CASE CreateOverflow(p)
    <3>1. lvl[p] < Levels /\ loc[p] \in Nat
      BY <2>3 DEF CreateOverflow, Chain
    <3>2. Truncate(loc[p], Interval(lvl[p])) \in Nat
      BY <3>1, <1>3, TruncateNat
    <3>3. /\ lvl' = [lvl EXCEPT ![p] = lvl[p] + 1] /\ pc'[p] = "expired?"
          /\ UNCHANGED <<expiration, queue, loc>>
      BY <2>3 DEF CreateOverflow, TypeOK
    <3>4. lvl[p] + 1 \in 1 .. Levels /\ lvl' \in [Procs -> 1 .. Levels]
      <4>1. lvl[p] + 1 \in 1 .. Levels
        BY <3>1, <1>3
      <4>2. QED
        BY <4>1, <3>3, <1>8
    <3>5. /\ wheels' \in 1 .. Levels /\ wheels' >= wheels /\ wheels' >= lvl[p] + 1
          /\ tick' \in [1 .. Levels -> Nat] /\ currentTime' \in [1 .. Levels -> Nat]
          /\ \A l \in 1 .. wheels' : tick'[l] > 0
      <4>1. CASE wheels = lvl[p]
        <5>1. /\ wheels' = wheels + 1
              /\ tick' = [tick EXCEPT ![lvl[p] + 1] = Interval(lvl[p])]
              /\ currentTime' = [currentTime EXCEPT ![lvl[p] + 1] =
                                    Truncate(loc[p], Interval(lvl[p]))]
          BY <2>3, <4>1 DEF CreateOverflow
        <5>2. wheels' \in 1 .. Levels /\ wheels' >= wheels /\ wheels' >= lvl[p] + 1
          BY <5>1, <4>1, <3>4, <1>8
        <5>3. /\ tick' \in [1 .. Levels -> Nat]
              /\ currentTime' \in [1 .. Levels -> Nat]
          BY <5>1, <3>2, <3>4, <1>3, <1>8
        <5>4. ASSUME NEW l \in 1 .. wheels' PROVE tick'[l] > 0
          <6>1. CASE l = lvl[p] + 1
            BY <5>1, <6>1, <3>4, <1>3, <1>8
          <6>2. CASE l # lvl[p] + 1
            <7>1. l \in 1 .. wheels
              BY <5>1, <6>2, <4>1, <1>8
            <7>2. tick'[l] = tick[l]
              BY <5>1, <6>2, <7>1, <1>8
            <7>3. QED
              BY <7>1, <7>2, <1>9
          <6>3. QED
            BY <6>1, <6>2
        <5>5. QED
          BY <5>2, <5>3, <5>4
      <4>2. CASE wheels # lvl[p]
        <5>1. UNCHANGED wheelVars
          BY <2>3, <4>2 DEF CreateOverflow
        <5>2. QED
          BY <5>1, <4>2, <1>3, <1>8, <1>9
      <4>3. QED
        BY <4>1, <4>2
    <3>6. TypeOK'
      BY <3>3, <3>4, <3>5, <1>4, <1>5 DEF TypeOK
    <3>7. Chain'
      <4>1. ASSUME NEW q \in Procs
            PROVE  /\ lvl'[q] <= wheels'
                   /\ pc'[q] = "create" => lvl'[q] < Levels /\ loc'[q] \in Nat
        <5>1. CASE q = p
          BY <5>1, <3>3, <3>4, <3>5, <1>8
        <5>2. CASE q # p
          <6>1. lvl'[q] = lvl[q] /\ pc'[q] = pc[q] /\ loc'[q] = loc[q]
            BY <5>2, <3>3, <1>4, <1>8
          <6>2. lvl[q] \in Int /\ wheels \in Int /\ wheels' \in Int
            BY <3>5, <1>8
          <6>3. QED
            BY <6>1, <6>2, <3>5, <1>9
        <5>3. QED
          BY <5>1, <5>2
      <4>2. QED
        BY <4>1, <3>5 DEF Chain
    <3>8. QED
      BY <3>6, <3>7
  <2>4. CASE SetExpiration(p)
    <3>1. expiration' \in [Buckets -> Int]
      BY <2>4, <1>2 DEF SetExpiration, TypeOK
    <3>2. pc'[p] # "create"
      BY <2>4, <1>4 DEF SetExpiration, Returned, TypeOK
    <3>3. QED
      BY <2>4, <3>1, <3>2, <1>4, <1>5 DEF SetExpiration, TypeOK, Chain
  <2>5. CASE ReadExpiration(p)
    BY <2>5, <1>2, <1>4, <1>5 DEF ReadExpiration, TypeOK, Chain
  <2>6. CASE Offer(p)
    <3>1. IsABag(queue') /\ BagToSet(queue') \subseteq Buckets \X Int
      <4>1. IsABag(queue) /\ queue' = queue (+) SetToBag({<<BucketOf(p), loc[p]>>})
        BY <2>6 DEF Offer, TypeOK
      <4>2. /\ IsABag(queue')
            /\ BagToSet(queue') = BagToSet(queue) \cup {<<BucketOf(p), loc[p]>>}
        BY <4>1, BagOffer
      <4>3. <<BucketOf(p), loc[p]>> \in Buckets \X Int
        BY <1>2 DEF TypeOK
      <4>4. QED
        BY <4>2, <4>3 DEF TypeOK
    <3>2. pc'[p] # "create"
      BY <2>6, <1>4 DEF Offer, Returned, TypeOK
    <3>3. QED
      BY <2>6, <3>1, <3>2, <1>4, <1>5 DEF Offer, TypeOK, Chain
  <2>7. QED
    BY <2>1, <2>2, <2>3, <2>4, <2>5, <2>6
<1>11. QED
  BY <1>6, <1>7, <1>10

(* A held timer is in no bucket and not over, and its holder is its only   *)
(* one.                                                                    *)
LEMMA HeldTimer ==
  ASSUME IInv, NEW p \in Procs, pc[p] \in Holding
  PROVE  /\ TimerOf(p) \in Timers
         /\ Holders(TimerOf(p)) = {p}
         /\ pc[TimerOf(p)] # "idle"
         /\ tb[TimerOf(p)] = Nil
         /\ runs[TimerOf(p)] = 0
         /\ Stopped(TimerOf(p)) = {}
<1> USE WheelAssumption DEF WheelAssumption, IInv
<1>1. TimerOf(p) \in Timers
  BY DEF Control, TimerOf, Procs, Holding
<1>2. p \in Holders(TimerOf(p))
  BY DEF Holders
<1>3. pc[TimerOf(p)] # "idle"
  BY <1>1, <1>2 DEF Control
<1>4. runs[TimerOf(p)] \in Nat
  BY <1>1 DEF TypeOK
<1>5. Holders(TimerOf(p)) = {p}
  BY <1>1, <1>2 DEF NoTimerLost, Holders
<1>6. QED
  BY <1>1, <1>2, <1>3, <1>4, <1>5 DEF NoTimerLost

(* The task of a held timer is started: the timer is over.                 *)
LEMMA CheckExpiredIInv ==
  ASSUME IInv, NEW p \in Procs, CheckExpired(p)
  PROVE  IInv'
<1> USE WheelAssumption DEF WheelAssumption, IInv, clockVars, wheelVars,
        queueVars, wVars, stopVars
<1>1. PICK t \in Timers :
        /\ t = TimerOf(p) /\ Holders(t) = {p} /\ pc[t] # "idle" /\ tb[t] = Nil
        /\ runs[t] = 0 /\ Stopped(t) = {}
  BY HeldTimer DEF CheckExpired, Holding
<1>2. UNCHANGED <<now, closed, tick, currentTime, wheels, timers, expiration,
                  queue, taken, texp, tb, lvl, loc, wpc, wb, wt, spc, target,
                  sb, stopped>>
  BY DEF CheckExpired
<1>3. CASE runs' = runs /\ pc' = [pc EXCEPT ![p] = "inside?"]
  <2>1. /\ pc' \in [Procs -> AddStates] /\ pc'[p] = "inside?"
        /\ \A q \in Procs : q # p => pc'[q] = pc[q]
    BY <1>3 DEF TypeOK, AddStates
  <2>2. pc[p] = "expired?"
    BY DEF CheckExpired
  <2>3. BucketAgrees' /\ OneFate' /\ NoTimerLost'
        /\ \A u \in Timers : Holders(u)' = Holders(u)
    <3>1. \A q \in Procs : pc'[q] \in Holding <=> pc[q] \in Holding
      BY <2>1, <2>2 DEF Holding
    <3>2. \A u \in Timers : pc'[u] = "idle" <=> pc[u] = "idle"
      BY <2>1, <2>2 DEF Procs
    <3>3. QED
      BY <1>2, <1>3, <3>1, <3>2, Frame
  <2>4. TypeOK'
    BY <1>2, <1>3, <2>1 DEF TypeOK
  <2>5. Chain'
    BY <1>2, <2>1 DEF Chain
  <2>6. Control'
    BY <1>2, <1>3, <2>1, <2>2, <2>3 DEF Control, Procs
  <2>7. QED
    BY <2>3, <2>4, <2>5, <2>6
<1>4. CASE runs' = [runs EXCEPT ![t] = @ + 1] /\ pc' = Returned(p)
  <2>1. /\ pc' \in [Procs -> AddStates]
        /\ p = W => pc'[p] = "idle"
        /\ p # W => pc'[p] = "done"
        /\ \A q \in Procs : q # p => pc'[q] = pc[q]
    BY <1>4 DEF Returned, TypeOK, AddStates
  <2>2. /\ runs' \in [Timers -> Nat] /\ runs'[t] = 1
        /\ \A u \in Timers : u # t => runs'[u] = runs[u]
    BY <1>1, <1>4 DEF TypeOK
  <2>3. pc[p] = "expired?"
    BY DEF CheckExpired
  <2>4. Holders(t)' = {} /\ \A u \in Timers : u # t => Holders(u)' = Holders(u)
    <3>1. \A q : q \in Holders(t) <=> q = p
      BY <1>1
    <3>2. ASSUME NEW u \in Timers, NEW q \in Procs
          PROVE  q \in Holders(u)' <=> q \in Holders(u) /\ q # p
      BY <1>2, <2>1, <2>3 DEF Holders, TimerOf, Holding, Procs
    <3>3. Holders(t)' \subseteq Procs /\ \A u \in Timers : Holders(u)' \subseteq Procs
                                                      /\ Holders(u) \subseteq Procs
      BY DEF Holders
    <3>4. Holders(t)' = {}
      BY <3>1, <3>2, <3>3, <1>1
    <3>5. ASSUME NEW u \in Timers, u # t PROVE Holders(u)' = Holders(u)
      <4>1. p \notin Holders(u)
        BY <3>5, <1>1 DEF Holders
      <4>2. QED
        BY <4>1, <3>2, <3>3
    <3>6. QED
      BY <3>4, <3>5
  <2>5. \A u \in Timers : Stopped(u)' = Stopped(u)
    BY <1>2 DEF Stopped
  <2>6. \A u \in Timers : pc'[u] = "idle" <=> pc[u] = "idle"
    BY <2>1, <2>3 DEF Procs
  <2>7. TypeOK'
    BY <1>2, <2>1, <2>2 DEF TypeOK
  <2>8. Chain'
    BY <1>2, <2>1 DEF Chain
  <2>9. Control'
    <3>1. \A u \in Timers : pc[u] = "done" => pc'[u] = "done"
      BY <2>1, <2>3 DEF Procs
    <3>2. \A u \in Timers : pc'[u] = "idle" => u # t
      BY <1>1, <2>6
    <3>3. QED
      BY <1>2, <2>1, <2>2, <2>3, <2>4, <2>6, <3>1, <3>2 DEF Control, Procs
  <2>10. BucketAgrees'
    BY <1>2 DEF BucketAgrees
  <2>11. OneFate'
    BY <1>1, <2>2, <2>5 DEF OneFate
  <2>12. NoTimerLost'
    <3>1. ASSUME NEW u \in Timers, u # t
          PROVE  /\ Holders(u)' = Holders(u) /\ Stopped(u)' = Stopped(u)
                 /\ runs'[u] = runs[u] /\ tb'[u] = tb[u]
                 /\ pc'[u] = "idle" <=> pc[u] = "idle"
      BY <3>1, <1>2, <2>2, <2>4, <2>5, <2>6
    <3>2. QED
      BY <1>1, <1>2, <2>2, <2>4, <3>1 DEF NoTimerLost
  <2>13. QED
    BY <2>7, <2>8, <2>9, <2>10, <2>11, <2>12
<1>5. QED
  BY <1>1, <1>2, <1>3, <1>4 DEF CheckExpired

(* The holder puts its timer into a bucket.                                *)
LEMMA InsertIInv ==
  ASSUME IInv, NEW p \in Procs, Insert(p)
  PROVE  IInv'
<1> USE WheelAssumption DEF WheelAssumption, IInv, clockVars, wheelVars,
        queueVars, wVars, stopVars
<1>1. PICK t \in Timers :
        /\ t = TimerOf(p) /\ Holders(t) = {p} /\ pc[t] # "idle" /\ tb[t] = Nil
        /\ runs[t] = 0 /\ Stopped(t) = {}
  BY HeldTimer DEF Insert, Holding
<1>2. PICK b \in Buckets : b = BucketOf(p)
  BY <1>1, BucketInRange
<1>3. /\ timers' = [timers EXCEPT ![b] = @ \cup {t}]
      /\ tb' = [tb EXCEPT ![t] = b]
      /\ pc' = [pc EXCEPT ![p] = "setExpiration"]
      /\ pc[p] = "insert"
      /\ UNCHANGED <<now, closed, tick, currentTime, wheels, expiration, queue,
                     taken, texp, runs, lvl, loc, wpc, wb, wt, spc, target, sb,
                     stopped>>
  BY <1>1, <1>2 DEF Insert
<1>4. /\ pc' \in [Procs -> AddStates] /\ pc'[p] = "setExpiration"
      /\ \A q \in Procs : q # p => pc'[q] = pc[q]
  BY <1>3 DEF TypeOK, AddStates
<1>5. /\ timers' \in [Buckets -> SUBSET Timers]
      /\ timers'[b] = timers[b] \cup {t}
      /\ \A c \in Buckets : c # b => timers'[c] = timers[c]
      /\ tb' \in [Timers -> Buckets \cup {Nil}] /\ tb'[t] = b
      /\ \A u \in Timers : u # t => tb'[u] = tb[u]
  BY <1>3 DEF TypeOK
<1>6. TypeOK'
  BY <1>3, <1>4, <1>5 DEF TypeOK
<1>7. Chain'
  BY <1>3, <1>4 DEF Chain
<1>8. Holders(t)' = {} /\ \A u \in Timers : u # t => Holders(u)' = Holders(u)
  <2>1. ASSUME NEW u \in Timers, NEW q \in Procs
        PROVE  q \in Holders(u)' <=> q \in Holders(u) /\ q # p
    BY <1>3, <1>4 DEF Holders, TimerOf, Holding, Procs
  <2>2. \A u \in Timers : Holders(u)' \subseteq Procs /\ Holders(u) \subseteq Procs
    BY DEF Holders
  <2>3. \A u \in Timers : u # t => p \notin Holders(u)
    BY <1>1 DEF Holders
  <2>4. \A q : q \in Holders(t) <=> q = p
    BY <1>1
  <2>5. Holders(t)' = {}
    BY <2>1, <2>2, <2>4
  <2>6. ASSUME NEW u \in Timers, u # t PROVE Holders(u)' = Holders(u)
    BY <2>6, <2>1, <2>2, <2>3
  <2>7. QED
    BY <2>5, <2>6
<1>9. \A u \in Timers : Stopped(u)' = Stopped(u)
  BY <1>3 DEF Stopped
<1>10. \A u \in Timers : /\ pc'[u] = "idle" <=> pc[u] = "idle"
                         /\ pc[u] = "done" => pc'[u] = "done"
  BY <1>3, <1>4 DEF Procs
<1>11. Control'
  BY <1>1, <1>3, <1>4, <1>5, <1>8, <1>10 DEF Control, Procs
<1>12. BucketAgrees'
  <2>1. ASSUME NEW u \in Timers, NEW c \in Buckets
        PROVE  tb'[u] = c <=> u \in timers'[c]
    <3>1. tb[u] = c <=> u \in timers[c]
      BY DEF BucketAgrees
    <3>2. t \notin timers[c]
      BY <1>1 DEF BucketAgrees
    <3>3. QED
      BY <3>1, <3>2, <1>5
  <2>2. QED
    BY <2>1 DEF BucketAgrees
<1>13. OneFate'
  BY <1>3, <1>9 DEF OneFate
<1>14. NoTimerLost'
  <2>1. ASSUME NEW u \in Timers, u # t
        PROVE  /\ Holders(u)' = Holders(u) /\ Stopped(u)' = Stopped(u)
               /\ runs'[u] = runs[u] /\ tb'[u] = tb[u]
               /\ pc'[u] = "idle" <=> pc[u] = "idle"
    BY <2>1, <1>3, <1>5, <1>8, <1>9, <1>10
  <2>2. Stopped(t)' = {} /\ runs'[t] = 0 /\ tb'[t] # Nil /\ Holders(t)' = {}
    BY <1>1, <1>3, <1>5, <1>8, <1>9
  <2>3. QED
    BY <2>1, <2>2 DEF NoTimerLost
<1>15. QED
  BY <1>6, <1>7, <1>11, <1>12, <1>13, <1>14

(* W takes a timer out of the bucket it flushes and becomes its holder.    *)
LEMMA FlushNextIInv ==
  ASSUME IInv, FlushNext
  PROVE  IInv'
<1> USE WheelAssumption DEF WheelAssumption, IInv, clockVars, wheelVars,
        queueVars, wVars, stopVars
<1>1. wpc = "flush" /\ pc[W] = "idle" /\ wb \in Buckets /\ W \in Procs
  BY DEF FlushNext, Control, Procs
<1>2. PICK t \in timers[wb] : Remove(t, wb) /\ wt' = t
  BY DEF FlushNext
<1>3. t \in Timers /\ tb[t] = wb
  BY <1>1 DEF TypeOK, BucketAgrees
<1>4. /\ timers' = [timers EXCEPT ![wb] = @ \ {t}]
      /\ tb' = [tb EXCEPT ![t] = Nil]
      /\ pc' = [pc EXCEPT ![W] = "expired?"]
      /\ lvl' = [lvl EXCEPT ![W] = 1]
      /\ UNCHANGED <<now, closed, tick, currentTime, wheels, expiration, queue,
                     taken, texp, runs, loc, wpc, wb, spc, target, sb, stopped>>
  BY <1>2, <1>3 DEF FlushNext, Remove
<1>5. /\ pc' \in [Procs -> AddStates] /\ pc'[W] = "expired?"
      /\ \A q \in Procs : q # W => pc'[q] = pc[q]
      /\ lvl' \in [Procs -> 1 .. Levels] /\ lvl'[W] = 1
      /\ \A q \in Procs : q # W => lvl'[q] = lvl[q]
  BY <1>1, <1>4 DEF TypeOK, AddStates
<1>6. /\ timers' \in [Buckets -> SUBSET Timers]
      /\ timers'[wb] = timers[wb] \ {t}
      /\ \A c \in Buckets : c # wb => timers'[c] = timers[c]
      /\ tb' \in [Timers -> Buckets \cup {Nil}] /\ tb'[t] = Nil
      /\ \A u \in Timers : u # t => tb'[u] = tb[u]
  BY <1>1, <1>3, <1>4 DEF TypeOK
<1>7. TypeOK'
  BY <1>2, <1>3, <1>4, <1>5, <1>6 DEF TypeOK
<1>8. Chain'
  BY <1>4, <1>5 DEF Chain, TypeOK
<1>9. pc[t] # "idle" /\ Holders(t) = {} /\ runs[t] = 0 /\ Stopped(t) = {}
  <2>1. pc[t] # "idle" /\ tb[t] # Nil
    BY <1>1, <1>3 DEF Control
  <2>2. runs[t] \in Nat
    BY <1>3 DEF TypeOK
  <2>3. QED
    BY <1>3, <2>1, <2>2 DEF NoTimerLost
<1>10. Holders(t)' = {W} /\ \A u \in Timers : u # t => Holders(u)' = Holders(u)
  <2>1. ASSUME NEW u \in Timers, NEW q \in Procs
        PROVE  q \in Holders(u)' <=> (q \in Holders(u) \/ (u = t /\ q = W))
    BY <1>1, <1>2, <1>3, <1>4, <1>5 DEF Holders, TimerOf, Holding, Procs
  <2>2. \A u \in Timers : Holders(u)' \subseteq Procs /\ Holders(u) \subseteq Procs
    BY DEF Holders
  <2>3. QED
    BY <1>1, <1>3, <1>9, <2>1, <2>2
<1>11. \A u \in Timers : Stopped(u)' = Stopped(u)
  BY <1>4 DEF Stopped
<1>12. \A u \in Timers : pc'[u] = pc[u]
  BY <1>5 DEF Procs
<1>13. Control'
  BY <1>1, <1>2, <1>3, <1>4, <1>5, <1>6, <1>9, <1>10, <1>12 DEF Control, Procs
<1>14. BucketAgrees'
  <2>1. ASSUME NEW u \in Timers, NEW c \in Buckets
        PROVE  tb'[u] = c <=> u \in timers'[c]
    <3>1. tb[u] = c <=> u \in timers[c]
      BY DEF BucketAgrees
    <3>2. t \in timers[c] <=> c = wb
      BY <1>3 DEF BucketAgrees
    <3>3. QED
      BY <3>1, <3>2, <1>1, <1>6
  <2>2. QED
    BY <2>1 DEF BucketAgrees
<1>15. OneFate'
  BY <1>4, <1>11 DEF OneFate
<1>16. NoTimerLost'
  <2>1. ASSUME NEW u \in Timers, u # t
        PROVE  /\ Holders(u)' = Holders(u) /\ Stopped(u)' = Stopped(u)
               /\ runs'[u] = runs[u] /\ tb'[u] = tb[u] /\ pc'[u] = pc[u]
    BY <2>1, <1>4, <1>6, <1>10, <1>11, <1>12
  <2>2. Stopped(t)' = {} /\ runs'[t] = 0 /\ tb'[t] = Nil /\ Holders(t)' = {W}
    BY <1>3, <1>4, <1>6, <1>9, <1>10, <1>11
  <2>3. QED
    BY <2>1, <2>2 DEF NoTimerLost
<1>17. QED
  BY <1>7, <1>8, <1>13, <1>14, <1>15, <1>16

(* The steps of the clock, the delay queue and W that move no timer.       *)
LEMMA QuietIInv ==
  ASSUME IInv,
         \/ TickClock \/ CloseExit \/ Take \/ Receive \/ LoadExpiration
         \/ AdvanceClock \/ Lock \/ Unlock \/ ResetExpiration \/ WheelExit
  PROVE  IInv'
<1> USE WheelAssumption DEF WheelAssumption, IInv, clockVars, wheelVars,
        queueVars, wVars, stopVars
<1>1. W \in Procs
  BY DEF Procs
<1>2. /\ UNCHANGED <<timers, texp, tb, runs, pc, spc, target, sb, stopped>>
      /\ pc[W] # "idle" => wt' = wt /\ wpc' = wpc
  BY DEF TickClock, CloseExit, Take, Receive, LoadExpiration, AdvanceClock,
     Lock, Unlock, ResetExpiration, WheelExit, Control
<1>3. /\ BucketAgrees' /\ OneFate' /\ NoTimerLost'
      /\ \A t \in Timers : Holders(t)' = Holders(t)
  BY <1>2, Frame DEF Holding
<1>4. wt' \in Timers \cup {Nil}
  BY DEF TickClock, CloseExit, Take, Receive, LoadExpiration, AdvanceClock,
     Lock, Unlock, ResetExpiration, WheelExit, TypeOK
<1>5. taken' \in (Buckets \X Int) \cup {Nil}
      /\ IsABag(queue') /\ BagToSet(queue') \subseteq Buckets \X Int
  <2>1. CASE Take
    <3>1. PICK e \in BagToSet(queue) : taken' = e /\ queue' = queue (-) SetToBag({e})
      BY <2>1 DEF Take
    <3>2. IsABag(queue') /\ BagToSet(queue') \subseteq BagToSet(queue)
      BY <3>1, BagTake DEF TypeOK
    <3>3. QED
      BY <3>1, <3>2 DEF TypeOK
  <2>2. CASE ~Take
    BY <2>2 DEF TickClock, CloseExit, Receive, LoadExpiration, AdvanceClock,
       Lock, Unlock, ResetExpiration, WheelExit, TypeOK
  <2>3. QED
    BY <2>1, <2>2
<1>6. wpc' \in WStates /\ wb' \in Buckets \cup {Nil}
      /\ (wpc' \notin {"receive", "stopped"} => wb' \in Buckets)
  <2>1. CASE Receive
    <3>1. taken \in Buckets \X Int
      BY <2>1 DEF Receive, TypeOK
    <3>2. wb' \in Buckets
      BY <2>1, <3>1 DEF Receive
    <3>3. QED
      BY <2>1, <3>2 DEF Receive, WStates
  <2>2. CASE LoadExpiration \/ AdvanceClock \/ Lock \/ Unlock
    BY <2>2 DEF LoadExpiration, AdvanceClock, Lock, Unlock, TypeOK, Control,
       WStates
  <2>3. CASE TickClock \/ CloseExit \/ Take \/ ResetExpiration \/ WheelExit
    BY <2>3 DEF TickClock, CloseExit, Take, ResetExpiration, WheelExit, TypeOK,
       Control, WStates
  <2>4. QED
    BY <2>1, <2>2, <2>3
<1>7. /\ now' \in Nat /\ closed' \in BOOLEAN
      /\ expiration' \in [Buckets -> Int]
  <2>1. now' \in Nat
    BY DEF TickClock, CloseExit, Take, Receive, LoadExpiration, AdvanceClock,
       Lock, Unlock, ResetExpiration, WheelExit, TypeOK
  <2>2. closed' \in BOOLEAN
    BY DEF TickClock, CloseExit, Take, Receive, LoadExpiration, AdvanceClock,
       Lock, Unlock, ResetExpiration, WheelExit, TypeOK
  <2>3. expiration' \in [Buckets -> Int]
    BY DEF TickClock, CloseExit, Take, Receive, LoadExpiration, AdvanceClock,
       Lock, Unlock, ResetExpiration, WheelExit, TypeOK
  <2>4. QED
    BY <2>1, <2>2, <2>3
<1>8. tick' = tick /\ wheels' = wheels
  BY DEF TickClock, CloseExit, Take, Receive, LoadExpiration, AdvanceClock,
     Lock, Unlock, ResetExpiration, WheelExit
<1>9. /\ lvl \in [Procs -> 1 .. Levels] /\ loc \in [Procs -> Int]
      /\ wheels \in 1 .. Levels
      /\ tick \in [1 .. Levels -> Nat] /\ currentTime \in [1 .. Levels -> Nat]
      /\ expiration \in [Buckets -> Int]
  BY DEF TypeOK
<1>10. /\ \A l \in 1 .. wheels : tick[l] > 0
       /\ \A q \in Procs : /\ lvl[q] <= wheels
                           /\ pc[q] = "create" => lvl[q] < Levels /\ loc[q] \in Nat
  BY DEF Chain
<1>11. /\ currentTime' \in [1 .. Levels -> Nat]
       /\ lvl' \in [Procs -> 1 .. Levels] /\ lvl'[W] <= wheels
       /\ loc' \in [Procs -> Int]
       /\ \A q \in Procs : q # W => lvl'[q] = lvl[q] /\ loc'[q] = loc[q]
       /\ pc[W] = "create" => lvl'[W] = lvl[W] /\ loc'[W] = loc[W]
  <2>1. CASE AdvanceClock
    <3>1. lvl[W] \in 1 .. Levels /\ tick[lvl[W]] \in Nat \ {0}
      BY <1>1, <1>9, <1>10
    <3>2. pc[W] # "create"
      BY <2>1 DEF AdvanceClock, Control
    <3>3. CASE loc[W] >= currentTime[lvl[W]] + tick[lvl[W]]
      <4> DEFINE time == Truncate(loc[W], tick[lvl[W]])
      <4>1. loc[W] \in Nat /\ time \in Nat
        <5>1. currentTime[lvl[W]] \in Nat /\ loc[W] \in Int
          BY <1>1, <1>9, <3>1
        <5>2. loc[W] \in Nat
          BY <5>1, <3>1, <3>3
        <5>3. QED
          BY <5>2, <3>1, TruncateNat
      <4>2. /\ currentTime' = [currentTime EXCEPT ![lvl[W]] = time]
            /\ lvl' = [lvl EXCEPT ![W] = IF wheels > lvl[W] THEN lvl[W] + 1 ELSE lvl[W]]
            /\ loc' = [loc EXCEPT ![W] = time]
        BY <2>1, <3>3 DEF AdvanceClock
      <4> HIDE DEF time
      <4>3. currentTime' \in [1 .. Levels -> Nat]
        BY <4>1, <4>2, <3>1, <1>9
      <4>7. loc' \in [Procs -> Int]
        <5>1. time \in Int /\ W \in Procs
          BY <4>1, <1>1
        <5>2. QED
          BY <5>1, <4>2, <1>9
      <4>4. wheels > lvl[W] => lvl[W] + 1 \in 1 .. Levels /\ lvl[W] + 1 <= wheels
        <5>1. wheels \in 1 .. Levels /\ lvl[W] \in 1 .. Levels /\ Levels \in Nat
          BY <3>1, <1>9
        <5>2. QED
          BY <5>1
      <4>5. lvl' \in [Procs -> 1 .. Levels] /\ lvl'[W] <= wheels
        BY <4>2, <4>4, <3>1, <1>1, <1>9, <1>10
      <4>6. QED
        BY <4>2, <4>3, <4>5, <4>7, <3>2, <1>9
    <3>4. CASE ~(loc[W] >= currentTime[lvl[W]] + tick[lvl[W]])
      <4>1. UNCHANGED <<currentTime, lvl, loc>>
        BY <2>1, <3>4 DEF AdvanceClock
      <4>2. QED
        BY <4>1, <1>1, <1>9, <1>10
    <3>5. QED
      BY <3>3, <3>4
  <2>2. CASE LoadExpiration \/ ResetExpiration
    <3>1. pc[W] # "create" /\ wb \in Buckets
      BY <2>2 DEF LoadExpiration, ResetExpiration, Control
    <3>2. currentTime' = currentTime /\ lvl' = [lvl EXCEPT ![W] = 1]
      BY <2>2 DEF LoadExpiration, ResetExpiration
    <3>3. \E x \in Int : loc' = [loc EXCEPT ![W] = x]
      BY <2>2, <3>1, <1>9 DEF LoadExpiration, ResetExpiration
    <3>4. QED
      BY <3>1, <3>2, <3>3, <1>1, <1>9
  <2>3. CASE ~(AdvanceClock \/ LoadExpiration \/ ResetExpiration)
    <3>1. UNCHANGED <<currentTime, lvl, loc>>
      BY <2>3 DEF TickClock, CloseExit, Take, Receive, Lock, Unlock, WheelExit
    <3>2. QED
      BY <3>1, <1>1, <1>9, <1>10
  <2>4. QED
    BY <2>1, <2>2, <2>3
<1>12. TypeOK'
  BY <1>2, <1>4, <1>5, <1>6, <1>7, <1>8, <1>11 DEF TypeOK
<1>13. Chain'
  <2>1. ASSUME NEW q \in Procs
        PROVE  /\ lvl'[q] <= wheels'
               /\ pc'[q] = "create" => lvl'[q] < Levels /\ loc'[q] \in Nat
    <3>1. CASE q = W
      BY <3>1, <1>2, <1>8, <1>10, <1>11
    <3>2. CASE q # W
      BY <3>2, <1>2, <1>8, <1>10, <1>11
    <3>3. QED
      BY <3>1, <3>2
  <2>2. QED
    BY <2>1, <1>8, <1>10 DEF Chain
<1>14. Control'
  BY <1>1, <1>2, <1>3, <1>6 DEF Control
<1>15. QED
  BY <1>3, <1>12, <1>13, <1>14

-----------------------------------------------------------------------------
(* A call of Stop begins: it has not stopped anything before.              *)
LEMMA StopTimerIInv ==
  ASSUME IInv, NEW s \in Stops, NEW t \in Timers, StopTimer(s, t)
  PROVE  IInv'
<1> USE DEF IInv, clockVars, wheelVars, queueVars, wVars, stopVars
<1>1. /\ spc[s] = "idle" /\ pc[t] = "done" /\ ~stopped[s]
      /\ spc' = [spc EXCEPT ![s] = "get"] /\ target' = [target EXCEPT ![s] = t]
  BY DEF StopTimer, Control
<1>2. UNCHANGED <<now, closed, tick, currentTime, wheels, timers, expiration,
                  queue, taken, texp, tb, runs, pc, lvl, loc, wpc, wb, wt, sb,
                  stopped>>
  BY DEF StopTimer
<1>3. /\ spc' \in [Stops -> StopStates] /\ target' \in [Stops -> Timers \cup {Nil}]
      /\ spc'[s] = "get" /\ target'[s] = t
      /\ \A r \in Stops : r # s => spc'[r] = spc[r] /\ target'[r] = target[r]
  BY <1>1 DEF TypeOK, StopStates
<1>4. TypeOK'
  BY <1>2, <1>3 DEF TypeOK
<1>5. Chain'
  BY <1>2 DEF Chain
<1>6. \A u \in Timers : Holders(u)' = Holders(u)
  BY <1>2 DEF Holders, TimerOf
<1>7. \A u \in Timers : Stopped(u)' = Stopped(u)
  BY <1>1, <1>2, <1>3 DEF Stopped
<1>8. Control'
  BY <1>1, <1>2, <1>3, <1>6 DEF Control
<1>9. BucketAgrees' /\ OneFate'
  BY <1>2, <1>7 DEF BucketAgrees, OneFate
<1>10. NoTimerLost'
  BY <1>2, <1>6, <1>7 DEF NoTimerLost
<1>11. QED
  BY <1>4, <1>5, <1>8, <1>9, <1>10

(* Stop reads t.b: a timer that is in a bucket has not been stopped.       *)
LEMMA GetBucketIInv ==
  ASSUME IInv, NEW s \in Stops, GetBucket(s)
  PROVE  IInv'
<1> USE DEF IInv, clockVars, wheelVars, queueVars, wVars, stopVars
<1>1. PICK t \in Timers : t = target[s] /\ pc[t] = "done"
  BY DEF GetBucket, Control
<1>2. /\ spc[s] = "get"
      /\ spc' = [spc EXCEPT ![s] = IF tb[t] = Nil THEN "returned" ELSE "remove"]
      /\ sb' = [sb EXCEPT ![s] = tb[t]]
      /\ UNCHANGED <<now, closed, tick, currentTime, wheels, timers, expiration,
                     queue, taken, texp, tb, runs, pc, lvl, loc, wpc, wb, wt,
                     target, stopped>>
  BY <1>1 DEF GetBucket
<1>3. tb[t] \in Buckets \cup {Nil}
  BY DEF TypeOK
<1>4. /\ spc' \in [Stops -> StopStates] /\ sb' \in [Stops -> Buckets \cup {Nil}]
      /\ spc'[s] = (IF tb[t] = Nil THEN "returned" ELSE "remove") /\ sb'[s] = tb[t]
      /\ \A r \in Stops : r # s => spc'[r] = spc[r] /\ sb'[r] = sb[r]
  BY <1>2, <1>3 DEF TypeOK, StopStates
<1>5. BucketAgrees' /\ OneFate' /\ NoTimerLost'
      /\ \A u \in Timers : Holders(u)' = Holders(u)
  BY <1>2, Frame
<1>6. tb[t] # Nil => ~stopped[s]
  <2>1. tb[t] # Nil => Stopped(t) = {}
    BY <1>1 DEF NoTimerLost
  <2>2. QED
    BY <2>1, <1>1 DEF Stopped
<1>7. TypeOK'
  BY <1>2, <1>4 DEF TypeOK
<1>8. Chain'
  BY <1>2 DEF Chain
<1>9. Control'
  BY <1>1, <1>2, <1>3, <1>4, <1>5, <1>6 DEF Control
<1>10. QED
  BY <1>5, <1>7, <1>8, <1>9

(* Stop removes the timer from the bucket it read, if it is still there.   *)
LEMMA RemoveTimerIInv ==
  ASSUME IInv, NEW s \in Stops, RemoveTimer(s)
  PROVE  IInv'
<1> USE WheelAssumption DEF WheelAssumption, IInv, clockVars, wheelVars,
        queueVars, wVars, stopVars
<1>1. PICK t \in Timers, b \in Buckets :
        t = target[s] /\ b = sb[s] /\ pc[t] = "done" /\ ~stopped[s]
  BY DEF RemoveTimer, Control
<1>2. /\ spc[s] = "remove"
      /\ spc' = [spc EXCEPT ![s] = "get"]
      /\ stopped' = [stopped EXCEPT ![s] = (tb[t] = b)]
      /\ Remove(t, b)
      /\ UNCHANGED <<now, closed, tick, currentTime, wheels, expiration, queue,
                     taken, texp, runs, pc, lvl, loc, wpc, wb, wt, target, sb>>
  BY <1>1 DEF RemoveTimer
<1>3. /\ spc' \in [Stops -> StopStates] /\ spc'[s] = "get"
      /\ \A r \in Stops : r # s => spc'[r] = spc[r]
  BY <1>2 DEF TypeOK, StopStates
<1>4. Chain'
  BY <1>2 DEF Chain
<1>5. \A u \in Timers : Holders(u)' = Holders(u)
  BY <1>2 DEF Holders, TimerOf
<1>6. CASE tb[t] # b
  <2>1. UNCHANGED <<timers, tb>> /\ stopped' = [stopped EXCEPT ![s] = FALSE]
    BY <1>2, <1>6 DEF Remove
  <2>2. stopped' = stopped
    BY <2>1, <1>1 DEF TypeOK
  <2>3. BucketAgrees' /\ OneFate' /\ NoTimerLost'
    BY <2>1, <2>2, <1>2, Frame
  <2>4. TypeOK'
    BY <2>1, <2>2, <1>2, <1>3 DEF TypeOK
  <2>5. Control'
    BY <2>1, <2>2, <1>1, <1>2, <1>3, <1>5 DEF Control
  <2>6. QED
    BY <2>3, <2>4, <2>5, <1>4
<1>7. CASE tb[t] = b
  <2>1. /\ timers' = [timers EXCEPT ![b] = @ \ {t}]
        /\ tb' = [tb EXCEPT ![t] = Nil]
        /\ stopped' = [stopped EXCEPT ![s] = TRUE]
    BY <1>2, <1>7 DEF Remove
  <2>2. /\ timers' \in [Buckets -> SUBSET Timers]
        /\ timers'[b] = timers[b] \ {t}
        /\ \A c \in Buckets : c # b => timers'[c] = timers[c]
        /\ tb' \in [Timers -> Buckets \cup {Nil}] /\ tb'[t] = Nil
        /\ \A u \in Timers : u # t => tb'[u] = tb[u]
    BY <2>1 DEF TypeOK
  <2>3. /\ stopped' \in [Stops -> BOOLEAN] /\ stopped'[s]
        /\ \A r \in Stops : r # s => stopped'[r] = stopped[r]
    BY <2>1 DEF TypeOK
  <2>4. TypeOK'
    BY <2>2, <2>3, <1>2, <1>3 DEF TypeOK
  <2>5. Holders(t) = {} /\ runs[t] = 0 /\ Stopped(t) = {}
    <3>1. tb[t] # Nil /\ pc[t] # "idle"
      BY <1>1, <1>7
    <3>2. runs[t] \in Nat
      BY DEF TypeOK
    <3>3. QED
      BY <3>1, <3>2 DEF NoTimerLost
  <2>6. Stopped(t)' = {s} /\ \A u \in Timers : u # t => Stopped(u)' = Stopped(u)
    <3>1. \A r \in Stops : ~(target[r] = t /\ stopped[r])
      BY <2>5 DEF Stopped
    <3>2. QED
      BY <3>1, <2>3, <1>1, <1>2 DEF Stopped
  <2>7. Control'
    BY <2>2, <2>3, <1>1, <1>2, <1>3, <1>5 DEF Control
  <2>8. BucketAgrees'
    <3>1. ASSUME NEW u \in Timers, NEW c \in Buckets
          PROVE  tb'[u] = c <=> u \in timers'[c]
      <4>1. tb[u] = c <=> u \in timers[c]
        BY DEF BucketAgrees
      <4>2. t \in timers[c] <=> c = b
        BY <1>7 DEF BucketAgrees
      <4>3. QED
        BY <4>1, <4>2, <2>2
    <3>2. QED
      BY <3>1 DEF BucketAgrees
  <2>9. OneFate'
    BY <2>5, <2>6, <1>2 DEF OneFate
  <2>10. NoTimerLost'
    <3>1. ASSUME NEW u \in Timers, u # t
          PROVE  /\ Holders(u)' = Holders(u) /\ Stopped(u)' = Stopped(u)
                 /\ runs'[u] = runs[u] /\ tb'[u] = tb[u] /\ pc'[u] = pc[u]
      BY <3>1, <2>2, <2>6, <1>2, <1>5
    <3>2. Stopped(t)' # {} /\ tb'[t] = Nil /\ Holders(t)' = {}
      BY <2>2, <2>5, <2>6, <1>5
    <3>3. QED
      BY <3>1, <3>2 DEF NoTimerLost
  <2>11. QED
    BY <2>4, <2>7, <2>8, <2>9, <2>10, <1>4
<1>8. QED
  BY <1>6, <1>7

-----------------------------------------------------------------------------
(* Every step of the wheel, its callers and its timers keeps the           *)
(* inductive invariant.                                                    *)
LEMMA StepIInv == IInv /\ [Next]_vars => IInv'
<1> SUFFICES ASSUME IInv, [Next]_vars PROVE IInv'
  OBVIOUS
<1>1. ASSUME NEW t \in Timers, NEW d \in Delays, AfterFunc(t, d) PROVE IInv'
  BY <1>1, AfterFuncIInv
<1>2. ASSUME NEW p \in Procs, AddStep(p) PROVE IInv'
  <2>1. CASE CheckExpired(p)
    BY <2>1, CheckExpiredIInv
  <2>2. CASE Insert(p)
    BY <2>2, InsertIInv
  <2>3. CASE \/ CheckInterval(p) \/ LoadOverflow(p) \/ CreateOverflow(p)
             \/ SetExpiration(p) \/ ReadExpiration(p) \/ Offer(p)
    BY <2>3, WalkIInv
  <2>4. QED
    BY <1>2, <2>1, <2>2, <2>3 DEF AddStep
<1>3. CASE FlushNext
  BY <1>3, FlushNextIInv
<1>4. CASE \/ TickClock \/ CloseExit \/ Take \/ Receive \/ LoadExpiration
           \/ AdvanceClock \/ Lock \/ Unlock \/ ResetExpiration \/ WheelExit
  BY <1>4, QuietIInv
<1>5. ASSUME NEW s \in Stops, NEW t \in Timers, StopTimer(s, t) PROVE IInv'
  BY <1>5, StopTimerIInv
<1>6. ASSUME NEW s \in Stops, StopStep(s) PROVE IInv'
  BY <1>6, GetBucketIInv, RemoveTimerIInv DEF StopStep
<1>7. CASE UNCHANGED vars
  <2>1. UNCHANGED <<now, closed, tick, currentTime, wheels, timers, expiration,
                    queue, taken, texp, tb, runs, pc, lvl, loc, wpc, wb, wt,
                    spc, target, sb, stopped>>
    BY <1>7 DEF vars
  <2>2. TypeOK'
    BY <2>1 DEF IInv, TypeOK
  <2>3. Chain'
    BY <2>1 DEF IInv, Chain
  <2>4. BucketAgrees' /\ OneFate' /\ NoTimerLost'
        /\ \A t \in Timers : Holders(t)' = Holders(t)
    BY <2>1, Frame DEF IInv
  <2>5. Control'
    BY <2>1, <2>4 DEF IInv, Control
  <2>6. QED
    BY <2>2, <2>3, <2>4, <2>5 DEF IInv
<1>8. QED
  BY <1>1, <1>2, <1>3, <1>4, <1>5, <1>6, <1>7 DEF Next, WheelStep

(* The inductive invariant holds in every state.                           *)
LEMMA Invariance == Spec => []IInv
  BY InitIInv, StepIInv, PTL DEF Spec

(* Every variable keeps its type; in particular the bucket index           *)
(* virtualID % wheelSize is always a slot of an existing wheel.            *)
THEOREM TypeCorrect == Spec => []TypeOK
<1>1. IInv => TypeOK
  BY DEF IInv
<1>2. QED
  BY <1>1, Invariance, PTL

(* t.b and the lists of the buckets always agree, for Stop and Flush.      *)
THEOREM BucketsAgree == Spec => []BucketAgrees
<1>1. IInv => BucketAgrees
  BY DEF IInv
<1>2. QED
  BY <1>1, Invariance, PTL

(* At most one of: the task is started, once; one call of Stop returns     *)
(* true.                                                                   *)
THEOREM TimersHaveOneFate == Spec => []OneFate
<1>1. IInv => OneFate
  BY DEF IInv
<1>2. QED
  BY <1>1, Invariance, PTL

(* Until then the timer is in one bucket or in the hands of one goroutine. *)
THEOREM TimersAreNotLost == Spec => []NoTimerLost
<1>1. IInv => NoTimerLost
  BY DEF IInv
<1>2. QED
  BY <1>1, Invariance, PTL

-----------------------------------------------------------------------------
(* Under prompt calls of AfterFunc.                                        *)


Multiple(x, m) == \E k \in Nat : x = k * m

(* v is virtualID * tick, for a virtualID that the bucket stands for.      *)
IsSlot(b, v) == \E k \in Nat : v = k * tick[b[1]] /\ k % Size = b[2]

(* The expiration that a timer's bucket gets on wheel l, and the end of    *)
(* what wheel l spans at the moment.                                       *)
Slot(t, l) == Truncate(texp[t], tick[l])
End(l)     == currentTime[l] + Interval(l)

Entries  == BagToSet(queue) \cup ({taken} \ {Nil})
Busy(p)  == pc[p] \notin {"idle", "done"}
Placed   == {"setExpiration", "readExpiration", "offer"}
Offering == {"readExpiration", "offer"}

(* The current tick of wheel j lies in the current tick of wheel l.        *)
Nested(j, l) == /\ currentTime[l] <= currentTime[j]
                /\ currentTime[j] + tick[j] <= currentTime[l] + tick[l]

(* While a caller adds a timer, W has no bucket.                           *)
Exclusive ==
  /\ Adding => wpc \in {"receive", "stopped"}
  /\ wpc \in {"receive", "stopped"} => wb = Nil
  /\ wb # Nil => wb[1] <= wheels

(* The tick of a wheel is the interval of the one below it, so a multiple  *)
(* of every tick below it; the clock of a wheel is a multiple of its tick. *)
Scale ==
  /\ tick[1] = Tick
  /\ \A l \in 1 .. wheels : l > 1 => tick[l] = Interval(l - 1)
  /\ \A l \in 1 .. wheels : Multiple(currentTime[l], tick[l])
  /\ \A j, l \in 1 .. wheels : j <= l => Multiple(tick[l], tick[j])

(* The clocks of the wheels agree, but for those that advanceClock has not *)
(* come to yet.                                                            *)
Clocks ==
  /\ \A j, l \in 1 .. wheels : j < l =>
       \/ Nested(j, l)
       \/ /\ wpc = "advance" /\ j < lvl[W] /\ lvl[W] <= l
          /\ currentTime[l] <= currentTime[j]
  /\ wpc = "advance" /\ lvl[W] > 1 => loc[W] = currentTime[lvl[W] - 1]

(* What the comparisons that add has made still say.                       *)
Walks(p) ==
  /\ \/ pc[p] \in {"inside?", "overflow", "create", "insert"} \cup Placed
     \/ pc[p] = "expired?" /\ lvl[p] > 1
     => currentTime[lvl[p]] + tick[lvl[p]] <= texp[TimerOf(p)]
  /\ pc[p] \in {"overflow", "create"} => End(lvl[p]) <= texp[TimerOf(p)]
  /\ pc[p] = "create" => loc[p] = currentTime[lvl[p]]
  /\ pc[p] \in {"insert"} \cup Placed => texp[TimerOf(p)] < End(lvl[p])

Walking ==
  /\ \A p \in Procs : Walks(p)
  /\ \A t \in Timers : pc[t] = "idle" => lvl[t] = 1

(* A timer is in the bucket of its expiration, whose own is not before it  *)
(* unless somebody is about to set it.                                     *)
InBucket ==
  \A b \in Buckets : \A t \in timers[b] :
    /\ b[1] <= wheels
    /\ (texp[t] \div tick[b[1]]) % Size = b[2]
    /\ Slot(t, b[1]) < End(b[1])
    /\ \/ Slot(t, b[1]) <= expiration[b]
       \/ \E p \in Procs : pc[p] = "setExpiration" /\ BucketOf(p) = b

(* A bucket with an expiration is queued with it, or somebody is about to  *)
(* queue it, or W has it.                                                  *)
Expirations ==
  \A b \in Buckets : expiration[b] # -1 =>
    /\ b[1] <= wheels /\ IsSlot(b, expiration[b]) /\ expiration[b] < End(b[1])
    /\ \/ <<b, expiration[b]>> \in Entries
       \/ \E p \in Procs : pc[p] \in Offering /\ BucketOf(p) = b
       \/ wb = b

(* Nobody changes the expiration of a bucket that is about to be queued.   *)
Offered ==
  \A p \in Procs : /\ pc[p] \in Offering => expiration[BucketOf(p)] = SlotOf(p)
                   /\ pc[p] = "offer" => loc[p] = SlotOf(p)

(* A bucket that is queued for the future still has that expiration.       *)
Queued ==
  \A e \in Entries :
    /\ e[1][1] <= wheels /\ IsSlot(e[1], e[2]) /\ e[2] < End(e[1][1])
    /\ e[2] <= currentTime[e[1][1]] \/ expiration[e[1]] = e[2]

(* What is about to be queued is not in the queue, nor about to be queued  *)
(* by two.                                                                 *)
Fresh ==
  \A p \in Procs : pc[p] \in Offering =>
    /\ <<BucketOf(p), SlotOf(p)>> \notin Entries
    /\ \A q \in Procs : q # p /\ pc[q] \in Offering => BucketOf(q) # BucketOf(p)

(* NotForgotten, for the expirations of the buckets.                       *)
Covered ==
  \A b \in Buckets : \A t \in timers[b] :
    \/ \E e \in Entries : e[1] = b /\ e[2] <= Slot(t, b[1])
    \/ \E p \in Procs : /\ pc[p] \in Placed
                        /\ BucketOf(p) = b /\ SlotOf(p) = Slot(t, b[1])
    \/ wb = b

(* When W flushes a bucket its wheel has reached the bucket's expiration,  *)
(* so that no timer goes back to it; and W leaves it empty.                *)
Flushing ==
  /\ wpc = "reset" => timers[wb] = {}
  /\ wpc \in {"lock", "flush", "reset"} => expiration[wb] <= currentTime[wb[1]]
  /\ wpc = "advance" => IF lvl[W] <= wb[1] THEN expiration[wb] <= loc[W]
                                           ELSE expiration[wb] <= currentTime[wb[1]]
  /\ pc[W] # "idle" => Slot(wt, wb[1]) <= currentTime[wb[1]]

(* The invariant that is inductive under prompt calls, together with IInv. *)
PInv ==
  /\ Exclusive /\ Scale /\ Clocks /\ Walking
  /\ InBucket /\ Expirations /\ Offered /\ Queued
  /\ EnqueuedOnce /\ Fresh /\ Covered /\ Flushing

-----------------------------------------------------------------------------
(* Arithmetic.                                                             *)
LEMMA MultipleStep ==
  ASSUME NEW m \in Nat \ {0}, NEW a \in Int, NEW c \in Int,
         Multiple(a, m), Multiple(c, m), a < c + m
  PROVE  a <= c
<1>1. PICK i \in Nat : a = i * m
  BY DEF Multiple
<1>2. PICK j \in Nat : c = j * m
  BY DEF Multiple
<1>3. i * m < j * m + m
  BY <1>1, <1>2
<1>4. i <= j
  BY <1>3
<1>5. i * m <= j * m
  BY <1>4
<1>6. QED
  BY <1>1, <1>2, <1>5

LEMMA MultipleTrans ==
  ASSUME NEW a \in Nat, NEW c \in Nat, NEW m \in Nat,
         Multiple(a, c), Multiple(c, m)
  PROVE  Multiple(a, m)
<1>1. PICK i \in Nat : a = i * c
  BY DEF Multiple
<1>2. PICK j \in Nat : c = j * m
  BY DEF Multiple
<1>3. i * j \in Nat /\ a = (i * j) * m
  BY <1>1, <1>2
<1>4. QED
  BY <1>3 DEF Multiple

LEMMA TruncateIs ==
  ASSUME NEW x \in Nat, NEW m \in Nat \ {0}
  PROVE  /\ x \div m \in Nat /\ Truncate(x, m) = (x \div m) * m
         /\ Truncate(x, m) \in Nat /\ Multiple(Truncate(x, m), m)
         /\ Truncate(x, m) <= x /\ x < Truncate(x, m) + m
<1>1. x = (x \div m) * m + (x % m) /\ x % m \in 0 .. m - 1 /\ x \div m \in Nat
  OBVIOUS
<1> DEFINE k == x \div m
           r == x % m
<1> HIDE DEF k, r
<1>2. x = k * m + r /\ r \in 0 .. m - 1 /\ k \in Nat
  BY <1>1 DEF k, r
<1>3. Truncate(x, m) = x - r
  BY DEF Truncate, r
<1>4. k * m \in Nat
  BY <1>2
<1>5. Truncate(x, m) = k * m
  BY <1>2, <1>3, <1>4
<1>6. /\ Truncate(x, m) \in Nat
      /\ Truncate(x, m) <= x /\ x < Truncate(x, m) + m
  BY <1>2, <1>4, <1>5
<1>7. QED
  BY <1>2, <1>5, <1>6 DEF Multiple, k

LEMMA TruncateMax ==
  ASSUME NEW x \in Nat, NEW m \in Nat \ {0}, NEW a \in Int, Multiple(a, m), a <= x
  PROVE  a <= Truncate(x, m)
<1>1. /\ Truncate(x, m) \in Nat /\ Multiple(Truncate(x, m), m)
      /\ x < Truncate(x, m) + m
  BY TruncateIs
<1>2. a < Truncate(x, m) + m
  BY <1>1
<1>3. QED
  BY <1>1, <1>2, MultipleStep

(* Two values of one bucket that its wheel spans at once are the same.     *)
LEMMA Window ==
  ASSUME NEW m \in Nat \ {0}, NEW S \in Nat \ {0}, NEW i \in Nat, NEW j \in Nat,
         NEW c \in Int, i % S = j % S, c <= i * m, j * m < c + m * S
  PROVE  j <= i
<1>1. i = (i \div S) * S + (i % S) /\ i % S \in 0 .. S - 1 /\ i \div S \in Nat
  OBVIOUS
<1>2. j = (j \div S) * S + (j % S) /\ j % S \in 0 .. S - 1 /\ j \div S \in Nat
  OBVIOUS
<1> DEFINE u == i \div S
           w == j \div S
           r == i % S
<1> HIDE DEF u, w, r
<1>3. i = u * S + r /\ j = w * S + r /\ u \in Nat /\ w \in Nat /\ r \in Nat
  BY <1>1, <1>2 DEF u, w, r
<1>4. SUFFICES ASSUME j > i PROVE FALSE
  OBVIOUS
<1>5. w > u
  <2>1. SUFFICES ASSUME u >= w PROVE FALSE
    BY <1>3
  <2>2. u * S >= w * S
    BY <2>1, <1>3
  <2>3. QED
    BY <2>2, <1>3, <1>4
<1>6. w * S >= u * S + S
  BY <1>3, <1>5
<1>7. j >= i + S
  BY <1>3, <1>6
<1>8. j * m >= (i + S) * m
  BY <1>7
<1>9. (i + S) * m = i * m + m * S
  OBVIOUS
<1>10. j * m \in Int /\ i * m \in Int /\ m * S \in Int
  OBVIOUS
<1>11. QED
  BY <1>8, <1>9, <1>10

-----------------------------------------------------------------------------
(* The wheels, the goroutines on them and the timers in their buckets.     *)
LEMMA WheelIs ==
  ASSUME IInv, NEW l \in 1 .. wheels
  PROVE  /\ l \in 1 .. Levels /\ tick[l] \in Nat \ {0} /\ currentTime[l] \in Nat
         /\ Interval(l) = tick[l] * Size /\ Interval(l) \in Nat \ {0}
         /\ End(l) \in Nat /\ End(l) = currentTime[l] + Interval(l)
<1>1. l \in 1 .. Levels /\ tick[l] \in Nat /\ tick[l] > 0 /\ currentTime[l] \in Nat
  BY WheelAssumption DEF WheelAssumption, IInv, TypeOK, Chain
<1>2. Interval(l) \in Nat \ {0}
  BY <1>1, IntervalPositive, WheelAssumption DEF IInv
<1>3. QED
  BY <1>1, <1>2 DEF Interval, End

LEMMA WalkerIs ==
  ASSUME IInv, NEW p \in Procs, Busy(p)
  PROVE  /\ TimerOf(p) \in Timers /\ texp[TimerOf(p)] \in Nat
         /\ lvl[p] \in 1 .. wheels
         /\ BucketOf(p) \in Buckets /\ BucketOf(p)[1] = lvl[p]
         /\ SlotOf(p) = Slot(TimerOf(p), lvl[p])
         /\ SlotOf(p) \in Nat /\ IsSlot(BucketOf(p), SlotOf(p))
         /\ Multiple(SlotOf(p), tick[lvl[p]])
         /\ SlotOf(p) <= texp[TimerOf(p)]
         /\ texp[TimerOf(p)] < SlotOf(p) + tick[lvl[p]]
<1>1. TimerOf(p) \in Timers
  BY DEF IInv, Control, Busy, TimerOf, Procs
<1>2. texp[TimerOf(p)] \in Nat
  BY <1>1 DEF IInv, TypeOK
<1>3. lvl[p] \in 1 .. wheels
  BY DEF IInv, TypeOK, Chain
<1>4. tick[lvl[p]] \in Nat \ {0}
  BY <1>3, WheelIs
<1>5. BucketOf(p) \in Buckets
  BY <1>1, BucketInRange DEF IInv
<1>6. /\ BucketOf(p)[1] = lvl[p]
      /\ BucketOf(p)[2] = (texp[TimerOf(p)] \div tick[lvl[p]]) % Size
  BY DEF BucketOf
<1>7. SlotOf(p) = Slot(TimerOf(p), lvl[p])
  BY DEF SlotOf, Slot
<1>8. /\ texp[TimerOf(p)] \div tick[lvl[p]] \in Nat
      /\ SlotOf(p) = (texp[TimerOf(p)] \div tick[lvl[p]]) * tick[lvl[p]]
      /\ SlotOf(p) \in Nat /\ Multiple(SlotOf(p), tick[lvl[p]])
      /\ SlotOf(p) <= texp[TimerOf(p)]
      /\ texp[TimerOf(p)] < SlotOf(p) + tick[lvl[p]]
  BY <1>2, <1>4, TruncateIs DEF SlotOf
<1>9. IsSlot(BucketOf(p), SlotOf(p))
  BY <1>6, <1>8 DEF IsSlot
<1>10. QED
  BY <1>1, <1>2, <1>3, <1>5, <1>6, <1>7, <1>8, <1>9

(* The expiration of a bucket that add has found is ahead of its wheel's   *)
(* clock, and the wheel spans it.                                          *)
LEMMA PlacedIs ==
  ASSUME IInv, Scale, Walking, NEW p \in Procs, pc[p] \in {"insert"} \cup Placed
  PROVE  /\ Busy(p)
         /\ currentTime[lvl[p]] + tick[lvl[p]] <= SlotOf(p)
         /\ SlotOf(p) < End(lvl[p])
<1>1. Busy(p)
  BY DEF Busy, Placed
<1>2. /\ lvl[p] \in 1 .. wheels /\ SlotOf(p) \in Nat /\ texp[TimerOf(p)] \in Nat
      /\ Multiple(SlotOf(p), tick[lvl[p]])
      /\ SlotOf(p) <= texp[TimerOf(p)]
      /\ texp[TimerOf(p)] < SlotOf(p) + tick[lvl[p]]
  BY <1>1, WalkerIs
<1>3. /\ tick[lvl[p]] \in Nat \ {0} /\ currentTime[lvl[p]] \in Nat
      /\ End(lvl[p]) \in Nat
  BY <1>2, WheelIs
<1>4. /\ currentTime[lvl[p]] + tick[lvl[p]] <= texp[TimerOf(p)]
      /\ texp[TimerOf(p)] < End(lvl[p])
  BY DEF Walking, Walks
<1>5. SlotOf(p) < End(lvl[p])
  BY <1>2, <1>3, <1>4
<1>6. Multiple(currentTime[lvl[p]], tick[lvl[p]])
  BY <1>2 DEF Scale
<1>7. ~(SlotOf(p) <= currentTime[lvl[p]])
  BY <1>2, <1>3, <1>4
<1>8. ~(SlotOf(p) < currentTime[lvl[p]] + tick[lvl[p]])
  BY <1>2, <1>3, <1>6, <1>7, MultipleStep
<1>9. QED
  BY <1>1, <1>2, <1>3, <1>5, <1>8

LEMMA ListedIs ==
  ASSUME IInv, InBucket, NEW b \in Buckets, NEW t \in timers[b]
  PROVE  /\ t \in Timers /\ texp[t] \in Nat /\ b[1] \in 1 .. wheels
         /\ Slot(t, b[1]) \in Nat /\ IsSlot(b, Slot(t, b[1]))
         /\ Slot(t, b[1]) <= texp[t] /\ Slot(t, b[1]) < End(b[1])
         /\ texp[t] < Slot(t, b[1]) + tick[b[1]]
<1>1. t \in Timers /\ texp[t] \in Nat
  BY DEF IInv, TypeOK
<1>2. b[1] \in 1 .. wheels
  <2>1. b[1] \in 1 .. Levels /\ b[1] <= wheels /\ wheels \in 1 .. Levels
    BY WheelAssumption DEF InBucket, Buckets, IInv, TypeOK
  <2>2. QED
    BY <2>1
<1>3. tick[b[1]] \in Nat \ {0}
  BY <1>2, WheelIs
<1>4. /\ texp[t] \div tick[b[1]] \in Nat
      /\ Slot(t, b[1]) = (texp[t] \div tick[b[1]]) * tick[b[1]]
      /\ Slot(t, b[1]) \in Nat /\ Slot(t, b[1]) <= texp[t]
      /\ texp[t] < Slot(t, b[1]) + tick[b[1]]
  BY <1>1, <1>3, TruncateIs DEF Slot
<1>5. Slot(t, b[1]) < End(b[1]) /\ (texp[t] \div tick[b[1]]) % Size = b[2]
  BY DEF InBucket
<1>6. IsSlot(b, Slot(t, b[1]))
  BY <1>4, <1>5 DEF IsSlot
<1>7. QED
  BY <1>1, <1>2, <1>4, <1>5, <1>6

LEMMA QueuedIs ==
  ASSUME IInv, Queued, NEW e \in Entries
  PROVE  /\ e = <<e[1], e[2]>> /\ e[1] \in Buckets /\ e[2] \in Nat
         /\ e[1][1] \in 1 .. wheels /\ IsSlot(e[1], e[2]) /\ e[2] < End(e[1][1])
<1>1. e \in Buckets \X Int
  BY DEF IInv, TypeOK, Entries
<1>2. e = <<e[1], e[2]>> /\ e[1] \in Buckets
  BY <1>1
<1>3. e[1][1] \in 1 .. Levels /\ wheels \in 1 .. Levels
  BY <1>2 DEF Buckets, IInv, TypeOK
<1>4. e[1][1] <= wheels /\ IsSlot(e[1], e[2]) /\ e[2] < End(e[1][1])
  BY DEF Queued
<1>5. e[1][1] \in 1 .. wheels
  BY <1>3, <1>4
<1>6. tick[e[1][1]] \in Nat
  BY <1>5, WheelIs
<1>7. e[2] \in Nat
  BY <1>4, <1>6 DEF IsSlot
<1>8. QED
  BY <1>2, <1>4, <1>5, <1>7

LEMMA OneSlot ==
  ASSUME IInv, NEW b \in Buckets, b[1] \in 1 .. wheels, NEW v, NEW x,
         IsSlot(b, v), IsSlot(b, x), currentTime[b[1]] <= v, x < End(b[1])
  PROVE  x <= v
<1>1. PICK i \in Nat : v = i * tick[b[1]] /\ i % Size = b[2]
  BY DEF IsSlot
<1>2. PICK j \in Nat : x = j * tick[b[1]] /\ j % Size = b[2]
  BY DEF IsSlot
<1>3. /\ tick[b[1]] \in Nat \ {0} /\ currentTime[b[1]] \in Int
      /\ End(b[1]) = currentTime[b[1]] + tick[b[1]] * Size
  BY WheelIs
<1>4. Size \in Nat \ {0}
  BY WheelAssumption DEF WheelAssumption
<1>5. j <= i
  BY <1>1, <1>2, <1>3, <1>4, Window
<1>6. j * tick[b[1]] <= i * tick[b[1]]
  BY <1>3, <1>5
<1>7. QED
  BY <1>1, <1>2, <1>6

(* A placed goroutine's bucket has one expiration at a time.               *)
LEMMA PlacedAgree ==
  ASSUME IInv, Scale, Walking, NEW p \in Procs, pc[p] \in {"insert"} \cup Placed,
         NEW v \in Int, IsSlot(BucketOf(p), v), v < End(lvl[p])
  PROVE  /\ v <= SlotOf(p)
         /\ currentTime[lvl[p]] <= v => v = SlotOf(p)
<1>1. Busy(p) /\ currentTime[lvl[p]] + tick[lvl[p]] <= SlotOf(p) /\ SlotOf(p) < End(lvl[p])
  BY PlacedIs
<1>2. /\ lvl[p] \in 1 .. wheels /\ BucketOf(p) \in Buckets /\ BucketOf(p)[1] = lvl[p]
      /\ SlotOf(p) \in Nat /\ IsSlot(BucketOf(p), SlotOf(p))
  BY <1>1, WalkerIs
<1>3. tick[lvl[p]] \in Nat \ {0} /\ currentTime[lvl[p]] \in Nat
  BY <1>2, WheelIs
<1>4. currentTime[lvl[p]] <= SlotOf(p)
  BY <1>1, <1>2, <1>3
<1>5. v <= SlotOf(p)
  BY <1>2, <1>4, OneSlot
<1>6. ASSUME currentTime[lvl[p]] <= v PROVE SlotOf(p) <= v
  BY <1>1, <1>2, <1>6, OneSlot
<1>7. QED
  BY <1>2, <1>5, <1>6

(* While somebody adds a timer W is at rest, or it is W that flushes.      *)
LEMMA BusyIs ==
  ASSUME IInv, Exclusive, NEW p \in Procs, Busy(p)
  PROVE  /\ wpc \in {"receive", "stopped", "flush"}
         /\ p # W => wpc \in {"receive", "stopped"} /\ wb = Nil /\ ~Busy(W)
         /\ p = W => wpc = "flush" /\ wb \in Buckets /\ ~Adding
<1>1. CASE p = W
  <2>1. wpc = "flush" /\ wb \in Buckets
    BY <1>1 DEF IInv, Control, Busy
  <2>2. QED
    BY <1>1, <2>1 DEF Exclusive
<1>2. CASE p # W
  <2>1. Adding
    BY <1>2 DEF Adding, Busy, Procs
  <2>2. wpc \in {"receive", "stopped"} /\ wb = Nil
    BY <2>1 DEF Exclusive
  <2>3. QED
    BY <1>2, <2>2 DEF IInv, Control, Busy
<1>3. QED
  BY <1>1, <1>2

(* The bucket that W flushes is behind its clock.                          *)
LEMMA FlushedIs ==
  ASSUME IInv, PInv, pc[W] \in {"insert"} \cup Placed
  PROVE  BucketOf(W) # wb
<1> USE DEF PInv
<1>1. W \in Procs /\ Busy(W) /\ currentTime[lvl[W]] + tick[lvl[W]] <= SlotOf(W)
  BY PlacedIs DEF Procs
<1>2. /\ lvl[W] \in 1 .. wheels /\ BucketOf(W)[1] = lvl[W] /\ SlotOf(W) \in Nat
      /\ SlotOf(W) = Slot(wt, lvl[W])
  BY <1>1, WalkerIs DEF TimerOf
<1>3. tick[lvl[W]] \in Nat \ {0} /\ currentTime[lvl[W]] \in Nat
  BY <1>2, WheelIs
<1>4. Slot(wt, wb[1]) <= currentTime[wb[1]]
  BY <1>1 DEF Flushing, Busy
<1>5. ASSUME BucketOf(W) = wb PROVE FALSE
  BY <1>1, <1>2, <1>3, <1>4, <1>5
<1>6. QED
  BY <1>5

-----------------------------------------------------------------------------
(* Steps that place no timer, queue no bucket and give none back to the    *)
(* callers: what is said of buckets and of placed goroutines stays.        *)
Still ==
  /\ wb' = wb /\ expiration' = expiration /\ Entries' = Entries
  /\ \A b \in Buckets : timers'[b] \subseteq timers[b]
  /\ \A b \in Buckets : \A t \in timers[b] : texp'[t] = texp[t]
  /\ wheels' >= wheels
  /\ \A l \in 1 .. wheels : tick'[l] = tick[l] /\ currentTime'[l] >= currentTime[l]
  /\ \A q \in Procs : pc[q] \in Placed \/ pc'[q] \in Placed =>
       /\ pc'[q] = pc[q] /\ lvl'[q] = lvl[q] /\ loc'[q] = loc[q]
       /\ TimerOf(q)' = TimerOf(q) /\ texp'[TimerOf(q)] = texp[TimerOf(q)]

LEMMA StillKeeps ==
  ASSUME IInv, IInv', InBucket, Expirations, Offered, Queued, Fresh, Covered, Still
  PROVE  InBucket' /\ Expirations' /\ Offered' /\ Queued' /\ Fresh' /\ Covered'
<1>1. /\ wb' = wb /\ expiration' = expiration /\ Entries' = Entries
      /\ \A b \in Buckets : timers'[b] \subseteq timers[b]
      /\ wheels' \in Nat /\ wheels \in Nat /\ wheels' >= wheels
  BY WheelAssumption DEF WheelAssumption, Still, IInv, TypeOK
<1>2. ASSUME NEW q \in Procs, pc[q] \in Placed \/ pc'[q] \in Placed
      PROVE  /\ pc'[q] = pc[q] /\ loc'[q] = loc[q]
             /\ BucketOf(q)' = BucketOf(q) /\ SlotOf(q)' = SlotOf(q)
  <2>1. /\ pc'[q] = pc[q] /\ lvl'[q] = lvl[q] /\ loc'[q] = loc[q]
        /\ TimerOf(q)' = TimerOf(q) /\ texp'[TimerOf(q)] = texp[TimerOf(q)]
    BY <1>2 DEF Still
  <2>2. Busy(q)
    BY <1>2, <2>1 DEF Busy, Placed
  <2>3. tick'[lvl[q]] = tick[lvl[q]]
    BY <2>2, WalkerIs DEF Still
  <2>4. QED
    BY <2>1, <2>3 DEF BucketOf, SlotOf
<1>3. ASSUME NEW l \in 1 .. wheels
      PROVE  /\ tick'[l] = tick[l] /\ currentTime'[l] >= currentTime[l]
             /\ currentTime[l] \in Nat /\ currentTime'[l] \in Nat
             /\ End(l) \in Nat /\ End(l)' \in Nat /\ End(l)' >= End(l)
  <2>1. tick'[l] = tick[l] /\ currentTime'[l] >= currentTime[l]
    BY DEF Still
  <2>3. /\ currentTime[l] \in Nat /\ End(l) \in Nat /\ Interval(l) \in Nat
        /\ End(l) = currentTime[l] + Interval(l)
    BY WheelIs
  <2>4. currentTime'[l] \in Nat
    <3>1. l \in 1 .. Levels
      BY WheelIs
    <3>2. QED
      BY <3>1 DEF IInv, TypeOK
  <2>5. End(l)' = currentTime'[l] + Interval(l)
    BY <2>1 DEF Interval, End
  <2>6. QED
    BY <2>1, <2>3, <2>4, <2>5
<1>4. ASSUME NEW b \in Buckets, b[1] \in 1 .. wheels, NEW v
      PROVE  IsSlot(b, v)' <=> IsSlot(b, v)
  BY <1>3, <1>4 DEF IsSlot
<1>5. ASSUME NEW b \in Buckets, NEW t \in timers'[b]
      PROVE  /\ t \in timers[b] /\ b[1] \in 1 .. wheels
             /\ texp'[t] = texp[t] /\ tick'[b[1]] = tick[b[1]]
             /\ Slot(t, b[1])' = Slot(t, b[1])
             /\ Slot(t, b[1]) \in Nat
  <2>1. t \in timers[b]
    BY <1>1
  <2>2. b[1] \in 1 .. wheels /\ Slot(t, b[1]) \in Nat
    BY <2>1, ListedIs
  <2>3. texp'[t] = texp[t] /\ tick'[b[1]] = tick[b[1]]
    BY <2>1, <2>2 DEF Still
  <2>4. QED
    BY <2>1, <2>2, <2>3 DEF Slot
<1>6. InBucket'
  <2> SUFFICES ASSUME NEW b \in Buckets, NEW t \in timers'[b]
               PROVE  /\ b[1] <= wheels'
                      /\ (texp'[t] \div tick'[b[1]]) % Size = b[2]
                      /\ Slot(t, b[1])' < End(b[1])'
                      /\ \/ Slot(t, b[1])' <= expiration'[b]
                         \/ \E p \in Procs : pc'[p] = "setExpiration" /\ BucketOf(p)' = b
    BY DEF InBucket
  <2>1. /\ t \in timers[b] /\ b[1] \in 1 .. wheels
        /\ texp'[t] = texp[t] /\ tick'[b[1]] = tick[b[1]]
        /\ Slot(t, b[1])' = Slot(t, b[1]) /\ Slot(t, b[1]) \in Nat
    BY <1>5
  <2>2. /\ (texp[t] \div tick[b[1]]) % Size = b[2]
        /\ Slot(t, b[1]) < End(b[1])
        /\ \/ Slot(t, b[1]) <= expiration[b]
           \/ \E p \in Procs : pc[p] = "setExpiration" /\ BucketOf(p) = b
    BY <2>1 DEF InBucket
  <2>3. b[1] <= wheels' /\ Slot(t, b[1])' < End(b[1])'
    BY <1>1, <1>3, <2>1, <2>2
  <2>4. (texp'[t] \div tick'[b[1]]) % Size = b[2]
    BY <2>1, <2>2
  <2>5. \/ Slot(t, b[1])' <= expiration'[b]
        \/ \E p \in Procs : pc'[p] = "setExpiration" /\ BucketOf(p)' = b
    BY <1>1, <1>2, <2>1, <2>2 DEF Placed
  <2>6. QED
    BY <2>3, <2>4, <2>5
<1>7. Expirations'
  <2> SUFFICES ASSUME NEW b \in Buckets, expiration'[b] # -1
               PROVE  /\ b[1] <= wheels' /\ IsSlot(b, expiration[b])'
                      /\ expiration'[b] < End(b[1])'
                      /\ \/ <<b, expiration'[b]>> \in Entries'
                         \/ \E p \in Procs : pc'[p] \in Offering /\ BucketOf(p)' = b
                         \/ wb' = b
    BY DEF Expirations
  <2>1. /\ b[1] <= wheels /\ IsSlot(b, expiration[b]) /\ expiration[b] < End(b[1])
        /\ \/ <<b, expiration[b]>> \in Entries
           \/ \E p \in Procs : pc[p] \in Offering /\ BucketOf(p) = b
           \/ wb = b
    BY <1>1 DEF Expirations
  <2>2. b[1] \in 1 .. wheels /\ expiration[b] \in Int
    BY <1>1, <2>1, WheelAssumption DEF WheelAssumption, Buckets, IInv, TypeOK
  <2>3. b[1] <= wheels' /\ expiration'[b] < End(b[1])'
    BY <1>1, <1>3, <2>1, <2>2
  <2>4. IsSlot(b, expiration[b])'
    BY <1>1, <1>3, <2>1, <2>2 DEF IsSlot
  <2>5. \/ <<b, expiration'[b]>> \in Entries'
        \/ \E p \in Procs : pc'[p] \in Offering /\ BucketOf(p)' = b
        \/ wb' = b
    BY <1>1, <1>2, <2>1 DEF Placed, Offering
  <2>6. QED
    BY <2>3, <2>4, <2>5
<1>8. Offered'
  BY <1>1, <1>2 DEF Offered, Placed, Offering
<1>9. Queued'
  <2> SUFFICES ASSUME NEW e \in Entries'
               PROVE  /\ e[1][1] <= wheels' /\ IsSlot(e[1], e[2])'
                      /\ e[2] < End(e[1][1])'
                      /\ e[2] <= currentTime'[e[1][1]] \/ expiration'[e[1]] = e[2]
    BY DEF Queued
  <2>1. e \in Entries
    BY <1>1
  <2>2. /\ e[1] \in Buckets /\ e[2] \in Nat /\ e[1][1] \in 1 .. wheels
        /\ IsSlot(e[1], e[2]) /\ e[2] < End(e[1][1])
    BY <2>1, QueuedIs
  <2>3. e[2] <= currentTime[e[1][1]] \/ expiration[e[1]] = e[2]
    BY <2>1 DEF Queued
  <2>4. e[1][1] <= wheels' /\ e[2] < End(e[1][1])'
    BY <1>1, <1>3, <2>2
  <2>5. IsSlot(e[1], e[2])'
    BY <1>4, <2>2
  <2>6. e[2] <= currentTime'[e[1][1]] \/ expiration'[e[1]] = e[2]
    BY <1>1, <1>3, <2>2, <2>3
  <2>7. QED
    BY <2>4, <2>5, <2>6
<1>10. Fresh'
  BY <1>1, <1>2 DEF Fresh, Placed, Offering
<1>11. Covered'
  <2> SUFFICES ASSUME NEW b \in Buckets, NEW t \in timers'[b]
               PROVE  \/ \E e \in Entries' : e[1] = b /\ e[2] <= Slot(t, b[1])'
                      \/ \E p \in Procs : /\ pc'[p] \in Placed
                                          /\ BucketOf(p)' = b
                                          /\ SlotOf(p)' = Slot(t, b[1])'
                      \/ wb' = b
    BY DEF Covered
  <2>1. t \in timers[b] /\ Slot(t, b[1])' = Slot(t, b[1])
    BY <1>5
  <2>2. \/ \E e \in Entries : e[1] = b /\ e[2] <= Slot(t, b[1])
        \/ \E p \in Procs : /\ pc[p] \in Placed
                            /\ BucketOf(p) = b /\ SlotOf(p) = Slot(t, b[1])
        \/ wb = b
    BY <2>1 DEF Covered
  <2>3. QED
    BY <1>1, <1>2, <2>1, <2>2
<1>12. QED
  BY <1>6, <1>7, <1>8, <1>9, <1>10, <1>11

(* The steps of add that work on a bucket change no clock, and leave every *)
(* goroutine where it is on the wheels.                                    *)
Steady(p) ==
  /\ UNCHANGED <<tick, currentTime, wheels, texp, lvl, wpc, wb, wt, taken>>
  /\ \A q \in Procs \ {p} : pc'[q] = pc[q] /\ loc'[q] = loc[q]

LEMMA SteadyIs ==
  ASSUME IInv, NEW p \in Procs, Steady(p)
  PROVE  /\ \A q \in Procs : BucketOf(q)' = BucketOf(q) /\ SlotOf(q)' = SlotOf(q)
         /\ \A l \in 1 .. Levels : End(l)' = End(l)
         /\ \A t \in Timers, l \in 1 .. Levels : Slot(t, l)' = Slot(t, l)
         /\ \A b \in Buckets, v \in Int : IsSlot(b, v)' <=> IsSlot(b, v)
  BY DEF Steady, BucketOf, SlotOf, TimerOf, Slot, End, Interval, IsSlot

(* bucket.Add: the timer's own goroutine answers for it.                   *)
LEMMA InsertKeeps ==
  ASSUME IInv, IInv', PInv, NEW p \in Procs, Insert(p)
  PROVE  InBucket' /\ Expirations' /\ Offered' /\ Queued' /\ Fresh' /\ Covered'
<1> DEFINE b == BucketOf(p)
           t == TimerOf(p)
<1>1. /\ pc[p] = "insert" /\ Busy(p)
      /\ timers' = [timers EXCEPT ![b] = @ \cup {t}]
      /\ pc' = [pc EXCEPT ![p] = "setExpiration"]
      /\ UNCHANGED <<expiration, queue, loc>> /\ Steady(p)
  BY DEF Insert, Steady, Busy, wheelVars, clockVars, queueVars, wVars, stopVars, IInv, TypeOK
<1>2. /\ b \in Buckets /\ t \in Timers /\ b[1] = lvl[p] /\ lvl[p] \in 1 .. wheels
      /\ SlotOf(p) = Slot(t, lvl[p]) /\ SlotOf(p) < End(lvl[p])
      /\ b[2] = (texp[t] \div tick[b[1]]) % Size
  BY <1>1, WalkerIs, PlacedIs DEF BucketOf, PInv
<1> HIDE DEF b, t
<1>3. /\ \A q \in Procs : BucketOf(q)' = BucketOf(q) /\ SlotOf(q)' = SlotOf(q)
      /\ \A l \in 1 .. Levels : End(l)' = End(l)
      /\ \A u \in Timers, l \in 1 .. Levels : Slot(u, l)' = Slot(u, l)
      /\ \A c \in Buckets, v \in Int : IsSlot(c, v)' <=> IsSlot(c, v)
  BY <1>1, SteadyIs
<1>4. /\ UNCHANGED <<tick, currentTime, wheels, texp, lvl, wpc, wb, wt, taken>>
      /\ Entries' = Entries
  BY <1>1 DEF Steady, Entries
<1>5. /\ pc'[p] = "setExpiration"
      /\ \A q \in Procs : q # p => pc'[q] = pc[q]
      /\ timers'[b] = timers[b] \cup {t}
      /\ \A c \in Buckets : c # b => timers'[c] = timers[c]
  BY <1>1, <1>2 DEF IInv, TypeOK
<1>6. \A c \in Buckets : c[1] \in 1 .. Levels
  BY DEF Buckets
<1>7. InBucket'
  <2> SUFFICES ASSUME NEW c \in Buckets, NEW u \in timers'[c]
               PROVE  /\ c[1] <= wheels'
                      /\ (texp'[u] \div tick'[c[1]]) % Size = c[2]
                      /\ Slot(u, c[1])' < End(c[1])'
                      /\ \/ Slot(u, c[1])' <= expiration'[c]
                         \/ \E q \in Procs : pc'[q] = "setExpiration" /\ BucketOf(q)' = c
    BY DEF InBucket
  <2>1. u \in Timers /\ c[1] \in 1 .. Levels
    BY <1>6 DEF IInv, TypeOK
  <2>2. Slot(u, c[1])' = Slot(u, c[1]) /\ End(c[1])' = End(c[1])
    BY <1>3, <2>1
  <2>3. CASE u \in timers[c]
    <3>1. /\ c[1] <= wheels /\ (texp[u] \div tick[c[1]]) % Size = c[2]
          /\ Slot(u, c[1]) < End(c[1])
          /\ \/ Slot(u, c[1]) <= expiration[c]
             \/ \E q \in Procs : pc[q] = "setExpiration" /\ BucketOf(q) = c
      BY <2>3 DEF InBucket, PInv
    <3>2. \A q \in Procs : pc[q] = "setExpiration" => pc'[q] = "setExpiration"
      BY <1>1, <1>5
    <3>3. QED
      BY <1>1, <1>3, <1>4, <2>2, <3>1, <3>2
  <2>4. CASE u \notin timers[c]
    <3>1. c = b /\ u = t
      BY <1>5, <2>4
    <3>2. c[1] <= wheels' /\ Slot(u, c[1])' < End(c[1])'
      BY <1>2, <1>4, <2>2, <3>1
    <3>3. (texp'[u] \div tick'[c[1]]) % Size = c[2]
      BY <1>2, <1>4, <3>1
    <3>4. pc'[p] = "setExpiration" /\ BucketOf(p)' = c
      BY <1>3, <1>5, <3>1 DEF b
    <3>5. QED
      BY <3>2, <3>3, <3>4
  <2>5. QED
    BY <2>3, <2>4
<1>8. \A q \in Procs : pc'[q] \in Offering <=> pc[q] \in Offering
  BY <1>1, <1>5 DEF Offering
<1>9. \A q \in Procs : pc'[q] = "offer" => pc[q] = "offer"
  BY <1>1, <1>5
<1>10. Expirations'
  <2>1. expiration \in [Buckets -> Int]
    BY DEF IInv, TypeOK
  <2>2. QED
    BY <1>1, <1>3, <1>4, <1>6, <1>8, <2>1 DEF Expirations, PInv
<1>11. Offered'
  BY <1>1, <1>3, <1>8, <1>9 DEF Offered, PInv
<1>12. Queued'
  <2>1. \A e \in Entries : e[1] \in Buckets /\ e[2] \in Int
    BY QueuedIs DEF PInv
  <2>2. QED
    BY <1>1, <1>3, <1>4, <1>6, <2>1 DEF Queued, PInv
<1>13. Fresh'
  BY <1>3, <1>4, <1>8 DEF Fresh, PInv
<1>14. Covered'
  <2> SUFFICES ASSUME NEW c \in Buckets, NEW u \in timers'[c]
               PROVE  \/ \E e \in Entries' : e[1] = c /\ e[2] <= Slot(u, c[1])'
                      \/ \E q \in Procs : /\ pc'[q] \in Placed /\ BucketOf(q)' = c
                                          /\ SlotOf(q)' = Slot(u, c[1])'
                      \/ wb' = c
    BY DEF Covered
  <2>1. u \in Timers /\ c[1] \in 1 .. Levels
    BY <1>6 DEF IInv, TypeOK
  <2>2. Slot(u, c[1])' = Slot(u, c[1])
    BY <1>3, <2>1
  <2>3. CASE u \in timers[c]
    <3>1. \A q \in Procs : pc[q] \in Placed => pc'[q] \in Placed
      BY <1>1, <1>5 DEF Placed
    <3>2. \/ \E e \in Entries : e[1] = c /\ e[2] <= Slot(u, c[1])
          \/ \E q \in Procs : /\ pc[q] \in Placed
                              /\ BucketOf(q) = c /\ SlotOf(q) = Slot(u, c[1])
          \/ wb = c
      BY <2>3 DEF Covered, PInv
    <3>3. QED
      BY <1>3, <1>4, <2>2, <3>1, <3>2
  <2>4. CASE u \notin timers[c]
    <3>1. c = b /\ u = t
      BY <1>5, <2>4
    <3>2. pc'[p] \in Placed /\ BucketOf(p)' = c
      BY <1>3, <1>5, <3>1 DEF b, Placed
    <3>3. SlotOf(p)' = Slot(u, c[1])'
      BY <1>2, <1>3, <2>2, <3>1
    <3>4. QED
      BY <3>2, <3>3
  <2>5. QED
    BY <2>3, <2>4
<1>15. QED
  BY <1>7, <1>10, <1>11, <1>12, <1>13, <1>14

(* SwapInt64: the bucket gets the expiration of the one timer, which is    *)
(* that of every timer it holds or that was placed in it, or its own is in *)
(* the past.                                                               *)
LEMMA SetExpirationKeeps ==
  ASSUME IInv, IInv', PInv, NEW p \in Procs, SetExpiration(p)
  PROVE  InBucket' /\ Expirations' /\ Offered' /\ Queued' /\ Fresh' /\ Covered'
<1> DEFINE b == BucketOf(p)
           v == SlotOf(p)
<1>1. /\ pc[p] = "setExpiration" /\ Busy(p)
      /\ expiration' = [expiration EXCEPT ![b] = v]
      /\ pc' = IF expiration[b] # v THEN [pc EXCEPT ![p] = "readExpiration"]
                                    ELSE Returned(p)
      /\ UNCHANGED <<timers, queue, loc>>
  BY DEF SetExpiration, Busy, queueVars
<1>2. /\ \A q \in Procs : q # p => pc'[q] = pc[q]
      /\ expiration[b] # v => pc'[p] = "readExpiration"
      /\ expiration[b] = v => pc'[p] \notin Placed
      /\ pc'[p] # "offer" /\ pc'[p] # "setExpiration"
  BY <1>1 DEF Returned, Placed, IInv, TypeOK
<1>3. Steady(p)
  BY <1>2 DEF SetExpiration, Steady, wheelVars, clockVars, queueVars, wVars, stopVars
<1>4. /\ b \in Buckets /\ b[1] = lvl[p] /\ lvl[p] \in 1 .. wheels
      /\ v \in Nat /\ IsSlot(b, v) /\ v < End(lvl[p])
      /\ currentTime[lvl[p]] + tick[lvl[p]] <= v
  BY <1>1, WalkerIs, PlacedIs DEF PInv, Placed
<1>5. currentTime[lvl[p]] < v
  BY <1>4, WheelIs
<1>6. ASSUME NEW x \in Int, IsSlot(b, x), x < End(lvl[p])
      PROVE  x <= v /\ (currentTime[lvl[p]] <= x => x = v)
  BY <1>1, <1>6, PlacedAgree DEF PInv, Placed
<1>7. /\ \A q \in Procs : BucketOf(q)' = BucketOf(q) /\ SlotOf(q)' = SlotOf(q)
      /\ \A l \in 1 .. Levels : End(l)' = End(l)
      /\ \A u \in Timers, l \in 1 .. Levels : Slot(u, l)' = Slot(u, l)
      /\ \A c \in Buckets, x \in Int : IsSlot(c, x)' <=> IsSlot(c, x)
  BY <1>3, SteadyIs
<1>8. /\ UNCHANGED <<tick, currentTime, wheels, texp, lvl, wpc, wb, wt, taken>>
      /\ Entries' = Entries /\ timers' = timers
  BY <1>1, <1>3 DEF Steady, Entries
<1>9. /\ BucketOf(p) = b /\ SlotOf(p) = v
      /\ expiration \in [Buckets -> Int]
      /\ \A c \in Buckets : c[1] \in 1 .. Levels
  BY DEF IInv, TypeOK, Buckets
<1> HIDE DEF b, v
<1>10. /\ expiration'[b] = v
       /\ \A c \in Buckets : c # b => expiration'[c] = expiration[c]
  BY <1>1, <1>4, <1>9
(* Another goroutine that is to queue the bucket does so with the same     *)
(* expiration.                                                             *)
<1>11. ASSUME NEW q \in Procs, pc[q] \in Offering, BucketOf(q) = b
       PROVE  SlotOf(q) = v /\ expiration[b] = v
  <2>1. /\ Busy(q) /\ currentTime[lvl[q]] + tick[lvl[q]] <= SlotOf(q)
        /\ SlotOf(q) < End(lvl[q])
    BY <1>11, PlacedIs DEF PInv, Offering, Placed
  <2>2. /\ BucketOf(q)[1] = lvl[q] /\ SlotOf(q) \in Nat /\ IsSlot(BucketOf(q), SlotOf(q))
        /\ lvl[q] \in 1 .. wheels
    BY <2>1, WalkerIs
  <2>3. lvl[q] = lvl[p]
    BY <1>4, <1>11, <2>2
  <2>4. currentTime[lvl[p]] <= SlotOf(q)
    BY <2>1, <2>2, <2>3, WheelIs
  <2>5. SlotOf(q) = v
    BY <1>6, <1>11, <2>1, <2>2, <2>3, <2>4
  <2>6. expiration[b] = SlotOf(q)
    BY <1>11 DEF PInv, Offered
  <2>7. QED
    BY <2>5, <2>6
<1>12. InBucket'
  <2> SUFFICES ASSUME NEW c \in Buckets, NEW u \in timers'[c]
               PROVE  /\ c[1] <= wheels'
                      /\ (texp'[u] \div tick'[c[1]]) % Size = c[2]
                      /\ Slot(u, c[1])' < End(c[1])'
                      /\ \/ Slot(u, c[1])' <= expiration'[c]
                         \/ \E q \in Procs : pc'[q] = "setExpiration" /\ BucketOf(q)' = c
    BY DEF InBucket
  <2>1. /\ u \in timers[c] /\ u \in Timers /\ c[1] \in 1 .. Levels
        /\ Slot(u, c[1]) \in Nat /\ IsSlot(c, Slot(u, c[1]))
        /\ Slot(u, c[1]) < End(c[1])
    BY <1>8, <1>9, ListedIs DEF PInv
  <2>2. Slot(u, c[1])' = Slot(u, c[1]) /\ End(c[1])' = End(c[1])
    BY <1>7, <2>1
  <2>3. /\ c[1] <= wheels /\ (texp[u] \div tick[c[1]]) % Size = c[2]
        /\ \/ Slot(u, c[1]) <= expiration[c]
           \/ \E q \in Procs : pc[q] = "setExpiration" /\ BucketOf(q) = c
    BY <2>1 DEF PInv, InBucket
  <2>4. CASE c = b
    <3>1. Slot(u, c[1]) <= v
      BY <1>4, <1>6, <2>1, <2>4
    <3>2. QED
      BY <1>8, <1>10, <2>1, <2>2, <2>3, <2>4, <3>1
  <2>5. CASE c # b
    BY <1>2, <1>7, <1>8, <1>9, <1>10, <2>1, <2>2, <2>3, <2>5
  <2>6. QED
    BY <2>4, <2>5
<1>13. Expirations'
  <2> SUFFICES ASSUME NEW c \in Buckets, expiration'[c] # -1
               PROVE  /\ c[1] <= wheels' /\ IsSlot(c, expiration[c])'
                      /\ expiration'[c] < End(c[1])'
                      /\ \/ <<c, expiration'[c]>> \in Entries'
                         \/ \E q \in Procs : pc'[q] \in Offering /\ BucketOf(q)' = c
                         \/ wb' = c
    BY DEF Expirations
  <2>1. End(c[1])' = End(c[1])
    BY <1>7, <1>9
  <2>2. CASE c = b
    <3>1. c[1] <= wheels' /\ expiration'[c] < End(c[1])'
      BY <1>4, <1>8, <1>10, <2>1, <2>2
    <3>2. IsSlot(c, expiration[c])'
      BY <1>4, <1>8, <1>10, <2>2 DEF IsSlot
    <3>3. CASE expiration[b] # v
      BY <1>2, <1>7, <1>9, <2>2, <3>1, <3>2, <3>3 DEF Offering
    <3>4. CASE expiration[b] = v
      <4>1. \/ <<b, v>> \in Entries
            \/ \E q \in Procs : pc[q] \in Offering /\ BucketOf(q) = b
            \/ wb = b
        BY <1>4, <3>4 DEF PInv, Expirations
      <4>2. \A q \in Procs : pc[q] \in Offering => pc'[q] \in Offering
        BY <1>1, <1>2 DEF Offering
      <4>3. QED
        BY <1>7, <1>8, <1>10, <2>2, <3>1, <3>2, <4>1, <4>2
    <3>5. QED
      BY <3>3, <3>4
  <2>3. CASE c # b
    <3>1. /\ expiration[c] # -1 /\ expiration'[c] = expiration[c]
          /\ c[1] <= wheels /\ IsSlot(c, expiration[c]) /\ expiration[c] < End(c[1])
          /\ \/ <<c, expiration[c]>> \in Entries
             \/ \E q \in Procs : pc[q] \in Offering /\ BucketOf(q) = c
             \/ wb = c
      BY <1>10, <2>3 DEF PInv, Expirations
    <3>2. IsSlot(c, expiration[c])'
      BY <1>8, <3>1 DEF IsSlot
    <3>3. \A q \in Procs : pc[q] \in Offering => pc'[q] \in Offering
      BY <1>1, <1>2 DEF Offering
    <3>4. QED
      BY <1>7, <1>8, <2>1, <3>1, <3>2, <3>3
  <2>4. QED
    BY <2>2, <2>3
<1>14. Offered'
  <2> SUFFICES ASSUME NEW q \in Procs
               PROVE  /\ pc'[q] \in Offering => expiration'[BucketOf(q)'] = SlotOf(q)'
                      /\ pc'[q] = "offer" => loc'[q] = SlotOf(q)'
    BY DEF Offered
  <2>1. BucketOf(q)' = BucketOf(q) /\ SlotOf(q)' = SlotOf(q)
    BY <1>7
  <2>2. CASE q = p
    BY <1>2, <1>9, <1>10, <2>1, <2>2
  <2>3. CASE q # p
    <3>1. /\ pc'[q] = pc[q] /\ loc'[q] = loc[q]
          /\ pc[q] \in Offering => expiration[BucketOf(q)] = SlotOf(q)
          /\ pc[q] = "offer" => loc[q] = SlotOf(q)
      BY <1>1, <1>2, <2>3 DEF PInv, Offered
    <3>2. pc[q] \in Offering => BucketOf(q) \in Buckets
      BY WalkerIs DEF Busy, Offering
    <3>3. QED
      BY <1>10, <1>11, <2>1, <3>1, <3>2
  <2>4. QED
    BY <2>2, <2>3
<1>15. Queued'
  <2> SUFFICES ASSUME NEW e \in Entries'
               PROVE  /\ e[1][1] <= wheels' /\ IsSlot(e[1], e[2])'
                      /\ e[2] < End(e[1][1])'
                      /\ e[2] <= currentTime'[e[1][1]] \/ expiration'[e[1]] = e[2]
    BY DEF Queued
  <2>1. /\ e \in Entries /\ e[1] \in Buckets /\ e[2] \in Nat
        /\ IsSlot(e[1], e[2]) /\ e[2] < End(e[1][1]) /\ e[1][1] \in 1 .. Levels
        /\ e[1][1] \in 1 .. wheels /\ currentTime[e[1][1]] \in Nat
    BY <1>8, <1>9, QueuedIs, WheelIs DEF PInv
  <2>2. /\ e[1][1] <= wheels
        /\ e[2] <= currentTime[e[1][1]] \/ expiration[e[1]] = e[2]
    BY <2>1 DEF PInv, Queued
  <2>3. e[2] <= currentTime[e[1][1]] \/ expiration'[e[1]] = e[2]
    <3>1. CASE e[1] = b /\ ~(e[2] <= currentTime[e[1][1]])
      BY <1>4, <1>6, <1>10, <2>1, <3>1
    <3>2. CASE e[1] # b
      BY <1>10, <2>1, <2>2, <3>2
    <3>3. QED
      BY <3>1, <3>2
  <2>4. QED
    BY <1>7, <1>8, <2>1, <2>2, <2>3
<1>16. Fresh'
  <2> SUFFICES ASSUME NEW q \in Procs, pc'[q] \in Offering
               PROVE  /\ <<BucketOf(q)', SlotOf(q)'>> \notin Entries'
                      /\ \A r \in Procs : r # q /\ pc'[r] \in Offering
                                            => BucketOf(r)' # BucketOf(q)'
    BY DEF Fresh
  (* p is to queue its bucket only if nobody else is.                      *)
  <2>1. ASSUME NEW r \in Procs, r # p, pc'[p] \in Offering, pc[r] \in Offering
        PROVE  BucketOf(r) # b
    BY <1>2, <1>11, <2>1 DEF Offering, Placed
  <2>2. CASE q = p
    <3>1. expiration[b] # v
      BY <1>2, <2>2 DEF Offering, Placed
    <3>2. <<b, v>> \notin Entries
      <4>1. SUFFICES ASSUME <<b, v>> \in Entries PROVE FALSE
        OBVIOUS
      <4>2. v <= currentTime[b[1]] \/ expiration[b] = v
        BY <4>1 DEF PInv, Queued
      <4>3. currentTime[lvl[p]] \in Nat
        BY <1>4, WheelIs
      <4>4. QED
        BY <1>4, <1>5, <3>1, <4>2, <4>3
    <3>3. QED
      BY <1>2, <1>7, <1>8, <1>9, <2>1, <2>2, <3>2
  <2>3. CASE q # p
    <3>1. pc[q] \in Offering
      BY <1>2, <2>3
    <3>2. /\ <<BucketOf(q), SlotOf(q)>> \notin Entries
          /\ \A r \in Procs : r # q /\ pc[r] \in Offering => BucketOf(r) # BucketOf(q)
      BY <3>1 DEF PInv, Fresh
    <3>3. ASSUME NEW r \in Procs, r # q, pc'[r] \in Offering
          PROVE  BucketOf(r) # BucketOf(q)
      <4>1. CASE r = p
        BY <1>9, <2>1, <2>3, <3>1, <3>3, <4>1
      <4>2. CASE r # p
        BY <1>2, <3>2, <3>3, <4>2
      <4>3. QED
        BY <4>1, <4>2
    <3>4. QED
      BY <1>7, <1>8, <3>2, <3>3
  <2>4. QED
    BY <2>2, <2>3
<1>17. Covered'
  <2> SUFFICES ASSUME NEW c \in Buckets, NEW u \in timers'[c]
               PROVE  \/ \E e \in Entries' : e[1] = c /\ e[2] <= Slot(u, c[1])'
                      \/ \E q \in Procs : /\ pc'[q] \in Placed /\ BucketOf(q)' = c
                                          /\ SlotOf(q)' = Slot(u, c[1])'
                      \/ wb' = c
    BY DEF Covered
  <2>1. u \in timers[c] /\ u \in Timers /\ c[1] \in 1 .. Levels
    BY <1>8, <1>9, ListedIs DEF PInv
  <2>2. Slot(u, c[1])' = Slot(u, c[1])
    BY <1>7, <2>1
  <2>3. \/ \E e \in Entries : e[1] = c /\ e[2] <= Slot(u, c[1])
        \/ \E q \in Procs : /\ pc[q] \in Placed
                            /\ BucketOf(q) = c /\ SlotOf(q) = Slot(u, c[1])
        \/ wb = c
    BY <2>1 DEF PInv, Covered
  <2>4. CASE ~(/\ b = c /\ v = Slot(u, c[1]) /\ expiration[b] = v)
    <3>1. ASSUME NEW q \in Procs, pc[q] \in Placed,
                 BucketOf(q) = c, SlotOf(q) = Slot(u, c[1])
          PROVE  pc'[q] \in Placed
      BY <1>2, <1>9, <2>4, <3>1 DEF Placed
    <3>2. QED
      BY <1>7, <1>8, <2>2, <2>3, <3>1
  <2>5. CASE b = c /\ v = Slot(u, c[1]) /\ expiration[b] = v
    <3>1. \/ <<b, v>> \in Entries
          \/ \E q \in Procs : pc[q] \in Offering /\ BucketOf(q) = b
          \/ wb = b
      BY <1>4, <2>5 DEF PInv, Expirations
    <3>2. CASE <<b, v>> \in Entries
      <4>1. <<b, v>>[1] = c /\ <<b, v>>[2] <= Slot(u, c[1])'
        BY <1>4, <2>2, <2>5
      <4>2. QED
        BY <1>8, <3>2, <4>1
    <3>3. ASSUME NEW q \in Procs, pc[q] \in Offering, BucketOf(q) = b
          PROVE  /\ pc'[q] \in Placed /\ BucketOf(q)' = c
                 /\ SlotOf(q)' = Slot(u, c[1])'
      BY <1>1, <1>2, <1>7, <1>11, <2>2, <2>5, <3>3 DEF Offering, Placed
    <3>4. QED
      BY <1>8, <2>5, <3>1, <3>2, <3>3
  <2>6. QED
    BY <2>4, <2>5
<1>18. QED
  BY <1>12, <1>13, <1>14, <1>15, <1>16, <1>17

(* The argument of Offer is the expiration that the caller has set.        *)
LEMMA ReadExpirationKeeps ==
  ASSUME IInv, IInv', PInv, NEW p \in Procs, ReadExpiration(p)
  PROVE  InBucket' /\ Expirations' /\ Offered' /\ Queued' /\ Fresh' /\ Covered'
<1>1. /\ pc[p] = "readExpiration" /\ Busy(p)
      /\ pc' = [pc EXCEPT ![p] = "offer"]
      /\ loc' = [loc EXCEPT ![p] = expiration[BucketOf(p)]]
      /\ UNCHANGED <<timers, expiration, queue>>
  BY DEF ReadExpiration, Busy, queueVars
<1>2. /\ pc'[p] = "offer" /\ loc'[p] = expiration[BucketOf(p)]
      /\ \A q \in Procs : q # p => pc'[q] = pc[q] /\ loc'[q] = loc[q]
  BY <1>1 DEF IInv, TypeOK
<1>3. Steady(p)
  BY <1>2 DEF ReadExpiration, Steady, wheelVars, clockVars, queueVars, wVars, stopVars
<1>4. /\ \A q \in Procs : BucketOf(q)' = BucketOf(q) /\ SlotOf(q)' = SlotOf(q)
      /\ \A l \in 1 .. Levels : End(l)' = End(l)
      /\ \A u \in Timers, l \in 1 .. Levels : Slot(u, l)' = Slot(u, l)
      /\ \A c \in Buckets, x \in Int : IsSlot(c, x)' <=> IsSlot(c, x)
  BY <1>3, SteadyIs
<1>5. /\ UNCHANGED <<tick, currentTime, wheels, texp, lvl, wpc, wb, wt, taken>>
      /\ Entries' = Entries
  BY <1>1, <1>3 DEF Steady, Entries
<1>6. /\ \A q \in Procs : pc'[q] \in Offering <=> pc[q] \in Offering
      /\ \A q \in Procs : pc'[q] \in Placed <=> pc[q] \in Placed
      /\ \A q \in Procs : pc'[q] = "setExpiration" <=> pc[q] = "setExpiration"
  BY <1>1, <1>2 DEF Offering, Placed
<1>7. /\ \A c \in Buckets : c[1] \in 1 .. Levels
      /\ expiration \in [Buckets -> Int]
      /\ \A c \in Buckets : timers[c] \subseteq Timers
  BY DEF Buckets, IInv, TypeOK
<1>8. InBucket'
  BY <1>1, <1>4, <1>5, <1>6, <1>7 DEF InBucket, PInv
<1>9. Expirations'
  BY <1>1, <1>4, <1>5, <1>6, <1>7 DEF Expirations, PInv
<1>10. Offered'
  BY <1>1, <1>2, <1>4, <1>6 DEF Offered, Offering, PInv
<1>11. Queued'
  <2>1. \A e \in Entries : e[1] \in Buckets /\ e[2] \in Int
    BY QueuedIs DEF PInv
  <2>2. QED
    BY <1>1, <1>4, <1>5, <1>7, <2>1 DEF Queued, PInv
<1>12. Fresh'
  BY <1>4, <1>5, <1>6 DEF Fresh, PInv
<1>13. Covered'
  BY <1>1, <1>4, <1>5, <1>6, <1>7 DEF Covered, PInv
<1>14. QED
  BY <1>8, <1>9, <1>10, <1>11, <1>12, <1>13

LEMMA BagOfferOnce ==
  ASSUME NEW q, NEW f, IsABag(q), f \notin BagToSet(q), \A e \in BagToSet(q) : q[e] = 1
  PROVE  \A e \in BagToSet(q (+) SetToBag({f})) : (q (+) SetToBag({f}))[e] = 1
  BY DEF IsABag, BagToSet, SetToBag, (+)

LEMMA BagTakeOnce ==
  ASSUME NEW q, NEW f, IsABag(q), f \in BagToSet(q), \A e \in BagToSet(q) : q[e] = 1
  PROVE  /\ BagToSet(q (-) SetToBag({f})) = BagToSet(q) \ {f}
         /\ \A e \in BagToSet(q (-) SetToBag({f})) : (q (-) SetToBag({f}))[e] = 1
<1> DEFINE r == q (-) SetToBag({f})
<1>1. /\ q \in [DOMAIN q -> {n \in Nat : n > 0}]
      /\ BagToSet(q) = DOMAIN q
  BY DEF IsABag, BagToSet
<1>2. q[f] = 1
  OBVIOUS
<1>3. \A x \in {f} : SetToBag({f})[x] = 1
  BY DEF SetToBag
<1>4. DOMAIN SetToBag({f}) = {f}
  BY DEF SetToBag
<1>5. \A e \in DOMAIN q : e # f => q[e] - 0 > 0
  BY <1>1
<1>6. DOMAIN r = DOMAIN q \ {f} /\ \A e \in DOMAIN r : r[e] = 1
  BY <1>1, <1>2, <1>3, <1>4, <1>5 DEF (-), BagToSet
<1>7. QED
  BY <1>1, <1>6 DEF BagToSet

(* Offer: what was about to be queued now is.                              *)
LEMMA OfferKeeps ==
  ASSUME IInv, IInv', PInv, NEW p \in Procs, Offer(p)
  PROVE  /\ InBucket' /\ Expirations' /\ Offered' /\ Queued' /\ Fresh' /\ Covered'
         /\ EnqueuedOnce'
<1> DEFINE b == BucketOf(p)
           v == SlotOf(p)
<1>1. /\ pc[p] = "offer" /\ Busy(p)
      /\ pc' = Returned(p)
      /\ queue' = queue (+) SetToBag({<<b, loc[p]>>})
      /\ UNCHANGED <<timers, expiration, loc>>
  BY DEF Offer, Busy
<1>2. loc[p] = v /\ expiration[b] = v
  BY <1>1 DEF PInv, Offered, Offering
<1>3. /\ \A q \in Procs : q # p => pc'[q] = pc[q]
      /\ pc'[p] \notin Placed
  BY <1>1 DEF Returned, Placed, IInv, TypeOK
<1>4. Steady(p)
  BY <1>3 DEF Offer, Steady, wheelVars, clockVars, queueVars, wVars, stopVars
<1>5. /\ \A q \in Procs : BucketOf(q)' = BucketOf(q) /\ SlotOf(q)' = SlotOf(q)
      /\ \A l \in 1 .. Levels : End(l)' = End(l)
      /\ \A u \in Timers, l \in 1 .. Levels : Slot(u, l)' = Slot(u, l)
      /\ \A c \in Buckets, x \in Int : IsSlot(c, x)' <=> IsSlot(c, x)
  BY <1>4, SteadyIs
<1>6. /\ b \in Buckets /\ b[1] = lvl[p] /\ lvl[p] \in 1 .. wheels
      /\ v \in Nat /\ IsSlot(b, v) /\ v < End(lvl[p])
      /\ BucketOf(p) = b /\ SlotOf(p) = v
  BY <1>1, WalkerIs, PlacedIs DEF PInv, Placed
<1> HIDE DEF b, v
<1>7. /\ UNCHANGED <<tick, currentTime, wheels, texp, lvl, wpc, wb, wt, taken>>
      /\ IsABag(queue)
      /\ BagToSet(queue') = BagToSet(queue) \cup {<<b, v>>}
      /\ Entries' = Entries \cup {<<b, v>>}
  <2>1. UNCHANGED <<tick, currentTime, wheels, texp, lvl, wpc, wb, wt, taken>>
    BY <1>4 DEF Steady
  <2>2. IsABag(queue)
    BY DEF IInv, TypeOK
  <2>3. BagToSet(queue') = BagToSet(queue) \cup {<<b, v>>}
    BY <1>1, <1>2, <2>2, BagOffer
  <2>4. QED
    BY <2>1, <2>2, <2>3 DEF Entries
<1>8. /\ \A c \in Buckets : c[1] \in 1 .. Levels
      /\ expiration \in [Buckets -> Int]
      /\ \A c \in Buckets : timers[c] \subseteq Timers
  BY DEF Buckets, IInv, TypeOK
<1>9. /\ \A q \in Procs : pc'[q] \in Offering <=> q # p /\ pc[q] \in Offering
      /\ \A q \in Procs : pc'[q] \in Placed <=> q # p /\ pc[q] \in Placed
      /\ \A q \in Procs : pc'[q] = "setExpiration" <=> pc[q] = "setExpiration"
  BY <1>1, <1>3 DEF Offering, Placed
<1>10. InBucket'
  BY <1>1, <1>5, <1>7, <1>8, <1>9 DEF InBucket, PInv
<1>11. Expirations'
  <2> SUFFICES ASSUME NEW c \in Buckets, expiration'[c] # -1
               PROVE  /\ c[1] <= wheels' /\ IsSlot(c, expiration[c])'
                      /\ expiration'[c] < End(c[1])'
                      /\ \/ <<c, expiration'[c]>> \in Entries'
                         \/ \E q \in Procs : pc'[q] \in Offering /\ BucketOf(q)' = c
                         \/ wb' = c
    BY DEF Expirations
  <2>1. /\ c[1] <= wheels /\ IsSlot(c, expiration[c]) /\ expiration[c] < End(c[1])
        /\ \/ <<c, expiration[c]>> \in Entries
           \/ \E q \in Procs : pc[q] \in Offering /\ BucketOf(q) = c
           \/ wb = c
    BY <1>1 DEF PInv, Expirations
  <2>2. /\ c[1] <= wheels' /\ IsSlot(c, expiration[c])'
        /\ expiration'[c] < End(c[1])'
    BY <1>1, <1>5, <1>7, <1>8, <2>1
  <2>3. CASE c = b
    BY <1>1, <1>2, <1>6, <1>7, <2>2, <2>3
  <2>4. CASE c # b
    BY <1>1, <1>5, <1>6, <1>7, <1>9, <2>1, <2>2, <2>4
  <2>5. QED
    BY <2>3, <2>4
<1>12. Offered'
  <2>1. \A q \in Procs : pc'[q] = "offer" => pc[q] = "offer"
    BY <1>1, <1>3
  <2>2. QED
    BY <1>1, <1>5, <1>9, <2>1 DEF Offered, PInv
<1>13. Queued'
  <2> SUFFICES ASSUME NEW e \in Entries'
               PROVE  /\ e[1][1] <= wheels' /\ IsSlot(e[1], e[2])'
                      /\ e[2] < End(e[1][1])'
                      /\ e[2] <= currentTime'[e[1][1]] \/ expiration'[e[1]] = e[2]
    BY DEF Queued
  <2>1. CASE e \in Entries
    <3>1. e[1] \in Buckets /\ e[2] \in Int
      BY <2>1, QueuedIs DEF PInv
    <3>2. QED
      BY <1>1, <1>5, <1>7, <1>8, <2>1, <3>1 DEF Queued, PInv
  <2>2. CASE e = <<b, v>>
    BY <1>1, <1>2, <1>5, <1>6, <1>7, <1>8, <2>2
  <2>3. QED
    BY <1>7, <2>1, <2>2
<1>14. <<b, v>> \notin Entries
       /\ \A q \in Procs : q # p /\ pc[q] \in Offering => BucketOf(q) # b
  BY <1>1, <1>6 DEF PInv, Fresh, Offering
<1>15. Fresh'
  <2>1. ASSUME NEW q \in Procs, pc'[q] \in Offering
        PROVE  /\ <<BucketOf(q)', SlotOf(q)'>> \notin Entries'
               /\ \A r \in Procs : r # q /\ pc'[r] \in Offering
                                     => BucketOf(r)' # BucketOf(q)'
    <3>1. q # p /\ pc[q] \in Offering
      BY <1>9, <2>1
    <3>2. /\ <<BucketOf(q), SlotOf(q)>> \notin Entries
          /\ \A r \in Procs : r # q /\ pc[r] \in Offering => BucketOf(r) # BucketOf(q)
      BY <3>1 DEF PInv, Fresh
    <3>3. QED
      BY <1>5, <1>7, <1>9, <1>14, <3>1, <3>2
  <2>2. QED
    BY <2>1 DEF Fresh
<1>16. Covered'
  <2> SUFFICES ASSUME NEW c \in Buckets, NEW u \in timers'[c]
               PROVE  \/ \E e \in Entries' : e[1] = c /\ e[2] <= Slot(u, c[1])'
                      \/ \E q \in Procs : /\ pc'[q] \in Placed /\ BucketOf(q)' = c
                                          /\ SlotOf(q)' = Slot(u, c[1])'
                      \/ wb' = c
    BY DEF Covered
  <2>1. u \in timers[c] /\ Slot(u, c[1])' = Slot(u, c[1])
    BY <1>1, <1>5, <1>8
  <2>2. \/ \E e \in Entries : e[1] = c /\ e[2] <= Slot(u, c[1])
        \/ \E q \in Procs : /\ pc[q] \in Placed
                            /\ BucketOf(q) = c /\ SlotOf(q) = Slot(u, c[1])
        \/ wb = c
    BY <2>1 DEF Covered, PInv
  <2>3. CASE b = c /\ v = Slot(u, c[1])
    <3>1. <<b, v>>[1] = c /\ <<b, v>>[2] <= Slot(u, c[1])'
      BY <1>6, <2>1, <2>3
    <3>2. QED
      BY <1>7, <3>1
  <2>4. CASE ~(b = c /\ v = Slot(u, c[1]))
    BY <1>5, <1>6, <1>7, <1>9, <2>1, <2>2, <2>4
  <2>5. QED
    BY <2>3, <2>4
<1>17. EnqueuedOnce'
  <2>1. /\ \A e \in BagToSet(queue) : queue[e] = 1
        /\ taken # Nil => taken \notin BagToSet(queue)
    BY DEF PInv, EnqueuedOnce, BagIn
  <2>2. <<b, v>> \notin BagToSet(queue) /\ (taken # Nil => taken # <<b, v>>)
    BY <1>14 DEF Entries
  <2>3. \A e \in BagToSet(queue') : queue'[e] = 1
    BY <1>1, <1>2, <1>7, <2>1, <2>2, BagOfferOnce
  <2>4. QED
    BY <1>7, <2>1, <2>2, <2>3 DEF EnqueuedOnce, BagIn
<1>18. QED
  BY <1>10, <1>11, <1>12, <1>13, <1>15, <1>16, <1>17

(* W receives a bucket: it answers for its timers now.                     *)
LEMMA ReceiveKeeps ==
  ASSUME IInv, IInv', PInv, Receive
  PROVE  /\ InBucket' /\ Expirations' /\ Offered' /\ Queued' /\ Fresh' /\ Covered'
         /\ EnqueuedOnce'
<1>1. /\ wpc = "receive" /\ taken # Nil /\ wb' = taken[1] /\ taken' = Nil
      /\ UNCHANGED <<tick, currentTime, wheels, timers, expiration, queue, texp,
                     pc, lvl, loc, wt>>
  BY DEF Receive, wheelVars
<1>2. wb = Nil
  BY <1>1 DEF PInv, Exclusive
<1>3. /\ taken \in Entries /\ Entries' = BagToSet(queue)
      /\ Entries = Entries' \cup {taken}
      /\ Entries' \subseteq Entries
  BY <1>1 DEF Entries
<1>4. taken = <<taken[1], taken[2]>> /\ taken[1] \in Buckets
  BY <1>3, QueuedIs DEF PInv
<1>5. /\ \A q : BucketOf(q)' = BucketOf(q) /\ SlotOf(q)' = SlotOf(q)
      /\ \A l : End(l)' = End(l)
      /\ \A u, l : Slot(u, l)' = Slot(u, l)
      /\ \A c, x : IsSlot(c, x)' <=> IsSlot(c, x)
  BY <1>1 DEF BucketOf, SlotOf, TimerOf, Slot, End, Interval, IsSlot
<1>6. InBucket'
  BY <1>1, <1>5 DEF InBucket, PInv
<1>7. Expirations'
  <2> SUFFICES ASSUME NEW c \in Buckets, expiration'[c] # -1
               PROVE  /\ c[1] <= wheels' /\ IsSlot(c, expiration[c])'
                      /\ expiration'[c] < End(c[1])'
                      /\ \/ <<c, expiration'[c]>> \in Entries'
                         \/ \E q \in Procs : pc'[q] \in Offering /\ BucketOf(q)' = c
                         \/ wb' = c
    BY DEF Expirations
  <2>1. /\ c[1] <= wheels /\ IsSlot(c, expiration[c]) /\ expiration[c] < End(c[1])
        /\ \/ <<c, expiration[c]>> \in Entries
           \/ \E q \in Procs : pc[q] \in Offering /\ BucketOf(q) = c
           \/ wb = c
    BY <1>1 DEF PInv, Expirations
  <2>2. wb # c
    BY <1>2, WheelAssumption DEF WheelAssumption
  <2>3. IsSlot(c, expiration[c])'
    BY <1>1, <2>1 DEF IsSlot
  <2>4. <<c, expiration[c]>> = taken => wb' = c
    BY <1>1
  <2>5. QED
    BY <1>1, <1>3, <1>5, <2>1, <2>2, <2>3, <2>4
<1>8. Offered'
  BY <1>1, <1>5 DEF Offered, PInv
<1>9. Queued'
  BY <1>1, <1>3, <1>5 DEF Queued, PInv
<1>10. Fresh'
  BY <1>1, <1>3, <1>5 DEF Fresh, PInv
<1>11. Covered'
  <2> SUFFICES ASSUME NEW c \in Buckets, NEW u \in timers'[c]
               PROVE  \/ \E e \in Entries' : e[1] = c /\ e[2] <= Slot(u, c[1])'
                      \/ \E q \in Procs : /\ pc'[q] \in Placed /\ BucketOf(q)' = c
                                          /\ SlotOf(q)' = Slot(u, c[1])'
                      \/ wb' = c
    BY DEF Covered
  <2>1. \/ \E e \in Entries : e[1] = c /\ e[2] <= Slot(u, c[1])
        \/ \E q \in Procs : /\ pc[q] \in Placed
                            /\ BucketOf(q) = c /\ SlotOf(q) = Slot(u, c[1])
        \/ wb = c
    BY <1>1 DEF Covered, PInv
  <2>2. wb # c
    BY <1>2, WheelAssumption DEF WheelAssumption
  <2>3. QED
    BY <1>1, <1>3, <1>5, <2>1, <2>2
<1>12. EnqueuedOnce'
  BY <1>1 DEF PInv, EnqueuedOnce
<1>13. QED
  BY <1>6, <1>7, <1>8, <1>9, <1>10, <1>11, <1>12

(* Nobody adds a timer when W is about to give its bucket back, empty.     *)
LEMMA NobodyBusy ==
  ASSUME IInv, Exclusive, wpc \notin {"receive", "stopped", "flush"}
  PROVE  \A q \in Procs : ~Busy(q)
  BY BusyIs

LEMMA ResetKeeps ==
  ASSUME IInv, IInv', PInv, ResetExpiration
  PROVE  InBucket' /\ Expirations' /\ Offered' /\ Queued' /\ Fresh' /\ Covered'
<1>1. /\ wpc = "reset" /\ wb' = Nil
      /\ expiration' = [expiration EXCEPT ![wb] = -1]
      /\ UNCHANGED <<tick, currentTime, wheels, timers, queue, taken, texp, pc>>
  BY DEF ResetExpiration, wheelVars, queueVars
<1>2. \A q \in Procs : /\ pc[q] \notin Placed /\ pc'[q] \notin Placed
                       /\ pc[q] \notin Offering /\ pc'[q] \notin Offering
                       /\ pc[q] # "setExpiration"
                       /\ pc[q] # "offer" /\ pc'[q] # "offer"
  BY <1>1, NobodyBusy DEF PInv, Busy, Placed, Offering
<1>3. /\ wb \in Buckets /\ timers[wb] = {}
      /\ expiration[wb] <= currentTime[wb[1]]
      /\ expiration'[wb] = -1
      /\ \A c \in Buckets : c # wb => expiration'[c] = expiration[c]
  BY <1>1 DEF IInv, Control, TypeOK, PInv, Flushing
<1>4. /\ Entries' = Entries
      /\ \A l : End(l)' = End(l)
      /\ \A u, l : Slot(u, l)' = Slot(u, l)
  BY <1>1 DEF Entries, Slot, End, Interval
<1>5. InBucket'
  BY <1>1, <1>2, <1>3, <1>4 DEF InBucket, PInv
<1>6. Expirations'
  <2> SUFFICES ASSUME NEW c \in Buckets, expiration'[c] # -1
               PROVE  /\ c[1] <= wheels' /\ IsSlot(c, expiration[c])'
                      /\ expiration'[c] < End(c[1])'
                      /\ \/ <<c, expiration'[c]>> \in Entries'
                         \/ \E q \in Procs : pc'[q] \in Offering /\ BucketOf(q)' = c
                         \/ wb' = c
    BY DEF Expirations
  <2>1. c # wb /\ expiration'[c] = expiration[c]
    BY <1>3
  <2>2. /\ c[1] <= wheels /\ IsSlot(c, expiration[c]) /\ expiration[c] < End(c[1])
        /\ <<c, expiration[c]>> \in Entries
    BY <1>2, <2>1 DEF PInv, Expirations
  <2>3. IsSlot(c, expiration[c])'
    BY <1>1, <2>1, <2>2 DEF IsSlot
  <2>4. QED
    BY <1>1, <1>4, <2>1, <2>2, <2>3
<1>7. Offered' /\ Fresh'
  BY <1>2 DEF Offered, Fresh
<1>8. Queued'
  <2> SUFFICES ASSUME NEW e \in Entries'
               PROVE  /\ e[1][1] <= wheels' /\ IsSlot(e[1], e[2])'
                      /\ e[2] < End(e[1][1])'
                      /\ e[2] <= currentTime'[e[1][1]] \/ expiration'[e[1]] = e[2]
    BY DEF Queued
  <2>1. /\ e \in Entries /\ e[1] \in Buckets
        /\ e[1][1] <= wheels /\ IsSlot(e[1], e[2]) /\ e[2] < End(e[1][1])
        /\ e[2] <= currentTime[e[1][1]] \/ expiration[e[1]] = e[2]
    BY <1>4, QueuedIs DEF PInv, Queued
  <2>2. IsSlot(e[1], e[2])'
    BY <1>1, <2>1 DEF IsSlot
  <2>3. QED
    BY <1>1, <1>3, <1>4, <2>1, <2>2
<1>9. Covered'
  BY <1>1, <1>2, <1>3, <1>4 DEF Covered, PInv
<1>10. QED
  BY <1>5, <1>6, <1>7, <1>8, <1>9

(* Take: one copy of the pair that expired first moves to the sender.      *)
LEMMA TakeIs ==
  ASSUME IInv, EnqueuedOnce, Take
  PROVE  Entries' = Entries /\ EnqueuedOnce' /\ taken[2]' <= now
<1>1. PICK e \in BagToSet(queue) :
        /\ taken = Nil /\ taken' = e /\ e[2] <= now
        /\ queue' = queue (-) SetToBag({e})
  BY DEF Take
<1>2. e # Nil
  BY WheelAssumption DEF WheelAssumption, IInv, TypeOK
<1>3. IsABag(queue) /\ \A f \in BagToSet(queue) : queue[f] = 1
  BY DEF IInv, TypeOK, EnqueuedOnce
<1>4. /\ BagToSet(queue') = BagToSet(queue) \ {e}
      /\ \A f \in BagToSet(queue') : queue'[f] = 1
  BY <1>1, <1>3, BagTakeOnce
<1>5. Entries' = Entries
  BY <1>1, <1>2, <1>4 DEF Entries
<1>6. EnqueuedOnce'
  BY <1>1, <1>4 DEF EnqueuedOnce, BagIn
<1>7. QED
  BY <1>1, <1>5, <1>6

-----------------------------------------------------------------------------
(* The clocks.                                                             *)
LEMMA NestStep ==
  ASSUME NEW m \in Nat \ {0}, NEW M \in Nat \ {0}, NEW a \in Nat, NEW c \in Nat,
         Multiple(a, m), Multiple(c, M), Multiple(M, m), a < c + M
  PROVE  a + m <= c + M
<1>1. Multiple(c, m)
  BY MultipleTrans
<1>2. PICK i \in Nat : c = i * m
  BY <1>1 DEF Multiple
<1>3. PICK j \in Nat : M = j * m
  BY DEF Multiple
<1>4. i + j \in Nat /\ c + M = (i + j) * m
  BY <1>2, <1>3
<1>5. Multiple(c + M, m)
  BY <1>4 DEF Multiple
<1>6. ~(c + M <= a)
  OBVIOUS
<1>7. ~(c + M < a + m)
  BY <1>5, <1>6, MultipleStep
<1>8. QED
  BY <1>7

LEMMA NestedTrans ==
  ASSUME IInv, NEW i \in 1 .. wheels, NEW j \in 1 .. wheels, NEW l \in 1 .. wheels,
         Nested(i, j), Nested(j, l)
  PROVE  Nested(i, l)
<1>1. /\ tick[i] \in Nat /\ currentTime[i] \in Nat
      /\ tick[j] \in Nat /\ currentTime[j] \in Nat
      /\ tick[l] \in Nat /\ currentTime[l] \in Nat
  BY WheelIs
<1>2. QED
  BY <1>1 DEF Nested

(* Nothing that a clock says changes.                                      *)
SameClocks ==
  /\ UNCHANGED <<tick, currentTime, wheels>>
  /\ wpc' = "advance" <=> wpc = "advance"
  /\ wpc = "advance" => lvl'[W] = lvl[W] /\ loc'[W] = loc[W]

LEMMA SameClocksKeep ==
  ASSUME Scale, Clocks, SameClocks
  PROVE  Scale' /\ Clocks'
<1>1. Scale'
  BY DEF SameClocks, Scale, Multiple, Interval
<1>2. Clocks'
  BY DEF SameClocks, Clocks, Nested
<1>3. QED
  BY <1>1, <1>2

(* A new wheel continues the chain.                                        *)
LEMMA CreateClocks ==
  ASSUME IInv, IInv', PInv, NEW p \in Procs, CreateOverflow(p)
  PROVE  /\ Scale' /\ Clocks'
         /\ wheels' \in Nat /\ wheels' >= wheels /\ lvl[p] + 1 \in 1 .. wheels'
         /\ \A l \in 1 .. wheels : tick'[l] = tick[l] /\ currentTime'[l] = currentTime[l]
<1> DEFINE n == lvl[p]
<1>1. /\ pc[p] = "create" /\ Busy(p) /\ loc[p] = currentTime[n]
      /\ wpc' = wpc
  BY DEF CreateOverflow, Busy, PInv, Walking, Walks, wVars
<1>2. /\ n \in 1 .. wheels /\ wheels \in Nat
      /\ wpc # "advance"
  <2>1. n \in 1 .. wheels /\ wpc # "advance"
    BY <1>1, WalkerIs, BusyIs DEF PInv
  <2>2. wheels \in Nat
    BY WheelAssumption DEF WheelAssumption, IInv, TypeOK
  <2>3. QED
    BY <2>1, <2>2
<1>3. CASE wheels # n
  <2>1. UNCHANGED <<tick, currentTime, wheels>>
    BY <1>3 DEF CreateOverflow, wheelVars
  <2>2. Scale' /\ Clocks'
    BY <1>1, <1>2, <2>1, SameClocksKeep DEF SameClocks, PInv
  <2>3. QED
    BY <1>2, <1>3, <2>1, <2>2
<1>4. CASE wheels = n
  <2> DEFINE M == Interval(n)
             c == Truncate(currentTime[n], M)
  <2>1. /\ wheels' = wheels + 1
        /\ tick' = [tick EXCEPT ![n + 1] = M]
        /\ currentTime' = [currentTime EXCEPT ![n + 1] = c]
    BY <1>1, <1>4 DEF CreateOverflow
  <2>2. /\ tick[n] \in Nat \ {0} /\ currentTime[n] \in Nat
        /\ M = tick[n] * Size /\ M \in Nat \ {0}
    BY <1>2, WheelIs
  <2>3. /\ c \in Nat /\ Multiple(c, M) /\ c <= currentTime[n] /\ currentTime[n] < c + M
    BY <2>2, TruncateIs
  <2>4. Multiple(M, tick[n])
    <3>1. M = Size * tick[n] /\ Size \in Nat
      BY <2>2, WheelAssumption DEF WheelAssumption
    <3>2. QED
      BY <3>1 DEF Multiple
  <2> HIDE DEF M, c
  <2>5. n + 1 \in 1 .. Levels
    BY <1>1, <1>2, WheelAssumption DEF WheelAssumption, IInv, Chain
  <2>6. /\ tick'[n + 1] = M /\ currentTime'[n + 1] = c
        /\ \A l \in 1 .. wheels : tick'[l] = tick[l] /\ currentTime'[l] = currentTime[l]
    <3>1. tick \in [1 .. Levels -> Nat] /\ currentTime \in [1 .. Levels -> Nat]
      BY DEF IInv, TypeOK
    <3>2. \A l \in 1 .. wheels : l # n + 1 /\ l \in 1 .. Levels
      BY <1>2, <1>4, WheelIs
    <3>3. QED
      BY <2>1, <2>5, <3>1, <3>2
  <2>7. ASSUME NEW l \in 1 .. wheels' PROVE l \in 1 .. wheels \/ l = n + 1
    BY <1>2, <1>4, <2>1
  <2>8. Scale'
    <3>1. tick'[1] = Tick
      BY <1>2, <1>4, <2>6 DEF PInv, Scale
    <3>2. ASSUME NEW l \in 1 .. wheels' PROVE Multiple(currentTime'[l], tick'[l])
      BY <2>3, <2>6, <2>7 DEF PInv, Scale
    <3>3. ASSUME NEW j \in 1 .. wheels', NEW l \in 1 .. wheels', j <= l
          PROVE  Multiple(tick'[l], tick'[j])
      <4>1. CASE l \in 1 .. wheels
        <5>1. j \in 1 .. wheels
          BY <1>2, <3>3, <4>1
        <5>2. QED
          BY <2>6, <3>3, <4>1, <5>1 DEF PInv, Scale
      <4>2. CASE l = n + 1 /\ j = n + 1
        <5>1. M = 1 * M
          BY <2>2
        <5>2. QED
          BY <2>6, <4>2, <5>1 DEF Multiple
      <4>3. CASE l = n + 1 /\ j \in 1 .. wheels
        <5>1. j <= n /\ n \in 1 .. wheels
          BY <1>2, <1>4, <4>3
        <5>2. Multiple(tick[n], tick[j]) /\ tick[j] \in Nat
          BY <4>3, <5>1, WheelIs DEF PInv, Scale
        <5>3. Multiple(M, tick[j])
          BY <2>2, <2>4, <5>2, MultipleTrans
        <5>4. QED
          BY <2>6, <4>3, <5>3
      <4>4. QED
        BY <2>7, <4>1, <4>2, <4>3
    <3>4. ASSUME NEW l \in 1 .. wheels', l > 1 PROVE tick'[l] = Interval(l - 1)'
      <4>1. l - 1 \in 1 .. wheels
        BY <1>2, <2>1, <3>4
      <4>2. Interval(l - 1)' = Interval(l - 1)
        BY <2>6, <4>1 DEF Interval
      <4>3. CASE l \in 1 .. wheels
        BY <2>6, <3>4, <4>2, <4>3 DEF PInv, Scale
      <4>4. CASE l = n + 1
        <5>1. l - 1 = n
          BY <1>2, <4>4
        <5>2. QED
          BY <2>6, <4>2, <4>4, <5>1 DEF M
      <4>5. QED
        BY <2>7, <4>3, <4>4
    <3>5. QED
      BY <3>1, <3>2, <3>3, <3>4 DEF Scale
  <2>9. Clocks'
    <3>1. Multiple(currentTime[n], tick[n])
      BY <1>2 DEF PInv, Scale
    <3>2. currentTime[n] + tick[n] <= c + M
      BY <2>2, <2>3, <2>4, <3>1, NestStep
    <3>3. ASSUME NEW j \in 1 .. wheels', NEW l \in 1 .. wheels', j < l
          PROVE  Nested(j, l)'
      <4>1. CASE l \in 1 .. wheels
        <5>1. j \in 1 .. wheels
          BY <1>2, <3>3, <4>1
        <5>2. Nested(j, l)
          BY <1>2, <3>3, <4>1, <5>1 DEF PInv, Clocks
        <5>3. QED
          BY <2>6, <4>1, <5>1, <5>2 DEF Nested
      <4>2. CASE l = n + 1
        <5>1. j \in 1 .. wheels /\ (j < n \/ j = n)
          BY <1>2, <1>4, <3>3, <4>2
        <5>2. /\ currentTime[n] <= currentTime[j]
              /\ currentTime[j] + tick[j] <= currentTime[n] + tick[n]
              /\ currentTime[j] \in Nat /\ tick[j] \in Nat
          <6>1. CASE j < n
            BY <1>2, <5>1, <6>1, WheelIs DEF PInv, Clocks, Nested
          <6>2. CASE j = n
            BY <2>2, <6>2
          <6>3. QED
            BY <5>1, <6>1, <6>2
        <5>3. c <= currentTime[j] /\ currentTime[j] + tick[j] <= c + M
          BY <2>2, <2>3, <3>2, <5>2
        <5>4. QED
          BY <2>6, <4>2, <5>1, <5>3 DEF Nested
      <4>3. QED
        BY <2>7, <4>1, <4>2
    <3>4. wpc' # "advance"
      BY <1>1, <1>2
    <3>5. QED
      BY <3>3, <3>4 DEF Clocks
  <2>10. QED
    BY <1>2, <1>4, <2>1, <2>6, <2>8, <2>9
<1>5. QED
  BY <1>3, <1>4

(* advanceClock of wheel l: the wheels below it agree already, those above *)
(* are still to come, or wait for a later time.                            *)
LEMMA AdvanceClocks ==
  ASSUME IInv, IInv', PInv, AdvanceClock
  PROVE  /\ Scale' /\ Clocks' /\ Flushing'
         /\ \A l \in 1 .. wheels : currentTime'[l] >= currentTime[l]
<1> DEFINE l == lvl[W]
           T == tick[l]
<1>1. /\ wpc = "advance" /\ W \in Procs /\ pc' = pc
      /\ UNCHANGED <<tick, wheels, timers, expiration, wb, wt, texp>>
  BY DEF AdvanceClock, Procs
<1>2. /\ l \in 1 .. wheels /\ wheels \in Nat /\ wb \in Buckets
      /\ wb[1] \in 1 .. wheels
  <2>1. l \in 1 .. wheels /\ wheels \in Nat /\ wb \in Buckets
    BY <1>1, WheelAssumption DEF WheelAssumption, IInv, TypeOK, Chain, Control
  <2>2. wb[1] <= wheels /\ wb[1] \in 1 .. Levels
    BY <2>1, WheelAssumption DEF WheelAssumption, PInv, Exclusive, Buckets
  <2>3. QED
    BY <2>1, <2>2
<1>3. pc[W] = "idle"
  BY <1>1 DEF IInv, Control
<1>4. /\ \A j \in 1 .. wheels : /\ tick[j] \in Nat \ {0} /\ currentTime[j] \in Nat
                                /\ Multiple(currentTime[j], tick[j])
      /\ \A i, j \in 1 .. wheels : i <= j => Multiple(tick[j], tick[i])
  BY WheelIs DEF PInv, Scale
<1>5. /\ \A i, j \in 1 .. wheels : i < j => \/ Nested(i, j)
                                            \/ /\ i < l /\ l <= j
                                               /\ currentTime[j] <= currentTime[i]
      /\ l > 1 => loc[W] = currentTime[l - 1]
  BY <1>1 DEF PInv, Clocks
<1>6. \A i, j \in 1 .. wheels : i < j => currentTime[j] <= currentTime[i]
  BY <1>5 DEF Nested
<1>7. loc[W] \in Int /\ expiration[wb] \in Int
  BY <1>1, <1>2 DEF IInv, TypeOK
(* The expiration of the bucket is -1 or a multiple of its tick.           *)
<1>8. ASSUME NEW j \in 1 .. wheels, j <= wb[1]
      PROVE  expiration[wb] = -1 \/ Multiple(expiration[wb], tick[j])
  <2>1. ASSUME expiration[wb] # -1 PROVE Multiple(expiration[wb], tick[j])
    <3>1. IsSlot(wb, expiration[wb])
      BY <1>2, <2>1 DEF PInv, Expirations
    <3>2. Multiple(expiration[wb], tick[wb[1]]) /\ expiration[wb] \in Nat
      BY <1>2, <1>4, <3>1 DEF IsSlot, Multiple
    <3>3. Multiple(tick[wb[1]], tick[j])
      BY <1>2, <1>4, <1>8
    <3>4. QED
      BY <1>2, <1>4, <3>2, <3>3, MultipleTrans
  <2>2. QED
    BY <2>1
<1>9. IF l <= wb[1] THEN expiration[wb] <= loc[W]
                    ELSE expiration[wb] <= currentTime[wb[1]]
  BY <1>1 DEF PInv, Flushing
<1>10. CASE loc[W] >= currentTime[l] + T
  <2> DEFINE time == Truncate(loc[W], T)
  <2>1. loc[W] \in Nat
    BY <1>2, <1>4, <1>7, <1>10
  <2>2. /\ time \in Nat /\ Multiple(time, T) /\ time <= loc[W] /\ loc[W] < time + T
    BY <1>2, <1>4, <2>1, TruncateIs
  <2>3. currentTime[l] <= time
    <3>1. Multiple(currentTime[l], T) /\ currentTime[l] <= loc[W]
      BY <1>2, <1>4, <1>7, <1>10
    <3>2. QED
      BY <1>2, <1>4, <2>1, <3>1, TruncateMax
  <2>4. /\ currentTime' = [currentTime EXCEPT ![l] = time]
        /\ wpc' = IF wheels > l THEN "advance" ELSE "lock"
        /\ lvl' = [lvl EXCEPT ![W] = IF wheels > l THEN l + 1 ELSE l]
        /\ loc' = [loc EXCEPT ![W] = time]
    BY <1>10 DEF AdvanceClock
  <2> HIDE DEF time
  <2>5. /\ currentTime'[l] = time
        /\ \A j \in 1 .. wheels : j # l => currentTime'[j] = currentTime[j]
        /\ wheels > l => wpc' = "advance" /\ lvl'[W] = l + 1
        /\ ~(wheels > l) => wpc' = "lock"
        /\ loc'[W] = time
    <3>1. \A j \in 1 .. wheels : j \in 1 .. Levels
      BY WheelIs
    <3>2. QED
      BY <1>1, <1>2, <2>4, <3>1 DEF IInv, TypeOK
  <2>6. Scale'
    <3>1. \A j \in 1 .. wheels : Multiple(currentTime'[j], tick[j])
      BY <1>2, <1>4, <2>2, <2>5
    <3>2. \A j \in 1 .. wheels : Interval(j)' = Interval(j)
      BY <1>1 DEF Interval
    <3>3. QED
      BY <1>1, <3>1 DEF PInv, Scale, Interval, Multiple
  <2>7. ASSUME NEW i \in 1 .. wheels, NEW j \in 1 .. wheels, i < j
        PROVE  \/ Nested(i, j)'
               \/ /\ wpc' = "advance" /\ i < lvl'[W] /\ lvl'[W] <= j
                  /\ currentTime'[j] <= currentTime'[i]
    <3>1. CASE j < l \/ i > l
      <4>1. Nested(i, j) /\ i # l /\ j # l
        BY <1>2, <1>5, <2>7, <3>1
      <4>2. QED
        BY <1>1, <2>5, <4>1 DEF Nested
    <3>2. CASE i < l /\ l < j
      BY <1>2, <1>6, <2>5, <2>7, <3>2
    <3>3. CASE i = l
      <4>1. currentTime[j] <= currentTime[l]
        BY <1>6, <2>7, <3>3
      <4>2. QED
        BY <1>2, <1>4, <2>2, <2>3, <2>5, <2>7, <3>3, <4>1
    <3>4. CASE j = l
      <4>1. l - 1 \in 1 .. wheels /\ l > 1 /\ (i = l - 1 \/ i < l - 1)
        BY <1>2, <2>7, <3>4
      <4>2. /\ currentTime[l - 1] <= currentTime[i]
            /\ currentTime[i] + tick[i] <= currentTime[l - 1] + tick[l - 1]
        <5>1. CASE i = l - 1
          BY <1>4, <2>7, <5>1
        <5>2. CASE i < l - 1
          BY <1>2, <1>5, <4>1, <5>2 DEF Nested
        <5>3. QED
          BY <4>1, <5>1, <5>2
      <4>3. currentTime[l - 1] + tick[l - 1] <= time + T
        <5>1. /\ tick[l - 1] \in Nat \ {0} /\ currentTime[l - 1] \in Nat
              /\ Multiple(currentTime[l - 1], tick[l - 1])
              /\ Multiple(T, tick[l - 1])
          BY <1>2, <1>4, <4>1
        <5>2. currentTime[l - 1] < time + T
          BY <1>5, <2>2, <4>1
        <5>3. QED
          BY <1>2, <1>4, <2>2, <5>1, <5>2, NestStep
      <4>4. time <= currentTime[i] /\ currentTime[i] + tick[i] <= time + T
        <5>1. /\ tick[l - 1] \in Nat /\ currentTime[l - 1] \in Nat /\ T \in Nat
              /\ tick[i] \in Nat /\ currentTime[i] \in Nat
          BY <1>2, <1>4, <2>7, <4>1
        <5>2. time <= currentTime[l - 1]
          BY <1>5, <2>2, <4>1
        <5>3. QED
          BY <2>2, <4>2, <4>3, <5>1, <5>2
      <4>5. currentTime'[i] = currentTime[i] /\ currentTime'[j] = time
            /\ tick'[j] = T /\ tick'[i] = tick[i]
        BY <1>1, <2>5, <2>7, <3>4
      <4>6. QED
        BY <4>4, <4>5 DEF Nested
    <3>5. QED
      BY <1>2, <2>7, <3>1, <3>2, <3>3, <3>4
  <2>8. Clocks'
    <3>1. wpc' = "advance" /\ lvl'[W] > 1 => loc'[W] = currentTime'[lvl'[W] - 1]
      BY <1>2, <2>5
    <3>2. QED
      BY <1>1, <2>7, <3>1 DEF Clocks
  <2>9. Flushing'
    <3>1. ASSUME l <= wb[1] PROVE expiration[wb] <= time
      <4>1. expiration[wb] <= loc[W]
        BY <1>9, <3>1
      <4>2. CASE expiration[wb] = -1
        BY <2>2, <4>2
      <4>3. CASE Multiple(expiration[wb], T)
        BY <1>2, <1>4, <1>7, <2>1, <4>1, <4>3, TruncateMax DEF time
      <4>4. QED
        BY <1>2, <1>8, <3>1, <4>2, <4>3
    <3>2. ASSUME ~(l < wb[1]) PROVE expiration[wb] <= currentTime'[wb[1]]
      <4>1. CASE l = wb[1]
        BY <1>2, <2>5, <3>1, <4>1
      <4>2. CASE l # wb[1]
        BY <1>2, <1>9, <2>5, <3>2, <4>2
      <4>3. QED
        BY <4>1, <4>2
    <3>3. CASE wheels > l
      <4>1. wpc' = "advance" /\ lvl'[W] = l + 1 /\ loc'[W] = time
        BY <2>5, <3>3
      <4>2. IF l + 1 <= wb[1] THEN expiration[wb] <= time
                              ELSE expiration[wb] <= currentTime'[wb[1]]
        BY <1>2, <3>1, <3>2
      <4>3. QED
        BY <1>1, <1>3, <4>1, <4>2 DEF Flushing
    <3>4. CASE ~(wheels > l)
      <4>1. wpc' = "lock"
        BY <2>5, <3>4
      <4>2. expiration[wb] <= currentTime'[wb[1]]
        BY <1>2, <3>2, <3>4
      <4>3. QED
        BY <1>1, <1>3, <4>1, <4>2 DEF Flushing
    <3>5. QED
      BY <3>3, <3>4
  <2>10. \A j \in 1 .. wheels : currentTime'[j] >= currentTime[j]
    BY <1>4, <2>2, <2>3, <2>5
  <2>11. QED
    BY <2>6, <2>8, <2>9, <2>10
<1>11. CASE ~(loc[W] >= currentTime[l] + T)
  <2>1. wpc' = "lock" /\ UNCHANGED currentTime
    BY <1>11 DEF AdvanceClock
  <2>2. Scale'
    BY <1>1, <2>1 DEF PInv, Scale, Multiple, Interval
  <2>3. ASSUME NEW i \in 1 .. wheels, NEW j \in 1 .. wheels, i < j
        PROVE  Nested(i, j)
    <3>1. CASE ~(i < l /\ l <= j)
      BY <1>5, <2>3, <3>1
    <3>2. CASE i < l /\ l <= j
      <4>1. l - 1 \in 1 .. wheels /\ l > 1 /\ (i = l - 1 \/ i < l - 1)
        BY <1>2, <2>3, <3>2
      <4>2. Nested(l - 1, l)
        <5>1. /\ tick[l - 1] \in Nat \ {0} /\ currentTime[l - 1] \in Nat
              /\ Multiple(currentTime[l - 1], tick[l - 1])
              /\ Multiple(T, tick[l - 1]) /\ Multiple(currentTime[l], T)
              /\ T \in Nat \ {0} /\ currentTime[l] \in Nat
          BY <1>2, <1>4, <4>1
        <5>2. currentTime[l - 1] < currentTime[l] + T
          BY <1>5, <1>11, <4>1, <5>1
        <5>3. currentTime[l - 1] + tick[l - 1] <= currentTime[l] + T
          BY <5>1, <5>2, NestStep
        <5>4. currentTime[l] <= currentTime[l - 1]
          BY <1>2, <1>6, <4>1
        <5>5. QED
          BY <5>3, <5>4 DEF Nested
      <4>3. Nested(i, l)
        <5>1. i < l - 1 => Nested(i, l - 1)
          BY <1>2, <1>5, <4>1
        <5>2. QED
          BY <1>2, <4>1, <4>2, <5>1, NestedTrans
      <4>4. l < j => Nested(l, j)
        BY <1>2, <1>5
      <4>5. l = j \/ l < j
        BY <1>2, <3>2
      <4>6. QED
        BY <1>2, <4>3, <4>4, <4>5, NestedTrans
    <3>3. QED
      BY <3>1, <3>2
  <2>4. Clocks'
    BY <1>1, <2>1, <2>3 DEF Clocks, Nested
  <2>5. expiration[wb] <= currentTime[wb[1]]
    <3>1. CASE ~(l <= wb[1])
      BY <1>9, <3>1
    <3>2. CASE l <= wb[1]
      <4>1. /\ expiration[wb] <= loc[W]
            /\ tick[wb[1]] \in Nat \ {0} /\ currentTime[wb[1]] \in Nat
            /\ Multiple(currentTime[wb[1]], tick[wb[1]])
            /\ T \in Nat /\ currentTime[l] \in Nat
        BY <1>2, <1>4, <1>9, <3>2
      <4>2. currentTime[l] + T <= currentTime[wb[1]] + tick[wb[1]]
        <5>1. CASE l = wb[1]
          BY <4>1, <5>1
        <5>2. CASE l # wb[1]
          BY <1>2, <2>3, <3>2, <5>2 DEF Nested
        <5>3. QED
          BY <5>1, <5>2
      <4>3. expiration[wb] < currentTime[wb[1]] + tick[wb[1]]
        BY <1>7, <1>11, <4>1, <4>2
      <4>4. CASE expiration[wb] = -1
        BY <4>1, <4>4
      <4>5. CASE Multiple(expiration[wb], tick[wb[1]])
        BY <1>7, <4>1, <4>3, <4>5, MultipleStep
      <4>6. QED
        BY <1>2, <1>8, <4>4, <4>5
    <3>3. QED
      BY <3>1, <3>2
  <2>6. Flushing'
    BY <1>1, <1>3, <2>1, <2>5 DEF Flushing
  <2>7. QED
    BY <1>4, <2>1, <2>2, <2>4, <2>6
<1>12. QED
  BY <1>10, <1>11

-----------------------------------------------------------------------------
(* What add has compared stays true while nothing moves.                   *)
LEMMA WalksSame ==
  ASSUME IInv, NEW q \in Procs, Walks(q),
         pc'[q] = pc[q], lvl'[q] = lvl[q], loc'[q] = loc[q],
         Busy(q) => /\ TimerOf(q)' = TimerOf(q)
                    /\ texp'[TimerOf(q)] = texp[TimerOf(q)]
                    /\ tick'[lvl[q]] = tick[lvl[q]]
                    /\ currentTime'[lvl[q]] = currentTime[lvl[q]]
  PROVE  Walks(q)'
<1>1. CASE Busy(q)
  <2>1. /\ TimerOf(q)' = TimerOf(q) /\ texp'[TimerOf(q)] = texp[TimerOf(q)]
        /\ tick'[lvl[q]] = tick[lvl[q]]
        /\ currentTime'[lvl[q]] = currentTime[lvl[q]]
    BY <1>1
  <2>2. End(lvl[q])' = End(lvl[q])
    BY <2>1 DEF End, Interval
  <2>3. QED
    BY <2>1, <2>2 DEF Walks
<1>2. CASE ~Busy(q)
  BY <1>2 DEF Walks, Busy, Placed
<1>3. QED
  BY <1>1, <1>2

(* The overflow wheel's tick is the interval of the wheel below, whose     *)
(* clock is ahead.                                                         *)
LEMMA OverflowIs ==
  ASSUME IInv, Scale, Clocks, NEW l \in 1 .. wheels, l < wheels
  PROVE  currentTime[l + 1] + tick[l + 1] <= End(l)
<1>1. l + 1 \in 1 .. wheels /\ l + 1 > 1 /\ (l + 1) - 1 = l
  BY WheelAssumption DEF WheelAssumption, IInv, TypeOK
<1>2. tick[l + 1] = Interval(l)
  BY <1>1 DEF Scale
<1>3. currentTime[l + 1] <= currentTime[l]
  BY <1>1 DEF Clocks, Nested
<1>4. /\ currentTime[l + 1] \in Nat /\ currentTime[l] \in Nat /\ Interval(l) \in Nat
      /\ End(l) = currentTime[l] + Interval(l)
  BY <1>1, WheelIs
<1>5. QED
  BY <1>2, <1>3, <1>4

(* A step of add that makes a comparison, or follows it.                   *)
LEMMA WalkerWalks ==
  ASSUME IInv, IInv', PInv, NEW p \in Procs, AddStep(p)
  PROVE  Walks(p)'
<1> USE DEF PInv
<1>1. Busy(p) /\ Walks(p)
  BY DEF AddStep, CheckExpired, CheckInterval, LoadOverflow, CreateOverflow,
     Insert, SetExpiration, ReadExpiration, Offer, Busy, Walking
<1> DEFINE l == lvl[p]
           x == texp[TimerOf(p)]
<1>2. l \in 1 .. wheels /\ x \in Nat /\ wheels \in Nat
  <2>1. l \in 1 .. wheels /\ x \in Nat
    BY <1>1, WalkerIs
  <2>2. wheels \in Nat
    BY WheelAssumption DEF WheelAssumption, IInv, TypeOK
  <2>3. QED
    BY <2>1, <2>2
<1>3. /\ tick[l] \in Nat \ {0} /\ currentTime[l] \in Nat /\ Interval(l) \in Nat
      /\ End(l) = currentTime[l] + Interval(l)
  BY <1>2, WheelIs
<1>4. TimerOf(p)' = TimerOf(p) /\ texp' = texp
  BY DEF AddStep, CheckExpired, CheckInterval, LoadOverflow, CreateOverflow,
     Insert, SetExpiration, ReadExpiration, Offer, wVars, TimerOf
<1>5. /\ pc \in [Procs -> AddStates] /\ lvl \in [Procs -> 1 .. Levels]
      /\ loc \in [Procs -> Int]
  BY DEF IInv, TypeOK
<1>6. CASE CheckExpired(p)
  <2>1. UNCHANGED <<tick, currentTime, lvl, loc>>
    BY <1>6 DEF CheckExpired, wheelVars
  <2>2. CASE x < currentTime[l] + tick[l]
    <3>1. pc'[p] \in {"idle", "done"}
      BY <1>5, <1>6, <2>2 DEF CheckExpired, Returned
    <3>2. QED
      BY <3>1 DEF Walks, Placed
  <2>3. CASE ~(x < currentTime[l] + tick[l])
    <3>1. pc'[p] = "inside?"
      BY <1>5, <1>6, <2>3 DEF CheckExpired
    <3>2. currentTime[l] + tick[l] <= x
      BY <1>2, <1>3, <2>3
    <3>3. QED
      BY <1>4, <2>1, <3>1, <3>2 DEF Walks, Placed
  <2>4. QED
    BY <2>2, <2>3
<1>7. CASE CheckInterval(p)
  <2>1. UNCHANGED <<tick, currentTime, lvl, loc>> /\ pc[p] = "inside?"
    BY <1>7 DEF CheckInterval, wheelVars
  <2>2. currentTime[l] + tick[l] <= x
    BY <1>1, <2>1 DEF Walks
  <2>3. End(l)' = End(l)
    BY <2>1 DEF End, Interval
  <2>4. pc'[p] = IF x < End(l) THEN "insert" ELSE "overflow"
    BY <1>5, <1>7 DEF CheckInterval, End
  <2>5. ~(x < End(l)) => End(l) <= x
    BY <1>2, <1>3
  <2>6. QED
    BY <1>4, <2>1, <2>2, <2>3, <2>4, <2>5 DEF Walks, Placed
<1>8. CASE LoadOverflow(p)
  <2>1. UNCHANGED <<tick, currentTime, wheels>> /\ pc[p] = "overflow" /\ lvl[p] < Levels
    BY <1>8 DEF LoadOverflow, wheelVars
  <2>2. currentTime[l] + tick[l] <= x /\ End(l) <= x
    BY <1>1, <2>1 DEF Walks
  <2>3. \A j : End(j)' = End(j)
    BY <2>1 DEF End, Interval
  <2>4. CASE wheels > l
    <3>1. pc'[p] = "expired?" /\ lvl'[p] = l + 1
      BY <1>5, <1>8, <2>4 DEF LoadOverflow
    <3>2. currentTime[l + 1] + tick[l + 1] <= End(l)
      BY <1>2, <2>4, OverflowIs
    <3>3. l + 1 \in 1 .. wheels
      BY <1>2, <2>4
    <3>4. currentTime[l + 1] + tick[l + 1] <= x
      BY <1>2, <1>3, <2>2, <3>2, <3>3, WheelIs
    <3>5. QED
      BY <1>4, <2>1, <3>1, <3>4 DEF Walks, Placed
  <2>5. CASE ~(wheels > l)
    <3>1. pc'[p] = "create" /\ lvl' = lvl /\ loc'[p] = currentTime[l]
      BY <1>5, <1>8, <2>5 DEF LoadOverflow
    <3>2. QED
      BY <1>4, <2>1, <2>2, <2>3, <3>1 DEF Walks, Placed
  <2>6. QED
    BY <2>4, <2>5
<1>9. CASE CreateOverflow(p)
  <2>1. /\ pc[p] = "create" /\ pc'[p] = "expired?" /\ lvl'[p] = l + 1
    <3>1. /\ pc[p] = "create" /\ pc' = [pc EXCEPT ![p] = "expired?"]
          /\ lvl' = [lvl EXCEPT ![p] = @ + 1]
      BY <1>9 DEF CreateOverflow
    <3>2. QED
      BY <1>5, <3>1
  <2>2. End(l) <= x
    BY <1>1, <2>1 DEF Walks
  <2>3. /\ Scale' /\ Clocks' /\ l + 1 \in 1 .. wheels' /\ wheels' \in Nat
        /\ \A j \in 1 .. wheels : tick'[j] = tick[j] /\ currentTime'[j] = currentTime[j]
    BY <1>9, CreateClocks
  <2>4. tick'[l + 1] = Interval(l) /\ currentTime'[l + 1] <= currentTime[l]
    <3>1. l + 1 > 1 /\ (l + 1) - 1 = l /\ l \in 1 .. wheels'
      BY <1>2, <2>3
    <3>2. tick'[l + 1] = tick'[l] * Size
      BY <2>3, <3>1 DEF Scale, Interval
    <3>3. tick'[l] * Size = Interval(l)
      BY <1>2, <2>3 DEF Interval
    <3>4. currentTime'[l + 1] <= currentTime'[l]
      BY <1>2, <2>3, <3>1 DEF Clocks, Nested
    <3>5. QED
      BY <1>2, <2>3, <3>2, <3>3, <3>4
  <2>5. currentTime'[l + 1] \in Nat
    <3>1. l + 1 \in 1 .. Levels
      BY <2>3, WheelAssumption DEF WheelAssumption, IInv, TypeOK
    <3>2. QED
      BY <3>1 DEF IInv, TypeOK
  <2>6. currentTime'[l + 1] + tick'[l + 1] <= x
    BY <1>2, <1>3, <2>2, <2>4, <2>5
  <2>7. QED
    BY <1>4, <2>1, <2>6 DEF Walks, Placed
<1>10. CASE Insert(p) \/ SetExpiration(p) \/ ReadExpiration(p) \/ Offer(p)
  <2>1. /\ UNCHANGED <<tick, currentTime, lvl>>
        /\ pc[p] \in {"insert"} \cup Placed
        /\ pc'[p] \in {"idle", "done"} \cup Placed
    BY <1>5, <1>10 DEF Insert, SetExpiration, ReadExpiration, Offer, Returned,
       Placed, wheelVars
  <2>2. End(l)' = End(l)
    BY <2>1 DEF End, Interval
  <2>3. currentTime[l] + tick[l] <= x /\ x < End(l)
    BY <1>1, <2>1 DEF Walks
  <2>4. QED
    BY <1>4, <2>1, <2>2, <2>3 DEF Walks, Placed
<1>11. QED
  BY <1>6, <1>7, <1>8, <1>9, <1>10 DEF AddStep

-----------------------------------------------------------------------------
(* W and its bucket.                                                       *)
SameBucket ==
  /\ wpc' = wpc /\ wb' = wb /\ UNCHANGED <<tick, texp>>
  /\ wpc = "advance" => lvl'[W] = lvl[W] /\ loc'[W] = loc[W]
  /\ pc'[W] # "idle" => pc[W] # "idle" /\ wt' = wt
  /\ wb \in Buckets =>
       /\ timers'[wb] \subseteq timers[wb]
       /\ expiration'[wb] = expiration[wb]
       /\ currentTime'[wb[1]] = currentTime[wb[1]]

LEMMA SameBucketKeeps ==
  ASSUME IInv, Flushing, SameBucket
  PROVE  Flushing'
<1>1. CASE wb \in Buckets
  BY <1>1 DEF SameBucket, Flushing, Slot
<1>2. CASE wb \notin Buckets
  <2>1. wpc \in {"receive", "stopped"} /\ pc[W] = "idle"
    BY <1>2 DEF IInv, Control
  <2>2. QED
    BY <2>1 DEF SameBucket, Flushing
<1>3. QED
  BY <1>1, <1>2

(* The bucket W is working on is on a wheel that exists.                   *)
LEMMA BucketIs ==
  ASSUME IInv, Exclusive, wpc \notin {"receive", "stopped"}
  PROVE  wb \in Buckets /\ wb[1] \in 1 .. wheels
<1>1. wb \in Buckets
  BY DEF IInv, Control
<1>2. wb # Nil /\ wb[1] \in 1 .. Levels
  BY <1>1, WheelAssumption DEF WheelAssumption, Buckets
<1>3. wb[1] <= wheels
  BY <1>2 DEF Exclusive
<1>4. QED
  BY <1>1, <1>2, <1>3, WheelAssumption DEF WheelAssumption, IInv, TypeOK

(* A step of add does not concern the bucket that W flushes, even when it  *)
(* is W that makes it.                                                     *)
LEMMA AddFlushing ==
  ASSUME IInv, IInv', PInv, NEW p \in Procs, AddStep(p)
  PROVE  Flushing'
<1> USE DEF PInv
<1>1. Busy(p)
  BY DEF AddStep, CheckExpired, CheckInterval, LoadOverflow, CreateOverflow,
     Insert, SetExpiration, ReadExpiration, Offer, Busy
<1>2. /\ wpc \in {"receive", "stopped", "flush"}
      /\ p # W => wb = Nil
  BY <1>1, BusyIs
<1>3. UNCHANGED <<texp, wpc, wb, wt>>
  BY DEF AddStep, CheckExpired, CheckInterval, LoadOverflow, CreateOverflow,
     Insert, SetExpiration, ReadExpiration, Offer, wVars
<1>4. pc'[W] # "idle" => pc[W] # "idle"
  <2>1. ASSUME p # W PROVE pc'[W] = pc[W]
    BY <2>1 DEF AddStep, CheckExpired, CheckInterval, LoadOverflow, CreateOverflow,
       Insert, SetExpiration, ReadExpiration, Offer, Returned, Procs, IInv, TypeOK
  <2>2. QED
    BY <1>1, <2>1 DEF Busy
<1>5. CASE wpc # "flush"
  <2>1. pc[W] = "idle"
    BY <1>5 DEF IInv, Control
  <2>2. QED
    BY <1>2, <1>3, <1>4, <1>5, <2>1 DEF Flushing
<1>6. CASE wpc = "flush"
  <2>1. wb \in Buckets /\ wb[1] \in 1 .. wheels
    BY <1>6, BucketIs
  <2>2. p = W
    BY <1>2, <2>1, WheelAssumption DEF WheelAssumption
  <2>3. tick'[wb[1]] = tick[wb[1]] /\ currentTime'[wb[1]] = currentTime[wb[1]]
    <3>1. CASE CreateOverflow(p)
      BY <2>1, <3>1, CreateClocks
    <3>2. CASE ~CreateOverflow(p)
      BY <3>2 DEF AddStep, CheckExpired, CheckInterval, LoadOverflow, Insert,
         SetExpiration, ReadExpiration, Offer, wheelVars
    <3>3. QED
      BY <3>1, <3>2
  <2>4. expiration'[wb] = expiration[wb]
    <3>1. CASE SetExpiration(p)
      <4>1. /\ expiration' = [expiration EXCEPT ![BucketOf(W)] = SlotOf(W)]
            /\ pc[W] \in {"insert"} \cup Placed
        BY <2>2, <3>1 DEF SetExpiration, Placed
      <4>2. BucketOf(W) # wb
        BY <4>1, FlushedIs
      <4>3. QED
        BY <2>1, <4>1, <4>2 DEF IInv, TypeOK
    <3>2. CASE ~SetExpiration(p)
      BY <3>2 DEF AddStep, CheckExpired, CheckInterval, LoadOverflow,
         CreateOverflow, Insert, ReadExpiration, Offer
    <3>3. QED
      BY <3>1, <3>2
  <2>5. Slot(wt, wb[1])' = Slot(wt, wb[1])
    BY <1>3, <2>3 DEF Slot
  <2>6. QED
    BY <1>3, <1>4, <1>6, <2>3, <2>4, <2>5 DEF Flushing
<1>7. QED
  BY <1>5, <1>6

(* W takes a timer out of its bucket, whose expiration has come.           *)
LEMMA FlushNextFlushing ==
  ASSUME IInv, IInv', PInv, FlushNext
  PROVE  Flushing'
<1> USE DEF PInv
<1>1. PICK t \in timers[wb] : Remove(t, wb) /\ wt' = t
  BY DEF FlushNext
<1>2. /\ wpc = "flush" /\ pc[W] = "idle" /\ wpc' = "flush" /\ wb' = wb
      /\ UNCHANGED <<tick, currentTime, expiration, texp>>
  BY DEF FlushNext, wheelVars
<1>3. wb \in Buckets /\ wb[1] \in 1 .. wheels
  BY <1>2, BucketIs
<1>4. Slot(t, wb[1]) \in Nat
  BY <1>3, ListedIs
<1>5. \A q \in Procs : pc[q] # "setExpiration"
  BY <1>2, BusyIs DEF Busy
<1>6. Slot(t, wb[1]) <= expiration[wb]
  BY <1>3, <1>5 DEF InBucket
<1>7. expiration[wb] <= currentTime[wb[1]]
  BY <1>2 DEF Flushing
<1>8. expiration[wb] \in Int /\ currentTime[wb[1]] \in Nat
  BY <1>3, WheelIs DEF IInv, TypeOK
<1>9. Slot(t, wb[1]) <= currentTime[wb[1]]
  BY <1>4, <1>6, <1>7, <1>8
<1>10. Slot(wt, wb[1])' = Slot(t, wb[1])
  BY <1>1, <1>2 DEF Slot
<1>11. QED
  BY <1>2, <1>7, <1>9, <1>10 DEF Flushing

(* The other steps of W's loop.                                            *)
LEMMA LoopFlushing ==
  ASSUME IInv, PInv, Receive \/ LoadExpiration \/ Lock \/ Unlock \/ ResetExpiration
                     \/ WheelExit
  PROVE  Flushing'
<1> USE DEF PInv
<1>1. pc[W] = "idle" /\ pc' = pc
  BY DEF IInv, Control, Receive, LoadExpiration, Lock, Unlock, ResetExpiration, WheelExit
<1>2. CASE Receive \/ ResetExpiration \/ WheelExit
  <2>1. wpc' \in {"load", "receive", "stopped"}
    BY <1>2 DEF Receive, ResetExpiration, WheelExit
  <2>2. QED
    BY <1>1, <2>1 DEF Flushing
<1>3. CASE Lock \/ Unlock
  <2>1. /\ wpc \in {"lock", "flush"} /\ wpc' \in {"flush", "reset"}
        /\ wpc' = "reset" => timers[wb] = {}
        /\ UNCHANGED <<timers, expiration, currentTime, wb>>
    BY <1>3 DEF Lock, Unlock, wheelVars
  <2>2. QED
    BY <1>1, <2>1 DEF Flushing
<1>4. CASE LoadExpiration
  <2>1. /\ wpc = "load" /\ wpc' = "advance" /\ wb' = wb
        /\ loc' = [loc EXCEPT ![W] = expiration[wb]] /\ lvl' = [lvl EXCEPT ![W] = 1]
        /\ expiration' = expiration
    BY <1>4 DEF LoadExpiration
  <2>2. wb \in Buckets /\ wb[1] \in 1 .. wheels
    BY <2>1, BucketIs
  <2>3. loc'[W] = expiration[wb] /\ lvl'[W] = 1
    BY <2>1 DEF IInv, TypeOK, Procs
  <2>4. expiration[wb] <= loc'[W] /\ 1 <= wb[1]
    BY <2>2, <2>3 DEF IInv, TypeOK
  <2>5. QED
    BY <1>1, <2>1, <2>3, <2>4 DEF Flushing
<1>5. QED
  BY <1>2, <1>3, <1>4

-----------------------------------------------------------------------------
(* The steps under prompt calls.  The clock, the closing of the wheel and  *)
(* the calls of Stop leave the wheels and their goroutines alone.          *)
Aside == \/ TickClock \/ CloseExit
         \/ \E s \in Stops : \/ \E t \in Timers : StopTimer(s, t)
                             \/ StopStep(s)

LEMMA AsideIs ==
  ASSUME IInv, Aside
  PROVE  /\ UNCHANGED <<tick, currentTime, wheels, expiration, queue, taken, texp,
                        pc, lvl, loc, wpc, wb, wt>>
         /\ \A b \in Buckets : timers'[b] \subseteq timers[b]
<1>1. CASE TickClock \/ CloseExit
  BY <1>1 DEF TickClock, CloseExit, wheelVars, queueVars, wVars
<1>2. ASSUME NEW s \in Stops, NEW t \in Timers, StopTimer(s, t)
      PROVE  /\ UNCHANGED <<tick, currentTime, wheels, expiration, queue, taken, texp,
                            pc, lvl, loc, wpc, wb, wt, timers>>
  BY <1>2 DEF StopTimer, wheelVars, queueVars, wVars
<1>3. ASSUME NEW s \in Stops, GetBucket(s)
      PROVE  /\ UNCHANGED <<tick, currentTime, wheels, expiration, queue, taken, texp,
                            pc, lvl, loc, wpc, wb, wt, timers>>
  BY <1>3 DEF GetBucket, wheelVars, queueVars, wVars
<1>4. ASSUME NEW s \in Stops, RemoveTimer(s)
      PROVE  /\ UNCHANGED <<tick, currentTime, wheels, expiration, queue, taken, texp,
                            pc, lvl, loc, wpc, wb, wt>>
             /\ \A b \in Buckets : timers'[b] \subseteq timers[b]
  <2>1. /\ UNCHANGED <<tick, currentTime, wheels, expiration, queue, taken, texp,
                       pc, lvl, loc, wpc, wb, wt>>
        /\ Remove(target[s], sb[s])
    BY <1>4 DEF RemoveTimer, wheelVars, queueVars, wVars
  <2>2. timers' = timers \/ timers' = [timers EXCEPT ![sb[s]] = @ \ {target[s]}]
    BY <2>1 DEF Remove
  <2>3. QED
    BY <2>1, <2>2 DEF IInv, TypeOK
<1>5. QED
  BY <1>1, <1>2, <1>3, <1>4 DEF Aside, StopStep

LEMMA NextCases ==
  Next <=> \/ Aside
           \/ \E t \in Timers, d \in Delays : AfterFunc(t, d)
           \/ \E p \in Procs : AddStep(p)
           \/ Take \/ Receive \/ LoadExpiration \/ AdvanceClock \/ Lock \/ FlushNext
           \/ Unlock \/ ResetExpiration \/ WheelExit
  BY DEF Next, Aside, WheelStep

(* A call of AfterFunc begins with a timer that nobody knows.              *)
LEMMA AfterFuncIs ==
  ASSUME IInv, PInv, NEW t \in Timers, NEW d \in Delays, AfterFunc(t, d), Prompt
  PROVE  /\ pc[t] = "idle" /\ pc'[t] = "expired?" /\ t \in Procs /\ lvl' = lvl
         /\ texp'[t] = now + d /\ \A u \in Timers \ {t} : texp'[u] = texp[u]
         /\ \A q \in Procs \ {t} : pc'[q] = pc[q]
         /\ \A q \in Procs : q # t /\ Busy(q) => TimerOf(q) # t
         /\ \A b \in Buckets : t \notin timers[b]
         /\ pc[W] = "idle"
         /\ UNCHANGED <<tick, currentTime, wheels, timers, expiration, queue, taken,
                        lvl, loc, wpc, wb, wt>>
<1>1. /\ pc[t] = "idle" /\ texp' = [texp EXCEPT ![t] = now + d]
      /\ pc' = [pc EXCEPT ![t] = "expired?"] /\ t \in Procs
      /\ UNCHANGED <<tick, currentTime, wheels, timers, expiration, queue, taken,
                     lvl, loc, wpc, wb, wt>>
  BY DEF AfterFunc, Procs, wheelVars, queueVars, wVars
<1>2. /\ pc'[t] = "expired?" /\ \A q \in Procs \ {t} : pc'[q] = pc[q]
      /\ texp'[t] = now + d /\ \A u \in Timers \ {t} : texp'[u] = texp[u]
  BY <1>1 DEF IInv, TypeOK
<1>3. Adding'
  BY <1>2 DEF Adding
<1>4. pc[W] = "idle"
  BY <1>1, <1>3 DEF Prompt, IInv, Control
<1>5. \A b \in Buckets : t \notin timers[b]
  <2>1. tb[t] = Nil
    BY <1>1 DEF IInv, Control
  <2>2. QED
    BY <2>1, WheelAssumption DEF WheelAssumption, IInv, BucketAgrees
<1>6. \A q \in Procs : q # t /\ Busy(q) => TimerOf(q) # t
  BY <1>4 DEF Busy, TimerOf, Procs
<1>7. QED
  BY <1>1, <1>2, <1>4, <1>5, <1>6

LEMMA ExclusiveKeeps ==
  ASSUME IInv, IInv', PInv, Next, Prompt
  PROVE  Exclusive'
<1> USE DEF PInv
<1>1. Adding' => wpc' \in {"receive", "stopped"}
  BY DEF Prompt
<1>2. /\ wpc' \in {"receive", "stopped"} => wb' = Nil
      /\ wb' # Nil => wb'[1] <= wheels'
  <2>1. CASE Aside
    BY <2>1, AsideIs DEF Exclusive
  <2>2. ASSUME NEW t \in Timers, NEW d \in Delays, AfterFunc(t, d)
        PROVE  /\ wpc' \in {"receive", "stopped"} => wb' = Nil
               /\ wb' # Nil => wb'[1] <= wheels'
    BY <2>2, AfterFuncIs DEF Exclusive
  <2>3. ASSUME NEW p \in Procs, AddStep(p)
        PROVE  /\ wpc' \in {"receive", "stopped"} => wb' = Nil
               /\ wb' # Nil => wb'[1] <= wheels'
    <3>1. wpc' = wpc /\ wb' = wb
      BY <2>3 DEF AddStep, CheckExpired, CheckInterval, LoadOverflow, CreateOverflow,
         Insert, SetExpiration, ReadExpiration, Offer, wVars
    <3>2. CASE CreateOverflow(p)
      <4>1. wheels' \in Nat /\ wheels' >= wheels
        BY <3>2, CreateClocks
      <4>2. wb # Nil => wb[1] \in Int /\ wheels \in Int
        BY WheelAssumption DEF WheelAssumption, IInv, TypeOK, Buckets
      <4>3. QED
        BY <3>1, <4>1, <4>2 DEF Exclusive
    <3>3. CASE ~CreateOverflow(p)
      <4>1. wheels' = wheels
        BY <2>3, <3>3 DEF AddStep, CheckExpired, CheckInterval, LoadOverflow, Insert,
           SetExpiration, ReadExpiration, Offer, wheelVars
      <4>2. QED
        BY <3>1, <4>1 DEF Exclusive
    <3>4. QED
      BY <3>2, <3>3
  <2>4. CASE Receive
    <3>1. /\ taken # Nil /\ wb' = taken[1] /\ wpc' = "load" /\ wheels' = wheels
      BY <2>4 DEF Receive, wheelVars
    <3>2. taken \in Entries
      BY <3>1 DEF Entries
    <3>3. taken[1][1] <= wheels
      BY <3>2 DEF Queued
    <3>4. QED
      BY <3>1, <3>3
  <2>5. CASE ResetExpiration
    BY <2>5 DEF ResetExpiration
  <2>6. CASE Take \/ LoadExpiration \/ AdvanceClock \/ Lock \/ FlushNext \/ Unlock
             \/ WheelExit
    BY <2>6 DEF Take, LoadExpiration, AdvanceClock, Lock, FlushNext, Unlock, WheelExit,
       wheelVars, wVars, Exclusive
  <2>7. QED
    BY <2>1, <2>2, <2>3, <2>4, <2>5, <2>6, NextCases
<1>3. QED
  BY <1>1, <1>2 DEF Exclusive

LEMMA ClocksKeep ==
  ASSUME IInv, IInv', PInv, Next, Prompt
  PROVE  Scale' /\ Clocks'
<1> USE DEF PInv
<1>1. CASE Aside
  BY <1>1, AsideIs, SameClocksKeep DEF SameClocks
<1>2. ASSUME NEW t \in Timers, NEW d \in Delays, AfterFunc(t, d)
      PROVE  Scale' /\ Clocks'
  BY <1>2, AfterFuncIs, SameClocksKeep DEF SameClocks
<1>3. ASSUME NEW p \in Procs, AddStep(p)
      PROVE  Scale' /\ Clocks'
  <2>1. CASE CreateOverflow(p)
    BY <2>1, CreateClocks
  <2>2. CASE ~CreateOverflow(p)
    <3>1. UNCHANGED <<tick, currentTime, wheels, wpc>> /\ Busy(p)
      BY <1>3, <2>2 DEF AddStep, CheckExpired, CheckInterval, LoadOverflow, Insert,
         SetExpiration, ReadExpiration, Offer, wheelVars, wVars, Busy
    <3>2. wpc # "advance"
      BY <3>1, BusyIs
    <3>3. QED
      BY <3>1, <3>2, SameClocksKeep DEF SameClocks
  <2>3. QED
    BY <2>1, <2>2
<1>4. CASE AdvanceClock
  BY <1>4, AdvanceClocks
<1>5. CASE LoadExpiration
  <2>1. /\ UNCHANGED <<tick, currentTime, wheels>> /\ wpc = "load"
        /\ lvl' = [lvl EXCEPT ![W] = 1]
    BY <1>5 DEF LoadExpiration, wheelVars
  <2>2. lvl'[W] = 1
    BY <2>1 DEF IInv, TypeOK, Procs
  <2>3. Scale'
    BY <2>1 DEF Scale, Multiple, Interval
  <2>4. Clocks'
    BY <2>1, <2>2 DEF Clocks, Nested
  <2>5. QED
    BY <2>3, <2>4
<1>6. CASE Take
  BY <1>6, SameClocksKeep DEF Take, SameClocks, wheelVars, wVars
<1>7. CASE Receive \/ Lock \/ FlushNext \/ Unlock \/ ResetExpiration \/ WheelExit
  <2>1. UNCHANGED <<tick, currentTime, wheels>> /\ wpc # "advance" /\ wpc' # "advance"
    BY <1>7 DEF Receive, Lock, FlushNext, Unlock, ResetExpiration, WheelExit, wheelVars
  <2>2. QED
    BY <2>1, SameClocksKeep DEF SameClocks
<1>8. QED
  BY <1>1, <1>2, <1>3, <1>4, <1>5, <1>6, <1>7, NextCases

LEMMA WalkingKeeps ==
  ASSUME IInv, IInv', PInv, Next, Prompt
  PROVE  Walking'
<1> USE DEF PInv
<1>1. /\ \A q \in Procs : Walks(q)
      /\ \A t \in Timers : pc[t] = "idle" => lvl[t] = 1
  BY DEF Walking
<1>2. CASE Aside
  <2>1. UNCHANGED <<tick, currentTime, texp, pc, lvl, loc, wt>>
    BY <1>2, AsideIs
  <2>2. \A q \in Procs : TimerOf(q)' = TimerOf(q)
    BY <2>1 DEF TimerOf
  <2>3. \A q \in Procs : Walks(q)'
    BY <1>1, <2>1, <2>2, WalksSame
  <2>4. QED
    BY <1>1, <2>1, <2>3 DEF Walking
<1>3. ASSUME NEW t \in Timers, NEW d \in Delays, AfterFunc(t, d)
      PROVE  Walking'
  <2>1. /\ pc[t] = "idle" /\ pc'[t] = "expired?" /\ lvl' = lvl
        /\ \A r \in Procs \ {t} : pc'[r] = pc[r]
        /\ \A r \in Procs : r # t /\ Busy(r) => TimerOf(r) # t
        /\ \A u \in Timers \ {t} : texp'[u] = texp[u]
        /\ UNCHANGED <<tick, currentTime, loc, wt>>
    BY <1>3, AfterFuncIs
  <2>2. ASSUME NEW q \in Procs, q # t PROVE Walks(q)'
    <3>1. Busy(q) => TimerOf(q) \in Timers
      BY WalkerIs
    <3>2. TimerOf(q)' = TimerOf(q)
      BY <2>1 DEF TimerOf
    <3>3. QED
      BY <1>1, <2>1, <2>2, <3>1, <3>2, WalksSame
  <2>3. Walks(t)'
    BY <1>1, <2>1 DEF Walks, Placed
  <2>4. QED
    BY <1>1, <2>1, <2>2, <2>3 DEF Walking, Procs
<1>4. ASSUME NEW p \in Procs, AddStep(p)
      PROVE  Walking'
  <2>1. Walks(p)'
    BY <1>4, WalkerWalks
  <2>2. /\ \A q \in Procs : q # p => pc'[q] = pc[q] /\ lvl'[q] = lvl[q] /\ loc'[q] = loc[q]
        /\ pc'[p] # "idle" \/ p = W
    BY <1>4 DEF AddStep, CheckExpired, CheckInterval, LoadOverflow, CreateOverflow,
       Insert, SetExpiration, ReadExpiration, Offer, Returned, IInv, TypeOK
  <2>3. \A q \in Procs : TimerOf(q)' = TimerOf(q) /\ texp' = texp
    BY <1>4 DEF AddStep, CheckExpired, CheckInterval, LoadOverflow, CreateOverflow,
       Insert, SetExpiration, ReadExpiration, Offer, wVars, TimerOf
  <2>4. \A l \in 1 .. wheels : tick'[l] = tick[l] /\ currentTime'[l] = currentTime[l]
    <3>1. CASE CreateOverflow(p)
      BY <3>1, CreateClocks
    <3>2. CASE ~CreateOverflow(p)
      BY <1>4, <3>2 DEF AddStep, CheckExpired, CheckInterval, LoadOverflow, Insert,
         SetExpiration, ReadExpiration, Offer, wheelVars
    <3>3. QED
      BY <3>1, <3>2
  <2>5. ASSUME NEW q \in Procs, q # p PROVE Walks(q)'
    <3>1. Busy(q) => lvl[q] \in 1 .. wheels
      BY WalkerIs
    <3>2. QED
      BY <1>1, <2>2, <2>3, <2>4, <2>5, <3>1, WalksSame
  <2>6. QED
    BY <1>1, <2>1, <2>2, <2>5, WheelAssumption DEF WheelAssumption, Walking, Procs
<1>5. CASE Take \/ Receive \/ Lock \/ Unlock \/ WheelExit
  <2>1. /\ UNCHANGED <<tick, currentTime, texp, pc, lvl, loc>>
        /\ wt' = wt \/ Unlock
    BY <1>5 DEF Take, Receive, Lock, Unlock, WheelExit, wheelVars, wVars
  <2>2. Unlock => ~Busy(W)
    BY DEF Unlock, Busy
  <2>3. \A q \in Procs : Busy(q) => TimerOf(q)' = TimerOf(q)
    BY <2>1, <2>2 DEF TimerOf
  <2>4. \A q \in Procs : Walks(q)'
    BY <1>1, <2>1, <2>3, WalksSame
  <2>5. QED
    BY <1>1, <2>1, <2>4 DEF Walking
<1>6. CASE LoadExpiration \/ AdvanceClock \/ ResetExpiration
  <2>1. /\ pc' = pc /\ wpc \notin {"receive", "stopped", "flush"}
        /\ \A t \in Timers : lvl'[t] = lvl[t]
    BY <1>6, WheelAssumption DEF LoadExpiration, AdvanceClock, ResetExpiration,
       WheelAssumption, IInv, TypeOK, Procs
  <2>2. \A q \in Procs : ~Busy(q)
    BY <2>1, NobodyBusy
  <2>3. \A q \in Procs : Walks(q)'
    BY <2>1, <2>2 DEF Busy, Walks, Placed
  <2>4. QED
    BY <1>1, <2>1, <2>3 DEF Walking
<1>7. CASE FlushNext
  <2>1. /\ pc'[W] = "expired?" /\ lvl'[W] = 1
        /\ UNCHANGED <<tick, currentTime, texp, loc>>
        /\ \A q \in Timers : q # W /\ pc'[q] = pc[q] /\ lvl'[q] = lvl[q]
    BY <1>7, WheelAssumption DEF WheelAssumption, FlushNext, wheelVars, IInv, TypeOK, Procs
  <2>2. Walks(W)'
    BY <2>1 DEF Walks, Placed
  <2>3. ASSUME NEW q \in Timers PROVE Walks(q)'
    <3>1. q \in Procs /\ TimerOf(q)' = TimerOf(q)
      BY <2>1 DEF TimerOf, Procs
    <3>2. QED
      BY <1>1, <2>1, <3>1, WalksSame
  <2>4. QED
    BY <1>1, <2>1, <2>2, <2>3 DEF Walking, Procs
<1>8. QED
  BY <1>2, <1>3, <1>4, <1>5, <1>6, <1>7, NextCases

LEMMA FlushingKeeps ==
  ASSUME IInv, IInv', PInv, Next, Prompt
  PROVE  Flushing'
<1> USE DEF PInv
<1>1. CASE Aside
  BY <1>1, AsideIs, SameBucketKeeps DEF SameBucket
<1>2. ASSUME NEW t \in Timers, NEW d \in Delays, AfterFunc(t, d)
      PROVE  Flushing'
  <2>1. /\ pc[W] = "idle" /\ t \in Timers /\ t # W
        /\ \A q \in Procs \ {t} : pc'[q] = pc[q]
        /\ UNCHANGED <<timers, expiration, currentTime, lvl, loc, wpc, wb>>
    BY <1>2, AfterFuncIs, WheelAssumption DEF WheelAssumption
  <2>2. pc'[W] = "idle"
    BY <2>1 DEF Procs
  <2>3. QED
    BY <2>1, <2>2 DEF Flushing
<1>3. CASE \E p \in Procs : AddStep(p)
  BY <1>3, AddFlushing
<1>4. CASE Take
  <2>1. UNCHANGED <<tick, currentTime, timers, expiration, texp, pc, lvl, loc, wpc, wb, wt>>
    BY <1>4 DEF Take, wheelVars, wVars
  <2>2. QED
    BY <2>1, SameBucketKeeps DEF SameBucket
<1>5. CASE AdvanceClock
  BY <1>5, AdvanceClocks
<1>6. CASE FlushNext
  BY <1>6, FlushNextFlushing
<1>7. QED
  BY <1>1, <1>2, <1>3, <1>4, <1>5, <1>6, LoopFlushing, NextCases

(* What is said of buckets and of placed goroutines.                       *)
LEMMA BucketsKeep ==
  ASSUME IInv, IInv', PInv, Next, Prompt
  PROVE  InBucket' /\ Expirations' /\ Offered' /\ Queued' /\ Fresh' /\ Covered'
<1> USE DEF PInv
<1>1. Still => /\ InBucket' /\ Expirations' /\ Offered' /\ Queued' /\ Fresh'
               /\ Covered'
  BY StillKeeps
<1>2. /\ wheels \in Nat /\ \A l \in 1 .. wheels : currentTime[l] \in Nat
  <2>1. wheels \in Nat
    BY WheelAssumption DEF WheelAssumption, IInv, TypeOK
  <2>2. QED
    BY <2>1, WheelIs
<1>3. CASE Aside
  BY <1>1, <1>2, <1>3, AsideIs DEF Still, Entries, TimerOf
<1>4. ASSUME NEW t \in Timers, NEW d \in Delays, AfterFunc(t, d)
      PROVE  Still
  <2>1. /\ pc[t] = "idle" /\ pc'[t] = "expired?" /\ t \in Procs
        /\ \A u \in Timers \ {t} : texp'[u] = texp[u]
        /\ \A q \in Procs \ {t} : pc'[q] = pc[q]
        /\ \A q \in Procs : q # t /\ Busy(q) => TimerOf(q) # t
        /\ \A b \in Buckets : t \notin timers[b]
        /\ UNCHANGED <<tick, currentTime, wheels, timers, expiration, queue, taken,
                       lvl, loc, wpc, wb, wt>>
    BY <1>4, AfterFuncIs
  <2>2. ASSUME NEW q \in Procs, pc[q] \in Placed \/ pc'[q] \in Placed
        PROVE  /\ pc'[q] = pc[q] /\ TimerOf(q)' = TimerOf(q)
               /\ texp'[TimerOf(q)] = texp[TimerOf(q)]
    <3>1. q # t /\ Busy(q) /\ pc'[q] = pc[q]
      BY <2>1, <2>2 DEF Placed, Busy
    <3>2. TimerOf(q) \in Timers /\ TimerOf(q) # t
      BY <2>1, <3>1, WalkerIs
    <3>3. QED
      BY <2>1, <3>1, <3>2 DEF TimerOf
  <2>3. \A b \in Buckets : \A u \in timers[b] : texp'[u] = texp[u]
    BY <2>1 DEF IInv, TypeOK
  <2>4. Entries' = Entries
    BY <2>1 DEF Entries
  <2>5. QED
    BY <1>2, <2>1, <2>2, <2>3, <2>4 DEF Still
<1>5. ASSUME NEW p \in Procs,
             CheckExpired(p) \/ CheckInterval(p) \/ LoadOverflow(p) \/ CreateOverflow(p)
      PROVE  Still
  <2>1. /\ UNCHANGED <<timers, expiration, queue, taken, texp, wb, wt>>
        /\ pc[p] \notin Placed /\ pc'[p] \notin Placed
        /\ \A q \in Procs : q # p => /\ pc'[q] = pc[q] /\ lvl'[q] = lvl[q]
                                     /\ loc'[q] = loc[q]
    BY <1>5 DEF CheckExpired, CheckInterval, LoadOverflow, CreateOverflow, Returned,
       Placed, queueVars, wVars, IInv, TypeOK
  <2>2. /\ wheels' >= wheels
        /\ \A l \in 1 .. wheels : tick'[l] = tick[l] /\ currentTime'[l] = currentTime[l]
    <3>1. CASE CreateOverflow(p)
      BY <3>1, CreateClocks
    <3>2. CASE ~CreateOverflow(p)
      BY <1>2, <1>5, <3>2 DEF CheckExpired, CheckInterval, LoadOverflow, wheelVars
    <3>3. QED
      BY <3>1, <3>2
  <2>3. Entries' = Entries /\ \A q \in Procs : TimerOf(q)' = TimerOf(q)
    BY <2>1 DEF Entries, TimerOf
  <2>4. QED
    BY <1>2, <2>1, <2>2, <2>3 DEF Still
<1>6. CASE Take
  <2>1. /\ UNCHANGED <<tick, currentTime, wheels, timers, expiration, texp, pc, lvl, loc,
                       wb, wt>>
        /\ Entries' = Entries
    BY <1>6, TakeIs DEF Take, wheelVars, wVars
  <2>2. Still
    BY <1>2, <2>1 DEF Still, TimerOf
  <2>3. QED
    BY <1>1, <2>2
<1>7. CASE LoadExpiration \/ AdvanceClock \/ Lock \/ WheelExit \/ Unlock \/ FlushNext
  <2>1. /\ UNCHANGED <<tick, wheels, expiration, queue, taken, texp, wb>>
        /\ \A q \in Timers : /\ pc'[q] = pc[q] /\ lvl'[q] = lvl[q] /\ loc'[q] = loc[q]
                             /\ q # W
        /\ pc[W] = "idle" /\ pc'[W] \in {"idle", "expired?"}
    <3>1. UNCHANGED <<tick, wheels, expiration, queue, taken, texp, wb>>
      BY <1>7 DEF LoadExpiration, AdvanceClock, Lock, WheelExit, Unlock, FlushNext,
         wheelVars, queueVars, wVars
    <3>2. pc[W] = "idle" /\ (pc' = pc \/ pc' = [pc EXCEPT ![W] = "expired?"])
      BY <1>7 DEF LoadExpiration, AdvanceClock, Lock, WheelExit, Unlock, FlushNext,
         IInv, Control
    <3>3. /\ lvl' = lvl \/ \E i : lvl' = [lvl EXCEPT ![W] = i]
          /\ loc' = loc \/ \E i : loc' = [loc EXCEPT ![W] = i]
      BY <1>7 DEF LoadExpiration, AdvanceClock, Lock, WheelExit, Unlock, FlushNext
    <3>4. W \in Procs /\ \A q \in Timers : q # W /\ q \in Procs
      BY WheelAssumption DEF WheelAssumption, Procs
    <3>5. /\ \A q \in Timers : pc'[q] = pc[q]
          /\ pc'[W] \in {"idle", "expired?"}
      BY <3>2, <3>4 DEF IInv, TypeOK
    <3>6. \A q \in Timers : lvl'[q] = lvl[q] /\ loc'[q] = loc[q]
      BY <3>3, <3>4 DEF IInv, TypeOK
    <3>7. QED
      BY <3>1, <3>2, <3>4, <3>5, <3>6
  <2>2. \A b \in Buckets : timers'[b] \subseteq timers[b]
    <3>1. CASE FlushNext
      <4>1. PICK t \in timers[wb] : Remove(t, wb)
        BY <3>1 DEF FlushNext
      <4>2. timers' = timers \/ timers' = [timers EXCEPT ![wb] = @ \ {t}]
        BY <4>1 DEF Remove
      <4>3. QED
        BY <4>2 DEF IInv, TypeOK
    <3>2. CASE ~FlushNext
      BY <1>7, <3>2 DEF LoadExpiration, AdvanceClock, Lock, WheelExit, Unlock
    <3>3. QED
      BY <3>1, <3>2
  <2>3. \A l \in 1 .. wheels : currentTime'[l] >= currentTime[l]
    <3>1. CASE AdvanceClock
      BY <3>1, AdvanceClocks
    <3>2. CASE ~AdvanceClock
      BY <1>2, <1>7, <3>2 DEF LoadExpiration, Lock, WheelExit, Unlock, FlushNext,
         wheelVars
    <3>3. QED
      BY <3>1, <3>2
  <2>4. Entries' = Entries /\ \A q \in Timers : TimerOf(q)' = TimerOf(q)
    BY <2>1 DEF Entries, TimerOf
  <2>5. pc[W] \notin Placed /\ pc'[W] \notin Placed
    BY <2>1 DEF Placed
  <2>6. Still
    BY <1>2, <2>1, <2>2, <2>3, <2>4, <2>5 DEF Still, Procs
  <2>7. QED
    BY <1>1, <2>6
<1>8. ASSUME NEW p \in Procs,
             Insert(p) \/ SetExpiration(p) \/ ReadExpiration(p) \/ Offer(p)
      PROVE  InBucket' /\ Expirations' /\ Offered' /\ Queued' /\ Fresh' /\ Covered'
  BY <1>8, InsertKeeps, SetExpirationKeeps, ReadExpirationKeeps, OfferKeeps
<1>9. CASE Receive
  BY <1>9, ReceiveKeeps
<1>10. CASE ResetExpiration
  BY <1>10, ResetKeeps
<1>11. QED
  BY <1>1, <1>3, <1>4, <1>5, <1>6, <1>7, <1>8, <1>9, <1>10, NextCases DEF AddStep

LEMMA OnceKeeps ==
  ASSUME IInv, IInv', PInv, Next, Prompt
  PROVE  EnqueuedOnce'
<1> USE DEF PInv
<1>1. ASSUME UNCHANGED <<queue, taken>> PROVE EnqueuedOnce'
  BY <1>1 DEF EnqueuedOnce
<1>2. CASE Aside
  BY <1>1, <1>2, AsideIs
<1>3. ASSUME NEW t \in Timers, NEW d \in Delays, AfterFunc(t, d)
      PROVE  EnqueuedOnce'
  BY <1>1, <1>3 DEF AfterFunc, queueVars
<1>4. ASSUME NEW p \in Procs, AddStep(p)
      PROVE  EnqueuedOnce'
  <2>1. CASE Offer(p)
    BY <2>1, OfferKeeps
  <2>2. CASE ~Offer(p)
    BY <1>1, <1>4, <2>2 DEF AddStep, CheckExpired, CheckInterval, LoadOverflow,
       CreateOverflow, Insert, SetExpiration, ReadExpiration, queueVars
  <2>3. QED
    BY <2>1, <2>2
<1>5. CASE Take
  BY <1>5, TakeIs
<1>6. CASE Receive
  BY <1>6, ReceiveKeeps
<1>7. CASE LoadExpiration \/ AdvanceClock \/ Lock \/ FlushNext \/ Unlock
           \/ ResetExpiration \/ WheelExit
  BY <1>1, <1>7 DEF LoadExpiration, AdvanceClock, Lock, FlushNext, Unlock,
     ResetExpiration, WheelExit, queueVars
<1>8. QED
  BY <1>2, <1>3, <1>4, <1>5, <1>6, <1>7, NextCases

LEMMA StepPInv == IInv /\ IInv' /\ PInv /\ [Next /\ Prompt]_vars => PInv'
<1> SUFFICES ASSUME IInv, IInv', PInv, [Next /\ Prompt]_vars PROVE PInv'
  OBVIOUS
<1>1. CASE Next /\ Prompt
  BY <1>1, ExclusiveKeeps, ClocksKeep, WalkingKeeps, FlushingKeeps, BucketsKeep,
     OnceKeeps DEF PInv
<1>2. CASE UNCHANGED vars
  <2>1. UNCHANGED <<tick, currentTime, wheels, timers, expiration, queue, taken, texp,
                    pc, lvl, loc, wpc, wb, wt>>
    BY <1>2 DEF vars
  <2>2. /\ Entries' = Entries /\ Adding' = Adding
        /\ \A q : TimerOf(q)' = TimerOf(q)
        /\ \A l : Interval(l)' = Interval(l)
    BY <2>1 DEF Entries, Adding, TimerOf, Interval
  <2>3. /\ \A q : BucketOf(q)' = BucketOf(q) /\ SlotOf(q)' = SlotOf(q)
        /\ \A l : End(l)' = End(l)
        /\ \A u, l : Slot(u, l)' = Slot(u, l)
        /\ \A c, v : IsSlot(c, v)' <=> IsSlot(c, v)
    BY <2>1, <2>2 DEF BucketOf, SlotOf, Slot, End, IsSlot
  <2>4. Exclusive' /\ Scale' /\ Clocks'
    BY <2>1, <2>2 DEF PInv, Exclusive, Scale, Clocks, Nested
  <2>5. Walking' /\ Flushing'
    BY <2>1, <2>2, <2>3 DEF PInv, Walking, Walks, Flushing
  <2>6. InBucket' /\ Covered' /\ Offered'
    BY <2>1, <2>2, <2>3 DEF PInv, InBucket, Covered, Offered
  <2>7. Queued' /\ Fresh' /\ EnqueuedOnce'
    BY <2>1, <2>2, <2>3 DEF PInv, Queued, Fresh, EnqueuedOnce
  <2>8. Expirations'
    <3>1. \A c : IsSlot(c, expiration[c])' <=> IsSlot(c, expiration[c])
      BY <2>1 DEF IsSlot
    <3>2. QED
      BY <2>1, <2>2, <2>3, <3>1 DEF PInv, Expirations
  <2>9. QED
    BY <2>4, <2>5, <2>6, <2>7, <2>8 DEF PInv
<1>3. QED
  BY <1>1, <1>2

(* The invariant holds initially.                                          *)
LEMMA InitPInv == Init => PInv
<1> SUFFICES ASSUME Init PROVE PInv
  OBVIOUS
<1> USE WheelAssumption DEF WheelAssumption
<1>1. /\ wheels = 1 /\ wpc = "receive" /\ wb = Nil /\ taken = Nil
      /\ \A q \in Procs : pc[q] = "idle" /\ lvl[q] = 1
      /\ \A b \in Buckets : timers[b] = {} /\ expiration[b] = -1
      /\ tick[1] = Tick /\ currentTime[1] = Truncate(Start, Tick)
      /\ queue = EmptyBag
  BY DEF Init
<1>2. Entries = {} /\ BagToSet(queue) = {}
  BY <1>1 DEF Entries, EmptyBag, SetToBag, BagToSet
<1>3. Exclusive
  BY <1>1 DEF Exclusive, Adding, Procs
<1>4. Multiple(currentTime[1], tick[1]) /\ Multiple(tick[1], tick[1])
  <2>1. Multiple(currentTime[1], tick[1])
    BY <1>1, TruncateIs
  <2>2. tick[1] = 1 * tick[1]
    BY <1>1
  <2>3. QED
    BY <2>1, <2>2 DEF Multiple
<1>5. \A l \in 1 .. wheels : l = 1
  BY <1>1
<1>6. Scale /\ Clocks
  BY <1>1, <1>4, <1>5 DEF Scale, Clocks
<1>7. Walking /\ Flushing
  BY <1>1 DEF Walking, Walks, Placed, Flushing, Procs
<1>8. InBucket /\ Expirations /\ Covered
  BY <1>1 DEF InBucket, Expirations, Covered
<1>9. Offered /\ Queued /\ Fresh
  BY <1>1, <1>2 DEF Offered, Queued, Fresh, Offering
<1>10. EnqueuedOnce
  BY <1>1, <1>2 DEF EnqueuedOnce
<1>11. QED
  BY <1>3, <1>6, <1>7, <1>8, <1>9, <1>10 DEF PInv

LEMMA InvariancePrompt == PromptSpec => [](IInv /\ PInv)
<1>1. IInv /\ PInv /\ [Next /\ Prompt]_vars => (IInv /\ PInv)'
  <2>1. [Next /\ Prompt]_vars => [Next]_vars
    OBVIOUS
  <2>2. QED
    BY <2>1, StepIInv, StepPInv
<1>2. Init => IInv /\ PInv
  BY InitIInv, InitPInv
<1>3. QED
  BY <1>1, <1>2, PTL DEF PromptSpec

(* Under prompt calls of AfterFunc no timer is forgotten: its bucket is in *)
(* the delay queue, not later than the timer, or in somebody's hands.      *)
THEOREM TimersAreNotForgotten == PromptSpec => []NotForgotten
<1>1. IInv /\ PInv => NotForgotten
  <2> SUFFICES ASSUME IInv, PInv, NEW b \in Buckets, NEW t \in Timers, t \in timers[b]
               PROVE  \/ \E e \in Entries : e[1] = b /\ e[2] <= texp[t]
                      \/ \E p \in Procs : pc[p] \in Placed /\ BucketOf(p) = b
                      \/ wb = b /\ wpc # "reset"
    BY DEF NotForgotten, Entries, Placed
  <2>1. /\ Slot(t, b[1]) \in Nat /\ Slot(t, b[1]) <= texp[t] /\ texp[t] \in Nat
    BY ListedIs DEF PInv
  <2>2. \/ \E e \in Entries : e[1] = b /\ e[2] <= Slot(t, b[1])
        \/ \E p \in Procs : pc[p] \in Placed /\ BucketOf(p) = b
        \/ wb = b
    BY DEF PInv, Covered
  <2>3. \A e \in Entries : e[2] \in Nat
    BY QueuedIs DEF PInv
  <2>4. wb = b => wpc # "reset"
    BY DEF PInv, Flushing
  <2>5. QED
    BY <2>1, <2>2, <2>3, <2>4
<1>2. QED
  BY <1>1, InvariancePrompt, PTL

(* W, which holds the mutex of the bucket it flushes, never inserts a      *)
(* timer into that bucket, where it would wait for itself.                 *)
THEOREM FlushDoesNotDeadlock == PromptSpec => []NoSelfDeadlock
<1>1. IInv /\ PInv => NoSelfDeadlock
  BY FlushedIs DEF NoSelfDeadlock
<1>2. QED
  BY <1>1, InvariancePrompt, PTL

(* A bucket is in the delay queue at most once with the same expiration.   *)
THEOREM BucketsAreEnqueuedOnce == PromptSpec => []EnqueuedOnce
<1>1. IInv /\ PInv => EnqueuedOnce
  BY DEF PInv
<1>2. QED
  BY <1>1, InvariancePrompt, PTL

-----------------------------------------------------------------------------
(* While W keeps up with the clock.                                        *)

(* The lowest wheel is not ahead of the clock, and no timer that waits is  *)
(* behind it.                                                              *)
OnTime ==
  /\ currentTime[1] <= now
  /\ \A p \in Procs : Busy(p) => now <= texp[TimerOf(p)]
  /\ \A b \in Buckets : \A t \in timers[b] : now <= texp[t]

(* A queued bucket has the expiration it is queued with, which is not past *)
(* by its tick, and W is not working on it.                                *)
Due ==
  \A e \in Entries : /\ now < e[2] + tick[e[1][1]]
                     /\ expiration[e[1]] = e[2]
                     /\ e[1] # wb

(* What W receives has expired, and so has what it advances the clocks to. *)
Handed ==
  /\ taken # Nil => taken[2] <= now
  /\ wpc = "load" => expiration[wb] <= now
  /\ wpc = "advance" => loc[W] <= now

KeptInv == kept \in BOOLEAN /\ (kept => OnTime /\ Due /\ Handed)

(* A step that does not move the clock of time, nor touches the buckets.   *)
LEMMA KeptClocks ==
  ASSUME IInv, IInv', PInv, OnTime, Due, Handed, Next, Prompt, KeepsUp
  PROVE  currentTime'[1] <= now' /\ Handed'
<1> USE DEF PInv
<1>1. /\ 1 \in 1 .. wheels /\ currentTime[1] \in Nat /\ now \in Nat /\ now' \in Nat
      /\ W \in Procs /\ loc \in [Procs -> Int] /\ currentTime[1] <= now
  <2>1. 1 \in 1 .. wheels
    BY WheelAssumption DEF WheelAssumption, IInv, TypeOK
  <2>2. QED
    BY <2>1, WheelIs DEF IInv, TypeOK, OnTime, Procs
<1>2. CASE Aside
  <2>1. /\ UNCHANGED <<currentTime, expiration, taken, wpc, wb, loc>>
        /\ now' >= now
        /\ now' # now => wpc \in {"receive", "stopped"} /\ taken = Nil
    <3>1. UNCHANGED <<currentTime, expiration, taken, wpc, wb, loc>>
      BY <1>2, AsideIs
    <3>2. now' >= now
      BY <1>1, <1>2 DEF Aside, TickClock, CloseExit, StopTimer, StopStep, GetBucket,
         RemoveTimer, clockVars
    <3>3. QED
      BY <3>1, <3>2 DEF KeepsUp
  <2>2. CASE now' = now
    BY <1>1, <2>1, <2>2 DEF Handed
  <2>3. CASE now' # now
    BY <1>1, <2>1, <2>3 DEF Handed
  <2>4. QED
    BY <2>2, <2>3
<1>3. ASSUME ~Aside PROVE now' = now
  BY <1>3, NextCases DEF AfterFunc, AddStep, CheckExpired, CheckInterval, LoadOverflow,
     CreateOverflow, Insert, SetExpiration, ReadExpiration, Offer, Take, Receive,
     LoadExpiration, AdvanceClock, Lock, FlushNext, Unlock, ResetExpiration, WheelExit,
     clockVars
<1>4. ASSUME NEW t \in Timers, NEW d \in Delays, AfterFunc(t, d), ~Aside
      PROVE  currentTime'[1] <= now' /\ Handed'
  BY <1>1, <1>3, <1>4, AfterFuncIs DEF Handed
<1>5. ASSUME NEW p \in Procs, AddStep(p), ~Aside
      PROVE  currentTime'[1] <= now' /\ Handed'
  <2>1. Busy(p) /\ UNCHANGED <<taken, wpc>>
    BY <1>5 DEF AddStep, CheckExpired, CheckInterval, LoadOverflow, CreateOverflow,
       Insert, SetExpiration, ReadExpiration, Offer, wVars, queueVars, Busy
  <2>2. wpc \notin {"load", "advance"}
    BY <2>1, BusyIs
  <2>3. Handed'
    BY <1>3, <1>5, <2>1, <2>2 DEF Handed
  <2>4. currentTime'[1] = currentTime[1]
    <3>1. CASE CreateOverflow(p)
      BY <1>1, <3>1, CreateClocks
    <3>2. CASE ~CreateOverflow(p)
      BY <1>5, <3>2 DEF AddStep, CheckExpired, CheckInterval, LoadOverflow, Insert,
         SetExpiration, ReadExpiration, Offer, wheelVars
    <3>3. QED
      BY <3>1, <3>2
  <2>5. QED
    BY <1>1, <1>3, <1>5, <2>3, <2>4
<1>6. CASE Take /\ ~Aside
  <2>1. taken[2]' <= now /\ UNCHANGED <<currentTime, expiration, wpc, wb, loc>>
    BY <1>6, TakeIs DEF Take, wheelVars, wVars
  <2>2. QED
    BY <1>1, <1>3, <1>6, <2>1 DEF Handed
<1>7. CASE Receive /\ ~Aside
  <2>1. /\ taken # Nil /\ wb' = taken[1] /\ taken' = Nil /\ wpc' = "load"
        /\ UNCHANGED <<currentTime, expiration>>
    BY <1>7 DEF Receive, wheelVars
  <2>2. expiration[taken[1]] = taken[2] /\ taken[2] <= now
    BY <2>1 DEF Due, Handed, Entries
  <2>3. QED
    BY <1>1, <1>3, <1>7, <2>1, <2>2 DEF Handed
<1>8. CASE LoadExpiration /\ ~Aside
  <2>1. /\ wpc = "load" /\ wpc' = "advance" /\ UNCHANGED <<currentTime, taken>>
        /\ loc' = [loc EXCEPT ![W] = expiration[wb]]
    BY <1>8 DEF LoadExpiration, wheelVars, queueVars
  <2>2. loc'[W] = expiration[wb]
    BY <1>1, <2>1
  <2>3. QED
    BY <1>1, <1>3, <1>8, <2>1, <2>2 DEF Handed
<1>9. CASE AdvanceClock /\ ~Aside
  <2> DEFINE l == lvl[W]
             time == Truncate(loc[W], tick[l])
  <2>1. wpc = "advance" /\ taken' = taken /\ wpc' \in {"advance", "lock"}
    BY <1>9 DEF AdvanceClock, queueVars
  <2>2. loc[W] <= now
    BY <2>1 DEF Handed
  <2>3. /\ l \in 1 .. wheels /\ l \in 1 .. Levels
        /\ tick[l] \in Nat \ {0} /\ currentTime[l] \in Nat
    <3>1. l \in 1 .. wheels
      BY <1>1 DEF IInv, TypeOK, Chain
    <3>2. QED
      BY <3>1, WheelIs
  <2>4. CASE loc[W] >= currentTime[l] + tick[l]
    <3>1. loc[W] \in Nat
      BY <1>1, <2>3, <2>4
    <3>2. time \in Nat /\ time <= loc[W]
      BY <2>3, <3>1, TruncateIs
    <3>3. /\ currentTime' = [currentTime EXCEPT ![l] = time]
          /\ loc' = [loc EXCEPT ![W] = time]
      BY <1>9, <2>4 DEF AdvanceClock
    <3> HIDE DEF time
    <3>4. loc'[W] = time /\ currentTime'[1] \in {time, currentTime[1]}
      BY <1>1, <2>3, <3>3 DEF IInv, TypeOK
    <3>5. loc'[W] <= now /\ currentTime'[1] <= now
      BY <1>1, <2>2, <3>2, <3>4
    <3>6. QED
      BY <1>3, <1>9, <2>1, <3>5 DEF Handed
  <2>5. CASE ~(loc[W] >= currentTime[l] + tick[l])
    <3>1. wpc' = "lock" /\ UNCHANGED <<currentTime, loc>>
      BY <1>9, <2>5 DEF AdvanceClock
    <3>2. QED
      BY <1>1, <1>3, <1>9, <2>1, <3>1 DEF Handed
  <2>6. QED
    BY <2>4, <2>5
<1>10. CASE (Lock \/ FlushNext \/ Unlock \/ ResetExpiration \/ WheelExit) /\ ~Aside
  <2>1. /\ UNCHANGED <<currentTime, taken>> /\ wpc' \notin {"load", "advance"}
    BY <1>10 DEF Lock, FlushNext, Unlock, ResetExpiration, WheelExit, wheelVars, queueVars,
       wVars
  <2>2. QED
    BY <1>1, <1>3, <1>10, <2>1 DEF Handed
<1>11. QED
  BY <1>2, <1>4, <1>5, <1>6, <1>7, <1>8, <1>9, <1>10, NextCases

(* Time moves only when nobody adds a timer and W has nothing to do.       *)
LEMMA TimeIs ==
  ASSUME IInv, PInv, Next, Prompt, KeepsUp
  PROVE  \/ now' = now
         \/ /\ now' = now + 1 /\ TickClock /\ taken = Nil /\ wb = Nil
            /\ \A e \in Entries : now' <= e[2]
            /\ \A p \in Procs : ~Busy(p)
<1> SUFFICES ASSUME now' # now
             PROVE  /\ now' = now + 1 /\ TickClock /\ taken = Nil /\ wb = Nil
                    /\ \A e \in Entries : now' <= e[2]
                    /\ \A p \in Procs : ~Busy(p)
  OBVIOUS
<1>1. TickClock /\ now' = now + 1
  BY NextCases DEF Aside, TickClock, CloseExit, StopTimer, StopStep, GetBucket,
     RemoveTimer, AfterFunc, AddStep, CheckExpired, CheckInterval, LoadOverflow,
     CreateOverflow, Insert, SetExpiration, ReadExpiration, Offer, Take, Receive,
     LoadExpiration, AdvanceClock, Lock, FlushNext, Unlock, ResetExpiration, WheelExit,
     clockVars
<1>2. /\ wpc \in {"receive", "stopped"} /\ taken = Nil /\ ~Adding
      /\ \A e \in BagToSet(queue) : e[2] > now
  BY DEF KeepsUp, Prompt
<1>3. wb = Nil
  BY <1>2 DEF PInv, Exclusive
<1>4. \A e \in Entries : now' <= e[2]
  <2>1. \A e \in Entries : e[2] \in Nat /\ e[2] > now
    BY <1>2, QueuedIs DEF PInv, Entries
  <2>2. now \in Nat
    BY DEF IInv, TypeOK
  <2>3. QED
    BY <1>1, <2>1, <2>2
<1>5. \A p \in Procs : ~Busy(p)
  <2>1. \A t \in Timers : ~Busy(t)
    BY <1>2 DEF Adding, Busy
  <2>2. ~Busy(W)
    BY <1>2 DEF IInv, Control, Busy
  <2>3. QED
    BY <2>1, <2>2 DEF Procs
<1>6. QED
  BY <1>1, <1>2, <1>3, <1>4, <1>5

(* What a step that adds no timer leaves of those in hands and in buckets. *)
Carries ==
  /\ \A p \in Procs : Busy(p)' => /\ Busy(p) /\ TimerOf(p)' = TimerOf(p)
                                  /\ texp'[TimerOf(p)] = texp[TimerOf(p)]
  /\ \A b \in Buckets : timers'[b] \subseteq timers[b]
  /\ \A b \in Buckets : \A t \in timers[b] : texp'[t] = texp[t]

(* While W keeps up, no timer that waits is behind the clock.              *)
LEMMA KeptTimers ==
  ASSUME IInv, IInv', PInv, OnTime, Next, Prompt, KeepsUp
  PROVE  /\ \A p \in Procs : Busy(p)' => now' <= texp'[TimerOf(p)']
         /\ \A b \in Buckets : \A t \in timers'[b] : now' <= texp'[t]
<1> DEFINE Goal == /\ \A p \in Procs : Busy(p)' => now' <= texp'[TimerOf(p)']
                   /\ \A b \in Buckets : \A t \in timers'[b] : now' <= texp'[t]
<1>1. /\ now \in Nat /\ W \in Procs
      /\ \A p \in Procs : Busy(p) => now <= texp[TimerOf(p)]
      /\ \A b \in Buckets : \A t \in timers[b] : now <= texp[t]
  BY DEF IInv, TypeOK, Procs, OnTime
<1>2. ASSUME now' = now, Carries PROVE Goal
  BY <1>1, <1>2 DEF Carries
<1>3. CASE now' # now
  <2>1. /\ now' = now + 1 /\ TickClock /\ wb = Nil
        /\ \A e \in Entries : now' <= e[2]
        /\ \A p \in Procs : ~Busy(p)
    BY <1>3, TimeIs
  <2>2. UNCHANGED <<pc, timers, texp>>
    BY <2>1 DEF TickClock
  <2>3. \A p \in Procs : ~Busy(p)'
    BY <2>1, <2>2 DEF Busy
  <2>4. ASSUME NEW b \in Buckets, NEW t \in timers[b] PROVE now' <= texp[t]
    <3>1. Slot(t, b[1]) \in Nat /\ texp[t] \in Nat /\ Slot(t, b[1]) <= texp[t]
      BY ListedIs DEF PInv
    <3>2. wb # b
      BY <2>1, WheelAssumption DEF WheelAssumption
    <3>3. \A p \in Procs : pc[p] \notin Placed
      BY <2>1 DEF Busy, Placed
    <3>4. PICK e \in Entries : e[1] = b /\ e[2] <= Slot(t, b[1])
      BY <3>2, <3>3 DEF PInv, Covered
    <3>5. now' <= e[2] /\ e[2] \in Nat /\ now' \in Nat
      BY <1>1, <2>1, QueuedIs DEF PInv
    <3>6. QED
      BY <3>1, <3>4, <3>5
  <2>5. QED
    BY <2>2, <2>3, <2>4
<1>4. ASSUME now' = now, Aside PROVE Goal
  <2>1. Carries
    BY <1>4, AsideIs DEF Carries, Busy, TimerOf
  <2>2. QED
    BY <1>2, <1>4, <2>1
<1>5. ASSUME now' = now, NEW t \in Timers, NEW d \in Delays, AfterFunc(t, d)
      PROVE  Goal
  <2>1. /\ t \in Procs /\ texp'[t] = now + d /\ pc'[t] = "expired?"
        /\ \A u \in Timers \ {t} : texp'[u] = texp[u]
        /\ \A q \in Procs \ {t} : pc'[q] = pc[q]
        /\ \A q \in Procs : q # t /\ Busy(q) => TimerOf(q) # t
        /\ \A b \in Buckets : t \notin timers[b]
        /\ UNCHANGED <<timers, wt>>
    BY <1>5, AfterFuncIs
  <2>2. d \in Nat
    BY WheelAssumption DEF WheelAssumption
  <2>3. t # W
    BY WheelAssumption DEF WheelAssumption
  <2>4. ASSUME NEW p \in Procs, Busy(p)' PROVE now' <= texp'[TimerOf(p)']
    <3>1. CASE p = t
      <4>1. TimerOf(p)' = t
        BY <2>3, <3>1 DEF TimerOf
      <4>2. QED
        BY <1>1, <1>5, <2>1, <2>2, <4>1
    <3>2. CASE p # t
      <4>1. Busy(p) /\ TimerOf(p)' = TimerOf(p)
        BY <2>1, <2>4, <3>2 DEF Busy, TimerOf
      <4>2. TimerOf(p) \in Timers /\ TimerOf(p) # t
        BY <2>1, <3>2, <4>1, WalkerIs
      <4>3. QED
        BY <1>1, <1>5, <2>1, <4>1, <4>2
    <3>3. QED
      BY <3>1, <3>2
  <2>5. ASSUME NEW b \in Buckets, NEW u \in timers'[b] PROVE now' <= texp'[u]
    <3>1. u \in timers[b] /\ u \in Timers /\ u # t
      BY <2>1 DEF IInv, TypeOK
    <3>2. QED
      BY <1>1, <1>5, <2>1, <3>1
  <2>6. QED
    BY <2>4, <2>5
<1>6. ASSUME now' = now, NEW p \in Procs, AddStep(p) PROVE Goal
  <2>1. /\ Busy(p) /\ UNCHANGED <<texp, wt>>
        /\ \A q \in Procs : q # p => pc'[q] = pc[q]
    BY <1>6 DEF AddStep, CheckExpired, CheckInterval, LoadOverflow, CreateOverflow,
       Insert, SetExpiration, ReadExpiration, Offer, Returned, wVars, Busy, IInv, TypeOK
  <2>2. \A q : TimerOf(q)' = TimerOf(q)
    BY <2>1 DEF TimerOf
  <2>3. \A q \in Procs : Busy(q)' => Busy(q)
    BY <2>1 DEF Busy
  <2>4. ASSUME NEW b \in Buckets, NEW u \in timers'[b]
        PROVE  u \in timers[b] \/ u = TimerOf(p)
    <3>1. CASE Insert(p)
      <4>1. timers' = [timers EXCEPT ![BucketOf(p)] = @ \cup {TimerOf(p)}]
        BY <3>1 DEF Insert
      <4>2. QED
        BY <2>4, <4>1 DEF IInv, TypeOK
    <3>2. CASE ~Insert(p)
      BY <1>6, <2>4, <3>2 DEF AddStep, CheckExpired, CheckInterval, LoadOverflow,
         CreateOverflow, SetExpiration, ReadExpiration, Offer
    <3>3. QED
      BY <3>1, <3>2
  <2>5. QED
    BY <1>1, <1>6, <2>1, <2>2, <2>3, <2>4
<1>7. ASSUME now' = now, Take \/ Receive \/ LoadExpiration \/ AdvanceClock \/ Lock
                         \/ Unlock \/ ResetExpiration \/ WheelExit
      PROVE  Goal
  <2>1. UNCHANGED <<timers, texp, pc>>
    BY <1>7 DEF Take, Receive, LoadExpiration, AdvanceClock, Lock, Unlock,
       ResetExpiration, WheelExit
  <2>2. \A q \in Procs : Busy(q)' => Busy(q) /\ TimerOf(q)' = TimerOf(q)
    <3>1. \A q \in Timers : TimerOf(q)' = TimerOf(q)
      BY WheelAssumption DEF WheelAssumption, TimerOf
    <3>2. Busy(W) => wt' = wt
      BY <1>7 DEF Take, Receive, LoadExpiration, AdvanceClock, Lock, Unlock,
         ResetExpiration, WheelExit, wVars, IInv, Control, Busy
    <3>3. QED
      BY <2>1, <3>1, <3>2 DEF Busy, TimerOf, Procs
  <2>3. Carries
    BY <2>1, <2>2 DEF Carries
  <2>4. QED
    BY <1>2, <1>7, <2>3
<1>8. ASSUME now' = now, FlushNext PROVE Goal
  <2>1. PICK t \in timers[wb] : Remove(t, wb) /\ wt' = t
    BY <1>8 DEF FlushNext
  <2>2. /\ wb \in Buckets /\ pc' = [pc EXCEPT ![W] = "expired?"] /\ texp' = texp
    BY <1>8 DEF FlushNext, IInv, Control
  <2>3. \A b \in Buckets : timers'[b] \subseteq timers[b]
    <3>1. timers' = timers \/ timers' = [timers EXCEPT ![wb] = @ \ {t}]
      BY <2>1 DEF Remove
    <3>2. QED
      BY <3>1 DEF IInv, TypeOK
  <2>4. ASSUME NEW p \in Procs, Busy(p)' PROVE now' <= texp'[TimerOf(p)']
    <3>1. CASE p = W
      <4>1. TimerOf(p)' = t /\ now <= texp[t]
        BY <1>1, <2>1, <2>2, <3>1 DEF TimerOf
      <4>2. QED
        BY <1>8, <2>2, <4>1
    <3>2. CASE p # W
      <4>1. Busy(p) /\ TimerOf(p)' = TimerOf(p)
        BY <2>2, <2>4, <3>2 DEF Busy, TimerOf, IInv, TypeOK
      <4>2. QED
        BY <1>1, <1>8, <2>2, <4>1
    <3>3. QED
      BY <3>1, <3>2
  <2>5. QED
    BY <1>1, <1>8, <2>2, <2>3, <2>4
<1>9. QED
  BY <1>3, <1>4, <1>5, <1>6, <1>7, <1>8, NextCases

(* While W keeps up, what is queued for a bucket is the bucket's own       *)
(* expiration: to set another one the wheel would have to have passed it.  *)
LEMMA KeptExpiration ==
  ASSUME IInv, PInv, OnTime, Due, NEW p \in Procs, pc[p] = "setExpiration",
         NEW e \in Entries, e[1] = BucketOf(p)
  PROVE  e[2] = SlotOf(p)
<1> DEFINE l == lvl[p]
<1>1. Busy(p) /\ pc[p] \in Placed
  BY DEF Busy, Placed
<1>2. l \in 1 .. wheels /\ BucketOf(p)[1] = l /\ 1 \in 1 .. wheels /\ (l = 1 \/ 1 < l)
  <2>1. l \in 1 .. wheels /\ BucketOf(p)[1] = l
    BY <1>1, WalkerIs
  <2>2. wheels \in Nat
    BY WheelAssumption DEF WheelAssumption, IInv, TypeOK
  <2>3. QED
    BY <2>1, <2>2
<1>3. tick[l] \in Nat \ {0} /\ currentTime[l] \in Nat /\ currentTime[1] \in Nat
  BY <1>2, WheelIs
<1>4. e[2] \in Nat /\ IsSlot(BucketOf(p), e[2]) /\ e[2] < End(l)
  BY <1>2, QueuedIs DEF PInv
<1>5. now < e[2] + tick[l] /\ now \in Nat
  BY <1>2 DEF Due, IInv, TypeOK
<1>6. currentTime[l] <= currentTime[1]
  <2>1. wpc # "advance"
    BY <1>1, BusyIs DEF PInv
  <2>2. QED
    BY <1>2, <1>3, <2>1 DEF PInv, Clocks, Nested
<1>7. currentTime[l] < e[2] + tick[l]
  BY <1>3, <1>4, <1>5, <1>6 DEF OnTime
<1>8. Multiple(currentTime[l], tick[l]) /\ Multiple(e[2], tick[l])
  BY <1>2, <1>4 DEF PInv, Scale, Multiple, IsSlot
<1>9. currentTime[l] <= e[2]
  BY <1>3, <1>4, <1>7, <1>8, MultipleStep
<1>10. QED
  BY <1>1, <1>4, <1>9, PlacedAgree DEF PInv

LEMMA KeptQueue ==
  ASSUME IInv, IInv', PInv, OnTime, Due, Next, Prompt, KeepsUp
  PROVE  Due'
<1>1. \A e \in Entries : /\ e[1] \in Buckets /\ e[2] \in Nat /\ e[1][1] \in 1 .. wheels
                         /\ tick[e[1][1]] \in Nat \ {0}
                         /\ now < e[2] + tick[e[1][1]]
                         /\ expiration[e[1]] = e[2] /\ e[1] # wb
  BY QueuedIs, WheelIs DEF PInv, Due
<1>2. ASSUME now' = now, Entries' = Entries, UNCHANGED <<expiration, wb>>,
             \A l \in 1 .. wheels : tick'[l] = tick[l]
      PROVE  Due'
  BY <1>1, <1>2 DEF Due
<1>3. CASE now' # now
  <2>1. /\ now' = now + 1 /\ TickClock /\ \A e \in Entries : now' <= e[2]
    BY <1>3, TimeIs
  <2>2. Entries' = Entries /\ UNCHANGED <<expiration, wb, tick>>
    BY <2>1 DEF TickClock, queueVars, wheelVars, wVars, Entries
  <2>3. now' \in Nat
    BY DEF IInv, TypeOK
  <2>4. ASSUME NEW e \in Entries
        PROVE  now' < e[2] + tick[e[1][1]]
    BY <1>1, <2>1, <2>3
  <2>5. QED
    BY <1>1, <2>2, <2>4 DEF Due
<1>4. ASSUME now' = now, Aside PROVE Due'
  BY <1>2, <1>4, AsideIs DEF Entries
<1>5. ASSUME now' = now, NEW t \in Timers, NEW d \in Delays, AfterFunc(t, d)
      PROVE  Due'
  BY <1>2, <1>5 DEF AfterFunc, Entries, queueVars, wheelVars, wVars
<1>6. ASSUME now' = now, NEW p \in Procs,
             CheckExpired(p) \/ CheckInterval(p) \/ LoadOverflow(p) \/ CreateOverflow(p)
             \/ Insert(p) \/ ReadExpiration(p)
      PROVE  Due'
  <2>1. Entries' = Entries /\ UNCHANGED <<expiration, wb>>
    BY <1>6 DEF CheckExpired, CheckInterval, LoadOverflow, CreateOverflow, Insert,
       ReadExpiration, queueVars, wVars, Entries
  <2>2. \A l \in 1 .. wheels : tick'[l] = tick[l]
    <3>1. CASE CreateOverflow(p)
      BY <3>1, CreateClocks
    <3>2. CASE ~CreateOverflow(p)
      BY <1>6, <3>2 DEF CheckExpired, CheckInterval, LoadOverflow, Insert,
         ReadExpiration, wheelVars
    <3>3. QED
      BY <3>1, <3>2
  <2>3. QED
    BY <1>2, <1>6, <2>1, <2>2
<1>7. ASSUME now' = now, NEW p \in Procs, SetExpiration(p)
      PROVE  Due'
  <2>1. /\ pc[p] = "setExpiration"
        /\ expiration' = [expiration EXCEPT ![BucketOf(p)] = SlotOf(p)]
        /\ Entries' = Entries /\ UNCHANGED <<tick, wb>>
    BY <1>7 DEF SetExpiration, queueVars, wheelVars, wVars, Entries
  <2>2. ASSUME NEW e \in Entries PROVE expiration'[e[1]] = e[2]
    <3>1. CASE e[1] = BucketOf(p)
      <4>1. e[2] = SlotOf(p)
        BY <2>1, <3>1, KeptExpiration
      <4>2. QED
        BY <1>1, <2>1, <3>1, <4>1 DEF IInv, TypeOK
    <3>2. CASE e[1] # BucketOf(p)
      BY <1>1, <2>1, <3>2 DEF IInv, TypeOK
    <3>3. QED
      BY <3>1, <3>2
  <2>3. QED
    BY <1>1, <1>7, <2>1, <2>2 DEF Due
<1>8. ASSUME now' = now, NEW p \in Procs, Offer(p)
      PROVE  Due'
  <2> DEFINE f == <<BucketOf(p), SlotOf(p)>>
  <2>1. /\ pc[p] = "offer" /\ Busy(p)
        /\ queue' = queue (+) SetToBag({<<BucketOf(p), loc[p]>>})
        /\ UNCHANGED <<taken, expiration, wb, tick>>
    BY <1>8 DEF Offer, Busy, wheelVars, wVars
  <2>2. loc[p] = SlotOf(p) /\ expiration[BucketOf(p)] = SlotOf(p)
    BY <2>1 DEF PInv, Offered, Offering
  <2>3. Entries' = Entries \cup {f}
    <3>1. BagToSet(queue') = BagToSet(queue) \cup {f}
      BY <2>1, <2>2, BagOffer DEF IInv, TypeOK
    <3>2. QED
      BY <2>1, <3>1 DEF Entries
  <2>4. now < SlotOf(p) + tick[lvl[p]]
    <3>1. /\ TimerOf(p) \in Timers /\ texp[TimerOf(p)] \in Nat /\ lvl[p] \in 1 .. wheels
          /\ SlotOf(p) \in Nat /\ texp[TimerOf(p)] < SlotOf(p) + tick[lvl[p]]
      BY <2>1, WalkerIs
    <3>2. tick[lvl[p]] \in Nat /\ now \in Nat
      BY <3>1, WheelIs DEF IInv, TypeOK
    <3>3. now <= texp[TimerOf(p)]
      BY <2>1 DEF OnTime
    <3>4. QED
      BY <3>1, <3>2, <3>3
  <2>5. BucketOf(p) # wb
    <3>1. CASE p = W
      BY <2>1, <3>1, FlushedIs DEF Placed
    <3>2. CASE p # W
      <4>1. wb = Nil /\ BucketOf(p) \in Buckets
        BY <2>1, <3>2, BusyIs, WalkerIs DEF PInv
      <4>2. QED
        BY <4>1, WheelAssumption DEF WheelAssumption
    <3>3. QED
      BY <3>1, <3>2
  <2>6. f[1] = BucketOf(p) /\ f[2] = SlotOf(p) /\ f[1][1] = lvl[p]
    BY <2>1, WalkerIs
  <2> HIDE DEF f
  <2>7. QED
    BY <1>1, <1>8, <2>1, <2>2, <2>3, <2>4, <2>5, <2>6 DEF Due
<1>9. ASSUME now' = now, Take PROVE Due'
  <2>1. Entries' = Entries /\ UNCHANGED <<expiration, wb, tick>>
    BY <1>9, TakeIs DEF Take, wheelVars, wVars, PInv
  <2>2. QED
    BY <1>2, <1>9, <2>1
<1>10. ASSUME now' = now, Receive PROVE Due'
  <2>1. /\ taken # Nil /\ wb' = taken[1] /\ taken' = Nil
        /\ UNCHANGED <<expiration, queue, tick>>
    BY <1>10 DEF Receive, wheelVars
  <2>2. Entries' = BagToSet(queue) /\ taken \in Entries /\ taken \notin BagToSet(queue)
    <3>1. ~BagIn(taken, queue)
      BY <2>1 DEF PInv, EnqueuedOnce
    <3>2. QED
      BY <2>1, <3>1 DEF Entries, BagIn, BagToSet
  <2>3. ASSUME NEW e \in BagToSet(queue) PROVE e[1] # taken[1]
    <3>1. e \in Entries
      BY DEF Entries
    <3>2. e = <<e[1], e[2]>> /\ taken = <<taken[1], taken[2]>>
      BY <2>2, <3>1, QueuedIs DEF PInv
    <3>3. ASSUME e[1] = taken[1] PROVE FALSE
      <4>1. e[2] = taken[2]
        BY <1>1, <2>2, <3>1, <3>3
      <4>2. QED
        BY <2>2, <3>2, <3>3, <4>1
    <3>4. QED
      BY <3>3
  <2>4. BagToSet(queue) \subseteq Entries
    BY DEF Entries
  <2>5. QED
    BY <1>1, <1>10, <2>1, <2>2, <2>3, <2>4 DEF Due
<1>11. ASSUME now' = now, ResetExpiration PROVE Due'
  <2>1. /\ expiration' = [expiration EXCEPT ![wb] = -1] /\ wb' = Nil
        /\ Entries' = Entries /\ tick' = tick
    BY <1>11 DEF ResetExpiration, queueVars, wheelVars, Entries
  <2>2. \A c \in Buckets : c # wb => expiration'[c] = expiration[c] /\ c # Nil
    <3>1. expiration \in [Buckets -> Int]
      BY DEF IInv, TypeOK
    <3>2. \A c \in Buckets : c # Nil
      BY WheelAssumption DEF WheelAssumption
    <3>3. QED
      BY <2>1, <3>1, <3>2
  <2>3. QED
    BY <1>1, <1>11, <2>1, <2>2 DEF Due
<1>12. ASSUME now' = now, LoadExpiration \/ AdvanceClock \/ Lock \/ FlushNext \/ Unlock
                          \/ WheelExit
       PROVE  Due'
  <2>1. Entries' = Entries /\ UNCHANGED <<expiration, wb, tick>>
    BY <1>12 DEF LoadExpiration, AdvanceClock, Lock, FlushNext, Unlock, WheelExit,
       queueVars, wheelVars, wVars, Entries
  <2>2. QED
    BY <1>2, <1>12, <2>1
<1>13. QED
  BY <1>3, <1>4, <1>5, <1>6, <1>7, <1>8, <1>9, <1>10, <1>11, <1>12, NextCases DEF AddStep

(* What holds while W keeps up, as long as it has kept up.                 *)
LEMMA StepKept ==
  ASSUME IInv, IInv', PInv, KeptInv,
         [Next /\ Prompt /\ kept' = (kept /\ KeepsUp)]_<<vars, kept>>
  PROVE  KeptInv'
<1>1. CASE Next /\ Prompt /\ kept' = (kept /\ KeepsUp)
  <2>1. kept' \in BOOLEAN
    BY <1>1
  <2>2. ASSUME kept' PROVE OnTime' /\ Due' /\ Handed'
    <3>1. kept /\ KeepsUp
      BY <1>1, <2>2
    <3>2. OnTime /\ Due /\ Handed
      BY <3>1 DEF KeptInv
    <3>3. OnTime'
      BY <1>1, <3>1, <3>2, KeptClocks, KeptTimers DEF OnTime
    <3>4. Due' /\ Handed'
      BY <1>1, <3>1, <3>2, KeptClocks, KeptQueue
    <3>5. QED
      BY <3>3, <3>4
  <2>3. QED
    BY <2>1, <2>2 DEF KeptInv
<1>2. CASE UNCHANGED <<vars, kept>>
  <2>1. UNCHANGED <<now, tick, currentTime, timers, expiration, queue, taken, texp, pc,
                    loc, wpc, wb, wt, kept>>
    BY <1>2 DEF vars
  <2>2. /\ Entries' = Entries /\ \A q : TimerOf(q)' = TimerOf(q)
        /\ \A q : Busy(q)' <=> Busy(q)
    BY <2>1 DEF Entries, TimerOf, Busy
  <2>3. OnTime' <=> OnTime
    BY <2>1, <2>2 DEF OnTime
  <2>4. (Due' <=> Due) /\ (Handed' <=> Handed)
    BY <2>1, <2>2 DEF Due, Handed
  <2>5. QED
    BY <2>1, <2>3, <2>4 DEF KeptInv
<1>3. QED
  BY <1>1, <1>2

LEMMA InitKept == KeptInit => KeptInv
<1> SUFFICES ASSUME kept = TRUE, Init PROVE KeptInv
  BY DEF KeptInit
<1>1. /\ now = Start /\ currentTime[1] = Truncate(Start, Tick)
      /\ \A q \in Procs : pc[q] = "idle"
      /\ \A b \in Buckets : timers[b] = {}
      /\ wpc = "receive" /\ taken = Nil /\ queue = EmptyBag
  BY WheelAssumption DEF WheelAssumption, Init
<1>2. Truncate(Start, Tick) <= Start
  BY TruncateIs, WheelAssumption DEF WheelAssumption
<1>3. Entries = {}
  BY <1>1 DEF Entries, EmptyBag, SetToBag, BagToSet
<1>4. OnTime
  BY <1>1, <1>2 DEF OnTime, Busy
<1>5. Due /\ Handed
  BY <1>1, <1>3 DEF Due, Handed
<1>6. QED
  BY <1>4, <1>5 DEF KeptInv

LEMMA InvarianceKept == KeptSpec => [](IInv /\ PInv /\ KeptInv)
<1> DEFINE N == Next /\ Prompt /\ kept' = (kept /\ KeepsUp)
<1>1. KeptInit => IInv /\ PInv /\ KeptInv
  BY InitIInv, InitPInv, InitKept DEF KeptInit
<1>2. IInv /\ PInv /\ KeptInv /\ [N]_<<vars, kept>> => (IInv /\ PInv /\ KeptInv)'
  <2> SUFFICES ASSUME IInv, PInv, KeptInv, [N]_<<vars, kept>>
               PROVE  IInv' /\ PInv' /\ KeptInv'
    OBVIOUS
  <2>1. [Next]_vars /\ [Next /\ Prompt]_vars
    OBVIOUS
  <2>2. IInv'
    BY <2>1, StepIInv
  <2>3. PInv'
    BY <2>1, <2>2, StepPInv
  <2>4. KeptInv'
    BY <2>2, StepKept
  <2>5. QED
    BY <2>2, <2>3, <2>4
<1>3. QED
  BY <1>1, <1>2, PTL DEF KeptSpec

(* As long as W has kept up with the clock, no task is started before its  *)
(* delay has elapsed, to the tick.                                         *)
THEOREM PunctualTasksAreNotEarly == KeptSpec => PunctuallyNeverEarly
<1> DEFINE N == Next /\ Prompt /\ kept' = (kept /\ KeepsUp)
           A == \A t \in Timers : kept' /\ runs'[t] # runs[t] => texp[t] < now + Tick
<1>1. IInv /\ PInv /\ KeptInv /\ [N]_<<vars, kept>> => [A]_<<vars, kept>>
  <2> SUFFICES ASSUME IInv, PInv, KeptInv, N, NEW t \in Timers, kept',
                      runs'[t] # runs[t]
               PROVE  texp[t] < now + Tick
    BY DEF vars
  <2>1. PICK p \in Procs : CheckExpired(p)
    BY NextCases DEF Aside, TickClock, CloseExit, StopTimer, StopStep, GetBucket,
       RemoveTimer, AfterFunc, AddStep, CheckInterval, LoadOverflow, CreateOverflow,
       Insert, SetExpiration, ReadExpiration, Offer, Take, Receive, LoadExpiration,
       AdvanceClock, Lock, FlushNext, Unlock, ResetExpiration, WheelExit
  <2>2. /\ pc[p] = "expired?" /\ Busy(p)
        /\ texp[TimerOf(p)] < currentTime[lvl[p]] + tick[lvl[p]]
        /\ runs' = [runs EXCEPT ![TimerOf(p)] = @ + 1]
    BY <2>1 DEF CheckExpired, Busy
  <2>3. /\ lvl[p] \in 1 .. wheels /\ texp[TimerOf(p)] \in Nat
        /\ tick[lvl[p]] \in Nat /\ currentTime[lvl[p]] \in Nat
    BY <2>2, WalkerIs, WheelIs
  <2>4. ~(lvl[p] > 1)
    <3>1. lvl[p] > 1 => currentTime[lvl[p]] + tick[lvl[p]] <= texp[TimerOf(p)]
      BY <2>2 DEF PInv, Walking, Walks
    <3>2. QED
      BY <2>2, <2>3, <3>1
  <2>5. lvl[p] = 1 /\ tick[1] = Tick
    BY <2>3, <2>4 DEF PInv, Scale
  <2>6. t = TimerOf(p)
    BY <2>2 DEF IInv, TypeOK
  <2>7. currentTime[1] <= now
    BY DEF KeptInv, OnTime
  <2>8. now \in Nat
    BY DEF IInv, TypeOK
  <2>9. QED
    BY <2>2, <2>3, <2>5, <2>6, <2>7, <2>8
<1>2. QED
  BY <1>1, InvarianceKept, PTL DEF KeptSpec, PunctuallyNeverEarly
=============================================================================
