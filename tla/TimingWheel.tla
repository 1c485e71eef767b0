----------------------------- MODULE TimingWheel -----------------------------
(***************************************************************************)
(* timingwheel.TimingWheel: the hierarchical timing wheel that both the    *)
(* server and the client use for their heartbeat and reconnect timers.     *)
(*                                                                         *)
(* Three kinds of goroutines share it.  A caller of AfterFunc walks up the *)
(* wheels to a bucket (add).  A caller of Timer.Stop takes the timer out   *)
(* of whatever bucket it is in.  The goroutine that Start launches, W,     *)
(* receives expired buckets, advances the clocks of the wheels and flushes *)
(* the bucket: each of its timers is inserted again from the lowest wheel, *)
(* or run.  Only the bucket lists are under a mutex; currentTime is read   *)
(* without any synchronisation while W writes it, and every such read is a *)
(* step of its own here, as is each atomic access to t.b, b.expiration and *)
(* overflowWheel.  The critical sections of Add and Remove are one step;   *)
(* W holds the mutex of the bucket it flushes over many.                   *)
(*                                                                         *)
(* The queue of buckets is a DelayQueue, here as what it promises (module  *)
(* DelayedSet): a bag of <<bucket, priority>> of which the one that        *)
(* expired first is taken and then handed to W.                            *)
(***************************************************************************)
EXTENDS Integers, FiniteSets, Bags

CONSTANTS
  Timers,   (* the calls of AfterFunc: each makes one *Timer               *)
  Stops,    (* the calls of Timer.Stop                                     *)
  W,        (* the goroutine that receives from queue.C                    *)
  Nil,      (* the nil pointer                                             *)
  Tick,     (* tick of the lowest wheel, in milliseconds                   *)
  Size,     (* wheelSize                                                   *)
  Levels,   (* bound on the overflow wheels; no part of the code           *)
  Delays,   (* durations passed to AfterFunc, in milliseconds              *)
  Start,    (* the time at which the wheel is made                         *)
  Horizon   (* bound on the clock; no part of the code                     *)

Buckets == (1 .. Levels) \X (0 .. Size - 1)

ASSUME WheelAssumption ==
  /\ W \notin Timers
  /\ Nil \notin Timers \cup Buckets \cup (Buckets \X Int)
  /\ Tick \in Nat \ {0} /\ Size \in Nat \ {0, 1} /\ Levels \in Nat \ {0}
  /\ Delays \subseteq Nat
  /\ Start \in Nat /\ Horizon \in Nat

(* No expiration is beyond the highest wheel.                              *)
ASSUME LevelsSuffice == Horizon < Tick * Size ^ Levels

VARIABLES
  now,         (* time.Now() in milliseconds                               *)
  closed,      (* exitC has been closed                                    *)
  tick,        (* tick of each wheel, 0 for one that does not exist yet    *)
  currentTime, (* currentTime of each wheel                                *)
  wheels,      (* how many wheels the chain of overflowWheel has           *)
  timers,      (* bucket.timers                                            *)
  expiration,  (* bucket.expiration                                        *)
  queue,       (* the bag of <<bucket, priority>> in the delay queue       *)
  taken,       (* the pair that Poll is sending on queue.C, or Nil         *)
  texp,        (* Timer.expiration                                         *)
  tb,          (* Timer.b                                                  *)
  runs,        (* how often the timer's task has been started              *)
  pc,          (* where add(t) stands, for the callers of AfterFunc and W  *)
  lvl,         (* the wheel a caller of add, or advanceClock, is at        *)
  loc,         (* its local copy of currentTime or of an expiration        *)
  wpc,         (* where W's loop stands                                    *)
  wb,          (* the bucket W received                                    *)
  wt,          (* the timer W is inserting again                           *)
  spc,         (* where each call of Timer.Stop stands                     *)
  target,      (* the timer it stops                                       *)
  sb,          (* its local b                                              *)
  stopped      (* its result                                               *)

vars == <<now, closed, tick, currentTime, wheels, timers, expiration, queue, taken,
          texp, tb, runs, pc, lvl, loc, wpc, wb, wt, spc, target, sb, stopped>>

clockVars == <<now, closed>>
wheelVars == <<tick, currentTime, wheels>>
queueVars == <<queue, taken>>
wVars     == <<wpc, wb, wt>>
stopVars  == <<spc, target, sb, stopped>>

Procs == Timers \cup {W}

AddStates  == {"idle", "expired?", "inside?", "overflow", "create", "insert",
               "setExpiration", "readExpiration", "offer", "done"}
WStates    == {"receive", "load", "advance", "lock", "flush", "reset", "stopped"}
StopStates == {"idle", "get", "remove", "returned"}

Truncate(x, m) == x - (x % m)

(* The field interval of a wheel.                                          *)
Interval(l) == tick[l] * Size

(* The timer that p inserts, the bucket of the wheel it has reached, and   *)
(* the expiration that this bucket gets (virtualID * tick).                *)
TimerOf(p)  == IF p = W THEN wt ELSE p
BucketOf(p) == <<lvl[p], (texp[TimerOf(p)] \div tick[lvl[p]]) % Size>>
SlotOf(p)   == Truncate(texp[TimerOf(p)], tick[lvl[p]])

(* W holds the mutex of the bucket it is flushing.                         *)
Locked(b) == wpc = "flush" /\ wb = b

(* add has returned to its caller; W goes on with its bucket.              *)
Returned(p) == [pc EXCEPT ![p] = IF p = W THEN "idle" ELSE "done"]

Init ==
  /\ now = Start /\ closed = FALSE
  /\ tick = [l \in 1 .. Levels |-> IF l = 1 THEN Tick ELSE 0]
  /\ currentTime = [l \in 1 .. Levels |-> IF l = 1 THEN Truncate(Start, Tick) ELSE 0]
  /\ wheels = 1
  /\ timers = [b \in Buckets |-> {}]
  /\ expiration = [b \in Buckets |-> -1]
  /\ queue = EmptyBag /\ taken = Nil
  /\ texp = [t \in Timers |-> 0]
  /\ tb = [t \in Timers |-> Nil]
  /\ runs = [t \in Timers |-> 0]
  /\ pc = [p \in Procs |-> "idle"]
  /\ lvl = [p \in Procs |-> 1]
  /\ loc = [p \in Procs |-> 0]
  /\ wpc = "receive" /\ wb = Nil /\ wt = Nil
  /\ spc = [s \in Stops |-> "idle"]
  /\ target = [s \in Stops |-> Nil]
  /\ sb = [s \in Stops |-> Nil]
  /\ stopped = [s \in Stops |-> FALSE]

TickClock ==
  /\ now < Horizon
  /\ now' = now + 1
  /\ UNCHANGED <<closed, wheelVars, timers, expiration, queueVars, texp, tb,
                 runs, pc, lvl, loc, wVars, stopVars>>

(* TimingWheel.Stop.                                                       *)
CloseExit ==
  /\ ~closed
  /\ closed' = TRUE
  /\ UNCHANGED <<now, wheelVars, timers, expiration, queueVars, texp, tb,
                 runs, pc, lvl, loc, wVars, stopVars>>

-----------------------------------------------------------------------------
(* AfterFunc and add.                                                      *)

(* Horizon also bounds the expirations, so that time reaches all of them.  *)
AfterFunc(t, d) ==
  /\ pc[t] = "idle"
  /\ now + d <= Horizon
  /\ texp' = [texp EXCEPT ![t] = now + d]
  /\ pc' = [pc EXCEPT ![t] = "expired?"]
  /\ UNCHANGED <<clockVars, wheelVars, timers, expiration, queueVars, tb, runs,
                 lvl, loc, wVars, stopVars>>

(* The first read of currentTime: an expired timer's task is started       *)
(* (addOrRun).  Mutants: it is not started; the comparison is off by one.  *)
DropExpired(p) ==
  /\ pc[p] = "expired?"
  /\ pc' = IF texp[TimerOf(p)] < currentTime[lvl[p]] + tick[lvl[p]]
             THEN Returned(p) ELSE [pc EXCEPT ![p] = "inside?"]
  /\ UNCHANGED <<clockVars, wheelVars, timers, expiration, queueVars, texp, tb,
                 runs, lvl, loc, wVars, stopVars>>
ExpiredAtTick(p) ==
  /\ pc[p] = "expired?"
  /\ IF texp[TimerOf(p)] <= currentTime[lvl[p]] + tick[lvl[p]]
       THEN /\ runs' = [runs EXCEPT ![TimerOf(p)] = @ + 1]
            /\ pc' = Returned(p)
       ELSE /\ pc' = [pc EXCEPT ![p] = "inside?"]
            /\ UNCHANGED runs
  /\ UNCHANGED <<clockVars, wheelVars, timers, expiration, queueVars, texp, tb,
                 lvl, loc, wVars, stopVars>>
CheckExpired(p) ==
  /\ pc[p] = "expired?"
  /\ IF texp[TimerOf(p)] < currentTime[lvl[p]] + tick[lvl[p]]
       THEN /\ runs' = [runs EXCEPT ![TimerOf(p)] = @ + 1]
            /\ pc' = Returned(p)
       ELSE /\ pc' = [pc EXCEPT ![p] = "inside?"]
            /\ UNCHANGED runs
  /\ UNCHANGED <<clockVars, wheelVars, timers, expiration, queueVars, texp, tb,
                 lvl, loc, wVars, stopVars>>

(* The second read of currentTime.                                         *)
CheckInterval(p) ==
  /\ pc[p] = "inside?"
  /\ pc' = [pc EXCEPT ![p] =
              IF texp[TimerOf(p)] < currentTime[lvl[p]] + Interval(lvl[p])
                THEN "insert" ELSE "overflow"]
  /\ UNCHANGED <<clockVars, wheelVars, timers, expiration, queueVars, texp, tb,
                 runs, lvl, loc, wVars, stopVars>>

(* LoadPointer; if there is no overflow wheel yet one is made from a third *)
(* read of currentTime.  Levels bounds the chain.                          *)
LoadOverflow(p) ==
  /\ pc[p] = "overflow" /\ lvl[p] < Levels
  /\ IF wheels > lvl[p]
       THEN /\ pc' = [pc EXCEPT ![p] = "expired?"]
            /\ lvl' = [lvl EXCEPT ![p] = @ + 1]
            /\ UNCHANGED loc
       ELSE /\ pc' = [pc EXCEPT ![p] = "create"]
            /\ loc' = [loc EXCEPT ![p] = currentTime[lvl[p]]]
            /\ UNCHANGED lvl
  /\ UNCHANGED <<clockVars, wheelVars, timers, expiration, queueVars, texp, tb,
                 runs, wVars, stopVars>>

(* CompareAndSwapPointer: the first caller's wheel is the one that stays.  *)
CreateOverflow(p) ==
  /\ pc[p] = "create"
  /\ pc' = [pc EXCEPT ![p] = "expired?"]
  /\ lvl' = [lvl EXCEPT ![p] = @ + 1]
  /\ IF wheels = lvl[p]
       THEN /\ wheels' = wheels + 1
            /\ tick' = [tick EXCEPT ![lvl[p] + 1] = Interval(lvl[p])]
            /\ currentTime' = [currentTime EXCEPT ![lvl[p] + 1] =
                                 Truncate(loc[p], Interval(lvl[p]))]
       ELSE UNCHANGED wheelVars
  /\ UNCHANGED <<clockVars, timers, expiration, queueVars, texp, tb, runs, loc,
                 wVars, stopVars>>

(* bucket.Add, under the mutex of the bucket.                              *)
Insert(p) ==
  /\ pc[p] = "insert"
  /\ ~Locked(BucketOf(p))
  /\ timers' = [timers EXCEPT ![BucketOf(p)] = @ \cup {TimerOf(p)}]
  /\ tb' = [tb EXCEPT ![TimerOf(p)] = BucketOf(p)]
  /\ pc' = [pc EXCEPT ![p] = "setExpiration"]
  /\ UNCHANGED <<clockVars, wheelVars, expiration, queueVars, texp, runs, lvl,
                 loc, wVars, stopVars>>

(* SwapInt64 of the bucket's expiration: only a new value is offered.      *)
(* Mutant: the bucket is offered with every timer.                         *)
AlwaysOffer(p) ==
  /\ pc[p] = "setExpiration"
  /\ pc' = [pc EXCEPT ![p] = "readExpiration"]
  /\ expiration' = [expiration EXCEPT ![BucketOf(p)] = SlotOf(p)]
  /\ UNCHANGED <<clockVars, wheelVars, timers, queueVars, texp, tb, runs, lvl,
                 loc, wVars, stopVars>>
SetExpiration(p) ==
  /\ pc[p] = "setExpiration"
  /\ pc' = IF expiration[BucketOf(p)] # SlotOf(p)
             THEN [pc EXCEPT ![p] = "readExpiration"]
             ELSE Returned(p)
  /\ expiration' = [expiration EXCEPT ![BucketOf(p)] = SlotOf(p)]
  /\ UNCHANGED <<clockVars, wheelVars, timers, queueVars, texp, tb, runs, lvl,
                 loc, wVars, stopVars>>

(* The argument of Offer is read again from the bucket.                    *)
ReadExpiration(p) ==
  /\ pc[p] = "readExpiration"
  /\ pc' = [pc EXCEPT ![p] = "offer"]
  /\ loc' = [loc EXCEPT ![p] = expiration[BucketOf(p)]]
  /\ UNCHANGED <<clockVars, wheelVars, timers, expiration, queueVars, texp, tb,
                 runs, lvl, wVars, stopVars>>

Offer(p) ==
  /\ pc[p] = "offer"
  /\ pc' = Returned(p)
  /\ queue' = queue (+) SetToBag({<<BucketOf(p), loc[p]>>})
  /\ UNCHANGED <<clockVars, wheelVars, timers, expiration, taken, texp, tb,
                 runs, lvl, loc, wVars, stopVars>>

AddStep(p) ==
  \/ CheckExpired(p) \/ CheckInterval(p) \/ LoadOverflow(p) \/ CreateOverflow(p)
  \/ Insert(p) \/ SetExpiration(p) \/ ReadExpiration(p) \/ Offer(p)

-----------------------------------------------------------------------------
(* The delay queue and W.                                                  *)

(* Poll takes the pair that expired first.                                 *)
Take ==
  /\ taken = Nil
  /\ \E e \in BagToSet(queue) :
       /\ e[2] <= now
       /\ \A f \in BagToSet(queue) : e[2] <= f[2]
       /\ taken' = e
       /\ queue' = queue (-) SetToBag({e})
  /\ UNCHANGED <<clockVars, wheelVars, timers, expiration, texp, tb, runs, pc,
                 lvl, loc, wVars, stopVars>>

Receive ==
  /\ wpc = "receive" /\ taken # Nil
  /\ wpc' = "load"
  /\ wb' = taken[1]
  /\ taken' = Nil
  /\ UNCHANGED <<clockVars, wheelVars, timers, expiration, queue, texp, tb,
                 runs, pc, lvl, loc, wt, stopVars>>

(* b.Expiration(), the argument of advanceClock.  Mutant: the bucket is    *)
(* flushed before the clock is advanced.                                   *)
FlushFirst ==
  /\ wpc = "load"
  /\ wpc' = "lock"
  /\ UNCHANGED <<clockVars, wheelVars, timers, expiration, queueVars, texp, tb,
                 runs, pc, lvl, loc, wb, wt, stopVars>>
LoadExpiration ==
  /\ wpc = "load"
  /\ wpc' = "advance"
  /\ loc' = [loc EXCEPT ![W] = expiration[wb]]
  /\ lvl' = [lvl EXCEPT ![W] = 1]
  /\ UNCHANGED <<clockVars, wheelVars, timers, expiration, queueVars, texp, tb,
                 runs, pc, wb, wt, stopVars>>

(* advanceClock of one wheel; the next one is given the truncated time.    *)
(* The clock is stored and the overflow pointer loaded in one step, which  *)
(* loses no outcome: a creation in between could as well come before the   *)
(* store when it read the clock before it, and makes a wheel that has      *)
(* nothing to advance when it read the new clock.                          *)
AdvanceClock ==
  /\ wpc = "advance"
  /\ LET l == lvl[W]
         time == Truncate(loc[W], tick[l])
     IN IF loc[W] >= currentTime[l] + tick[l]
          THEN /\ currentTime' = [currentTime EXCEPT ![l] = time]
               /\ wpc' = IF wheels > l THEN "advance" ELSE "lock"
               /\ lvl' = [lvl EXCEPT ![W] = IF wheels > l THEN l + 1 ELSE l]
               /\ loc' = [loc EXCEPT ![W] = time]
          ELSE /\ wpc' = "lock"
               /\ UNCHANGED <<currentTime, lvl, loc>>
  /\ UNCHANGED <<clockVars, tick, wheels, timers, expiration, queueVars, texp,
                 tb, runs, pc, wb, wt, stopVars>>

(* Flush: W locks the bucket and keeps it until the list is empty.         *)
Lock ==
  /\ wpc = "lock"
  /\ wpc' = "flush"
  /\ UNCHANGED <<clockVars, wheelVars, timers, expiration, queueVars, texp, tb,
                 runs, pc, lvl, loc, wb, wt, stopVars>>

(* bucket.remove(t), by W or by Timer.Stop.  Mutant: t.b is not reset.     *)
RemoveFromList(t, b) ==
  IF tb[t] = b
    THEN /\ timers' = [timers EXCEPT ![b] = @ \ {t}]
         /\ UNCHANGED tb
    ELSE UNCHANGED <<timers, tb>>
Remove(t, b) ==
  IF tb[t] = b
    THEN /\ timers' = [timers EXCEPT ![b] = @ \ {t}]
         /\ tb' = [tb EXCEPT ![t] = Nil]
    ELSE UNCHANGED <<timers, tb>>

(* W removes the next timer and inserts it again, whatever remove returned.*)
FlushNext ==
  /\ wpc = "flush" /\ pc[W] = "idle"
  /\ \E t \in timers[wb] : Remove(t, wb) /\ wt' = t
  /\ pc' = [pc EXCEPT ![W] = "expired?"]
  /\ lvl' = [lvl EXCEPT ![W] = 1]
  /\ UNCHANGED <<clockVars, wheelVars, expiration, queueVars, texp, runs, loc,
                 wpc, wb, stopVars>>

(* The loop ends after the last timer.  Mutant: e.Next() is called after   *)
(* the removal of e and returns nil.                                       *)
UnlockEarly ==
  /\ wpc = "flush" /\ pc[W] = "idle"
  /\ wpc' = "reset"
  /\ wt' = Nil
  /\ UNCHANGED <<clockVars, wheelVars, timers, expiration, queueVars, texp, tb,
                 runs, pc, lvl, loc, wb, stopVars>>
Unlock ==
  /\ wpc = "flush" /\ pc[W] = "idle" /\ timers[wb] = {}
  /\ wpc' = "reset"
  /\ wt' = Nil
  /\ UNCHANGED <<clockVars, wheelVars, timers, expiration, queueVars, texp, tb,
                 runs, pc, lvl, loc, wb, stopVars>>

(* SetExpiration(-1), after the mutex has been released.                   *)
ResetExpiration ==
  /\ wpc = "reset"
  /\ wpc' = "receive"
  /\ expiration' = [expiration EXCEPT ![wb] = -1]
  /\ wb' = Nil
  /\ lvl' = [lvl EXCEPT ![W] = 1]
  /\ loc' = [loc EXCEPT ![W] = 0]
  /\ UNCHANGED <<clockVars, wheelVars, timers, queueVars, texp, tb, runs, pc,
                 wt, stopVars>>

(* W's select takes exitC.                                                 *)
WheelExit ==
  /\ closed /\ wpc = "receive"
  /\ wpc' = "stopped"
  /\ UNCHANGED <<clockVars, wheelVars, timers, expiration, queueVars, texp, tb,
                 runs, pc, lvl, loc, wb, wt, stopVars>>

WheelStep == Receive \/ LoadExpiration \/ AdvanceClock \/ Lock \/ FlushNext
             \/ Unlock \/ ResetExpiration

-----------------------------------------------------------------------------
(* Timer.Stop, of a timer that AfterFunc has returned.                     *)

StopTimer(s, t) ==
  /\ spc[s] = "idle" /\ pc[t] = "done"
  /\ spc' = [spc EXCEPT ![s] = "get"]
  /\ target' = [target EXCEPT ![s] = t]
  /\ UNCHANGED <<clockVars, wheelVars, timers, expiration, queueVars, texp, tb,
                 runs, pc, lvl, loc, wVars, sb, stopped>>

(* The loop's getBucket: nil ends it.                                      *)
GetBucket(s) ==
  /\ spc[s] = "get"
  /\ spc' = [spc EXCEPT ![s] = IF tb[target[s]] = Nil THEN "returned" ELSE "remove"]
  /\ sb' = [sb EXCEPT ![s] = tb[target[s]]]
  /\ UNCHANGED <<clockVars, wheelVars, timers, expiration, queueVars, texp, tb,
                 runs, pc, lvl, loc, wVars, target, stopped>>

(* b.Remove(t), under the mutex of the bucket that was read before.        *)
(* Mutant: the result of Remove is not looked at.                          *)
AlwaysStopped(s) ==
  /\ spc[s] = "remove"
  /\ ~Locked(sb[s])
  /\ spc' = [spc EXCEPT ![s] = "get"]
  /\ stopped' = [stopped EXCEPT ![s] = TRUE]
  /\ Remove(target[s], sb[s])
  /\ UNCHANGED <<clockVars, wheelVars, expiration, queueVars, texp, runs, pc,
                 lvl, loc, wVars, target, sb>>
RemoveTimer(s) ==
  /\ spc[s] = "remove"
  /\ ~Locked(sb[s])
  /\ spc' = [spc EXCEPT ![s] = "get"]
  /\ stopped' = [stopped EXCEPT ![s] = tb[target[s]] = sb[s]]
  /\ Remove(target[s], sb[s])
  /\ UNCHANGED <<clockVars, wheelVars, expiration, queueVars, texp, runs, pc,
                 lvl, loc, wVars, target, sb>>

StopStep(s) == GetBucket(s) \/ RemoveTimer(s)

-----------------------------------------------------------------------------
Next ==
  \/ TickClock
  \/ CloseExit
  \/ \E t \in Timers, d \in Delays : AfterFunc(t, d)
  \/ \E p \in Procs : AddStep(p)
  \/ Take
  \/ WheelStep
  \/ WheelExit
  \/ \E s \in Stops : \/ \E t \in Timers : StopTimer(s, t)
                      \/ StopStep(s)

Spec == Init /\ [][Next]_vars

(* Every goroutine runs and time passes; nobody has to start or stop a     *)
(* timer, nor to stop the wheel.                                           *)
Fairness ==
  /\ WF_vars(TickClock)
  /\ \A p \in Procs : WF_vars(AddStep(p))
  /\ WF_vars(Take)
  /\ WF_vars(WheelStep)
  /\ \A s \in Stops : WF_vars(StopStep(s))

FairSpec == Spec /\ Fairness

(* The schedules in which calls of AfterFunc are prompt: while one of them *)
(* is under way W does not work on a bucket and the clock does not reach   *)
(* the next millisecond.  Calls of AfterFunc overlap each other, and calls *)
(* of Stop overlap everything.                                             *)
Adding == \E t \in Timers : pc[t] \notin {"idle", "done"}
Prompt == /\ Adding' => wpc' \in {"receive", "stopped"}
          /\ Adding => now' = now

PromptSpec == Init /\ [][Next /\ Prompt]_vars
FairPromptSpec == PromptSpec /\ Fairness

(* Those in which W also keeps up: the clock waits for expired buckets.    *)
KeepsUp == now' # now => /\ wpc \in {"receive", "stopped"} /\ taken = Nil
                         /\ \A e \in BagToSet(queue) : e[2] > now

PunctualSpec == Init /\ [][Next /\ Prompt /\ KeepsUp]_vars

-----------------------------------------------------------------------------
TypeOK ==
  /\ now \in Nat /\ closed \in BOOLEAN
  /\ tick \in [1 .. Levels -> Nat]
  /\ currentTime \in [1 .. Levels -> Nat]
  /\ wheels \in 1 .. Levels
  /\ timers \in [Buckets -> SUBSET Timers]
  /\ expiration \in [Buckets -> Int]
  /\ IsABag(queue) /\ BagToSet(queue) \subseteq Buckets \X Int
  /\ taken \in (Buckets \X Int) \cup {Nil}
  /\ texp \in [Timers -> Nat]
  /\ tb \in [Timers -> Buckets \cup {Nil}]
  /\ runs \in [Timers -> Nat]
  /\ pc \in [Procs -> AddStates]
  /\ lvl \in [Procs -> 1 .. Levels]
  /\ loc \in [Procs -> Int]
  /\ wpc \in WStates
  /\ wb \in Buckets \cup {Nil}
  /\ wt \in Timers \cup {Nil}
  /\ spc \in [Stops -> StopStates]
  /\ target \in [Stops -> Timers \cup {Nil}]
  /\ sb \in [Stops -> Buckets \cup {Nil}]
  /\ stopped \in [Stops -> BOOLEAN]

(* Timer.b names the bucket whose list holds the timer, so that Stop and   *)
(* Flush, which trust it, remove the timer from the list it is in.         *)
BucketAgrees ==
  \A t \in Timers, b \in Buckets : tb[t] = b <=> t \in timers[b]

Stopped(t) == {s \in Stops : target[s] = t /\ stopped[s]}

(* A timer has one fate: its task is started once, or one call of Stop     *)
(* returns true and the task never starts, however Stop races with the     *)
(* flush that moves the timer from bucket to bucket.                       *)
OneFate ==
  \A t \in Timers :
    /\ runs[t] <= 1
    /\ runs[t] = 1 => Stopped(t) = {}
    /\ \A r, s \in Stopped(t) : r = s

(* The goroutines that have the timer in their hands.                      *)
Holding == {"expired?", "inside?", "overflow", "create", "insert"}
Holders(t) == {p \in Procs : TimerOf(p) = t /\ pc[p] \in Holding}

(* No timer is lost on its way: until it has run or has been stopped it is *)
(* in a bucket or in the hands of exactly one goroutine, and never both.   *)
NoTimerLost ==
  \A t \in Timers :
    LET held == Holders(t) # {}
        over == runs[t] > 0 \/ Stopped(t) # {}
    IN /\ \A p, q \in Holders(t) : p = q
       /\ pc[t] # "idle" => \/ held /\ tb[t] = Nil /\ ~over
                            \/ ~held /\ tb[t] # Nil /\ ~over
                            \/ ~held /\ tb[t] = Nil /\ over

(* No task is started before its delay has elapsed, to the tick.           *)
NeverEarly == [][\A t \in Timers : runs'[t] # runs[t] => texp[t] < now + Tick]_vars

(* A bucket with a timer is in the delay queue, not later than the timer,  *)
(* or some goroutine is about to put it there or is working on it.         *)
NotForgotten ==
  \A b \in Buckets, t \in Timers : t \in timers[b] =>
    \/ \E e \in BagToSet(queue) \cup ({taken} \ {Nil}) : e[1] = b /\ e[2] <= texp[t]
    \/ \E p \in Procs : /\ pc[p] \in {"setExpiration", "readExpiration", "offer"}
                        /\ BucketOf(p) = b
    \/ wb = b /\ wpc # "reset"

(* W never waits for the mutex that it holds itself.                       *)
NoSelfDeadlock == pc[W] = "insert" => BucketOf(W) # wb

(* The same bucket is not in the queue twice with the same expiration.     *)
EnqueuedOnce ==
  /\ \A e \in BagToSet(queue) : queue[e] = 1
  /\ taken # Nil => ~BagIn(taken, queue)

(* Stop returns false only if the timer has expired or has been stopped.   *)
StopTellsTheTruth ==
  [][\A s \in Stops :
       spc[s] # "returned" /\ spc'[s] = "returned" /\ ~stopped'[s]
         => \/ texp[target[s]] < now + Tick
            \/ runs[target[s]] > 0
            \/ Stopped(target[s]) # {}]_vars

(* Every timer runs, unless it or the wheel is stopped.                    *)
EventuallyRuns ==
  \A t \in Timers :
    (pc[t] # "idle") ~> (runs[t] > 0 \/ Stopped(t) # {} \/ closed)
=============================================================================
