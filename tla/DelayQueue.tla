----------------------------- MODULE DelayQueue -----------------------------
(***************************************************************************)
(* delayqueue.DelayQueue: a priority queue of elements that may only be    *)
(* taken once their expiration has passed.  Callers of Offer insert under  *)
(* the mutex dq.mu and may have to wake the goroutine that runs Poll; they *)
(* coordinate through the atomic flag dq.sleeping and the unbuffered       *)
(* channel dq.wakeupC.  Poll hands expired elements over the unbuffered    *)
(* channel dq.C to the receiver, the timing wheel's goroutine, which calls *)
(* Offer itself when it reinserts timers.                                  *)
(*                                                                         *)
(* A section under dq.mu is one step.  Everything the code does outside    *)
(* the mutex (reading item.Index, the compare-and-swap, the channel        *)
(* operations, reading the clock, arming time.After) is a step of its own. *)
(* An unbuffered send and its receive are one joint step.                  *)
(***************************************************************************)
EXTENDS Integers, FiniteSets

CONSTANTS
  Items,    (* the calls of Offer: each inserts one *item                  *)
  NoItem,   (* the nil *item                                               *)
  Prios,    (* expirations that callers pass, in milliseconds              *)
  Horizon   (* bound on the clock; no part of the code                     *)

ASSUME DQAssumption ==
  /\ NoItem \notin Items
  /\ Prios \subseteq Int
  /\ Horizon \in Nat

VARIABLES
  now,        (* what nowF() returns: time.Now() in milliseconds           *)
  pq,         (* the items in dq.pq                                        *)
  root,       (* dq.pq[0], the item whose Index is 0                       *)
  prio,       (* item.Priority                                             *)
  sleeping,   (* dq.sleeping                                               *)
  offer,      (* where each call of Offer stands                           *)
  poll,       (* where Poll stands                                         *)
  nowRead,    (* Poll's local now                                          *)
  delta,      (* Poll's local delta                                        *)
  deadline,   (* when Poll's time.After channel fires                      *)
  item,       (* Poll's local item                                         *)
  rcv,        (* the item the receiver is offering, or NoItem              *)
  rcvStopped, (* the receiver has returned on exitC                        *)
  delivered,  (* items received from dq.C                                  *)
  closed      (* exitC has been closed                                     *)

vars == <<now, pq, root, prio, sleeping, offer, poll, nowRead, delta,
          deadline, item, rcv, rcvStopped, delivered, closed>>

queueVars == <<pq, root, prio>>
pollVars  == <<poll, nowRead, delta, deadline, item>>
rcvVars   == <<rcv, rcvStopped, delivered>>

OfferStates == {"idle", "check", "cas", "send", "done"}
PollStates  == {"now", "shift", "waitEmpty", "arm", "waitDelta", "swap",
                "drain", "sendC", "exit", "stopped"}

(* The items that a min-heap may hold at index 0: of equal priorities any  *)
(* one may be there.                                                       *)
Heads(S) == {i \in S : \A j \in S : prio[i] <= prio[j]}

Init ==
  /\ now = 0
  /\ pq = {} /\ root = NoItem
  /\ prio = [i \in Items |-> 0]
  /\ sleeping = 0
  /\ offer = [i \in Items |-> "idle"]
  /\ poll = "now" /\ nowRead = 0 /\ delta = 0 /\ deadline = 0
  /\ item = NoItem
  /\ rcv = NoItem /\ rcvStopped = FALSE /\ delivered = {}
  /\ closed = FALSE

Tick ==
  /\ now < Horizon
  /\ now' = now + 1
  /\ UNCHANGED <<queueVars, sleeping, offer, pollVars, rcvVars, closed>>

(* timingwheel.Stop closes exitC.                                          *)
CloseExit ==
  /\ ~closed
  /\ closed' = TRUE
  /\ UNCHANGED <<now, queueVars, sleeping, offer, pollVars, rcvVars>>

-----------------------------------------------------------------------------
(* Offer.                                                                  *)

(* heap.Push under dq.mu: the new item rises to index 0 only past strictly *)
(* larger priorities.  The receiver is one of the callers.                 *)
Push(i, e) ==
  /\ offer[i] = "idle"
  /\ offer' = [offer EXCEPT ![i] = "check"]
  /\ prio' = [prio EXCEPT ![i] = e]
  /\ pq' = pq \cup {i}
  /\ root' = IF pq = {} \/ e < prio[root] THEN i ELSE root
  /\ \/ UNCHANGED rcvVars
     \/ /\ rcv = NoItem /\ ~rcvStopped
        /\ rcv' = i
        /\ UNCHANGED <<rcvStopped, delivered>>
  /\ UNCHANGED <<now, sleeping, pollVars, closed>>

(* item.Index is read after dq.mu has been released.  Mutant: only the     *)
(* first element of an empty queue wakes Poll.                             *)
CheckOnlyElement(i) ==
  /\ offer[i] = "check"
  /\ offer' = [offer EXCEPT ![i] = IF pq = {i} THEN "cas" ELSE "done"]
  /\ UNCHANGED <<now, queueVars, sleeping, pollVars, rcvVars, closed>>
CheckIndex(i) ==
  /\ offer[i] = "check"
  /\ offer' = [offer EXCEPT ![i] = IF root = i THEN "cas" ELSE "done"]
  /\ UNCHANGED <<now, queueVars, sleeping, pollVars, rcvVars, closed>>

(* atomic.CompareAndSwapInt32(&dq.sleeping, 1, 0), and the send on wakeupC *)
(* only if it succeeds.  Mutants: the flag is cleared and nothing is sent; *)
(* the caller sends whether or not Poll sleeps.                            *)
ClearWithoutSend(i) ==
  /\ offer[i] = "cas"
  /\ offer' = [offer EXCEPT ![i] = "done"]
  /\ sleeping' = 0
  /\ UNCHANGED <<now, queueVars, pollVars, rcvVars, closed>>
AlwaysSend(i) ==
  /\ offer[i] = "cas"
  /\ offer' = [offer EXCEPT ![i] = "send"]
  /\ sleeping' = 0
  /\ UNCHANGED <<now, queueVars, pollVars, rcvVars, closed>>
CompareAndSwap(i) ==
  /\ offer[i] = "cas"
  /\ offer' = [offer EXCEPT ![i] = IF sleeping = 1 THEN "send" ELSE "done"]
  /\ sleeping' = 0
  /\ UNCHANGED <<now, queueVars, pollVars, rcvVars, closed>>

(* The receiver's own Offer returns and it goes back to its select.        *)
OfferReturns ==
  /\ rcv # NoItem
  /\ offer[rcv] = "done"
  /\ rcv' = NoItem
  /\ UNCHANGED <<now, queueVars, sleeping, offer, pollVars, rcvStopped,
                 delivered, closed>>

-----------------------------------------------------------------------------
(* Poll.                                                                   *)

(* nowF().  Mutant: the clock is rounded up to the next millisecond.       *)
ReadNowRoundedUp ==
  /\ poll = "now"
  /\ nowRead' = now + 1
  /\ poll' = "shift"
  /\ UNCHANGED <<now, queueVars, sleeping, delta, deadline, item, offer,
                 rcvVars, closed>>
ReadNow ==
  /\ poll = "now"
  /\ nowRead' = now
  /\ poll' = "shift"
  /\ UNCHANGED <<now, queueVars, sleeping, delta, deadline, item, offer,
                 rcvVars, closed>>

(* PeekAndShift and the store to dq.sleeping are one section of dq.mu,     *)
(* with three outcomes: no items, none expired, the head is taken.         *)
SleepEmpty ==
  /\ poll = "shift" /\ pq = {}
  /\ poll' = "waitEmpty" /\ sleeping' = 1 /\ delta' = 0
  /\ UNCHANGED <<now, queueVars, nowRead, deadline, item, offer, rcvVars, closed>>

SleepDelta ==
  /\ poll = "shift" /\ pq # {} /\ prio[root] > nowRead
  /\ poll' = "arm" /\ sleeping' = 1 /\ delta' = prio[root] - nowRead
  /\ UNCHANGED <<now, queueVars, nowRead, deadline, item, offer, rcvVars, closed>>

(* heap.Remove first moves the last item to index 0 and then sifts it      *)
(* down; a caller that is reading its item.Index without the mutex may see *)
(* that 0.  Mutant: the head is returned and stays in the heap.            *)
PeekOnly ==
  /\ poll = "shift" /\ pq # {} /\ prio[root] <= nowRead
  /\ poll' = "sendC" /\ item' = root /\ delta' = 0
  /\ UNCHANGED <<now, queueVars, sleeping, nowRead, deadline, offer, rcvVars, closed>>
Shift ==
  /\ poll = "shift" /\ pq # {} /\ prio[root] <= nowRead
  /\ poll' = "sendC" /\ item' = root /\ delta' = 0
  /\ pq' = pq \ {root}
  /\ root' \in IF pq' = {} THEN {NoItem} ELSE Heads(pq')
  /\ \/ UNCHANGED offer
     \/ \E i \in pq' : /\ offer[i] = "check"
                       /\ offer' = [offer EXCEPT ![i] = "cas"]
  /\ UNCHANGED <<now, prio, sleeping, nowRead, deadline, rcvVars, closed>>

(* time.After(delta): the delay found under the mutex starts to run only   *)
(* now.  The clock stops at Horizon, and no alarm is set beyond it.        *)
ArmTimer ==
  /\ poll = "arm"
  /\ poll' = "waitDelta"
  /\ deadline' = IF now + delta > Horizon THEN Horizon ELSE now + delta
  /\ UNCHANGED <<now, queueVars, sleeping, nowRead, delta, item, offer, rcvVars,
                 closed>>

(* wakeupC: Offer's send meets the receive of one of the two selects, or   *)
(* the drain after a timeout.                                              *)
Wakeup(i) ==
  /\ offer[i] = "send"
  /\ poll \in {"waitEmpty", "waitDelta", "drain"}
  /\ offer' = [offer EXCEPT ![i] = "done"]
  /\ poll' = "now"
  /\ UNCHANGED <<now, queueVars, sleeping, nowRead, delta, deadline, item, rcvVars, closed>>

Timeout ==
  /\ poll = "waitDelta"
  /\ now >= deadline
  /\ poll' = "swap"
  /\ UNCHANGED <<now, queueVars, sleeping, nowRead, delta, deadline, item, offer,
                 rcvVars, closed>>

(* atomic.SwapInt32(&dq.sleeping, 0): a 0 means that an Offer has already  *)
(* cleared the flag and is about to send, so its send is received.         *)
(* Mutant: the blocked caller is not drained.                              *)
SwapWithoutDrain ==
  /\ poll = "swap"
  /\ poll' = "now"
  /\ sleeping' = 0
  /\ UNCHANGED <<now, queueVars, nowRead, delta, deadline, item, offer, rcvVars,
                 closed>>
SwapSleeping ==
  /\ poll = "swap"
  /\ poll' = IF sleeping = 0 THEN "drain" ELSE "now"
  /\ sleeping' = 0
  /\ UNCHANGED <<now, queueVars, nowRead, delta, deadline, item, offer, rcvVars,
                 closed>>

(* dq.C <- item.Value meets the receiver's select.                         *)
Deliver ==
  /\ poll = "sendC"
  /\ rcv = NoItem /\ ~rcvStopped
  /\ delivered' = delivered \cup {item}
  /\ item' = NoItem
  /\ poll' = "now"
  /\ UNCHANGED <<now, queueVars, sleeping, nowRead, delta, deadline, offer, rcv,
                 rcvStopped, closed>>

(* case <-exitC in each of the three selects, the drain has none.          *)
PollExit ==
  /\ closed
  /\ poll \in {"waitEmpty", "waitDelta", "sendC"}
  /\ poll' = "exit"
  /\ item' = NoItem
  /\ UNCHANGED <<now, queueVars, sleeping, nowRead, delta, deadline, offer,
                 rcvVars, closed>>

ResetStates ==
  /\ poll = "exit"
  /\ poll' = "stopped"
  /\ sleeping' = 0
  /\ UNCHANGED <<now, queueVars, nowRead, delta, deadline, item, offer, rcvVars,
                 closed>>

(* The receiver's select takes exitC instead of dq.C.                      *)
ReceiverExit ==
  /\ closed /\ rcv = NoItem /\ ~rcvStopped
  /\ rcvStopped' = TRUE
  /\ UNCHANGED <<now, queueVars, sleeping, offer, pollVars, rcv, delivered, closed>>

-----------------------------------------------------------------------------
OfferStep(i) == CheckIndex(i) \/ CompareAndSwap(i)

PeekAndShift == SleepEmpty \/ SleepDelta \/ Shift

PollStep == ReadNow \/ PeekAndShift \/ ArmTimer \/ Timeout \/ SwapSleeping
            \/ ResetStates

Next ==
  \/ Tick
  \/ CloseExit
  \/ \E i \in Items : \/ \E e \in Prios : Push(i, e)
                      \/ OfferStep(i)
                      \/ Wakeup(i)
  \/ PollStep
  \/ Deliver
  \/ PollExit
  \/ OfferReturns
  \/ ReceiverExit

Spec == Init /\ [][Next]_vars

(* The scheduler runs every runnable goroutine, a ready channel operation  *)
(* completes, and time passes.  Nobody has to call Offer or to close exitC.*)
Fairness ==
  /\ WF_vars(Tick)
  /\ WF_vars(PollStep)
  /\ WF_vars(Deliver)
  /\ WF_vars(PollExit)
  /\ WF_vars(OfferReturns)
  /\ \A i \in Items : WF_vars(OfferStep(i)) /\ WF_vars(Wakeup(i))

FairSpec == Spec /\ Fairness

-----------------------------------------------------------------------------
TypeOK ==
  /\ now \in Nat
  /\ pq \subseteq Items
  /\ root \in Items \cup {NoItem}
  /\ prio \in [Items -> Int]
  /\ sleeping \in {0, 1}
  /\ offer \in [Items -> OfferStates]
  /\ poll \in PollStates
  /\ nowRead \in Nat
  /\ delta \in Nat
  /\ deadline \in Nat
  /\ item \in Items \cup {NoItem}
  /\ rcv \in Items \cup {NoItem}
  /\ rcvStopped \in BOOLEAN
  /\ delivered \subseteq Items
  /\ closed \in BOOLEAN

Senders == {i \in Items : offer[i] = "send"}

(* The flag and the channel agree: a caller that cleared dq.sleeping is    *)
(* the only one about to send on wakeupC, and Poll is where it will        *)
(* receive (or has left on exitC); while the flag is 1 nobody is sending;  *)
(* and Poll never waits with the flag cleared and nobody sending, so the   *)
(* drain after a timeout cannot block for ever.                            *)
Handshake ==
  /\ \A i, j \in Senders : i = j
  /\ Senders # {} => /\ sleeping = 0
                     /\ poll \in {"waitEmpty", "arm", "waitDelta", "swap",
                                  "drain", "exit", "stopped"}
  /\ sleeping = 1 => poll \in {"waitEmpty", "arm", "waitDelta", "swap", "exit"}
  /\ poll \in {"waitEmpty", "arm", "waitDelta", "swap", "drain"} /\ sleeping = 0
       => Senders # {}

(* No wakeup is lost: while Poll sleeps with the flag set, either the head *)
(* of the queue is the one it computed its delay from, or the caller that  *)
(* put a new head there has yet to look at the flag.                       *)
NoLostWakeup ==
  sleeping = 1 /\ pq # {} /\ offer[root] \notin {"check", "cas"}
    => delta > 0 /\ delta = prio[root] - nowRead

(* An element is only taken when its delay has expired.                    *)
NeverEarly ==
  \A i \in delivered \cup ({item} \ {NoItem}) : prio[i] <= now

(* An offered element is in exactly one place: in the queue, in Poll's     *)
(* hands, delivered, or dropped by Poll on exitC.                          *)
ExactlyOnePlace ==
  /\ item \notin pq /\ item \notin delivered
  /\ pq \cap delivered = {}
  /\ ~closed => {i \in Items : offer[i] # "idle"}
                  = pq \cup delivered \cup ({item} \ {NoItem})

(* Every element that has been offered reaches the receiver, unless the    *)
(* wheel is stopped.                                                       *)
EventuallyDelivered ==
  \A i \in Items : (i \in pq) ~> (i \in delivered \/ closed)

(* Every call of Offer returns, unless the wheel is stopped.               *)
OfferReturnsWhileRunning ==
  \A i \in Items : (offer[i] # "idle") ~> (offer[i] = "done" \/ closed)

(* Every call of Offer returns: the caller that cleared dq.sleeping is     *)
(* always unblocked, on exitC too.                                         *)
OfferAlwaysReturns ==
  \A i \in Items : (offer[i] # "idle") ~> (offer[i] = "done")
(* What DelayQueue promises its callers: DelayedSet, with the heap as the  *)
(* set of pending elements and Poll's local item as the one being handed   *)
(* over.                                                                   *)
Promise == INSTANCE DelayedSet WITH
             offered <- {i \in Items : offer[i] # "idle"},
             pending <- pq,
             taken   <- item

(* DelayQueue implements DelayedSet.                                       *)
ImplementsDelayedSet == Promise!Spec
=============================================================================
