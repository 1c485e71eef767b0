----------------------------- MODULE DelayedSet -----------------------------
(***************************************************************************)
(* What the comment above delayqueue.DelayQueue promises: "an unbounded    *)
(* blocking queue of Delayed elements, in which an element can only be     *)
(* taken when its delay has expired.  The head of the queue is the Delayed *)
(* element whose delay expired furthest in the past."  One element at a    *)
(* time is taken and then handed to the receiver; closing the queue may    *)
(* drop the one that is taken.                                             *)
(***************************************************************************)
EXTENDS Integers

CONSTANTS Items,   (* the elements that may be offered                     *)
          NoItem,  (* no element                                           *)
          Prios,   (* the expirations                                      *)
          Horizon  (* bound on the clock                                   *)

VARIABLES now,       (* the time                                           *)
          offered,   (* elements that have been offered                    *)
          pending,   (* elements in the queue                              *)
          prio,      (* the expiration of each offered element             *)
          taken,     (* the element on its way to the receiver             *)
          delivered, (* elements the receiver has got                      *)
          closed     (* the queue has been told to stop                    *)

vars == <<now, offered, pending, prio, taken, delivered, closed>>

Init ==
  /\ now = 0
  /\ offered = {} /\ pending = {} /\ delivered = {}
  /\ prio = [i \in Items |-> 0]
  /\ taken = NoItem
  /\ closed = FALSE

Tick ==
  /\ now < Horizon
  /\ now' = now + 1
  /\ UNCHANGED <<offered, pending, prio, taken, delivered, closed>>

Close ==
  /\ closed' = TRUE
  /\ UNCHANGED <<now, offered, pending, prio, taken, delivered>>

Insert(i, e) ==
  /\ i \notin offered
  /\ offered' = offered \cup {i}
  /\ pending' = pending \cup {i}
  /\ prio' = [prio EXCEPT ![i] = e]
  /\ UNCHANGED <<now, taken, delivered, closed>>

(* Only an expired element is taken, and the one that expired first.       *)
Take(i) ==
  /\ taken = NoItem
  /\ i \in pending
  /\ prio[i] <= now
  /\ \A j \in pending : prio[i] <= prio[j]
  /\ taken' = i
  /\ pending' = pending \ {i}
  /\ UNCHANGED <<now, offered, prio, delivered, closed>>

HandOver ==
  /\ taken # NoItem
  /\ delivered' = delivered \cup {taken}
  /\ taken' = NoItem
  /\ UNCHANGED <<now, offered, pending, prio, closed>>

Drop ==
  /\ closed
  /\ taken' = NoItem
  /\ UNCHANGED <<now, offered, pending, prio, delivered, closed>>

Next ==
  \/ Tick
  \/ Close
  \/ \E i \in Items : \/ \E e \in Prios : Insert(i, e)
                      \/ Take(i)
  \/ HandOver
  \/ Drop

Spec == Init /\ [][Next]_vars
=============================================================================
