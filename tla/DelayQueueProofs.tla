--------------------------- MODULE DelayQueueProofs ---------------------------
(***************************************************************************)
(* Proofs about DelayQueue, for any number of callers, any expirations and *)
(* any horizon.                                                            *)
(***************************************************************************)
EXTENDS DelayQueue, TLAPS

(* The root of the heap is one of its smallest elements.                   *)
HeadIsMinimal ==
  /\ pq = {} => root = NoItem
  /\ pq # {} => root \in Heads(pq)

(* Where an element can be, by the state of its Offer and of Poll.         *)
Placement ==
  /\ \A i \in Items : offer[i] = "idle" => i \notin pq \cup delivered \cup {item}
  /\ item # NoItem <=> poll = "sendC"
  /\ nowRead <= now

(* The inductive invariant.                                                *)
IInv ==
  /\ TypeOK
  /\ HeadIsMinimal
  /\ Placement
  /\ Handshake
  /\ NoLostWakeup
  /\ NeverEarly
  /\ ExactlyOnePlace

(* The inductive invariant holds initially.                                *)
LEMMA InitIInv == Init => IInv
<1> SUFFICES ASSUME Init PROVE IInv
  OBVIOUS
<1>1. TypeOK
  <2>1. prio \in [Items -> Int]
    BY DEF Init
  <2>2. offer \in [Items -> OfferStates]
    BY DEF Init, OfferStates
  <2>3. QED
    BY <2>1, <2>2 DEF Init, TypeOK, PollStates
<1>2. HeadIsMinimal /\ Placement
  BY DQAssumption DEF Init, HeadIsMinimal, Placement
<1>3. Handshake /\ NoLostWakeup
  BY DEF Init, Handshake, NoLostWakeup, Senders
<1>4. NeverEarly /\ ExactlyOnePlace
  BY DQAssumption DEF Init, NeverEarly, ExactlyOnePlace
<1>5. QED
  BY <1>1, <1>2, <1>3, <1>4 DEF IInv

(* Every step of the queue preserves the inductive invariant.              *)
LEMMA StepIInv == IInv /\ [Next]_vars => IInv'
<1> SUFFICES ASSUME IInv, [Next]_vars PROVE IInv'
  OBVIOUS
<1> USE DQAssumption DEF IInv, queueVars, pollVars, rcvVars
<1>1. CASE Tick
  BY <1>1 DEF Tick, TypeOK, HeadIsMinimal, Placement, Handshake, NoLostWakeup,
     NeverEarly, ExactlyOnePlace, Senders, Heads
<1>2. CASE CloseExit
  BY <1>2 DEF CloseExit, TypeOK, HeadIsMinimal, Placement, Handshake,
     NoLostWakeup, NeverEarly, ExactlyOnePlace, Senders, Heads
<1>3. ASSUME NEW i \in Items, NEW e \in Prios, Push(i, e) PROVE IInv'
  <2>1. TypeOK'
    BY <1>3 DEF Push, TypeOK, OfferStates
  <2>2. HeadIsMinimal'
    <3>1. e \in Int /\ prio' = [prio EXCEPT ![i] = e] /\ pq' = pq \cup {i}
      BY <1>3 DEF Push
    <3>2. CASE pq = {}
      BY <1>3, <3>1, <3>2 DEF Push, TypeOK, HeadIsMinimal, Heads
    <3>3. CASE pq # {} /\ e < prio[root]
      BY <1>3, <3>1, <3>3 DEF Push, TypeOK, HeadIsMinimal, Heads
    <3>4. CASE pq # {} /\ ~(e < prio[root])
      BY <1>3, <3>1, <3>4 DEF Push, TypeOK, HeadIsMinimal, Placement, Heads
    <3>5. QED
      BY <3>2, <3>3, <3>4
  <2>3. Placement' /\ ExactlyOnePlace'
    BY <1>3 DEF Push, TypeOK, Placement, ExactlyOnePlace
  <2>4. Handshake'
    BY <1>3 DEF Push, TypeOK, Handshake, Senders
  <2>5. NoLostWakeup'
    BY <1>3 DEF Push, TypeOK, HeadIsMinimal, Placement, Heads, NoLostWakeup
  <2>6. NeverEarly'
    BY <1>3 DEF Push, TypeOK, Placement, NeverEarly
  <2>7. QED
    BY <2>1, <2>2, <2>3, <2>4, <2>5, <2>6
<1>4. ASSUME NEW i \in Items, OfferStep(i) PROVE IInv'
  <2>1. CASE CheckIndex(i)
    BY <2>1 DEF CheckIndex, TypeOK, HeadIsMinimal, Placement, Handshake,
       NoLostWakeup, NeverEarly, ExactlyOnePlace, Senders, Heads, OfferStates
  <2>2. CASE CompareAndSwap(i)
    <3>1. TypeOK' /\ HeadIsMinimal' /\ Placement' /\ NoLostWakeup'
      BY <2>2 DEF CompareAndSwap, TypeOK, HeadIsMinimal, Placement,
         NoLostWakeup, Heads, OfferStates
    <3>2. NeverEarly' /\ ExactlyOnePlace'
      BY <2>2 DEF CompareAndSwap, TypeOK, NeverEarly, ExactlyOnePlace
    <3>3. Handshake'
      BY <2>2 DEF CompareAndSwap, TypeOK, Handshake, Senders
    <3>4. QED
      BY <3>1, <3>2, <3>3
  <2>3. QED
    BY <1>4, <2>1, <2>2 DEF OfferStep
<1>5. ASSUME NEW i \in Items, Wakeup(i) PROVE IInv'
  BY <1>5 DEF Wakeup, TypeOK, HeadIsMinimal, Placement, Handshake,
     NoLostWakeup, NeverEarly, ExactlyOnePlace, Senders, Heads, OfferStates,
     PollStates
<1>6. CASE PollStep
  <2>1. CASE ReadNow \/ ArmTimer \/ Timeout
    BY <2>1 DEF ReadNow, ArmTimer, Timeout, TypeOK, HeadIsMinimal, Placement,
       Handshake, NoLostWakeup, NeverEarly, ExactlyOnePlace, Senders, Heads,
       PollStates
  <2>2. CASE SleepEmpty \/ SleepDelta
    BY <2>2 DEF SleepEmpty, SleepDelta, TypeOK, HeadIsMinimal, Placement,
       Handshake, NoLostWakeup, NeverEarly, ExactlyOnePlace, Senders, Heads,
       PollStates
  <2>3. CASE Shift
    <3>1. root \in pq /\ root \in Items /\ item = NoItem /\ sleeping = 0
      BY <2>3 DEF Shift, TypeOK, HeadIsMinimal, Heads, Placement, Handshake
    <3>2. /\ offer' \in [Items -> OfferStates]
          /\ \A j \in Items : /\ offer'[j] = "idle" <=> offer[j] = "idle"
                             /\ offer'[j] = "send" <=> offer[j] = "send"
      BY <2>3 DEF Shift, TypeOK, OfferStates
    <3>3. TypeOK' /\ HeadIsMinimal'
      BY <2>3, <3>1, <3>2 DEF Shift, TypeOK, HeadIsMinimal, Heads, PollStates
    <3>4. Placement'
      BY <2>3, <3>1, <3>2 DEF Shift, TypeOK, Placement
    <3>5. Handshake'
      <4>1. Senders' = Senders
        BY <2>3 DEF Shift, TypeOK, Senders
      <4>2. QED
        BY <2>3, <3>1, <4>1 DEF Shift, Handshake
    <3>6. NoLostWakeup' /\ NeverEarly'
      BY <2>3, <3>1 DEF Shift, TypeOK, Placement, NoLostWakeup, NeverEarly
    <3>7. ExactlyOnePlace'
      <4>1. {j \in Items : offer'[j] # "idle"} = {j \in Items : offer[j] # "idle"}
        BY <2>3 DEF Shift, TypeOK
      <4>2. QED
        BY <2>3, <3>1, <4>1 DEF Shift, TypeOK, ExactlyOnePlace
    <3>8. QED
      BY <3>3, <3>4, <3>5, <3>6, <3>7
  <2>4. CASE SwapSleeping \/ ResetStates
    BY <2>4 DEF SwapSleeping, ResetStates, TypeOK, HeadIsMinimal, Placement,
       Handshake, NoLostWakeup, NeverEarly, ExactlyOnePlace, Senders, Heads,
       PollStates
  <2>5. QED
    BY <1>6, <2>1, <2>2, <2>3, <2>4 DEF PollStep, PeekAndShift
<1>7. CASE Deliver
  BY <1>7 DEF Deliver, TypeOK, HeadIsMinimal, Placement, Handshake,
     NoLostWakeup, NeverEarly, ExactlyOnePlace, Senders, Heads, PollStates
<1>8. CASE PollExit
  BY <1>8 DEF PollExit, TypeOK, HeadIsMinimal, Placement, Handshake,
     NoLostWakeup, NeverEarly, ExactlyOnePlace, Senders, Heads, PollStates
<1>9. CASE OfferReturns \/ ReceiverExit
  <2>1. CASE OfferReturns
    BY <2>1 DEF OfferReturns, TypeOK, HeadIsMinimal, Placement, Handshake,
       NoLostWakeup, NeverEarly, ExactlyOnePlace, Senders, Heads
  <2>2. CASE ReceiverExit
    BY <2>2 DEF ReceiverExit, TypeOK, HeadIsMinimal, Placement, Handshake,
       NoLostWakeup, NeverEarly, ExactlyOnePlace, Senders, Heads
  <2>3. QED
    BY <1>9, <2>1, <2>2
<1>10. CASE UNCHANGED vars
  BY <1>10 DEF vars, TypeOK, HeadIsMinimal, Placement, Handshake,
     NoLostWakeup, NeverEarly, ExactlyOnePlace, Senders, Heads
<1>11. QED
  BY <1>1, <1>2, <1>3, <1>4, <1>5, <1>6, <1>7, <1>8, <1>9, <1>10 DEF Next

(* The inductive invariant holds in every reachable state.                 *)
LEMMA Invariance == Spec => []IInv
  BY InitIInv, StepIInv, PTL DEF Spec

(* Every variable keeps its type.                                          *)
THEOREM TypeCorrect == Spec => []TypeOK
<1>1. IInv => TypeOK
  BY DEF IInv
<1>2. QED
  BY <1>1, Invariance, PTL

(* The flag dq.sleeping and the channel dq.wakeupC always agree, whatever  *)
(* the number of concurrent callers of Offer.                              *)
THEOREM HandshakeCorrect == Spec => []Handshake
<1>1. IInv => Handshake
  BY DEF IInv
<1>2. QED
  BY <1>1, Invariance, PTL

(* Poll never sleeps past a head that nobody is going to wake it for.      *)
THEOREM WakeupsAreNotLost == Spec => []NoLostWakeup
<1>1. IInv => NoLostWakeup
  BY DEF IInv
<1>2. QED
  BY <1>1, Invariance, PTL

(* No element leaves the queue before its expiration.                      *)
THEOREM ElementsAreNeverEarly == Spec => []NeverEarly
<1>1. IInv => NeverEarly
  BY DEF IInv
<1>2. QED
  BY <1>1, Invariance, PTL

(* No element is delivered twice, and none disappears before the stop.     *)
THEOREM ElementsAreInOnePlace == Spec => []ExactlyOnePlace
<1>1. IInv => ExactlyOnePlace
  BY DEF IInv
<1>2. QED
  BY <1>1, Invariance, PTL

-----------------------------------------------------------------------------
(* The queue with its goroutines, flag and channels implements the set of  *)
(* delayed elements its comment promises.                                  *)
THEOREM Refinement == Spec => ImplementsDelayedSet
<1> USE DQAssumption DEF queueVars, pollVars, rcvVars
<1>1. Init => Promise!Init
  BY DEF Init, Promise!Init
<1>2. IInv /\ [Next]_vars => [Promise!Next]_(Promise!vars)
  <2> SUFFICES ASSUME IInv, [Next]_vars
               PROVE  Promise!Next \/ UNCHANGED Promise!vars
    BY DEF Promise!vars
  <2>1. CASE Tick
    BY <2>1 DEF Tick, Promise!Next, Promise!Tick
  <2>2. CASE CloseExit
    BY <2>2 DEF CloseExit, Promise!Next, Promise!Close
  <2>3. ASSUME NEW i \in Items, NEW e \in Prios, Push(i, e)
        PROVE  Promise!Next
    <3>1. {j \in Items : offer'[j] # "idle"}
            = {j \in Items : offer[j] # "idle"} \cup {i}
      BY <2>3 DEF Push, IInv, TypeOK
    <3>2. Promise!Insert(i, e)
      BY <2>3, <3>1 DEF Push, Promise!Insert
    <3>3. QED
      BY <3>2 DEF Promise!Next
  <2>4. ASSUME NEW i \in Items, OfferStep(i) \/ Wakeup(i)
        PROVE  UNCHANGED Promise!vars
    <3>1. {j \in Items : offer'[j] # "idle"} = {j \in Items : offer[j] # "idle"}
      BY <2>4 DEF OfferStep, CheckIndex, CompareAndSwap, Wakeup, IInv, TypeOK
    <3>2. QED
      BY <2>4, <3>1 DEF OfferStep, CheckIndex, CompareAndSwap, Wakeup, Promise!vars
  <2>5. CASE Shift
    <3>1. root \in Heads(pq) /\ root \in Items /\ prio[root] <= now /\ item = NoItem
      BY <2>5 DEF Shift, IInv, TypeOK, HeadIsMinimal, Heads, Placement
    <3>2. {j \in Items : offer'[j] # "idle"} = {j \in Items : offer[j] # "idle"}
      BY <2>5 DEF Shift, IInv, TypeOK
    <3>3. Promise!Take(root)
      BY <2>5, <3>1, <3>2 DEF Shift, Heads, Promise!Take
    <3>4. QED
      BY <3>1, <3>3 DEF Promise!Next
  <2>6. CASE ReadNow \/ SleepEmpty \/ SleepDelta \/ ArmTimer \/ Timeout
             \/ SwapSleeping \/ ResetStates
    BY <2>6 DEF ReadNow, SleepEmpty, SleepDelta, ArmTimer, Timeout,
       SwapSleeping, ResetStates, Promise!vars
  <2>7. CASE Deliver
    BY <2>7 DEF Deliver, IInv, Placement, Promise!Next, Promise!HandOver
  <2>8. CASE PollExit
    BY <2>8 DEF PollExit, Promise!Next, Promise!Drop
  <2>9. CASE OfferReturns \/ ReceiverExit \/ UNCHANGED vars
    BY <2>9 DEF OfferReturns, ReceiverExit, vars, Promise!vars
  <2>10. QED
    BY <2>1, <2>2, <2>3, <2>4, <2>5, <2>6, <2>7, <2>8, <2>9
       DEF Next, PollStep, PeekAndShift
<1>3. QED
  BY <1>1, <1>2, Invariance, PTL DEF Spec, ImplementsDelayedSet, Promise!Spec
=============================================================================
