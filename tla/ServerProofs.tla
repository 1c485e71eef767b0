---------------------------- MODULE ServerProofs ----------------------------
(* Theorems about Server, for any number of connections, descriptors and   *)
(* epollers, with the handshake and without it, on every schedule that is  *)
(* Timely: first of Server itself, then of what the application has been   *)
(* told, then, with the history of mix-ups, of the epoll goroutines.       *)
EXTENDS ServerHistory, TLAPS

-----------------------------------------------------------------------------
(* The inductive invariant.                                                *)

BeforeRemove == {"no", "onClose", "stopTimer", "clearTimer", "epollRemove",
                 "removConn"}

(* The accept goroutine has c and has not yet put it into the map.         *)
Entering(c) == \E e \in Epollers : acur[e] = c /\ apc[e] \in {"new", "addConn"}

(* NewTCPConn has not armed the heartbeat timer of c yet.                  *)
Fresh(c) == \E e \in Epollers : acur[e] = c /\ apc[e] = "new"

(* A connection that can be received on or closed has been accepted and    *)
(* put into the map.                                                       *)
Entered(c) == cfd[c] # Nil /\ ~Entering(c)

Accepting ==
  \A e \in Epollers :
    /\ acur[e] = Nil <=> apc[e] = "accept"
    /\ acur[e] # Nil => cfd[acur[e]] # Nil /\ home[acur[e]] = e

Receiving ==
  \A e \in Epollers :
    /\ epc[e] \notin {"wait", "next"} => ecur[e] # Nil
    /\ ecur[e] # Nil => Entered(ecur[e])

Closing ==
  \A c \in Conns :
    /\ closing[c] # "no" => Entered(c)
    /\ hb[c] = "armed" \/ stray[c] > 0 => cfd[c] # Nil
    /\ cfd[c] # Nil => home[c] \in Epollers

(* The kernel and the connections agree on the descriptors.                *)
Owners ==
  /\ \A f \in Fds : owner[f] # Nil => cfd[owner[f]] = f
  /\ \A c \in Conns :
       cfd[c] # Nil /\ closing[c] \in BeforeRemove \cup {"rawClose"}
         => owner[cfd[c]] = c

(* The map has exactly the connections that have entered and not left it.  *)
Mapped ==
  /\ \A f \in Fds :
       conns[f] # Nil => /\ owner[f] = conns[f]
                         /\ closing[conns[f]] \in BeforeRemove
                         /\ Entered(conns[f])
  /\ \A c \in Conns :
       Entered(c) /\ closing[c] \in BeforeRemove => conns[cfd[c]] = c

(* What is not being closed is registered, and a timer watches it.         *)
Watched ==
  \A c \in Conns : cfd[c] # Nil /\ closing[c] = "no" =>
    /\ (\A e \in Epollers : acur[e] # c) => cfd[c] \in reg[home[c]]
    /\ ~Fresh(c) => \/ hb[c] = "armed"
                    \/ \E e \in Epollers : ecur[e] = c /\ epc[e] = "armTimer"

IInv == TypeOK /\ Accepting /\ Receiving /\ Closing /\ Owners /\ Mapped /\ Watched

-----------------------------------------------------------------------------
(* Type correctness.                                                       *)

(* The order of the body of Close, step by step.                           *)
LEMMA CloseOrder ==
  /\ AfterStep("no") = "onClose" /\ AfterStep("onClose") = "stopTimer"
  /\ AfterStep("stopTimer") = "clearTimer"
  /\ AfterStep("clearTimer") = "epollRemove"
  /\ AfterStep("epollRemove") = "removConn" /\ AfterStep("removConn") = "rawClose"
  /\ AfterStep("rawClose") = "reset" /\ AfterStep("reset") = "done"
  BY DEF AfterStep

(* once.Do changes at most the connection on which Close is called, and    *)
(* that only when nobody has called it before.                             *)
LEMMA StartTyped ==
  ASSUME closing \in [Conns -> CloseStates], NEW c, StartClose(c)
  PROVE  /\ closing' \in [Conns -> CloseStates]
         /\ \A d \in Conns : \/ closing'[d] = closing[d]
                             \/ d = c /\ closing[d] = "no" /\ closing'[d] = "onClose"
  BY CloseOrder DEF StartClose, CloseStates

(* A goroutine that is at work on a connection has one.                    *)
LEMMA HasConn ==
  ASSUME TypeOK, Accepting, Receiving, NEW e \in Epollers
  PROVE  /\ apc[e] # "accept" => acur[e] \in Conns
         /\ epc[e] \notin {"wait", "next"} => ecur[e] \in Conns
  BY DEF TypeOK, Accepting, Receiving

LEMMA TypeStep == ASSUME TypeOK, Accepting, Receiving, Next PROVE TypeOK'
<1> USE ServerAssumption
    DEF ServerAssumption, TypeOK, kernelVars, connVars, serverVars, acceptVars,
        epollVars, CloseStates, AcceptStates, EpollStates
<1>1. ASSUME NEW c \in Conns, ClientSend(c) PROVE TypeOK'
  BY <1>1 DEF ClientSend
<1>2. ASSUME NEW c \in Conns, ClientClose(c) PROVE TypeOK'
  BY <1>2 DEF ClientClose
<1>3. ASSUME NEW c \in Conns, OnClose(c) PROVE TypeOK'
  BY <1>3, CloseOrder DEF OnClose, Advance
<1>4. ASSUME NEW c \in Conns, StopTimer(c) PROVE TypeOK'
  BY <1>4, CloseOrder DEF StopTimer, Advance, StopHb
<1>5. ASSUME NEW c \in Conns, ClearTimer(c) PROVE TypeOK'
  BY <1>5, CloseOrder DEF ClearTimer, Advance, SetHb
<1>6. ASSUME NEW c \in Conns, EpollRemove(c) PROVE TypeOK'
  BY <1>6, CloseOrder DEF EpollRemove, Advance
<1>7. ASSUME NEW c \in Conns, RemovConn(c) PROVE TypeOK'
  BY <1>7, CloseOrder DEF RemovConn, Advance
<1>8. ASSUME NEW c \in Conns, RawClose(c) PROVE TypeOK'
  BY <1>8, CloseOrder DEF RawClose, Advance
<1>9. ASSUME NEW c \in Conns, ResetFlag(c) PROVE TypeOK'
  BY <1>9, CloseOrder DEF ResetFlag, Advance
<1>10. ASSUME NEW c \in Conns, TimeOut(c) PROVE TypeOK'
  BY <1>10, StartTyped, SMTT(30) DEF TimeOut
<1>11. ASSUME NEW e \in Epollers, NewTCPConn(e) PROVE TypeOK'
  <2>1. /\ hb' \in [Conns -> {"none", "armed", "spent"}]
        /\ hasRecv' \in [Conns -> BOOLEAN]
        /\ apc' \in [Epollers -> AcceptStates]
    BY <1>11 DEF NewTCPConn
  <2>2. up' \subseteq Fds /\ announced' \subseteq Conns
    <3>1. acur[e] \in Conns /\ cfd[acur[e]] \in Fds
      BY <1>11, HasConn DEF NewTCPConn, Accepting
    <3>2. QED
      BY <1>11, <3>1 DEF NewTCPConn, Connect
  <2>3. QED
    BY <1>11, <2>1, <2>2 DEF NewTCPConn
<1>12. ASSUME NEW e \in Epollers, AddConn(e) PROVE TypeOK'
  BY <1>12 DEF AddConn
<1>13. ASSUME NEW e \in Epollers, EpollAdd(e) PROVE TypeOK'
  <2>1. reg' \in [Epollers -> SUBSET Fds]
    <3>1. acur[e] \in Conns /\ cfd[acur[e]] \in Fds
      BY <1>13, HasConn DEF EpollAdd, Accepting
    <3>2. QED
      BY <1>13, <3>1 DEF EpollAdd
  <2>2. closing' \in [Conns -> CloseStates]
    BY <1>13, StartTyped DEF EpollAdd
  <2>3. apc' \in [Epollers -> AcceptStates] /\ acur' \in [Epollers -> Conns \cup {Nil}]
    BY <1>13, SMTT(30) DEF EpollAdd
  <2>4. QED
    BY <1>13, <2>1, <2>2, <2>3 DEF EpollAdd
<1>14. ASSUME NEW e \in Epollers, AcceptAgain(e) PROVE TypeOK'
  BY <1>14 DEF AcceptAgain
<1>15. ASSUME NEW e \in Epollers, Wait(e) PROVE TypeOK'
  BY <1>15 DEF Wait
<1>16. ASSUME NEW e \in Epollers, Lookup(e) PROVE TypeOK'
  <2>1. PICK f \in batch[e] :
          /\ batch' = [batch EXCEPT ![e] = @ \ {f}]
          /\ IF conns[f] = Nil
               THEN Done(e) /\ UNCHANGED ecur
               ELSE /\ ecur' = [ecur EXCEPT ![e] = conns[f]]
                    /\ epc' = [epc EXCEPT ![e] = "read"]
    BY <1>16 DEF Lookup
  <2>2. f \in Fds /\ batch' \in [Epollers -> SUBSET Fds]
    BY <2>1
  <2>3. ecur' \in [Epollers -> Conns \cup {Nil}]
    BY <2>1, <2>2
  <2>4. epc' \in [Epollers -> EpollStates]
    BY <2>1 DEF Done
  <2>5. QED
    BY <1>16, <2>2, <2>3, <2>4 DEF Lookup
<1>17. ASSUME NEW e \in Epollers, Read(e) PROVE TypeOK'
  BY <1>17, StartTyped DEF Read
<1>18. ASSUME NEW e \in Epollers, DoRecvReturns(e) PROVE TypeOK'
  BY <1>18 DEF DoRecvReturns, Done
<1>19. ASSUME NEW e \in Epollers, Message(e) PROVE TypeOK'
  BY <1>19, StartTyped DEF Message
<1>20. ASSUME NEW e \in Epollers, CloseReturns(e) PROVE TypeOK'
  BY <1>20 DEF CloseReturns
<1>21. ASSUME NEW e \in Epollers, StopHbTimer(e) PROVE TypeOK'
  BY <1>21 DEF StopHbTimer, StopHb
<1>22. ASSUME NEW e \in Epollers, ArmHbTimer(e) PROVE TypeOK'
  <2>1. hb' \in [Conns -> {"none", "armed", "spent"}] /\ stray' \in [Conns -> Nat]
    <3>1. ecur[e] \in Conns
      BY <1>22, HasConn DEF ArmHbTimer
    <3>2. hb' \in [Conns -> {"none", "armed", "spent"}]
      BY <1>22 DEF ArmHbTimer, SetHb
    <3>3. stray[ecur[e]] \in Nat /\ stray[ecur[e]] + 1 \in Nat
      BY <3>1
    <3>4. QED
      BY <1>22, <3>2, <3>3 DEF ArmHbTimer, SetHb
  <2>2. epc' \in [Epollers -> EpollStates]
    BY <1>22 DEF ArmHbTimer
  <2>3. QED
    BY <1>22, <2>1, <2>2 DEF ArmHbTimer
<1>23. ASSUME NEW e \in Epollers, SendMsg(e) PROVE TypeOK'
  BY <1>23 DEF SendMsg
<1>24. ASSUME NEW e \in Epollers, Greet(e) PROVE TypeOK'
  <2>1. ecur[e] \in Conns /\ greeted' \subseteq Conns
    BY <1>24, HasConn DEF Greet, Building
  <2>2. closing' \in [Conns -> CloseStates] /\ epc' \in [Epollers -> EpollStates]
    BY <1>24, StartTyped DEF Greet, Building
  <2>3. QED
    BY <1>24, <2>1, <2>2 DEF Greet
<1>25. ASSUME NEW e \in Epollers, Agree(e) PROVE TypeOK'
  BY <1>25 DEF Agree, Building
<1>26. ASSUME NEW e \in Epollers, Announce(e) PROVE TypeOK'
  <2>1. ecur[e] \in Conns /\ cfd[ecur[e]] \in Fds
    BY <1>26, HasConn, SMTT(30) DEF Announce, Receiving, Entered
  <2>2. QED
    BY <1>26, <2>1 DEF Announce, Connect
<1>27. ASSUME NEW e \in Epollers, DropPacket(e) PROVE TypeOK'
  BY <1>27 DEF DropPacket, Building
<1>28. ASSUME NEW e \in Epollers, CutCache(e) PROVE TypeOK'
  <2>1. cache' \in [Conns -> Nat]
    <3>1. ecur[e] \in Conns
      BY <1>28, HasConn DEF CutCache
    <3>2. cache[ecur[e]] # 0 => cache[ecur[e]] - 1 \in Nat
      BY <3>1
    <3>3. QED
      BY <1>28, <3>1, <3>2 DEF CutCache
  <2>2. epc' \in [Epollers -> EpollStates]
    BY <1>28 DEF CutCache
  <2>3. QED
    BY <1>28, <2>1, <2>2 DEF CutCache
<1>29. ASSUME NEW f \in Fds, CloseConn(f) PROVE TypeOK'
  BY <1>29, StartTyped DEF CloseConn
<1>30. ASSUME NEW e \in Epollers, NEW c \in Conns, NEW f \in Fds, Accept(e, c, f)
     PROVE  TypeOK'
  BY <1>30 DEF Accept
<1>31. ASSUME Dispatch PROVE TypeOK'
  BY <1>31 DEF Dispatch
<1>32. ASSUME NEW e \in Epollers, BadPacket(e) \/ AckError(e) PROVE TypeOK'
  BY <1>32, StartTyped, SMTT(30) DEF BadPacket, AckError, Building
<1>33. QED
  BY <1>1, <1>2, <1>3, <1>4, <1>5, <1>6, <1>7, <1>8, <1>9, <1>10, <1>11, <1>12, <1>13, <1>14, <1>15, <1>16, <1>17, <1>18, <1>19, <1>20, <1>21, <1>22, <1>23, <1>24, <1>25, <1>26, <1>27, <1>28, <1>29, <1>30, <1>31, <1>32
  DEF Next, CloseStep, AcceptStep, EpollStep

-----------------------------------------------------------------------------
(* What the steps have in common.                                          *)

(* Outside the accept goroutines nobody enters.                            *)
LEMMA StillEntered ==
  ASSUME UNCHANGED <<cfd, apc, acur>>, NEW c
  PROVE  /\ Entering(c)' <=> Entering(c)
         /\ Entered(c)' <=> Entered(c)
         /\ Fresh(c)' <=> Fresh(c)
  BY DEF Entering, Entered, Fresh

(* A step that at most moves connections along in Close, short of the      *)
(* steps that take them out of the map and release the descriptor.         *)
LEMMA MovesInClose ==
  ASSUME IInv, TypeOK', UNCHANGED <<owner, cfd, home, conns, apc, acur>>,
         \A d \in Conns :
           \/ closing'[d] = closing[d]
           \/ /\ Entered(d)
              /\ closing'[d] \in BeforeRemove <=> closing[d] \in BeforeRemove
              /\ closing'[d] = "rawClose" <=> closing[d] = "rawClose",
         \A d \in Conns : hb'[d] = "armed" \/ stray'[d] > 0 => cfd[d] # Nil
  PROVE  Accepting' /\ Closing' /\ Owners' /\ Mapped'
<1> USE DEF IInv
<1>1. \A d : (Entering(d)' <=> Entering(d)) /\ (Entered(d)' <=> Entered(d))
  BY StillEntered
<1>2. Accepting'
  BY DEF Accepting
<1>3. Closing'
  <2> SUFFICES ASSUME NEW d \in Conns
               PROVE  /\ closing'[d] # "no" => Entered(d)
                      /\ hb'[d] = "armed" \/ stray'[d] > 0 => cfd[d] # Nil
                      /\ cfd[d] # Nil => home[d] \in Epollers
    BY <1>1 DEF Closing
  <2>1. QED
    BY DEF Closing
<1>4. Owners'
  BY DEF Owners
<1>5. Mapped'
  <2>1. ASSUME NEW f \in Fds, conns[f] # Nil
        PROVE  /\ owner[f] = conns[f] /\ closing'[conns[f]] \in BeforeRemove
               /\ Entered(conns[f])
    BY <2>1 DEF Mapped, TypeOK
  <2>2. ASSUME NEW c \in Conns, Entered(c), closing'[c] \in BeforeRemove
        PROVE  conns[cfd[c]] = c
    BY <2>2 DEF Mapped
  <2>3. QED
    BY <1>1, <2>1, <2>2 DEF Mapped
<1>6. QED
  BY <1>2, <1>3, <1>4, <1>5

(* A step of the epoll goroutines, or of nobody who receives.              *)
LEMMA Receives ==
  ASSUME UNCHANGED <<cfd, apc, acur>>,
         \A e \in Epollers : /\ epc'[e] \notin {"wait", "next"} => ecur'[e] # Nil
                             /\ ecur'[e] # Nil => Entered(ecur'[e])
  PROVE  Receiving'
  BY StillEntered DEF Receiving

(* A step that neither closes, nor takes a registration or a timer away    *)
(* from a connection that is not being closed.                             *)
LEMMA StaysWatched ==
  ASSUME IInv, UNCHANGED <<cfd, home, apc, acur>>,
         \A d \in Conns :
           closing'[d] = "no" /\ cfd[d] # Nil =>
             /\ closing[d] = "no"
             /\ cfd[d] \in reg[home[d]] => cfd[d] \in reg'[home[d]]
             /\ hb[d] = "armed" => hb'[d] = "armed",
         \A e \in Epollers :
           epc[e] = "armTimer" => epc'[e] = "armTimer" /\ ecur'[e] = ecur[e]
  PROVE  Watched'
<1>1. \A d : Fresh(d)' <=> Fresh(d)
  BY StillEntered
<1>2. ASSUME NEW d \in Conns, cfd[d] # Nil, closing'[d] = "no",
             \A e \in Epollers : acur[e] # d
      PROVE  cfd[d] \in reg'[home[d]]
  BY <1>2 DEF IInv, Watched
<1>3. ASSUME NEW d \in Conns, cfd[d] # Nil, closing'[d] = "no", ~Fresh(d)
      PROVE  hb'[d] = "armed" \/ \E e \in Epollers : ecur'[e] = d /\ epc'[e] = "armTimer"
  BY <1>3 DEF IInv, Watched
<1>4. QED
  BY <1>1, <1>2, <1>3 DEF Watched

(* Calls of Close on a connection that has entered.                        *)
LEMMA Called ==
  ASSUME IInv, NEW c \in Conns, Entered(c), StartClose(c)
  PROVE  \A d \in Conns :
           \/ closing'[d] = closing[d]
           \/ /\ Entered(d) /\ closing[d] = "no" /\ closing'[d] # "no"
              /\ closing'[d] \in BeforeRemove <=> closing[d] \in BeforeRemove
              /\ closing'[d] = "rawClose" <=> closing[d] = "rawClose"
  BY StartTyped DEF IInv, TypeOK, BeforeRemove

(* The last step of every proof below.                                     *)
LEMMA Together ==
  ASSUME TypeOK', Accepting', Receiving', Closing', Owners', Mapped', Watched'
  PROVE  IInv'
  BY DEF IInv

(* The same for steps of the accept goroutines, after which connections    *)
(* have entered.                                                           *)
LEMMA StillReceiving ==
  ASSUME TypeOK, Receiving, UNCHANGED <<epc, ecur>>,
         \A d \in Conns : Entered(d) => Entered(d)'
  PROVE  Receiving'
<1>1. ASSUME NEW g \in Epollers, ecur[g] # Nil PROVE Entered(ecur[g])'
  <2>1. PICK d \in Conns : d = ecur[g]
    BY <1>1 DEF TypeOK
  <2>2. Entered(d)'
    BY <1>1, <2>1 DEF Receiving
  <2>3. QED
    BY <2>1, <2>2 DEF Entered, Entering
<1>2. QED
  BY <1>1 DEF Receiving

LEMMA MapOf ==
  ASSUME TypeOK',
         \A f \in Fds, d \in Conns :
           conns'[f] = d => owner'[f] = d /\ closing'[d] \in BeforeRemove /\ Entered(d)',
         \A d \in Conns :
           Entered(d)' /\ closing'[d] \in BeforeRemove => conns'[cfd'[d]] = d
  PROVE  Mapped'
<1>1. ASSUME NEW f \in Fds, conns'[f] # Nil
      PROVE  /\ owner'[f] = conns'[f] /\ closing'[conns'[f]] \in BeforeRemove
             /\ Entered(conns[f])'
  <2>1. PICK d \in Conns : d = conns'[f]
    BY <1>1 DEF TypeOK
  <2>2. owner'[f] = d /\ closing'[d] \in BeforeRemove /\ Entered(d)'
    BY <2>1
  <2>3. QED
    BY <2>1, <2>2 DEF Entered, Entering
<1>2. QED
  BY <1>1 DEF Mapped

-----------------------------------------------------------------------------
(* The steps, group by group.                                              *)

(* Clients, the application, and Close up to the end of the map's entry.   *)
LEMMA OthersStep ==
  ASSUME IInv, TypeOK', Timely,
         \/ Dispatch
         \/ \E c \in Conns : ClientSend(c) \/ ClientClose(c) \/ TimeOut(c)
         \/ \E f \in Fds : CloseConn(f)
  PROVE  IInv'
<1> USE DEF kernelVars, connVars, serverVars, acceptVars, epollVars
<1>1. CASE \/ Dispatch
           \/ \E c \in Conns : ClientSend(c) \/ ClientClose(c)
  <2>1. UNCHANGED <<owner, reg, cfd, home, hb, stray, closing, conns, apc, acur,
                    epc, ecur>>
    BY <1>1 DEF Dispatch, ClientSend, ClientClose
  <2>2. Accepting' /\ Closing' /\ Owners' /\ Mapped'
    BY <2>1, MovesInClose DEF IInv, Closing
  <2>3. Receiving'
    BY <2>1, Receives DEF IInv, Receiving
  <2>4. Watched'
    BY <2>1, StaysWatched
  <2>5. QED
    BY <2>2, <2>3, <2>4, Together
<1>2. ASSUME NEW c \in Conns, TimeOut(c) PROVE IInv'
  <2>1. UNCHANGED <<owner, reg, cfd, home, conns, apc, acur, epc, ecur>>
    BY <1>2 DEF TimeOut
  <2>2. StartClose(c) /\ (hb[c] = "armed" \/ stray[c] > 0)
    BY <1>2 DEF TimeOut
  <2>3. cfd[c] # Nil
    BY <2>2 DEF IInv, Closing
  <2>4. closing[c] = "no" => closing'[c] = "onClose"
    BY <2>2, CloseOrder DEF StartClose, IInv, TypeOK
  <2>5. Entered(c)
    <3>1. CASE closing[c] # "no"
      BY <3>1 DEF IInv, Closing
    <3>2. CASE closing[c] = "no"
      <4>1. Pushed(c)
        BY <3>2, <2>1, <2>4 DEF Pushed
      <4>2. \A e \in Epollers : acur[e] # c
        BY <4>1 DEF Timely
      <4>3. QED
        BY <2>3, <4>2 DEF Entered, Entering
    <3>3. QED
      BY <3>1, <3>2
  <2>6. \A d \in Conns :
           \/ closing'[d] = closing[d]
           \/ /\ Entered(d) /\ closing[d] = "no" /\ closing'[d] # "no"
              /\ closing'[d] \in BeforeRemove <=> closing[d] \in BeforeRemove
              /\ closing'[d] = "rawClose" <=> closing[d] = "rawClose"
    BY <2>2, <2>5, Called
  <2>7. \A d \in Conns : hb'[d] = "armed" \/ stray'[d] > 0 => cfd[d] # Nil
    BY <1>2, <2>3 DEF TimeOut, IInv, TypeOK, Closing
  <2>8. \A d \in Conns : closing'[d] = "no" => closing[d] = "no" /\ hb'[d] = hb[d]
    <3>1. closing'[c] # "no"
      BY <2>4, <2>6
    <3>2. \A d \in Conns \ {c} : hb'[d] = hb[d]
      BY <1>2 DEF TimeOut, IInv, TypeOK
    <3>3. QED
      BY <2>6, <3>1, <3>2
  <2>9. Accepting' /\ Closing' /\ Owners' /\ Mapped'
    BY <2>1, <2>6, <2>7, MovesInClose
  <2>10. Receiving'
    BY <2>1, Receives DEF IInv, Receiving
  <2>11. Watched'
    BY <2>1, <2>8, StaysWatched
  <2>12. QED
    BY <2>9, <2>10, <2>11, Together
<1>3. ASSUME NEW f \in Fds, CloseConn(f) PROVE IInv'
  <2>1. UNCHANGED <<owner, reg, cfd, home, hb, stray, conns, apc, acur, epc, ecur>>
    BY <1>3 DEF CloseConn
  <2>2. conns[f] \in Conns /\ Entered(conns[f]) /\ StartClose(conns[f])
    BY <1>3 DEF CloseConn, IInv, TypeOK, Mapped
  <2>3. \A d \in Conns :
           \/ closing'[d] = closing[d]
           \/ /\ Entered(d) /\ closing[d] = "no" /\ closing'[d] # "no"
              /\ closing'[d] \in BeforeRemove <=> closing[d] \in BeforeRemove
              /\ closing'[d] = "rawClose" <=> closing[d] = "rawClose"
    BY <2>2, Called
  <2>4. Accepting' /\ Closing' /\ Owners' /\ Mapped'
    BY <2>1, <2>3, MovesInClose DEF IInv, Closing
  <2>5. Receiving'
    BY <2>1, Receives DEF IInv, Receiving
  <2>6. Watched'
    BY <2>1, <2>3, StaysWatched
  <2>7. QED
    BY <2>4, <2>5, <2>6, Together
<1>4. QED
  BY <1>1, <1>2, <1>3

(* The body of Close.                                                      *)
LEMMA CloseBodyStep ==
  ASSUME IInv, TypeOK', NEW c \in Conns, CloseStep(c)
  PROVE  IInv'
<1> USE DEF kernelVars, connVars, serverVars, acceptVars, epollVars
<1>1. PICK s \in CloseStates \ {"no", "done"} : Advance(c, s)
  BY DEF CloseStep, OnClose, StopTimer, ClearTimer, EpollRemove, RemovConn,
         RawClose, ResetFlag, CloseStates
<1>2. /\ closing[c] = s /\ closing'[c] = AfterStep(s)
      /\ \A d \in Conns \ {c} : closing'[d] = closing[d]
  BY <1>1 DEF Advance, IInv, TypeOK
<1>3. closing'[c] # "no"
  BY <1>1, <1>2, CloseOrder DEF CloseStates
<1>4. Entered(c) /\ cfd[c] # Nil
  BY <1>1, <1>2 DEF IInv, Closing, Entered
<1>5. /\ UNCHANGED <<cfd, home, apc, acur, epc, ecur>>
      /\ s # "removConn" => UNCHANGED conns
      /\ s # "rawClose" => UNCHANGED owner
  BY <1>1 DEF Advance, CloseStep, OnClose, StopTimer, ClearTimer, EpollRemove,
         RemovConn, RawClose, ResetFlag
<1>6. Receiving'
  BY <1>5, Receives DEF IInv, Receiving
<1>7. \A d \in Conns : hb'[d] = "armed" \/ stray'[d] > 0 => cfd[d] # Nil
  <2>1. \A d \in Conns \ {c} : hb'[d] = hb[d] /\ stray'[d] = stray[d]
    BY DEF CloseStep, OnClose, StopTimer, ClearTimer, EpollRemove, RemovConn,
           RawClose, ResetFlag, StopHb, SetHb, IInv, TypeOK
  <2>2. QED
    BY <1>4, <2>1 DEF IInv, Closing
(* The descriptor of another connection that has not come as far as its    *)
(* own rawConn.Close is another one.                                       *)
<1>8. s # "reset" =>
        \A d \in Conns \ {c} :
          cfd[d] # Nil /\ closing[d] \in BeforeRemove \cup {"rawClose"} => cfd[d] # cfd[c]
  <2>1. s # "reset" => s \in BeforeRemove \cup {"rawClose"}
    BY <1>1 DEF CloseStates, BeforeRemove
  <2>2. QED
    BY <1>2, <1>4, <2>1 DEF IInv, Owners
<1>9. Watched'
  <2>1. \A d \in Conns \ {c} : hb'[d] = hb[d]
    BY DEF CloseStep, OnClose, StopTimer, ClearTimer, EpollRemove, RemovConn,
           RawClose, ResetFlag, StopHb, SetHb, IInv, TypeOK
  <2>2. ASSUME NEW d \in Conns \ {c}, cfd[d] # Nil, closing[d] = "no",
               cfd[d] \in reg[home[d]]
        PROVE  cfd[d] \in reg'[home[d]]
    <3>1. home[d] \in Epollers
      BY <2>2 DEF IInv, Closing
    <3>2. CASE EpollRemove(c) \/ RawClose(c)
      <4>1. s # "reset"
        BY <1>1, <1>2, <3>2 DEF EpollRemove, RawClose, Advance
      <4>2. cfd[d] # cfd[c]
        BY <1>8, <2>2, <4>1 DEF BeforeRemove
      <4>3. reg[home[d]] \ {cfd[c]} \subseteq reg'[home[d]]
        <5>1. CASE EpollRemove(c)
          BY <3>1, <5>1 DEF EpollRemove, IInv, TypeOK
        <5>2. CASE RawClose(c)
          BY <3>1, <5>2 DEF RawClose, IInv, TypeOK
        <5>3. QED
          BY <3>2, <5>1, <5>2
      <4>4. QED
        BY <2>2, <4>2, <4>3
    <3>3. CASE ~EpollRemove(c) /\ ~RawClose(c)
      BY <2>2, <3>3 DEF CloseStep, OnClose, StopTimer, ClearTimer, RemovConn, ResetFlag
    <3>4. QED
      BY <3>2, <3>3
  <2>3. QED
    BY <1>2, <1>3, <1>5, <2>1, <2>2, StaysWatched
<1>10. Accepting' /\ Closing' /\ Owners' /\ Mapped'
  <2>1. CASE s \notin {"removConn", "rawClose"}
    <3>1. /\ closing'[c] \in BeforeRemove <=> closing[c] \in BeforeRemove
          /\ closing'[c] = "rawClose" <=> closing[c] = "rawClose"
      BY <1>1, <1>2, <2>1, CloseOrder DEF CloseStates, BeforeRemove
    <3>2. QED
      BY <1>2, <1>4, <1>5, <1>7, <2>1, <3>1, MovesInClose
  <2>2. CASE s \in {"removConn", "rawClose"}
    <3>1. \A d : (Entering(d)' <=> Entering(d)) /\ (Entered(d)' <=> Entered(d))
      BY <1>5, StillEntered
    <3>2. closing'[c] \notin BeforeRemove
      BY <1>2, <2>2, CloseOrder DEF BeforeRemove
    <3>3. Accepting'
      BY <1>5 DEF IInv, Accepting
    <3>4. Closing'
      BY <1>2, <1>4, <1>5, <1>7, <3>1 DEF IInv, Closing
    <3>5. cfd[c] \in Fds
      BY <1>4 DEF IInv, TypeOK
    <3>6. CASE s = "removConn"
      <4>1. RemovConn(c)
        BY <1>2, <3>6 DEF CloseStep, OnClose, StopTimer, ClearTimer, EpollRemove,
               RawClose, ResetFlag, Advance
      <4>2. UNCHANGED owner /\ closing'[c] = "rawClose"
        BY <1>2, <1>5, <3>6, CloseOrder
      <4>3. Owners'
        BY <1>2, <1>5, <3>6, <4>2 DEF IInv, Owners, BeforeRemove
      <4>4. \A f \in Fds : conns'[f] = IF f = cfd[c] THEN Nil ELSE conns[f]
        BY <4>1 DEF RemovConn, IInv, TypeOK
      <4>5. ASSUME NEW f \in Fds, conns'[f] # Nil
            PROVE  /\ owner'[f] = conns'[f] /\ closing'[conns'[f]] \in BeforeRemove
                   /\ Entered(conns'[f])
        <5>1. f # cfd[c] /\ conns'[f] = conns[f] /\ conns[f] \in Conns
          BY <4>4, <4>5 DEF IInv, TypeOK
        <5>2. owner[f] = conns[f] /\ closing[conns[f]] \in BeforeRemove /\ Entered(conns[f])
          BY <5>1, <4>5 DEF IInv, Mapped
        <5>3. conns[f] # c
          BY <5>1, <5>2, <4>5 DEF IInv, Owners
        <5>4. QED
          BY <1>2, <4>2, <5>1, <5>2, <5>3
      <4>6. ASSUME NEW d \in Conns, Entered(d), closing'[d] \in BeforeRemove
            PROVE  conns'[cfd[d]] = d
        <5>1. d # c /\ closing[d] \in BeforeRemove
          BY <1>2, <3>2, <4>6
        <5>2. cfd[d] \in Fds /\ cfd[d] # cfd[c]
          BY <1>8, <3>6, <4>6, <5>1 DEF Entered, IInv, TypeOK
        <5>3. QED
          BY <4>4, <4>6, <5>1, <5>2 DEF IInv, Mapped
      <4>7. Mapped'
        BY <1>5, <3>1, <4>5, <4>6 DEF Mapped
      <4>8. QED
        BY <3>3, <3>4, <4>3, <4>7
    <3>7. CASE s = "rawClose"
      <4>1. RawClose(c)
        BY <1>2, <3>7 DEF CloseStep, OnClose, StopTimer, ClearTimer, EpollRemove,
               RemovConn, ResetFlag, Advance
      <4>2. UNCHANGED conns /\ closing'[c] = "reset"
        BY <1>2, <1>5, <3>7, CloseOrder
      <4>3. \A f \in Fds : owner'[f] = IF f = cfd[c] THEN Nil ELSE owner[f]
        BY <4>1 DEF RawClose, IInv, TypeOK
      <4>4. ASSUME NEW d \in Conns, cfd[d] # Nil,
                   closing'[d] \in BeforeRemove \cup {"rawClose"}
            PROVE  owner'[cfd[d]] = d
        <5>1. d # c /\ closing[d] \in BeforeRemove \cup {"rawClose"}
          BY <1>2, <4>2, <4>4 DEF BeforeRemove
        <5>2. cfd[d] \in Fds /\ cfd[d] # cfd[c]
          BY <1>8, <3>7, <4>4, <5>1 DEF IInv, TypeOK
        <5>3. QED
          BY <4>3, <4>4, <5>1, <5>2 DEF IInv, Owners
      <4>5. Owners'
        BY <1>5, <4>3, <4>4 DEF IInv, Owners
      <4>6. ASSUME NEW f \in Fds, conns[f] # Nil
            PROVE  /\ owner'[f] = conns[f] /\ closing'[conns[f]] \in BeforeRemove
                   /\ Entered(conns[f])
        <5>1. /\ conns[f] \in Conns /\ owner[f] = conns[f]
              /\ closing[conns[f]] \in BeforeRemove /\ Entered(conns[f])
          BY <4>6 DEF IInv, Mapped, TypeOK
        <5>2. conns[f] # c
          BY <1>2, <3>7, <5>1 DEF BeforeRemove
        <5>3. f # cfd[c]
          BY <1>2, <1>4, <3>7, <5>1, <5>2 DEF IInv, Owners
        <5>4. QED
          BY <1>2, <4>3, <5>1, <5>2, <5>3
      <4>7. ASSUME NEW d \in Conns, Entered(d), closing'[d] \in BeforeRemove
            PROVE  conns[cfd[d]] = d
        BY <1>2, <3>2, <4>7 DEF IInv, Mapped
      <4>8. Mapped'
        BY <1>5, <3>1, <4>2, <4>6, <4>7 DEF Mapped
      <4>9. QED
        BY <3>3, <3>4, <4>5, <4>8
    <3>8. QED
      BY <2>2, <3>6, <3>7
  <2>3. QED
    BY <2>1, <2>2
<1>11. QED
  BY <1>6, <1>9, <1>10, Together

(* The epoll goroutines.                                                   *)
LEMMA EpollGoroutineStep ==
  ASSUME IInv, TypeOK', NEW e \in Epollers, EpollStep(e)
  PROVE  IInv'
<1> USE DEF kernelVars, connVars, serverVars, acceptVars, epollVars
<1>1. UNCHANGED <<owner, reg, cfd, home, conns, apc, acur>>
  BY DEF EpollStep, Wait, Lookup, Read, DoRecvReturns, Message, CloseReturns,
         StopHbTimer, ArmHbTimer, SendMsg, BadPacket, Greet, Agree,
         Announce, AckError, DropPacket, CutCache, Building
<1>2. \A d \in Epollers \ {e} : epc'[d] = epc[d] /\ ecur'[d] = ecur[d]
  BY DEF EpollStep, Wait, Lookup, Read, DoRecvReturns, Message, CloseReturns,
         StopHbTimer, ArmHbTimer, SendMsg, BadPacket, Greet, Agree,
         Announce, AckError, DropPacket, CutCache, Building, Done, IInv, TypeOK
<1>3. epc[e] \notin {"wait", "next"} => ecur[e] \in Conns /\ Entered(ecur[e])
  BY DEF IInv, TypeOK, Receiving
<1>4. /\ epc'[e] \notin {"wait", "next"} => ecur'[e] # Nil
      /\ ecur'[e] # Nil => Entered(ecur'[e])
  <2>1. CASE Wait(e)
    BY <2>1 DEF Wait, IInv, TypeOK, Receiving
  <2>2. CASE Lookup(e)
    <3>1. PICK f \in batch[e] :
            IF conns[f] = Nil
              THEN Done(e) /\ UNCHANGED ecur
              ELSE /\ ecur' = [ecur EXCEPT ![e] = conns[f]]
                   /\ epc' = [epc EXCEPT ![e] = "read"]
      BY <2>2 DEF Lookup
    <3>2. CASE conns[f] = Nil
      <4>1. epc'[e] \in {"wait", "next"} /\ ecur'[e] = ecur[e]
        BY <3>1, <3>2 DEF Done, IInv, TypeOK
      <4>2. QED
        BY <4>1 DEF IInv, Receiving
    <3>3. CASE conns[f] # Nil
      <4>1. f \in Fds /\ ecur'[e] = conns[f]
        BY <3>1, <3>3 DEF IInv, TypeOK
      <4>2. QED
        BY <3>3, <4>1 DEF IInv, Mapped
    <3>4. QED
      BY <3>2, <3>3
  <2>3. CASE DoRecvReturns(e)
    BY <2>3 DEF DoRecvReturns, Done, IInv, TypeOK
  <2>4. CASE ~Wait(e) /\ ~Lookup(e) /\ ~DoRecvReturns(e)
    <3>1. epc[e] \notin {"wait", "next"} /\ UNCHANGED ecur
      BY <2>4 DEF EpollStep, Read, Message, CloseReturns, StopHbTimer, ArmHbTimer,
             SendMsg, BadPacket, Greet, Agree, Announce, AckError,
           DropPacket, CutCache, Building
    <3>2. QED
      BY <1>3, <3>1, ServerAssumption DEF ServerAssumption
  <2>5. QED
    BY <2>1, <2>2, <2>3, <2>4
<1>5. Receiving'
  <2>1. \A d \in Epollers : /\ epc'[d] \notin {"wait", "next"} => ecur'[d] # Nil
                            /\ ecur'[d] # Nil => Entered(ecur'[d])
    BY <1>2, <1>4 DEF IInv, Receiving
  <2>2. QED
    BY <1>1, <2>1, Receives
<1>6. CASE StopHbTimer(e) \/ ArmHbTimer(e)
  <2>1. ecur[e] \in Conns /\ Entered(ecur[e]) /\ UNCHANGED <<closing, ecur>>
    BY <1>3, <1>6 DEF StopHbTimer, ArmHbTimer
  <2>2. \A d \in Conns \ {ecur[e]} : hb'[d] = hb[d] /\ stray'[d] = stray[d]
    BY <1>6 DEF StopHbTimer, ArmHbTimer, StopHb, SetHb, IInv, TypeOK
  <2>3. \A d \in Conns : hb'[d] = "armed" \/ stray'[d] > 0 => cfd[d] # Nil
    BY <2>1, <2>2 DEF IInv, Closing, Entered
  <2>4. Accepting' /\ Closing' /\ Owners' /\ Mapped'
    BY <1>1, <2>1, <2>3, MovesInClose
  <2>5. \/ epc'[e] = "armTimer"
        \/ hb'[ecur[e]] = "armed"
    BY <1>6, <2>1 DEF StopHbTimer, ArmHbTimer, SetHb, IInv, TypeOK
  <2>6. Watched'
    <3>1. \A d : Fresh(d)' <=> Fresh(d)
      BY <1>1, StillEntered
    <3>2. ASSUME NEW d \in Conns, cfd[d] # Nil, closing[d] = "no", ~Fresh(d)
          PROVE  hb'[d] = "armed" \/ \E g \in Epollers : ecur'[g] = d /\ epc'[g] = "armTimer"
      <4>1. CASE d = ecur[e]
        BY <2>1, <2>5, <4>1
      <4>2. CASE d # ecur[e]
        BY <1>2, <2>1, <2>2, <3>2, <4>2 DEF IInv, Watched
      <4>3. QED
        BY <4>1, <4>2
    <3>3. QED
      BY <1>1, <2>1, <3>1, <3>2 DEF IInv, Watched
  <2>7. QED
    BY <1>5, <2>4, <2>6, Together
<1>7. CASE ~StopHbTimer(e) /\ ~ArmHbTimer(e)
  <2>1. UNCHANGED <<hb, stray>> /\ epc[e] # "armTimer"
    BY <1>7 DEF EpollStep, Wait, Lookup, Read, DoRecvReturns, Message, CloseReturns,
           SendMsg, BadPacket, Greet, Agree, Announce, AckError,
           DropPacket, CutCache, Building, ReturnFromRecv
  <2>2. UNCHANGED closing \/ (epc[e] \notin {"wait", "next"} /\ StartClose(ecur[e]))
    BY <1>7 DEF EpollStep, Wait, Lookup, Read, DoRecvReturns, Message, CloseReturns,
           SendMsg, BadPacket, Greet, Agree, Announce, AckError,
           DropPacket, CutCache, Building
  <2>3. \A d \in Conns :
           \/ closing'[d] = closing[d]
           \/ /\ Entered(d) /\ closing[d] = "no" /\ closing'[d] # "no"
              /\ closing'[d] \in BeforeRemove <=> closing[d] \in BeforeRemove
              /\ closing'[d] = "rawClose" <=> closing[d] = "rawClose"
    BY <1>3, <2>2, Called
  <2>4. Accepting' /\ Closing' /\ Owners' /\ Mapped'
    BY <1>1, <2>1, <2>3, MovesInClose DEF IInv, Closing
  <2>5. Watched'
    BY <1>1, <1>2, <2>1, <2>3, StaysWatched
  <2>6. QED
    BY <1>5, <2>4, <2>5, Together
<1>8. QED
  BY <1>6, <1>7

(* The accept goroutines.                                                  *)
LEMMA AcceptStepKeeps ==
  ASSUME IInv, TypeOK', NEW e \in Epollers, NEW c \in Conns, NEW f \in Fds,
         Accept(e, c, f)
  PROVE  IInv'
<1> USE ServerAssumption
    DEF ServerAssumption, kernelVars, connVars, serverVars, acceptVars, epollVars
<1>1. /\ cfd[c] = Nil /\ owner[f] = Nil /\ acur[e] = Nil
      /\ \A g \in Epollers : acur[g] # c
  BY DEF Accept, IInv, Accepting
<1>2. /\ cfd'[c] = f /\ home'[c] = e /\ owner'[f] = c
      /\ acur'[e] = c /\ apc'[e] = "new"
      /\ \A d \in Conns \ {c} : cfd'[d] = cfd[d] /\ home'[d] = home[d]
      /\ \A g \in Fds \ {f} : owner'[g] = owner[g]
      /\ \A g \in Epollers \ {e} : acur'[g] = acur[g] /\ apc'[g] = apc[g]
      /\ UNCHANGED <<reg, hb, stray, closing, conns, epc, ecur>>
  BY DEF Accept, IInv, TypeOK
<1>3. Entering(c)' /\ ~Entered(c) /\ ~Entered(c)'
  BY <1>1, <1>2 DEF Entering, Entered
<1>4. ASSUME NEW d \in Conns \ {c}
      PROVE  (Entering(d)' <=> Entering(d)) /\ (Entered(d)' <=> Entered(d))
  <2>1. Entering(d)' <=> Entering(d)
    BY <1>1, <1>2 DEF Entering
  <2>2. QED
    BY <1>2, <2>1 DEF Entered
<1>5. closing[c] = "no" /\ conns[f] = Nil
  BY <1>1, <1>3 DEF IInv, Closing, Mapped
<1>6. Accepting'
  BY <1>1, <1>2 DEF IInv, TypeOK, Accepting
<1>7. \A d \in Conns : Entered(d) => Entered(d)'
  BY <1>3, <1>4
<1>8. Receiving'
  BY <1>2, <1>7, StillReceiving DEF IInv
<1>9. Closing'
  BY <1>2, <1>4, <1>5 DEF IInv, Closing
<1>10. Owners'
  <2>1. ASSUME NEW g \in Fds, owner'[g] # Nil PROVE cfd'[owner'[g]] = g
    <3>1. CASE g = f
      BY <1>2, <3>1
    <3>2. CASE g # f
      <4>1. owner[g] \in Conns /\ owner'[g] = owner[g] /\ cfd[owner[g]] = g
        BY <1>2, <2>1, <3>2 DEF IInv, TypeOK, Owners
      <4>2. owner[g] # c
        BY <1>1, <4>1
      <4>3. QED
        BY <1>2, <4>1, <4>2
    <3>3. QED
      BY <3>1, <3>2
  <2>2. ASSUME NEW d \in Conns, cfd'[d] # Nil,
               closing[d] \in BeforeRemove \cup {"rawClose"}
        PROVE  owner'[cfd'[d]] = d
    <3>1. CASE d = c
      BY <1>2, <3>1
    <3>2. CASE d # c
      <4>1. cfd'[d] = cfd[d] /\ cfd[d] \in Fds /\ owner[cfd[d]] = d
        BY <1>2, <2>2, <3>2 DEF IInv, TypeOK, Owners
      <4>2. cfd[d] # f
        BY <1>1, <4>1
      <4>3. QED
        BY <1>2, <4>1, <4>2
    <3>3. QED
      BY <3>1, <3>2
  <2>3. QED
    BY <1>2, <2>1, <2>2 DEF Owners
<1>11. Mapped'
  <2>1. ASSUME NEW g \in Fds, NEW d \in Conns, conns[g] = d
        PROVE  owner'[g] = d /\ closing[d] \in BeforeRemove /\ Entered(d)'
    <3>1. owner[g] = d /\ g # f /\ closing[d] \in BeforeRemove /\ Entered(d)
      BY <1>5, <2>1 DEF IInv, Mapped
    <3>2. QED
      BY <1>2, <1>7, <3>1
  <2>2. ASSUME NEW d \in Conns, Entered(d)', closing[d] \in BeforeRemove
        PROVE  conns[cfd'[d]] = d
    <3>1. d # c
      BY <1>3, <2>2
    <3>2. QED
      BY <1>2, <1>4, <2>2, <3>1 DEF IInv, Mapped
  <2>3. QED
    BY <1>2, <2>1, <2>2, MapOf
<1>12. Watched'
  <2>1. ASSUME NEW d \in Conns \ {c}, cfd[d] # Nil, closing[d] = "no"
        PROVE  /\ (\A g \in Epollers : acur'[g] # d) => cfd[d] \in reg[home[d]]
               /\ ~Fresh(d)' =>
                     hb[d] = "armed" \/ \E g \in Epollers : ecur[g] = d /\ epc[g] = "armTimer"
    <3>1. Fresh(d)' <=> Fresh(d)
      BY <1>1, <1>2 DEF Fresh
    <3>2. QED
      BY <1>1, <1>2, <2>1, <3>1 DEF IInv, Watched
  <2>2. Fresh(c)'
    BY <1>2 DEF Fresh
  <2>3. QED
    BY <1>2, <2>1, <2>2 DEF Watched
<1>13. QED
  BY <1>6, <1>8, <1>9, <1>10, <1>11, <1>12, Together

LEMMA AcceptGoroutineStep ==
  ASSUME IInv, TypeOK', NEW e \in Epollers, AcceptStep(e)
  PROVE  IInv'
<1> USE ServerAssumption
    DEF ServerAssumption, kernelVars, connVars, serverVars, acceptVars, epollVars
(* Only e has c, and c has a descriptor.                                   *)
<1>1. PICK c \in Conns : c = acur[e]
  BY DEF AcceptStep, NewTCPConn, AddConn, EpollAdd, AcceptAgain, IInv, TypeOK, Accepting
<1>2. /\ cfd[c] \in Fds /\ home[c] = e /\ apc[e] # "accept"
      /\ \A g \in Epollers \ {e} : acur[g] # c
  BY <1>1 DEF AcceptStep, NewTCPConn, AddConn, EpollAdd, AcceptAgain, IInv, TypeOK,
     Accepting
<1>3. UNCHANGED <<owner, cfd, home, epc, ecur, stray>>
  BY DEF AcceptStep, NewTCPConn, AddConn, EpollAdd, AcceptAgain
<1>4. \A g \in Epollers \ {e} : acur'[g] = acur[g] /\ apc'[g] = apc[g]
  BY DEF AcceptStep, NewTCPConn, AddConn, EpollAdd, AcceptAgain, IInv, TypeOK
<1>5. \A d \in Conns \ {c} : closing'[d] = closing[d] /\ hb'[d] = hb[d]
  BY <1>1, StartTyped DEF AcceptStep, NewTCPConn, AddConn, EpollAdd, AcceptAgain,
         IInv, TypeOK
(* What becomes of e.                                                      *)
<1>6. \/ apc[e] = "new" /\ apc'[e] = "addConn" /\ acur'[e] = c
      \/ apc[e] = "addConn" /\ apc'[e] = "epollAdd" /\ acur'[e] = c
      \/ apc[e] = "epollAdd" /\ apc'[e] = "close" /\ acur'[e] = c
      \/ apc[e] \in {"epollAdd", "close"} /\ apc'[e] = "accept" /\ acur'[e] = Nil
  BY <1>1 DEF AcceptStep, NewTCPConn, AddConn, EpollAdd, AcceptAgain, IInv, TypeOK
<1>7. ASSUME NEW d \in Conns \ {c}
      PROVE  (Entering(d)' <=> Entering(d)) /\ (Entered(d)' <=> Entered(d))
  <2>1. acur[e] # d /\ acur'[e] # d
    BY <1>1, <1>6
  <2>2. Entering(d)' <=> Entering(d)
    BY <1>4, <2>1 DEF Entering
  <2>3. QED
    BY <1>3, <2>2 DEF Entered
<1>8. /\ Entering(c) <=> apc[e] \in {"new", "addConn"}
      /\ Entering(c)' <=> apc[e] = "new"
  <2>1. Entering(c) <=> apc[e] \in {"new", "addConn"}
    BY <1>1, <1>2 DEF Entering
  <2>2. Entering(c)' <=> acur'[e] = c /\ apc'[e] \in {"new", "addConn"}
    BY <1>2, <1>4 DEF Entering
  <2>3. QED
    BY <1>6, <2>1, <2>2
<1>9. /\ Entered(c) <=> apc[e] \notin {"new", "addConn"}
      /\ Entered(c)' <=> apc[e] # "new"
  BY <1>2, <1>3, <1>8 DEF Entered
<1>10. \/ closing'[c] = closing[c]
       \/ apc[e] = "epollAdd" /\ closing[c] = "no" /\ closing'[c] = "onClose"
  BY <1>1, StartTyped DEF AcceptStep, NewTCPConn, AddConn, EpollAdd, AcceptAgain,
         IInv, TypeOK
<1>11. Accepting'
  BY <1>2, <1>3, <1>4, <1>6 DEF IInv, Accepting
<1>12. \A d \in Conns : Entered(d) => Entered(d)'
  BY <1>7, <1>9
<1>13. Receiving'
  BY <1>3, <1>12, StillReceiving DEF IInv
<1>14. Closing'
  <2>1. closing'[c] # "no" => Entered(c)'
    BY <1>9, <1>10, <1>12 DEF IInv, Closing
  <2>2. \A d \in Conns : closing'[d] # "no" => Entered(d)'
    BY <1>5, <1>12, <2>1 DEF IInv, Closing
  <2>3. \A d \in Conns : hb'[d] = "armed" \/ stray'[d] > 0 => cfd[d] # Nil
    BY <1>2, <1>3, <1>5 DEF IInv, Closing
  <2>4. QED
    BY <1>3, <2>2, <2>3 DEF IInv, Closing
<1>15. \A d \in Conns : /\ closing'[d] \in BeforeRemove <=> closing[d] \in BeforeRemove
                        /\ closing'[d] = "rawClose" <=> closing[d] = "rawClose"
  BY <1>5, <1>10 DEF BeforeRemove
<1>16. Owners'
  BY <1>3, <1>15 DEF IInv, Owners
<1>17. Mapped'
  <2>1. CASE apc[e] = "addConn"
    <3>1. conns' = [conns EXCEPT ![cfd[c]] = c]
      BY <1>1, <2>1 DEF AcceptStep, NewTCPConn, AddConn, EpollAdd, AcceptAgain
    <3>2. \A g \in Fds : conns'[g] = IF g = cfd[c] THEN c ELSE conns[g]
      BY <1>2, <3>1 DEF IInv, TypeOK
    <3>3. closing[c] = "no" /\ owner[cfd[c]] = c
      <4>1. closing[c] = "no"
        BY <1>9, <2>1 DEF IInv, Closing
      <4>2. QED
        BY <1>2, <4>1 DEF IInv, Owners, BeforeRemove
    <3>4. closing'[c] \in BeforeRemove /\ Entered(c)'
      BY <1>9, <1>15, <2>1, <3>3 DEF BeforeRemove
    <3>5. ASSUME NEW g \in Fds, NEW d \in Conns, conns'[g] = d
          PROVE  owner'[g] = d /\ closing'[d] \in BeforeRemove /\ Entered(d)'
      <4>1. CASE g = cfd[c]
        BY <1>3, <3>2, <3>3, <3>4, <3>5, <4>1
      <4>2. CASE g # cfd[c]
        <5>1. conns[g] = d
          BY <3>2, <3>5, <4>2
        <5>2. owner[g] = d /\ closing[d] \in BeforeRemove /\ Entered(d)
          BY <5>1 DEF IInv, Mapped
        <5>3. QED
          BY <1>3, <1>12, <1>15, <5>2
      <4>3. QED
        BY <4>1, <4>2
    <3>6. ASSUME NEW d \in Conns, Entered(d)', closing'[d] \in BeforeRemove
          PROVE  conns'[cfd'[d]] = d
      <4>1. CASE d = c
        BY <1>2, <1>3, <3>2, <4>1
      <4>2. CASE d # c
        <5>1. Entered(d) /\ closing[d] \in BeforeRemove
          BY <1>7, <1>15, <3>6, <4>2
        <5>2. conns[cfd[d]] = d /\ owner[cfd[d]] = d /\ cfd[d] \in Fds
          BY <5>1 DEF IInv, Mapped, Owners, Entered, TypeOK
        <5>3. cfd[d] # cfd[c]
          BY <3>3, <4>2, <5>2
        <5>4. QED
          BY <1>3, <3>2, <5>2, <5>3
      <4>3. QED
        BY <4>1, <4>2
    <3>7. QED
      BY <3>5, <3>6, MapOf
  <2>2. CASE apc[e] # "addConn"
    <3>1. UNCHANGED conns
      BY <2>2 DEF AcceptStep, NewTCPConn, AddConn, EpollAdd, AcceptAgain
    <3>2. \A d \in Conns : Entered(d)' <=> Entered(d)
      BY <1>7, <1>9, <2>2
    <3>3. ASSUME NEW g \in Fds, NEW d \in Conns, conns'[g] = d
          PROVE  owner'[g] = d /\ closing'[d] \in BeforeRemove /\ Entered(d)'
      BY <1>3, <1>15, <3>1, <3>2, <3>3 DEF IInv, Mapped
    <3>4. ASSUME NEW d \in Conns, Entered(d)', closing'[d] \in BeforeRemove
          PROVE  conns'[cfd'[d]] = d
      BY <1>3, <1>15, <3>1, <3>2, <3>4 DEF IInv, Mapped
    <3>5. QED
      BY <3>3, <3>4, MapOf
  <2>3. QED
    BY <2>1, <2>2
<1>18. Watched'
  <2>1. \A d \in Conns : cfd[d] # Nil /\ cfd[d] \in reg[home[d]] => cfd[d] \in reg'[home[d]]
    <3>1. CASE EpollAdd(e)
      BY <3>1 DEF EpollAdd, IInv, TypeOK, Closing
    <3>2. CASE ~EpollAdd(e)
      BY <3>2 DEF AcceptStep, NewTCPConn, AddConn, AcceptAgain
    <3>3. QED
      BY <3>1, <3>2
  <2>2. ASSUME NEW d \in Conns \ {c}, cfd[d] # Nil, closing'[d] = "no"
        PROVE  /\ (\A g \in Epollers : acur'[g] # d) => cfd[d] \in reg'[home[d]]
               /\ ~Fresh(d)' =>
                     hb'[d] = "armed" \/ \E g \in Epollers : ecur[g] = d /\ epc[g] = "armTimer"
    <3>1. closing[d] = "no" /\ hb'[d] = hb[d] /\ (Fresh(d)' <=> Fresh(d))
      <4>1. acur[e] # d /\ acur'[e] # d
        BY <1>1, <1>6
      <4>2. Fresh(d)' <=> Fresh(d)
        BY <1>4, <4>1 DEF Fresh
      <4>3. QED
        BY <1>5, <2>2, <4>2
    <3>2. (\A g \in Epollers : acur'[g] # d) => \A g \in Epollers : acur[g] # d
      BY <1>1, <1>4
    <3>3. QED
      BY <2>1, <2>2, <3>1, <3>2 DEF IInv, Watched
  <2>3. ASSUME closing'[c] = "no", \A g \in Epollers : acur'[g] # c
        PROVE  cfd[c] \in reg'[home[c]]
    <3>1. acur'[e] # c
      BY <2>3
    <3>2. CASE EpollAdd(e)
      BY <1>1, <1>2, <3>1, <3>2 DEF EpollAdd, IInv, TypeOK
    <3>3. CASE AcceptAgain(e)
      BY <1>1, <2>3, <3>3 DEF AcceptAgain
    <3>4. CASE NewTCPConn(e) \/ AddConn(e)
      BY <1>1, <3>1, <3>4 DEF NewTCPConn, AddConn
    <3>5. QED
      BY <3>2, <3>3, <3>4 DEF AcceptStep
  <2>4. ASSUME closing'[c] = "no", ~Fresh(c)'
        PROVE  hb'[c] = "armed" \/ \E g \in Epollers : ecur[g] = c /\ epc[g] = "armTimer"
    <3>1. CASE apc[e] = "new"
      BY <1>1, <3>1 DEF AcceptStep, NewTCPConn, AddConn, EpollAdd, AcceptAgain, IInv, TypeOK
    <3>2. CASE apc[e] # "new"
      <4>1. ~Fresh(c) /\ closing[c] = "no"
        BY <1>2, <1>10, <2>4, <3>2 DEF Fresh
      <4>2. UNCHANGED hb
        BY <3>2 DEF AcceptStep, NewTCPConn, AddConn, EpollAdd, AcceptAgain
      <4>3. QED
        BY <1>2, <4>1, <4>2 DEF IInv, Watched
    <3>3. QED
      BY <3>1, <3>2
  <2>5. QED
    BY <1>3, <2>2, <2>3, <2>4 DEF Watched
<1>19. QED
  BY <1>11, <1>13, <1>14, <1>16, <1>17, <1>18, Together

-----------------------------------------------------------------------------
LEMMA InitIInv == Init => IInv
<1> SUFFICES ASSUME Init PROVE IInv
  OBVIOUS
<1> USE ServerAssumption DEF ServerAssumption, Init
<1>1. TypeOK
  BY DEF TypeOK, CloseStates, AcceptStates, EpollStates
<1>2. \A c \in Conns : cfd[c] = Nil /\ ~Entered(c)
  BY DEF Entered
<1>3. Accepting /\ Receiving
  BY DEF Accepting, Receiving
<1>4. Closing /\ Owners /\ Mapped /\ Watched
  BY <1>2 DEF Closing, Owners, Mapped, Watched
<1>5. QED
  BY <1>1, <1>3, <1>4 DEF IInv

LEMMA StutterIInv == ASSUME IInv, UNCHANGED vars PROVE IInv'
<1> USE DEF IInv, vars, kernelVars, connVars, serverVars, acceptVars, epollVars
<1>1. TypeOK'
  BY DEF TypeOK
<1>2. Accepting' /\ Closing' /\ Owners' /\ Mapped'
  BY <1>1, MovesInClose DEF Closing
<1>3. Receiving'
  BY Receives DEF Receiving
<1>4. Watched'
  BY StaysWatched
<1>5. QED
  BY <1>1, <1>2, <1>3, <1>4

LEMMA NextIInv == IInv /\ [Next /\ Timely]_vars => IInv'
<1> SUFFICES ASSUME IInv, [Next /\ Timely]_vars PROVE IInv'
  OBVIOUS
<1>1. CASE UNCHANGED vars
  BY <1>1, StutterIInv
<1>2. CASE Next /\ Timely
  <2>1. TypeOK'
    BY <1>2, TypeStep DEF IInv
  <2>2. CASE \/ Dispatch
             \/ \E c \in Conns : ClientSend(c) \/ ClientClose(c) \/ TimeOut(c)
             \/ \E f \in Fds : CloseConn(f)
    BY <1>2, <2>1, <2>2, OthersStep
  <2>3. CASE \E c \in Conns : CloseStep(c)
    BY <2>1, <2>3, CloseBodyStep
  <2>4. CASE \E e \in Epollers, c \in Conns, f \in Fds : Accept(e, c, f)
    BY <2>1, <2>4, AcceptStepKeeps
  <2>5. CASE \E e \in Epollers : AcceptStep(e)
    BY <2>1, <2>5, AcceptGoroutineStep
  <2>6. CASE \E e \in Epollers : EpollStep(e)
    BY <2>1, <2>6, EpollGoroutineStep
  <2>7. QED
    BY <1>2, <2>2, <2>3, <2>4, <2>5, <2>6 DEF Next
<1>3. QED
  BY <1>1, <1>2

LEMMA Inductive == Spec => []IInv
  BY InitIInv, NextIInv, PTL DEF Spec

-----------------------------------------------------------------------------
(* Every variable keeps its type; in particular the queue never holds more *)
(* than config.MsgCh has room for, and no step uses a nil connection.      *)
THEOREM TypeCorrect == Spec => []TypeOK
<1>1. IInv => TypeOK
  BY DEF IInv
<1>2. QED
  BY <1>1, Inductive, PTL

(* The map never has a connection under a descriptor that is not its own   *)
(* any more, in whatever order calls of Close, new connections on the same *)
(* descriptors and the goroutines of the epollers interleave.              *)
THEOREM MapIsNeverStale == Spec => []MapAgrees
<1>1. IInv => MapAgrees
  BY DEF IInv, Mapped, MapAgrees
<1>2. QED
  BY <1>1, Inductive, PTL

(* A connection that has been accepted and on which nobody has called      *)
(* Close has its socket, is in the map and in its epoller, and is watched  *)
(* by a heartbeat timer.                                                   *)
THEOREM LiveConnectionsAreServed == Spec => []Served
<1>1. ASSUME IInv, NEW c \in Conns, cfd[c] # Nil, closing[c] = "no",
             \A e \in Epollers : acur[e] # c
      PROVE  /\ owner[cfd[c]] = c /\ conns[cfd[c]] = c
             /\ cfd[c] \in reg[home[c]]
             /\ \/ hb[c] = "armed"
                \/ \E e \in Epollers : ecur[e] = c /\ epc[e] = "armTimer"
  <2>1. Entered(c) /\ ~Fresh(c) /\ closing[c] \in BeforeRemove
    BY <1>1 DEF Entered, Entering, Fresh, BeforeRemove
  <2>2. owner[cfd[c]] = c /\ conns[cfd[c]] = c
    BY <1>1, <2>1 DEF IInv, Owners, Mapped
  <2>3. QED
    BY <1>1, <2>1, <2>2 DEF IInv, Watched
<1>2. IInv => Served
  BY <1>1 DEF Served
<1>3. QED
  BY <1>2, Inductive, PTL

-----------------------------------------------------------------------------
(***************************************************************************)
(* What the application has been told by descriptor.                       *)
(***************************************************************************)

(* LiveIsKnown, and that what has been announced has been accepted.        *)
Known == \A c \in announced : /\ cfd[c] # Nil
                              /\ closing[c] = "no" => cfd[c] \in up

(* Two connections short of rawConn.Close have different descriptors.      *)
LEMMA OwnDescriptor ==
  ASSUME IInv, NEW c \in Conns, cfd[c] # Nil,
         closing[c] \in BeforeRemove \cup {"rawClose"}
  PROVE  /\ cfd[c] \in Fds /\ owner[cfd[c]] = c
         /\ \A d \in Conns \ {c} :
              cfd[d] # Nil /\ closing[d] \in BeforeRemove \cup {"rawClose"}
                => cfd[d] # cfd[c]
  BY DEF IInv, TypeOK, Owners

(* What a step of an epoll goroutine leaves alone.                         *)
EpollEffect(e) ==
  /\ UNCHANGED <<owner, reg, cfd, home, conns, apc, acur, hungup>>
  /\ \A g \in Epollers \ {e} :
       epc'[g] = epc[g] /\ ecur'[g] = ecur[g] /\ batch'[g] = batch[g]
  /\ \A d \in Conns \ {ecur[e]} :
       /\ inbox'[d] = inbox[d] /\ cache'[d] = cache[d]
       /\ hasRecv'[d] = hasRecv[d] /\ closing'[d] = closing[d]
  /\ \A d \in Conns : \/ closing'[d] = closing[d]
                      \/ closing[d] = "no" /\ closing'[d] = "onClose"
  /\ announced \subseteq announced'

LEMMA EpollEffectOf ==
  ASSUME TypeOK, NEW e \in Epollers, EpollStep(e)
  PROVE  EpollEffect(e)
<1> USE DEF kernelVars, connVars, serverVars, acceptVars, epollVars
<1>1. UNCHANGED <<owner, reg, cfd, home, conns, apc, acur, hungup>>
  BY DEF EpollStep, Wait, Lookup, Read, DoRecvReturns, Message, CloseReturns,
         StopHbTimer, ArmHbTimer, SendMsg, BadPacket, Greet, Agree, Announce,
         AckError, DropPacket, CutCache
<1>2. \A g \in Epollers \ {e} :
        epc'[g] = epc[g] /\ ecur'[g] = ecur[g] /\ batch'[g] = batch[g]
  BY DEF EpollStep, Wait, Lookup, Read, DoRecvReturns, Message, CloseReturns,
         StopHbTimer, ArmHbTimer, SendMsg, BadPacket, Greet, Agree, Announce,
         AckError, DropPacket, CutCache, Done, TypeOK
<1>3. \A d \in Conns \ {ecur[e]} :
        /\ inbox'[d] = inbox[d] /\ cache'[d] = cache[d]
        /\ hasRecv'[d] = hasRecv[d] /\ closing'[d] = closing[d]
  BY DEF EpollStep, Wait, Lookup, Read, DoRecvReturns, Message, CloseReturns,
         StopHbTimer, ArmHbTimer, SendMsg, BadPacket, Greet, Agree, Announce,
         AckError, DropPacket, CutCache, StartClose, TypeOK
<1>4. announced \subseteq announced'
  BY DEF EpollStep, Wait, Lookup, Read, DoRecvReturns, Message, CloseReturns,
         StopHbTimer, ArmHbTimer, SendMsg, BadPacket, Greet, Agree, Announce,
         AckError, DropPacket, CutCache, Connect
<1>5. UNCHANGED closing \/ StartClose(ecur[e])
  BY DEF EpollStep, Wait, Lookup, Read, DoRecvReturns, Message, CloseReturns,
         StopHbTimer, ArmHbTimer, SendMsg, BadPacket, Greet, Agree, Announce,
         AckError, DropPacket, CutCache
<1>6. StartClose(ecur[e]) =>
        \A d \in Conns : \/ closing'[d] = closing[d]
                         \/ closing[d] = "no" /\ closing'[d] = "onClose"
  BY StartTyped DEF TypeOK
<1>7. QED
  BY <1>1, <1>2, <1>3, <1>4, <1>5, <1>6 DEF EpollEffect

(* Nobody takes a call of Close back, a connection keeps its descriptor    *)
(* and its epoller, and only Connect announces.                            *)
LEMMA StepEffect ==
  ASSUME IInv, Next
  PROVE  /\ \A c \in Conns : closing'[c] = "no" => closing[c] = "no"
         /\ \A c \in Conns :
              cfd[c] # Nil => cfd'[c] = cfd[c] /\ home'[c] = home[c]
         /\ \/ UNCHANGED <<up, announced>>
            \/ \E c \in Conns : OnClose(c)
            \/ \E c \in Conns : cfd[c] # Nil /\ Connect(c) /\ UNCHANGED <<owner, cfd, closing>>
<1> USE DEF kernelVars, connVars, serverVars, acceptVars, epollVars
<1>1. closing \in [Conns -> CloseStates]
  BY DEF IInv, TypeOK
<1>2. ASSUME NEW c \in Conns, ClientSend(c) \/ ClientClose(c) \/ TimeOut(c)
      PROVE  /\ UNCHANGED <<cfd, home, up, announced>>
             /\ \A d \in Conns : closing'[d] = "no" => closing[d] = "no"
  <2>1. UNCHANGED <<cfd, home, up, announced>> /\ (UNCHANGED closing \/ StartClose(c))
    BY <1>2 DEF ClientSend, ClientClose, TimeOut
  <2>2. QED
    BY <1>1, <2>1, StartTyped
<1>3. ASSUME NEW f \in Fds, CloseConn(f)
      PROVE  /\ UNCHANGED <<cfd, home, up, announced>>
             /\ \A d \in Conns : closing'[d] = "no" => closing[d] = "no"
  <2>1. UNCHANGED <<cfd, home, up, announced>> /\ StartClose(conns[f])
    BY <1>3 DEF CloseConn
  <2>2. QED
    BY <1>1, <2>1, StartTyped
<1>4. ASSUME Dispatch PROVE UNCHANGED <<cfd, home, closing, up, announced>>
  BY <1>4 DEF Dispatch
<1>5. ASSUME NEW c \in Conns, CloseStep(c)
      PROVE  /\ UNCHANGED <<cfd, home>>
             /\ OnClose(c) \/ UNCHANGED <<up, announced>>
             /\ \A d \in Conns : closing'[d] = "no" => closing[d] = "no"
  <2>1. UNCHANGED <<cfd, home>> /\ (OnClose(c) \/ UNCHANGED <<up, announced>>)
    BY <1>5 DEF CloseStep, OnClose, StopTimer, ClearTimer, EpollRemove, RemovConn,
           RawClose, ResetFlag
  <2>2. PICK s \in CloseStates \ {"no", "done"} : Advance(c, s)
    BY <1>5 DEF CloseStep, OnClose, StopTimer, ClearTimer, EpollRemove, RemovConn,
           RawClose, ResetFlag, CloseStates
  <2>3. AfterStep(s) # "no"
    BY <2>2, CloseOrder DEF CloseStates
  <2>4. QED
    BY <1>1, <2>1, <2>2, <2>3 DEF Advance
<1>6. ASSUME NEW e \in Epollers, NEW c \in Conns, NEW f \in Fds, Accept(e, c, f)
      PROVE  /\ UNCHANGED <<closing, up, announced>>
             /\ \A d \in Conns :
                  cfd[d] # Nil => cfd'[d] = cfd[d] /\ home'[d] = home[d]
  BY <1>6 DEF Accept, IInv, TypeOK
<1>7. ASSUME NEW e \in Epollers, AcceptStep(e)
      PROVE  /\ UNCHANGED <<cfd, home>>
             /\ \/ UNCHANGED <<up, announced>>
                \/ \E c \in Conns : cfd[c] # Nil /\ Connect(c) /\ UNCHANGED <<owner, cfd, closing>>
             /\ \A d \in Conns : closing'[d] = "no" => closing[d] = "no"
  <2>1. UNCHANGED <<cfd, home>> /\ (UNCHANGED closing \/ StartClose(acur[e]))
    BY <1>7 DEF AcceptStep, NewTCPConn, AddConn, EpollAdd, AcceptAgain
  <2>2. CASE NewTCPConn(e)
    <3>1. acur[e] \in Conns /\ cfd[acur[e]] # Nil
      BY <2>2, HasConn DEF NewTCPConn, IInv, Accepting
    <3>2. QED
      BY <2>1, <2>2, <3>1 DEF NewTCPConn
  <2>3. CASE AddConn(e) \/ EpollAdd(e) \/ AcceptAgain(e)
    <3>1. UNCHANGED <<up, announced>>
      BY <2>3 DEF AddConn, EpollAdd, AcceptAgain
    <3>2. QED
      BY <1>1, <2>1, <3>1, StartTyped
  <2>4. QED
    BY <1>7, <2>2, <2>3 DEF AcceptStep
<1>8. ASSUME NEW e \in Epollers, EpollStep(e)
      PROVE  /\ UNCHANGED <<cfd, home>>
             /\ \/ UNCHANGED <<up, announced>>
                \/ \E c \in Conns : cfd[c] # Nil /\ Connect(c) /\ UNCHANGED <<owner, cfd, closing>>
             /\ \A d \in Conns : closing'[d] = "no" => closing[d] = "no"
  <2>1. UNCHANGED <<cfd, home>> /\ \A d \in Conns : closing'[d] = "no" => closing[d] = "no"
    BY <1>8, EpollEffectOf DEF EpollEffect, IInv
  <2>2. CASE Announce(e)
    <3>1. ecur[e] \in Conns /\ cfd[ecur[e]] # Nil
      BY <2>2, HasConn DEF Announce, IInv, Receiving, Entered
    <3>2. QED
      BY <2>1, <2>2, <3>1 DEF Announce
  <2>3. CASE ~Announce(e)
    <3>1. UNCHANGED <<up, announced>>
      BY <1>8, <2>3 DEF EpollStep, Wait, Lookup, Read, DoRecvReturns, Message,
         CloseReturns, StopHbTimer, ArmHbTimer, SendMsg, BadPacket, Greet, Agree,
         AckError, DropPacket, CutCache
    <3>2. QED
      BY <2>1, <3>1
  <2>4. QED
    BY <2>2, <2>3
<1>9. CASE \E c \in Conns : ClientSend(c) \/ ClientClose(c) \/ TimeOut(c)
  BY <1>2, <1>9
<1>10. CASE \E f \in Fds : CloseConn(f)
  BY <1>3, <1>10
<1>11. CASE \E c \in Conns : CloseStep(c)
  BY <1>5, <1>11
<1>12. CASE \E e \in Epollers, c \in Conns, f \in Fds : Accept(e, c, f)
  BY <1>6, <1>12
<1>13. CASE \E e \in Epollers : AcceptStep(e)
  BY <1>7, <1>13
<1>14. CASE \E e \in Epollers : EpollStep(e)
  BY <1>8, <1>14
<1>15. QED
  BY <1>4, <1>9, <1>10, <1>11, <1>12, <1>13, <1>14 DEF Next

LEMMA KnownStep == ASSUME IInv, Known, Next PROVE Known'
<1>1. /\ \A c \in Conns : closing'[c] = "no" => closing[c] = "no"
      /\ \A c \in Conns : cfd[c] # Nil => cfd'[c] = cfd[c]
  BY StepEffect
<1>2. \A c \in announced : c \in Conns /\ cfd[c] # Nil /\ (closing[c] = "no" => cfd[c] \in up)
  BY DEF Known, IInv, TypeOK
<1>3. CASE UNCHANGED <<up, announced>>
  BY <1>1, <1>2, <1>3 DEF Known
<1>4. CASE \E c \in Conns : OnClose(c)
  <2>1. PICK c \in Conns : OnClose(c)
    BY <1>4
  <2>2. /\ closing[c] = "onClose" /\ closing'[c] # "no"
        /\ up' = up \ {cfd[c]} /\ UNCHANGED announced
    BY <2>1, CloseOrder DEF OnClose, Advance, IInv, TypeOK
  <2>3. cfd[c] # Nil
    BY <2>2 DEF IInv, Closing, Entered
  <2>4. ASSUME NEW d \in announced, closing'[d] = "no" PROVE cfd[d] \in up'
    <3>1. d \in Conns \ {c} /\ closing[d] = "no" /\ cfd[d] # Nil /\ cfd[d] \in up
      BY <1>1, <1>2, <2>2, <2>4
    <3>2. cfd[d] # cfd[c]
      BY <2>2, <2>3, <3>1, OwnDescriptor DEF BeforeRemove
    <3>3. QED
      BY <2>2, <3>1, <3>2
  <2>5. QED
    BY <1>1, <1>2, <2>2, <2>4 DEF Known
<1>5. CASE \E c \in Conns : cfd[c] # Nil /\ Connect(c) /\ UNCHANGED <<owner, cfd, closing>>
  <2>1. PICK c \in Conns : cfd[c] # Nil /\ Connect(c) /\ UNCHANGED <<owner, cfd, closing>>
    BY <1>5
  <2>2. up' = up \cup {cfd[c]} /\ announced' = announced \cup {c}
    BY <2>1 DEF Connect
  <2>3. QED
    BY <1>1, <1>2, <2>1, <2>2 DEF Known
<1>6. QED
  BY <1>3, <1>4, <1>5, StepEffect

LEMMA AlwaysKnown == Spec => [](IInv /\ Known)
<1>1. Init => IInv /\ Known
  BY InitIInv DEF Init, Known
<1>2. IInv /\ Known /\ [Next /\ Timely]_vars => (IInv /\ Known)'
  <2>1. IInv /\ Known /\ UNCHANGED vars => Known'
    BY DEF Known, vars, connVars, serverVars
  <2>2. QED
    BY <2>1, NextIInv, KnownStep
<1>3. QED
  BY <1>1, <1>2, PTL DEF Spec

(* The application knows of every connection that has been announced and   *)
(* on which nobody has called Close, with the handshake and without it, in *)
(* whatever order the callbacks of connections on the same number come.    *)
THEOREM LiveConnectionsAreKnown == Spec => []LiveIsKnown
<1>1. Known => LiveIsKnown
  BY DEF Known, LiveIsKnown
<1>2. QED
  BY <1>1, AlwaysKnown, PTL

(* What it believes connected is: OnClose has yet to come for it.          *)
Told == \A f \in up : /\ owner[f] # Nil /\ owner[f] \in announced
                      /\ closing[owner[f]] \in {"no", "onClose"}

LEMMA ToldOf ==
  ASSUME IInv, Told,
         \A d \in Conns : \/ closing'[d] = closing[d]
                          \/ closing[d] = "no" /\ closing'[d] = "onClose",
         UNCHANGED <<owner, cfd, up, announced>>
  PROVE  Told'
<1>1. ASSUME NEW f \in up
      PROVE  /\ owner[f] # Nil /\ owner[f] \in announced
             /\ closing'[owner[f]] \in {"no", "onClose"}
  <2>1. owner[f] # Nil /\ owner[f] \in announced /\ closing[owner[f]] \in {"no", "onClose"}
    BY <1>1 DEF Told
  <2>2. owner[f] \in Conns
    BY <2>1 DEF IInv, TypeOK
  <2>3. QED
    BY <2>1, <2>2
<1>2. QED
  BY <1>1 DEF Told

(* The application is told of a connection that is open.                   *)
LEMMA ToldOfOne ==
  ASSUME IInv, Told, NEW c \in Conns, cfd[c] # Nil, closing[c] = "no", Connect(c),
         UNCHANGED <<owner, cfd, closing>>
  PROVE  Told'
<1>1. owner[cfd[c]] = c
  BY OwnDescriptor DEF BeforeRemove
<1>2. up' = up \cup {cfd[c]} /\ announced' = announced \cup {c}
  BY DEF Connect
<1>3. ASSUME NEW f \in up'
      PROVE  /\ owner[f] # Nil /\ owner[f] \in announced'
             /\ closing[owner[f]] \in {"no", "onClose"}
  <2>1. CASE f = cfd[c]
    BY <1>1, <1>2, <2>1, ServerAssumption DEF ServerAssumption
  <2>2. CASE f \in up
    BY <1>2, <2>2 DEF Told
  <2>3. QED
    BY <1>2, <1>3, <2>1, <2>2
<1>4. QED
  BY <1>3 DEF Told

LEMMA ToldStep ==
  ASSUME IInv, Told, Next,
         \A e \in Epollers : epc[e] = "connect" => closing[ecur[e]] = "no"
  PROVE  Told'
<1> USE DEF kernelVars, connVars, serverVars, acceptVars, epollVars
<1>1. closing \in [Conns -> CloseStates]
  BY DEF IInv, TypeOK
<1>2. ASSUME NEW c \in Conns, ClientSend(c) \/ ClientClose(c) PROVE Told'
  BY <1>2, ToldOf DEF ClientSend, ClientClose
<1>3. CASE Dispatch
  BY <1>3, ToldOf DEF Dispatch
<1>4. ASSUME NEW c \in Conns, TimeOut(c) PROVE Told'
  <2>1. StartClose(c) /\ UNCHANGED <<owner, cfd, up, announced>>
    BY <1>4 DEF TimeOut
  <2>2. QED
    BY <1>1, <2>1, StartTyped, ToldOf
<1>5. ASSUME NEW f \in Fds, CloseConn(f) PROVE Told'
  <2>1. StartClose(conns[f]) /\ UNCHANGED <<owner, cfd, up, announced>>
    BY <1>5 DEF CloseConn
  <2>2. QED
    BY <1>1, <2>1, StartTyped, ToldOf
<1>6. ASSUME NEW c \in Conns, CloseStep(c) PROVE Told'
  <2>1. PICK s \in CloseStates \ {"no", "done"} : Advance(c, s)
    BY <1>6 DEF CloseStep, OnClose, StopTimer, ClearTimer, EpollRemove, RemovConn,
           RawClose, ResetFlag, CloseStates
  <2>2. /\ closing[c] = s /\ closing'[c] = AfterStep(s)
        /\ \A d \in Conns \ {c} : closing'[d] = closing[d]
    BY <1>1, <2>1 DEF Advance
  <2>3. cfd[c] # Nil /\ AfterStep(s) # "no"
    BY <2>1, <2>2, CloseOrder DEF IInv, Closing, Entered, CloseStates
  <2>4. UNCHANGED <<cfd, announced>>
    BY <1>6 DEF CloseStep, OnClose, StopTimer, ClearTimer, EpollRemove, RemovConn,
           RawClose, ResetFlag
  <2>5. /\ up \ {cfd[c]} \subseteq up' /\ up' \subseteq up
        /\ s = "onClose" => up' = up \ {cfd[c]}
        /\ s # "onClose" => up' = up
    BY <1>6, <2>2 DEF CloseStep, OnClose, StopTimer, ClearTimer, EpollRemove, RemovConn,
           RawClose, ResetFlag, Advance
  <2>6. \A f \in Fds : f # cfd[c] => owner'[f] = owner[f]
    BY <1>6 DEF CloseStep, OnClose, StopTimer, ClearTimer, EpollRemove, RemovConn,
           RawClose, ResetFlag, IInv, TypeOK
  <2>7. s # "rawClose" => UNCHANGED owner
    BY <1>6, <2>2 DEF CloseStep, OnClose, StopTimer, ClearTimer, EpollRemove, RemovConn,
           RawClose, ResetFlag, Advance
  <2>8. ASSUME NEW f \in up'
        PROVE  /\ owner'[f] # Nil /\ owner'[f] \in announced
               /\ closing'[owner'[f]] \in {"no", "onClose"}
    <3>1. /\ f \in up /\ f \in Fds /\ owner[f] # Nil /\ owner[f] \in announced
          /\ closing[owner[f]] \in {"no", "onClose"} /\ owner[f] \in Conns
      BY <2>5, <2>8 DEF Told, IInv, TypeOK
    <3>2. owner[f] # c
      <4>1. owner[f] = c => cfd[c] = f
        BY <3>1 DEF IInv, Owners
      <4>2. QED
        BY <2>1, <2>2, <2>5, <2>8, <3>1, <4>1
    <3>3. owner'[f] = owner[f]
      <4>1. CASE s = "rawClose"
        <5>1. owner[cfd[c]] = c
          BY <2>2, <2>3, <4>1, OwnDescriptor
        <5>2. QED
          BY <2>6, <3>1, <3>2, <5>1
      <4>2. QED
        BY <2>7, <4>1
    <3>4. QED
      BY <2>2, <3>1, <3>2, <3>3
  <2>9. QED
    BY <2>4, <2>8 DEF Told
<1>7. ASSUME NEW e \in Epollers, NEW c \in Conns, NEW f \in Fds, Accept(e, c, f)
      PROVE  Told'
  <2>1. cfd[c] = Nil /\ owner[f] = Nil
    BY <1>7 DEF Accept
  <2>2. UNCHANGED <<up, announced, closing>>
    BY <1>7 DEF Accept
  <2>3. /\ \A g \in Fds \ {f} : owner'[g] = owner[g]
        /\ \A d \in Conns \ {c} : cfd'[d] = cfd[d]
    BY <1>7 DEF Accept, IInv, TypeOK
  <2>4. \A g \in up : g \in Fds /\ g # f
    BY <2>1 DEF Told, IInv, TypeOK
  <2>5. QED
    BY <2>2, <2>3, <2>4 DEF Told
<1>8. ASSUME NEW e \in Epollers, AcceptStep(e) PROVE Told'
  <2>1. CASE NewTCPConn(e)
    <3>1. PICK c \in Conns : c = acur[e]
      BY <2>1 DEF NewTCPConn, IInv, TypeOK, Accepting
    <3>2. cfd[c] # Nil /\ UNCHANGED <<owner, cfd, closing>>
      BY <2>1, <3>1 DEF NewTCPConn, IInv, Accepting
    <3>3. closing[c] = "no"
      BY <2>1, <3>1 DEF NewTCPConn, IInv, Closing, Entered, Entering
    <3>4. Connect(c) \/ UNCHANGED <<up, announced>>
      BY <2>1, <3>1 DEF NewTCPConn
    <3>5. QED
      BY <3>2, <3>3, <3>4, ToldOf, ToldOfOne
  <2>2. CASE AddConn(e) \/ AcceptAgain(e)
    BY <2>2, ToldOf DEF AddConn, AcceptAgain
  <2>3. CASE EpollAdd(e)
    <3>1. UNCHANGED closing \/ StartClose(acur[e])
      BY <2>3 DEF EpollAdd
    <3>2. UNCHANGED <<owner, cfd, up, announced>>
      BY <2>3 DEF EpollAdd
    <3>3. QED
      BY <1>1, <3>1, <3>2, StartTyped, ToldOf
  <2>4. QED
    BY <1>8, <2>1, <2>2, <2>3 DEF AcceptStep
<1>9. ASSUME NEW e \in Epollers, EpollStep(e) PROVE Told'
  <2>1. CASE Announce(e)
    <3>1. PICK c \in Conns : c = ecur[e]
      BY <2>1 DEF Announce, IInv, TypeOK, Receiving
    <3>2. cfd[c] # Nil /\ closing[c] = "no" /\ Connect(c)
      BY <2>1, <3>1 DEF Announce, IInv, Receiving, Entered
    <3>3. QED
      BY <2>1, <3>2, ToldOfOne DEF Announce
  <2>2. CASE ~Announce(e)
    <3>1. UNCHANGED closing \/ StartClose(ecur[e])
      BY <1>9, <2>2 DEF EpollStep, Wait, Lookup, Read, DoRecvReturns, Message,
             CloseReturns, StopHbTimer, ArmHbTimer, SendMsg, BadPacket,
             Greet, Agree, AckError, DropPacket, CutCache
    <3>2. UNCHANGED <<owner, cfd, up, announced>>
      BY <1>9, <2>2 DEF EpollStep, Wait, Lookup, Read, DoRecvReturns, Message,
             CloseReturns, StopHbTimer, ArmHbTimer, SendMsg, BadPacket,
             Greet, Agree, AckError, DropPacket, CutCache
    <3>3. QED
      BY <1>1, <3>1, <3>2, StartTyped, ToldOf
  <2>3. QED
    BY <2>1, <2>2
<1>10. QED
  BY <1>2, <1>3, <1>4, <1>5, <1>6, <1>7, <1>8, <1>9 DEF Next

(* Without the handshake a descriptor that the application believes        *)
(* connected is open, and its present owner has been announced.            *)
THEOREM ApplicationAgreesWithoutHandshake == ~Secert => (Spec => []AppAgrees)
<1> SUFFICES ASSUME ~Secert PROVE Spec => []AppAgrees
  OBVIOUS
<1> DEFINE Plain == greeted = {} /\ \A e \in Epollers : epc[e] # "connect"
<1>1. Init => Plain /\ Told
  BY DEF Init, Told
<1>2. TypeOK /\ Plain /\ [Next /\ Timely]_vars => Plain'
  <2> SUFFICES ASSUME TypeOK, Plain, Next \/ UNCHANGED vars PROVE Plain'
    OBVIOUS
  <2>1. CASE UNCHANGED vars
    BY <2>1 DEF vars, connVars, epollVars
  <2>2. ASSUME NEW e \in Epollers, EpollStep(e) PROVE Plain'
    <3>1. /\ Greet(e) \/ Agree(e) => FALSE
          /\ epc[e] # "connect" /\ epc[e] \in EpollStates
      BY DEF Greet, Agree, TypeOK
    <3>3. UNCHANGED greeted
      BY <2>2, <3>1 DEF EpollStep, Wait, Lookup, Read, DoRecvReturns, Message,
         CloseReturns, StopHbTimer, ArmHbTimer, SendMsg, BadPacket, Announce,
         AckError, DropPacket, CutCache, connVars
    <3>4. epc'[e] # "connect"
      BY <2>2, <3>1 DEF EpollStep, Wait, Lookup, Read, DoRecvReturns, Message,
         CloseReturns, StopHbTimer, ArmHbTimer, SendMsg, BadPacket, Announce,
         AckError, DropPacket, CutCache, Done, TypeOK
    <3>2. \A g \in Epollers \ {e} : epc'[g] = epc[g]
      BY <2>2, EpollEffectOf DEF EpollEffect
    <3>5. QED
      BY <3>2, <3>3, <3>4
  <2>3. ASSUME NEW c \in Conns, ClientSend(c) \/ ClientClose(c) \/ CloseStep(c) \/ TimeOut(c)
        PROVE  Plain'
    BY <2>3 DEF ClientSend, ClientClose, CloseStep, OnClose, StopTimer, ClearTimer,
       EpollRemove, RemovConn, RawClose, ResetFlag, TimeOut, connVars, epollVars
  <2>4. CASE Dispatch \/ \E f \in Fds : CloseConn(f)
    BY <2>4 DEF Dispatch, CloseConn, connVars, epollVars
  <2>5. ASSUME NEW e \in Epollers,
               \/ AcceptStep(e) \/ \E c \in Conns, f \in Fds : Accept(e, c, f)
        PROVE  Plain'
    BY <2>5 DEF AcceptStep, NewTCPConn, AddConn, EpollAdd, AcceptAgain, Accept, connVars, epollVars
  <2>6. QED
    BY <2>1, <2>2, <2>3, <2>4, <2>5 DEF Next
<1>3. IInv /\ Plain /\ Told /\ [Next /\ Timely]_vars => Told'
  <2> SUFFICES ASSUME IInv, Plain, Told, Next \/ UNCHANGED vars PROVE Told'
    OBVIOUS
  <2>1. CASE UNCHANGED vars
    BY <2>1, ToldOf DEF vars, kernelVars, connVars, serverVars
  <2>2. CASE Next
    BY <2>2, ToldStep
  <2>3. QED
    BY <2>1, <2>2
<1>4. IInv => TypeOK
  BY DEF IInv
<1>5. Told /\ Known => AppAgrees
  BY DEF Told, Known, AppAgrees
<1> HIDE DEF Plain
<1>6. QED
  BY <1>1, <1>2, <1>3, <1>4, <1>5, AlwaysKnown, PTL DEF Spec

-----------------------------------------------------------------------------
(***************************************************************************)
(* Of every schedule, with its history: what an epoll goroutine can rely   *)
(* on when the connection it has looked up was not taken for another one.  *)
(***************************************************************************)

(* The inductive invariant, on top of IInv.                                *)

(* An epoller has its own connections, and those of others whose number    *)
(* was registered for a connection that was closed meanwhile.              *)
Registered ==
  \A e \in Epollers : \A f \in reg[e] :
    owner[f] # Nil /\ (home[owner[f]] = e \/ owner[f] \in mixed)

(* What Wait has returned is true as long as the socket is not closed.     *)
Batched ==
  \A e \in Epollers : \A f \in batch[e] \ stale[e] :
    /\ owner[f] # Nil
    /\ \/ owner[f] \in mixed
       \/ /\ home[owner[f]] = e
          /\ closing[owner[f]] = "no" => Readable(owner[f])

(* An epoll goroutine receives on its own connections, each of which it    *)
(* has taken out of its batch.                                             *)
Attending ==
  \A e \in Epollers :
    /\ ecur[e] = Nil <=> epc[e] \in {"wait", "next"}
    /\ ecur[e] # Nil => /\ cfd[ecur[e]] \notin batch[e]
                        /\ home[ecur[e]] = e \/ ecur[e] \in mixed

(* It has a packet in hand until it cuts it off the cache, and a message   *)
(* only of a connection that has been announced.                           *)
Handles(e) ==
  ecur[e] # Nil /\ ecur[e] \notin mixed =>
    /\ epc[e] = "read" /\ closing[ecur[e]] = "no" => Readable(ecur[e])
    /\ epc[e] # "panic"
    /\ epc[e] \notin {"read", "packet", "close"} => cache[ecur[e]] > 0
    /\ epc[e] \in {"replyClose", "stopTimer", "armTimer", "send"}
         => ecur[e] \in announced
Handling == \A e \in Epollers : Handles(e)

(* hasRecvFlag is set together with OnConnect.                             *)
Shaken ==
  \A c \in Conns : hasRecv[c] =>
    \/ c \in announced
    \/ \E e \in Epollers : ecur[e] = c /\ epc[e] = "connect"

HInv == Registered /\ Batched /\ Attending /\ Handling /\ Shaken

-----------------------------------------------------------------------------
(* Steps of others than the epoll goroutines.                              *)

(* What they do to the connections that the epoll goroutines have at hand. *)
Elsewhere ==
  /\ UNCHANGED <<epc, ecur, batch, cache>>
  /\ \A f \in Fds : owner[f] # Nil => owner'[f] \in {owner[f], Nil}
  /\ announced \subseteq announced'
  /\ \A c \in Conns :
       /\ closing'[c] = "no" /\ Readable(c) => Readable(c)'
       /\ hasRecv'[c] => hasRecv[c] \/ c \in announced'

LEMMA ElsewhereKeeps ==
  ASSUME IInv, HInv, HNext, Elsewhere
  PROVE  Batched' /\ Attending' /\ Handling' /\ Shaken'
<1> USE ServerAssumption DEF ServerAssumption
<1>1. /\ \A c \in Conns : closing'[c] = "no" => closing[c] = "no"
      /\ \A c \in Conns : cfd[c] # Nil => cfd'[c] = cfd[c] /\ home'[c] = home[c]
  BY StepEffect DEF HNext
<1>2. mixed \subseteq mixed' /\ \A e \in Epollers : stale'[e] = (stale[e] \cup Released) \cap batch'[e]
  BY DEF HNext
<1>3. /\ \A e \in Epollers : batch[e] \subseteq Fds
      /\ \A e \in Epollers : ecur[e] # Nil => ecur[e] \in Conns /\ cfd[ecur[e]] # Nil
      /\ \A f \in Fds : owner[f] # Nil => owner[f] \in Conns /\ cfd[owner[f]] # Nil
  BY DEF IInv, TypeOK, Receiving, Entered, Owners
<1>4. \A c \in Conns : closing'[c] = "no" /\ Readable(c) => Readable(c)'
  BY DEF Elsewhere
<1>5. ASSUME NEW e \in Epollers, NEW f \in batch'[e] \ stale'[e]
      PROVE  /\ owner'[f] # Nil
             /\ \/ owner'[f] \in mixed'
                \/ /\ home'[owner'[f]] = e
                   /\ closing'[owner'[f]] = "no" => Readable(owner[f])'
  <2>1. f \in batch[e] \ stale[e] /\ f \in Fds /\ f \notin Released
    BY <1>2, <1>3, <1>5 DEF Elsewhere
  <2>2. /\ owner[f] # Nil /\ owner[f] \in Conns /\ cfd[owner[f]] # Nil
        /\ \/ owner[f] \in mixed
           \/ /\ home[owner[f]] = e
              /\ closing[owner[f]] = "no" => Readable(owner[f])
    BY <1>3, <2>1 DEF HInv, Batched
  <2>3. owner'[f] = owner[f]
    BY <2>1, <2>2 DEF Elsewhere, Released
  <2>4. PICK c \in Conns : c = owner[f]
    BY <2>2
  <2>5. Readable(owner[f])' <=> Readable(c)'
    BY <2>3, <2>4 DEF Readable
  <2>6. QED
    BY <1>1, <1>2, <1>4, <2>2, <2>3, <2>4, <2>5
<1>6. Batched'
  BY <1>5 DEF Batched
<1>7. Attending'
  BY <1>1, <1>2, <1>3 DEF HInv, Attending, Elsewhere
<1>8. ASSUME NEW e \in Epollers PROVE Handles(e)'
  <2>1. CASE ecur[e] = Nil
    BY <2>1 DEF Handles, Elsewhere
  <2>2. CASE ecur[e] # Nil
    <3>1. PICK c \in Conns : c = ecur[e]
      BY <1>3, <2>2
    <3>2. UNCHANGED <<epc, ecur, cache>> /\ announced \subseteq announced'
      BY DEF Elsewhere
    <3>3. Readable(ecur[e])' <=> Readable(c)'
      BY <3>1, <3>2 DEF Readable
    <3>4. Handles(e)
      BY DEF HInv, Handling
    <3>5. QED
      BY <1>1, <1>2, <1>4, <3>1, <3>2, <3>3, <3>4 DEF Handles
  <2>3. QED
    BY <2>1, <2>2
<1>9. Shaken'
  BY DEF HInv, Shaken, Elsewhere
<1>10. QED
  BY <1>6, <1>7, <1>8, <1>9 DEF Handling

(* Who is registered, when nobody adds a descriptor.                       *)
LEMMA StaysRegistered ==
  ASSUME IInv, HInv, HNext,
         \A e \in Epollers : \A f \in reg'[e] : f \in reg[e] /\ owner'[f] = owner[f]
  PROVE  Registered'
<1>1. /\ \A c \in Conns : cfd[c] # Nil => home'[c] = home[c]
      /\ mixed \subseteq mixed'
  BY StepEffect DEF HNext
<1>2. ASSUME NEW e \in Epollers, NEW f \in reg'[e]
      PROVE  owner'[f] # Nil /\ (home'[owner'[f]] = e \/ owner'[f] \in mixed')
  <2>1. f \in Fds /\ owner'[f] = owner[f] /\ owner[f] \in Conns /\ cfd[owner[f]] # Nil
    BY <1>2, ServerAssumption DEF HInv, Registered, IInv, TypeOK, Owners, ServerAssumption
  <2>2. QED
    BY <1>1, <1>2, <2>1 DEF HInv, Registered
<1>3. QED
  BY <1>2 DEF Registered

LEMMA OthersMeanwhile ==
  ASSUME IInv, HInv, HNext,
         \/ Dispatch
         \/ \E c \in Conns : ClientSend(c) \/ ClientClose(c) \/ TimeOut(c)
         \/ \E f \in Fds : CloseConn(f)
  PROVE  HInv'
<1> USE DEF kernelVars, connVars, serverVars, acceptVars, epollVars
<1>1. /\ UNCHANGED <<epc, ecur, batch, cache, owner, reg, announced, hasRecv>>
      /\ \A c \in Conns : Readable(c) => Readable(c)'
  <2>1. ASSUME NEW c \in Conns, ClientSend(c)
        PROVE  /\ UNCHANGED <<epc, ecur, batch, cache, owner, reg, announced, hasRecv>>
               /\ \A d \in Conns : Readable(d) => Readable(d)'
    BY <2>1 DEF ClientSend, Readable, IInv, TypeOK
  <2>2. ASSUME NEW c \in Conns, ClientClose(c) \/ TimeOut(c)
        PROVE  /\ UNCHANGED <<epc, ecur, batch, cache, owner, reg, announced, hasRecv>>
               /\ \A d \in Conns : Readable(d) => Readable(d)'
    BY <2>2 DEF ClientClose, TimeOut, Readable
  <2>3. CASE Dispatch \/ \E f \in Fds : CloseConn(f)
    BY <2>3 DEF Dispatch, CloseConn, Readable
  <2>4. QED
    BY <2>1, <2>2, <2>3
<1>2. Registered'
  BY <1>1, StaysRegistered
<1>3. Elsewhere
  BY <1>1 DEF Elsewhere
<1>4. QED
  BY <1>2, <1>3, ElsewhereKeeps DEF HInv

(* Close: rawConn.Close makes the descriptor stale in every batch.         *)
LEMMA CloseBodyMeanwhile ==
  ASSUME IInv, HInv, HNext, NEW c \in Conns, CloseStep(c)
  PROVE  HInv'
<1> USE DEF kernelVars, connVars, serverVars, acceptVars, epollVars
<1>1. CASE RawClose(c)
  <2>1. /\ closing'[c] = "reset" /\ UNCHANGED <<epc, ecur, batch, cache, announced, hasRecv, hungup>>
        /\ \A f \in Fds : owner'[f] = IF f = cfd[c] THEN Nil ELSE owner[f]
        /\ \A e \in Epollers : reg'[e] = reg[e] \ {cfd[c]}
        /\ \A d \in Conns \ {c} : inbox'[d] = inbox[d]
    BY <1>1, CloseOrder DEF RawClose, Advance, IInv, TypeOK
  <2>2. Registered'
    BY <2>1, StaysRegistered DEF IInv, TypeOK
  <2>3. \A d \in Conns : closing'[d] = "no" /\ Readable(d) => Readable(d)'
    BY <2>1 DEF Readable
  <2>4. Elsewhere
    BY <2>1, <2>3 DEF Elsewhere
  <2>5. QED
    BY <2>2, <2>4, ElsewhereKeeps DEF HInv
<1>2. CASE ~RawClose(c)
  <2>1. UNCHANGED <<epc, ecur, batch, cache, owner, announced, inbox, hungup>>
    BY <1>2 DEF CloseStep, OnClose, StopTimer, ClearTimer, EpollRemove, RemovConn, ResetFlag
  <2>2. \A e \in Epollers : reg'[e] \subseteq reg[e]
    BY <1>2 DEF CloseStep, OnClose, StopTimer, ClearTimer, EpollRemove, RemovConn,
           ResetFlag, IInv, TypeOK
  <2>3. \A d \in Conns : hasRecv'[d] => hasRecv[d]
    BY <1>2 DEF CloseStep, OnClose, StopTimer, ClearTimer, EpollRemove, RemovConn,
           ResetFlag, IInv, TypeOK
  <2>4. Registered'
    BY <2>1, <2>2, StaysRegistered
  <2>5. Elsewhere
    BY <2>1, <2>3 DEF Elsewhere, Readable
  <2>6. QED
    BY <2>4, <2>5, ElsewhereKeeps DEF HInv
<1>3. QED
  BY <1>1, <1>2

(* Accept takes a descriptor that is not registered anywhere.              *)
LEMMA AcceptMeanwhile ==
  ASSUME IInv, HInv, HNext, NEW e \in Epollers, NEW c \in Conns, NEW f \in Fds,
         Accept(e, c, f)
  PROVE  HInv'
<1> USE DEF kernelVars, connVars, serverVars, acceptVars, epollVars
<1>1. /\ owner[f] = Nil /\ \A g \in Fds \ {f} : owner'[g] = owner[g]
      /\ UNCHANGED <<reg, epc, ecur, batch, cache, announced, hasRecv, inbox, hungup>>
  BY DEF Accept, IInv, TypeOK
<1>2. Registered'
  <2>1. \A g \in Epollers : \A h \in reg'[g] : h \in Fds /\ h # f
    BY <1>1 DEF HInv, Registered, IInv, TypeOK
  <2>2. QED
    BY <1>1, <2>1, StaysRegistered
<1>3. Elsewhere
  BY <1>1 DEF Elsewhere, Readable
<1>4. QED
  BY <1>2, <1>3, ElsewhereKeeps DEF HInv

(* EpollAdd registers its own connection, or takes another one for it.     *)
LEMMA AcceptGoroutineMeanwhile ==
  ASSUME IInv, HInv, HNext, NEW e \in Epollers, AcceptStep(e)
  PROVE  HInv'
<1> USE DEF kernelVars, connVars, serverVars, acceptVars, epollVars
<1>1. UNCHANGED <<epc, ecur, batch, cache, owner, cfd, home, inbox, hungup>>
  BY DEF AcceptStep, NewTCPConn, AddConn, EpollAdd, AcceptAgain
<1>2. /\ announced \subseteq announced'
      /\ \A d \in Conns : hasRecv'[d] => hasRecv[d] \/ d \in announced'
  <2>1. CASE NewTCPConn(e)
    <3>1. acur[e] \in Conns
      BY <2>1, HasConn DEF NewTCPConn, IInv
    <3>2. hasRecv' = [hasRecv EXCEPT ![acur[e]] = ~Secert]
      BY <2>1 DEF NewTCPConn
    <3>3. Secert => UNCHANGED announced
      BY <2>1 DEF NewTCPConn
    <3>4. ~Secert => announced' = announced \cup {acur[e]}
      BY <2>1 DEF NewTCPConn, Connect
    <3>5. QED
      BY <3>1, <3>2, <3>3, <3>4, ServerAssumption DEF IInv, TypeOK, ServerAssumption
  <2>2. CASE AddConn(e) \/ EpollAdd(e) \/ AcceptAgain(e)
    BY <2>2 DEF AddConn, EpollAdd, AcceptAgain
  <2>3. QED
    BY <2>1, <2>2 DEF AcceptStep
<1>3. Elsewhere
  BY <1>1, <1>2 DEF Elsewhere, Readable
<1>4. Registered'
  <2>1. CASE UNCHANGED reg
    BY <1>1, <2>1, StaysRegistered
  <2>2. CASE ~UNCHANGED reg
    <3>1. /\ EpollAdd(e) /\ apc[e] = "epollAdd" /\ apc'[e] = "accept"
          /\ owner[cfd[acur[e]]] # Nil
          /\ reg' = [reg EXCEPT ![e] = @ \cup {cfd[acur[e]]}]
      BY <2>2 DEF AcceptStep, NewTCPConn, AddConn, EpollAdd, AcceptAgain, IInv, TypeOK
    <3>2. PICK c \in Conns : c = acur[e]
      BY <3>1, HasConn DEF IInv
    <3>3. /\ home[c] = e /\ cfd[c] \in Fds
      BY <3>1, <3>2, ServerAssumption DEF IInv, TypeOK, Accepting, ServerAssumption
    <3>4. PICK d \in Conns : d = owner[cfd[c]]
      BY <3>1, <3>2, <3>3 DEF IInv, TypeOK
    <3>5. d = c \/ d \in mixed'
      <4>1. d # c => AddedStale(e, d)
        BY <3>1, <3>2, <3>4 DEF AddedStale
      <4>2. QED
        BY <4>1 DEF HNext
    <3>6. mixed \subseteq mixed'
      BY DEF HNext
    <3>7. ASSUME NEW g \in Epollers, NEW h \in reg'[g]
          PROVE  owner'[h] # Nil /\ (home'[owner'[h]] = g \/ owner'[h] \in mixed')
      <4>1. CASE h \in reg[g]
        BY <1>1, <3>6, <4>1 DEF HInv, Registered
      <4>2. CASE h \notin reg[g]
        <5>1. g = e /\ h = cfd[c]
          BY <3>1, <3>2, <3>7, <4>2 DEF IInv, TypeOK
        <5>2. QED
          BY <1>1, <3>1, <3>2, <3>3, <3>4, <3>5, <5>1
      <4>3. QED
        BY <4>1, <4>2
    <3>8. QED
      BY <3>7 DEF Registered
  <2>3. QED
    BY <2>1, <2>2
<1>5. QED
  BY <1>3, <1>4, ElsewhereKeeps DEF HInv

-----------------------------------------------------------------------------
(* Steps of an epoll goroutine.                                            *)

LEMMA EpollMoves ==
  ASSUME TypeOK, NEW e \in Epollers, EpollStep(e)
  PROVE  \/ Wait(e) \/ Lookup(e) \/ DoRecvReturns(e)
         \/ /\ UNCHANGED <<ecur, batch>>
            /\ epc[e] \notin {"wait", "next"} /\ epc'[e] \notin {"wait", "next"}
  BY DEF EpollStep, Read, Message, CloseReturns, StopHbTimer, ArmHbTimer, SendMsg,
         BadPacket, Greet, Agree, Announce, AckError, DropPacket, CutCache,
         Building, epollVars, TypeOK

(* What the history variables do meanwhile.                                *)
LEMMA HistoryOf ==
  ASSUME HNext, UNCHANGED owner
  PROVE  /\ mixed \subseteq mixed'
         /\ \A g \in Epollers : stale'[g] = stale[g] \cap batch'[g]
<1>1. Released = {}
  BY DEF Released
<1>2. QED
  BY <1>1 DEF HNext

(* Lookup finds a connection of its own under a descriptor of the batch,   *)
(* or takes what it finds for another one.                                 *)
LEMMA Found ==
  ASSUME IInv, HInv, HNext, NEW e \in Epollers, NEW f \in batch[e], NEW c,
         c = conns[f], c # Nil, epc[e] = "next", ecur'[e] = c, f \notin batch'[e]
  PROVE  /\ c \in Conns /\ cfd[c] = f
         /\ \/ c \in mixed'
            \/ home[c] = e /\ (closing[c] = "no" => Readable(c))
<1>1. f \in Fds
  BY DEF IInv, TypeOK
<1>2. c \in Conns /\ owner[f] = c /\ cfd[c] = f
  BY <1>1 DEF IInv, TypeOK, Mapped, Owners
<1>3. CASE f \in stale[e]
  <2>1. ecur[e] = Nil
    BY DEF HInv, Attending
  <2>2. FoundStale(e, c)
    BY <1>3, <2>1 DEF FoundStale
  <2>3. QED
    BY <1>2, <2>2 DEF HNext
<1>4. CASE f \notin stale[e]
  <2>1. mixed \subseteq mixed'
    BY DEF HNext
  <2>2. c \in mixed \/ (home[c] = e /\ (closing[c] = "no" => Readable(c)))
    BY <1>2, <1>4 DEF HInv, Batched
  <2>3. QED
    BY <1>2, <2>1, <2>2
<1>5. QED
  BY <1>3, <1>4

LEMMA EpollBatched ==
  ASSUME IInv, HInv, HNext, NEW e \in Epollers, EpollStep(e), EpollEffect(e)
  PROVE  Batched'
<1>1. /\ UNCHANGED <<owner, reg, cfd, home, hungup>>
      /\ \A d \in Conns \ {ecur[e]} : inbox'[d] = inbox[d]
      /\ \A d \in Conns : closing'[d] = "no" => closing[d] = "no"
  BY DEF EpollEffect
<1>2. mixed \subseteq mixed' /\ \A g \in Epollers : stale'[g] = stale[g] \cap batch'[g]
  BY <1>1, HistoryOf
<1>3. ASSUME NEW g \in Epollers, NEW f \in batch'[g] \ stale'[g]
      PROVE  /\ owner'[f] # Nil
             /\ \/ owner'[f] \in mixed'
                \/ /\ home'[owner'[f]] = g
                   /\ closing'[owner'[f]] = "no" => Readable(owner[f])'
  <2>1. CASE g = e /\ Wait(e)
    <3>1. f \in reg[e] /\ owner[f] # Nil /\ Readable(owner[f]) /\ UNCHANGED inbox
      BY <1>3, <2>1 DEF Wait, kernelVars, IInv, TypeOK
    <3>2. home[owner[f]] = e \/ owner[f] \in mixed
      BY <3>1 DEF HInv, Registered
    <3>3. QED
      BY <1>1, <1>2, <2>1, <3>1, <3>2 DEF Readable
  <2>2. CASE ~(g = e /\ Wait(e))
    <3>1. batch'[g] \subseteq batch[g]
      <4>1. CASE g # e
        BY <4>1 DEF EpollEffect
      <4>2. CASE g = e
        BY <2>2, <4>2, EpollMoves DEF Lookup, DoRecvReturns, IInv, TypeOK
      <4>3. QED
        BY <4>1, <4>2
    <3>2. f \in batch[g] \ stale[g]
      BY <1>2, <1>3, <3>1
    <3>3. /\ owner[f] # Nil
          /\ \/ owner[f] \in mixed
             \/ home[owner[f]] = g /\ (closing[owner[f]] = "no" => Readable(owner[f]))
      BY <3>2 DEF HInv, Batched
    <3>4. owner[f] \in Conns /\ cfd[owner[f]] = f
      BY <3>2, <3>3 DEF IInv, TypeOK, Owners
    <3>5. CASE owner[f] \in mixed
      BY <1>1, <1>2, <3>3, <3>5
    <3>6. CASE owner[f] \notin mixed
      <4>1. owner[f] # ecur[e]
        BY <3>2, <3>3, <3>4, <3>6, ServerAssumption
        DEF HInv, Attending, ServerAssumption
      <4>2. QED
        BY <1>1, <3>3, <3>4, <3>6, <4>1 DEF Readable
    <3>7. QED
      BY <3>5, <3>6
  <2>3. QED
    BY <2>1, <2>2
<1>4. QED
  BY <1>3 DEF Batched

LEMMA EpollAttending ==
  ASSUME IInv, HInv, HNext, NEW e \in Epollers, EpollStep(e), EpollEffect(e)
  PROVE  Attending'
<1>1. /\ UNCHANGED <<owner, cfd, home>>
      /\ \A g \in Epollers \ {e} :
           epc'[g] = epc[g] /\ ecur'[g] = ecur[g] /\ batch'[g] = batch[g]
  BY DEF EpollEffect
<1>2. mixed \subseteq mixed'
  BY DEF HNext
<1>3. /\ ecur'[e] = Nil <=> epc'[e] \in {"wait", "next"}
      /\ ecur'[e] # Nil => /\ cfd[ecur'[e]] \notin batch'[e]
                           /\ home[ecur'[e]] = e \/ ecur'[e] \in mixed'
  <2>1. CASE Wait(e)
    BY <2>1 DEF Wait, HInv, Attending, IInv, TypeOK
  <2>2. CASE Lookup(e)
    <3>1. epc[e] = "next"
      BY <2>2 DEF Lookup
    <3>2. PICK f \in batch[e] :
            /\ batch' = [batch EXCEPT ![e] = @ \ {f}]
            /\ IF conns[f] = Nil
                 THEN Done(e) /\ UNCHANGED ecur
                 ELSE /\ ecur' = [ecur EXCEPT ![e] = conns[f]]
                      /\ epc' = [epc EXCEPT ![e] = "read"]
      BY <2>2 DEF Lookup
    <3>3. f \notin batch'[e]
      BY <3>2 DEF IInv, TypeOK
    <3>4. CASE conns[f] = Nil
      BY <3>1, <3>2, <3>4 DEF Done, HInv, Attending, IInv, TypeOK
    <3>5. CASE conns[f] # Nil
      <4>1. ecur'[e] = conns[f] /\ epc'[e] = "read"
        BY <3>2, <3>5 DEF IInv, TypeOK
      <4>2. cfd[conns[f]] = f /\ (conns[f] \in mixed' \/ home[conns[f]] = e)
        BY <3>1, <3>3, <3>5, <4>1, Found
      <4>3. QED
        BY <3>3, <3>5, <4>1, <4>2
    <3>6. QED
      BY <3>4, <3>5
  <2>3. CASE DoRecvReturns(e)
    BY <2>3 DEF DoRecvReturns, Done, IInv, TypeOK
  <2>4. CASE /\ UNCHANGED <<ecur, batch>>
             /\ epc[e] \notin {"wait", "next"} /\ epc'[e] \notin {"wait", "next"}
    BY <1>2, <2>4 DEF HInv, Attending
  <2>5. QED
    BY <2>1, <2>2, <2>3, <2>4, EpollMoves DEF IInv
<1>4. QED
  BY <1>1, <1>2, <1>3 DEF HInv, Attending

(* Before anybody has taken it for another one a connection is at hand in  *)
(* one epoll goroutine only.                                               *)
LEMMA AtHand ==
  ASSUME HInv, NEW d \in Epollers, NEW e \in Epollers,
         ecur[d] # Nil, ecur[d] = ecur[e], ecur[d] \notin mixed
  PROVE  d = e
  BY DEF HInv, Attending

(* A message is one of a connection that has been announced.               *)
LEMMA MessageAnnounced ==
  ASSUME IInv, HInv, NEW e \in Epollers, Message(e), ecur[e] \notin mixed
  PROVE  ecur[e] \in announced
<1>1. ecur[e] \in Conns /\ ecur[e] # Nil /\ epc[e] = "packet" /\ hasRecv[ecur[e]]
  BY HasConn, ServerAssumption DEF Message, IInv, ServerAssumption
<1>2. ASSUME NEW g \in Epollers, ecur[g] = ecur[e], epc[g] = "connect" PROVE FALSE
  BY <1>1, <1>2, AtHand
<1>3. QED
  BY <1>1, <1>2 DEF HInv, Shaken

LEMMA EpollHandles ==
  ASSUME IInv, HInv, HNext, NEW e \in Epollers, EpollStep(e), EpollEffect(e)
  PROVE  Handles(e)'
<1> USE ServerAssumption
    DEF ServerAssumption, kernelVars, connVars, serverVars, acceptVars, epollVars
<1>1. CASE Wait(e) \/ DoRecvReturns(e)
  <2>1. ecur'[e] = Nil
    BY <1>1 DEF Wait, DoRecvReturns, HInv, Attending, IInv, TypeOK
  <2>2. QED
    BY <2>1 DEF Handles
<1>2. CASE Lookup(e)
  <2>1. epc[e] = "next"
    BY <1>2 DEF Lookup
  <2>2. PICK f \in batch[e] :
          /\ batch' = [batch EXCEPT ![e] = @ \ {f}]
          /\ IF conns[f] = Nil
               THEN Done(e) /\ UNCHANGED ecur
               ELSE /\ ecur' = [ecur EXCEPT ![e] = conns[f]]
                    /\ epc' = [epc EXCEPT ![e] = "read"]
    BY <1>2 DEF Lookup
  <2>3. f \notin batch'[e]
    BY <2>2 DEF IInv, TypeOK
  <2>4. CASE conns[f] = Nil
    BY <2>1, <2>2, <2>4 DEF Handles, HInv, Attending
  <2>5. CASE conns[f] # Nil
    <3>1. ecur'[e] = conns[f] /\ epc'[e] = "read"
      BY <2>2, <2>5 DEF IInv, TypeOK
    <3>2. \/ conns[f] \in mixed'
          \/ closing[conns[f]] = "no" => Readable(conns[f])
      BY <2>1, <2>3, <2>5, <3>1, Found
    <3>3. UNCHANGED <<closing, inbox, hungup>>
      BY <1>2 DEF Lookup
    <3>4. QED
      BY <3>1, <3>2, <3>3 DEF Handles, Readable
  <2>6. QED
    BY <2>4, <2>5
<1>3. CASE ~Wait(e) /\ ~Lookup(e) /\ ~DoRecvReturns(e)
  <2>1. epc[e] \notin {"wait", "next"} /\ UNCHANGED ecur
    BY <1>3, EpollMoves DEF IInv
  <2>2. PICK c \in Conns : c = ecur[e]
    BY <2>1, HasConn DEF IInv
  <2>3. mixed \subseteq mixed' /\ announced \subseteq announced'
    BY DEF HNext, EpollEffect
  <2>4. SUFFICES ASSUME c \notin mixed
                 PROVE  /\ epc'[e] \notin {"read", "panic"}
                        /\ epc'[e] \notin {"packet", "close"} => cache'[c] > 0
                        /\ epc'[e] \in {"replyClose", "stopTimer", "armTimer", "send"}
                             => c \in announced'
    BY <2>1, <2>2, <2>3 DEF Handles
  <2>5. /\ epc[e] \notin {"read", "packet", "close"} => cache[c] > 0
        /\ epc[e] \in {"replyClose", "stopTimer", "armTimer", "send"} => c \in announced
    BY <2>2, <2>4 DEF HInv, Handling, Handles
  <2>6. cache \in [Conns -> Nat] /\ epc \in [Epollers -> EpollStates]
    BY DEF IInv, TypeOK
  <2>7. CASE Read(e)
    BY <2>6, <2>7 DEF Read
  <2>8. CASE Message(e)
    <3>1. c \in announced
      BY <2>2, <2>4, <2>8, MessageAnnounced
    <3>2. QED
      BY <2>2, <2>3, <2>6, <2>8, <3>1 DEF Message
  <2>9. CASE CloseReturns(e) \/ StopHbTimer(e) \/ ArmHbTimer(e) \/ SendMsg(e)
    BY <2>3, <2>5, <2>6, <2>9 DEF CloseReturns, StopHbTimer, ArmHbTimer, SendMsg
  <2>10. CASE \/ BadPacket(e) \/ Greet(e) \/ Agree(e) \/ AckError(e)
              \/ DropPacket(e) \/ Announce(e)
    BY <2>2, <2>5, <2>6, <2>10 DEF BadPacket, Greet, Agree, AckError, DropPacket,
       Announce, Building
  <2>11. CASE CutCache(e)
    BY <2>2, <2>5, <2>6, <2>11 DEF CutCache
  <2>12. QED
    BY <1>3, <2>7, <2>8, <2>9, <2>10, <2>11 DEF EpollStep
<1>4. QED
  BY <1>1, <1>2, <1>3

LEMMA EpollHandling ==
  ASSUME IInv, HInv, HNext, NEW e \in Epollers, EpollStep(e), EpollEffect(e)
  PROVE  Handling'
<1>1. mixed \subseteq mixed' /\ announced \subseteq announced'
  BY DEF HNext, EpollEffect
<1>2. ASSUME NEW g \in Epollers \ {e} PROVE Handles(g)'
  <2>1. epc'[g] = epc[g] /\ ecur'[g] = ecur[g] /\ UNCHANGED hungup
    BY DEF EpollEffect
  <2>2. SUFFICES ASSUME ecur[g] # Nil, ecur[g] \notin mixed PROVE Handles(g)'
    BY <1>1, <2>1 DEF Handles
  <2>3. PICK c \in Conns \ {ecur[e]} : c = ecur[g]
    BY <2>2, AtHand DEF IInv, TypeOK
  <2>4. inbox'[c] = inbox[c] /\ cache'[c] = cache[c] /\ closing'[c] = closing[c]
    BY DEF EpollEffect
  <2>5. Handles(g)
    BY DEF HInv, Handling
  <2>6. QED
    BY <1>1, <2>1, <2>2, <2>3, <2>4, <2>5 DEF Handles, Readable
<1>3. QED
  BY <1>2, EpollHandles DEF Handling

LEMMA EpollShaken ==
  ASSUME IInv, HInv, NEW e \in Epollers, EpollStep(e), EpollEffect(e)
  PROVE  Shaken'
<1>1. /\ announced \subseteq announced'
      /\ \A g \in Epollers \ {e} : epc'[g] = epc[g] /\ ecur'[g] = ecur[g]
  BY DEF EpollEffect
<1>2. ASSUME NEW c \in Conns, hasRecv'[c]
      PROVE  \/ c \in announced'
             \/ \E g \in Epollers : ecur'[g] = c /\ epc'[g] = "connect"
  <2>1. CASE Agree(e)
    <3>1. epc[e] = "packet" /\ epc'[e] = "connect" /\ UNCHANGED ecur
      BY <2>1 DEF Agree, Building, IInv, TypeOK
    <3>2. CASE c = ecur[e]
      BY <3>1, <3>2
    <3>3. CASE c # ecur[e]
      <4>1. hasRecv[c]
        BY <1>2, <3>3 DEF EpollEffect
      <4>2. QED
        BY <1>1, <3>1, <4>1 DEF HInv, Shaken
    <3>4. QED
      BY <3>2, <3>3
  <2>2. CASE Announce(e)
    <3>1. UNCHANGED <<hasRecv, ecur>> /\ announced' = announced \cup {ecur[e]}
      BY <2>2 DEF Announce, Connect, connVars
    <3>2. QED
      BY <1>1, <1>2, <3>1 DEF HInv, Shaken
  <2>3. CASE ~Agree(e) /\ ~Announce(e)
    <3>1. hasRecv[c] /\ epc[e] # "connect"
      BY <1>2, <2>3 DEF EpollStep, Wait, Lookup, Read, DoRecvReturns, Message,
         CloseReturns, StopHbTimer, ArmHbTimer, SendMsg, BadPacket, Greet,
         AckError, DropPacket, CutCache, Building, ReturnFromRecv, connVars
    <3>2. QED
      BY <1>1, <3>1 DEF HInv, Shaken
  <2>4. QED
    BY <2>1, <2>2, <2>3
<1>3. QED
  BY <1>2 DEF Shaken

LEMMA EpollGoroutineMeanwhile ==
  ASSUME IInv, HInv, HNext, NEW e \in Epollers, EpollStep(e)
  PROVE  HInv'
<1>1. EpollEffect(e)
  BY EpollEffectOf DEF IInv
<1>2. Registered'
  BY <1>1, StaysRegistered DEF EpollEffect
<1>3. QED
  BY <1>1, <1>2, EpollBatched, EpollAttending, EpollHandling, EpollShaken DEF HInv

-----------------------------------------------------------------------------
LEMMA InitHInv == HInit => HInv
  BY DEF HInit, Init, HInv, Registered, Batched, Attending, Handling, Handles, Shaken

LEMMA NextHInv == IInv /\ HInv /\ [HNext /\ Timely]_hvars => HInv'
<1> SUFFICES ASSUME IInv, HInv, [HNext /\ Timely]_hvars PROVE HInv'
  OBVIOUS
<1>1. CASE UNCHANGED hvars
  <2> USE <1>1 DEF hvars, vars, kernelVars, connVars, serverVars, acceptVars, epollVars
  <2>1. Registered' /\ Attending' /\ Shaken'
    BY DEF HInv, Registered, Attending, Shaken
  <2>2. Batched' /\ Handling'
    BY DEF HInv, Batched, Handling, Handles, Readable
  <2>3. QED
    BY <2>1, <2>2 DEF HInv
<1>2. CASE HNext
  <2>1. Next
    BY <1>2 DEF HNext
  <2>2. CASE \/ Dispatch
             \/ \E c \in Conns : ClientSend(c) \/ ClientClose(c) \/ TimeOut(c)
             \/ \E f \in Fds : CloseConn(f)
    BY <1>2, <2>2, OthersMeanwhile
  <2>3. CASE \E c \in Conns : CloseStep(c)
    BY <1>2, <2>3, CloseBodyMeanwhile
  <2>4. CASE \E e \in Epollers, c \in Conns, f \in Fds : Accept(e, c, f)
    BY <1>2, <2>4, AcceptMeanwhile
  <2>5. CASE \E e \in Epollers : AcceptStep(e)
    BY <1>2, <2>5, AcceptGoroutineMeanwhile
  <2>6. CASE \E e \in Epollers : EpollStep(e)
    BY <1>2, <2>6, EpollGoroutineMeanwhile
  <2>7. QED
    BY <2>1, <2>2, <2>3, <2>4, <2>5, <2>6 DEF Next
<1>3. QED
  BY <1>1, <1>2

LEMMA InductiveHistory == HSpec => [](IInv /\ HInv)
<1>1. HInit => IInv /\ HInv
  BY InitIInv, InitHInv DEF HInit
<1>2. IInv /\ HInv /\ [HNext /\ Timely]_hvars => (IInv /\ HInv)'
  <2>1. [HNext /\ Timely]_hvars => [Next /\ Timely]_vars
    BY DEF HNext, hvars
  <2>2. QED
    BY <2>1, NextIInv, NextHInv
<1>3. QED
  BY <1>1, <1>2, PTL DEF HSpec

-----------------------------------------------------------------------------
(* Two epoll goroutines receive on the same connection only after one of   *)
(* them, or EpollAdd, has found it under the number of a connection that   *)
(* was closed meanwhile: this is the only way, on every schedule.          *)
THEOREM ConnectionsHaveOneReader == HSpec => []OneReader
<1>1. IInv /\ HInv => OneReader
  BY AtHand DEF OneReader
<1>2. QED
  BY <1>1, InductiveHistory, PTL

(* DoRecv blocks its epoller in Read, on a connection that nobody closes,  *)
(* only after such a mix-up.                                               *)
THEOREM ReadsDoNotBlock == HSpec => []ReadIsReady
<1>1. IInv /\ HInv => ReadIsReady
  BY DEF HInv, Attending, Handling, Handles, ReadIsReady
<1>2. QED
  BY <1>1, InductiveHistory, PTL

(* A message goes to config.MsgCh before OnConnect only after a mix-up,    *)
(* with the handshake and without it.                                      *)
THEOREM ConnectComesBeforeMessages == HSpec => []AnnouncedFirst
<1>1. IInv /\ HInv => AnnouncedFirst
  BY DEF HInv, Attending, Handling, Handles, AnnouncedFirst
<1>2. QED
  BY <1>1, InductiveHistory, PTL

(* An epoll goroutine panics on the cache of a connection only after it    *)
(* has been taken for another one.                                         *)
THEOREM PanicsNeedAMixUp == HSpec => []PanicIsMixed
<1>1. IInv /\ HInv => PanicIsMixed
  BY DEF HInv, Attending, Handling, Handles, PanicIsMixed
<1>2. QED
  BY <1>1, InductiveHistory, PTL

=============================================================================
