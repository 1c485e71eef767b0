--------------------------- MODULE LifecycleProofs ---------------------------
(***************************************************************************)
(* For any number of epollers, callers of Close and clients: every         *)
(* variable of the server's life keeps its type, and until the context is  *)
(* done the server works.  That no goroutine has left its loop by then is  *)
(* not inductive: the accept goroutines and the epoll goroutines stay in   *)
(* their loops because no call of Close has come past the cancellation,    *)
(* and so the listeners and the epolls they use are open (AtWork).         *)
(***************************************************************************)
EXTENDS Lifecycle, TLAPS

(* What a goroutine works on where it stands.                              *)
Control ==
  /\ \A e \in Epollers :
       /\ apc[e] # "listen" => listener # Nil
       /\ apc[e] \in {"addConn", "epollAdd"} => acur[e] \in Clients
       /\ apc[e] = "accepting" => from[e] \in Epollers
  /\ \A p \in Closers :
       /\ cpc[p] # "off" => listener # Nil
       /\ cpc[p] = "conns" => left[p] \subseteq Clients
       /\ cpc[p] = "epollers" => left[p] \subseteq Epollers

AtWork ==
  ~ctxDone =>
    /\ \A p \in Closers : cpc[p] \in {"off", "cancel"}
    /\ \A e \in Epollers :
         /\ from[e] # Nil => from[e] \in open
         /\ apc[e] \notin {"listen", "mkEpoll"} => e \in polls
         /\ spc[e] # "off" => e \in polls

IInv == TypeOK /\ Control /\ AtWork /\ Serving

USE LifecycleAssumption DEF Closers

-----------------------------------------------------------------------------
LEMMA InitIInv == Init => IInv
<1> SUFFICES ASSUME Init PROVE IInv
  OBVIOUS
<1>1. TypeOK
  BY DEF Init, TypeOK, AcceptStates, StartStates, CloseStates
<1>2. Control
  BY DEF Init, Control
<1>3. AtWork /\ Serving
  BY DEF Init, AtWork, Serving
<1> QED BY <1>1, <1>2, <1>3 DEF IInv

-----------------------------------------------------------------------------
(* The kernel, the clients and the application.                            *)
LEMMA AroundIInv ==
  ASSUME IInv,
         \/ \E c \in Clients : Leave(c) \/ \E l \in Epollers : Arrive(c, l)
         \/ \E l \in Epollers : Collect(l)
         \/ CancelParent
         \/ \E p \in Callers : CallClose(p)
  PROVE  IInv'
<1> USE DEF IInv, netVars, serverVars, acceptVars, closeVars
<1>1. ASSUME NEW c \in Clients, Leave(c) PROVE IInv'
  <2>1. TypeOK'
    BY <1>1 DEF TypeOK, Leave, CloseConns
  <2> QED BY <1>1, <2>1 DEF Leave, CloseConns, Control, AtWork, Serving
<1>2. ASSUME NEW c \in Clients, NEW l \in Epollers, Arrive(c, l) PROVE IInv'
  <2>1. TypeOK'
    BY <1>2 DEF TypeOK, Arrive
  <2> QED BY <1>2, <2>1 DEF Arrive, Control, AtWork, Serving
<1>3. ASSUME NEW l \in Epollers, Collect(l) PROVE IInv'
  <2>1. TypeOK'
    BY <1>3 DEF TypeOK, Collect, Shut
  <2> QED BY <1>3, <2>1 DEF Collect, Shut, Control, AtWork, Serving
<1>4. ASSUME CancelParent PROVE IInv'
  <2>1. TypeOK'
    BY <1>4 DEF TypeOK, CancelParent
  <2> QED BY <1>4, <2>1 DEF CancelParent, Control, AtWork, Serving
<1>5. ASSUME NEW p \in Callers, CallClose(p) PROVE IInv'
  <2>1. TypeOK'
    BY <1>5 DEF TypeOK, CallClose, CloseStates
  <2>2. Control'
    BY <1>5 DEF TypeOK, CallClose, Control
  <2> QED BY <1>5, <2>1, <2>2 DEF TypeOK, CallClose, AtWork, Serving
<1> QED BY <1>1, <1>2, <1>3, <1>4, <1>5

-----------------------------------------------------------------------------
(* The accept goroutines.                                                  *)
LEMMA StartEpollIInv ==
  ASSUME IInv, NEW e \in Epollers, StartEpoll(e)
  PROVE  IInv'
<1> USE DEF IInv, netVars, serverVars, acceptVars, closeVars, Goto
<1>1. CASE Listen(e)
  <2>1. TypeOK'
    BY <1>1 DEF TypeOK, Listen, AcceptStates
  <2>2. Control'
    BY <1>1 DEF TypeOK, Listen, Control
  <2> QED BY <1>1, <2>1, <2>2 DEF TypeOK, Listen, AtWork, Serving
<1>2. CASE MkEpoll(e)
  <2>1. TypeOK'
    BY <1>2 DEF TypeOK, MkEpoll, AcceptStates
  <2>2. Control'
    BY <1>2 DEF TypeOK, MkEpoll, Control
  <2> QED BY <1>2, <2>1, <2>2 DEF TypeOK, MkEpoll, AtWork, Serving
<1>3. CASE InsertEpoll(e)
  <2>1. TypeOK'
    BY <1>3 DEF TypeOK, InsertEpoll, AcceptStates
  <2>2. Control'
    BY <1>3 DEF TypeOK, InsertEpoll, Control
  <2> QED BY <1>3, <2>1, <2>2 DEF TypeOK, InsertEpoll, AtWork, Serving
<1>4. CASE GoStart(e)
  <2>1. TypeOK'
    BY <1>4 DEF TypeOK, GoStart, AcceptStates, StartStates
  <2>2. Control'
    BY <1>4 DEF TypeOK, GoStart, Control
  <2> QED BY <1>4, <2>1, <2>2 DEF TypeOK, GoStart, AtWork, Serving
<1>5. CASE LoadListener(e)
  <2>1. TypeOK'
    BY <1>5 DEF TypeOK, LoadListener, AcceptStates
  <2>2. Control'
    BY <1>5 DEF TypeOK, LoadListener, Control
  <2> QED BY <1>5, <2>1, <2>2 DEF TypeOK, LoadListener, AtWork, Serving
<1>6. CASE Accept(e)
  <2>1. PICK c \in backlog[from[e]] : acur' = [acur EXCEPT ![e] = c]
    BY <1>6 DEF Accept
  <2>2. from[e] \in Epollers /\ c \in Clients
    BY <1>6, <2>1 DEF Accept, Control, TypeOK
  <2>3. TypeOK'
    BY <1>6, <2>1, <2>2 DEF TypeOK, Accept, AcceptStates
  <2>4. Control'
    BY <1>6, <2>1, <2>2 DEF TypeOK, Accept, Control
  <2> QED BY <1>6, <2>3, <2>4 DEF TypeOK, Accept, AtWork, Serving
(* Only a listener that a call of Close has shut lets Accept fail.         *)
<1>7. CASE AcceptFails(e)
  <2>1. TypeOK'
    BY <1>7 DEF TypeOK, AcceptFails, AcceptStates
  <2>2. Control'
    BY <1>7 DEF TypeOK, AcceptFails, Control
  <2>3. ctxDone
    BY <1>7 DEF AcceptFails, Control, AtWork
  <2> QED BY <1>7, <2>1, <2>2, <2>3 DEF AcceptFails, AtWork, Serving
<1>8. CASE AddConn(e)
  <2>1. TypeOK'
    BY <1>8 DEF TypeOK, AddConn, AcceptStates, Control
  <2>2. Control'
    BY <1>8 DEF TypeOK, AddConn, Control
  <2> QED BY <1>8, <2>1, <2>2 DEF TypeOK, AddConn, AtWork, Serving
<1>9. CASE EpollAdd(e)
  <2>1. TypeOK'
    BY <1>9 DEF TypeOK, EpollAdd, CloseConns, AcceptStates, Control
  <2>2. Control'
    BY <1>9 DEF TypeOK, EpollAdd, CloseConns, Control
  <2> QED BY <1>9, <2>1, <2>2 DEF TypeOK, EpollAdd, CloseConns, AtWork, Serving
<1>10. CASE Return(e)
  <2>1. TypeOK'
    BY <1>10 DEF TypeOK, Return, AcceptStates, CloseStates
  <2>2. Control'
    BY <1>10 DEF TypeOK, Return, Control
  <2>3. ctxDone
    BY <1>10 DEF Return, Serving
  <2> QED BY <1>10, <2>1, <2>2, <2>3 DEF Return, AtWork, Serving
<1> QED BY <1>1, <1>2, <1>3, <1>4, <1>5, <1>6, <1>7, <1>8, <1>9, <1>10 DEF StartEpoll

-----------------------------------------------------------------------------
(* The epoll goroutines: they fail only on an epoll that Close has closed. *)
LEMMA StartIInv ==
  ASSUME IInv, NEW e \in Epollers, Start(e)
  PROVE  IInv'
<1> USE DEF IInv, netVars, serverVars, acceptVars, closeVars
<1>1. PICK s \in StartStates, t \in StartStates \ {"off"} :
        /\ Turn(e, s, t)
        /\ s # "off"
        /\ ~ctxDone => t \notin {"failed", "exit"}
  BY DEF Start, EpollWait, WaitReturns, WaitFails, Continue, SelectDone, Turn,
         StartStates, AtWork, Serving
<1>2. TypeOK'
  BY <1>1 DEF TypeOK, Turn, StartStates
<1>3. Control'
  BY <1>1 DEF Turn, Control
<1>4. AtWork' /\ Serving'
  BY <1>1 DEF Turn, TypeOK, AtWork, Serving
<1> QED BY <1>2, <1>3, <1>4

-----------------------------------------------------------------------------
(* Server.Close: after its first step the context is done.                 *)
LEMMA CloseIInv ==
  ASSUME IInv, NEW p \in Closers, Close(p)
  PROVE  IInv'
<1> USE DEF IInv, netVars, serverVars, acceptVars, closeVars
<1>1. listener \in Epollers
  BY DEF Close, Cancel, GetAll, CloseOne, AllClosed, Clear, CloseEpoll, EpollsClosed,
         CloseListener, StopWheel, At, Loop, Control, TypeOK
<1>2. ctxDone'
  BY DEF Close, Cancel, GetAll, CloseOne, AllClosed, Clear, CloseEpoll, EpollsClosed,
         CloseListener, StopWheel, At, Loop, AtWork
<1>3. AtWork' /\ Serving'
  BY <1>2 DEF AtWork, Serving
<1>4. CASE Cancel(p)
  BY <1>3, <1>4 DEF Cancel, At, TypeOK, CloseStates, Control
<1>5. CASE GetAll(p)
  BY <1>3, <1>5 DEF GetAll, At, TypeOK, CloseStates, Control
<1>6. CASE CloseOne(p)
  <2>1. PICK c \in left[p] : CloseConns({c}) /\ left' = [left EXCEPT ![p] = @ \ {c}]
    BY <1>6 DEF CloseOne
  <2>2. c \in Clients
    BY <1>6, <2>1 DEF CloseOne, Control
  <2>3. TypeOK'
    BY <1>6, <2>1, <2>2 DEF CloseOne, CloseConns, TypeOK
  <2>4. Control'
    BY <1>6, <2>1 DEF CloseOne, TypeOK, Control
  <2> QED BY <1>3, <2>3, <2>4
<1>7. CASE AllClosed(p)
  BY <1>3, <1>7 DEF AllClosed, Loop, At, TypeOK, CloseStates, Control
<1>8. CASE Clear(p)
  BY <1>3, <1>8 DEF Clear, At, TypeOK, CloseStates, Control
<1>9. CASE CloseEpoll(p)
  <2>1. PICK e \in left[p] : polls' = polls \ {e} /\ left' = [left EXCEPT ![p] = @ \ {e}]
    BY <1>9 DEF CloseEpoll
  <2>2. TypeOK'
    BY <1>9, <2>1 DEF CloseEpoll, TypeOK
  <2>3. Control'
    BY <1>9, <2>1 DEF CloseEpoll, TypeOK, Control
  <2> QED BY <1>3, <2>2, <2>3
<1>10. CASE EpollsClosed(p)
  BY <1>3, <1>10 DEF EpollsClosed, Loop, At, TypeOK, CloseStates, Control
<1>11. CASE CloseListener(p)
  <2>1. TypeOK'
    BY <1>1, <1>11 DEF CloseListener, Shut, At, TypeOK, CloseStates
  <2>2. Control'
    BY <1>11 DEF CloseListener, Shut, At, TypeOK, Control
  <2> QED BY <1>3, <2>1, <2>2
<1>12. CASE StopWheel(p)
  BY <1>3, <1>12 DEF StopWheel, At, TypeOK, CloseStates, Control
<1> QED BY <1>4, <1>5, <1>6, <1>7, <1>8, <1>9, <1>10, <1>11, <1>12 DEF Close

-----------------------------------------------------------------------------
LEMMA NextIInv == IInv /\ [Next]_vars => IInv'
<1> SUFFICES ASSUME IInv, [Next]_vars PROVE IInv'
  OBVIOUS
<1>1. CASE Next
  BY <1>1, AroundIInv, StartEpollIInv, StartIInv, CloseIInv DEF Next
<1>2. CASE UNCHANGED vars
  BY <1>2 DEF vars, netVars, serverVars, acceptVars, closeVars, IInv, TypeOK,
              Control, AtWork, Serving
<1> QED BY <1>1, <1>2

(* Every variable of the server's life keeps its type; in particular Close *)
(* never closes the listener of a field that no startEpoll has assigned.   *)
THEOREM LifeTypeOK == Spec => []TypeOK
<1>1. IInv => TypeOK
  BY DEF IInv
<1> QED BY <1>1, InitIInv, NextIInv, PTL DEF Spec

(* Until the context is done the listener of the field is open, every      *)
(* accept goroutine is in its loop, and every epoll goroutine has its      *)
(* epoll, in whatever order the goroutines of Run start.                   *)
THEOREM ServesUntilCancelled == Spec => []Serving
<1>1. IInv => Serving
  BY DEF IInv
<1> QED BY <1>1, InitIInv, NextIInv, PTL DEF Spec
=============================================================================
