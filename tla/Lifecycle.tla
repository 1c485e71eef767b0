----------------------------- MODULE Lifecycle -----------------------------
(***************************************************************************)
(* socket.Server as a whole: Run, the goroutines that startEpoll starts,   *)
(* and Server.Close.                                                       *)
(*                                                                         *)
(* Run starts EpollNum goroutines.  Each opens a listener of its own on    *)
(* the common address (SO_REUSEPORT), assigns it to the one field          *)
(* s.listener, makes an epoll, starts its epoll goroutine and accepts from *)
(* the listener that the field holds at that moment.  Close may be called  *)
(* by the application, and is called by every accept goroutine that leaves *)
(* its loop.  Nothing keeps these calls apart, so each of their steps is   *)
(* an action; what a connection does while it is served is module Server.  *)
(***************************************************************************)
EXTENDS Naturals, FiniteSets

CONSTANTS
  Epollers,  (* one for each of the EpollNum goroutines of Run             *)
  Callers,   (* calls of Server.Close by the application                   *)
  Clients,   (* the clients that connect                                   *)
  Nil

ASSUME LifecycleAssumption ==
  /\ Nil \notin Epollers \cup Clients
  /\ Epollers \cap Callers = {}

Closers == Epollers \cup Callers

VARIABLES
  listener,  (* Server.listener: whose listener it is                      *)
  open,      (* the listeners that are open                                *)
  backlog,   (* the clients that wait on each of them                      *)
  epoller,   (* Server.epoller                                             *)
  polls,     (* the epoll descriptors that are open                        *)
  ctxDone,   (* the server's context is done                               *)
  conns,     (* Server.conns                                               *)
  closed,    (* connections that TCPConn.Close has closed                  *)
  refused,   (* clients that were reset when their listener was closed     *)
  wheelOff,  (* TimingWheel.Stop has closed exitC                          *)
  apc,       (* where each accept goroutine stands                         *)
  from,      (* the listener from which it accepts                         *)
  acur,      (* the connection it has accepted                             *)
  spc,       (* where each epoll goroutine stands                          *)
  cpc,       (* where each call of Close stands                            *)
  left,      (* what is left of the slice over which it loops              *)
  panicked   (* a goroutine has panicked: the process ends                 *)

netVars    == <<open, backlog, polls, refused>>
serverVars == <<listener, epoller, ctxDone, conns, closed, wheelOff, panicked>>
acceptVars == <<apc, from, acur>>
closeVars  == <<cpc, left>>
vars == <<netVars, serverVars, acceptVars, spc, closeVars>>

Init ==
  /\ listener = Nil /\ open = {} /\ backlog = [l \in Epollers |-> {}]
  /\ epoller = {} /\ polls = {} /\ ctxDone = FALSE
  /\ conns = {} /\ closed = {} /\ refused = {} /\ wheelOff = FALSE
  /\ apc = [e \in Epollers |-> "listen"]
  /\ from = [e \in Epollers |-> Nil]
  /\ acur = [e \in Epollers |-> Nil]
  /\ spc = [e \in Epollers |-> "off"]
  /\ cpc = [p \in Closers |-> "off"]
  /\ left = [p \in Closers |-> {}]
  /\ panicked = FALSE

Waiting  == UNION {backlog[l] : l \in Epollers}
Accepted == conns \cup closed \cup {acur[e] : e \in Epollers}

-----------------------------------------------------------------------------
(* The kernel.                                                             *)

(* The connection of a client goes to one of the open listeners.           *)
Arrive(c, l) ==
  /\ l \in open
  /\ c \notin Waiting \cup Accepted \cup refused
  /\ backlog' = [backlog EXCEPT ![l] = @ \cup {c}]
  /\ UNCHANGED <<open, polls, refused, serverVars, acceptVars, spc, closeVars>>

(* A listener is closed: the clients that wait on it are reset.            *)
Shut(l) ==
  /\ open' = open \ {l}
  /\ refused' = refused \cup backlog[l]
  /\ backlog' = [backlog EXCEPT ![l] = {}]

(* The garbage collector closes a listener that nothing names any more.    *)
Collect(l) ==
  /\ l \in open /\ l # listener
  /\ \A e \in Epollers : from[e] # l
  /\ Shut(l)
  /\ UNCHANGED <<polls, serverVars, acceptVars, spc, closeVars>>

-----------------------------------------------------------------------------
(* startEpoll.                                                             *)

Goto(e, s, t) ==
  /\ apc[e] = s
  /\ apc' = [apc EXCEPT ![e] = t]

(* reuseport.Listen, assigned to the field of the server.                  *)
Listen(e) ==
  /\ Goto(e, "listen", "mkEpoll")
  /\ listener' = e
  /\ open' = open \cup {e}
  /\ UNCHANGED <<backlog, polls, refused, epoller, ctxDone, conns, closed,
                 wheelOff, panicked, from, acur, spc, closeVars>>

(* MkEpoll, then insertEpoll.                                              *)
MkEpoll(e) ==
  /\ Goto(e, "mkEpoll", "insertEpoll")
  /\ polls' = polls \cup {e}
  /\ UNCHANGED <<open, backlog, refused, serverVars, from, acur, spc, closeVars>>
InsertEpoll(e) ==
  /\ Goto(e, "insertEpoll", "start")
  /\ epoller' = epoller \cup {e}
  /\ UNCHANGED <<netVars, listener, ctxDone, conns, closed, wheelOff, panicked,
                 from, acur, spc, closeVars>>

(* go s.Start(epoller)                                                     *)
GoStart(e) ==
  /\ Goto(e, "start", "accept")
  /\ spc' = [spc EXCEPT ![e] = "wait"]
  /\ UNCHANGED <<netVars, serverVars, from, acur, closeVars>>

(* s.listener.Accept: the field is read, then the goroutine waits for a    *)
(* client or for the listener to be closed.                                *)
LoadListener(e) ==
  /\ Goto(e, "accept", "accepting")
  /\ from' = [from EXCEPT ![e] = listener]
  /\ UNCHANGED <<netVars, serverVars, acur, spc, closeVars>>
Accept(e) ==
  /\ Goto(e, "accepting", "addConn")
  /\ from[e] \in open
  /\ \E c \in backlog[from[e]] :
       /\ acur' = [acur EXCEPT ![e] = c]
       /\ backlog' = [backlog EXCEPT ![from[e]] = @ \ {c}]
  /\ from' = [from EXCEPT ![e] = Nil]
  /\ UNCHANGED <<open, polls, refused, serverVars, spc, closeVars>>

(* Any error but a temporary one ends the loop.                            *)
AcceptFails(e) ==
  /\ Goto(e, "accepting", "return")
  /\ from[e] \notin open
  /\ from' = [from EXCEPT ![e] = Nil]
  /\ UNCHANGED <<netVars, serverVars, acur, spc, closeVars>>

AddConn(e) ==
  /\ Goto(e, "addConn", "epollAdd")
  /\ conns' = conns \cup {acur[e]}
  /\ UNCHANGED <<netVars, listener, epoller, ctxDone, closed, wheelOff, panicked,
                 from, acur, spc, closeVars>>

(* TCPConn.Close of the connections of C.                                  *)
CloseConns(C) ==
  /\ closed' = closed \cup C
  /\ conns' = conns \ C

(* epoller.Add fails when Close has closed the epoll.  Mutant: the         *)
(* goroutine is done after one connection.                                 *)
OneConn(e) ==
  /\ Goto(e, "epollAdd", "return")
  /\ CloseConns(IF e \in polls THEN {} ELSE {acur[e]})
  /\ acur' = [acur EXCEPT ![e] = Nil]
  /\ UNCHANGED <<netVars, listener, epoller, ctxDone, wheelOff, panicked, from,
                 spc, closeVars>>
EpollAdd(e) ==
  /\ Goto(e, "epollAdd", "accept")
  /\ CloseConns(IF e \in polls THEN {} ELSE {acur[e]})
  /\ acur' = [acur EXCEPT ![e] = Nil]
  /\ UNCHANGED <<netVars, listener, epoller, ctxDone, wheelOff, panicked, from,
                 spc, closeVars>>

(* The deferred function calls Close.                                      *)
Return(e) ==
  /\ Goto(e, "return", "exit")
  /\ cpc' = [cpc EXCEPT ![e] = "cancel"]
  /\ UNCHANGED <<netVars, serverVars, from, acur, spc, left>>

StartEpoll(e) ==
  \/ Listen(e) \/ MkEpoll(e) \/ InsertEpoll(e) \/ GoStart(e)
  \/ LoadListener(e) \/ Accept(e) \/ AcceptFails(e)
  \/ AddConn(e) \/ EpollAdd(e) \/ Return(e)

-----------------------------------------------------------------------------
(* Start, the epoll goroutine.                                             *)

Turn(e, s, t) ==
  /\ spc[e] = s
  /\ spc' = [spc EXCEPT ![e] = t]
  /\ UNCHANGED <<netVars, serverVars, acceptVars, closeVars>>

(* epoll_wait returns after 256 ms at the latest, also when the descriptor *)
(* is closed meanwhile, and the events are handled.                        *)
EpollWait(e) == e \in polls /\ Turn(e, "wait", "waiting")
WaitReturns(e) == Turn(e, "waiting", "select")

(* On a closed descriptor it fails at once, and the loop continues.        *)
WaitFails(e) == e \notin polls /\ Turn(e, "wait", "failed")
Continue(e) == Turn(e, "failed", "wait")

(* The select on ctx.Done().  Mutant: there is none.                       *)
NoSelect(e) == Turn(e, "select", "wait")
SelectDone(e) == Turn(e, "select", IF ctxDone THEN "exit" ELSE "wait")

Start(e) ==
  EpollWait(e) \/ WaitReturns(e) \/ WaitFails(e) \/ Continue(e) \/ SelectDone(e)

-----------------------------------------------------------------------------
(* A connection closes for a reason of its own.                            *)
Leave(c) ==
  /\ c \in conns
  /\ CloseConns({c})
  /\ UNCHANGED <<netVars, listener, epoller, ctxDone, wheelOff, panicked,
                 acceptVars, spc, closeVars>>

(* The application cancels config.Ctx.                                     *)
CancelParent ==
  /\ ~ctxDone
  /\ ctxDone' = TRUE
  /\ UNCHANGED <<netVars, listener, epoller, conns, closed, wheelOff, panicked,
                 acceptVars, spc, closeVars>>

-----------------------------------------------------------------------------
(* Server.Close.                                                           *)

(* The application calls it when the server listens.                       *)
CallClose(p) ==
  /\ cpc[p] = "off" /\ listener # Nil
  /\ cpc' = [cpc EXCEPT ![p] = "cancel"]
  /\ UNCHANGED <<netVars, serverVars, acceptVars, spc, left>>

At(p, s, t) ==
  /\ cpc[p] = s
  /\ cpc' = [cpc EXCEPT ![p] = t]

(* Mutant: the context is left alone.                                      *)
NoCancel(p) ==
  /\ At(p, "cancel", "getAll")
  /\ UNCHANGED <<netVars, serverVars, acceptVars, spc, left>>
Cancel(p) ==
  /\ At(p, "cancel", "getAll")
  /\ ctxDone' = TRUE
  /\ UNCHANGED <<netVars, listener, epoller, conns, closed, wheelOff, panicked,
                 acceptVars, spc, left>>

GetAll(p) ==
  /\ At(p, "getAll", "conns")
  /\ left' = [left EXCEPT ![p] = conns]
  /\ UNCHANGED <<netVars, serverVars, acceptVars, spc>>

(* A loop over a slice: the body for each element, and then the next step. *)
Loop(p, s, t) ==
  /\ left[p] = {} /\ At(p, s, t)
  /\ UNCHANGED <<netVars, acceptVars, spc>>

CloseOne(p) ==
  /\ cpc[p] = "conns"
  /\ \E c \in left[p] : /\ CloseConns({c})
                        /\ left' = [left EXCEPT ![p] = @ \ {c}]
  /\ UNCHANGED <<netVars, listener, epoller, ctxDone, wheelOff, panicked,
                 acceptVars, spc, cpc>>
AllClosed(p) == Loop(p, "conns", "clear") /\ UNCHANGED <<serverVars, left>>

(* s.conns.Clear(), and the evaluation of s.epoller for the next loop.     *)
Clear(p) ==
  /\ At(p, "clear", "epollers")
  /\ conns' = {}
  /\ left' = [left EXCEPT ![p] = epoller]
  /\ UNCHANGED <<netVars, listener, epoller, ctxDone, closed, wheelOff, panicked,
                 acceptVars, spc>>

(* epoller.Close; that of a descriptor which is closed already fails.      *)
CloseEpoll(p) ==
  /\ cpc[p] = "epollers"
  /\ \E e \in left[p] : /\ polls' = polls \ {e}
                        /\ left' = [left EXCEPT ![p] = @ \ {e}]
  /\ UNCHANGED <<open, backlog, refused, serverVars, acceptVars, spc, cpc>>
EpollsClosed(p) == Loop(p, "epollers", "listener") /\ UNCHANGED <<serverVars, left>>

(* s.listener.Close(), of the listener that the field holds.               *)
CloseListener(p) ==
  /\ At(p, "listener", "wheel")
  /\ Shut(listener)
  /\ UNCHANGED <<polls, serverVars, acceptVars, spc, left>>

(* timerWheel.Stop() closes exitC, and panics when that is closed.         *)
StopWheel(p) ==
  /\ At(p, "wheel", "done")
  /\ wheelOff' = TRUE
  /\ panicked' = wheelOff
  /\ UNCHANGED <<netVars, listener, epoller, ctxDone, conns, closed, acceptVars,
                 spc, left>>

Close(p) ==
  \/ Cancel(p) \/ GetAll(p) \/ CloseOne(p) \/ AllClosed(p) \/ Clear(p)
  \/ CloseEpoll(p) \/ EpollsClosed(p) \/ CloseListener(p) \/ StopWheel(p)

-----------------------------------------------------------------------------
Next ==
  /\ ~panicked
  /\ \/ \E c \in Clients : Leave(c) \/ \E l \in Epollers : Arrive(c, l)
     \/ \E l \in Epollers : Collect(l)
     \/ \E e \in Epollers : StartEpoll(e) \/ Start(e)
     \/ CancelParent
     \/ \E p \in Callers : CallClose(p)
     \/ \E p \in Closers : Close(p)

Spec == Init /\ [][Next]_vars

(* Every goroutine runs.  No client has to come or to go, nobody has to    *)
(* call Close, and the garbage collector need not run.                     *)
Fairness ==
  /\ \A e \in Epollers : WF_vars(StartEpoll(e)) /\ WF_vars(Start(e))
  /\ \A p \in Closers : WF_vars(Close(p))

FairSpec == Spec /\ Fairness

-----------------------------------------------------------------------------
AcceptStates == {"listen", "mkEpoll", "insertEpoll", "start", "accept",
                 "accepting", "addConn", "epollAdd", "return", "exit"}
StartStates  == {"off", "wait", "waiting", "failed", "select", "exit"}
CloseStates  == {"off", "cancel", "getAll", "conns", "clear", "epollers",
                 "listener", "wheel", "done"}

TypeOK ==
  /\ listener \in Epollers \cup {Nil} /\ open \subseteq Epollers
  /\ backlog \in [Epollers -> SUBSET Clients]
  /\ epoller \subseteq Epollers /\ polls \subseteq Epollers
  /\ conns \subseteq Clients /\ closed \subseteq Clients /\ refused \subseteq Clients
  /\ ctxDone \in BOOLEAN /\ wheelOff \in BOOLEAN /\ panicked \in BOOLEAN
  /\ apc \in [Epollers -> AcceptStates]
  /\ from \in [Epollers -> Epollers \cup {Nil}]
  /\ acur \in [Epollers -> Clients \cup {Nil}]
  /\ spc \in [Epollers -> StartStates]
  /\ cpc \in [Closers -> CloseStates]
  /\ left \in [Closers -> SUBSET (Clients \cup Epollers)]

(* Until the context is done the server works: the listener of the field   *)
(* is open, no accept goroutine has left its loop, and no epoll goroutine  *)
(* has ended or has had its epoll closed under it.                         *)
Serving ==
  ~ctxDone => /\ listener # Nil => listener \in open
              /\ \A e \in Epollers : /\ apc[e] \notin {"return", "exit"}
                                      /\ spc[e] \notin {"failed", "exit"}

(* Server.Close can be called, and what it makes the accept goroutines do  *)
(* does not bring the process down.                                        *)
NoPanic == ~panicked

(* A client that the kernel has queued on a listener is accepted.          *)
EventuallyAccepted == \A c \in Clients : c \in Waiting ~> c \in Accepted

(* The epoll goroutines end when the application cancels the context, and  *)
(* does not call Close.                                                    *)
StartEnds ==
  ctxDone ~> \/ \A e \in Epollers : spc[e] = "exit"
             \/ \E p \in Closers : cpc[p] # "off"
=============================================================================
