------------------------------- MODULE Client -------------------------------
(***************************************************************************)
(* socket.Client and the Instance that owns the clients of a process.      *)
(*                                                                         *)
(* Callers of AddClientWith dial and enter the client into the epoll and   *)
(* into clientMap.  The goroutine of Start, I, waits for readable          *)
(* descriptors, looks the client up by descriptor and runs DoRecv, which   *)
(* does the handshake, hands messages over and calls Close.  Close is      *)
(* keyed by the descriptor, which the kernel hands out again as soon as    *)
(* conn.Close has released it, and leaves behind a reconnect timer.  Its   *)
(* task ends in ReConnect, which dials from a goroutine of its own.        *)
(* Heartbeats are sent by the tasks of heartbeat timers.                   *)
(*                                                                         *)
(* Nothing of a Client is locked; every access to what two goroutines      *)
(* share is a step.  A timer is what module TimingWheel shows: its task    *)
(* starts at most once, and Stop may miss it.  Packets are whole; module   *)
(* Session has the bytes and the keys.                                     *)
(***************************************************************************)
EXTENDS Integers, Sequences, FiniteSets

CONSTANTS
  Clients,      (* the calls of AddClientWith: each makes one *Client      *)
  Configs,      (* the sets of clients whose ReconnectFlag may be set      *)
  Fds,          (* file descriptors                                        *)
  I,            (* the goroutine of Instance.Start                         *)
  Nil,
  Secert,       (* ClientConfig.Secert: a handshake precedes the messages  *)
  ConnectRoom,  (* capacity of clientOnConnectCh                           *)
  ReadRoom,     (* capacity of clientReadCh                                *)
  Msgs,         (* the packets that servers send: "key" of the handshake,  *)
                (* "msg", and "junk", which cannot be parsed or decoded    *)
  Packets,      (* bound on the packets servers send; not in the code      *)
  Tries,        (* bound on reconnectCount; not in the code                *)
  Slots         (* bound on the tasks of one kind that a client has under  *)
                (* way; not in the code                                    *)

Kinds == {"heart", "connect"}
Tasks == Clients \X Kinds \X Slots
Procs == {I} \cup Clients \cup Tasks

ASSUME ClientAssumption ==
  /\ Configs \subseteq SUBSET Clients
  /\ I \notin Clients \cup Tasks /\ Clients \cap Tasks = {}
  /\ Nil \notin Clients \cup Fds \cup Tasks
  /\ Secert \in BOOLEAN
  /\ ConnectRoom \in Nat \ {0} /\ ReadRoom \in Nat \ {0}
  /\ Msgs \subseteq {"key", "msg", "junk"}
  /\ Packets \in Nat /\ Tries \in Nat \ {0} /\ Slots \subseteq Nat /\ Slots # {}

VARIABLES
  owner,     (* the client whose socket a descriptor is                    *)
  reg,       (* the descriptors registered with the epoll                  *)
  inbox,     (* packets in the receive buffer of a client's socket; "eof"  *)
             (* at its end when the server has closed                      *)
  sent,      (* packets the servers have sent                              *)
  client,    (* the fields of each Client                                  *)
  clientMap, (* Instance.clientMap                                         *)
  connectCh, (* how many descriptors wait in clientOnConnectCh             *)
  readCh,    (* how many messages wait in clientReadCh                     *)
  cancelled, (* Instance.ctx is done                                       *)
  pc,        (* where each goroutine, timer or task stands                 *)
  dialled,   (* the descriptor that a call of Connect has got              *)
  icl,       (* the client that I works on                                 *)
  ready,     (* what is left of the fds that Wait returned                 *)
  goOn       (* DoRecv goes on with its loop after this Close              *)

kernelVars == <<owner, reg, inbox, sent>>
chanVars   == <<connectCh, readCh, cancelled>>
loopVars   == <<icl, ready, goOn>>
vars == <<kernelVars, client, clientMap, chanVars, pc, dialled, loopVars>>

(* conn is the descriptor of c.conn while that is open.                    *)
Fields == [needReconnectFlag : BOOLEAN,
           conn : Fds \cup {Nil}, fd : Fds \cup {Nil}, isConnect : BOOLEAN,
           hasRecvFlag : BOOLEAN, onceDone : BOOLEAN, reconnectCount : 0 .. Tries,
           heartTimer : Tasks \cup {Nil}, connectTimer : Tasks \cup {Nil},
           cache : Seq(Msgs)]

States == {"dial", "establish", "epollAdd", "mapSet", "added", "failed",
           "close", "unmap", "unreg", "clear", "stopHeartClosed", "clearHeartClosed",
           "stopConnect", "armConnect", "reset", "idle", "armed", "sleep", "reconnect",
           "check", "stopHeart", "clearHeart", "armHeart",
           "wait", "next", "read", "packet", "notice", "flag", "deliver", "advance",
           "instClose", "closeChans", "stopWheel", "stuck", "ended"}

Init ==
  /\ owner = [f \in Fds |-> Nil] /\ reg = {}
  /\ inbox = [c \in Clients |-> <<>>] /\ sent = 0
  /\ \E flags \in Configs :
       client = [c \in Clients |->
                 [needReconnectFlag |-> c \in flags, conn |-> Nil, fd |-> Nil, isConnect |-> FALSE,
                  hasRecvFlag |-> FALSE, onceDone |-> FALSE, reconnectCount |-> 0,
                  heartTimer |-> Nil, connectTimer |-> Nil, cache |-> <<>>]]
  /\ clientMap = [f \in Fds |-> Nil]
  /\ connectCh = 0 /\ readCh = 0 /\ cancelled = FALSE
  /\ pc = [p \in Procs |-> IF p = I THEN "wait" ELSE IF p \in Clients THEN "dial" ELSE "idle"]
  /\ dialled = [p \in Procs |-> Nil]
  /\ icl = Nil /\ ready = {} /\ goOn = FALSE

(* The client on whose behalf p runs.                                      *)
Of(p) == IF p = I THEN icl ELSE IF p \in Clients THEN p ELSE p[1]

At(p, s)   == pc[p] = s
Goto(p, s) == pc' = [pc EXCEPT ![p] = s]

(* Timer.Stop of the timer t that a field names, if any: it misses a timer *)
(* that the wheel is moving to another bucket.                             *)
Stopped(t, next) ==
  {next} \cup (IF t # Nil /\ pc[t] = "armed" THEN {[next EXCEPT ![t] = "idle"]} ELSE {})

-----------------------------------------------------------------------------
(* The servers.                                                            *)

HungUp(c) == inbox[c] # <<>> /\ inbox[c][Len(inbox[c])] = "eof"
Open(c)   == client[c].conn # Nil

ServerSend(c, m) ==
  /\ Open(c) /\ ~HungUp(c) /\ sent < Packets
  /\ sent' = sent + 1
  /\ inbox' = [inbox EXCEPT ![c] = Append(@, m)]
  /\ UNCHANGED <<owner, reg, client, clientMap, chanVars, pc, dialled, loopVars>>

ServerClose(c) ==
  /\ Open(c) /\ ~HungUp(c)
  /\ inbox' = [inbox EXCEPT ![c] = Append(@, "eof")]
  /\ UNCHANGED <<owner, reg, sent, client, clientMap, chanVars, pc, dialled, loopVars>>

-----------------------------------------------------------------------------
(* Connect, called by AddClientWith and by ReConnect.                      *)

(* The kernel hands out a free descriptor; what c.conn was is dropped.     *)
Dial(p, f) ==
  LET c == Of(p) IN
  /\ p # I /\ At(p, "dial") /\ owner[f] = Nil
  /\ owner' = [owner EXCEPT ![f] = c]
  /\ inbox' = [inbox EXCEPT ![c] = <<>>]
  /\ client' = [client EXCEPT ![c].conn = f]
  /\ dialled' = [dialled EXCEPT ![p] = f]
  /\ Goto(p, "establish")
  /\ UNCHANGED <<reg, sent, clientMap, chanVars, loopVars>>

DialFails(p) ==
  /\ p # I /\ At(p, "dial")
  /\ client' = [client EXCEPT ![Of(p)].conn = Nil]
  /\ inbox' = [inbox EXCEPT ![Of(p)] = <<>>]
  /\ Goto(p, IF p \in Clients THEN "failed" ELSE "stopConnect")
  /\ UNCHANGED <<owner, reg, sent, clientMap, chanVars, dialled, loopVars>>

(* SendAckMsg, or hasRecvFlag without a handshake; then fd and isConnect.  *)
Establish(p) ==
  LET c == Of(p) IN
  /\ At(p, "establish")
  /\ client' = [client EXCEPT ![c].fd = dialled[p],
                              ![c].hasRecvFlag = @ \/ ~Secert,
                              ![c].isConnect = TRUE]
  /\ dialled' = [dialled EXCEPT ![p] = Nil]
  /\ Goto(p, IF p \in Clients THEN "epollAdd" ELSE "idle")
  /\ UNCHANGED <<kernelVars, clientMap, chanVars, loopVars>>

(* AddMapCli.  EPOLL_CTL_ADD fails once Instance.Close has closed the      *)
(* epoll.                                                                  *)
EpollClosed == pc[I] \in {"closeChans", "stopWheel", "stuck", "ended"}

EpollAdd(c) ==
  /\ At(c, "epollAdd")
  /\ IF EpollClosed
       THEN Goto(c, "close") /\ UNCHANGED reg
       ELSE Goto(c, "mapSet") /\ reg' = reg \cup {client[c].fd}
  /\ UNCHANGED <<owner, inbox, sent, client, clientMap, chanVars, dialled, loopVars>>

MapSet(c) ==
  /\ At(c, "mapSet")
  /\ clientMap' = [clientMap EXCEPT ![client[c].fd] = c]
  /\ Goto(c, "added")
  /\ UNCHANGED <<kernelVars, client, chanVars, dialled, loopVars>>

-----------------------------------------------------------------------------
(* Close, called by DoRecv in I and by AddMapCli.                          *)

(* conn.Close: the kernel frees the descriptor and forgets it in the epoll.*)
(* Mutant: a client that will connect again keeps its socket.              *)
KeepConn(p) ==
  /\ At(p, "close")
  /\ Goto(p, "unmap")
  /\ reg' = reg \ {client[Of(p)].conn}
  /\ UNCHANGED <<owner, inbox, sent, client, clientMap, chanVars, dialled, loopVars>>
CloseConn(p) ==
  LET c == Of(p)
      f == client[c].conn
  IN /\ At(p, "close")
     /\ Goto(p, "unmap")
     /\ IF client[c].isConnect /\ f # Nil
          THEN /\ owner' = [owner EXCEPT ![f] = Nil]
               /\ reg' = reg \ {f}
               /\ inbox' = [inbox EXCEPT ![c] = <<>>]
               /\ client' = [client EXCEPT ![c].conn = Nil]
          ELSE UNCHANGED <<owner, reg, inbox, client>>
     /\ UNCHANGED <<sent, clientMap, chanVars, dialled, loopVars>>

(* OnCloseCli: RemoveMapCli, by the number, whoever has it now.  Instance. *)
(* Close calls it too, for every client in the map.                        *)
Unmap(p) ==
  /\ At(p, "unmap")
  /\ clientMap' = [clientMap EXCEPT ![client[Of(p)].fd] = Nil]
  /\ Goto(p, "unreg")
  /\ UNCHANGED <<kernelVars, client, chanVars, dialled, loopVars>>

Unregister(p) ==
  /\ At(p, "unreg")
  /\ reg' = reg \ {client[Of(p)].fd}
  /\ Goto(p, "clear")
  /\ UNCHANGED <<owner, inbox, sent, client, clientMap, chanVars, dialled, loopVars>>

ClearConnect(p) ==
  /\ At(p, "clear")
  /\ client' = [client EXCEPT ![Of(p)].isConnect = FALSE]
  /\ Goto(p, "stopHeartClosed")
  /\ UNCHANGED <<kernelVars, clientMap, chanVars, dialled, loopVars>>

(* stopHeartbeatTimer, here and in startHeartbeatTimer: Stop, and then the *)
(* field, whatever timer another goroutine has put there in between.       *)
StopHeart(p) ==
  LET next == IF At(p, "stopHeart") THEN "clearHeart" ELSE "clearHeartClosed"
  IN /\ pc[p] \in {"stopHeart", "stopHeartClosed"}
     /\ pc' \in Stopped(client[Of(p)].heartTimer, [pc EXCEPT ![p] = next])
     /\ UNCHANGED <<kernelVars, client, clientMap, chanVars, dialled, loopVars>>

ClearHeart(p) ==
  LET c == Of(p) IN
  /\ pc[p] \in {"clearHeart", "clearHeartClosed"}
  /\ client' = [client EXCEPT ![c].heartTimer = Nil]
  /\ Goto(p, IF At(p, "clearHeart") THEN "armHeart"
             ELSE IF client[c].needReconnectFlag THEN "stopConnect" ELSE "reset")
  /\ UNCHANGED <<kernelVars, clientMap, chanVars, dialled, loopVars>>

(* startReConnectTimer, by Close and by a ReConnect that has failed.       *)
StopConnect(p) ==
  LET c == Of(p) IN
  /\ At(p, "stopConnect")
  /\ pc' \in Stopped(client[c].connectTimer, [pc EXCEPT ![p] = "armConnect"])
  /\ client' = [client EXCEPT ![c].connectTimer = Nil,
                              ![c].reconnectCount = IF @ < Tries THEN @ + 1 ELSE @]
  /\ UNCHANGED <<kernelVars, clientMap, chanVars, dialled, loopVars>>

(* AfterFunc: a new timer t, which may be the one whose task p is.         *)
Free(t, p) == At(t, "idle") \/ t = p
New(t, c, kind, p) ==
  /\ t[1] = c /\ t[2] = kind /\ Free(t, p)
  /\ \A k \in Slots : k < t[3] => ~Free(<<c, kind, k>>, p)

ArmConnect(p) ==
  LET c == Of(p) IN
  /\ At(p, "armConnect")
  /\ \E t \in Tasks :
       /\ New(t, c, "connect", p)
       /\ pc' = [pc EXCEPT ![p] = IF p \in Tasks THEN "idle" ELSE "reset", ![t] = "armed"]
       /\ client' = [client EXCEPT ![c].connectTimer = t]
  /\ UNCHANGED <<kernelVars, clientMap, chanVars, dialled, loopVars>>

ResetFlag(p) ==
  /\ At(p, "reset")
  /\ client' = [client EXCEPT ![Of(p)].hasRecvFlag = FALSE]
  /\ Goto(p, IF p # I THEN "failed" ELSE IF goOn THEN "advance" ELSE "next")
  /\ UNCHANGED <<kernelVars, clientMap, chanVars, dialled, loopVars>>

CloseStep(p) ==
  \/ CloseConn(p) \/ Unmap(p) \/ Unregister(p) \/ ClearConnect(p) \/ StopHeart(p)
  \/ ClearHeart(p) \/ StopConnect(p) \/ ArmConnect(p) \/ ResetFlag(p)

-----------------------------------------------------------------------------
(* The heartbeat and reconnect timers.                                     *)

(* ProcessTimeOut, in a goroutine of the timer, while the wheel runs.      *)
WheelRuns == pc[I] \notin {"stuck", "ended"}

HeartTimeOut(t) ==
  /\ t[2] = "heart" /\ At(t, "armed") /\ WheelRuns
  /\ Goto(t, "check")
  /\ UNCHANGED <<kernelVars, client, clientMap, chanVars, dialled, loopVars>>

ConnectTimeOut(t) ==
  /\ t[2] = "connect" /\ At(t, "armed") /\ WheelRuns
  /\ Goto(t, IF client[t[1]].needReconnectFlag /\ ~client[t[1]].isConnect THEN "sleep" ELSE "idle")
  /\ UNCHANGED <<kernelVars, client, clientMap, chanVars, dialled, loopVars>>

(* After the second's sleep, a new once.  Mutant: the old one is kept.     *)
KeepOnce(t) ==
  /\ At(t, "sleep")
  /\ Goto(t, "reconnect")
  /\ UNCHANGED <<kernelVars, client, clientMap, chanVars, dialled, loopVars>>
RenewOnce(t) ==
  /\ At(t, "sleep")
  /\ client' = [client EXCEPT ![t[1]].onceDone = FALSE]
  /\ Goto(t, "reconnect")
  /\ UNCHANGED <<kernelVars, clientMap, chanVars, dialled, loopVars>>

ReConnect(t) ==
  /\ At(t, "reconnect")
  /\ client' = [client EXCEPT ![t[1]].onceDone = TRUE]
  /\ Goto(t, IF client[t[1]].onceDone \/ client[t[1]].isConnect THEN "idle" ELSE "dial")
  /\ UNCHANGED <<kernelVars, clientMap, chanVars, dialled, loopVars>>

(* SendHeartbeatMsg, by a task and by I at the end of the handshake.       *)
(* Mutant: it does not look at isConnect.                                  *)
SendAnyway(p) ==
  /\ At(p, "check")
  /\ Goto(p, "stopHeart")
  /\ UNCHANGED <<kernelVars, client, clientMap, chanVars, dialled, loopVars>>
SendHeartbeat(p) ==
  /\ At(p, "check")
  /\ Goto(p, IF client[Of(p)].isConnect THEN "stopHeart" ELSE IF p = I THEN "advance" ELSE "idle")
  /\ UNCHANGED <<kernelVars, client, clientMap, chanVars, dialled, loopVars>>

ArmHeart(p) ==
  LET c == Of(p) IN
  /\ At(p, "armHeart")
  /\ \E t \in Tasks :
       /\ New(t, c, "heart", p)
       /\ pc' = [pc EXCEPT ![p] = IF p = I THEN "advance" ELSE "idle", ![t] = "armed"]
       /\ client' = [client EXCEPT ![c].heartTimer = t]
  /\ UNCHANGED <<kernelVars, clientMap, chanVars, dialled, loopVars>>

-----------------------------------------------------------------------------
(* The goroutine of Start.                                                 *)

(* The descriptors that are readable; none when the 256 ms are over.       *)
Wait ==
  /\ At(I, "wait")
  /\ ready' = {f \in reg : owner[f] # Nil /\ inbox[owner[f]] # <<>>}
  /\ Goto(I, "next")
  /\ UNCHANGED <<kernelVars, client, clientMap, chanVars, dialled, icl, goOn>>

(* GetMapCli: a client that is not in the map yet is only logged.          *)
(* Mutants: the descriptor is then taken out of the epoll; it stays in the *)
(* batch.                                                                  *)
DropUnknown ==
  /\ At(I, "next")
  /\ \E f \in ready :
       /\ ready' = ready \ {f}
       /\ icl' = clientMap[f]
       /\ reg' = IF clientMap[f] = Nil THEN reg \ {f} ELSE reg
       /\ Goto(I, IF clientMap[f] = Nil THEN "next" ELSE "read")
  /\ UNCHANGED <<owner, inbox, sent, client, clientMap, chanVars, dialled, goOn>>
LookupAgain ==
  /\ At(I, "next")
  /\ \E f \in ready :
       /\ ready' = IF clientMap[f] = Nil THEN ready \ {f} ELSE ready
       /\ icl' = clientMap[f]
       /\ Goto(I, IF clientMap[f] = Nil THEN "next" ELSE "read")
  /\ UNCHANGED <<kernelVars, client, clientMap, chanVars, dialled, goOn>>
Lookup ==
  /\ At(I, "next")
  /\ \E f \in ready :
       /\ ready' = ready \ {f}
       /\ icl' = clientMap[f]
       /\ Goto(I, IF clientMap[f] = Nil THEN "next" ELSE "read")
  /\ UNCHANGED <<kernelVars, client, clientMap, chanVars, dialled, goOn>>

(* The select at the end of a batch; on Done Instance.Close begins with    *)
(* the clients that are in the map.                                        *)
Select ==
  /\ At(I, "next") /\ ready = {}
  /\ icl' = Nil
  /\ ready' = IF cancelled THEN {f \in Fds : clientMap[f] # Nil} ELSE {}
  /\ Goto(I, IF cancelled THEN "instClose" ELSE "wait")
  /\ UNCHANGED <<kernelVars, client, clientMap, chanVars, dialled, goOn>>

(* conn.Read fails at once on a closed connection and otherwise waits for  *)
(* data or the end; what has arrived goes to the cache.                    *)
Arrived(c) == IF HungUp(c) THEN SubSeq(inbox[c], 1, Len(inbox[c]) - 1) ELSE inbox[c]

Read ==
  LET c == icl IN
  /\ At(I, "read")
  /\ goOn' = FALSE
  /\ \/ /\ ~Open(c) \/ inbox[c] = <<"eof">>
        /\ Goto(I, "close")
        /\ UNCHANGED <<inbox, client, dialled>>
     \/ /\ Open(c) /\ inbox[c] # <<>> /\ inbox[c] # <<"eof">>
        /\ inbox' = [inbox EXCEPT ![c] = IF HungUp(c) THEN <<"eof">> ELSE <<>>]
        /\ client' = [client EXCEPT ![c].cache = @ \o Arrived(c)]
        /\ Goto(I, "packet")
  /\ UNCHANGED <<owner, reg, sent, clientMap, chanVars, dialled, icl, ready>>

(* The loop of DoRecv, at the packet m: what it does with it.  A length    *)
(* that ParsePacket refuses, a message that cannot be decoded, and a key   *)
(* that cannot be answered because the connection is closed end the loop;  *)
(* a first packet that is not a key closes and does not.  One too short for  *)
(* its head or for a key panics, and is left out.                          *)
Verdict(c, m) ==
  CASE m = "junk"                                -> "close"
    [] m # "junk" /\ client[c].hasRecvFlag       -> IF m = "msg" THEN "deliver" ELSE "close"
    [] m # "junk" /\ ~client[c].hasRecvFlag /\ ~Secert -> "advance"
    [] OTHER -> IF m = "key" /\ Open(c) THEN "notice" ELSE "close"

Packet ==
  LET c == icl
      m == Head(client[c].cache)
  IN /\ At(I, "packet")
     /\ IF client[c].cache = <<>>
          THEN Goto(I, "next") /\ UNCHANGED goOn
          ELSE /\ Goto(I, Verdict(c, m))
               /\ goOn' = (m = "msg" /\ ~client[c].hasRecvFlag)
     /\ UNCHANGED <<kernelVars, client, clientMap, chanVars, dialled, icl, ready>>

(* NoticeToConnect and then hasRecvFlag.                                   *)
Notice ==
  /\ At(I, "notice") /\ connectCh < ConnectRoom
  /\ connectCh' = connectCh + 1
  /\ Goto(I, "flag")
  /\ UNCHANGED <<kernelVars, client, clientMap, readCh, cancelled, dialled, loopVars>>

SetRecvFlag ==
  /\ At(I, "flag")
  /\ client' = [client EXCEPT ![icl].hasRecvFlag = TRUE]
  /\ Goto(I, "check")
  /\ UNCHANGED <<kernelVars, clientMap, chanVars, dialled, loopVars>>

(* ProcessDoneMsg: OnWritePacket.                                          *)
Deliver ==
  /\ At(I, "deliver") /\ readCh < ReadRoom
  /\ readCh' = readCh + 1
  /\ Goto(I, "advance")
  /\ UNCHANGED <<kernelVars, client, clientMap, connectCh, cancelled, dialled, loopVars>>

(* The packet is cut off the cache.  Mutant: only one that was delivered.  *)
CutMessage ==
  /\ At(I, "advance")
  /\ client' = [client EXCEPT ![icl].cache = IF client[icl].hasRecvFlag THEN Tail(@) ELSE @]
  /\ Goto(I, "packet")
  /\ UNCHANGED <<kernelVars, clientMap, chanVars, dialled, loopVars>>
Cut ==
  /\ At(I, "advance")
  /\ client' = [client EXCEPT ![icl].cache = Tail(@)]
  /\ Goto(I, "packet")
  /\ UNCHANGED <<kernelVars, clientMap, chanVars, dialled, loopVars>>

(* Instance.Close: RemoveMapCli of each client, the epoll, the channels    *)
(* and the wheel.  The sockets stay open.  timerWheel.Stop waits for the   *)
(* goroutines of the wheel, and for ever when one of them is blocked in    *)
(* Offer, as module DelayQueue shows.                                      *)
RemoveClient ==
  /\ At(I, "instClose")
  /\ \E f \in ready :
       /\ ready' = ready \ {f}
       /\ clientMap' = [clientMap EXCEPT ![f] = Nil]
       /\ reg' = reg \ {f}
  /\ UNCHANGED <<owner, inbox, sent, client, chanVars, pc, dialled, icl, goOn>>

CloseInstance ==
  /\ \/ At(I, "instClose") /\ ready = {} /\ Goto(I, "closeChans") /\ reg' = {}
     \/ At(I, "closeChans") /\ Goto(I, "stopWheel") /\ UNCHANGED reg
     \/ At(I, "stopWheel") /\ \E s \in {"stuck", "ended"} : Goto(I, s) /\ UNCHANGED reg
  /\ UNCHANGED <<owner, inbox, sent, client, clientMap, chanVars, dialled, loopVars>>

-----------------------------------------------------------------------------
(* The application: it takes from OnConnect and OnReadPacket, and ends.    *)

TakeConnect ==
  /\ connectCh > 0
  /\ connectCh' = connectCh - 1
  /\ UNCHANGED <<kernelVars, client, clientMap, readCh, cancelled, pc, dialled, loopVars>>

TakeRead ==
  /\ readCh > 0
  /\ readCh' = readCh - 1
  /\ UNCHANGED <<kernelVars, client, clientMap, connectCh, cancelled, pc, dialled, loopVars>>

Cancel ==
  /\ ~cancelled
  /\ cancelled' = TRUE
  /\ UNCHANGED <<kernelVars, client, clientMap, connectCh, readCh, pc, dialled, loopVars>>

-----------------------------------------------------------------------------
CallStep(p) ==
  \/ DialFails(p) \/ \E f \in Fds : Dial(p, f)
  \/ Establish(p) \/ CloseStep(p) \/ SendHeartbeat(p) \/ ArmHeart(p)

AddStep(c) == CallStep(c) \/ EpollAdd(c) \/ MapSet(c)

TaskStep(t) == CallStep(t) \/ HeartTimeOut(t) \/ ConnectTimeOut(t)
               \/ RenewOnce(t) \/ ReConnect(t)

LoopStep ==
  \/ CallStep(I)
  \/ Wait \/ Lookup \/ Select \/ Read \/ Packet \/ Notice \/ SetRecvFlag
  \/ Deliver \/ Cut \/ RemoveClient \/ CloseInstance

Next ==
  \/ \E c \in Clients :
       \/ \E m \in Msgs : ServerSend(c, m)
       \/ ServerClose(c)
       \/ AddStep(c)
  \/ \E t \in Tasks : TaskStep(t)
  \/ LoopStep
  \/ TakeConnect \/ TakeRead \/ Cancel

Spec == Init /\ [][Next]_vars

(* Goroutines run, timers fire, the application takes what it is handed,   *)
(* and a server that is dialled again and again answers in the end.        *)
Fairness ==
  /\ \A c \in Clients : WF_vars(AddStep(c))
  /\ \A t \in Tasks : WF_vars(TaskStep(t))
  /\ WF_vars(LoopStep) /\ WF_vars(TakeConnect) /\ WF_vars(TakeRead)
  /\ \A c \in Clients, k \in Slots :
       SF_vars(\E f \in Fds : Dial(<<c, "connect", k>>, f))

(* The calm schedules.  A descriptor is not handed out again while a call  *)
(* of DoRecv or of Close still has its number in hand; a reconnect timer   *)
(* of a client does not fire, nor is it just being moved to another        *)
(* bucket, while DoRecv closes that client.                                *)
InHand(f) ==
  \/ icl # Nil /\ client[icl].fd = f
  \/ \E c \in Clients : pc[c] \in {"unmap", "unreg"} /\ client[c].fd = f
Calm ==
  /\ \A f \in Fds : InHand(f) /\ owner[f] = Nil => owner'[f] = Nil
  /\ \A t \in Tasks :
       /\ At(t, "armed") /\ pc'[t] = "sleep" => icl # t[1]
       /\ At(I, "stopConnect") /\ pc'[I] # pc[I] /\ client[icl].connectTimer = t
            => pc'[t] # "armed"

CalmSpec == Init /\ [][Next /\ Calm]_vars
FairSpec == CalmSpec /\ Fairness

-----------------------------------------------------------------------------
TypeOK ==
  /\ owner \in [Fds -> Clients \cup {Nil}] /\ reg \subseteq Fds
  /\ inbox \in [Clients -> Seq(Msgs \cup {"eof"})]
  /\ sent \in 0 .. Packets
  /\ client \in [Clients -> Fields]
  /\ clientMap \in [Fds -> Clients \cup {Nil}]
  /\ connectCh \in 0 .. ConnectRoom /\ readCh \in 0 .. ReadRoom
  /\ cancelled \in BOOLEAN
  /\ pc \in [Procs -> States]
  /\ dialled \in [Procs -> Fds \cup {Nil}]
  /\ icl \in Clients \cup {Nil} /\ ready \subseteq Fds /\ goOn \in BOOLEAN

Shutting == pc[I] \in {"instClose", "closeChans", "stopWheel", "stuck", "ended"}

(* A client that AddClientWith has added and nobody has closed yet.        *)
Closing(c) == icl = c /\ pc[I] \in {"unmap", "unreg", "clear"}
FirstLife(c) == /\ At(c, "added") /\ client[c].isConnect
                /\ client[c].reconnectCount = 0 /\ ~Closing(c)

(* While the instance runs a client that has been added is served, under   *)
(* its own descriptor, until it is closed; and the map names no client     *)
(* under a descriptor that is not its own.                                 *)
MapAgrees ==
  /\ \A f \in Fds : clientMap[f] # Nil => client[clientMap[f]].fd = f
  /\ \A c \in Clients : FirstLife(c) /\ ~Shutting
       => LET f == client[c].fd
          IN owner[f] = c /\ clientMap[f] = c /\ f \in reg

(* A client that has connected again is served too.  It is not: ReConnect  *)
(* neither adds the new descriptor to the epoll nor to the map.            *)
ReconnectedServed ==
  \A c \in Clients : client[c].isConnect /\ client[c].reconnectCount > 0 /\ ~Closing(c)
    => client[c].fd \in reg /\ clientMap[client[c].fd] = c

(* However often its connection is closed, twice in one DoRecv too, and    *)
(* its timers are armed, a client has one socket.                          *)
OneSocket ==
  \A f, g \in Fds : owner[f] # Nil /\ owner[f] = owner[g] => f = g

(* I never waits in Read for a server that has sent nothing, while the     *)
(* other clients wait for I.                                               *)
ReadIsReady == At(I, "read") /\ Open(icl) => inbox[icl] # <<>>

(* What a server sends to a client in its first life is received, even     *)
(* when it arrives between epoller.Add and clientMap.Set.                  *)
EventuallyReceived ==
  \A c \in Clients : (FirstLife(c) /\ inbox[c] # <<>>) ~> (inbox[c] = <<>> \/ cancelled)

(* I gets through its batch and waits for events again, although a channel *)
(* may be full; and it notices that the context is done, though no server  *)
(* sends anything, and closes the instance as far as the wheel.            *)
LoopReturns ==
  LET stopping == pc[I] \in {"stopWheel", "stuck", "ended"}
  IN /\ ~At(I, "wait") ~> (At(I, "wait") \/ stopping)
     /\ cancelled ~> stopping

(* A client with the flag connects again, however often dialling fails.    *)
EventuallyReconnected ==
  \A c \in Clients :
    (client[c].reconnectCount > 0) ~> (client[c].isConnect \/ cancelled)

(* A client that stays closed sends no heartbeats for ever, whichever task *)
(* was under way when Close stopped the timer.                             *)
HeartbeatsEnd ==
  \A t \in Tasks : <>[]~client[t[1]].isConnect => <>[](pc[t] # "armHeart")
=============================================================================
