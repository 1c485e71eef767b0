------------------------------- MODULE Server -------------------------------
(***************************************************************************)
(* socket.Server and its connections (TCPConn): from accept to close.      *)
(*                                                                         *)
(* Every epoller e has two goroutines.  The accept goroutine (startEpoll)  *)
(* makes a TCPConn, puts it into the map conns under its descriptor and    *)
(* registers the descriptor with the epoller.  The epoll goroutine (Start) *)
(* waits for readable descriptors and, for each, looks the connection up   *)
(* by descriptor and runs DoRecv: the handshake or the messages.  The      *)
(* tasks of heartbeat timers, CloseConn and failed writes call             *)
(* TCPConn.Close from goroutines of their own.  Close runs its body once;  *)
(* everything in it is keyed by the descriptor, which the kernel hands out *)
(* again as soon as rawConn.Close has released it.                         *)
(*                                                                         *)
(* Nothing but the map and the body of Close is synchronised, so each      *)
(* access to shared state is a step.  The body of Close is a process of    *)
(* its own: whoever calls Close first starts it, and callers whose next    *)
(* step matters wait for its end, as sync.Once makes them do.  A timer is  *)
(* what module TimingWheel shows: its task starts at most once, never      *)
(* after Stop has returned true, and Stop may miss it.  Packets are whole  *)
(* and counted; what one is shows when it is handled, where DoRecv and the *)
(* handshake may take each of their branches.                              *)
(***************************************************************************)
EXTENDS Integers, FiniteSets

CONSTANTS
  Conns,     (* the connections that clients open                          *)
  Fds,       (* file descriptors                                           *)
  Epollers,  (* EpollNum pairs of an accept and an epoll goroutine         *)
  Nil,
  Secert,    (* config.Secert: a handshake precedes the messages           *)
  Packets,   (* bounds on the packets a client sends; no part of the code  *)
  Room       (* capacity of config.MsgCh                                   *)

ASSUME ServerAssumption ==
  /\ Nil \notin Conns /\ Nil \notin Fds /\ Nil \notin Epollers
  /\ Secert \in BOOLEAN
  /\ Packets \in [Conns -> Nat]
  /\ Room \in Nat

VARIABLES
  owner,     (* the connection whose socket a descriptor is                *)
  reg,       (* the descriptors registered with each epoller               *)
  inbox,     (* packets in the receive buffer of the socket                *)
  sent,      (* packets the client has sent                                *)
  hungup,    (* clients that have closed their end                         *)
  cfd,       (* TCPConn.fd                                                 *)
  home,      (* TCPConn.epoller                                            *)
  cache,     (* complete packets in TCPConn.cache                          *)
  greeted,   (* connections that have drawn their key pair                 *)
  hasRecv,   (* TCPConn.hasRecvFlag                                        *)
  hb,        (* TCPConn.hbTimer: none, armed, or stopped or fired          *)
  stray,     (* armed timers that no hbTimer names any more                *)
  closing,   (* the step of Close that comes next                          *)
  conns,     (* Server.conns                                               *)
  queued,    (* messages in config.MsgCh                                   *)
  up,        (* descriptors of which the application has been told         *)
  announced, (* connections for which OnConnect has been called            *)
  apc, acur, (* where the accept goroutine stands, and its sc              *)
  epc, ecur, (* where the epoll goroutine stands, and its sc               *)
  batch      (* what is left of the fds that Wait returned                 *)

kernelVars == <<owner, reg, inbox, sent, hungup>>
connVars   == <<cfd, home, cache, greeted, hasRecv, hb, stray, closing>>
serverVars == <<conns, queued, up, announced>>
acceptVars == <<apc, acur>>
epollVars  == <<epc, ecur, batch>>
vars == <<kernelVars, connVars, serverVars, acceptVars, epollVars>>

CloseStates  == {"no", "onClose", "stopTimer", "clearTimer", "epollRemove",
                 "removConn", "rawClose", "reset", "done"}
AcceptStates == {"accept", "new", "addConn", "epollAdd", "close"}
EpollStates  == {"wait", "next", "read", "packet", "connect", "replyClose",
                 "ackClose", "stopTimer", "armTimer", "send", "advance", "close", "panic"}

Init ==
  /\ owner = [f \in Fds |-> Nil]
  /\ reg = [e \in Epollers |-> {}]
  /\ inbox = [c \in Conns |-> 0]
  /\ sent = [c \in Conns |-> 0]
  /\ hungup = {}
  /\ cfd = [c \in Conns |-> Nil]
  /\ home = [c \in Conns |-> Nil]
  /\ cache = [c \in Conns |-> 0]
  /\ greeted = {}
  /\ hasRecv = [c \in Conns |-> FALSE]
  /\ hb = [c \in Conns |-> "none"]
  /\ stray = [c \in Conns |-> 0]
  /\ closing = [c \in Conns |-> "no"]
  /\ conns = [f \in Fds |-> Nil]
  /\ queued = 0 /\ up = {} /\ announced = {}
  /\ apc = [e \in Epollers |-> "accept"] /\ acur = [e \in Epollers |-> Nil]
  /\ epc = [e \in Epollers |-> "wait"] /\ ecur = [e \in Epollers |-> Nil]
  /\ batch = [e \in Epollers |-> {}]

(* The socket of c is open.                                                *)
Open(c) == cfd[c] # Nil /\ owner[cfd[c]] = c

-----------------------------------------------------------------------------
(* The clients.                                                            *)

ClientSend(c) ==
  /\ Open(c) /\ c \notin hungup
  /\ sent[c] < Packets[c]
  /\ sent' = [sent EXCEPT ![c] = @ + 1]
  /\ inbox' = [inbox EXCEPT ![c] = @ + 1]
  /\ UNCHANGED <<owner, reg, hungup, connVars, serverVars, acceptVars, epollVars>>

ClientClose(c) ==
  /\ Open(c) /\ c \notin hungup
  /\ hungup' = hungup \cup {c}
  /\ UNCHANGED <<owner, reg, inbox, sent, connVars, serverVars, acceptVars,
                 epollVars>>

-----------------------------------------------------------------------------
(* TCPConn.Close.                                                          *)

(* The order of the body.  Mutants: the socket is closed before the map    *)
(* forgets it; the callback comes last.                                    *)
CloseSocketFirst(s) ==
  CASE s = "no"          -> "onClose"
    [] s = "onClose"     -> "stopTimer"
    [] s = "stopTimer"   -> "clearTimer"
    [] s = "clearTimer"  -> "rawClose"
    [] s = "rawClose"    -> "epollRemove"
    [] s = "epollRemove" -> "removConn"
    [] s = "removConn"   -> "reset"
    [] OTHER             -> "done"
CallBackLast(s) ==
  CASE s = "no"          -> "stopTimer"
    [] s = "stopTimer"   -> "clearTimer"
    [] s = "clearTimer"  -> "epollRemove"
    [] s = "epollRemove" -> "removConn"
    [] s = "removConn"   -> "rawClose"
    [] s = "rawClose"    -> "reset"
    [] s = "reset"       -> "onClose"
    [] OTHER             -> "done"
AfterStep(s) ==
  CASE s = "no"          -> "onClose"
    [] s = "onClose"     -> "stopTimer"
    [] s = "stopTimer"   -> "clearTimer"
    [] s = "clearTimer"  -> "epollRemove"
    [] s = "epollRemove" -> "removConn"
    [] s = "removConn"   -> "rawClose"
    [] s = "rawClose"    -> "reset"
    [] OTHER             -> "done"

(* once.Do: only the first call starts the body.                           *)
StartClose(c) ==
  closing' = [closing EXCEPT ![c] = IF @ = "no" THEN AfterStep(@) ELSE @]

Advance(c, s) ==
  /\ closing[c] = s
  /\ closing' = [closing EXCEPT ![c] = AfterStep(s)]

(* The callback config.OnClose(fd).                                        *)
OnClose(c) ==
  /\ Advance(c, "onClose")
  /\ up' = up \ {cfd[c]}
  /\ UNCHANGED <<kernelVars, cfd, home, cache, greeted, hasRecv, hb, stray,
                 conns, queued, announced, acceptVars, epollVars>>

(* Timer.Stop on the timer that hbTimer names; it misses a timer that the  *)
(* wheel is moving to another bucket.                                      *)
StopHb(c) == \/ hb' = [hb EXCEPT ![c] = IF @ = "armed" THEN "spent" ELSE @]
             \/ UNCHANGED hb

(* hbTimer is overwritten: what it named and is armed is now astray.       *)
SetHb(c, h) ==
  /\ hb' = [hb EXCEPT ![c] = h]
  /\ stray' = [stray EXCEPT ![c] = IF hb[c] = "armed" THEN @ + 1 ELSE @]

(* StopHeartbeatTimer, read and stop, then the assignment of nil.          *)
StopTimer(c) ==
  /\ Advance(c, "stopTimer")
  /\ StopHb(c)
  /\ UNCHANGED <<kernelVars, cfd, home, cache, greeted, hasRecv, stray,
                 serverVars, acceptVars, epollVars>>
ClearTimer(c) ==
  /\ Advance(c, "clearTimer")
  /\ SetHb(c, "none")
  /\ UNCHANGED <<kernelVars, cfd, home, cache, greeted, hasRecv, serverVars,
                 acceptVars, epollVars>>

(* EPOLL_CTL_DEL; the error for a descriptor that is not there is logged.  *)
EpollRemove(c) ==
  /\ Advance(c, "epollRemove")
  /\ reg' = [reg EXCEPT ![home[c]] = @ \ {cfd[c]}]
  /\ UNCHANGED <<owner, inbox, sent, hungup, cfd, home, cache, greeted, hasRecv,
                 hb, stray, serverVars, acceptVars, epollVars>>

RemovConn(c) ==
  /\ Advance(c, "removConn")
  /\ conns' = [conns EXCEPT ![cfd[c]] = Nil]
  /\ UNCHANGED <<kernelVars, cfd, home, cache, greeted, hasRecv, hb, stray,
                 queued, up, announced, acceptVars, epollVars>>

(* The kernel frees the descriptor and takes it out of every epoll.        *)
RawClose(c) ==
  /\ Advance(c, "rawClose")
  /\ owner' = [owner EXCEPT ![cfd[c]] = Nil]
  /\ reg' = [e \in Epollers |-> reg[e] \ {cfd[c]}]
  /\ inbox' = [inbox EXCEPT ![c] = 0]
  /\ UNCHANGED <<sent, hungup, cfd, home, cache, greeted, hasRecv, hb, stray,
                 serverVars, acceptVars, epollVars>>

ResetFlag(c) ==
  /\ Advance(c, "reset")
  /\ hasRecv' = [hasRecv EXCEPT ![c] = FALSE]
  /\ UNCHANGED <<kernelVars, cfd, home, cache, greeted, hb, stray, serverVars,
                 acceptVars, epollVars>>

CloseStep(c) ==
  \/ OnClose(c) \/ StopTimer(c) \/ ClearTimer(c) \/ EpollRemove(c)
  \/ RemovConn(c) \/ RawClose(c) \/ ResetFlag(c)

(* The task of a heartbeat timer, of hbTimer or one astray.                *)
TimeOut(c) ==
  /\ \/ /\ hb[c] = "armed"
        /\ hb' = [hb EXCEPT ![c] = "spent"]
        /\ UNCHANGED stray
     \/ /\ stray[c] > 0
        /\ stray' = [stray EXCEPT ![c] = @ - 1]
        /\ UNCHANGED hb
  /\ StartClose(c)
  /\ UNCHANGED <<kernelVars, cfd, home, cache, greeted, hasRecv, serverVars,
                 acceptVars, epollVars>>

(* Server.CloseConn(fd), or a write of SendClientMsg or Broadcast that     *)
(* fails, on the connection that the map has under the descriptor.         *)
CloseConn(f) ==
  /\ conns[f] # Nil
  /\ closing[conns[f]] = "no"
  /\ StartClose(conns[f])
  /\ UNCHANGED <<kernelVars, cfd, home, cache, greeted, hasRecv, hb, stray,
                 serverVars, acceptVars, epollVars>>

-----------------------------------------------------------------------------
(* The accept goroutine of an epoller.                                     *)

Accept(e, c, f) ==
  /\ apc[e] = "accept"
  /\ cfd[c] = Nil /\ owner[f] = Nil
  /\ apc' = [apc EXCEPT ![e] = "new"]
  /\ acur' = [acur EXCEPT ![e] = c]
  /\ cfd' = [cfd EXCEPT ![c] = f]
  /\ home' = [home EXCEPT ![c] = e]
  /\ owner' = [owner EXCEPT ![f] = c]
  /\ UNCHANGED <<reg, inbox, sent, hungup, cache, greeted, hasRecv, hb, stray,
                 closing, serverVars, epollVars>>

(* The application is told of the descriptor.                              *)
Connect(c) ==
  /\ up' = up \cup {cfd[c]}
  /\ announced' = announced \cup {c}

(* Without a handshake the connection is announced at once.                *)
NewTCPConn(e) ==
  LET c == acur[e] IN
  /\ apc[e] = "new"
  /\ apc' = [apc EXCEPT ![e] = "addConn"]
  /\ hb' = [hb EXCEPT ![c] = "armed"]
  /\ hasRecv' = [hasRecv EXCEPT ![c] = ~Secert]
  /\ IF Secert THEN UNCHANGED <<up, announced>> ELSE Connect(c)
  /\ UNCHANGED <<kernelVars, cfd, home, cache, greeted, stray, closing, conns,
                 queued, acur, epollVars>>

AddConn(e) ==
  /\ apc[e] = "addConn"
  /\ apc' = [apc EXCEPT ![e] = "epollAdd"]
  /\ conns' = [conns EXCEPT ![cfd[acur[e]]] = acur[e]]
  /\ UNCHANGED <<kernelVars, connVars, queued, up, announced, acur, epollVars>>

(* EPOLL_CTL_ADD of the number, whatever it stands for by now; it fails    *)
(* for a descriptor that is closed or registered already.  Mutant: one     *)
(* epoll for all.                                                          *)
ShareEpoll(e) ==
  LET f == cfd[acur[e]] IN
  /\ apc[e] = "epollAdd"
  /\ owner[f] # Nil
  /\ reg' = [d \in Epollers |-> reg[d] \cup {f}]
  /\ apc' = [apc EXCEPT ![e] = "accept"]
  /\ acur' = [acur EXCEPT ![e] = Nil]
  /\ UNCHANGED <<owner, inbox, sent, hungup, connVars, serverVars, epollVars>>
EpollAdd(e) ==
  LET c == acur[e]
      f == cfd[c]
  IN /\ apc[e] = "epollAdd"
     /\ IF owner[f] # Nil /\ f \notin reg[e]
          THEN /\ reg' = [reg EXCEPT ![e] = @ \cup {f}]
               /\ apc' = [apc EXCEPT ![e] = "accept"]
               /\ acur' = [acur EXCEPT ![e] = Nil]
               /\ UNCHANGED closing
          ELSE /\ StartClose(c)
               /\ apc' = [apc EXCEPT ![e] = "close"]
               /\ UNCHANGED <<reg, acur>>
     /\ UNCHANGED <<owner, inbox, sent, hungup, cfd, home, cache, greeted,
                    hasRecv, hb, stray, serverVars, epollVars>>

AcceptAgain(e) ==
  /\ apc[e] = "close" /\ closing[acur[e]] = "done"
  /\ apc' = [apc EXCEPT ![e] = "accept"]
  /\ acur' = [acur EXCEPT ![e] = Nil]
  /\ UNCHANGED <<kernelVars, connVars, serverVars, epollVars>>

AcceptStep(e) == NewTCPConn(e) \/ AddConn(e) \/ EpollAdd(e) \/ AcceptAgain(e)

-----------------------------------------------------------------------------
(* The epoll goroutine of an epoller.                                      *)

Readable(c) == inbox[c] > 0 \/ c \in hungup

(* The readable descriptors, all at once; a wait that times out does       *)
(* nothing while the server's context is open.                             *)
Wait(e) ==
  LET fds == {f \in reg[e] : owner[f] # Nil /\ Readable(owner[f])} IN
  /\ epc[e] = "wait" /\ fds # {}
  /\ batch' = [batch EXCEPT ![e] = fds]
  /\ epc' = [epc EXCEPT ![e] = "next"]
  /\ UNCHANGED <<kernelVars, connVars, serverVars, acceptVars, ecur>>

(* After a descriptor: the next of the batch, or Wait.                     *)
Done(e) == epc' = [epc EXCEPT ![e] = IF batch'[e] = {} THEN "wait" ELSE "next"]

(* GetConn(fd) of a descriptor of the batch.  Mutant: it stays in it.      *)
LookupAgain(e) ==
  /\ epc[e] = "next"
  /\ \E f \in batch[e] : /\ conns[f] # Nil
                         /\ ecur' = [ecur EXCEPT ![e] = conns[f]]
  /\ epc' = [epc EXCEPT ![e] = "read"]
  /\ UNCHANGED <<kernelVars, connVars, serverVars, acceptVars, batch>>
Lookup(e) ==
  /\ epc[e] = "next"
  /\ \E f \in batch[e] :
       /\ batch' = [batch EXCEPT ![e] = @ \ {f}]
       /\ IF conns[f] = Nil
            THEN Done(e) /\ UNCHANGED ecur
            ELSE /\ ecur' = [ecur EXCEPT ![e] = conns[f]]
                 /\ epc' = [epc EXCEPT ![e] = "read"]
  /\ UNCHANGED <<kernelVars, connVars, serverVars, acceptVars>>

(* rawConn.Read blocks on an open socket with nothing to read, fails on a  *)
(* socket that Close has closed, and ends with the client's.               *)
Read(e) ==
  LET c == ecur[e] IN
  /\ epc[e] = "read"
  /\ Open(c) => Readable(c)
  /\ IF Open(c) /\ inbox[c] > 0
       THEN /\ cache' = [cache EXCEPT ![c] = @ + inbox[c]]
            /\ inbox' = [inbox EXCEPT ![c] = 0]
            /\ epc' = [epc EXCEPT ![e] = "packet"]
            /\ UNCHANGED closing
       ELSE /\ StartClose(c)
            /\ epc' = [epc EXCEPT ![e] = "close"]
            /\ UNCHANGED <<cache, inbox>>
  /\ UNCHANGED <<owner, reg, sent, hungup, cfd, home, greeted, hasRecv, hb,
                 stray, serverVars, acceptVars, ecur, batch>>

(* All complete packets are handled; Mode(fd) changes nothing.             *)
ReturnFromRecv(e) ==
  \/ epc[e] = "packet" /\ cache[ecur[e]] = 0
  \/ epc[e] = "close" /\ closing[ecur[e]] = "done"

DoRecvReturns(e) ==
  /\ ReturnFromRecv(e)
  /\ ecur' = [ecur EXCEPT ![e] = Nil]
  /\ UNCHANGED batch
  /\ Done(e)
  /\ UNCHANGED <<kernelVars, connVars, serverVars, acceptVars>>

(* ProcessDoneMsg begins.  The reply to a heartbeat fails when the client  *)
(* or Close has closed the socket: asyncWrite then calls Close itself.     *)
Message(e) ==
  LET c == ecur[e] IN
  /\ epc[e] = "packet" /\ cache[c] > 0 /\ hasRecv[c]
  /\ \/ /\ epc' = [epc EXCEPT ![e] = "stopTimer"]
        /\ UNCHANGED closing
     \/ /\ c \in hungup \/ ~Open(c)
        /\ StartClose(c)
        /\ epc' = [epc EXCEPT ![e] = "replyClose"]
  /\ UNCHANGED <<kernelVars, cfd, home, cache, greeted, hasRecv, hb, stray,
                 serverVars, acceptVars, ecur, batch>>

(* This Close is over, and DoRecv goes on.                                 *)
CloseReturns(e) ==
  /\ epc[e] \in {"replyClose", "ackClose"} /\ closing[ecur[e]] = "done"
  /\ epc' = [epc EXCEPT ![e] = IF @ = "replyClose" THEN "stopTimer" ELSE "advance"]
  /\ UNCHANGED <<kernelVars, connVars, serverVars, acceptVars, ecur, batch>>

(* StartHeartbeatTimer: the old timer is stopped, a new one is armed.      *)
(* Mutant: it is only stopped.                                             *)
StopHbTimer(e) ==
  /\ epc[e] = "stopTimer"
  /\ StopHb(ecur[e])
  /\ epc' = [epc EXCEPT ![e] = "armTimer"]
  /\ UNCHANGED <<kernelVars, cfd, home, cache, greeted, hasRecv, stray, closing,
                 serverVars, acceptVars, ecur, batch>>
ForgetTimer(e) ==
  /\ epc[e] = "armTimer"
  /\ SetHb(ecur[e], "none")
  /\ epc' = [epc EXCEPT ![e] = "send"]
  /\ UNCHANGED <<kernelVars, cfd, home, cache, greeted, hasRecv, closing,
                 serverVars, acceptVars, ecur, batch>>
ArmHbTimer(e) ==
  /\ epc[e] = "armTimer"
  /\ SetHb(ecur[e], "armed")
  /\ epc' = [epc EXCEPT ![e] = "send"]
  /\ UNCHANGED <<kernelVars, cfd, home, cache, greeted, hasRecv, closing,
                 serverVars, acceptVars, ecur, batch>>

(* readCh <- mw: the goroutine waits while the channel is full.            *)
SendMsg(e) ==
  /\ epc[e] = "send"
  /\ queued < Room
  /\ queued' = queued + 1
  /\ epc' = [epc EXCEPT ![e] = "advance"]
  /\ UNCHANGED <<kernelVars, connVars, conns, up, announced, acceptVars, ecur,
                 batch>>

(* A length that ParsePacket refuses, a message that cannot be decoded and  *)
(* a public or private key of zero: Close, and DoRecv returns.             *)
BadPacket(e) ==
  /\ epc[e] = "packet" /\ cache[ecur[e]] > 0
  /\ StartClose(ecur[e])
  /\ epc' = [epc EXCEPT ![e] = "close"]
  /\ UNCHANGED <<kernelVars, cfd, home, cache, greeted, hasRecv, hb, stray,
                 serverVars, acceptVars, ecur, batch>>

(* BulidEncryptionConnction, of any packet while hasRecvFlag is false, also *)
(* when Close has reset the flag.  To 'SW', on which a key pair is drawn,  *)
(* the answer is the public key; when it cannot be written DoRecv closes   *)
(* and returns.  A packet too short for its head or for a key panics, and  *)
(* is left out.  Mutant: the flag is set with the answer.                  *)
Building(e) == epc[e] = "packet" /\ cache[ecur[e]] > 0 /\ ~hasRecv[ecur[e]]

FlagEarly(e) ==
  /\ Building(e) /\ Secert
  /\ greeted' = greeted \cup {ecur[e]}
  /\ hasRecv' = [hasRecv EXCEPT ![ecur[e]] = TRUE]
  /\ epc' = [epc EXCEPT ![e] = "advance"]
  /\ UNCHANGED <<kernelVars, cfd, home, cache, hb, stray, closing, serverVars,
                 acceptVars, ecur, batch>>
Greet(e) ==
  LET c == ecur[e] IN
  /\ Building(e) /\ Secert
  /\ greeted' = greeted \cup {c}
  /\ \/ /\ Open(c)
        /\ epc' = [epc EXCEPT ![e] = "advance"]
        /\ UNCHANGED closing
     \/ /\ c \in hungup \/ ~Open(c)
        /\ StartClose(c)
        /\ epc' = [epc EXCEPT ![e] = "close"]
  /\ UNCHANGED <<kernelVars, cfd, home, cache, hasRecv, hb, stray, serverVars,
                 acceptVars, ecur, batch>>

(* The client's key, and a secret from it: a private key is there.         *)
Agree(e) ==
  /\ Building(e) /\ ecur[e] \in greeted
  /\ hasRecv' = [hasRecv EXCEPT ![ecur[e]] = TRUE]
  /\ epc' = [epc EXCEPT ![e] = "connect"]
  /\ UNCHANGED <<kernelVars, cfd, home, cache, greeted, hb, stray, closing,
                 serverVars, acceptVars, ecur, batch>>

Announce(e) ==
  /\ epc[e] = "connect"
  /\ Connect(ecur[e])
  /\ epc' = [epc EXCEPT ![e] = "advance"]
  /\ UNCHANGED <<kernelVars, connVars, conns, queued, acceptVars, ecur, batch>>

(* Any other acknowledgement: Close, and as the error is nil DoRecv goes on *)
(* with its loop.                                                          *)
AckError(e) ==
  /\ Building(e) /\ Secert
  /\ StartClose(ecur[e])
  /\ epc' = [epc EXCEPT ![e] = "ackClose"]
  /\ UNCHANGED <<kernelVars, cfd, home, cache, greeted, hasRecv, hb, stray,
                 serverVars, acceptVars, ecur, batch>>

(* Without a handshake a packet behind Close's reset is dropped; with it,  *)
(* one of the form of 'SW' that says something else.                       *)
DropPacket(e) ==
  /\ Building(e)
  /\ epc' = [epc EXCEPT ![e] = "advance"]
  /\ UNCHANGED <<kernelVars, connVars, serverVars, acceptVars, ecur, batch>>

(* cw.cache = cw.cache[pkglen:] panics when another goroutine has cut the  *)
(* cache meanwhile, and nothing recovers from it.                          *)
CutCache(e) ==
  LET c == ecur[e] IN
  /\ epc[e] = "advance"
  /\ epc' = [epc EXCEPT ![e] = IF cache[c] = 0 THEN "panic" ELSE "packet"]
  /\ IF cache[c] = 0
       THEN UNCHANGED cache
       ELSE cache' = [cache EXCEPT ![c] = @ - 1]
  /\ UNCHANGED <<kernelVars, cfd, home, greeted, hasRecv, hb, stray, closing, serverVars,
                 acceptVars, ecur, batch>>

EpollStep(e) ==
  \/ Wait(e) \/ Lookup(e) \/ Read(e) \/ DoRecvReturns(e)
  \/ Message(e) \/ CloseReturns(e) \/ StopHbTimer(e) \/ ArmHbTimer(e) \/ SendMsg(e)
  \/ BadPacket(e) \/ Greet(e) \/ Agree(e) \/ Announce(e) \/ AckError(e)
  \/ DropPacket(e) \/ CutCache(e)

(* The application takes a message from config.MsgCh.                      *)
Dispatch ==
  /\ queued > 0
  /\ queued' = queued - 1
  /\ UNCHANGED <<kernelVars, connVars, conns, up, announced, acceptVars, epollVars>>

-----------------------------------------------------------------------------
(* A panic in an epoll goroutine ends the process.                         *)
Running == \A e \in Epollers : epc[e] # "panic"

Next ==
  /\ Running
  /\ \/ \E c \in Conns : \/ ClientSend(c) \/ ClientClose(c)
                         \/ CloseStep(c) \/ TimeOut(c)
     \/ \E f \in Fds : CloseConn(f)
     \/ \E e \in Epollers : \/ \E c \in Conns, f \in Fds : Accept(e, c, f)
                            \/ AcceptStep(e)
                            \/ EpollStep(e)
     \/ Dispatch

(* An assumption on schedules, Timely: a heartbeat times out, and the       *)
(* application closes a connection, only after the accept goroutine is     *)
(* done with it.                                                           *)
Pushed(c) == closing[c] = "no" /\ closing'[c] # "no" /\ UNCHANGED <<epc, apc>>
Timely == \A c \in Conns : Pushed(c) => \A e \in Epollers : acur[e] # c

Spec == Init /\ [][Next /\ Timely]_vars

(* Goroutines run, armed timers fire in the end, and the application takes *)
(* its messages.  No client has to connect, to send or to go away.         *)
Fairness ==
  /\ \A c \in Conns : WF_vars(CloseStep(c)) /\ WF_vars(TimeOut(c))
  /\ \A e \in Epollers : WF_vars(AcceptStep(e)) /\ WF_vars(EpollStep(e))
  /\ WF_vars(Dispatch)

FairSpec == Spec /\ Fairness

-----------------------------------------------------------------------------
TypeOK ==
  /\ owner \in [Fds -> Conns \cup {Nil}]
  /\ reg \in [Epollers -> SUBSET Fds]
  /\ inbox \in [Conns -> Nat] /\ sent \in [Conns -> Nat]
  /\ hungup \subseteq Conns
  /\ cfd \in [Conns -> Fds \cup {Nil}] /\ home \in [Conns -> Epollers \cup {Nil}]
  /\ cache \in [Conns -> Nat] /\ greeted \subseteq Conns
  /\ hasRecv \in [Conns -> BOOLEAN]
  /\ hb \in [Conns -> {"none", "armed", "spent"}] /\ stray \in [Conns -> Nat]
  /\ closing \in [Conns -> CloseStates]
  /\ conns \in [Fds -> Conns \cup {Nil}]
  /\ queued \in 0 .. Room
  /\ up \subseteq Fds /\ announced \subseteq Conns
  /\ apc \in [Epollers -> AcceptStates] /\ acur \in [Epollers -> Conns \cup {Nil}]
  /\ epc \in [Epollers -> EpollStates] /\ ecur \in [Epollers -> Conns \cup {Nil}]
  /\ batch \in [Epollers -> SUBSET Fds]

(* GetConn never returns a connection whose descriptor the kernel has      *)
(* given to another one: Close takes the connection out of the map before  *)
(* it releases the descriptor, and removes nobody else's entry.            *)
MapAgrees == \A f \in Fds : conns[f] # Nil => owner[f] = conns[f]

(* A connection that is accepted and not being closed is served: the map   *)
(* and its epoller have it, and a timer watches it.                        *)
Served ==
  \A c \in Conns :
    cfd[c] # Nil /\ closing[c] = "no" /\ (\A e \in Epollers : acur[e] # c)
      => /\ owner[cfd[c]] = c /\ conns[cfd[c]] = c
         /\ cfd[c] \in reg[home[c]]
         /\ \/ hb[c] = "armed"
            \/ \E e \in Epollers : ecur[e] = c /\ epc[e] = "armTimer"

(* What the application has been told by descriptor is true: a descriptor  *)
(* it believes connected is open and its present owner has been announced, *)
(* and it knows of every announced connection that is not being closed.    *)
AppAgrees ==
  /\ \A f \in up : owner[f] # Nil /\ owner[f] \in announced
  /\ \A c \in announced : closing[c] = "no" => cfd[c] \in up

(* Whenever its callbacks come, the application knows of every connection   *)
(* that has been announced and is not being closed: no OnClose of an older *)
(* connection on the same number takes it away.                            *)
LiveIsKnown == \A c \in announced : closing[c] = "no" => cfd[c] \in up

(* A connection whose client has fallen silent is closed in the end.       *)
EventuallyClosed ==
  \A c \in Conns : (cfd[c] # Nil) ~> (closing[c] = "done" /\ ~Open(c))

(* An epoll goroutine gets through its batch and waits for events again:   *)
(* neither a full MsgCh, nor Close, nor a Read of a descriptor that has    *)
(* gone to a silent connection holds it for ever.                          *)
EpollReturns == \A e \in Epollers : (epc[e] # "wait") ~> (epc[e] = "wait")
=============================================================================
