----------------------------- MODULE ClientProofs -----------------------------
(***************************************************************************)
(* For any number of clients, descriptors, packets, tries and timers: on   *)
(* the calm schedules the map agrees with the descriptors, a client has    *)
(* one socket, and the goroutine of Start never waits in Read for nothing. *)
(* The invariant says in which order the goroutines that work on a client  *)
(* follow each other: AddClientWith, then the goroutine of Start, then one *)
(* reconnect task at a time, each only when the one before is through.     *)
(***************************************************************************)
EXTENDS Client, TLAPS

CloseStates   == {"close", "unmap", "unreg", "clear", "stopHeartClosed", "clearHeartClosed",
                  "stopConnect", "armConnect", "reset"}
MessageStates == {"notice", "flag", "check", "stopHeart", "clearHeart", "armHeart", "deliver", "advance"}
Working       == {"read", "packet"} \cup MessageStates \cup CloseStates

(* The reconnect tasks, what calls Connect, and the client it is for.      *)
Connectors == {t \in Tasks : t[2] = "connect"}
Callers    == Clients \cup Connectors
For(p)     == IF p \in Clients THEN p ELSE p[1]

(* Where each process may stand, and what it then works on.                *)
Control ==
  /\ pc[I] \in {"wait", "next", "instClose", "closeChans", "stopWheel", "stuck", "ended"} \cup Working
  /\ pc[I] \in Working => icl # Nil /\ pc[icl] = "added"
  /\ pc[I] \in MessageStates \/ (pc[I] \in CloseStates /\ goOn) => client[icl].cache # <<>>
  /\ \A c \in Clients :
       /\ pc[c] \in {"dial", "establish", "epollAdd", "mapSet", "added", "failed"} \cup CloseStates
       /\ pc[c] \in CloseStates => EpollClosed
  /\ \A t \in Tasks :
       pc[t] \in IF t[2] = "connect"
                 THEN {"idle", "armed", "sleep", "reconnect", "dial", "establish",
                       "stopConnect", "armConnect"}
                 ELSE {"idle", "armed", "check", "stopHeart", "clearHeart", "armHeart"}

(* A descriptor is the socket of the one client whose conn it is; what is  *)
(* dialled is conn, and a client that is dialled for has no socket.        *)
Sockets ==
  /\ \A f \in Fds : owner[f] # Nil => client[owner[f]].conn = f
  /\ \A c \in Clients :
       /\ client[c].conn # Nil => owner[client[c].conn] = c
       /\ client[c].conn # Nil /\ ~client[c].isConnect =>
            \E p \in Callers : For(p) = c /\ pc[p] = "establish"
       /\ pc[c] \in {"unmap", "unreg", "clear"} => client[c].conn = Nil
  /\ \A p \in Callers :
       /\ pc[p] = "establish" => dialled[p] # Nil /\ client[For(p)].conn = dialled[p]
       /\ pc[p] = "dial" => client[For(p)].conn = Nil
  /\ pc[I] \in {"unmap", "unreg", "clear"} => client[icl].conn = Nil

(* One reconnect timer or task at a time, and none before the first Close. *)
OneConnector ==
  /\ \A s, t \in Connectors :
       For(s) = For(t) /\ pc[s] # "idle" /\ pc[t] # "idle" => s = t
  /\ \A t \in Connectors :
       /\ pc[t] = "armed" => client[For(t)].connectTimer = t
       /\ pc[t] # "idle" =>
            /\ client[For(t)].reconnectCount > 0
            /\ pc[For(t)] \in {"added", "failed", "reset"}
            /\ pc[I] \in Working /\ icl = For(t) => pc[t] = "armed" /\ pc[I] # "armConnect"
  /\ \A c \in Clients : pc[c] = "armConnect" => client[c].reconnectCount > 0
  /\ pc[I] = "armConnect" => client[icl].reconnectCount > 0

(* The way of a client into the map and out of it.                         *)
Mapped ==
  /\ \A c \in Clients :
       /\ pc[c] \in {"dial", "establish", "epollAdd", "mapSet"} => client[c].reconnectCount = 0
       /\ pc[c] \in {"epollAdd", "mapSet"} =>
            /\ client[c].fd # Nil /\ owner[client[c].fd] = c /\ client[c].isConnect
            /\ pc[c] = "mapSet" /\ ~Shutting => client[c].fd \in reg
  /\ \A f \in Fds : clientMap[f] # Nil =>
       LET c == clientMap[f]
       IN /\ pc[c] = "added" /\ client[c].fd = f
          /\ client[c].isConnect /\ client[c].reconnectCount = 0
  /\ pc[I] \in {"unreg", "clear"} => \A f \in Fds : clientMap[f] # icl
  /\ pc[I] \in {"stopHeartClosed", "clearHeartClosed", "stopConnect", "armConnect", "reset"} =>
       ~client[icl].isConnect

(* The client that I works on, and those that are left of the batch.       *)
Batch ==
  /\ pc[I] \in Working =>
       /\ client[icl].fd # Nil /\ client[icl].fd \notin ready
       /\ owner[client[icl].fd] \in {Nil, icl}
       /\ client[icl].conn \in {Nil, client[icl].fd}
  /\ ~Shutting => \A f \in ready : owner[f] # Nil /\ inbox[owner[f]] # <<>>

IInv == /\ TypeOK /\ Control /\ Sockets /\ OneConnector /\ Mapped /\ Batch
        /\ MapAgrees /\ ReadIsReady

USE ClientAssumption

-----------------------------------------------------------------------------
(* Who can be where, and for which client.                                 *)
LEMMA Sorts ==
  /\ Clients \subseteq Procs /\ Tasks \subseteq Procs /\ I \in Procs
  /\ Callers = Clients \cup Connectors /\ Connectors \subseteq Callers \cap Tasks
  /\ \A p \in Procs : p \in Clients \/ p \in Tasks \/ p = I
  /\ I \notin Clients /\ I \notin Tasks /\ Nil \notin Clients /\ Nil \notin Tasks
  /\ \A c \in Clients : c \in Callers /\ c \notin Tasks /\ For(c) = c
  /\ \A t \in Tasks : For(t) = t[1] /\ For(t) \in Clients
  /\ \A p \in Callers : p # I /\ For(p) \in Clients
  /\ \A t \in Tasks : t \in Connectors <=> t[2] = "connect"
  BY DEF Procs, Callers, Connectors, Tasks, For

LEMMA Standing ==
  ASSUME Control, NEW p \in Procs
  PROVE  /\ pc[p] \in {"dial", "establish"} => p \in Callers
         /\ pc[p] \in {"close", "unmap", "unreg", "clear", "stopHeartClosed", "clearHeartClosed", "reset"}
              => p \in Clients \cup {I}
         /\ pc[p] \in {"stopConnect", "armConnect"} => p \in Callers \cup {I}
         /\ pc[p] \in {"check", "stopHeart", "clearHeart", "armHeart"} => p = I \/ p \in Tasks \ Connectors
         /\ p # I => Of(p) = For(p) /\ For(p) \in Clients
         /\ p = I => Of(p) = icl
<1>1. p # I => Of(p) = For(p)
  BY DEF Of, For
<1>2. p = I => Of(p) = icl
  BY DEF Of
<1>3. CASE p = I
  BY <1>2, <1>3, Sorts DEF Control, Working, CloseStates, MessageStates
<1>4. CASE p \in Clients
  BY <1>1, <1>4, Sorts DEF Control, CloseStates
<1>5. CASE p \in Tasks
  BY <1>1, <1>5, Sorts DEF Control
<1> QED BY <1>3, <1>4, <1>5, Sorts

LEMMA Types ==
  ASSUME TypeOK
  PROVE  /\ client \in [Clients -> Fields] /\ owner \in [Fds -> Clients \cup {Nil}]
         /\ pc \in [Procs -> States] /\ dialled \in [Procs -> Fds \cup {Nil}]
         /\ inbox \in [Clients -> Seq(Msgs \cup {"eof"})]
         /\ clientMap \in [Fds -> Clients \cup {Nil}] /\ icl \in Clients \cup {Nil}
         /\ ready \subseteq Fds /\ reg \subseteq Fds
  BY DEF TypeOK

(* Whoever connects a client is alone with it.                             *)
LEMMA Alone ==
  ASSUME IInv, NEW p \in Callers,
         pc[p] \notin {"idle", "armed", "added", "failed", "reset"}
  PROVE  /\ \A q \in Callers : q # p /\ For(q) = For(p)
                => pc[q] \in {"idle", "added", "failed", "reset"}
         /\ pc[I] \in Working => icl # For(p)
<1>1. CASE p \in Clients
  <2>1. \A q \in Callers : q # p /\ For(q) = For(p) => q \in Connectors
    BY <1>1, Sorts DEF Callers
  <2> QED BY <1>1, <2>1, Sorts DEF IInv, OneConnector, Control
<1>2. CASE p \in Connectors
  <2>1. pc[For(p)] \in {"added", "failed", "reset"}
    BY <1>2 DEF IInv, OneConnector
  <2>2. \A q \in Callers : q # p /\ For(q) = For(p) => q = For(p) \/ q \in Connectors
    BY Sorts DEF Callers
  <2> QED BY <1>2, <2>1, <2>2 DEF IInv, OneConnector
<1> QED BY <1>1, <1>2 DEF Callers

-----------------------------------------------------------------------------
(* The fields of a client, and what an assignment to some of them keeps.   *)
Keep(r, s, fields) ==
  /\ r.conn = s.conn \/ "conn" \in fields
  /\ r.fd = s.fd \/ "fd" \in fields
  /\ r.isConnect = s.isConnect \/ "isConnect" \in fields
  /\ r.reconnectCount = s.reconnectCount \/ "reconnectCount" \in fields
  /\ r.connectTimer = s.connectTimer \/ "connectTimer" \in fields
  /\ r.cache = s.cache \/ "cache" \in fields

LEMMA SetConn ==
  ASSUME NEW r \in Fields, NEW v \in Fds \cup {Nil}
  PROVE  LET s == [r EXCEPT !.conn = v]
         IN s \in Fields /\ s.conn = v /\ Keep(s, r, {"conn"})
  BY DEF Fields, Keep

LEMMA SetClosed ==
  ASSUME NEW r \in Fields
  PROVE  LET s == [r EXCEPT !.isConnect = FALSE]
         IN s \in Fields /\ ~s.isConnect /\ Keep(s, r, {"isConnect"})
  BY DEF Fields, Keep

LEMMA SetCount ==
  ASSUME NEW r \in Fields, NEW n \in 0 .. Tries
  PROVE  LET s == [r EXCEPT !.connectTimer = Nil, !.reconnectCount = n]
         IN /\ s \in Fields /\ s.reconnectCount = n
            /\ Keep(s, r, {"connectTimer", "reconnectCount"})
  BY DEF Fields, Keep

LEMMA SetTimer ==
  ASSUME NEW r \in Fields, NEW t \in Tasks
  PROVE  LET s == [r EXCEPT !.connectTimer = t]
         IN s \in Fields /\ s.connectTimer = t /\ Keep(s, r, {"connectTimer"})
  BY DEF Fields, Keep

LEMMA SetCache ==
  ASSUME NEW r \in Fields, NEW q \in Seq(Msgs)
  PROVE  LET s == [r EXCEPT !.cache = q]
         IN s \in Fields /\ s.cache = q /\ Keep(s, r, {"cache"})
  BY DEF Fields, Keep

LEMMA SetQuietly ==
  ASSUME NEW r \in Fields, NEW t \in Tasks \cup {Nil}, NEW b \in BOOLEAN
  PROVE  /\ [r EXCEPT !.heartTimer = t] \in Fields /\ Keep([r EXCEPT !.heartTimer = t], r, {})
         /\ [r EXCEPT !.hasRecvFlag = b] \in Fields /\ Keep([r EXCEPT !.hasRecvFlag = b], r, {})
         /\ [r EXCEPT !.onceDone = b] \in Fields /\ Keep([r EXCEPT !.onceDone = b], r, {})
  BY DEF Fields, Keep

LEMMA FieldTypes ==
  ASSUME NEW r \in Fields
  PROVE  /\ r.conn \in Fds \cup {Nil} /\ r.fd \in Fds \cup {Nil}
         /\ r.reconnectCount \in 0 .. Tries /\ r.cache \in Seq(Msgs)
         /\ r.isConnect \in BOOLEAN /\ r.hasRecvFlag \in BOOLEAN
         /\ r.heartTimer \in Tasks \cup {Nil} /\ r.connectTimer \in Tasks \cup {Nil}
         /\ Keep(r, r, {})
  BY DEF Fields, Keep

(* An assignment to one client.                                            *)
Updated(c, r, fields) ==
  /\ client'[c] = r /\ Keep(r, client[c], fields)
  /\ \A d \in Clients : d # c => client'[d] = client[d]
  /\ \A d \in Clients : Keep(client'[d], client[d], fields)

LEMMA Update ==
  ASSUME TypeOK, NEW c \in Clients, NEW r \in Fields, NEW fields,
         Keep(r, client[c], fields), client' = [client EXCEPT ![c] = r]
  PROVE  client' \in [Clients -> Fields] /\ Updated(c, r, fields)
<1>1. client \in [Clients -> Fields]
  BY DEF TypeOK
<1>2. /\ client' \in [Clients -> Fields] /\ client'[c] = r
      /\ \A d \in Clients : d # c => client'[d] = client[d]
  BY <1>1
<1>3. \A d \in Clients : d # c => Keep(client'[d], client[d], fields)
  BY <1>2 DEF Keep
<1> QED BY <1>2, <1>3 DEF Updated

-----------------------------------------------------------------------------
(* Steps that leave the descriptors, the map and the sockets alone: DoRecv *)
(* at its messages, heartbeats, timers that fire, the end of Close.        *)
OpenStates == {"wait", "next", "read", "packet", "close"} \cup MessageStates

Quiet ==
  /\ UNCHANGED <<owner, reg, clientMap, dialled, icl>>
  /\ \A c \in Clients : /\ pc'[c] = pc[c] \/ (pc[c] = "reset" /\ pc'[c] = "failed")
                        /\ Keep(client'[c], client[c], {"cache"})
  /\ \A t \in Connectors :
       \/ pc'[t] = pc[t]
       \/ pc[t] \in {"armed", "reconnect"} /\ pc'[t] = "idle"
       \/ pc[t] = "reconnect" /\ pc'[t] = "dial" /\ client[For(t)].conn = Nil
       \/ /\ pc[t] \in {"armed", "sleep"} /\ pc'[t] \in {"sleep", "reconnect"}
          /\ pc[I] \in Working => icl # For(t)
  /\ \/ pc'[I] = pc[I]
     \/ /\ pc[I] \in OpenStates \cup {"reset"} /\ pc'[I] \in OpenStates
        /\ pc'[I] \in Working => pc[I] \in Working

LEMMA QuietSteps ==
  ASSUME IInv, Quiet
  PROVE  Sockets' /\ OneConnector' /\ Mapped' /\ MapAgrees'
<1> USE Sorts, Types DEF IInv
<1>0. /\ pc[I] \in Working => icl \in Clients
      /\ \A c \in Clients : /\ client'[c].conn = client[c].conn
                            /\ client'[c].fd = client[c].fd
                            /\ client'[c].isConnect = client[c].isConnect
                            /\ client'[c].reconnectCount = client[c].reconnectCount
                            /\ client'[c].connectTimer = client[c].connectTimer
  BY DEF Quiet, Keep, Control
<1>1. Sockets'
  <2>1. \A f \in Fds : owner'[f] # Nil => client'[owner'[f]].conn = f
    BY <1>0 DEF Quiet, Sockets
  <2>2. ASSUME NEW c \in Clients
        PROVE  /\ client'[c].conn # Nil => owner'[client'[c].conn] = c
               /\ pc'[c] \in {"unmap", "unreg", "clear"} => client'[c].conn = Nil
    BY <1>0 DEF Quiet, Sockets
  <2>3. \A p \in Callers : pc[p] = "establish" <=> pc'[p] = "establish"
    BY DEF Quiet, Callers
  <2>4. \A p \in Callers : pc'[p] = "dial" => pc[p] = "dial" \/ client[For(p)].conn = Nil
    BY DEF Quiet, Callers
  <2>5. ASSUME NEW c \in Clients, client'[c].conn # Nil /\ ~client'[c].isConnect
        PROVE  \E p \in Callers : For(p) = c /\ pc'[p] = "establish"
    BY <1>0, <2>3, <2>5, SMTT(30) DEF Sockets
  <2>6. ASSUME NEW p \in Callers
        PROVE  /\ pc'[p] = "establish" => dialled'[p] # Nil /\ client'[For(p)].conn = dialled'[p]
               /\ pc'[p] = "dial" => client'[For(p)].conn = Nil
    BY <1>0, <2>3, <2>4, SMTT(30) DEF Sockets, Quiet
  <2>7. pc'[I] \in {"unmap", "unreg", "clear"} => client'[icl'].conn = Nil
    BY <1>0 DEF Sockets, Quiet, OpenStates, MessageStates, Working, CloseStates
  <2> QED BY <2>1, <2>2, <2>5, <2>6, <2>7 DEF Sockets
<1>2. OneConnector'
  <2>1. \A t \in Connectors : pc'[t] # "idle" => pc[t] # "idle"
    BY DEF Quiet
  <2>2. ASSUME NEW t \in Connectors, pc'[t] # "idle"
        PROVE  /\ client'[For(t)].reconnectCount > 0
               /\ pc'[For(t)] \in {"added", "failed", "reset"}
    <3>1. For(t) \in Clients
      OBVIOUS
    <3> QED BY <1>0, <2>1, <2>2, <3>1 DEF Quiet, OneConnector
  <2>6. ASSUME NEW t \in Connectors, pc'[t] = "armed"
        PROVE  client'[For(t)].connectTimer = t
    <3>1. For(t) \in Clients /\ pc[t] = "armed"
      BY <2>6 DEF Quiet
    <3> QED BY <1>0, <3>1 DEF OneConnector
  <2>3. ASSUME NEW t \in Connectors, pc'[t] # "idle", pc'[I] \in Working, icl' = For(t)
        PROVE  pc'[t] = "armed" /\ pc'[I] # "armConnect"
    BY <2>1, <2>3 DEF Quiet, OneConnector, OpenStates, MessageStates
  <2>4. \A c \in Clients : pc'[c] = "armConnect" => client'[c].reconnectCount > 0
    BY <1>0 DEF Quiet, OneConnector
  <2>5. pc'[I] = "armConnect" => client'[icl'].reconnectCount > 0
    BY <1>0 DEF Quiet, OneConnector, OpenStates, MessageStates, Working, CloseStates
  <2> QED BY <2>1, <2>2, <2>3, <2>4, <2>5, <2>6 DEF OneConnector
<1>3. Shutting' <=> Shutting
  BY DEF Quiet, OpenStates, MessageStates, Shutting
<1>4. Mapped'
  <2>1. ASSUME NEW c \in Clients
        PROVE  /\ pc'[c] \in {"dial", "establish", "epollAdd", "mapSet"}
                    => client'[c].reconnectCount = 0
               /\ pc'[c] \in {"epollAdd", "mapSet"} =>
                    /\ client'[c].fd # Nil /\ owner'[client'[c].fd] = c /\ client'[c].isConnect
                    /\ pc'[c] = "mapSet" /\ ~Shutting' => client'[c].fd \in reg'
    <3>1. /\ pc'[c] = pc[c] \/ pc'[c] = "failed"
          /\ owner' = owner /\ reg' = reg
      BY DEF Quiet
    <3>2. /\ client'[c].fd = client[c].fd /\ client'[c].isConnect = client[c].isConnect
          /\ client'[c].reconnectCount = client[c].reconnectCount
      BY <1>0
    <3> QED BY ONLY IInv, <1>3, <3>1, <3>2, c \in Clients DEF IInv, Mapped
  <2>2. ASSUME NEW f \in Fds, clientMap'[f] # Nil
        PROVE  LET c == clientMap'[f]
               IN /\ pc'[c] = "added" /\ client'[c].fd = f
                  /\ client'[c].isConnect /\ client'[c].reconnectCount = 0
    <3>1. clientMap[f] \in Clients /\ clientMap'[f] = clientMap[f]
      BY <2>2 DEF Quiet
    <3> QED BY <1>0, <3>1 DEF Quiet, Mapped
  <2>3. pc'[I] \in {"unreg", "clear"} => \A f \in Fds : clientMap'[f] # icl'
    BY DEF Quiet, Mapped, OpenStates, MessageStates
  <2>4. pc'[I] \in {"stopHeartClosed", "clearHeartClosed", "stopConnect", "armConnect", "reset"} =>
          ~client'[icl'].isConnect
    BY <1>0 DEF Quiet, Mapped, OpenStates, MessageStates, Working, CloseStates
  <2> QED BY <2>1, <2>2, <2>3, <2>4 DEF Mapped
<1>5. MapAgrees'
  <2>1. ASSUME NEW c \in Clients, FirstLife(c)', ~Shutting PROVE FirstLife(c)
    BY <1>0, <2>1 DEF Quiet, FirstLife, Closing, At, OpenStates, MessageStates, Mapped
  <2>2. ASSUME NEW f \in Fds, clientMap'[f] # Nil PROVE client'[clientMap'[f]].fd = f
    BY <1>4, <2>2 DEF Mapped
  <2>3. ASSUME NEW c \in Clients, FirstLife(c)', ~Shutting'
        PROVE  LET f == client'[c].fd
               IN owner'[f] = c /\ clientMap'[f] = c /\ f \in reg'
    BY <1>0, <1>3, <2>1, <2>3 DEF Quiet, MapAgrees, Shutting
  <2> QED BY <2>2, <2>3 DEF MapAgrees, Shutting
<1> QED BY <1>1, <1>2, <1>4, <1>5

-----------------------------------------------------------------------------
(* Connect.                                                                *)
LEMMA DialIInv ==
  ASSUME IInv, NEW p \in Procs, NEW f \in Fds, Dial(p, f), Calm
  PROVE  IInv'
<1> USE Sorts, Types DEF IInv
<1> DEFINE c == For(p)
           r == [client[c] EXCEPT !.conn = f]
<1>1. p \in Callers /\ pc[p] = "dial" /\ c \in Clients /\ Of(p) = c
  BY Standing DEF Dial, At
<1> HIDE DEF c
<1>2. c = For(p) /\ client[c].conn = Nil
  BY <1>1 DEF Sockets, c
<1>0. /\ \A q \in Callers : q # p /\ For(q) = c => pc[q] \in {"idle", "added", "failed", "reset"}
      /\ pc[I] \in Working => icl # c /\ icl \in Clients
  <2>1. pc[p] \notin {"idle", "armed", "added", "failed", "reset"}
    BY <1>1
  <2>2. /\ \A q \in Callers : q # p /\ For(q) = For(p) => pc[q] \in {"idle", "added", "failed", "reset"}
        /\ pc[I] \in Working => icl # For(p)
    BY ONLY IInv, <1>1, <2>1, Alone
  <2>3. pc[I] \in Working => icl \in Clients
    BY DEF Control
  <2> QED BY <1>2, <2>2, <2>3
<1>3. /\ owner[f] = Nil /\ owner' = [owner EXCEPT ![f] = c]
      /\ inbox' = [inbox EXCEPT ![c] = <<>>]
      /\ client' = [client EXCEPT ![c] = r]
      /\ dialled' = [dialled EXCEPT ![p] = f]
      /\ pc' = [pc EXCEPT ![p] = "establish"]
      /\ UNCHANGED <<reg, sent, clientMap, connectCh, readCh, cancelled, icl, ready, goOn>>
  BY <1>1 DEF Dial, Goto, chanVars, loopVars
<1>4. r \in Fields /\ r.conn = f /\ Keep(r, client[c], {"conn"})
  BY <1>1, SetConn
<1> HIDE DEF r
<1>5. client' \in [Clients -> Fields] /\ Updated(c, r, {"conn"})
  BY <1>1, <1>3, <1>4, Update
<1>6. /\ client'[c].conn = f
      /\ \A d \in Clients : /\ d # c => client'[d] = client[d]
                            /\ client'[d].fd = client[d].fd
                            /\ client'[d].isConnect = client[d].isConnect
                            /\ client'[d].reconnectCount = client[d].reconnectCount
                            /\ client'[d].connectTimer = client[d].connectTimer
                            /\ client'[d].cache = client[d].cache
  BY <1>4, <1>5 DEF Updated, Keep
<1>7. \A q \in Procs : pc'[q] = IF q = p THEN "establish" ELSE pc[q]
  BY <1>3
<1>8. TypeOK'
  <2>1. pc' \in [Procs -> States] /\ owner' \in [Fds -> Clients \cup {Nil}]
        /\ dialled' \in [Procs -> Fds \cup {Nil}]
        /\ inbox' \in [Clients -> Seq(Msgs \cup {"eof"})]
    BY <1>1, <1>3 DEF States
  <2> QED BY <1>3, <1>5, <2>1 DEF TypeOK
<1>9. Control'
  <2>1. /\ pc'[I] = pc[I] /\ icl' = icl /\ goOn' = goOn
        /\ pc[I] \in Working => pc'[icl] = pc[icl] /\ client'[icl].cache = client[icl].cache
    BY <1>0, <1>1, <1>3, <1>6, <1>7 DEF Control
  <2>2. ASSUME NEW d \in Clients
        PROVE  /\ pc'[d] \in {"dial", "establish", "epollAdd", "mapSet", "added", "failed"}
                            \cup CloseStates
               /\ pc'[d] \in CloseStates => EpollClosed'
    BY <1>7, <2>1 DEF Control, EpollClosed, CloseStates
  <2>3. \A t \in Tasks : t # p => pc'[t] = pc[t]
    BY <1>7
  <2>4. p \in Tasks => p[2] = "connect"
    BY <1>1
  <2> QED BY <1>7, <2>1, <2>2, <2>3, <2>4 DEF Control, Working
<1>10. Sockets'
  <2>1. \A g \in Fds : owner'[g] # Nil => client'[owner'[g]].conn = g
    BY <1>1, <1>2, <1>3, <1>6 DEF Sockets
  <2>2. ASSUME NEW d \in Clients
        PROVE  /\ client'[d].conn # Nil => owner'[client'[d].conn] = d
               /\ pc'[d] \in {"unmap", "unreg", "clear"} => client'[d].conn = Nil
    <3>1. CASE d = c
      <4>1. pc'[c] \in {"establish", "idle", "added", "failed", "reset"}
        BY <1>0, <1>1, <1>7
      <4> QED BY <1>3, <1>6, <3>1, <4>1
    <3>2. CASE d # c
      BY <1>1, <1>2, <1>3, <1>6, <1>7, <3>2, FieldTypes DEF Sockets
    <3> QED BY <3>1, <3>2
  <2>3. ASSUME NEW d \in Clients, client'[d].conn # Nil, ~client'[d].isConnect
        PROVE  \E q \in Callers : For(q) = d /\ pc'[q] = "establish"
    <3>1. CASE d = c
      BY <1>1, <1>2, <1>7, <3>1
    <3>2. CASE d # c
      <4>1. PICK q \in Callers : For(q) = d /\ pc[q] = "establish"
        BY <1>6, <2>3, <3>2 DEF Sockets
      <4> QED BY <1>1, <1>7, <4>1
    <3> QED BY <3>1, <3>2
  <2>4. ASSUME NEW q \in Callers
        PROVE  /\ pc'[q] = "establish" => dialled'[q] # Nil /\ client'[For(q)].conn = dialled'[q]
               /\ pc'[q] = "dial" => client'[For(q)].conn = Nil
    <3>1. CASE q = p
      BY <1>1, <1>2, <1>3, <1>6, <1>7, <3>1
    <3>2. CASE q # p /\ For(q) = c
      BY <1>0, <1>1, <1>7, <3>2
    <3>3. CASE For(q) # c
      BY <1>1, <1>2, <1>3, <1>6, <1>7, <3>3 DEF Sockets
    <3> QED BY <3>1, <3>2, <3>3
  <2>5. pc'[I] \in {"unmap", "unreg", "clear"} => client'[icl'].conn = Nil
    BY <1>0, <1>1, <1>3, <1>6, <1>7 DEF Sockets, Working, CloseStates
  <2> QED BY <2>1, <2>2, <2>3, <2>4, <2>5 DEF Sockets
<1>11. OneConnector'
  BY <1>0, <1>1, <1>2, <1>3, <1>6, <1>7 DEF OneConnector, Working, CloseStates
<1>12. Mapped'
  BY <1>0, <1>1, <1>3, <1>6, <1>7 DEF Mapped, Working, CloseStates, Shutting
<1>13. Batch'
  <2>1. ~Shutting => \A g \in ready : owner[g] # Nil /\ owner[g] # c /\ g # f
    BY <1>1, <1>2, <1>3 DEF Batch, Sockets
  <2>2. ~Shutting' => \A g \in ready' : owner'[g] # Nil /\ inbox'[owner'[g]] # <<>>
    BY <1>1, <1>3, <1>7, <2>1 DEF Batch, Shutting
  <2>3. ASSUME pc[I] \in Working
        PROVE  /\ client'[icl].fd # Nil /\ client'[icl].fd \notin ready
               /\ owner'[client'[icl].fd] \in {Nil, icl}
               /\ client'[icl].conn \in {Nil, client'[icl].fd}
    <3>1. icl \in Clients /\ icl # c /\ client'[icl] = client[icl]
      BY <1>0, <1>6, <2>3
    <3>2. client[icl].fd \in Fds
      BY <2>3, <3>1, FieldTypes DEF Batch
    <3>3. client[icl].fd # f
      BY <1>1, <1>3, <2>3, <3>1, <3>2 DEF Calm, InHand
    <3> QED BY <1>3, <2>3, <3>1, <3>2, <3>3 DEF Batch
  <2> QED BY <1>1, <1>3, <1>7, <2>2, <2>3 DEF Batch
<1>14. MapAgrees'
  BY <1>1, <1>2, <1>3, <1>6, <1>7 DEF MapAgrees, Shutting, FirstLife, Closing, At
<1>15. ReadIsReady'
  BY <1>0, <1>1, <1>3, <1>6, <1>7 DEF ReadIsReady, Open, At, Working
<1> QED BY <1>8, <1>9, <1>10, <1>11, <1>12, <1>13, <1>14, <1>15

(* A dial that fails leaves the client without a socket, as it was.        *)
LEMMA DialFailsIInv ==
  ASSUME IInv, NEW p \in Procs, DialFails(p)
  PROVE  IInv'
<1> USE Sorts, Types DEF IInv
<1> DEFINE c == For(p)
           r == [client[c] EXCEPT !.conn = Nil]
           to == IF p \in Clients THEN "failed" ELSE "stopConnect"
<1>1. p \in Callers /\ pc[p] = "dial" /\ c \in Clients /\ Of(p) = c
  BY Standing DEF DialFails, At
<1> HIDE DEF c
<1>2. c = For(p) /\ client[c].conn = Nil
  BY <1>1 DEF Sockets, c
<1>0. /\ \A q \in Callers : q # p /\ For(q) = c => pc[q] \in {"idle", "added", "failed", "reset"}
      /\ pc[I] \in Working => icl # c /\ icl \in Clients
  <2>1. pc[p] \notin {"idle", "armed", "added", "failed", "reset"}
    BY <1>1
  <2>2. /\ \A q \in Callers : q # p /\ For(q) = For(p) => pc[q] \in {"idle", "added", "failed", "reset"}
        /\ pc[I] \in Working => icl # For(p)
    BY ONLY IInv, <1>1, <2>1, Alone
  <2>3. pc[I] \in Working => icl \in Clients
    BY DEF Control
  <2> QED BY <1>2, <2>2, <2>3
<1>3. /\ inbox' = [inbox EXCEPT ![c] = <<>>]
      /\ client' = [client EXCEPT ![c] = r]
      /\ pc' = [pc EXCEPT ![p] = to]
      /\ UNCHANGED <<owner, reg, sent, clientMap, connectCh, readCh, cancelled, dialled, icl, ready, goOn>>
  BY <1>1 DEF DialFails, Goto, chanVars, loopVars
<1>4. r \in Fields /\ r.conn = Nil /\ Keep(r, client[c], {"conn"})
  BY <1>1, SetConn
<1> HIDE DEF r
<1>5. client' \in [Clients -> Fields] /\ Updated(c, r, {"conn"})
  BY <1>1, <1>3, <1>4, Update
<1>6. \A d \in Clients : /\ client'[d].conn = client[d].conn
                         /\ client'[d].fd = client[d].fd
                         /\ client'[d].isConnect = client[d].isConnect
                         /\ client'[d].reconnectCount = client[d].reconnectCount
                         /\ client'[d].connectTimer = client[d].connectTimer
                         /\ client'[d].cache = client[d].cache
  BY <1>2, <1>4, <1>5 DEF Updated, Keep
<1>7. \A q \in Procs : pc'[q] = IF q = p THEN to ELSE pc[q]
  BY <1>3
<1>71. (p \in Clients => to = "failed") /\ (p \in Connectors => to = "stopConnect") /\ to \in {"failed", "stopConnect"}
  BY <1>1
<1> HIDE DEF to
<1>8. TypeOK'
  <2>1. pc' \in [Procs -> States] /\ inbox' \in [Clients -> Seq(Msgs \cup {"eof"})]
    BY <1>1, <1>3, <1>71 DEF States
  <2> QED BY <1>3, <1>5, <2>1 DEF TypeOK
<1>9. Control'
  <2>1. /\ pc'[I] = pc[I] /\ icl' = icl /\ goOn' = goOn
        /\ pc[I] \in Working => pc'[icl] = pc[icl] /\ client'[icl].cache = client[icl].cache
    BY <1>0, <1>1, <1>3, <1>6, <1>7 DEF Control
  <2>2. ASSUME NEW d \in Clients
        PROVE  /\ pc'[d] \in {"dial", "establish", "epollAdd", "mapSet", "added", "failed"}
                            \cup CloseStates
               /\ pc'[d] \in CloseStates => EpollClosed'
    BY <1>7, <1>71, <2>1 DEF Control, EpollClosed, CloseStates
  <2>3. \A t \in Tasks : t # p => pc'[t] = pc[t]
    BY <1>7
  <2>4. p \in Tasks => p[2] = "connect" /\ pc'[p] = "stopConnect"
    BY <1>1, <1>7, <1>71
  <2>5. \A t \in Tasks :
          pc'[t] \in IF t[2] = "connect"
                     THEN {"idle", "armed", "sleep", "reconnect", "dial", "establish",
                           "stopConnect", "armConnect"}
                     ELSE {"idle", "armed", "check", "stopHeart", "clearHeart", "armHeart"}
    BY <2>3, <2>4 DEF Control
  <2>6. /\ pc'[I] \in {"wait", "next", "instClose", "closeChans", "stopWheel", "stuck", "ended"} \cup Working
        /\ pc'[I] \in Working => icl' # Nil /\ pc'[icl'] = "added"
    BY <2>1 DEF Control
  <2>7. pc'[I] \in MessageStates \/ (pc'[I] \in CloseStates /\ goOn') => client'[icl'].cache # <<>>
    BY <2>1 DEF Control, Working
  <2> QED BY <2>2, <2>5, <2>6, <2>7 DEF Control
<1>10. Sockets'
  <2>1. \A g \in Fds : owner'[g] # Nil => client'[owner'[g]].conn = g
    BY <1>1, <1>2, <1>3, <1>6 DEF Sockets
  <2>2. ASSUME NEW d \in Clients
        PROVE  /\ client'[d].conn # Nil => owner'[client'[d].conn] = d
               /\ pc'[d] \in {"unmap", "unreg", "clear"} => client'[d].conn = Nil
    BY <1>3, <1>6, <1>7, <1>71 DEF Sockets
  <2>3. ASSUME NEW d \in Clients, client'[d].conn # Nil, ~client'[d].isConnect
        PROVE  \E q \in Callers : For(q) = d /\ pc'[q] = "establish"
    <3>1. client[d].conn # Nil /\ ~client[d].isConnect
      BY <1>6, <2>3
    <3>2. PICK q \in Callers : For(q) = d /\ pc[q] = "establish"
      BY <3>1 DEF Sockets
    <3> QED BY <1>1, <1>7, <3>2
  <2>4. ASSUME NEW q \in Callers
        PROVE  /\ pc'[q] = "establish" => dialled'[q] # Nil /\ client'[For(q)].conn = dialled'[q]
               /\ pc'[q] = "dial" => client'[For(q)].conn = Nil
    BY <1>3, <1>6, <1>7, <1>71 DEF Sockets
  <2>5. pc'[I] \in {"unmap", "unreg", "clear"} => client'[icl'].conn = Nil
    BY <1>0, <1>1, <1>3, <1>6, <1>7 DEF Sockets, Working, CloseStates
  <2> QED BY <2>1, <2>2, <2>3, <2>4, <2>5 DEF Sockets
<1>11. OneConnector'
  BY <1>0, <1>1, <1>2, <1>3, <1>6, <1>7, <1>71 DEF OneConnector, Working, CloseStates
<1>12. Mapped'
  BY <1>0, <1>1, <1>3, <1>6, <1>7, <1>71 DEF Mapped, Working, CloseStates, Shutting
<1>13. Batch'
  <2>1. \A g \in Fds : owner[g] # c
    BY <1>1, <1>2 DEF Sockets
  <2> QED BY <1>0, <1>1, <1>3, <1>6, <1>7, <2>1 DEF Batch, Shutting
<1>14. MapAgrees'
  BY <1>1, <1>2, <1>3, <1>6, <1>7, <1>71 DEF MapAgrees, Shutting, FirstLife, Closing, At
<1>15. ReadIsReady'
  BY <1>0, <1>1, <1>3, <1>6, <1>7 DEF ReadIsReady, Open, At, Working
<1> QED BY <1>8, <1>9, <1>10, <1>11, <1>12, <1>13, <1>14, <1>15

(* The client is connected, under the descriptor that was dialled.         *)
LEMMA EstablishIInv ==
  ASSUME IInv, NEW p \in Procs, Establish(p)
  PROVE  IInv'
<1> USE Sorts, Types DEF IInv
<1> DEFINE c == For(p)
           flag == client[c].hasRecvFlag \/ ~Secert
           r == [client[c] EXCEPT !.fd = dialled[p], !.hasRecvFlag = flag, !.isConnect = TRUE]
           to == IF p \in Clients THEN "epollAdd" ELSE "idle"
<1>1. p \in Callers /\ pc[p] = "establish" /\ c \in Clients /\ Of(p) = c
  BY Standing DEF Establish, At
<1> HIDE DEF c
<1>2. c = For(p) /\ dialled[p] \in Fds /\ client[c].conn = dialled[p] /\ owner[dialled[p]] = c
  BY <1>1 DEF Sockets, c
<1>0. /\ \A q \in Callers : q # p /\ For(q) = c => pc[q] \in {"idle", "added", "failed", "reset"}
      /\ pc[I] \in Working => icl # c /\ icl \in Clients
  <2>1. pc[p] \notin {"idle", "armed", "added", "failed", "reset"}
    BY <1>1
  <2>2. /\ \A q \in Callers : q # p /\ For(q) = For(p) => pc[q] \in {"idle", "added", "failed", "reset"}
        /\ pc[I] \in Working => icl # For(p)
    BY ONLY IInv, <1>1, <2>1, Alone
  <2>3. pc[I] \in Working => icl \in Clients
    BY DEF Control
  <2> QED BY <1>2, <2>2, <2>3
<1>3. /\ client' = [client EXCEPT ![c] = r]
      /\ dialled' = [dialled EXCEPT ![p] = Nil]
      /\ pc' = [pc EXCEPT ![p] = to]
      /\ UNCHANGED <<owner, reg, inbox, sent, clientMap, connectCh, readCh, cancelled, icl, ready, goOn>>
  <2>1. /\ dialled' = [dialled EXCEPT ![p] = Nil]
        /\ pc' = [pc EXCEPT ![p] = to]
        /\ UNCHANGED <<owner, reg, inbox, sent, clientMap, connectCh, readCh, cancelled, icl, ready, goOn>>
    BY DEF Establish, Goto, chanVars, loopVars, kernelVars
  <2>2. client' = [client EXCEPT ![c].fd = dialled[p], ![c].hasRecvFlag = @ \/ ~Secert,
                                 ![c].isConnect = TRUE]
    BY <1>1 DEF Establish
  <2>3. client' = [client EXCEPT ![c] = r]
    BY ONLY <1>1, <2>2, Types, TypeOK
  <2> QED BY <2>1, <2>3
<1>4. r \in Fields /\ r.fd = dialled[p] /\ r.isConnect /\ Keep(r, client[c], {"fd", "isConnect"})
  <2>1. flag \in BOOLEAN /\ client[c] \in Fields
    BY <1>1, FieldTypes
  <2>2. dialled[p] \in Fds \cup {Nil}
    BY <1>2
  <2>3. PICK b \in BOOLEAN :
          r = [client[c] EXCEPT !.fd = dialled[p], !.hasRecvFlag = b, !.isConnect = TRUE]
    <3>1. \E b \in BOOLEAN : flag = b
      BY <2>1
    <3> QED BY <3>1
  <2> HIDE DEF r
  <2> QED BY ONLY <2>1, <2>2, <2>3 DEF Fields, Keep
<1> HIDE DEF r
<1>5. client' \in [Clients -> Fields] /\ Updated(c, r, {"fd", "isConnect"})
  BY <1>1, <1>3, <1>4, Update
<1>6. /\ client'[c].fd = dialled[p] /\ client'[c].isConnect
      /\ \A d \in Clients : /\ d # c => client'[d] = client[d]
                            /\ client'[d].conn = client[d].conn
                            /\ client'[d].reconnectCount = client[d].reconnectCount
                            /\ client'[d].connectTimer = client[d].connectTimer
                            /\ client'[d].cache = client[d].cache
  BY <1>4, <1>5 DEF Updated, Keep
<1>7. \A q \in Procs : pc'[q] = IF q = p THEN to ELSE pc[q]
  BY <1>3
<1>71. (p \in Clients => to = "epollAdd") /\ (p \in Connectors => to = "idle") /\ to \in {"epollAdd", "idle"}
  BY <1>1
<1> HIDE DEF to
<1>8. TypeOK'
  <2>1. pc' \in [Procs -> States] /\ dialled' \in [Procs -> Fds \cup {Nil}]
    BY <1>1, <1>3, <1>71 DEF States
  <2> QED BY <1>3, <1>5, <2>1 DEF TypeOK
<1>9. Control'
  <2>1. /\ pc'[I] = pc[I] /\ icl' = icl /\ goOn' = goOn
        /\ pc[I] \in Working => pc'[icl] = pc[icl] /\ client'[icl].cache = client[icl].cache
    BY <1>0, <1>1, <1>3, <1>6, <1>7 DEF Control
  <2>2. ASSUME NEW d \in Clients
        PROVE  /\ pc'[d] \in {"dial", "establish", "epollAdd", "mapSet", "added", "failed"}
                            \cup CloseStates
               /\ pc'[d] \in CloseStates => EpollClosed'
    BY <1>7, <1>71, <2>1 DEF Control, EpollClosed, CloseStates
  <2>3. \A t \in Tasks : t # p => pc'[t] = pc[t]
    BY <1>7
  <2>4. p \in Tasks => p[2] = "connect" /\ pc'[p] = "idle"
    BY <1>1, <1>7, <1>71
  <2>5. \A t \in Tasks :
          pc'[t] \in IF t[2] = "connect"
                     THEN {"idle", "armed", "sleep", "reconnect", "dial", "establish",
                           "stopConnect", "armConnect"}
                     ELSE {"idle", "armed", "check", "stopHeart", "clearHeart", "armHeart"}
    BY <2>3, <2>4 DEF Control
  <2>6. /\ pc'[I] \in {"wait", "next", "instClose", "closeChans", "stopWheel", "stuck", "ended"} \cup Working
        /\ pc'[I] \in Working => icl' # Nil /\ pc'[icl'] = "added"
    BY <2>1 DEF Control
  <2>7. pc'[I] \in MessageStates \/ (pc'[I] \in CloseStates /\ goOn') => client'[icl'].cache # <<>>
    BY <2>1 DEF Control, Working
  <2> QED BY <2>2, <2>5, <2>6, <2>7 DEF Control
<1>10. Sockets'
  <2>1. \A g \in Fds : owner'[g] # Nil => client'[owner'[g]].conn = g
    BY <1>3, <1>6 DEF Sockets
  <2>2. ASSUME NEW d \in Clients
        PROVE  /\ client'[d].conn # Nil => owner'[client'[d].conn] = d
               /\ pc'[d] \in {"unmap", "unreg", "clear"} => client'[d].conn = Nil
    BY <1>3, <1>6, <1>7, <1>71 DEF Sockets
  <2>3. ASSUME NEW d \in Clients, client'[d].conn # Nil, ~client'[d].isConnect
        PROVE  \E q \in Callers : For(q) = d /\ pc'[q] = "establish"
    <3>1. d # c /\ client'[d] = client[d]
      BY <1>6, <2>3
    <3>2. PICK q \in Callers : For(q) = d /\ pc[q] = "establish"
      BY <2>3, <3>1 DEF Sockets
    <3> QED BY <1>2, <1>7, <3>1, <3>2
  <2>4. ASSUME NEW q \in Callers
        PROVE  /\ pc'[q] = "establish" => dialled'[q] # Nil /\ client'[For(q)].conn = dialled'[q]
               /\ pc'[q] = "dial" => client'[For(q)].conn = Nil
    BY <1>3, <1>6, <1>7, <1>71 DEF Sockets
  <2>5. pc'[I] \in {"unmap", "unreg", "clear"} => client'[icl'].conn = Nil
    BY <1>0, <1>1, <1>3, <1>6, <1>7 DEF Sockets, Working, CloseStates
  <2> QED BY <2>1, <2>2, <2>3, <2>4, <2>5 DEF Sockets
<1>11. OneConnector'
  BY <1>0, <1>1, <1>2, <1>3, <1>6, <1>7, <1>71 DEF OneConnector, Working, CloseStates
<1>12. Mapped'
  BY <1>0, <1>1, <1>2, <1>3, <1>6, <1>7, <1>71 DEF Mapped, OneConnector, Working, CloseStates, Shutting
<1>13. Batch'
  BY <1>0, <1>1, <1>3, <1>6, <1>7 DEF Batch, Shutting
<1>14. MapAgrees'
  <2>1. client[c].reconnectCount > 0 \/ p = c
    BY <1>1, <1>2 DEF OneConnector, Callers
  <2>2. \A g \in Fds : clientMap[g] # c
    BY <1>1, <2>1 DEF Mapped
  <2>3. ~FirstLife(c)'
    BY <1>1, <1>6, <1>7, <1>71, <2>1 DEF FirstLife, At
  <2>4. \A d \in Clients : d # c /\ FirstLife(d)' => FirstLife(d)
    BY <1>1, <1>3, <1>6, <1>7, <1>71 DEF FirstLife, Closing, At
  <2> QED BY <1>1, <1>3, <1>6, <1>7, <2>2, <2>3, <2>4 DEF MapAgrees, Shutting
<1>15. ReadIsReady'
  BY <1>0, <1>1, <1>3, <1>6, <1>7 DEF ReadIsReady, Open, At, Working
<1> QED BY <1>8, <1>9, <1>10, <1>11, <1>12, <1>13, <1>14, <1>15

-----------------------------------------------------------------------------
(* AddMapCli.                                                              *)
LEMMA EpollAddIInv ==
  ASSUME IInv, NEW c \in Clients, EpollAdd(c)
  PROVE  IInv'
<1> USE Sorts, Types DEF IInv
<1> DEFINE to == IF EpollClosed THEN "close" ELSE "mapSet"
           f  == client[c].fd
<1>1. /\ pc[c] = "epollAdd" /\ For(c) = c /\ f \in Fds /\ owner[f] = c
      /\ pc' = [pc EXCEPT ![c] = to]
      /\ reg' = IF EpollClosed THEN reg ELSE reg \cup {f}
      /\ UNCHANGED <<owner, inbox, sent, client, clientMap, connectCh, readCh, cancelled,
                     dialled, icl, ready, goOn>>
  <2>1. pc[c] = "epollAdd"
    BY DEF EpollAdd, At
  <2>2. f \in Fds /\ owner[f] = c
    BY <2>1, FieldTypes DEF Mapped
  <2> QED BY <2>1, <2>2 DEF EpollAdd, At, Goto, chanVars, loopVars
<1>0. /\ \A q \in Callers : q # c /\ For(q) = c => pc[q] \in {"idle", "added", "failed", "reset"}
      /\ pc[I] \in Working => icl # c /\ icl \in Clients
  BY <1>1, Alone DEF Control
<1>7. \A q \in Procs : pc'[q] = IF q = c THEN to ELSE pc[q]
  BY <1>1
<1>71. to \in {"close", "mapSet"} /\ (to = "close" <=> EpollClosed) /\ (EpollClosed' <=> EpollClosed)
  BY <1>7 DEF EpollClosed
<1>72. EpollClosed => Shutting
  BY DEF EpollClosed, Shutting
<1> HIDE DEF to
<1>8. TypeOK'
  BY <1>1, <1>71 DEF TypeOK, States
<1>9. Control'
  <2>2. ASSUME NEW d \in Clients
        PROVE  /\ pc'[d] \in {"dial", "establish", "epollAdd", "mapSet", "added", "failed"}
                            \cup CloseStates
               /\ pc'[d] \in CloseStates => EpollClosed'
    BY <1>7, <1>71 DEF Control, CloseStates
  <2>3. \A t \in Tasks : pc'[t] = pc[t]
    BY <1>7
  <2> QED BY <1>0, <1>1, <1>7, <2>2, <2>3 DEF Control
<1>10. Sockets'
  <2>1. \A p \in Callers : pc[p] = "establish" <=> pc'[p] = "establish"
    BY <1>1, <1>7, <1>71
  <2>2. \A d \in Clients : client[d].conn # Nil /\ ~client[d].isConnect =>
          \E p \in Callers : For(p) = d /\ pc'[p] = "establish"
    BY <2>1 DEF Sockets
  <2>3. c \in Clients /\ pc'[c] \in {"close", "mapSet"} /\ pc'[I] = pc[I]
        /\ \A q \in Procs : q # c => pc'[q] = pc[q]
    BY <1>7, <1>71
  <2> QED BY <1>1, <2>1, <2>2, <2>3 DEF Sockets
<1>11. OneConnector'
  BY <1>0, <1>1, <1>7, <1>71 DEF OneConnector
<1>12. Mapped'
  BY <1>0, <1>1, <1>7, <1>71, <1>72 DEF Mapped, Shutting
<1>13. Batch'
  BY <1>0, <1>1, <1>7 DEF Batch, Shutting
<1>14. MapAgrees'
  BY <1>0, <1>1, <1>7, <1>71 DEF MapAgrees, Shutting, FirstLife, Closing, At
<1>15. ReadIsReady'
  BY <1>1, <1>7 DEF ReadIsReady, Open, At
<1> QED BY <1>8, <1>9, <1>10, <1>11, <1>12, <1>13, <1>14, <1>15

LEMMA MapSetIInv ==
  ASSUME IInv, NEW c \in Clients, MapSet(c)
  PROVE  IInv'
<1> USE Sorts, Types DEF IInv
<1> DEFINE f == client[c].fd
<1>1. /\ pc[c] = "mapSet" /\ For(c) = c /\ f \in Fds /\ owner[f] = c
      /\ pc' = [pc EXCEPT ![c] = "added"]
      /\ clientMap' = [clientMap EXCEPT ![f] = c]
      /\ UNCHANGED <<owner, reg, inbox, sent, client, connectCh, readCh, cancelled,
                     dialled, icl, ready, goOn>>
  <2>1. pc[c] = "mapSet"
    BY DEF MapSet, At
  <2>2. f \in Fds /\ owner[f] = c
    BY <2>1, FieldTypes DEF Mapped
  <2> QED BY <2>1, <2>2 DEF MapSet, At, Goto, chanVars, loopVars, kernelVars
<1>0. /\ \A q \in Callers : q # c /\ For(q) = c => pc[q] \in {"idle", "added", "failed", "reset"}
      /\ pc[I] \in Working => icl # c /\ icl \in Clients
  BY <1>1, Alone DEF Control
<1>7. \A q \in Procs : pc'[q] = IF q = c THEN "added" ELSE pc[q]
  BY <1>1
<1>2. \A g \in Fds : clientMap'[g] = IF g = f THEN c ELSE clientMap[g]
  BY <1>1
<1>8. TypeOK'
  BY <1>1 DEF TypeOK, States
<1>9. Control'
  <2>2. ASSUME NEW d \in Clients
        PROVE  /\ pc'[d] \in {"dial", "establish", "epollAdd", "mapSet", "added", "failed"}
                            \cup CloseStates
               /\ pc'[d] \in CloseStates => EpollClosed'
    BY <1>7 DEF Control, CloseStates, EpollClosed
  <2>3. \A t \in Tasks : pc'[t] = pc[t]
    BY <1>7
  <2> QED BY <1>0, <1>1, <1>7, <2>2, <2>3 DEF Control
<1>10. Sockets'
  <2>1. \A p \in Callers : pc[p] = "establish" <=> pc'[p] = "establish"
    BY <1>1, <1>7
  <2> QED BY <1>1, <1>7, <2>1 DEF Sockets
<1>11. OneConnector'
  BY <1>0, <1>1, <1>7 DEF OneConnector
<1>12. Mapped'
  BY <1>0, <1>1, <1>2, <1>7 DEF Mapped, Shutting, Working, CloseStates
<1>13. Batch'
  BY <1>0, <1>1, <1>7 DEF Batch, Shutting
<1>14. MapAgrees'
  BY <1>0, <1>1, <1>2, <1>7, FieldTypes DEF MapAgrees, Mapped, FirstLife, Closing, At, Shutting
<1>15. ReadIsReady'
  BY <1>1, <1>7 DEF ReadIsReady, Open, At
<1> QED BY <1>8, <1>9, <1>10, <1>11, <1>12, <1>13, <1>14, <1>15

-----------------------------------------------------------------------------
(* Close.  I closes a client that has been added, while reconnect timers   *)
(* of it at most wait; AddMapCli closes its own once the epoll is gone.    *)
LEMMA Closer ==
  ASSUME IInv, NEW p \in Clients \cup {I}, pc[p] \in CloseStates \ {"reset"}
  PROVE  /\ Of(p) \in Clients
         /\ p = I => pc[I] \in Working /\ icl = Of(p) /\ pc[Of(p)] = "added" /\ ~Shutting
         /\ p # I => p = Of(p) /\ pc[I] \notin Working /\ Shutting
         /\ \A t \in Connectors : For(t) = Of(p) => pc[t] = "idle" \/ (p = I /\ pc[t] = "armed")
         /\ \A q \in Callers : For(q) = Of(p) => pc[q] \notin {"dial", "establish", "epollAdd", "mapSet"}
         /\ client[Of(p)].conn # Nil => client[Of(p)].isConnect
<1> USE Sorts, Types DEF IInv
<1>1. CASE p = I
  <2>1. icl \in Clients /\ Of(p) = icl /\ pc[I] \in Working /\ pc[icl] = "added" /\ ~Shutting
    BY <1>1, Standing DEF Control, Working, Shutting, CloseStates
  <2>2. \A t \in Connectors : For(t) = icl => pc[t] \in {"idle", "armed"}
    BY <2>1 DEF OneConnector
  <2>3. \A q \in Callers : For(q) = icl => pc[q] \notin {"dial", "establish", "epollAdd", "mapSet"}
    BY <2>1, <2>2 DEF Callers
  <2>4. ASSUME client[icl].conn # Nil, ~client[icl].isConnect PROVE FALSE
    <3>1. PICK q \in Callers : For(q) = icl /\ pc[q] = "establish"
      BY <2>1, <2>4 DEF Sockets
    <3> QED BY <2>3, <3>1
  <2>5. client[icl].conn # Nil => client[icl].isConnect
    BY <2>1, <2>4, FieldTypes
  <2> QED BY <1>1, <2>1, <2>2, <2>3, <2>5
<1>2. CASE p \in Clients
  <2>1. Of(p) = p /\ Shutting /\ pc[I] \notin Working
    BY <1>2, Standing DEF Control, EpollClosed, Shutting, Working, MessageStates, CloseStates
  <2>2. \A t \in Connectors : For(t) = p => pc[t] = "idle"
    BY <1>2 DEF OneConnector, CloseStates
  <2>3. \A q \in Callers : For(q) = p => pc[q] \notin {"dial", "establish", "epollAdd", "mapSet"}
    BY <1>2, <2>2 DEF Callers, CloseStates
  <2>4. ASSUME client[p].conn # Nil, ~client[p].isConnect PROVE FALSE
    <3>1. PICK q \in Callers : For(q) = p /\ pc[q] = "establish"
      BY <1>2, <2>4 DEF Sockets
    <3> QED BY <2>3, <3>1
  <2>5. client[p].conn # Nil => client[p].isConnect
    BY <1>2, <2>4, FieldTypes
  <2> QED BY <1>2, <2>1, <2>2, <2>3, <2>5
<1> QED BY <1>1, <1>2

LEMMA CloseConnIInv ==
  ASSUME IInv, NEW p \in Procs, CloseConn(p)
  PROVE  IInv'
<1> USE Sorts, Types DEF IInv
<1> DEFINE c == Of(p)
           f == client[c].conn
           r == [client[c] EXCEPT !.conn = Nil]
<1>1. p \in Clients \cup {I} /\ pc[p] = "close"
  BY Standing DEF CloseConn, At
<1> HIDE DEF c
<1>2. c = Of(p) /\ c \in Clients
  BY <1>1, Closer DEF c, CloseStates
<1>0. /\ p = I => pc[I] \in Working /\ icl = c /\ pc[c] = "added" /\ ~Shutting
      /\ p # I => p = c /\ pc[I] \notin Working /\ Shutting
      /\ \A q \in Callers : For(q) = c => pc[q] \notin {"dial", "establish", "epollAdd", "mapSet"}
  BY <1>1, <1>2, Closer DEF CloseStates
<1>3. /\ \A g \in Fds : owner'[g] = IF owner[g] = c THEN Nil ELSE owner[g]
      /\ reg' = reg \ {g \in Fds : owner[g] = c}
      /\ f # Nil => inbox' = [inbox EXCEPT ![c] = <<>>]
      /\ f = Nil => inbox' = inbox
      /\ owner' \in [Fds -> Clients \cup {Nil}]
      /\ client' = [client EXCEPT ![c] = r]
      /\ pc' = [pc EXCEPT ![p] = "unmap"]
      /\ UNCHANGED <<sent, clientMap, connectCh, readCh, cancelled, dialled, icl, ready, goOn>>
  <2>1. /\ pc' = [pc EXCEPT ![p] = "unmap"]
        /\ UNCHANGED <<sent, clientMap, connectCh, readCh, cancelled, dialled, icl, ready, goOn>>
    BY DEF CloseConn, Goto, chanVars, loopVars
  <2>2. CASE f = Nil
    <3>1. owner' = owner /\ reg' = reg /\ inbox' = inbox /\ client' = client
      BY <1>2, <2>2 DEF CloseConn
    <3>2. ASSUME NEW g \in Fds, owner[g] = c PROVE FALSE
      BY <1>2, <2>2, <3>2 DEF Sockets
    <3>3. r = client[c]
      BY <1>2, <2>2, FieldTypes DEF Fields
    <3>4. /\ \A g \in Fds : owner'[g] = IF owner[g] = c THEN Nil ELSE owner[g]
          /\ reg' = reg \ {g \in Fds : owner[g] = c}
      BY <3>1, <3>2
    <3> QED BY <1>2, <2>1, <2>2, <3>1, <3>3, <3>4
  <2>3. CASE f # Nil
    <3>1. client[c].isConnect /\ f \in Fds
      BY <1>1, <1>2, <2>3, Closer, FieldTypes DEF CloseStates
    <3>2. /\ owner' = [owner EXCEPT ![f] = Nil] /\ reg' = reg \ {f}
          /\ inbox' = [inbox EXCEPT ![c] = <<>>] /\ client' = [client EXCEPT ![c] = r]
      BY <1>2, <2>3, <3>1 DEF CloseConn
    <3>3. \A g \in Fds : owner[g] = c <=> g = f
      BY <1>2, <2>3, <3>1 DEF Sockets
    <3> QED BY <2>1, <2>3, <3>1, <3>2, <3>3
  <2> QED BY <2>2, <2>3
<1>4. r \in Fields /\ r.conn = Nil /\ Keep(r, client[c], {"conn"})
  BY <1>2, SetConn
<1> HIDE DEF r, f
<1>5. client' \in [Clients -> Fields] /\ Updated(c, r, {"conn"})
  BY <1>2, <1>3, <1>4, Update
<1>6. /\ client'[c].conn = Nil
      /\ \A d \in Clients : /\ d # c => client'[d] = client[d]
                            /\ client'[d].fd = client[d].fd
                            /\ client'[d].isConnect = client[d].isConnect
                            /\ client'[d].reconnectCount = client[d].reconnectCount
                            /\ client'[d].connectTimer = client[d].connectTimer
                            /\ client'[d].cache = client[d].cache
  BY <1>4, <1>5 DEF Updated, Keep
<1>7. \A q \in Procs : pc'[q] = IF q = p THEN "unmap" ELSE pc[q]
  BY <1>3
<1>8. TypeOK'
  <2>1. pc' \in [Procs -> States]
    BY <1>3 DEF States
  <2>2. inbox' \in [Clients -> Seq(Msgs \cup {"eof"})]
    <3>1. CASE f = Nil
      BY <1>3, <3>1
    <3>2. CASE f # Nil
      <4>1. inbox' = [inbox EXCEPT ![c] = <<>>]
        BY <1>3, <3>2
      <4> QED BY ONLY <1>2, <4>1, TypeOK, <<>> \in Seq(Msgs \cup {"eof"}) DEF TypeOK
    <3> QED BY <3>1, <3>2
  <2> QED BY <1>3, <1>5, <2>1, <2>2 DEF TypeOK
<1>9. Control'
  BY <1>0, <1>1, <1>2, <1>3, <1>6, <1>7, SMTT(40)
     DEF Control, Working, CloseStates, MessageStates, EpollClosed
<1>10. Sockets'
  <2>1. ASSUME NEW d \in Clients, client'[d].conn # Nil, ~client'[d].isConnect
        PROVE  \E q \in Callers : For(q) = d /\ pc'[q] = "establish"
    <3>1. client[d].conn # Nil /\ ~client[d].isConnect
      BY <1>6, <2>1
    <3>2. PICK q \in Callers : For(q) = d /\ pc[q] = "establish"
      BY <3>1 DEF Sockets
    <3> QED BY <1>1, <1>7, <3>2
  <2>2. ASSUME NEW d \in Clients
        PROVE  /\ client'[d].conn # Nil => owner'[client'[d].conn] = d
               /\ pc'[d] \in {"unmap", "unreg", "clear"} => client'[d].conn = Nil
    BY <1>0, <1>1, <1>3, <1>6, <1>7, FieldTypes DEF Sockets
  <2>3. \A g \in Fds : owner'[g] # Nil => client'[owner'[g]].conn = g
    BY <1>2, <1>3, <1>6 DEF Sockets
  <2>4. ASSUME NEW q \in Callers
        PROVE  /\ pc'[q] = "establish" => dialled'[q] # Nil /\ client'[For(q)].conn = dialled'[q]
               /\ pc'[q] = "dial" => client'[For(q)].conn = Nil
    BY <1>0, <1>3, <1>6, <1>7 DEF Sockets
  <2>5. pc'[I] \in {"unmap", "unreg", "clear"} => client'[icl'].conn = Nil
    BY <1>0, <1>3, <1>6, <1>7 DEF Working, CloseStates
  <2> QED BY <2>1, <2>2, <2>3, <2>4, <2>5 DEF Sockets
<1>11. OneConnector'
  BY <1>0, <1>1, <1>2, <1>3, <1>6, <1>7, Closer DEF OneConnector, Working, CloseStates
<1>12. Mapped'
  BY <1>0, <1>1, <1>2, <1>3, <1>6, <1>7, FieldTypes DEF Mapped, Working, CloseStates, Shutting
<1>13. Batch'
  <2>1. pc'[I] \in Working => pc[I] \in Working /\ icl \in Clients
    BY <1>0, <1>7 DEF Control
  <2>2. ~Shutting' => ~Shutting
    BY <1>1, <1>7 DEF Shutting
  <2>3. ASSUME pc[I] \in Working
        PROVE  /\ client'[icl].fd # Nil /\ client'[icl].fd \notin ready
               /\ owner'[client'[icl].fd] \in {Nil, icl}
               /\ client'[icl].conn \in {Nil, client'[icl].fd}
    BY <1>3, <1>6, <2>1, <2>3, FieldTypes DEF Batch, Control
  <2>4. ASSUME ~Shutting, NEW g \in ready PROVE owner'[g] # Nil /\ inbox'[owner'[g]] # <<>>
    <3>1. icl = c /\ g # client[c].fd /\ owner[g] # Nil
      BY <1>0, <2>4 DEF Batch
    <3>2. owner[g] # c
      BY <1>0, <1>2, <2>4, <3>1 DEF Batch, Sockets
    <3> QED BY <1>3, <2>4, <3>1, <3>2 DEF Batch
  <2> QED BY <1>3, <2>1, <2>2, <2>3, <2>4 DEF Batch
<1>14. MapAgrees'
  <2>1. \A g \in Fds : clientMap'[g] # Nil => client'[clientMap'[g]].fd = g
    BY <1>3, <1>6 DEF MapAgrees
  <2>2. ASSUME NEW d \in Clients, FirstLife(d)', ~Shutting'
        PROVE  FirstLife(d) /\ ~Shutting /\ d # c
    BY <1>0, <1>1, <1>3, <1>6, <1>7, <2>2 DEF FirstLife, Closing, At, Shutting
  <2>3. ASSUME NEW d \in Clients, FirstLife(d), ~Shutting, d # c
        PROVE  LET g == client'[d].fd IN owner'[g] = d /\ clientMap'[g] = d /\ g \in reg'
    BY <1>3, <1>6, <2>3, FieldTypes DEF MapAgrees, Shutting
  <2> QED BY <2>1, <2>2, <2>3 DEF MapAgrees, Shutting
<1>15. ReadIsReady'
  BY <1>0, <1>1, <1>3, <1>6, <1>7 DEF ReadIsReady, Open, At, Working
<1> QED BY <1>8, <1>9, <1>10, <1>11, <1>12, <1>13, <1>14, <1>15

(* The steps of Close between conn.Close and startReConnectTimer.          *)
Onward(p) ==
  LET c == Of(p) IN
  /\ UNCHANGED <<owner, inbox, dialled, icl, ready, goOn>>
  /\ <<pc[p], pc'[p]>> \in
       {<<"unmap", "unreg">>, <<"unreg", "clear">>, <<"clear", "stopHeartClosed">>,
        <<"stopHeartClosed", "clearHeartClosed">>, <<"clearHeartClosed", "stopConnect">>,
        <<"clearHeartClosed", "reset">>}
  /\ \A q \in Procs \ {p} :
       pc'[q] = pc[q] \/ (q \in Tasks /\ pc[q] = "armed" /\ pc'[q] = "idle")
  /\ \A d \in Clients :
       /\ Keep(client'[d], client[d], {"isConnect"})
       /\ d # c \/ pc[p] # "clear" => client'[d].isConnect = client[d].isConnect
       /\ d = c /\ pc[p] = "clear" => ~client'[d].isConnect
  /\ \A f \in Fds :
       clientMap'[f] = IF pc[p] = "unmap" /\ f = client[c].fd THEN Nil ELSE clientMap[f]
  /\ \A f \in Fds : f # client[c].fd => (f \in reg' <=> f \in reg)

LEMMA OnwardSteps ==
  ASSUME IInv, NEW p \in Clients \cup {I}, Onward(p)
  PROVE  Control' /\ Sockets' /\ OneConnector' /\ Mapped' /\ Batch' /\ MapAgrees' /\ ReadIsReady'
<1> USE Sorts, Types DEF IInv
<1> DEFINE c == Of(p)
<1> HIDE DEF c
<1>1. /\ pc[p] \in {"unmap", "unreg", "clear", "stopHeartClosed", "clearHeartClosed"}
      /\ pc'[p] \in {"unreg", "clear", "stopHeartClosed", "clearHeartClosed", "stopConnect", "reset"}
      /\ pc[p] = "unmap" <=> pc'[p] = "unreg"
      /\ pc[p] = "unreg" <=> pc'[p] = "clear"
      /\ pc[p] = "clear" <=> pc'[p] = "stopHeartClosed"
  BY DEF Onward
<1>2. c = Of(p) /\ c \in Clients
  BY <1>1, Closer DEF c, CloseStates
<1>0. /\ p = I => pc[I] \in Working /\ icl = c /\ pc[c] = "added" /\ ~Shutting
      /\ p # I => p = c /\ pc[I] \notin Working /\ Shutting
      /\ \A t \in Connectors : For(t) = c => pc[t] = "idle" \/ (p = I /\ pc[t] = "armed")
      /\ \A q \in Callers : For(q) = c => pc[q] \notin {"dial", "establish", "epollAdd", "mapSet"}
  BY <1>1, <1>2, Closer DEF CloseStates
<1>3. UNCHANGED <<owner, inbox, dialled, icl, ready, goOn>>
  BY DEF Onward
<1>4. \A d \in Clients : /\ client'[d].conn = client[d].conn
                         /\ client'[d].fd = client[d].fd
                         /\ client'[d].reconnectCount = client[d].reconnectCount
                         /\ client'[d].connectTimer = client[d].connectTimer
                         /\ client'[d].cache = client[d].cache
                         /\ d # c \/ pc[p] # "clear" => client'[d].isConnect = client[d].isConnect
                         /\ d = c /\ pc[p] = "clear" => ~client'[d].isConnect
  BY <1>2 DEF Onward, Keep
<1>5. /\ \A f \in Fds : clientMap'[f] = IF pc[p] = "unmap" /\ f = client[c].fd THEN Nil ELSE clientMap[f]
      /\ \A f \in Fds : f # client[c].fd => (f \in reg' <=> f \in reg)
  BY <1>2 DEF Onward
<1>6. /\ \A q \in Clients \cup {I} : q # p => pc'[q] = pc[q]
      /\ \A t \in Tasks : pc'[t] = pc[t] \/ (pc[t] = "armed" /\ pc'[t] = "idle")
  BY DEF Onward
<1>7. (EpollClosed' <=> EpollClosed) /\ (Shutting' <=> Shutting) /\ (pc'[I] \in Working <=> pc[I] \in Working)
  BY <1>1, <1>6 DEF EpollClosed, Shutting, Working, CloseStates
<1>8. pc[p] \in {"unmap", "unreg", "clear"} => client[c].conn = Nil
  BY <1>0, <1>1 DEF Sockets
<1>9. Control'
  <2>1. ASSUME NEW d \in Clients
        PROVE  /\ pc'[d] \in {"dial", "establish", "epollAdd", "mapSet", "added", "failed"}
                            \cup CloseStates
               /\ pc'[d] \in CloseStates => EpollClosed'
    BY <1>1, <1>6, <1>7 DEF Control, CloseStates
  <2>2. \A t \in Tasks :
          pc'[t] \in IF t[2] = "connect"
                     THEN {"idle", "armed", "sleep", "reconnect", "dial", "establish",
                           "stopConnect", "armConnect"}
                     ELSE {"idle", "armed", "check", "stopHeart", "clearHeart", "armHeart"}
    BY <1>6 DEF Control
  <2>3. /\ pc'[I] \in {"wait", "next", "instClose", "closeChans", "stopWheel", "stuck", "ended"} \cup Working
        /\ pc'[I] \in Working => icl' # Nil /\ pc'[icl'] = "added"
        /\ pc'[I] \in MessageStates \/ (pc'[I] \in CloseStates /\ goOn') => client'[icl'].cache # <<>>
    BY <1>0, <1>1, <1>3, <1>4, <1>6 DEF Control, Working, CloseStates, MessageStates
  <2> QED BY <2>1, <2>2, <2>3 DEF Control
<1>10. Sockets'
  <2>1. ASSUME NEW g \in Fds, owner'[g] # Nil PROVE client'[owner'[g]].conn = g
    <3>1. owner'[g] = owner[g] /\ owner[g] \in Clients
      BY <1>3, <2>1
    <3>2. client[owner[g]].conn = g
      BY <3>1 DEF Sockets
    <3> QED BY <1>4, <3>1, <3>2
  <2>2. \A q \in Callers : /\ pc'[q] = "establish" <=> pc[q] = "establish"
                           /\ pc'[q] = "dial" <=> pc[q] = "dial"
    BY <1>1, <1>6
  <2>3. ASSUME NEW d \in Clients, client'[d].conn # Nil, ~client'[d].isConnect
        PROVE  \E q \in Callers : For(q) = d /\ pc'[q] = "establish"
    <3>1. ~client[d].isConnect
      BY <1>4, <1>8, <2>3
    <3>2. PICK q \in Callers : For(q) = d /\ pc[q] = "establish"
      BY <1>4, <2>3, <3>1 DEF Sockets
    <3> QED BY <2>2, <3>2
  <2>4. ASSUME NEW d \in Clients
        PROVE  /\ client'[d].conn # Nil => owner'[client'[d].conn] = d
               /\ pc'[d] \in {"unmap", "unreg", "clear"} => client'[d].conn = Nil
    BY <1>0, <1>1, <1>3, <1>4, <1>6, <1>8 DEF Sockets
  <2>5. ASSUME NEW q \in Callers
        PROVE  /\ pc'[q] = "establish" => dialled'[q] # Nil /\ client'[For(q)].conn = dialled'[q]
               /\ pc'[q] = "dial" => client'[For(q)].conn = Nil
    <3>1. For(q) \in Clients /\ client'[For(q)].conn = client[For(q)].conn
      BY <1>4
    <3> QED BY <1>3, <2>2, <3>1 DEF Sockets
  <2>6. pc'[I] \in {"unmap", "unreg", "clear"} => client'[icl'].conn = Nil
    BY <1>0, <1>1, <1>2, <1>3, <1>4, <1>6, <1>8, <1>7 DEF Working, CloseStates
  <2> QED BY <2>1, <2>3, <2>4, <2>5, <2>6 DEF Sockets
<1>11. OneConnector'
  <2>1. \A t \in Connectors : pc'[t] \in {pc[t], "idle"}
    BY <1>6
  <2>2. ASSUME NEW t \in Connectors, pc'[t] # "idle"
        PROVE  /\ pc'[t] = pc[t]
               /\ client'[For(t)].reconnectCount > 0
               /\ pc'[For(t)] \in {"added", "failed", "reset"}
               /\ pc'[t] = "armed" => client'[For(t)].connectTimer = t
               /\ pc'[I] \in Working /\ icl' = For(t) => pc'[t] = "armed" /\ pc'[I] # "armConnect"
    <3>1. pc'[t] = pc[t]
      BY <2>1, <2>2
    <3>2. pc'[For(t)] = pc[For(t)]
      BY <1>0, <1>6, <2>2, <3>1
    <3> QED BY <1>1, <1>3, <1>4, <1>6, <1>7, <2>2, <3>1, <3>2 DEF OneConnector
  <2>3. /\ \A d \in Clients : pc'[d] = "armConnect" => client'[d].reconnectCount > 0
        /\ pc'[I] = "armConnect" => client'[icl'].reconnectCount > 0
    <3>1. \A d \in Clients : pc'[d] = "armConnect" => pc[d] = "armConnect"
      BY <1>1, <1>6
    <3>2. pc'[I] = "armConnect" => pc[I] = "armConnect" /\ icl \in Clients
      BY <1>1, <1>6 DEF Control, Working, CloseStates
    <3> QED BY <1>3, <1>4, <3>1, <3>2 DEF OneConnector
  <2> QED BY <2>1, <2>2, <2>3 DEF OneConnector
<1>12. Mapped'
  <2>1. ASSUME NEW d \in Clients
        PROVE  /\ pc'[d] \in {"dial", "establish", "epollAdd", "mapSet"} => client'[d].reconnectCount = 0
               /\ pc'[d] \in {"epollAdd", "mapSet"} =>
                    /\ client'[d].fd # Nil /\ owner'[client'[d].fd] = d /\ client'[d].isConnect
                    /\ pc'[d] = "mapSet" /\ ~Shutting' => client'[d].fd \in reg'
    <3>1. CASE d = c
      BY <1>0, <1>1, <1>6, <3>1
    <3>2. CASE d # c
      <4>1. pc'[d] = pc[d]
        BY <1>0, <1>6, <3>2
      <4>2. ASSUME pc[d] = "mapSet", ~Shutting PROVE client[d].fd # client[c].fd /\ client[d].fd \in Fds
        <5>1. client[c].fd # Nil /\ owner[client[c].fd] \in {Nil, c} /\ owner[client[d].fd] = d /\ client[d].fd # Nil
          BY <1>0, <4>2 DEF Batch, Mapped
        <5> QED BY <1>2, <3>2, <5>1, FieldTypes
      <4>3. /\ client'[d].fd = client[d].fd /\ client'[d].isConnect = client[d].isConnect
            /\ client'[d].reconnectCount = client[d].reconnectCount
            /\ pc[d] = "mapSet" /\ ~Shutting /\ client[d].fd \in reg => client[d].fd \in reg'
        BY <1>4, <1>5, <3>2, <4>2
      <4> QED BY <1>3, <1>7, <4>1, <4>3 DEF Mapped
    <3> QED BY <3>1, <3>2
  <2>2. ASSUME NEW f \in Fds, clientMap'[f] # Nil
        PROVE  LET d == clientMap'[f]
               IN /\ pc'[d] = "added" /\ client'[d].fd = f
                  /\ client'[d].isConnect /\ client'[d].reconnectCount = 0
    <3>1. clientMap'[f] = clientMap[f] /\ clientMap[f] \in Clients
      BY <1>5, <2>2
    <3>2. pc[clientMap[f]] = "added"
      BY <3>1 DEF Mapped
    <3>3. pc[p] = "clear" => clientMap[f] # c
      BY <1>0, <1>1, <3>2 DEF Mapped
    <3> QED BY <1>0, <1>1, <1>4, <1>6, <3>1, <3>2, <3>3 DEF Mapped
  <2>3. pc'[I] \in {"unreg", "clear"} => \A f \in Fds : clientMap'[f] # icl'
    BY <1>0, <1>1, <1>2, <1>3, <1>5, <1>6 DEF Mapped, Working, CloseStates
  <2>4. pc'[I] \in {"stopHeartClosed", "clearHeartClosed", "stopConnect", "armConnect", "reset"} => ~client'[icl'].isConnect
    BY <1>0, <1>1, <1>2, <1>3, <1>4, <1>6 DEF Mapped, Working, CloseStates
  <2> QED BY <2>1, <2>2, <2>3, <2>4 DEF Mapped
<1>13. Batch'
  BY <1>3, <1>4, <1>7 DEF Batch, Control
<1>14. MapAgrees'
  <2>1. ASSUME NEW d \in Clients, FirstLife(d)', ~Shutting'
        PROVE  FirstLife(d) /\ ~Shutting /\ d # c
    BY <1>0, <1>1, <1>3, <1>4, <1>6, <1>7, <2>1 DEF FirstLife, Closing, At, Mapped
  <2>2. ASSUME NEW d \in Clients, FirstLife(d), ~Shutting, d # c
        PROVE  LET g == client'[d].fd IN owner'[g] = d /\ clientMap'[g] = d /\ g \in reg'
    <3>1. client[d].fd \in Fds /\ owner[client[d].fd] = d /\ clientMap[client[d].fd] = d /\ client[d].fd \in reg
      BY <2>2 DEF MapAgrees, Shutting
    <3>2. client[d].fd # client[c].fd
      BY <1>0, <2>2, <3>1 DEF Batch
    <3> QED BY <1>3, <1>4, <1>5, <3>1, <3>2
  <2>3. ASSUME NEW g \in Fds, clientMap'[g] # Nil PROVE client'[clientMap'[g]].fd = g
    <3>1. clientMap'[g] = clientMap[g] /\ clientMap[g] \in Clients
      BY <1>5, <2>3
    <3>2. client[clientMap[g]].fd = g
      BY <3>1 DEF MapAgrees
    <3> QED BY <1>4, <3>1, <3>2
  <2> QED BY <2>1, <2>2, <2>3 DEF MapAgrees, Shutting
<1>15. ReadIsReady'
  BY <1>1, <1>3, <1>6, <1>4 DEF ReadIsReady, Open, At, Control, Working
<1> QED BY <1>9, <1>10, <1>11, <1>12, <1>13, <1>14, <1>15

(* Nobody but tasks changes a type when it stops a timer.                  *)
LEMMA StoppedTimer ==
  ASSUME TypeOK, NEW p \in Procs, NEW t \in Tasks \cup {Nil}, NEW s \in States,
         pc' \in Stopped(t, [pc EXCEPT ![p] = s]), pc[p] # "armed"
  PROVE  /\ pc' \in [Procs -> States]
         /\ pc'[p] = s
         /\ \A q \in Procs \ {p} :
              pc'[q] = pc[q] \/ (q = t /\ q \in Tasks /\ pc[q] = "armed" /\ pc'[q] = "idle")
<1> USE Sorts, Types
<1> DEFINE next == [pc EXCEPT ![p] = s]
<1>1. next \in [Procs -> States] /\ next[p] = s /\ \A q \in Procs \ {p} : next[q] = pc[q]
  OBVIOUS
<1>2. pc' = next \/ (t # Nil /\ pc[t] = "armed" /\ pc' = [next EXCEPT ![t] = "idle"])
  BY DEF Stopped
<1> HIDE DEF next
<1>3. CASE pc' = next
  BY <1>1, <1>3
<1>4. CASE t # Nil /\ pc[t] = "armed" /\ pc' = [next EXCEPT ![t] = "idle"]
  BY <1>1, <1>4 DEF States
<1> QED BY <1>2, <1>3, <1>4

LEMMA OnwardIInv ==
  ASSUME IInv, NEW p \in Procs,
         \/ Unmap(p) \/ Unregister(p) \/ ClearConnect(p)
         \/ StopHeart(p) /\ pc[p] = "stopHeartClosed"
         \/ ClearHeart(p) /\ pc[p] = "clearHeartClosed"
  PROVE  IInv'
<1> USE Sorts, Types DEF IInv
<1>1. /\ p \in Clients \cup {I} /\ Of(p) \in Clients
      /\ pc[p] \in {"unmap", "unreg", "clear", "stopHeartClosed", "clearHeartClosed"}
  <2>1. pc[p] \in {"unmap", "unreg", "clear", "stopHeartClosed", "clearHeartClosed"}
    BY DEF Unmap, Unregister, ClearConnect, At
  <2>2. p \in Clients \cup {I}
    BY <2>1, Standing
  <2> QED BY <2>1, <2>2, Closer DEF CloseStates
<1> SUFFICES TypeOK' /\ Onward(p)
  BY <1>1, OnwardSteps
<1>2. \A d \in Clients : Keep(client[d], client[d], {"isConnect"})
  BY DEF Keep
<1>3. CASE Unmap(p)
  <2>1. Onward(p)
    BY <1>1, <1>2, <1>3 DEF Unmap, Onward, At, Goto, kernelVars, loopVars
  <2>2. TypeOK'
    BY <1>1, <1>3 DEF Unmap, TypeOK, At, Goto, kernelVars, loopVars, chanVars, States
  <2> QED BY <2>1, <2>2
<1>4. CASE Unregister(p)
  <2>1. Onward(p)
    BY <1>1, <1>2, <1>4 DEF Unregister, Onward, At, Goto, loopVars
  <2>2. TypeOK'
    BY <1>1, <1>4 DEF Unregister, TypeOK, At, Goto, loopVars, chanVars, States
  <2> QED BY <2>1, <2>2
<1>5. CASE ClearConnect(p)
  <2> DEFINE r == [client[Of(p)] EXCEPT !.isConnect = FALSE]
  <2>1. r \in Fields /\ r.isConnect = FALSE /\ Keep(r, client[Of(p)], {"isConnect"})
    BY <1>1, SetClosed, FieldTypes
  <2>2. client' = [client EXCEPT ![Of(p)] = r]
    BY <1>1, <1>5 DEF ClearConnect
  <2> HIDE DEF r
  <2>3. client' \in [Clients -> Fields] /\ Updated(Of(p), r, {"isConnect"})
    BY <1>1, <2>1, <2>2, Update
  <2>6. pc[p] = "clear"
    BY <1>5 DEF ClearConnect, At
  <2>9. ASSUME NEW d \in Clients
        PROVE  /\ Keep(client'[d], client[d], {"isConnect"})
               /\ d # Of(p) => client'[d] = client[d]
               /\ d = Of(p) => client'[d] = r
    BY ONLY <2>3, d \in Clients DEF Updated
  <2>7. /\ pc' = [pc EXCEPT ![p] = "stopHeartClosed"]
        /\ UNCHANGED <<owner, reg, inbox, clientMap, dialled, icl, ready, goOn>>
    BY <1>5 DEF ClearConnect, Goto, kernelVars, loopVars
  <2>8. pc'[p] = "stopHeartClosed" /\ \A q \in Procs \ {p} : pc'[q] = pc[q]
    BY <2>7
  <2>4. Onward(p)
    <3>1. /\ UNCHANGED <<owner, inbox, dialled, icl, ready, goOn>>
          /\ \A q \in Procs \ {p} :
               pc'[q] = pc[q] \/ (q \in Tasks /\ pc[q] = "armed" /\ pc'[q] = "idle")
          /\ \A f \in Fds : clientMap'[f] = clientMap[f]
          /\ \A f \in Fds : f \in reg' <=> f \in reg
      BY ONLY <2>7, <2>8
    <3>2. <<pc[p], pc'[p]>> = <<"clear", "stopHeartClosed">>
      BY ONLY <2>6, <2>8
    <3>3. ASSUME NEW d \in Clients
          PROVE  /\ Keep(client'[d], client[d], {"isConnect"})
                 /\ d # Of(p) \/ pc[p] # "clear" => client'[d].isConnect = client[d].isConnect
                 /\ d = Of(p) /\ pc[p] = "clear" => ~client'[d].isConnect
      <4>1. Keep(client'[d], client[d], {"isConnect"})
        BY ONLY <2>9, d \in Clients
      <4>2. CASE d # Of(p)
        <5>1. client'[d] = client[d]
          BY ONLY <2>9, <4>2, d \in Clients
        <5> QED BY ONLY <5>1, <4>1, <4>2
      <4>3. CASE d = Of(p)
        <5>1. client'[d] = r
          BY ONLY <2>9, <4>3, d \in Clients
        <5>2. ~client'[d].isConnect
          BY ONLY <2>1, <5>1
        <5> QED BY ONLY <5>2, <4>1, <4>3, <2>6
      <4> QED BY ONLY <4>2, <4>3
    <3> QED BY ONLY <2>6, <3>1, <3>2, <3>3 DEF Onward
  <2>5. TypeOK'
    BY <1>1, <1>5, <2>3 DEF ClearConnect, TypeOK, At, Goto, kernelVars, loopVars, chanVars, States
  <2> QED BY <2>4, <2>5
<1>6. CASE StopHeart(p) /\ pc[p] = "stopHeartClosed"
  <2>1. /\ pc' \in Stopped(client[Of(p)].heartTimer, [pc EXCEPT ![p] = "clearHeartClosed"])
        /\ UNCHANGED <<owner, reg, inbox, sent, client, clientMap, connectCh, readCh, cancelled,
                       dialled, icl, ready, goOn>>
    BY <1>6 DEF StopHeart, At, kernelVars, loopVars, chanVars
  <2>2. /\ pc' \in [Procs -> States] /\ pc'[p] = "clearHeartClosed"
        /\ \A q \in Procs \ {p} :
             pc'[q] = pc[q] \/ (q \in Tasks /\ pc[q] = "armed" /\ pc'[q] = "idle")
    <3> DEFINE t == client[Of(p)].heartTimer
    <3>1. t \in Tasks \cup {Nil} /\ pc[p] # "armed" /\ "clearHeartClosed" \in States
      BY <1>1, <1>6, FieldTypes DEF States
    <3>2. pc' \in Stopped(t, [pc EXCEPT ![p] = "clearHeartClosed"])
      BY <2>1
    <3> HIDE DEF t
    <3> QED BY ONLY TypeOK, p \in Procs, <3>1, <3>2, StoppedTimer
  <2>3. Onward(p)
    BY <1>1, <1>2, <1>6, <2>1, <2>2 DEF Onward
  <2>4. TypeOK'
    BY <2>1, <2>2 DEF TypeOK
  <2> QED BY <2>3, <2>4
<1>7. CASE ClearHeart(p) /\ pc[p] = "clearHeartClosed"
  <2> DEFINE r == [client[Of(p)] EXCEPT !.heartTimer = Nil]
             to == IF client[Of(p)].needReconnectFlag THEN "stopConnect" ELSE "reset"
  <2>1. r \in Fields /\ Keep(r, client[Of(p)], {})
    BY <1>1, SetQuietly, ZenonT(30)
  <2>2. /\ client' = [client EXCEPT ![Of(p)] = r]
        /\ pc' = [pc EXCEPT ![p] = to]
        /\ UNCHANGED <<owner, reg, inbox, sent, clientMap, connectCh, readCh, cancelled, dialled,
                       icl, ready, goOn>>
    BY <1>1, <1>7 DEF ClearHeart, At, Goto, kernelVars, loopVars, chanVars
  <2>3. to \in {"stopConnect", "reset"} /\ to \in States
    BY DEF States
  <2> HIDE DEF r, to
  <2>4. client' \in [Clients -> Fields] /\ Updated(Of(p), r, {})
    BY <1>1, <2>1, <2>2, Update
  <2>5. /\ pc' \in [Procs -> States] /\ pc'[p] = to
        /\ \A q \in Procs \ {p} : pc'[q] = pc[q]
    BY <2>2, <2>3
  <2>6. \A d \in Clients : /\ Keep(client'[d], client[d], {"isConnect"})
                           /\ client'[d].isConnect = client[d].isConnect
    BY <2>4 DEF Updated, Keep
  <2>7. Onward(p)
    BY <1>1, <1>7, <2>2, <2>3, <2>5, <2>6 DEF Onward
  <2>8. TypeOK'
    BY <2>2, <2>4, <2>5 DEF TypeOK
  <2> QED BY <2>7, <2>8
<1> QED BY <1>3, <1>4, <1>5, <1>6, <1>7

-----------------------------------------------------------------------------
(* startReConnectTimer: the old timer is gone before the new one is armed, *)
(* and a client that counts reconnects is in the map no more.              *)
Alarm(p) ==
  LET c == Of(p) IN
  /\ UNCHANGED <<owner, reg, inbox, clientMap, dialled, icl, ready, goOn>>
  /\ \A d \in Clients : /\ Keep(client'[d], client[d], {"connectTimer", "reconnectCount"})
                        /\ d # c => client'[d] = client[d]
  /\ client'[c].reconnectCount > 0
  /\ \/ pc[p] = "stopConnect" /\ pc'[p] = "armConnect"
     \/ pc[p] = "armConnect" /\ p \in Tasks /\ pc'[p] \in {"idle", "armed"}
     \/ pc[p] = "armConnect" /\ p \notin Tasks /\ pc'[p] = "reset"
  /\ \A q \in Procs \ {p} :
       pc'[q] = pc[q] \/ (q \in Tasks /\ pc'[q] \in {"idle", "armed"} /\ pc[q] \in {"idle", "armed"})
  /\ \E s \in Tasks \cup {p} : \A t \in Connectors :
       For(t) = c /\ pc'[t] # "idle" =>
         /\ t = s
         /\ \/ t = p /\ pc'[t] = "armConnect"
            \/ pc'[t] = "armed" /\ client'[c].connectTimer = t /\ pc[p] = "armConnect"
  /\ \A t \in Connectors : For(t) # c => pc'[t] \in {pc[t], "idle"}

(* Who arms the timer of a client is alone with it.                        *)
LEMMA Armer ==
  ASSUME IInv, NEW p \in Procs, pc[p] \in {"stopConnect", "armConnect"}
  PROVE  /\ p \in Callers \cup {I} /\ Of(p) \in Clients
         /\ p = I => pc[I] \in Working /\ icl = Of(p) /\ pc[Of(p)] = "added" /\ ~Shutting
         /\ p # I => Of(p) = For(p) /\ (pc[I] \in Working => icl # Of(p))
         /\ \A t \in Connectors :
              For(t) = Of(p) /\ t # p => \/ pc[t] = "idle"
                                         \/ p = I /\ pc[t] = "armed" /\ pc[p] = "stopConnect"
         /\ \A q \in Callers : For(q) = Of(p) => pc[q] \notin {"dial", "establish", "epollAdd", "mapSet"}
         /\ pc[Of(p)] \in {"added", "failed", "reset"} \/ Of(p) = p
         /\ \A f \in Fds : clientMap[f] = Of(p) => client[Of(p)].reconnectCount > 0
<1> USE Sorts, Types DEF IInv
<1>1. p \in Callers \cup {I}
  BY Standing
<1>2. CASE p = I
  <2>4. p \in Clients \cup {I} /\ pc[p] \in CloseStates \ {"reset"}
    BY <1>2 DEF CloseStates
  <2>5. Of(p) = icl
    BY <1>2 DEF Of
  <2>1. /\ icl \in Clients /\ Of(p) = icl /\ pc[I] \in Working /\ pc[icl] = "added" /\ ~Shutting
        /\ \A t \in Connectors : For(t) = icl => pc[t] = "idle" \/ pc[t] = "armed"
        /\ \A q \in Callers : For(q) = icl => pc[q] \notin {"dial", "establish", "epollAdd", "mapSet"}
    BY ONLY <1>2, <2>4, <2>5, IInv, Closer
  <2>2. \A t \in Connectors : For(t) = icl => pc[t] = "idle" \/ pc[p] = "stopConnect"
    BY <1>2, <2>1 DEF OneConnector
  <2>3. \A f \in Fds : clientMap[f] # icl
    BY <1>2, <2>1 DEF Mapped
  <2> QED BY <1>1, <1>2, <2>1, <2>2, <2>3
<1>3. CASE p \in Callers
  <2>1. /\ \A q \in Callers : q # p /\ For(q) = For(p) => pc[q] \in {"idle", "added", "failed", "reset"}
        /\ pc[I] \in Working => icl # For(p)
    BY <1>3, Alone
  <2>2. Of(p) = For(p) /\ For(p) \in Clients /\ p # I
    BY <1>3, Standing
  <2>3. \A t \in Connectors : For(t) = For(p) /\ t # p => pc[t] = "idle"
    <3>1. \A t \in Connectors : pc[t] \notin {"added", "failed", "reset"}
      BY DEF Control
    <3> QED BY <2>1, <3>1
  <2>4. \A q \in Callers : For(q) = For(p) => pc[q] \notin {"dial", "establish", "epollAdd", "mapSet"}
    BY <2>1
  <2>5. p \in Connectors => pc[For(p)] \in {"added", "failed", "reset"} /\ client[For(p)].reconnectCount > 0
    BY DEF OneConnector
  <2>6. p \in Clients => For(p) = p /\ \A f \in Fds : clientMap[f] # p
    BY DEF Mapped
  <2> QED BY <1>1, <1>3, <2>1, <2>2, <2>3, <2>4, <2>5, <2>6 DEF Callers
<1> QED BY <1>1, <1>2, <1>3

LEMMA AlarmSteps ==
  ASSUME IInv, NEW p \in Procs, Alarm(p)
  PROVE  Control' /\ Sockets' /\ OneConnector' /\ Mapped' /\ Batch' /\ MapAgrees' /\ ReadIsReady'
<1> USE Sorts, Types DEF IInv
<1> DEFINE c == Of(p)
<1> HIDE DEF c
<1>1. /\ pc[p] \in {"stopConnect", "armConnect"}
      /\ pc'[p] \in {"armConnect", "idle", "armed", "reset"}
      /\ p \in Tasks \/ pc'[p] \in {"armConnect", "reset"}
      /\ p \in Tasks => pc'[p] # "reset"
      /\ pc'[p] = "armConnect" => pc[p] = "stopConnect"
  BY DEF Alarm
<1>2. c = Of(p) /\ c \in Clients
  BY <1>1, Armer DEF c
<1>0. /\ p \in Callers \cup {I}
      /\ p = I => pc[I] \in Working /\ icl = c /\ pc[c] = "added" /\ ~Shutting
      /\ p # I => c = For(p) /\ (pc[I] \in Working => icl # c)
      /\ \A q \in Callers : For(q) = c => pc[q] \notin {"dial", "establish", "epollAdd", "mapSet"}
      /\ pc[c] \in {"added", "failed", "reset"} \/ c = p
      /\ \A f \in Fds : clientMap[f] = c => client[c].reconnectCount > 0
  BY <1>1, <1>2, Armer
<1>3. UNCHANGED <<owner, reg, inbox, clientMap, dialled, icl, ready, goOn>>
  BY DEF Alarm
<1>4. /\ \A d \in Clients : /\ client'[d].conn = client[d].conn
                            /\ client'[d].fd = client[d].fd
                            /\ client'[d].isConnect = client[d].isConnect
                            /\ client'[d].cache = client[d].cache
                            /\ d # c => client'[d].reconnectCount = client[d].reconnectCount
                            /\ d # c => client'[d].connectTimer = client[d].connectTimer
      /\ client'[c].reconnectCount > 0
  BY <1>2 DEF Alarm, Keep
<1>6. \A q \in Procs \ {p} :
        pc'[q] = pc[q] \/ (q \in Tasks /\ pc'[q] \in {"idle", "armed"} /\ pc[q] \in {"idle", "armed"})
  BY DEF Alarm
<1>5. \A q \in Clients \cup {I} : q # p => pc'[q] = pc[q]
  BY <1>6
<1>7. (EpollClosed' <=> EpollClosed) /\ (Shutting' <=> Shutting) /\ (pc'[I] \in Working <=> pc[I] \in Working)
  BY <1>1, <1>5 DEF EpollClosed, Shutting, Working, CloseStates
<1>8. Control'
  <2>1. ASSUME NEW d \in Clients
        PROVE  /\ pc'[d] \in {"dial", "establish", "epollAdd", "mapSet", "added", "failed"}
                            \cup CloseStates
               /\ pc'[d] \in CloseStates => EpollClosed'
    BY <1>1, <1>5, <1>7 DEF Control, CloseStates
  <2>2. ASSUME NEW t \in Tasks
        PROVE  pc'[t] \in IF t[2] = "connect"
                          THEN {"idle", "armed", "sleep", "reconnect", "dial", "establish",
                                "stopConnect", "armConnect"}
                          ELSE {"idle", "armed", "check", "stopHeart", "clearHeart", "armHeart"}
    <3>1. CASE t = p
      BY <1>0, <1>1, <3>1 DEF Callers
    <3>2. CASE t # p
      BY <1>6, <3>2 DEF Control
    <3> QED BY <3>1, <3>2
  <2>3. /\ pc'[I] \in {"wait", "next", "instClose", "closeChans", "stopWheel", "stuck", "ended"} \cup Working
        /\ pc'[I] \in Working => icl' # Nil /\ pc'[icl'] = "added"
        /\ pc'[I] \in MessageStates \/ (pc'[I] \in CloseStates /\ goOn') => client'[icl'].cache # <<>>
    <3>1. pc[I] \in Working => icl \in Clients /\ icl # p
      BY <1>0, <1>1 DEF Control
    <3> QED BY <1>0, <1>1, <1>3, <1>4, <1>5, <1>7, <3>1 DEF Control, Working, CloseStates, MessageStates
  <2> QED BY <2>1, <2>2, <2>3 DEF Control
<1>9. \A q \in Callers : /\ pc'[q] = "establish" <=> pc[q] = "establish"
                         /\ pc'[q] = "dial" <=> pc[q] = "dial"
  BY <1>1, <1>6
<1>10. Sockets'
  <2>1. ASSUME NEW g \in Fds, owner'[g] # Nil PROVE client'[owner'[g]].conn = g
    <3>1. owner'[g] = owner[g] /\ owner[g] \in Clients
      BY <1>3, <2>1
    <3>2. client[owner[g]].conn = g
      BY <3>1 DEF Sockets
    <3> QED BY <1>4, <3>1, <3>2
  <2>3. ASSUME NEW d \in Clients, client'[d].conn # Nil, ~client'[d].isConnect
        PROVE  \E q \in Callers : For(q) = d /\ pc'[q] = "establish"
    <3>2. PICK q \in Callers : For(q) = d /\ pc[q] = "establish"
      BY <1>4, <2>3 DEF Sockets
    <3> QED BY <1>9, <3>2
  <2>4. ASSUME NEW d \in Clients
        PROVE  /\ client'[d].conn # Nil => owner'[client'[d].conn] = d
               /\ pc'[d] \in {"unmap", "unreg", "clear"} => client'[d].conn = Nil
    BY <1>1, <1>3, <1>4, <1>5, SMTT(30) DEF Sockets
  <2>5. ASSUME NEW q \in Callers
        PROVE  /\ pc'[q] = "establish" => dialled'[q] # Nil /\ client'[For(q)].conn = dialled'[q]
               /\ pc'[q] = "dial" => client'[For(q)].conn = Nil
    <3>1. For(q) \in Clients /\ client'[For(q)].conn = client[For(q)].conn
      BY <1>4
    <3> QED BY <1>3, <1>9, <3>1 DEF Sockets
  <2>6. pc'[I] \in {"unmap", "unreg", "clear"} => client'[icl'].conn = Nil
    <3>1. pc'[I] \in {"unmap", "unreg", "clear"} => pc[I] = pc'[I] /\ icl \in Clients
      BY <1>1, <1>5 DEF Control, Working, CloseStates
    <3> QED BY <1>3, <1>4, <3>1 DEF Sockets
  <2> QED BY <2>1, <2>3, <2>4, <2>5, <2>6 DEF Sockets
<1>11. OneConnector'
  <2>1. PICK s \in Tasks \cup {p} : \A t \in Connectors :
          For(t) = c /\ pc'[t] # "idle" =>
            /\ t = s
            /\ \/ t = p /\ pc'[t] = "armConnect"
               \/ pc'[t] = "armed" /\ client'[c].connectTimer = t /\ pc[p] = "armConnect"
    BY <1>2 DEF Alarm
  <2>2. \A t \in Connectors : For(t) # c => pc'[t] \in {pc[t], "idle"}
    BY <1>2 DEF Alarm
  <2>3. \A t, u \in Connectors : For(t) = For(u) /\ pc'[t] # "idle" /\ pc'[u] # "idle" => t = u
    BY <2>1, <2>2 DEF OneConnector
  <2>4. ASSUME NEW t \in Connectors, pc'[t] # "idle"
        PROVE  /\ pc'[t] = "armed" => client'[For(t)].connectTimer = t
               /\ client'[For(t)].reconnectCount > 0
               /\ pc'[For(t)] \in {"added", "failed", "reset"}
               /\ pc'[I] \in Working /\ icl' = For(t) => pc'[t] = "armed" /\ pc'[I] # "armConnect"
    <3>1. CASE For(t) = c
      <4>1. pc'[c] \in {"added", "failed", "reset"}
        <5>1. CASE p \in Clients
          <6>1. pc'[t] = "armed" /\ pc[p] = "armConnect"
            BY <2>1, <2>4, <3>1, <5>1
          <6>2. c = p /\ pc'[p] = "reset"
            BY <1>0, <1>1, <5>1, <6>1 DEF Alarm
          <6> QED BY <6>2
        <5>2. CASE p \notin Clients
          BY <1>0, <1>2, <1>5, <5>2
        <5> QED BY <5>1, <5>2
      <4>2. pc'[t] = "armed" => client'[c].connectTimer = t
        BY <1>1, <2>1, <2>4, <3>1
      <4>3. ASSUME pc'[I] \in Working, icl' = c PROVE pc'[t] = "armed" /\ pc'[I] # "armConnect"
        <5>1. p = I
          BY <1>0, <1>3, <1>7, <4>3
        <5>2. pc'[t] = "armed" /\ pc[p] = "armConnect"
          BY <2>1, <2>4, <3>1, <5>1
        <5> QED BY <1>1, <5>1, <5>2
      <4> QED BY <1>4, <3>1, <4>1, <4>2, <4>3
    <3>2. CASE For(t) # c
      <4>1. pc'[t] = pc[t] /\ For(t) \in Clients
        BY <2>2, <2>4, <3>2
      <4>2. pc'[For(t)] = pc[For(t)]
        BY <1>0, <1>5, <3>2, <4>1
      <4>3. p = I => icl # For(t)
        BY <1>0, <3>2
      <4>4. /\ client'[For(t)].reconnectCount = client[For(t)].reconnectCount
            /\ client'[For(t)].connectTimer = client[For(t)].connectTimer
        BY <1>4, <3>2, <4>1
      <4>5. ASSUME pc'[I] \in Working, icl' = For(t) PROVE pc'[t] = "armed" /\ pc'[I] # "armConnect"
        BY <1>3, <1>5, <2>4, <4>1, <4>3, <4>5 DEF OneConnector
      <4> QED BY <2>4, <4>1, <4>2, <4>4, <4>5 DEF OneConnector
    <3> QED BY <3>1, <3>2
  <2>5. /\ \A d \in Clients : pc'[d] = "armConnect" => client'[d].reconnectCount > 0
        /\ pc'[I] = "armConnect" => client'[icl'].reconnectCount > 0
    <3>1. ASSUME NEW d \in Clients, pc'[d] = "armConnect" PROVE client'[d].reconnectCount > 0
      BY <1>0, <1>4, <1>5, <3>1 DEF OneConnector
    <3>2. ASSUME pc'[I] = "armConnect" PROVE client'[icl'].reconnectCount > 0
      <4>1. CASE p = I
        BY <1>0, <1>3, <1>4, <4>1
      <4>2. CASE p # I
        <5>1. pc[I] = "armConnect" /\ icl \in Clients /\ icl # c
          BY <1>0, <1>5, <3>2, <4>2 DEF Control, Working, CloseStates
        <5> QED BY <1>3, <1>4, <5>1 DEF OneConnector
      <4> QED BY <4>1, <4>2
    <3> QED BY <3>1, <3>2
  <2> QED BY <2>3, <2>4, <2>5 DEF OneConnector
<1>12. Mapped'
  <2>1. ASSUME NEW d \in Clients
        PROVE  /\ pc'[d] \in {"dial", "establish", "epollAdd", "mapSet"} => client'[d].reconnectCount = 0
               /\ pc'[d] \in {"epollAdd", "mapSet"} =>
                    /\ client'[d].fd # Nil /\ owner'[client'[d].fd] = d /\ client'[d].isConnect
                    /\ pc'[d] = "mapSet" /\ ~Shutting' => client'[d].fd \in reg'
    <3>1. CASE d = c
      BY <1>0, <1>1, <1>5, <3>1
    <3>2. CASE d # c
      <4>1. pc'[d] = pc[d]
        BY <1>0, <1>5, <3>2
      <4>2. /\ client'[d].fd = client[d].fd /\ client'[d].isConnect = client[d].isConnect
            /\ client'[d].reconnectCount = client[d].reconnectCount
        BY <1>4, <3>2
      <4> QED BY <1>3, <1>7, <4>1, <4>2 DEF Mapped
    <3> QED BY <3>1, <3>2
  <2>2. ASSUME NEW f \in Fds, clientMap'[f] # Nil
        PROVE  LET d == clientMap'[f]
               IN /\ pc'[d] = "added" /\ client'[d].fd = f
                  /\ client'[d].isConnect /\ client'[d].reconnectCount = 0
    <3>1. clientMap'[f] = clientMap[f] /\ clientMap[f] \in Clients
      BY <1>3, <2>2
    <3>2. /\ pc[clientMap[f]] = "added" /\ client[clientMap[f]].fd = f
          /\ client[clientMap[f]].isConnect /\ client[clientMap[f]].reconnectCount = 0
      BY <3>1 DEF Mapped
    <3>3. clientMap[f] # c /\ clientMap[f] # p
      BY <1>0, <1>1, <3>2
    <3> QED BY <1>4, <1>5, <3>1, <3>2, <3>3
  <2>3. pc'[I] \in {"unreg", "clear"} => \A f \in Fds : clientMap'[f] # icl'
    BY <1>1, <1>3, <1>5 DEF Mapped
  <2>4. pc'[I] \in {"stopHeartClosed", "clearHeartClosed", "stopConnect", "armConnect", "reset"} => ~client'[icl'].isConnect
    <3>1. pc'[I] \in {"stopHeartClosed", "clearHeartClosed", "stopConnect", "armConnect", "reset"} =>
            pc[I] \in {"stopHeartClosed", "clearHeartClosed", "stopConnect", "armConnect", "reset"} /\ icl \in Clients
      BY <1>1, <1>5 DEF Control, Working, CloseStates
    <3> QED BY <1>3, <1>4, <3>1 DEF Mapped
  <2> QED BY <2>1, <2>2, <2>3, <2>4 DEF Mapped
<1>13. Batch'
  BY <1>3, <1>4, <1>7 DEF Batch, Control
<1>14. MapAgrees'
  <2>1. ASSUME NEW d \in Clients, FirstLife(d)', ~Shutting' PROVE FirstLife(d) /\ ~Shutting /\ d # c
    <3>1. client'[d].reconnectCount = 0 /\ client'[d].isConnect /\ pc'[d] = "added" /\ ~Closing(d)'
      BY <2>1 DEF FirstLife, At
    <3>2. d # c /\ pc[d] = "added" /\ client[d].isConnect /\ client[d].reconnectCount = 0
      BY <1>1, <1>4, <1>5, <3>1
    <3>3. ~Closing(d)
      BY <1>0, <1>3, <1>5, <3>1, <3>2 DEF Closing
    <3> QED BY <1>7, <2>1, <3>2, <3>3 DEF FirstLife, At
  <2>2. ASSUME NEW d \in Clients, FirstLife(d), ~Shutting
        PROVE  LET g == client'[d].fd IN owner'[g] = d /\ clientMap'[g] = d /\ g \in reg'
    BY <1>3, <1>4, <2>2 DEF MapAgrees, Shutting
  <2>3. ASSUME NEW g \in Fds, clientMap'[g] # Nil PROVE client'[clientMap'[g]].fd = g
    BY <1>12, <2>3 DEF Mapped
  <2> QED BY <2>1, <2>2, <2>3 DEF MapAgrees, Shutting
<1>15. ReadIsReady'
  <2>1. ASSUME pc'[I] = "read" PROVE pc[I] = "read" /\ icl \in Clients
    BY <1>1, <1>5, <2>1 DEF Control, Working
  <2> QED BY <1>3, <1>4, <2>1 DEF ReadIsReady, Open, At
<1> QED BY <1>8, <1>10, <1>11, <1>12, <1>13, <1>14, <1>15

LEMMA StopConnectIInv ==
  ASSUME IInv, NEW p \in Procs, StopConnect(p), Calm
  PROVE  IInv'
<1> USE Sorts, Types DEF IInv
<1> DEFINE c == Of(p)
           timer == client[c].connectTimer
           n == IF client[c].reconnectCount < Tries THEN client[c].reconnectCount + 1
                ELSE client[c].reconnectCount
           r == [client[c] EXCEPT !.connectTimer = Nil, !.reconnectCount = n]
<1>1. pc[p] = "stopConnect"
  BY DEF StopConnect, At
<1> HIDE DEF c
<1>2. c = Of(p) /\ c \in Clients
  BY <1>1, Armer DEF c
<1>0. /\ p = I => pc[I] \in Working /\ icl = c /\ pc[c] = "added" /\ ~Shutting
      /\ p # I => c = For(p)
      /\ \A t \in Connectors : For(t) = c /\ t # p => pc[t] = "idle" \/ (p = I /\ pc[t] = "armed")
  BY <1>1, <1>2, Armer
<1>3. n \in 0 .. Tries /\ n > 0
  BY <1>2, FieldTypes
<1>4. /\ client' = [client EXCEPT ![c] = r]
      /\ pc' \in Stopped(timer, [pc EXCEPT ![p] = "armConnect"])
      /\ UNCHANGED <<owner, reg, inbox, sent, clientMap, connectCh, readCh, cancelled, dialled,
                     icl, ready, goOn>>
  <2>1. client' = [client EXCEPT ![c] = r]
    BY <1>2 DEF StopConnect
  <2>2. pc' \in Stopped(timer, [pc EXCEPT ![p] = "armConnect"])
    BY DEF StopConnect, c
  <2>3. UNCHANGED <<owner, reg, inbox, sent, clientMap, connectCh, readCh, cancelled, dialled,
                    icl, ready, goOn>>
    BY DEF StopConnect, kernelVars, loopVars, chanVars
  <2> QED BY <2>1, <2>2, <2>3
<1>5. timer \in Tasks \cup {Nil} /\ timer = client[c].connectTimer
  BY <1>2, FieldTypes
<1> HIDE DEF n, timer
<1>6. r \in Fields /\ r.reconnectCount = n /\ Keep(r, client[c], {"connectTimer", "reconnectCount"})
  <2>1. client[c] \in Fields
    BY <1>2
  <2> HIDE DEF n
  <2> QED BY ONLY <1>3, <2>1, SetCount
<1> HIDE DEF r
<1>7. client' \in [Clients -> Fields] /\ Updated(c, r, {"connectTimer", "reconnectCount"})
  BY <1>2, <1>4, <1>6, Update
<1>8. /\ pc' \in [Procs -> States] /\ pc'[p] = "armConnect"
      /\ \A q \in Procs \ {p} :
           pc'[q] = pc[q] \/ (q = timer /\ q \in Tasks /\ pc[q] = "armed" /\ pc'[q] = "idle")
  <2>1. "armConnect" \in States
    BY DEF States
  <2> QED BY ONLY TypeOK, p \in Procs, <1>1, <1>4, <1>5, <2>1, StoppedTimer
<1>9. ASSUME NEW t \in Connectors, For(t) = c, t # p PROVE pc'[t] = "idle"
  <2>1. CASE pc[t] = "idle"
    BY <1>8, <1>9, <2>1
  <2>2. CASE p = I /\ pc[t] = "armed"
    <3>1. client[icl].connectTimer = t
      BY <1>0, <1>9, <2>2 DEF OneConnector
    <3>2. At(I, "stopConnect") /\ pc'[I] # pc[I]
      BY <1>1, <1>8, <2>2 DEF At
    <3>3. pc'[t] # "armed"
      BY ONLY Calm, <3>1, <3>2, t \in Connectors, Sorts DEF Calm
    <3> QED BY <1>8, <1>9, <2>2, <3>3
  <2> QED BY <1>0, <1>9, <2>1, <2>2
<1>10. \A t \in Connectors : For(t) # c => pc'[t] \in {pc[t], "idle"}
  BY <1>0, <1>8
<1>11. Alarm(p)
  <2>1. \E s \in Tasks \cup {p} : \A t \in Connectors :
          For(t) = c /\ pc'[t] # "idle" =>
            /\ t = s
            /\ \/ t = p /\ pc'[t] = "armConnect"
               \/ pc'[t] = "armed" /\ client'[c].connectTimer = t /\ pc[p] = "armConnect"
    <3>1. p \in Tasks \cup {p}
      OBVIOUS
    <3> WITNESS p \in Tasks \cup {p}
    <3> QED BY <1>8, <1>9
  <2>2. \A d \in Clients : /\ Keep(client'[d], client[d], {"connectTimer", "reconnectCount"})
                           /\ d # c => client'[d] = client[d]
    BY <1>7 DEF Updated
  <2>3. client'[c].reconnectCount > 0
    BY <1>3, <1>6, <1>7 DEF Updated
  <2> QED BY ONLY <1>1, <1>2, <1>4, <1>8, <1>10, <2>1, <2>2, <2>3 DEF Alarm
<1>12. TypeOK'
  BY <1>4, <1>7, <1>8 DEF TypeOK
<1> QED BY <1>11, <1>12, AlarmSteps

LEMMA ArmConnectIInv ==
  ASSUME IInv, NEW p \in Procs, ArmConnect(p)
  PROVE  IInv'
<1> USE Sorts, Types DEF IInv
<1> DEFINE c == Of(p)
           to == IF p \in Tasks THEN "idle" ELSE "reset"
<1>1. pc[p] = "armConnect"
  BY DEF ArmConnect, At
<1> HIDE DEF c
<1>2. c = Of(p) /\ c \in Clients
  BY <1>1, Armer DEF c
<1>0. /\ p \in Callers \cup {I}
      /\ p = I => icl = c
      /\ p # I => c = For(p)
      /\ \A t \in Connectors : For(t) = c /\ t # p => pc[t] = "idle"
  BY <1>1, <1>2, Armer
<1>3. PICK t \in Tasks :
        /\ t[1] = c /\ t[2] = "connect" /\ (pc[t] = "idle" \/ t = p)
        /\ pc' = [pc EXCEPT ![p] = to, ![t] = "armed"]
        /\ client' = [client EXCEPT ![c].connectTimer = t]
  BY <1>2 DEF ArmConnect, New, Free, At
<1> DEFINE r == [client[c] EXCEPT !.connectTimer = t]
<1>4. t \in Connectors /\ For(t) = c /\ t \in Procs
  BY <1>3
<1>5. /\ client' = [client EXCEPT ![c] = r]
      /\ UNCHANGED <<owner, reg, inbox, sent, clientMap, connectCh, readCh, cancelled, dialled,
                     icl, ready, goOn>>
  BY <1>2, <1>3 DEF ArmConnect, kernelVars, loopVars, chanVars
<1>6. r \in Fields /\ r.connectTimer = t /\ Keep(r, client[c], {"connectTimer"})
  BY <1>2, SetTimer
<1> HIDE DEF r
<1>7. client' \in [Clients -> Fields] /\ Updated(c, r, {"connectTimer"})
  BY <1>2, <1>5, <1>6, Update
<1>8. /\ \A q \in Procs : pc'[q] = IF q = t THEN "armed" ELSE IF q = p THEN to ELSE pc[q]
      /\ p \in Tasks => to = "idle"
      /\ p \notin Tasks => to = "reset"
  BY <1>3, <1>4
<1>9. TypeOK'
  <2>1. pc' \in [Procs -> States]
    BY <1>3, <1>8 DEF States
  <2> QED BY <1>5, <1>7, <2>1 DEF TypeOK
<1> HIDE DEF to
<1>10. client[c].reconnectCount > 0
  <2>1. CASE p \in Connectors
    BY <1>0, <1>1, <2>1 DEF OneConnector
  <2>2. CASE p \in Clients
    BY <1>0, <1>1, <2>2 DEF OneConnector
  <2>3. CASE p = I
    BY <1>0, <1>1, <2>3 DEF OneConnector
  <2> QED BY <1>0, <2>1, <2>2, <2>3 DEF Callers
<1>11. Alarm(p)
  <2>1. \E s \in Tasks \cup {p} : \A u \in Connectors :
          For(u) = c /\ pc'[u] # "idle" =>
            /\ u = s
            /\ \/ u = p /\ pc'[u] = "armConnect"
               \/ pc'[u] = "armed" /\ client'[c].connectTimer = u /\ pc[p] = "armConnect"
    <3>1. t \in Tasks \cup {p} /\ client'[c].connectTimer = t /\ pc'[t] = "armed"
      BY <1>4, <1>6, <1>7, <1>8 DEF Updated
    <3> WITNESS t \in Tasks \cup {p}
    <3> QED BY <1>0, <1>1, <1>8, <3>1
  <2>2. \A d \in Clients : d # c => client'[d] = client[d]
    BY <1>7 DEF Updated
  <2>3. \A d \in Clients : Keep(client'[d], client[d], {"connectTimer", "reconnectCount"})
    BY <1>7 DEF Updated, Keep
  <2>4. client'[c].reconnectCount > 0
    BY <1>2, <1>7, <1>10 DEF Updated, Keep
  <2>5. \A u \in Connectors : For(u) # c => pc'[u] \in {pc[u], "idle"}
    BY <1>0, <1>4, <1>8
  <2>6. \A q \in Procs \ {p} :
          pc'[q] = pc[q] \/ (q \in Tasks /\ pc'[q] \in {"idle", "armed"} /\ pc[q] \in {"idle", "armed"})
    BY <1>3, <1>8
  <2>7. \/ p \in Tasks /\ pc'[p] \in {"idle", "armed"}
        \/ p \notin Tasks /\ pc'[p] = "reset"
    BY <1>8
  <2> QED BY ONLY <1>1, <1>2, <1>5, <2>1, <2>2, <2>3, <2>4, <2>5, <2>6, <2>7 DEF Alarm
<1> QED BY <1>9, <1>11, AlarmSteps

-----------------------------------------------------------------------------
(* "eof" is the last that arrives.                                         *)
InboxOK ==
  /\ inbox \in [Clients -> Seq(Msgs \cup {"eof"})]
  /\ \A c \in Clients : \A k \in 1 .. Len(inbox[c]) : inbox[c][k] = "eof" => k = Len(inbox[c])

LEMMA ArrivedType ==
  ASSUME InboxOK, NEW c \in Clients
  PROVE  Arrived(c) \in Seq(Msgs)
<1> DEFINE s == inbox[c]
           n == IF HungUp(c) THEN Len(s) - 1 ELSE Len(s)
<1>1. s \in Seq(Msgs \cup {"eof"}) /\ \A k \in 1 .. Len(s) : s[k] = "eof" => k = Len(s)
  BY DEF InboxOK
<1>2. n \in 0 .. Len(s) /\ (HungUp(c) => n = Len(s) - 1) /\ (~HungUp(c) => n = Len(s))
  BY <1>1 DEF HungUp
<1>3. \A k \in 1 .. n : s[k] \in Msgs
  BY <1>1, <1>2 DEF HungUp
<1> HIDE DEF n
<1>4. Arrived(c) = SubSeq(s, 1, n)
  <2>1. SubSeq(s, 1, Len(s)) = s
    BY <1>1
  <2> QED BY <1>2, <2>1 DEF Arrived
<1>5. /\ SubSeq(s, 1, n) \in Seq(Msgs \cup {"eof"}) /\ Len(SubSeq(s, 1, n)) = n
      /\ \A k \in 1 .. n : SubSeq(s, 1, n)[k] = s[k]
  BY <1>1, <1>2
<1> DEFINE a == SubSeq(s, 1, n)
<1>6. Len(a) = n /\ n \in Nat /\ \A k \in 1 .. n : a[k] \in Msgs
  BY <1>1, <1>2, <1>3, <1>5
<1>7. a \in Seq(Msgs \cup {"eof"})
  BY <1>5
<1> HIDE DEF a, s
<1>8. a \in Seq(Msgs)
  BY <1>6, <1>7
<1> QED BY <1>4, <1>8 DEF a

(* What a quiet step must still see to.                                    *)
LEMMA QuietIInv ==
  ASSUME IInv, Quiet, TypeOK', ready' = ready,
         \A t \in Tasks \ Connectors : pc'[t] \in {"idle", "armed", "check", "stopHeart", "clearHeart", "armHeart"},
         pc'[I] \in MessageStates \/ (pc'[I] \in CloseStates /\ goOn') => client'[icl].cache # <<>>,
         \A c \in Clients : \/ inbox'[c] # <<>> \/ inbox[c] = <<>>
                            \/ c = icl /\ pc[I] = "read",
         pc'[I] = "read" => pc[I] = "read" /\ (inbox[icl] # <<>> => inbox'[icl] # <<>>)
  PROVE  IInv'
<1> USE Sorts, Types DEF IInv
<1>0. /\ pc[I] \in Working => icl \in Clients
      /\ \A c \in Clients : client'[c].conn = client[c].conn /\ client'[c].fd = client[c].fd
  BY DEF Quiet, Keep, Control
<1>1. Sockets' /\ OneConnector' /\ Mapped' /\ MapAgrees'
  BY QuietSteps
<1>2. (EpollClosed' <=> EpollClosed) /\ (Shutting' <=> Shutting)
  BY DEF Quiet, OpenStates, MessageStates, EpollClosed, Shutting
<1>3. Control'
  <2>1. ASSUME NEW c \in Clients
        PROVE  /\ pc'[c] \in {"dial", "establish", "epollAdd", "mapSet", "added", "failed"}
                            \cup CloseStates
               /\ pc'[c] \in CloseStates => EpollClosed'
    BY <1>2 DEF Control, Quiet, CloseStates
  <2>2. ASSUME NEW t \in Tasks
        PROVE  pc'[t] \in IF t[2] = "connect"
                          THEN {"idle", "armed", "sleep", "reconnect", "dial", "establish",
                                "stopConnect", "armConnect"}
                          ELSE {"idle", "armed", "check", "stopHeart", "clearHeart", "armHeart"}
    BY DEF Control, Quiet
  <2>3. /\ pc'[I] \in {"wait", "next", "instClose", "closeChans", "stopWheel", "stuck", "ended"} \cup Working
        /\ pc'[I] \in Working => icl' # Nil /\ pc'[icl'] = "added"
    <3>1. pc'[I] \in Working => pc[I] \in Working
      BY DEF Quiet
    <3>2. pc[I] \in Working => icl \in Clients /\ pc'[icl] = "added"
      BY <1>0 DEF Quiet, Control
    <3>3. pc'[I] = pc[I] \/ pc'[I] \in OpenStates
      BY DEF Quiet
    <3> QED BY <3>1, <3>2, <3>3 DEF Control, Quiet, OpenStates, Working, CloseStates
  <2>4. icl' = icl
    BY DEF Quiet
  <2> QED BY <2>1, <2>2, <2>3, <2>4 DEF Control
<1>4. Batch'
  <2>1. ASSUME pc'[I] \in Working
        PROVE  /\ client'[icl].fd # Nil /\ client'[icl].fd \notin ready
               /\ owner'[client'[icl].fd] \in {Nil, icl}
               /\ client'[icl].conn \in {Nil, client'[icl].fd}
    BY <1>0, <2>1 DEF Quiet, Batch
  <2>2. ASSUME ~Shutting, NEW f \in ready
        PROVE  owner'[f] # Nil /\ inbox'[owner'[f]] # <<>>
    <3>1. f \in Fds /\ owner[f] \in Clients /\ inbox[owner[f]] # <<>> /\ owner' = owner
      BY <2>2 DEF Batch, Quiet
    <3>2. ASSUME owner[f] = icl, pc[I] = "read" PROVE FALSE
      <4>1. client[icl].conn = f /\ f # Nil
        BY <3>1, <3>2 DEF Sockets
      <4> QED BY <2>2, <3>2, <4>1 DEF Batch, Working
    <3> QED BY <3>1, <3>2
  <2> QED BY <1>2, <2>1, <2>2 DEF Batch, Quiet
<1>5. ReadIsReady'
  <2>1. pc'[I] = "read" => icl \in Clients /\ icl' = icl
    BY <1>0 DEF Working, Quiet
  <2> QED BY <1>0, <2>1 DEF ReadIsReady, At, Open
<1> QED BY <1>1, <1>3, <1>4, <1>5

(* A client keeps what a quiet step does not assign.                       *)
LEMMA KeepSame ==
  ASSUME TypeOK
  PROVE  \A c \in Clients : Keep(client[c], client[c], {"cache"})
  BY DEF Keep

LEMMA OutsideIInv ==
  ASSUME IInv,
         \/ \E c \in Clients : ServerClose(c) \/ \E m \in Msgs : ServerSend(c, m)
         \/ TakeConnect \/ TakeRead \/ Cancel
  PROVE  IInv'
<1> USE Sorts, Types DEF IInv
<1>1. UNCHANGED <<owner, reg, client, clientMap, pc, dialled, icl, ready, goOn>>
  BY DEF ServerClose, ServerSend, TakeConnect, TakeRead, Cancel, kernelVars, loopVars
<1>2. /\ inbox' \in [Clients -> Seq(Msgs \cup {"eof"})]
      /\ \A c \in Clients : inbox'[c] # <<>> \/ inbox[c] = <<>>
  <2>1. CASE inbox' = inbox
    BY <2>1
  <2>2. ASSUME NEW c \in Clients, NEW m \in Msgs \cup {"eof"}, inbox' = [inbox EXCEPT ![c] = Append(@, m)]
        PROVE  <1>2!1 /\ <1>2!2
    <3> DEFINE q == inbox[c]
    <3>1. q \in Seq(Msgs \cup {"eof"})
      OBVIOUS
    <3>2. Append(q, m) \in Seq(Msgs \cup {"eof"}) /\ Append(q, m) # <<>>
      BY ONLY <3>1, m \in Msgs \cup {"eof"}
    <3>3. inbox' = [inbox EXCEPT ![c] = Append(q, m)]
      BY <2>2
    <3> HIDE DEF q
    <3> QED BY <3>2, <3>3
  <2>3. inbox' = inbox \/ \E c \in Clients, m \in Msgs \cup {"eof"} : inbox' = [inbox EXCEPT ![c] = Append(@, m)]
    BY DEF ServerClose, ServerSend, TakeConnect, TakeRead, Cancel, kernelVars
  <2> QED BY <2>1, <2>2, <2>3
<1>3. /\ sent' \in 0 .. Packets /\ connectCh' \in 0 .. ConnectRoom /\ readCh' \in 0 .. ReadRoom
      /\ cancelled' \in BOOLEAN
  <2>1. /\ sent \in 0 .. Packets /\ connectCh \in 0 .. ConnectRoom /\ readCh \in 0 .. ReadRoom
        /\ cancelled \in BOOLEAN /\ Packets \in Nat /\ ConnectRoom \in Nat /\ ReadRoom \in Nat
    BY DEF TypeOK
  <2>2. sent' = sent \/ (sent < Packets /\ sent' = sent + 1)
    BY DEF ServerClose, ServerSend, TakeConnect, TakeRead, Cancel, kernelVars
  <2>3. connectCh' = connectCh \/ (connectCh > 0 /\ connectCh' = connectCh - 1)
    BY DEF ServerClose, ServerSend, TakeConnect, TakeRead, Cancel, chanVars
  <2>4. readCh' = readCh \/ (readCh > 0 /\ readCh' = readCh - 1)
    BY DEF ServerClose, ServerSend, TakeConnect, TakeRead, Cancel, chanVars
  <2>5. cancelled' \in {cancelled, TRUE}
    BY DEF ServerClose, ServerSend, TakeConnect, TakeRead, Cancel, chanVars
  <2>6. sent' \in 0 .. Packets /\ connectCh' \in 0 .. ConnectRoom /\ readCh' \in 0 .. ReadRoom
    BY ONLY <2>1, <2>2, <2>3, <2>4
  <2>7. cancelled' \in BOOLEAN
    BY ONLY <2>1, <2>5
  <2> QED BY <2>6, <2>7
<1>4. TypeOK'
  BY <1>1, <1>2, <1>3 DEF TypeOK
<1>5. Quiet
  BY <1>1, KeepSame DEF Quiet
<1>6. \A t \in Tasks \ Connectors : pc'[t] \in {"idle", "armed", "check", "stopHeart", "clearHeart", "armHeart"}
  BY <1>1 DEF Control
<1>7. pc'[I] \in MessageStates \/ (pc'[I] \in CloseStates /\ goOn') => client'[icl].cache # <<>>
  BY <1>1 DEF Control
<1>8. pc'[I] = "read" => pc[I] = "read" /\ (inbox[icl] # <<>> => inbox'[icl] # <<>>)
  BY <1>1, <1>2 DEF Control, Working
<1> QED BY <1>1, <1>2, <1>4, <1>5, <1>6, <1>7, <1>8, QuietIInv

-----------------------------------------------------------------------------
(* Quiet steps of one process.                                             *)
LEMMA MovedIInv ==
  ASSUME IInv, NEW p \in Procs, NEW s \in States, pc' = [pc EXCEPT ![p] = s],
         UNCHANGED <<owner, reg, sent, clientMap, cancelled, dialled, icl, ready>>,
         client' \in [Clients -> Fields],
         \A d \in Clients : Keep(client'[d], client[d], {"cache"}),
         connectCh' \in 0 .. ConnectRoom, readCh' \in 0 .. ReadRoom, goOn' \in BOOLEAN,
         inbox' \in [Clients -> Seq(Msgs \cup {"eof"})],
         \A d \in Clients : inbox'[d] # <<>> \/ inbox[d] = <<>> \/ (d = icl /\ pc[I] = "read" /\ p = I),
         p = I => /\ pc[I] \in OpenStates \cup {"reset"} /\ s \in OpenStates \ {"read"}
                  /\ s \in Working => pc[I] \in Working
                  /\ s \in MessageStates \/ (s = "close" /\ goOn') => client'[icl].cache # <<>>,
         p # I => /\ goOn' = goOn
                  /\ \A d \in Clients : client'[d].cache = client[d].cache,
         p \in Clients => pc[p] = "reset" /\ s = "failed",
         p \in Tasks \ Connectors => s \in {"idle", "armed", "check", "stopHeart", "clearHeart", "armHeart"},
         p \in Connectors =>
           \/ pc[p] \in {"armed", "reconnect"} /\ s = "idle"
           \/ pc[p] = "reconnect" /\ s = "dial" /\ client[For(p)].conn = Nil
           \/ /\ pc[p] \in {"armed", "sleep"} /\ s \in {"sleep", "reconnect"}
              /\ pc[I] \in Working => icl # For(p)
  PROVE  IInv'
<1> USE Sorts, Types DEF IInv
<1>1. \A q \in Procs : pc'[q] = IF q = p THEN s ELSE pc[q]
  OBVIOUS
<1>2. TypeOK'
  BY DEF TypeOK
<1>3. Quiet
  <2>1. \A c \in Clients : pc'[c] = pc[c] \/ (pc[c] = "reset" /\ pc'[c] = "failed")
    BY <1>1
  <2>2. \A t \in Connectors :
       \/ pc'[t] = pc[t]
       \/ pc[t] \in {"armed", "reconnect"} /\ pc'[t] = "idle"
       \/ pc[t] = "reconnect" /\ pc'[t] = "dial" /\ client[For(t)].conn = Nil
       \/ /\ pc[t] \in {"armed", "sleep"} /\ pc'[t] \in {"sleep", "reconnect"}
          /\ pc[I] \in Working => icl # For(t)
    BY <1>1
  <2>3. \/ pc'[I] = pc[I]
        \/ /\ pc[I] \in OpenStates \cup {"reset"} /\ pc'[I] \in OpenStates
           /\ pc'[I] \in Working => pc[I] \in Working
    BY <1>1
  <2> QED BY <2>1, <2>2, <2>3 DEF Quiet
<1>4. \A t \in Tasks \ Connectors : pc'[t] \in {"idle", "armed", "check", "stopHeart", "clearHeart", "armHeart"}
  BY <1>1 DEF Control
<1>5. pc'[I] \in MessageStates \/ (pc'[I] \in CloseStates /\ goOn') => client'[icl].cache # <<>>
  <2>1. CASE p = I
    BY <1>1, <2>1 DEF OpenStates, CloseStates, MessageStates
  <2>2. CASE p # I
    <3>1. pc'[I] = pc[I] /\ goOn' = goOn
      BY <1>1, <2>2
    <3>2. pc[I] \in MessageStates \cup CloseStates => icl \in Clients
      BY DEF Control, Working
    <3> QED BY <2>2, <3>1, <3>2 DEF Control
  <2> QED BY <2>1, <2>2
<1>6. pc'[I] = "read" => pc[I] = "read" /\ (inbox[icl] # <<>> => inbox'[icl] # <<>>)
  <2>1. CASE p = I
    BY <1>1, <2>1
  <2>2. CASE p # I
    <3>1. pc'[I] = pc[I]
      BY <1>1, <2>2
    <3>2. pc[I] = "read" => icl \in Clients
      BY DEF Control, Working
    <3> QED BY <2>2, <3>1, <3>2
  <2> QED BY <2>1, <2>2
<1>7. \A c \in Clients : inbox'[c] # <<>> \/ inbox[c] = <<>> \/ (c = icl /\ pc[I] = "read")
  OBVIOUS
<1> QED BY ONLY IInv, <1>2, <1>3, <1>4, <1>5, <1>6, <1>7, ready' = ready, QuietIInv

LEMMA CountTypes ==
  ASSUME TypeOK
  PROVE  /\ connectCh \in 0 .. ConnectRoom /\ readCh \in 0 .. ReadRoom
         /\ goOn \in BOOLEAN /\ connectCh \in Nat /\ readCh \in Nat
  BY DEF TypeOK

(* The messages of DoRecv.                                                 *)
LEMMA MessageIInv ==
  ASSUME IInv, Packet \/ Notice \/ Deliver
  PROVE  IInv'
<1> USE Sorts, Types, KeepSame, CountTypes DEF IInv
<1> DEFINE s == pc'[I]
<1>1. pc[I] \in Working /\ icl \in Clients /\ pc[I] \in {"packet", "notice", "deliver"}
  BY DEF Packet, Notice, Deliver, At, Control, Working, MessageStates
<1>2. /\ UNCHANGED <<owner, reg, sent, inbox, client, clientMap, cancelled, dialled, icl, ready>>
      /\ connectCh' \in 0 .. ConnectRoom /\ readCh' \in 0 .. ReadRoom
  <2>1. UNCHANGED <<owner, reg, sent, inbox, client, clientMap, cancelled, dialled, icl, ready>>
    BY DEF Packet, Notice, Deliver, kernelVars, chanVars, loopVars
  <2>2. connectCh' = connectCh \/ (connectCh < ConnectRoom /\ connectCh' = connectCh + 1)
    BY DEF Packet, Notice, Deliver, chanVars
  <2>3. readCh' = readCh \/ (readCh < ReadRoom /\ readCh' = readCh + 1)
    BY DEF Packet, Notice, Deliver, chanVars
  <2> QED BY <2>1, <2>2, <2>3
<1>3. /\ s \in {"next", "close", "deliver", "advance", "notice", "flag"}
      /\ pc' = [pc EXCEPT ![I] = s]
      /\ s \in MessageStates \/ (s = "close" /\ goOn') => client'[icl].cache # <<>>
      /\ goOn' \in BOOLEAN
  <2>1. CASE Packet /\ client[icl].cache = <<>>
    BY <1>1, <2>1 DEF Packet, Goto, MessageStates
  <2>2. CASE Packet /\ client[icl].cache # <<>>
    <3>1. pc' = [pc EXCEPT ![I] = Verdict(icl, Head(client[icl].cache))] /\ goOn' \in BOOLEAN
      BY <2>2 DEF Packet, Goto
    <3>2. Verdict(icl, Head(client[icl].cache)) \in {"close", "deliver", "advance", "notice"}
      BY DEF Verdict
    <3> QED BY <1>2, <2>2, <3>1, <3>2
  <2>3. CASE Notice
    <3>1. client[icl].cache # <<>>
      BY <2>3 DEF Notice, At, Control, MessageStates
    <3>2. pc' = [pc EXCEPT ![I] = "flag"] /\ goOn' = goOn
      BY <2>3 DEF Notice, Goto, loopVars
    <3> QED BY <1>2, <3>1, <3>2
  <2>4. CASE Deliver
    <3>1. client[icl].cache # <<>>
      BY <2>4 DEF Deliver, At, Control, MessageStates
    <3>2. pc' = [pc EXCEPT ![I] = "advance"] /\ goOn' = goOn
      BY <2>4 DEF Deliver, Goto, loopVars
    <3> QED BY <1>2, <3>1, <3>2
  <2> QED BY <2>1, <2>2, <2>3, <2>4
<1> HIDE DEF s
<1>4. s \in States /\ s \in OpenStates \ {"read"} /\ pc[I] \in OpenStates
  BY <1>1, <1>3 DEF States, OpenStates, MessageStates
<1>5. \A d \in Clients : Keep(client'[d], client[d], {"cache"})
  BY <1>2
<1> QED BY <1>1, <1>2, <1>3, <1>4, <1>5, MovedIInv

(* The end of the handshake, and the end of Close.                         *)
LEMMA FlagIInv ==
  ASSUME IInv, NEW p \in Procs, (SetRecvFlag /\ p = I) \/ ResetFlag(p)
  PROVE  IInv'
<1> USE Sorts, Types, KeepSame, CountTypes DEF IInv
<1> DEFINE b == pc[p] = "flag"
           s == IF b THEN "check" ELSE IF p # I THEN "failed" ELSE IF goOn THEN "advance" ELSE "next"
           r == [client[Of(p)] EXCEPT !.hasRecvFlag = b]
<1>1. /\ pc[p] \in {"flag", "reset"} /\ p \in Clients \cup {I} /\ Of(p) \in Clients
      /\ p = I => icl = Of(p) /\ pc[I] \in Working
      /\ p # I => pc[p] = "reset"
  <2>1. (pc[p] = "flag" /\ p = I) \/ pc[p] = "reset"
    BY DEF SetRecvFlag, ResetFlag, At
  <2>2. p \in Clients \cup {I}
    BY <2>1, Standing
  <2>3. p = I => icl = Of(p) /\ icl \in Clients /\ pc[I] \in Working
    BY <2>1, Standing DEF Control, Working, CloseStates, MessageStates
  <2>4. p # I => Of(p) \in Clients
    BY Standing
  <2> QED BY <2>1, <2>2, <2>3, <2>4
<1>2. /\ pc' = [pc EXCEPT ![p] = s] /\ client' = [client EXCEPT ![Of(p)] = r]
      /\ UNCHANGED <<owner, reg, sent, inbox, clientMap, cancelled, connectCh, readCh, dialled, icl, ready, goOn>>
  <2>1. CASE SetRecvFlag /\ p = I
    BY <1>1, <2>1 DEF SetRecvFlag, At, Goto, kernelVars, chanVars, loopVars
  <2>2. CASE ResetFlag(p)
    <3>1. ~b /\ pc[p] = "reset"
      BY <2>2 DEF ResetFlag, At
    <3>2. client' = [client EXCEPT ![Of(p)] = r]
      BY <1>1, <2>2, <3>1 DEF ResetFlag
    <3> QED BY <2>2, <3>1, <3>2 DEF ResetFlag, Goto, kernelVars, chanVars, loopVars
  <2> QED BY <2>1, <2>2
<1>3. b \in BOOLEAN
  OBVIOUS
<1>4. /\ s \in States
      /\ p = I => s \in {"check", "advance", "next"}
      /\ p # I => s = "failed"
      /\ p = I /\ s # "next" => pc[I] \in MessageStates \/ (pc[I] \in CloseStates /\ goOn)
  BY <1>1 DEF States, MessageStates, CloseStates
<1> HIDE DEF b, s
<1>5. r \in Fields /\ Keep(r, client[Of(p)], {})
  <2>1. client[Of(p)] \in Fields
    BY <1>1
  <2> QED BY ONLY <1>3, <2>1, ClientAssumption, SetQuietly
<1> HIDE DEF r
<1>6. client' \in [Clients -> Fields] /\ Updated(Of(p), r, {})
  BY <1>1, <1>2, <1>5, Update
<1>7. \A d \in Clients : Keep(client'[d], client[d], {"cache"}) /\ client'[d].cache = client[d].cache
  BY <1>6 DEF Updated, Keep
<1>8. p = I => /\ pc[I] \in OpenStates \cup {"reset"} /\ s \in OpenStates \ {"read"}
               /\ s \in Working => pc[I] \in Working
               /\ s \in MessageStates \/ (s = "close" /\ goOn') => client'[icl].cache # <<>>
  <2>5. /\ {"flag", "reset"} \subseteq OpenStates \cup {"reset"}
        /\ {"check", "advance", "next"} \subseteq OpenStates \ {"read"}
    BY DEF OpenStates, MessageStates
  <2>1. p = I => pc[I] \in OpenStates \cup {"reset"} /\ s \in OpenStates \ {"read"}
    BY ONLY <1>1, <1>4, <2>5
  <2>2. p = I /\ s # "next" => client'[icl].cache # <<>>
    <3>1. p = I /\ s # "next" => client[icl].cache # <<>> /\ icl \in Clients
      BY <1>1, <1>4 DEF Control
    <3> QED BY <1>7, <3>1
  <2>3. "next" \notin MessageStates
    BY DEF MessageStates
  <2> QED BY <1>1, <2>1, <2>2, <2>3
<1>9. p \in Clients => pc[p] = "reset" /\ s = "failed"
  BY <1>1, <1>4
<1>10. p \notin Tasks
  BY <1>1
<1>11. \A d \in Clients : inbox'[d] # <<>> \/ inbox[d] = <<>>
  BY <1>2
<1>12. connectCh' \in 0 .. ConnectRoom /\ readCh' \in 0 .. ReadRoom /\ goOn' \in BOOLEAN
  BY <1>2
<1> QED BY <1>2, <1>4, <1>6, <1>7, <1>8, <1>9, <1>10, <1>11, <1>12, MovedIInv

LEMMA CutIInv ==
  ASSUME IInv, Cut
  PROVE  IInv'
<1> USE Sorts, Types, CountTypes DEF IInv
<1> DEFINE q == Tail(client[icl].cache)
           r == [client[icl] EXCEPT !.cache = q]
<1>1. icl \in Clients /\ pc[I] = "advance" /\ client[icl].cache # <<>>
  BY DEF Cut, At, Control, Working, MessageStates
<1>2. q \in Seq(Msgs)
  <2>1. client[icl].cache \in Seq(Msgs) /\ client[icl].cache # <<>>
    BY <1>1, FieldTypes
  <2> QED BY ONLY <2>1
<1>3. /\ pc' = [pc EXCEPT ![I] = "packet"] /\ client' = [client EXCEPT ![icl] = r]
      /\ UNCHANGED <<owner, reg, sent, inbox, clientMap, cancelled, connectCh, readCh, dialled, icl, ready, goOn>>
  BY <1>1 DEF Cut, Goto, kernelVars, chanVars, loopVars
<1> HIDE DEF q
<1>4. r \in Fields /\ Keep(r, client[icl], {"cache"})
  BY <1>1, <1>2, SetCache
<1> HIDE DEF r
<1>5. client' \in [Clients -> Fields] /\ \A d \in Clients : Keep(client'[d], client[d], {"cache"})
  BY <1>1, <1>3, <1>4, Update DEF Updated
<1>6. "packet" \in States /\ "packet" \in OpenStates \ {"read"} /\ "packet" \notin MessageStates
      /\ pc[I] \in OpenStates /\ pc[I] \in Working
  BY <1>1 DEF States, OpenStates, MessageStates, Working
<1>7. connectCh' \in 0 .. ConnectRoom /\ readCh' \in 0 .. ReadRoom /\ goOn' \in BOOLEAN
  BY <1>3
<1> QED BY <1>3, <1>5, <1>6, <1>7, MovedIInv

LEMMA ReadIInv ==
  ASSUME IInv, InboxOK, Read
  PROVE  IInv'
<1> USE Sorts, Types, CountTypes, KeepSame DEF IInv
<1> DEFINE q == client[icl].cache \o Arrived(icl)
           r == [client[icl] EXCEPT !.cache = q]
           s == pc'[I]
           left == IF HungUp(icl) THEN <<"eof">> ELSE <<>>
<1>1. icl \in Clients /\ pc[I] = "read" /\ pc[I] \in Working
  BY DEF Read, At, Control, Working
<1>2. /\ UNCHANGED <<owner, reg, sent, clientMap, cancelled, connectCh, readCh, dialled, icl, ready>>
      /\ ~goOn' /\ goOn' \in BOOLEAN
      /\ pc' = [pc EXCEPT ![I] = s] /\ s \in {"close", "packet"}
      /\ \/ client' = client /\ inbox' = inbox
         \/ /\ client' = [client EXCEPT ![icl] = r]
            /\ inbox' = [inbox EXCEPT ![icl] = left]
  <2>1. \/ inbox' = inbox /\ client' = client /\ dialled' = dialled /\ Goto(I, "close")
        \/ /\ inbox' = [inbox EXCEPT ![icl] = left] /\ client' = [client EXCEPT ![icl].cache = q]
           /\ Goto(I, "packet") /\ dialled' = dialled
    BY DEF Read
  <2>2. /\ UNCHANGED <<owner, reg, sent, clientMap, cancelled, connectCh, readCh, icl, ready>>
        /\ ~goOn' /\ goOn' \in BOOLEAN
    BY DEF Read, chanVars
  <2>3. client[icl] \in Fields
    BY <1>1
  <2> HIDE DEF left, q
  <2>4. CASE inbox' = inbox /\ client' = client /\ dialled' = dialled /\ Goto(I, "close")
    BY <2>2, <2>4 DEF Goto
  <2>5. CASE /\ inbox' = [inbox EXCEPT ![icl] = left] /\ client' = [client EXCEPT ![icl].cache = q]
             /\ Goto(I, "packet") /\ dialled' = dialled
    BY <1>1, <2>2, <2>5 DEF Goto
  <2> QED BY <2>1, <2>4, <2>5
<1>3. left \in Seq(Msgs \cup {"eof"})
  <2>1. "eof" \in Msgs \cup {"eof"}
    OBVIOUS
  <2>2. <<"eof">> \in Seq(Msgs \cup {"eof"}) /\ <<>> \in Seq(Msgs \cup {"eof"})
    BY ONLY <2>1
  <2> QED BY ONLY <2>2
<1> HIDE DEF left, s
<1>4. inbox' \in [Clients -> Seq(Msgs \cup {"eof"})] /\ \A d \in Clients : d # icl => inbox'[d] = inbox[d]
  <2>1. CASE inbox' = inbox
    BY <2>1
  <2>2. CASE inbox' = [inbox EXCEPT ![icl] = left]
    BY <1>1, <1>3, <2>2
  <2> QED BY <1>2, <2>1, <2>2
<1>5. r \in Fields /\ Keep(r, client[icl], {"cache"})
  <2>1. client[icl].cache \in Seq(Msgs) /\ Arrived(icl) \in Seq(Msgs)
    BY <1>1, FieldTypes, ArrivedType
  <2>2. q \in Seq(Msgs)
    BY ONLY <2>1
  <2> HIDE DEF q
  <2> QED BY <1>1, <2>2, SetCache
<1> HIDE DEF r
<1>6. client' \in [Clients -> Fields] /\ \A d \in Clients : Keep(client'[d], client[d], {"cache"})
  <2>1. CASE client' = client
    BY <2>1
  <2>2. CASE client' = [client EXCEPT ![icl] = r]
    BY <1>1, <1>5, <2>2, Update DEF Updated
  <2> QED BY <1>2, <2>1, <2>2
<1>7. s \in States /\ s \in OpenStates \ {"read"} /\ s \notin MessageStates /\ pc[I] \in OpenStates
  BY <1>1, <1>2 DEF States, OpenStates, MessageStates
<1>8. connectCh' \in 0 .. ConnectRoom /\ readCh' \in 0 .. ReadRoom
  BY <1>2
<1> QED BY <1>1, <1>2, <1>4, <1>6, <1>7, <1>8, MovedIInv

-----------------------------------------------------------------------------
(* The tasks of the timers.                                                *)
LEMMA FireIInv ==
  ASSUME IInv, NEW t \in Tasks, Calm,
         HeartTimeOut(t) \/ ConnectTimeOut(t) \/ RenewOnce(t) \/ ReConnect(t)
  PROVE  IInv'
<1> USE Sorts, Types, KeepSame, CountTypes DEF IInv
<1> DEFINE s == pc'[t]
<1>1. /\ UNCHANGED <<owner, reg, sent, inbox, clientMap, cancelled, connectCh, readCh, dialled, icl, ready, goOn>>
      /\ pc' = [pc EXCEPT ![t] = s]
  BY DEF HeartTimeOut, ConnectTimeOut, RenewOnce, ReConnect, Goto, kernelVars, chanVars, loopVars
<1>2. /\ client' \in [Clients -> Fields]
      /\ \A d \in Clients : Keep(client'[d], client[d], {"cache"}) /\ client'[d].cache = client[d].cache
  <2>1. CASE client' = client
    BY <2>1
  <2>2. ASSUME NEW b \in BOOLEAN, client' = [client EXCEPT ![t[1]].onceDone = b]
        PROVE  <1>2
    <3> DEFINE r == [client[t[1]] EXCEPT !.onceDone = b]
    <3>1. t[1] \in Clients /\ client[t[1]] \in Fields
      BY DEF Tasks
    <3>2. r \in Fields /\ Keep(r, client[t[1]], {})
      BY <3>1, SetQuietly
    <3>3. client' = [client EXCEPT ![t[1]] = r]
      BY <2>2, <3>1
    <3> HIDE DEF r
    <3>4. client' \in [Clients -> Fields] /\ Updated(t[1], r, {})
      BY <3>1, <3>2, <3>3, Update
    <3> QED BY <3>4 DEF Updated, Keep
  <2>3. client' = client \/ \E b \in BOOLEAN : client' = [client EXCEPT ![t[1]].onceDone = b]
    BY DEF HeartTimeOut, ConnectTimeOut, RenewOnce, ReConnect
  <2> QED BY <2>1, <2>2, <2>3
<1>3. /\ t \notin Connectors => s = "check"
      /\ t \in Connectors =>
           \/ pc[t] \in {"armed", "reconnect"} /\ s = "idle"
           \/ pc[t] = "reconnect" /\ s = "dial" /\ client[For(t)].conn = Nil
           \/ /\ pc[t] \in {"armed", "sleep"} /\ s \in {"sleep", "reconnect"}
              /\ pc[I] \in Working => icl # For(t)
  <2>1. CASE HeartTimeOut(t)
    BY <2>1 DEF HeartTimeOut, Goto
  <2>2. CASE ConnectTimeOut(t)
    <3>1. t \in Connectors /\ pc[t] = "armed" /\ s \in {"sleep", "idle"}
      BY <2>2 DEF ConnectTimeOut, At, Goto
    <3>2. s = "sleep" => icl # t[1]
      BY <3>1 DEF Calm, At
    <3> QED BY <3>1, <3>2
  <2>3. CASE RenewOnce(t)
    <3>1. pc[t] = "sleep" /\ s = "reconnect"
      BY <2>3 DEF RenewOnce, At, Goto
    <3>2. t \in Connectors
      BY <3>1, SMTT(30) DEF Control
    <3> QED BY <3>1, <3>2 DEF OneConnector
  <2>4. CASE ReConnect(t)
    <3>1. pc[t] = "reconnect" /\ s \in {"idle", "dial"} /\ (s = "dial" => ~client[For(t)].isConnect)
      BY <2>4 DEF ReConnect, At, Goto
    <3>2. t \in Connectors
      BY <3>1 DEF Control
    <3>3. ASSUME ~client[For(t)].isConnect, client[For(t)].conn # Nil PROVE FALSE
      <4>1. PICK p \in Callers : For(p) = For(t) /\ pc[p] = "establish"
        BY <3>3 DEF Sockets
      <4>2. \A q \in Callers : q # t /\ For(q) = For(t) => pc[q] \in {"idle", "added", "failed", "reset"}
        BY <3>1, <3>2, Alone
      <4> QED BY <3>1, <4>1, <4>2
    <3> QED BY <3>1, <3>2, <3>3
  <2> QED BY <2>1, <2>2, <2>3, <2>4
<1> HIDE DEF s
<1>4. s \in States
  BY <1>3 DEF States
<1>5. t \notin Clients /\ t # I /\ t \in Procs
  OBVIOUS
<1>6. connectCh' \in 0 .. ConnectRoom /\ readCh' \in 0 .. ReadRoom /\ goOn' \in BOOLEAN
  BY <1>1
<1> QED BY <1>1, <1>2, <1>3, <1>4, <1>5, <1>6, MovedIInv

(* Heartbeats, by their tasks and by I.                                    *)
LEMMA SendHeartbeatIInv ==
  ASSUME IInv, NEW p \in Procs, SendHeartbeat(p)
  PROVE  IInv'
<1> USE Sorts, Types, KeepSame, CountTypes DEF IInv
<1> DEFINE s == pc'[p]
<1>1. /\ UNCHANGED <<owner, reg, sent, inbox, client, clientMap, cancelled, connectCh, readCh, dialled, icl, ready, goOn>>
      /\ pc' = [pc EXCEPT ![p] = s]
      /\ pc[p] = "check"
      /\ p = I => s \in {"stopHeart", "advance"}
      /\ p # I => s \in {"stopHeart", "idle"}
  BY DEF SendHeartbeat, At, Goto, kernelVars, chanVars, loopVars
<1>2. p = I \/ p \in Tasks \ Connectors
  BY <1>1, Standing
<1> HIDE DEF s
<1>3. /\ p = I => /\ pc[I] \in OpenStates \cup {"reset"} /\ s \in OpenStates \ {"read"}
                  /\ s \in Working => pc[I] \in Working
                  /\ s \in MessageStates \/ (s = "close" /\ goOn') => client'[icl].cache # <<>>
      /\ s \in States
  <2>1. p = I => pc[I] \in MessageStates /\ client[icl].cache # <<>> /\ s \in MessageStates \ {"read"}
    BY <1>1 DEF Control, MessageStates
  <2>2. s \in States
    BY <1>1 DEF States
  <2> QED BY <1>1, <2>1, <2>2 DEF OpenStates, Working
<1>4. connectCh' \in 0 .. ConnectRoom /\ readCh' \in 0 .. ReadRoom /\ goOn' \in BOOLEAN
  BY <1>1
<1>5. \A d \in Clients : Keep(client'[d], client[d], {"cache"}) /\ client'[d].cache = client[d].cache
  BY <1>1
<1> QED BY <1>1, <1>2, <1>3, <1>4, <1>5, MovedIInv

LEMMA HeartTimerIInv ==
  ASSUME IInv, NEW p \in Procs,
         \/ StopHeart(p) /\ pc[p] = "stopHeart"
         \/ ClearHeart(p) /\ pc[p] = "clearHeart"
         \/ ArmHeart(p)
  PROVE  IInv'
<1> USE Sorts, Types, KeepSame, CountTypes DEF IInv
<1> DEFINE c == Of(p)
           s == pc'[p]
           a == client'[c].heartTimer
<1>1. /\ pc[p] \in {"stopHeart", "clearHeart", "armHeart"}
      /\ UNCHANGED <<owner, reg, sent, inbox, clientMap, cancelled, connectCh, readCh, dialled, icl, ready, goOn>>
  BY DEF StopHeart, ClearHeart, ArmHeart, At, kernelVars, chanVars, loopVars
<1>2. p = I \/ p \in Tasks \ Connectors
  BY <1>1, Standing
<1>3. /\ c \in Clients
      /\ p = I => pc[I] \in MessageStates /\ icl \in Clients /\ client[icl].cache # <<>>
  <2>1. p = I => pc[I] \in MessageStates /\ icl \in Clients /\ client[icl].cache # <<>> /\ c = icl
    BY <1>1, Standing DEF Control, MessageStates, Working
  <2>2. p # I => c \in Clients
    BY Standing
  <2> QED BY <2>1, <2>2
<1> HIDE DEF c
<1>4. /\ client' \in [Clients -> Fields]
      /\ \A d \in Clients : Keep(client'[d], client[d], {"cache"}) /\ client'[d].cache = client[d].cache
  <2>0. CASE StopHeart(p)
    <3>1. client' = client
      BY <2>0 DEF StopHeart
    <3> QED BY <3>1
  <2> SUFFICES ASSUME ~StopHeart(p) PROVE /\ client' \in [Clients -> Fields]
                                         /\ \A d \in Clients : /\ Keep(client'[d], client[d], {"cache"})
                                                              /\ client'[d].cache = client[d].cache
    BY <2>0
  <2>1. PICK t \in Tasks \cup {Nil} : client' = [client EXCEPT ![c].heartTimer = t]
    BY DEF ClearHeart, ArmHeart, c
  <2> DEFINE r == [client[c] EXCEPT !.heartTimer = t]
  <2>2. client[c] \in Fields
    BY <1>3
  <2>3. r \in Fields /\ Keep(r, client[c], {})
    BY <2>2, SetQuietly
  <2>4. client' = [client EXCEPT ![c] = r]
    BY <1>3, <2>1
  <2> HIDE DEF r
  <2>5. client' \in [Clients -> Fields] /\ Updated(c, r, {})
    BY <1>3, <2>3, <2>4, Update
  <2> QED BY <2>5 DEF Updated, Keep
<1>5. /\ pc' \in [Procs -> States]
      /\ p = I => s \in {"clearHeart", "armHeart", "advance"}
      /\ p # I => s \in {"clearHeart", "armHeart", "idle", "armed"}
      /\ \A q \in Procs \ {p} :
           \/ pc'[q] = pc[q]
           \/ q \in Tasks /\ pc[q] = "armed" /\ pc'[q] = "idle"
           \/ q \in Tasks \ Connectors /\ pc'[q] = "armed"
  <2>1. CASE StopHeart(p) /\ pc[p] = "stopHeart"
    <3> DEFINE t == client[c].heartTimer
    <3>1. t \in Tasks \cup {Nil} /\ pc[p] # "armed"
      BY <1>3, <2>1, FieldTypes
    <3>2. pc' \in Stopped(t, [pc EXCEPT ![p] = "clearHeart"])
      BY <2>1 DEF StopHeart, At, c
    <3>3. "clearHeart" \in States
      BY DEF States
    <3> HIDE DEF t
    <3>4. /\ pc' \in [Procs -> States] /\ pc'[p] = "clearHeart"
          /\ \A q \in Procs \ {p} :
               pc'[q] = pc[q] \/ (q = t /\ q \in Tasks /\ pc[q] = "armed" /\ pc'[q] = "idle")
      BY ONLY TypeOK, p \in Procs, <3>1, <3>2, <3>3, StoppedTimer
    <3> QED BY <3>4
  <2>2. CASE ArmHeart(p)
    <3>1. PICK t \in Tasks :
            /\ t[2] = "heart"
            /\ pc' = [pc EXCEPT ![p] = IF p = I THEN "advance" ELSE "idle", ![t] = "armed"]
      BY <2>2 DEF ArmHeart, New
    <3>2. t \in Procs /\ t \notin Connectors /\ t # I
      BY <3>1
    <3>3. \A q \in Procs : pc'[q] = IF q = t THEN "armed" ELSE IF q = p
                                    THEN IF p = I THEN "advance" ELSE "idle" ELSE pc[q]
      BY <3>1, <3>2
    <3>4. pc' \in [Procs -> States]
      BY <3>1, <3>2, <3>3 DEF States
    <3> QED BY <1>2, <3>2, <3>3, <3>4
  <2>3. CASE ClearHeart(p) /\ pc[p] = "clearHeart"
    <3>1. pc' = [pc EXCEPT ![p] = "armHeart"] /\ "armHeart" \in States
      BY <2>3 DEF ClearHeart, At, Goto, States
    <3> QED BY <3>1
  <2> QED BY <2>1, <2>2, <2>3
<1> HIDE DEF s
<1>6. TypeOK'
  BY <1>1, <1>4, <1>5 DEF TypeOK
<1>7. s = pc'[p]
  BY DEF s
<1>8. Quiet
  <2>1. \A d \in Clients : pc'[d] = pc[d]
    BY <1>2, <1>5
  <2>2. \A t \in Connectors : pc'[t] = pc[t] \/ (pc[t] = "armed" /\ pc'[t] = "idle")
    BY <1>2, <1>5
  <2>3. \/ pc'[I] = pc[I]
        \/ /\ pc[I] \in OpenStates \cup {"reset"} /\ pc'[I] \in OpenStates
           /\ pc'[I] \in Working => pc[I] \in Working
    BY <1>3, <1>5, <1>7 DEF OpenStates, MessageStates, Working
  <2> QED BY <1>1, <1>4, <2>1, <2>2, <2>3 DEF Quiet
<1>9. \A t \in Tasks \ Connectors : pc'[t] \in {"idle", "armed", "check", "stopHeart", "clearHeart", "armHeart"}
  <2>1. ASSUME NEW t \in Tasks \ Connectors
        PROVE  pc'[t] \in {"idle", "armed", "check", "stopHeart", "clearHeart", "armHeart"}
    <3>1. CASE t = p
      BY <1>5, <1>7, <3>1
    <3>2. CASE t # p
      BY <1>5, <3>2 DEF Control
    <3> QED BY <3>1, <3>2
  <2> QED BY <2>1
<1>10. p # I => pc'[I] = pc[I]
  BY <1>5
<1>11. p = I => pc'[I] \in {"clearHeart", "armHeart", "advance"}
  BY <1>5, <1>7
<1>12. pc'[I] \in MessageStates \/ (pc'[I] \in CloseStates /\ goOn') => client'[icl].cache # <<>>
  <2>1. pc[I] \in MessageStates \cup CloseStates => icl \in Clients
    BY DEF Control, Working
  <2>2. CASE p = I
    BY <1>3, <1>4, <2>2
  <2>3. CASE p # I
    BY <1>1, <1>4, <1>10, <2>1, <2>3 DEF Control
  <2> QED BY <2>2, <2>3
<1>13. pc'[I] = "read" => pc[I] = "read"
  BY <1>10, <1>11
<1> QED BY ONLY IInv, <1>1, <1>6, <1>8, <1>9, <1>12, <1>13, QuietIInv

-----------------------------------------------------------------------------
(* The rounds of Start, between the clients it works on, and its end.      *)
Round(s) ==
  /\ pc' = [pc EXCEPT ![I] = s]
  /\ pc[I] \in {"wait", "next", "instClose", "closeChans", "stopWheel"}
  /\ s \in {"wait", "next", "read", "instClose", "closeChans", "stopWheel", "stuck", "ended"}
  /\ UNCHANGED <<owner, inbox, sent, client, connectCh, readCh, cancelled, dialled, goOn>>
  /\ reg' \subseteq reg /\ ready' \subseteq Fds /\ icl' \in Clients \cup {Nil}
  /\ clientMap' \in [Fds -> Clients \cup {Nil}]
  /\ \A f \in Fds : clientMap'[f] \in {clientMap[f], Nil}
  /\ Shutting => Shutting'
  /\ EpollClosed => EpollClosed'
  /\ ~Shutting' => /\ reg' = reg /\ clientMap' = clientMap
                   /\ \A f \in ready' : owner[f] # Nil /\ inbox[owner[f]] # <<>>
  /\ s = "read" => /\ pc[I] = "next"
                   /\ \E f \in ready \ ready' : clientMap[f] # Nil /\ icl' = clientMap[f]

LEMMA RoundSteps ==
  ASSUME IInv, NEW s, Round(s)
  PROVE  IInv'
<1> USE Sorts, Types, CountTypes DEF IInv
<1>1. /\ UNCHANGED <<owner, inbox, sent, client, connectCh, readCh, cancelled, dialled, goOn>>
      /\ pc'[I] = s /\ \A q \in Procs : q # I => pc'[q] = pc[q]
      /\ pc[I] \in {"wait", "next", "instClose", "closeChans", "stopWheel"}
      /\ s \in {"wait", "next", "read", "instClose", "closeChans", "stopWheel", "stuck", "ended"}
      /\ reg' \subseteq reg
  BY DEF Round
<1>2. /\ pc[I] \notin Working
      /\ s \in Working => s = "read"
      /\ s \notin MessageStates /\ s \notin CloseStates /\ pc[I] \notin CloseStates
      /\ s = "read" => ~Shutting' /\ ~Shutting
  <2>1. s = "read" => pc[I] = "next"
    BY DEF Round
  <2> QED BY <1>1, <2>1 DEF Working, MessageStates, CloseStates, Shutting
<1>3. ASSUME s = "read"
      PROVE  /\ icl' \in Clients /\ pc[icl'] = "added" /\ client[icl'].reconnectCount = 0
             /\ client[icl'].fd \in ready \ ready' /\ client[icl'].fd \in Fds
             /\ owner[client[icl'].fd] = icl' /\ client[icl'].conn = client[icl'].fd
             /\ inbox[icl'] # <<>>
  <2>1. PICK f \in ready \ ready' : clientMap[f] # Nil /\ icl' = clientMap[f]
    BY <1>3 DEF Round
  <2>2. f \in Fds /\ icl' \in Clients
    BY <2>1
  <2>3. /\ pc[icl'] = "added" /\ client[icl'].fd = f
        /\ client[icl'].isConnect /\ client[icl'].reconnectCount = 0
    BY <2>1, <2>2 DEF Mapped
  <2>4. FirstLife(icl')
    BY <1>1, <2>3, <1>2 DEF FirstLife, At, Closing, Working, CloseStates
  <2>5. owner[f] = icl'
    BY <1>2, <1>3, <2>2, <2>3, <2>4 DEF MapAgrees, Shutting
  <2>6. client[icl'].conn = f /\ inbox[icl'] # <<>>
    <3>1. owner[f] # Nil
      BY <2>2, <2>5
    <3>2. client[owner[f]].conn = f
      BY <2>2, <3>1 DEF Sockets
    <3>3. inbox[owner[f]] # <<>>
      BY <1>2, <1>3, <2>1 DEF Batch
    <3> QED BY <2>5, <3>2, <3>3
  <2> QED BY <2>1, <2>2, <2>3, <2>5, <2>6
<1>4. TypeOK'
  <2>1. pc' \in [Procs -> States]
    BY <1>1 DEF Round, States
  <2> QED BY <1>1, <2>1 DEF TypeOK, Round
<1>5. Control'
  <2>1. ASSUME NEW d \in Clients
        PROVE  /\ pc'[d] \in {"dial", "establish", "epollAdd", "mapSet", "added", "failed"}
                            \cup CloseStates
               /\ pc'[d] \in CloseStates => EpollClosed'
    BY <1>1 DEF Control, Round
  <2>2. ASSUME NEW t \in Tasks
        PROVE  pc'[t] \in IF t[2] = "connect"
                          THEN {"idle", "armed", "sleep", "reconnect", "dial", "establish",
                                "stopConnect", "armConnect"}
                          ELSE {"idle", "armed", "check", "stopHeart", "clearHeart", "armHeart"}
    BY <1>1 DEF Control
  <2>3. /\ pc'[I] \in {"wait", "next", "instClose", "closeChans", "stopWheel", "stuck", "ended"} \cup Working
        /\ pc'[I] \in Working => icl' # Nil /\ pc'[icl'] = "added"
    BY <1>1, <1>2, <1>3 DEF Working
  <2>4. pc'[I] \notin MessageStates /\ pc'[I] \notin CloseStates
    BY <1>1, <1>2
  <2> QED BY <2>1, <2>2, <2>3, <2>4 DEF Control
<1>6. Sockets'
  <2>1. \A q \in Callers : pc'[q] = pc[q]
    BY <1>1
  <2>2. pc'[I] \notin {"unmap", "unreg", "clear"}
    BY <1>1
  <2>3. ASSUME NEW d \in Clients, client'[d].conn # Nil, ~client'[d].isConnect
        PROVE  \E q \in Callers : For(q) = d /\ pc'[q] = "establish"
    <3>1. PICK q \in Callers : For(q) = d /\ pc[q] = "establish"
      BY <1>1, <2>3 DEF Sockets
    <3> QED BY <2>1, <3>1
  <2> QED BY <1>1, <2>1, <2>2, <2>3 DEF Sockets
<1>7. OneConnector'
  <2>1. \A t \in Connectors : pc'[t] = pc[t] /\ pc'[For(t)] = pc[For(t)]
    BY <1>1
  <2>2. \A t \in Connectors : pc[t] # "idle" => ~(pc'[I] \in Working /\ icl' = For(t))
    BY <1>1, <1>2, <1>3 DEF OneConnector
  <2>3. pc'[I] # "armConnect" /\ \A d \in Clients : pc'[d] = pc[d]
    BY <1>1
  <2> QED BY <1>1, <2>1, <2>2, <2>3 DEF OneConnector
<1>8. Mapped'
  <2>1. ASSUME NEW d \in Clients
        PROVE  /\ pc'[d] \in {"dial", "establish", "epollAdd", "mapSet"} => client'[d].reconnectCount = 0
               /\ pc'[d] \in {"epollAdd", "mapSet"} =>
                    /\ client'[d].fd # Nil /\ owner'[client'[d].fd] = d /\ client'[d].isConnect
                    /\ pc'[d] = "mapSet" /\ ~Shutting' => client'[d].fd \in reg'
    BY <1>1 DEF Mapped, Round
  <2>2. ASSUME NEW f \in Fds, clientMap'[f] # Nil
        PROVE  LET d == clientMap'[f]
               IN /\ pc'[d] = "added" /\ client'[d].fd = f
                  /\ client'[d].isConnect /\ client'[d].reconnectCount = 0
    <3>1. clientMap'[f] = clientMap[f] /\ clientMap[f] \in Clients
      BY <2>2 DEF Round
    <3> QED BY <1>1, <2>2, <3>1 DEF Mapped
  <2>3. pc'[I] \notin {"unreg", "clear", "stopHeartClosed", "clearHeartClosed", "stopConnect", "armConnect",
                        "reset"}
    BY <1>1
  <2> QED BY <2>1, <2>2, <2>3 DEF Mapped
<1>9. Batch'
  <2>1. pc'[I] \in Working => s = "read"
    BY <1>1, <1>2
  <2>2. ~Shutting' => \A f \in ready' : owner'[f] # Nil /\ inbox'[owner'[f]] # <<>>
    BY <1>1 DEF Round
  <2>3. ASSUME s = "read"
        PROVE  /\ client'[icl'].fd # Nil /\ client'[icl'].fd \notin ready'
               /\ owner'[client'[icl'].fd] \in {Nil, icl'}
               /\ client'[icl'].conn \in {Nil, client'[icl'].fd}
    BY <1>1, <1>3, <2>3
  <2> QED BY <2>1, <2>2, <2>3 DEF Batch
<1>10. MapAgrees'
  <2>1. ASSUME NEW d \in Clients, FirstLife(d)', ~Shutting'
        PROVE  LET f == client'[d].fd IN owner'[f] = d /\ clientMap'[f] = d /\ f \in reg'
    <3>1. FirstLife(d)
      BY <1>1, <1>2, <2>1 DEF FirstLife, At, Closing, CloseStates
    <3>2. ~Shutting /\ reg' = reg /\ clientMap' = clientMap
      BY <2>1 DEF Round
    <3> QED BY <1>1, <3>1, <3>2 DEF MapAgrees, Shutting
  <2>2. ASSUME NEW f \in Fds, clientMap'[f] # Nil PROVE client'[clientMap'[f]].fd = f
    BY <1>8, <2>2 DEF Mapped
  <2> QED BY <2>1, <2>2 DEF MapAgrees, Shutting
<1>11. ReadIsReady'
  BY <1>1, <1>3 DEF ReadIsReady, At
<1> QED BY <1>4, <1>5, <1>6, <1>7, <1>8, <1>9, <1>10, <1>11

LEMMA RoundIInv ==
  ASSUME IInv, Wait \/ Lookup \/ Select \/ RemoveClient \/ CloseInstance
  PROVE  IInv'
<1> USE Sorts, Types DEF IInv
<1>1. CASE Wait
  <2>1. Round("next")
    BY <1>1 DEF Wait, Round, At, Goto, Shutting, EpollClosed, kernelVars, chanVars
  <2> QED BY <2>1, RoundSteps
<1>2. CASE Lookup
  <2> DEFINE s == pc'[I]
  <2>1. PICK f \in ready : /\ ready' = ready \ {f} /\ icl' = clientMap[f]
                           /\ Goto(I, IF clientMap[f] = Nil THEN "next" ELSE "read")
    BY <1>2 DEF Lookup
  <2>2. /\ pc[I] = "next" /\ s \in {"next", "read"} /\ pc' = [pc EXCEPT ![I] = s]
        /\ s = "read" => clientMap[f] # Nil
        /\ UNCHANGED <<owner, reg, inbox, sent, client, clientMap, connectCh, readCh, cancelled, dialled, goOn>>
    BY <1>2, <2>1 DEF Lookup, At, Goto, kernelVars, chanVars
  <2>3. ~Shutting /\ ~EpollClosed /\ \A g \in ready : owner[g] # Nil /\ inbox[owner[g]] # <<>>
    BY <2>2 DEF Batch, Shutting, EpollClosed
  <2> HIDE DEF s
  <2>4. Round(s)
    BY <2>1, <2>2, <2>3 DEF Round
  <2> QED BY <2>4, RoundSteps
<1>3. CASE Select
  <2> DEFINE s == pc'[I]
  <2>1. /\ pc[I] = "next" /\ s \in {"wait", "instClose"} /\ pc' = [pc EXCEPT ![I] = s]
        /\ UNCHANGED <<owner, reg, inbox, sent, client, clientMap, connectCh, readCh, cancelled, dialled, goOn>>
        /\ icl' = Nil /\ ready' \subseteq Fds
        /\ s = "wait" => ready' = {}
    BY <1>3 DEF Select, At, Goto, kernelVars, chanVars
  <2>2. ~Shutting /\ ~EpollClosed /\ (s = "instClose" => Shutting')
    BY <2>1 DEF Shutting, EpollClosed
  <2> HIDE DEF s
  <2>3. Round(s)
    BY <2>1, <2>2 DEF Round
  <2> QED BY <2>3, RoundSteps
<1>4. CASE RemoveClient
  <2>1. Round("instClose")
    BY <1>4 DEF RemoveClient, Round, At, Shutting, EpollClosed, chanVars
  <2> QED BY <2>1, RoundSteps
<1>5. CASE CloseInstance
  <2> DEFINE s == pc'[I]
  <2>1. /\ pc[I] \in {"instClose", "closeChans", "stopWheel"}
        /\ s \in {"closeChans", "stopWheel", "stuck", "ended"} /\ pc' = [pc EXCEPT ![I] = s]
        /\ UNCHANGED <<owner, inbox, sent, client, clientMap, connectCh, readCh, cancelled, dialled, icl, ready, goOn>>
        /\ reg' \subseteq reg
    BY <1>5 DEF CloseInstance, At, Goto, chanVars, loopVars
  <2>2. Shutting' /\ EpollClosed'
    BY <2>1 DEF Shutting, EpollClosed
  <2> HIDE DEF s
  <2>3. Round(s)
    BY <2>1, <2>2 DEF Round
  <2> QED BY <2>3, RoundSteps
<1> QED BY <1>1, <1>2, <1>3, <1>4, <1>5

-----------------------------------------------------------------------------
LEMMA InitIInv ==
  ASSUME Init
  PROVE  IInv /\ InboxOK
<1> USE Sorts
<1>1. /\ \A p \in Procs : pc[p] = IF p = I THEN "wait" ELSE IF p \in Clients THEN "dial" ELSE "idle"
      /\ \A f \in Fds : owner[f] = Nil /\ clientMap[f] = Nil
      /\ ready = {} /\ goOn = FALSE /\ reg = {} /\ icl = Nil
  BY DEF Init
<1>2. \A c \in Clients : /\ client[c].conn = Nil /\ client[c].fd = Nil /\ ~client[c].isConnect
                         /\ client[c].reconnectCount = 0
  BY DEF Init
<1>3. client \in [Clients -> Fields]
  <2>1. PICK flags \in Configs :
          client = [c \in Clients |->
                    [needReconnectFlag |-> c \in flags, conn |-> Nil, fd |-> Nil, isConnect |-> FALSE,
                     hasRecvFlag |-> FALSE, onceDone |-> FALSE, reconnectCount |-> 0,
                     heartTimer |-> Nil, connectTimer |-> Nil, cache |-> <<>>]]
    BY DEF Init
  <2>2. <<>> \in Seq(Msgs) /\ 0 \in 0 .. Tries
    OBVIOUS
  <2>3. ASSUME NEW c \in Clients PROVE (c \in flags) \in BOOLEAN
    OBVIOUS
  <2> QED BY <2>1, <2>2, <2>3 DEF Fields
<1>4. TypeOK /\ InboxOK
  <2>1. inbox = [c \in Clients |-> <<>>]
    BY DEF Init
  <2>2. <<>> \in Seq(Msgs \cup {"eof"}) /\ Len(<<>>) = 0
    OBVIOUS
  <2>3. InboxOK
    BY <2>1, <2>2 DEF InboxOK
  <2>4. pc \in [Procs -> States] /\ dialled \in [Procs -> Fds \cup {Nil}]
        /\ owner \in [Fds -> Clients \cup {Nil}] /\ clientMap \in [Fds -> Clients \cup {Nil}]
    BY DEF Init, States
  <2>5. /\ sent \in 0 .. Packets /\ connectCh \in 0 .. ConnectRoom /\ readCh \in 0 .. ReadRoom
        /\ cancelled \in BOOLEAN
    <3>1. sent = 0 /\ connectCh = 0 /\ readCh = 0 /\ cancelled = FALSE
      BY DEF Init
    <3>2. sent \in 0 .. Packets /\ connectCh \in 0 .. ConnectRoom /\ readCh \in 0 .. ReadRoom
      BY <3>1
    <3>3. cancelled \in BOOLEAN
      BY ONLY <3>1
    <3> QED BY <3>2, <3>3
  <2> QED BY <1>1, <1>3, <2>3, <2>4, <2>5 DEF TypeOK, InboxOK
<1>5. Control
  BY <1>1 DEF Control, Working, CloseStates, MessageStates
<1>6. Sockets
  BY <1>1, <1>2 DEF Sockets
<1>7. OneConnector
  BY <1>1, <1>2 DEF OneConnector, Working
<1>8. Mapped
  BY <1>1, <1>2 DEF Mapped
<1>9. Batch
  BY <1>1 DEF Batch, Working, CloseStates, MessageStates
<1>10. MapAgrees /\ ReadIsReady
  BY <1>1, <1>2 DEF MapAgrees, ReadIsReady, FirstLife, At
<1> QED BY <1>4, <1>5, <1>6, <1>7, <1>8, <1>9, <1>10 DEF IInv

(* Packets are appended one by one, before "eof", and taken at once.       *)
Emptied == \E c \in Clients \cup {Nil}, q \in {<<>>, <<"eof">>} : inbox' = [inbox EXCEPT ![c] = q]

LEMMA NextInboxOK ==
  ASSUME TypeOK, InboxOK, [Next]_vars
  PROVE  InboxOK'
<1> USE ClientAssumption
<1>1. CASE inbox' = inbox
  BY <1>1 DEF InboxOK
<1>2. CASE Emptied
  <2>1. PICK c \in Clients \cup {Nil}, q \in {<<>>, <<"eof">>} : inbox' = [inbox EXCEPT ![c] = q]
    BY <1>2 DEF Emptied
  <2>2. q \in Seq(Msgs \cup {"eof"}) /\ \A k \in 1 .. Len(q) : q[k] = "eof" => k = Len(q)
    <3>1. "eof" \in Msgs \cup {"eof"}
      OBVIOUS
    <3>2. CASE q = <<>>
      BY ONLY <3>2
    <3>3. CASE q = <<"eof">>
      BY ONLY <3>1, <3>3
    <3> QED BY <3>2, <3>3
  <2> QED BY <2>1, <2>2 DEF InboxOK
<1>3. ASSUME NEW c \in Clients, NEW m \in Msgs \cup {"eof"}, ~HungUp(c),
             inbox' = [inbox EXCEPT ![c] = Append(@, m)]
      PROVE  InboxOK'
  <2> DEFINE s == inbox[c]
             q == Append(s, m)
  <2>1. s \in Seq(Msgs \cup {"eof"}) /\ \A k \in 1 .. Len(s) : s[k] # "eof"
    BY <1>3 DEF InboxOK, HungUp
  <2>2. q \in Seq(Msgs \cup {"eof"}) /\ \A k \in 1 .. Len(q) : q[k] = "eof" => k = Len(q)
    <3> HIDE DEF s
    <3> QED BY ONLY <2>1, m \in Msgs \cup {"eof"}
  <2>3. inbox' = [inbox EXCEPT ![c] = q]
    BY <1>3
  <2> HIDE DEF q
  <2> QED BY <2>2, <2>3 DEF InboxOK
<1>4. CASE \E c \in Clients : ServerClose(c) \/ \E m \in Msgs : ServerSend(c, m)
  BY <1>3, <1>4 DEF ServerClose, ServerSend
<1>5. ASSUME NEW p \in Procs, CallStep(p) PROVE inbox' = inbox \/ Emptied
  <2>1. Of(p) \in Clients \cup {Nil}
    BY DEF Of, Procs, Tasks, TypeOK
  <2>2. CASE DialFails(p) \/ (\E f \in Fds : Dial(p, f)) \/ CloseConn(p)
    BY <2>1, <2>2 DEF DialFails, Dial, CloseConn, Emptied
  <2>3. CASE Establish(p) \/ SendHeartbeat(p) \/ ArmHeart(p)
    BY <2>3 DEF Establish, SendHeartbeat, ArmHeart, kernelVars
  <2>4. CASE Unmap(p) \/ Unregister(p) \/ ClearConnect(p) \/ StopHeart(p) \/ ClearHeart(p)
    BY <2>4 DEF Unmap, Unregister, ClearConnect, StopHeart, ClearHeart, kernelVars
  <2>5. CASE StopConnect(p) \/ ArmConnect(p) \/ ResetFlag(p)
    BY <2>5 DEF StopConnect, ArmConnect, ResetFlag, kernelVars
  <2> QED BY <1>5, <2>2, <2>3, <2>4, <2>5 DEF CallStep, CloseStep
<1>6. ASSUME NEW c \in Clients, EpollAdd(c) \/ MapSet(c) PROVE inbox' = inbox
  BY <1>6 DEF EpollAdd, MapSet, kernelVars
<1>7. ASSUME NEW t \in Tasks, HeartTimeOut(t) \/ ConnectTimeOut(t) \/ RenewOnce(t) \/ ReConnect(t)
      PROVE  inbox' = inbox
  BY <1>7 DEF HeartTimeOut, ConnectTimeOut, RenewOnce, ReConnect, kernelVars
<1>8. ASSUME Wait \/ Lookup \/ Select \/ Packet \/ Notice \/ SetRecvFlag \/ Deliver \/ Cut
             \/ RemoveClient \/ CloseInstance
      PROVE  inbox' = inbox
  BY <1>8 DEF Wait, Lookup, Select, Packet, Notice, SetRecvFlag, Deliver, Cut, RemoveClient,
              CloseInstance, kernelVars
<1>9. ASSUME Read PROVE inbox' = inbox \/ Emptied
  <2>1. icl \in Clients \cup {Nil}
    BY DEF TypeOK
  <2> QED BY <1>9, <2>1 DEF Read, Emptied
<1>10. CASE TakeConnect \/ TakeRead \/ Cancel \/ UNCHANGED vars
  BY <1>1, <1>10 DEF TakeConnect, TakeRead, Cancel, vars, kernelVars
<1>11. Clients \subseteq Procs /\ Tasks \subseteq Procs /\ I \in Procs
  BY DEF Procs
<1> QED BY <1>1, <1>2, <1>4, <1>5, <1>6, <1>7, <1>8, <1>9, <1>10, <1>11
        DEF Next, AddStep, TaskStep, LoopStep

LEMMA NextIInv ==
  ASSUME IInv, InboxOK, [Next /\ Calm]_vars
  PROVE  IInv'
<1> USE ClientAssumption
<1>1. ASSUME NEW p \in Procs, CallStep(p), Calm PROVE IInv'
  <2>1. CASE DialFails(p) \/ (\E f \in Fds : Dial(p, f)) \/ Establish(p)
    BY <1>1, <2>1, DialIInv, DialFailsIInv, EstablishIInv
  <2>2. CASE CloseConn(p) \/ Unmap(p) \/ Unregister(p) \/ ClearConnect(p)
    BY <2>2, CloseConnIInv, OnwardIInv
  <2>3. CASE StopHeart(p)
    <3>1. pc[p] = "stopHeart" \/ pc[p] = "stopHeartClosed"
      BY <2>3 DEF StopHeart
    <3> QED BY <2>3, <3>1, OnwardIInv, HeartTimerIInv
  <2>6. CASE ClearHeart(p)
    <3>1. pc[p] = "clearHeart" \/ pc[p] = "clearHeartClosed"
      BY <2>6 DEF ClearHeart
    <3> QED BY <2>6, <3>1, OnwardIInv, HeartTimerIInv
  <2>4. CASE StopConnect(p) \/ ArmConnect(p) \/ ResetFlag(p)
    BY <1>1, <2>4, StopConnectIInv, ArmConnectIInv, FlagIInv
  <2>5. CASE SendHeartbeat(p) \/ ArmHeart(p)
    BY <2>5, SendHeartbeatIInv, HeartTimerIInv
  <2> QED BY <1>1, <2>1, <2>2, <2>3, <2>4, <2>5, <2>6 DEF CallStep, CloseStep
<1>2. ASSUME NEW c \in Clients, EpollAdd(c) \/ MapSet(c) PROVE IInv'
  BY <1>2, EpollAddIInv, MapSetIInv
<1>3. ASSUME NEW t \in Tasks, Calm,
             HeartTimeOut(t) \/ ConnectTimeOut(t) \/ RenewOnce(t) \/ ReConnect(t)
      PROVE  IInv'
  BY <1>3, FireIInv
<1>4. ASSUME Wait \/ Lookup \/ Select \/ RemoveClient \/ CloseInstance PROVE IInv'
  BY <1>4, RoundIInv
<1>5. ASSUME Packet \/ Notice \/ Deliver PROVE IInv'
  BY <1>5, MessageIInv
<1>6. ASSUME SetRecvFlag \/ Cut \/ Read PROVE IInv'
  BY <1>6, FlagIInv, CutIInv, ReadIInv, Sorts
<1>7. CASE \/ \E c \in Clients : ServerClose(c) \/ \E m \in Msgs : ServerSend(c, m)
           \/ TakeConnect \/ TakeRead \/ Cancel
  BY <1>7, OutsideIInv
<1>8. CASE UNCHANGED vars
  BY <1>8 DEF vars, kernelVars, chanVars, loopVars, IInv, TypeOK, Control, EpollClosed, Sockets,
              OneConnector, Mapped, Shutting, Batch, MapAgrees, FirstLife, Closing, ReadIsReady,
              At, Open
<1> QED BY <1>1, <1>2, <1>3, <1>4, <1>5, <1>6, <1>7, <1>8, Sorts
        DEF Next, AddStep, TaskStep, LoopStep

LEMMA Inductive == CalmSpec => [](IInv /\ InboxOK)
<1>1. Init => IInv /\ InboxOK
  BY InitIInv
<1>2. IInv /\ InboxOK /\ [Next /\ Calm]_vars => (IInv /\ InboxOK)'
  <2> SUFFICES ASSUME IInv, InboxOK, [Next /\ Calm]_vars PROVE IInv' /\ InboxOK'
    OBVIOUS
  <2>1. TypeOK /\ [Next]_vars
    BY DEF IInv
  <2> QED BY <2>1, NextIInv, NextInboxOK
<1> QED BY <1>1, <1>2, PTL DEF CalmSpec

(* TypeOK: the fields, channels and descriptors of the clients and where   *)
(* their goroutines stand, for any number of all of these.                 *)
THEOREM ClientTypeOK == CalmSpec => []TypeOK
<1>1. IInv => TypeOK
  BY DEF IInv
<1> QED BY <1>1, Inductive, PTL

(* While the instance runs, AddMapCli, Close and Instance.Close keep the   *)
(* map, the epoll and the descriptors in agreement for every client that   *)
(* is in its first life, and no entry is under another client's number.    *)
THEOREM ClientMapAgrees == CalmSpec => []MapAgrees
<1>1. IInv => MapAgrees
  BY DEF IInv
<1> QED BY <1>1, Inductive, PTL

(* Close and ReConnect leave a client at most one socket, however often    *)
(* its connection is lost and its reconnect timer is armed again.          *)
THEOREM ClientHasOneSocket == CalmSpec => []OneSocket
<1>1. IInv => OneSocket
  BY DEF IInv, Sockets, OneSocket
<1> QED BY <1>1, Inductive, PTL

(* DoRecv never blocks the goroutine of Start in Read: there is data or    *)
(* the end when it is called on an open connection.                        *)
THEOREM ClientReadIsReady == CalmSpec => []ReadIsReady
<1>1. IInv => ReadIsReady
  BY DEF IInv
<1> QED BY <1>1, Inductive, PTL
=============================================================================
