--------------------------- MODULE ServerHistory ---------------------------
(***************************************************************************)
(* Server with two history variables that tell which connections have been *)
(* taken for another one.  An epoll goroutine knows its connections by the *)
(* number of their descriptors: one that Wait has returned is stale when   *)
(* its socket has been closed since, and stands for another connection     *)
(* when the kernel has handed it out again before it is looked up.         *)
(***************************************************************************)
EXTENDS Server

VARIABLES
  stale,     (* the descriptors of each batch whose socket has been closed *)
  mixed      (* the connections that have been taken for another one       *)

hvars == <<vars, stale, mixed>>

(* The kernel takes a descriptor back.                                     *)
Released == {f \in Fds : owner[f] # Nil /\ owner'[f] = Nil}

(* Lookup finds c under a stale descriptor.                                *)
FoundStale(e, c) == /\ ecur[e] = Nil /\ ecur'[e] = c
                    /\ \E f \in stale[e] \ batch'[e] : conns[f] = c

(* EpollAdd registers c in the place of the one that was accepted.         *)
AddedStale(e, c) ==
  /\ apc[e] = "epollAdd" /\ apc'[e] = "accept"
  /\ acur[e] # c /\ owner[cfd[acur[e]]] = c

HInit == Init /\ stale = [e \in Epollers |-> {}] /\ mixed = {}

HNext ==
  /\ Next
  /\ stale' = [e \in Epollers |-> (stale[e] \cup Released) \cap batch'[e]]
  /\ mixed' = mixed \cup
       {c \in Conns : \E e \in Epollers : FoundStale(e, c) \/ AddedStale(e, c)}

HSpec == HInit /\ [][HNext /\ Timely]_hvars

-----------------------------------------------------------------------------
(* No two epoll goroutines receive on the same connection, unless it has   *)
(* been taken for another one.                                             *)
OneReader ==
  \A d, e \in Epollers :
    ecur[d] # Nil /\ ecur[d] = ecur[e] => d = e \/ ecur[d] \in mixed

(* And then no goroutine cuts a packet off the cache under another one.    *)
PanicIsMixed == \A e \in Epollers : epc[e] = "panic" => ecur[e] \in mixed

(* Nor does an epoll goroutine wait for a client that has sent nothing     *)
(* while others are readable.                                              *)
ReadIsReady ==
  \A e \in Epollers :
    epc[e] = "read" /\ closing[ecur[e]] = "no" =>
      Readable(ecur[e]) \/ ecur[e] \in mixed

(* And the application hears of a connection before it gets its messages.  *)
AnnouncedFirst ==
  \A e \in Epollers : epc[e] = "send" => ecur[e] \in announced \cup mixed
=============================================================================
