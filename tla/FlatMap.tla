------------------------------ MODULE FlatMap ------------------------------
(***************************************************************************)
(* What the server registry promises: one map from the place of a server   *)
(* to its connection, on which every call takes effect at one moment       *)
(* between its beginning and its return.                                   *)
(***************************************************************************)
CONSTANTS Procs, Paths, Conns,
          None  (* no connection: the -1 of GetConnId                      *)

VARIABLES
  map,    (* the connection of each place                                  *)
  phase,  (* of each goroutine: "idle", "called" or "done"                 *)
  call,   (* what it called last                                           *)
  result  (* what GetConnId found                                          *)

vars == <<map, phase, call, result>>

Calls == [op : {"insert"}, path : Paths, conn : Conns]
         \cup [op : {"remove", "get"}, path : Paths]
NoCall == [op |-> "none"]

Init ==
  /\ map = [path \in Paths |-> None]
  /\ phase = [p \in Procs |-> "idle"]
  /\ call = [p \in Procs |-> NoCall]
  /\ result = [p \in Procs |-> None]

Call(p) ==
  /\ phase[p] = "idle"
  /\ phase' = [phase EXCEPT ![p] = "called"]
  /\ \E c \in Calls : call' = [call EXCEPT ![p] = c]
  /\ UNCHANGED <<map, result>>

Effect(p) ==
  LET c == call[p] IN
  /\ phase[p] = "called"
  /\ phase' = [phase EXCEPT ![p] = "done"]
  /\ map' = CASE c.op = "insert" -> [map EXCEPT ![c.path] = c.conn]
              [] c.op = "remove" -> [map EXCEPT ![c.path] = None]
              [] c.op = "get"    -> map
  /\ result' = IF c.op = "get" THEN [result EXCEPT ![p] = map[c.path]] ELSE result
  /\ UNCHANGED call

Return(p) ==
  /\ phase[p] = "done"
  /\ phase' = [phase EXCEPT ![p] = "idle"]
  /\ call' = [call EXCEPT ![p] = NoCall]
  /\ result' = [result EXCEPT ![p] = None]
  /\ UNCHANGED map

Next == \E p \in Procs : Call(p) \/ Effect(p) \/ Return(p)
Spec == Init /\ [][Next]_vars
=============================================================================
