------------------------------ MODULE Registry ------------------------------
(***************************************************************************)
(* serverMap.go: the tree of managers that leads from the type, the game,  *)
(* the level and the id of a server to its connection.  A ServerManger, a  *)
(* GameManger, a LevelManger and a LogicManger each have a concurrent map, *)
(* and every access to one of these maps is a step of its own: between     *)
(* two of them other goroutines work on the same tree.                     *)
(*                                                                         *)
(* Managers are never removed: len(serverMap) is the number of shards of a *)
(* concurrent map, which is not 0, so the branches that prune do not run.  *)
(***************************************************************************)
EXTENDS Integers, FiniteSets

CONSTANTS
  Procs,  (* goroutines                                                    *)
  Keys,   (* types, game ids, levels and server ids                        *)
  Paths,  (* the servers: type, game, level and id                         *)
  Conns,  (* connection ids                                                *)
  Nodes,  (* managers; their number is a bound that the code does not have *)
  Root,   (* the ServerManger                                              *)
  None    (* no entry, and the -1 of GetConnId                             *)

ASSUME RegistryAssumption ==
  /\ Paths \subseteq [1 .. 4 -> Keys]
  /\ Root \in Nodes /\ None \notin Nodes /\ None \notin Conns

VARIABLES
  manager,   (* the maps of servers, games and levels: of each manager the *)
             (* managers below it                                          *)
  logicMap,  (* the map of each LogicManger                                *)
  used,      (* the managers that have been made                           *)
  pc,        (* where each goroutine stands                                *)
  call,      (* what it called                                             *)
  depth, at, (* how far it has come down, and the manager it is at         *)
  result     (* what GetConnId returns                                     *)

vars == <<manager, logicMap, used, pc, call, depth, at, result>>

Calls == [op : {"insert"}, path : Paths, conn : Conns]
         \cup [op : {"remove", "get"}, path : Paths]
NoCall == [op |-> "none"]
Key(p) == call[p].path[depth[p]]

Init ==
  /\ manager = [d \in 1 .. 3 |-> [n \in Nodes |-> [k \in Keys |-> None]]]
  /\ logicMap = [n \in Nodes |-> [k \in Keys |-> None]]
  /\ used = {Root}
  /\ pc = [p \in Procs |-> "idle"]
  /\ call = [p \in Procs |-> NoCall]
  /\ depth = [p \in Procs |-> 1]
  /\ at = [p \in Procs |-> Root]
  /\ result = [p \in Procs |-> None]

(* InsertServer, Remove and GetConnId of the ServerManger.                 *)
Call(p) ==
  /\ pc[p] = "idle"
  /\ pc' = [pc EXCEPT ![p] = "find"]
  /\ \E c \in Calls : call' = [call EXCEPT ![p] = c]
  /\ UNCHANGED <<manager, logicMap, used, depth, at, result>>

(* FindServer.  Mutant: an insert does not look for what is there.         *)
FindNothing(p) ==
  /\ pc[p] = "find" /\ depth[p] < 4
  /\ LET next == manager[depth[p]][at[p]][Key(p)] IN
       IF next # None /\ call[p].op # "insert"
         THEN /\ at' = [at EXCEPT ![p] = next]
              /\ depth' = [depth EXCEPT ![p] = @ + 1]
              /\ UNCHANGED pc
         ELSE /\ pc' = [pc EXCEPT ![p] = IF call[p].op = "insert" THEN "add" ELSE "done"]
              /\ UNCHANGED <<depth, at>>
  /\ UNCHANGED <<manager, logicMap, used, call, result>>
FindServer(p) ==
  /\ pc[p] = "find" /\ depth[p] < 4
  /\ LET next == manager[depth[p]][at[p]][Key(p)] IN
       IF next # None
         THEN /\ at' = [at EXCEPT ![p] = next]
              /\ depth' = [depth EXCEPT ![p] = @ + 1]
              /\ UNCHANGED pc
         ELSE /\ pc' = [pc EXCEPT ![p] = IF call[p].op = "insert" THEN "add" ELSE "done"]
              /\ UNCHANGED <<depth, at>>
  /\ UNCHANGED <<manager, logicMap, used, call, result>>

(* NewGameManger, NewLevelManger or NewLogicManger, and Add.  Mutant: the  *)
(* new manager is not added.                                               *)
AddNowhere(p) ==
  /\ pc[p] = "add"
  /\ \E n \in Nodes \ used :
       /\ used' = used \cup {n}
       /\ at' = [at EXCEPT ![p] = n]
  /\ pc' = [pc EXCEPT ![p] = "find"]
  /\ depth' = [depth EXCEPT ![p] = @ + 1]
  /\ UNCHANGED <<manager, logicMap, call, result>>
Add(p) ==
  /\ pc[p] = "add"
  /\ \E n \in Nodes \ used :
       /\ used' = used \cup {n}
       /\ manager' = [manager EXCEPT ![depth[p]][at[p]][Key(p)] = n]
       /\ at' = [at EXCEPT ![p] = n]
  /\ pc' = [pc EXCEPT ![p] = "find"]
  /\ depth' = [depth EXCEPT ![p] = @ + 1]
  /\ UNCHANGED <<logicMap, call, result>>

(* AddServer, Remove or GetConnId of the LogicManger.                      *)
Logic(p) ==
  /\ pc[p] = "find" /\ depth[p] = 4
  /\ logicMap' = CASE call[p].op = "insert" -> [logicMap EXCEPT ![at[p]][Key(p)] = call[p].conn]
                   [] call[p].op = "remove" -> [logicMap EXCEPT ![at[p]][Key(p)] = None]
                   [] call[p].op = "get"    -> logicMap
  /\ result' = IF call[p].op = "get" THEN [result EXCEPT ![p] = logicMap[at[p]][Key(p)]]
               ELSE result
  /\ pc' = [pc EXCEPT ![p] = "done"]
  /\ UNCHANGED <<manager, used, call, depth, at>>

Return(p) ==
  /\ pc[p] = "done"
  /\ pc' = [pc EXCEPT ![p] = "idle"]
  /\ call' = [call EXCEPT ![p] = NoCall]
  /\ depth' = [depth EXCEPT ![p] = 1]
  /\ at' = [at EXCEPT ![p] = Root]
  /\ result' = [result EXCEPT ![p] = None]
  /\ UNCHANGED <<manager, logicMap, used>>

Next == \E p \in Procs : Call(p) \/ FindServer(p) \/ Add(p) \/ Logic(p) \/ Return(p)
Spec == Init /\ [][Next]_vars

(* The schedules on which no two goroutines make the same manager at the   *)
(* same time.  On others the second Add replaces what the first has added, *)
(* with every server below it.                                             *)
Apart ==
  \A p, q \in Procs :
    (p # q /\ pc[p] = "add" /\ pc[q] = "add") => <<at[p], Key(p)>> # <<at[q], Key(q)>>
ApartSpec == Init /\ [][Next /\ Apart']_vars

-----------------------------------------------------------------------------
TypeOK ==
  /\ manager \in [1 .. 3 -> [Nodes -> [Keys -> Nodes \cup {None}]]]
  /\ logicMap \in [Nodes -> [Keys -> Conns \cup {None}]]
  /\ used \subseteq Nodes
  /\ pc \in [Procs -> {"idle", "find", "add", "done"}]
  /\ call \in [Procs -> Calls \cup {NoCall}]
  /\ \A p \in Procs : pc[p] # "idle" => call[p] \in Calls
  /\ depth \in [Procs -> 1 .. 4]
  /\ at \in [Procs -> Nodes]
  /\ result \in [Procs -> Conns \cup {None}]

(* The managers on the way to a server, and its connection, read at once.  *)
Game(path)  == manager[1][Root][path[1]]
Level(path) == IF Game(path) = None THEN None ELSE manager[2][Game(path)][path[2]]
Bottom(path) == IF Level(path) = None THEN None ELSE manager[3][Level(path)][path[3]]
ConnOf(path) == IF Bottom(path) = None THEN None ELSE logicMap[Bottom(path)][path[4]]

Way(path) == <<Root, Game(path), Level(path), Bottom(path)>>

(* However calls overlap, a goroutine that is on its way down stands at a  *)
(* manager that is still in the tree, at the place of its server.          *)
OnTheWay ==
  \A p \in Procs : pc[p] \in {"find", "add"} => at[p] = Way(call[p].path)[depth[p]]

(* The registry is one map: every call takes effect at one moment.         *)
Flat == INSTANCE FlatMap WITH
  map   <- [path \in Paths |-> ConnOf(path)],
  phase <- [p \in Procs |-> IF pc[p] \in {"find", "add"} THEN "called" ELSE pc[p]]
ImplementsFlatMap == Flat!Spec
=============================================================================
