--------------------------- MODULE RegistryProofs ---------------------------
(***************************************************************************)
(* For any number of goroutines, servers and managers: on the schedules    *)
(* ApartSpec the tree of managers behaves like one map.  The invariant     *)
(* says that the maps form a tree, that a manager which has not been made  *)
(* is empty and in no map, and that where a goroutine is about to add a    *)
(* manager there is still none.                                            *)
(***************************************************************************)
EXTENDS Registry, TLAPS

Tree ==
  \A d \in 1 .. 3, m, n \in Nodes, j, k \in Keys :
    (manager[d][m][j] = manager[d][n][k] /\ manager[d][m][j] # None) => m = n /\ j = k

Made ==
  /\ Root \in used
  /\ \A p \in Procs : at[p] \in used
  /\ \A d \in 1 .. 3, n \in Nodes, k \in Keys :
       /\ manager[d][n][k] \in used \cup {None}
       /\ n \notin used => manager[d][n][k] = None
  /\ \A n \in Nodes \ used, k \in Keys : logicMap[n][k] = None

ToAdd ==
  \A p \in Procs : pc[p] = "add" =>
    depth[p] < 4 /\ call[p].op = "insert" /\ manager[depth[p]][at[p]][Key(p)] = None

AtRest == \A p \in Procs : pc[p] = "idle" => at[p] = Root /\ depth[p] = 1
Unanswered == \A p \in Procs : pc[p] # "done" => result[p] = None

Inv == TypeOK /\ Tree /\ Made /\ ToAdd /\ AtRest /\ Unanswered /\ OnTheWay /\ Apart

USE RegistryAssumption

-----------------------------------------------------------------------------
(* What a goroutine has called.                                            *)
LEMMA CallType ==
  ASSUME TypeOK, NEW p \in Procs, pc[p] # "idle"
  PROVE  /\ call[p] \in Calls /\ call[p].op \in {"insert", "remove", "get"}
         /\ call[p].path \in Paths
         /\ call[p].op = "insert" => call[p].conn \in Conns
         /\ \A d \in 1 .. 4 : call[p].path[d] \in Keys
         /\ Key(p) \in Keys
<1>1. call[p] \in Calls
  BY DEF TypeOK
<1>2. call[p].op \in {"insert", "remove", "get"} /\ call[p].path \in Paths
      /\ (call[p].op = "insert" => call[p].conn \in Conns)
  BY <1>1 DEF Calls
<1>3. \A d \in 1 .. 4 : call[p].path[d] \in Keys
  BY <1>2
<1>4. depth[p] \in 1 .. 4
  BY DEF TypeOK
<1> QED BY <1>1, <1>2, <1>3, <1>4 DEF Key

(* The managers on the way to a server are managers, or are not there.     *)
LEMMA WayType ==
  ASSUME TypeOK, NEW path \in Paths
  PROVE  /\ Game(path) \in Nodes \cup {None}
         /\ Level(path) \in Nodes \cup {None}
         /\ Bottom(path) \in Nodes \cup {None}
         /\ \A d \in 1 .. 4 : path[d] \in Keys
         /\ Way(path)[1] = Root /\ Way(path)[2] = Game(path)
         /\ Way(path)[3] = Level(path) /\ Way(path)[4] = Bottom(path)
<1>1. \A d \in 1 .. 4 : path[d] \in Keys
  OBVIOUS
<1>2. Game(path) \in Nodes \cup {None}
  BY <1>1 DEF TypeOK, Game
<1>3. Level(path) \in Nodes \cup {None}
  BY <1>1, <1>2 DEF TypeOK, Level
<1>4. Bottom(path) \in Nodes \cup {None}
  BY <1>1, <1>3 DEF TypeOK, Bottom
<1> QED BY <1>1, <1>2, <1>3, <1>4 DEF Way

(* Two servers below the same LogicManger differ in nothing but the id.    *)
LEMMA OnePath ==
  ASSUME TypeOK, Tree, NEW q \in Paths, NEW r \in Paths,
         Bottom(q) = Bottom(r), Bottom(q) # None, q[4] = r[4]
  PROVE  q = r
<1>1. Level(q) # None /\ Level(r) # None
  BY DEF Bottom
<1>2. Game(q) # None /\ Game(r) # None
  BY <1>1 DEF Level
<1>3. Level(q) = Level(r) /\ q[3] = r[3]
  BY <1>1, WayType DEF Tree, Bottom
<1>4. Game(q) = Game(r) /\ q[2] = r[2]
  BY <1>1, <1>2, <1>3, WayType DEF Tree, Level
<1>5. q[1] = r[1]
  BY <1>2, <1>4, WayType DEF Tree, Game
<1>6. \A d \in 1 .. 4 : q[d] = r[d]
  BY <1>3, <1>4, <1>5
<1> QED BY <1>6

(* Add changes one entry, which was empty.                                 *)
LEMMA AddEntry ==
  ASSUME Inv, NEW p \in Procs, NEW n \in Nodes \ used, pc[p] = "add",
         manager' = [manager EXCEPT ![depth[p]][at[p]][Key(p)] = n]
  PROVE  /\ \A e \in 1 .. 3, m \in Nodes, j \in Keys :
              manager'[e][m][j] = IF e = depth[p] /\ m = at[p] /\ j = Key(p)
                                    THEN n ELSE manager[e][m][j]
         /\ \A e \in 1 .. 3, m \in Nodes, j \in Keys :
              manager[e][m][j] # None => manager'[e][m][j] = manager[e][m][j]
         /\ \A e \in 1 .. 3, j \in Keys : manager'[e][n][j] = None
<1>1. depth[p] \in 1 .. 3 /\ at[p] \in Nodes /\ Key(p) \in Keys
      /\ manager[depth[p]][at[p]][Key(p)] = None
  BY CallType DEF Inv, ToAdd, TypeOK
<1>2. \A e \in 1 .. 3, m \in Nodes, j \in Keys :
        manager'[e][m][j] = IF e = depth[p] /\ m = at[p] /\ j = Key(p)
                              THEN n ELSE manager[e][m][j]
  BY <1>1 DEF Inv, TypeOK
<1>3. n # at[p] /\ \A e \in 1 .. 3, j \in Keys : manager[e][n][j] = None
  BY DEF Inv, Made
<1> QED BY <1>1, <1>2, <1>3

(* It neither moves a manager that is on a way nor changes a connection.   *)
LEMMA AddKeeps ==
  ASSUME Inv, NEW p \in Procs, NEW n \in Nodes \ used, pc[p] = "add",
         manager' = [manager EXCEPT ![depth[p]][at[p]][Key(p)] = n],
         logicMap' = logicMap, NEW q \in Paths
  PROVE  /\ Game(q) # None => Game(q)' = Game(q)
         /\ Level(q) # None => Level(q)' = Level(q)
         /\ Bottom(q) # None => Bottom(q)' = Bottom(q)
         /\ ConnOf(q)' = ConnOf(q)
<1>0. TypeOK /\ n # None /\ \A k \in Keys : logicMap[n][k] = None
  BY DEF Inv, Made
<1>w. /\ Game(q) \in Nodes \cup {None} /\ Level(q) \in Nodes \cup {None}
      /\ Bottom(q) \in Nodes \cup {None} /\ \A d \in 1 .. 4 : q[d] \in Keys
  BY <1>0, WayType
<1>e. /\ \A e \in 1 .. 3, m \in Nodes, j \in Keys :
           manager'[e][m][j] \in {manager[e][m][j], n}
      /\ \A e \in 1 .. 3, m \in Nodes, j \in Keys :
           manager[e][m][j] # None => manager'[e][m][j] = manager[e][m][j]
      /\ \A e \in 1 .. 3, j \in Keys : manager'[e][n][j] = None
  <2>1. \A e \in 1 .. 3, m \in Nodes, j \in Keys :
          manager'[e][m][j] = IF e = depth[p] /\ m = at[p] /\ j = Key(p)
                                THEN n ELSE manager[e][m][j]
    BY AddEntry
  <2>2. /\ \A e \in 1 .. 3, m \in Nodes, j \in Keys :
             manager[e][m][j] # None => manager'[e][m][j] = manager[e][m][j]
        /\ \A e \in 1 .. 3, j \in Keys : manager'[e][n][j] = None
    BY AddEntry
  <2> QED BY <2>1, <2>2
<1>1. Game(q)' \in {Game(q), n} /\ (Game(q) # None => Game(q)' = Game(q))
  BY <1>e, <1>w DEF Game
<1>2. Level(q)' \in {Level(q), n} /\ (Level(q) # None => Level(q)' = Level(q))
  <2>1. CASE Game(q) # None
    BY <2>1, <1>1, <1>w, <1>e DEF Level
  <2>2. CASE Game(q) = None
    <3>1. Level(q) = None
      BY <2>2 DEF Level
    <3>2. Level(q)' = None
      BY <2>2, <1>1, <1>0, <1>w, <1>e DEF Level
    <3> QED BY <3>1, <3>2
  <2> QED BY <2>1, <2>2
<1>3. Bottom(q)' \in {Bottom(q), n} /\ (Bottom(q) # None => Bottom(q)' = Bottom(q))
  <2>1. CASE Level(q) # None
    BY <2>1, <1>2, <1>w, <1>e DEF Bottom
  <2>2. CASE Level(q) = None
    <3>1. Bottom(q) = None
      BY <2>2 DEF Bottom
    <3>2. Bottom(q)' = None
      BY <2>2, <1>2, <1>0, <1>w, <1>e DEF Bottom
    <3> QED BY <3>1, <3>2
  <2> QED BY <2>1, <2>2
<1>4. ConnOf(q)' = ConnOf(q)
  <2>1. CASE Bottom(q) # None
    BY <2>1, <1>3 DEF ConnOf
  <2>2. CASE Bottom(q) = None
    BY <2>2, <1>3, <1>0, <1>w DEF ConnOf
  <2> QED BY <2>1, <2>2
<1> QED BY <1>1, <1>2, <1>3, <1>4

-----------------------------------------------------------------------------
(* The invariant holds at first, and every step keeps it.                  *)
LEMMA InvInit == Init => Inv
<1> SUFFICES ASSUME Init PROVE Inv
  OBVIOUS
<1>1. TypeOK
  BY DEF Init, TypeOK
<1>2. Tree /\ Made /\ ToAdd /\ AtRest /\ Unanswered /\ OnTheWay /\ Apart
  BY DEF Init, Tree, Made, ToAdd, AtRest, Unanswered, OnTheWay, Apart
<1> QED BY <1>1, <1>2 DEF Inv

LEMMA CallInv == ASSUME Inv, NEW p \in Procs, Call(p), Apart' PROVE Inv'
<1> USE DEF Inv
<1>1. PICK c \in Calls : call' = [call EXCEPT ![p] = c]
  BY DEF Call
<1>2. TypeOK'
  BY <1>1 DEF TypeOK, Call
<1>3. Tree' /\ Made'
  BY DEF Tree, Made, Call
<1>4. \A q \in Procs : q # p => pc'[q] = pc[q] /\ call'[q] = call[q] /\ Key(q)' = Key(q)
  BY <1>1 DEF Call, TypeOK, Key
<1>5. pc'[p] = "find" /\ call'[p] = c /\ c.path \in Paths
  BY <1>1 DEF Call, TypeOK, Calls
<1>6. ToAdd' /\ AtRest'
  BY <1>4, <1>5 DEF ToAdd, AtRest, Call
<1>7. ASSUME NEW q \in Procs, pc'[q] \in {"find", "add"}
      PROVE  at'[q] = (Way(call[q].path)[depth[q]])'
  <2>1. CASE q = p
    BY <2>1, <1>5 DEF AtRest, Call, Way
  <2>2. CASE q # p
    <3>1. pc[q] \in {"find", "add"} /\ call'[q] = call[q]
      BY <2>2, <1>4, <1>7
    <3>2. at[q] = Way(call[q].path)[depth[q]]
      BY <3>1 DEF OnTheWay
    <3>3. UNCHANGED <<manager, at, depth>>
      BY DEF Call
    <3> QED BY <3>1, <3>2, <3>3 DEF Way, Game, Level, Bottom
  <2> QED BY <2>1, <2>2
<1>8. OnTheWay'
  BY <1>7 DEF OnTheWay
<1>u. Unanswered'
  BY DEF Unanswered, Call, TypeOK
<1> QED BY <1>2, <1>3, <1>6, <1>8, <1>u

(* Where a goroutine gets to from a manager on the way to its server.      *)
LEMMA NextOnTheWay ==
  ASSUME TypeOK, OnTheWay, NEW p \in Procs, pc[p] \in {"find", "add"}, depth[p] < 4,
         manager[depth[p]][at[p]][Key(p)] # None
  PROVE  manager[depth[p]][at[p]][Key(p)] = Way(call[p].path)[depth[p] + 1]
<1>1. call[p].path \in Paths /\ depth[p] \in 1 .. 3
  BY CallType DEF TypeOK
<1>2. at[p] = Way(call[p].path)[depth[p]] /\ at[p] \in Nodes /\ at[p] # None
  BY DEF OnTheWay, TypeOK
<1>3. CASE depth[p] = 1
  BY <1>1, <1>2, <1>3, WayType DEF Game, Key
<1>4. CASE depth[p] = 2
  BY <1>1, <1>2, <1>4, WayType DEF Level, Key
<1>5. CASE depth[p] = 3
  BY <1>1, <1>2, <1>5, WayType DEF Bottom, Key
<1> QED BY <1>1, <1>3, <1>4, <1>5

LEMMA FindInv == ASSUME Inv, NEW p \in Procs, FindServer(p), Apart' PROVE Inv'
<1> USE DEF Inv
<1> DEFINE next == manager[depth[p]][at[p]][Key(p)]
<1>1. pc[p] = "find" /\ depth[p] \in 1 .. 3 /\ at[p] \in Nodes /\ Key(p) \in Keys
      /\ call[p].op \in {"insert", "remove", "get"}
  BY CallType DEF FindServer, TypeOK
<1>2. next \in Nodes \cup {None} /\ next \in used \cup {None}
  BY <1>1 DEF TypeOK, Made
<1>3. UNCHANGED <<manager, logicMap, used, call, result>>
  BY DEF FindServer
<1>u. Unanswered'
  BY DEF Unanswered, FindServer, TypeOK
<1>4. CASE next # None
  <2>1. at' = [at EXCEPT ![p] = next] /\ depth' = [depth EXCEPT ![p] = @ + 1] /\ pc' = pc
    BY <1>4 DEF FindServer
  <2>2. TypeOK'
    BY <2>1, <1>1, <1>2, <1>3, <1>4 DEF TypeOK
  <2>3. Tree' /\ Made'
    BY <2>1, <1>2, <1>3, <1>4 DEF Tree, Made, TypeOK
  <2>4. ToAdd' /\ AtRest'
    BY <2>1, <1>1, <1>3 DEF ToAdd, AtRest, TypeOK, Key
  <2>5. ASSUME NEW q \in Procs, pc'[q] \in {"find", "add"}
        PROVE  at'[q] = (Way(call[q].path)[depth[q]])'
    <3>1. CASE q = p
      <4>1. next = Way(call[p].path)[depth[p] + 1]
        BY <1>1, <1>4, NextOnTheWay
      <4>2. at'[p] = next /\ depth'[p] = depth[p] + 1
        BY <2>1 DEF TypeOK
      <4> QED BY <3>1, <4>1, <4>2, <1>3 DEF Way, Game, Level, Bottom
    <3>2. CASE q # p
      <4>1. at'[q] = at[q] /\ depth'[q] = depth[q] /\ pc[q] \in {"find", "add"}
        BY <3>2, <2>1, <2>5 DEF TypeOK
      <4>2. at[q] = Way(call[q].path)[depth[q]]
        BY <4>1 DEF OnTheWay
      <4> QED BY <4>1, <4>2, <1>3 DEF Way, Game, Level, Bottom
    <3> QED BY <3>1, <3>2
  <2>6. OnTheWay'
    BY <2>5 DEF OnTheWay
  <2> QED BY <2>2, <2>3, <2>4, <2>6, <1>u
<1>5. CASE next = None
  <2>1. /\ pc' = [pc EXCEPT ![p] = IF call[p].op = "insert" THEN "add" ELSE "done"]
        /\ at' = at /\ depth' = depth
    BY <1>5 DEF FindServer
  <2>2. TypeOK'
    BY <2>1, <1>1, <1>3 DEF TypeOK
  <2>3. Tree' /\ Made'
    BY <2>1, <1>3 DEF Tree, Made
  <2>4. ToAdd' /\ AtRest'
    BY <2>1, <1>1, <1>3, <1>5 DEF ToAdd, AtRest, TypeOK, Key
  <2>5. OnTheWay'
    BY <2>1, <1>1, <1>3 DEF OnTheWay, TypeOK, Way, Game, Level, Bottom
  <2> QED BY <2>2, <2>3, <2>4, <2>5, <1>u
<1> QED BY <1>4, <1>5

LEMMA AddInv == ASSUME Inv, NEW p \in Procs, Add(p), Apart' PROVE Inv'
<1> USE DEF Inv
<1>1. PICK n \in Nodes \ used :
        /\ used' = used \cup {n}
        /\ manager' = [manager EXCEPT ![depth[p]][at[p]][Key(p)] = n]
        /\ at' = [at EXCEPT ![p] = n]
  BY DEF Add
<1>2. pc[p] = "add" /\ pc' = [pc EXCEPT ![p] = "find"] /\ depth' = [depth EXCEPT ![p] = @ + 1]
      /\ UNCHANGED <<logicMap, call, result>>
  BY DEF Add
<1>3. depth[p] \in 1 .. 3 /\ at[p] \in Nodes /\ Key(p) \in Keys
      /\ manager[depth[p]][at[p]][Key(p)] = None
  BY <1>2, CallType DEF ToAdd, TypeOK
<1>4. TypeOK'
  BY <1>1, <1>2, <1>3 DEF TypeOK
<1>5. Tree'
  <2> SUFFICES ASSUME NEW d \in 1 .. 3, NEW i \in Nodes, NEW m \in Nodes,
                      NEW j \in Keys, NEW k \in Keys,
                      manager'[d][i][j] = manager'[d][m][k], manager'[d][i][j] # None
               PROVE  i = m /\ j = k
    BY DEF Tree
  <2>1. manager[d][i][j] # n /\ manager[d][m][k] # n /\ n # None
    BY <1>1 DEF Made
  <2>2. \A e \in 1 .. 3, f \in Nodes, g \in Keys :
          manager'[e][f][g] = IF e = depth[p] /\ f = at[p] /\ g = Key(p)
                                THEN n ELSE manager[e][f][g]
    BY <1>1, <1>2, AddEntry
  <2>3. CASE manager'[d][i][j] = n
    <3>1. i = at[p] /\ j = Key(p)
      BY <2>1, <2>2, <2>3
    <3>2. manager'[d][m][k] = n
      BY <2>3
    <3>3. m = at[p] /\ k = Key(p)
      BY <2>1, <2>2, <3>2
    <3> QED BY <3>1, <3>3
  <2>4. CASE manager'[d][i][j] # n
    BY <2>2, <2>4 DEF Tree
  <2> QED BY <2>3, <2>4
<1>6. Made'
  <2>1. Root \in used' /\ \A q \in Procs : at'[q] \in used'
    BY <1>1 DEF Made, TypeOK
  <2>2. \A m \in Nodes \ used', k \in Keys : logicMap'[m][k] = None
    BY <1>1, <1>2 DEF Made
  <2>3. \A d \in 1 .. 3, m \in Nodes, k \in Keys :
          /\ manager'[d][m][k] \in used' \cup {None}
          /\ m \notin used' => manager'[d][m][k] = None
    <3>1. \A d \in 1 .. 3, m \in Nodes, k \in Keys :
            manager'[d][m][k] = IF d = depth[p] /\ m = at[p] /\ k = Key(p)
                                  THEN n ELSE manager[d][m][k]
      BY <1>1, <1>2, AddEntry
    <3>2. at[p] \in used
      BY DEF Made
    <3> QED BY <3>1, <3>2, <1>1 DEF Made
  <2> QED BY <2>1, <2>2, <2>3 DEF Made
<1>7. \A q \in Procs : q # p => pc'[q] = pc[q] /\ at'[q] = at[q] /\ depth'[q] = depth[q]
                                  /\ Key(q)' = Key(q)
  BY <1>1, <1>2 DEF TypeOK, Key
<1>8. pc'[p] = "find" /\ at'[p] = n /\ depth'[p] = depth[p] + 1
  BY <1>1, <1>2 DEF TypeOK
<1>9. AtRest'
  BY <1>7, <1>8 DEF AtRest
<1>10. ToAdd'
  <2> SUFFICES ASSUME NEW q \in Procs, pc'[q] = "add"
               PROVE  (depth[q] < 4 /\ call[q].op = "insert"
                        /\ manager[depth[q]][at[q]][Key(q)] = None)'
    BY DEF ToAdd
  <2>1. q # p /\ pc[q] = "add"
    BY <1>7, <1>8
  <2>2. depth[q] \in 1 .. 3 /\ call[q].op = "insert" /\ manager[depth[q]][at[q]][Key(q)] = None
        /\ at[q] \in Nodes /\ Key(q) \in Keys
    BY <2>1, CallType DEF ToAdd, TypeOK
  <2>3. <<at[p], Key(p)>> # <<at[q], Key(q)>>
    BY <2>1, <1>2 DEF Apart
  <2>4. manager'[depth[q]][at[q]][Key(q)] = None
    <3>1. \A e \in 1 .. 3, m \in Nodes, j \in Keys :
            manager'[e][m][j] = IF e = depth[p] /\ m = at[p] /\ j = Key(p)
                                  THEN n ELSE manager[e][m][j]
      BY <1>1, <1>2, AddEntry
    <3>2. ~(at[q] = at[p] /\ Key(q) = Key(p))
      BY <2>3
    <3> QED BY <3>1, <3>2, <2>2
  <2> QED BY <2>1, <2>2, <2>4, <1>2, <1>7
<1>11. ASSUME NEW q \in Procs, pc'[q] \in {"find", "add"}
       PROVE  at'[q] = (Way(call[q].path)[depth[q]])'
  <2> DEFINE r == call[q].path
  <2>1. CASE q # p
    <3>1. pc[q] \in {"find", "add"} /\ at[q] \in Nodes /\ depth[q] \in 1 .. 4
      BY <2>1, <1>7, <1>11 DEF TypeOK
    <3>2. at[q] = Way(r)[depth[q]] /\ r \in Paths
      BY <3>1, CallType DEF OnTheWay
    <3>3. /\ Game(r) # None => Game(r)' = Game(r)
          /\ Level(r) # None => Level(r)' = Level(r)
          /\ Bottom(r) # None => Bottom(r)' = Bottom(r)
      BY <3>2, <1>1, <1>2, AddKeeps
    <3>4. at[q] = Way(r)'[depth[q]]
      BY <3>1, <3>2, <3>3 DEF Way
    <3> QED BY <3>4, <2>1, <1>2, <1>7
  <2>2. CASE q = p
    <3>1. r \in Paths /\ at[p] = Way(r)[depth[p]] /\ Key(p) = r[depth[p]]
          /\ \A d \in 1 .. 4 : r[d] \in Keys
      BY <2>2, <1>2, CallType DEF OnTheWay, Key
    <3>2. /\ Game(r) # None => Game(r)' = Game(r)
          /\ Level(r) # None => Level(r)' = Level(r)
      BY <3>1, <1>1, <1>2, AddKeeps
    <3>3. manager'[depth[p]][at[p]][Key(p)] = n /\ at[p] # None
      <4>1. \A e \in 1 .. 3, m \in Nodes, j \in Keys :
              manager'[e][m][j] = IF e = depth[p] /\ m = at[p] /\ j = Key(p)
                                    THEN n ELSE manager[e][m][j]
        BY <1>1, <1>2, AddEntry
      <4> QED BY <4>1, <1>3
    <3>4. CASE depth[p] = 1
      BY <3>1, <3>3, <3>4, <2>2, <1>2, <1>8 DEF Way, Game
    <3>5. CASE depth[p] = 2
      BY <3>1, <3>2, <3>3, <3>5, <2>2, <1>2, <1>8 DEF Way, Level
    <3>6. CASE depth[p] = 3
      BY <3>1, <3>2, <3>3, <3>6, <2>2, <1>2, <1>8 DEF Way, Bottom
    <3> QED BY <3>4, <3>5, <3>6, <1>3
  <2> QED BY <2>1, <2>2
<1>12. OnTheWay'
  BY <1>11 DEF OnTheWay
<1>u. Unanswered'
  BY DEF Unanswered, Add, TypeOK
<1> QED BY <1>4, <1>5, <1>6, <1>9, <1>10, <1>12, <1>u

LEMMA LogicInv == ASSUME Inv, NEW p \in Procs, Logic(p), Apart' PROVE Inv'
<1> USE DEF Inv
<1>1. pc[p] = "find" /\ at[p] \in used /\ at[p] \in Nodes /\ Key(p) \in Keys
      /\ call[p].op \in {"insert", "remove", "get"}
      /\ (call[p].op = "insert" => call[p].conn \in Conns)
  BY CallType DEF Logic, TypeOK, Made
<1>2. /\ pc' = [pc EXCEPT ![p] = "done"]
      /\ UNCHANGED <<manager, used, call, depth, at>>
  BY DEF Logic
<1>3. \/ logicMap' = logicMap
      \/ \E v \in Conns \cup {None} : logicMap' = [logicMap EXCEPT ![at[p]][Key(p)] = v]
  <2>1. CASE call[p].op = "insert"
    BY <2>1, <1>1 DEF Logic
  <2>2. CASE call[p].op = "remove"
    BY <2>2, <1>1 DEF Logic
  <2>3. CASE call[p].op = "get"
    BY <2>3, <1>1 DEF Logic
  <2> QED BY <2>1, <2>2, <2>3, <1>1
<1>4. logicMap' \in [Nodes -> [Keys -> Conns \cup {None}]]
  <2>1. logicMap \in [Nodes -> [Keys -> Conns \cup {None}]]
    BY DEF TypeOK
  <2>2. ASSUME NEW v \in Conns \cup {None}
        PROVE  [logicMap EXCEPT ![at[p]][Key(p)] = v] \in [Nodes -> [Keys -> Conns \cup {None}]]
    BY <2>1, <1>1
  <2> QED BY <2>1, <2>2, <1>3
<1>5. result' \in [Procs -> Conns \cup {None}]
  <2>1. logicMap[at[p]][Key(p)] \in Conns \cup {None}
    BY <1>1 DEF TypeOK
  <2> QED BY <2>1 DEF TypeOK, Logic
<1>6. TypeOK'
  BY <1>1, <1>2, <1>4, <1>5 DEF TypeOK
<1>7. \A m \in Nodes \ used, k \in Keys : logicMap'[m][k] = None
  BY <1>1, <1>3 DEF Made, TypeOK
<1>8. Tree' /\ Made'
  BY <1>2, <1>7 DEF Tree, Made
<1>9. ToAdd' /\ AtRest' /\ OnTheWay'
  BY <1>2 DEF ToAdd, AtRest, OnTheWay, TypeOK, Key, Way, Game, Level, Bottom
<1>u. Unanswered'
  BY DEF Unanswered, Logic, TypeOK
<1> QED BY <1>6, <1>8, <1>9, <1>u

LEMMA ReturnInv == ASSUME Inv, NEW p \in Procs, Return(p), Apart' PROVE Inv'
<1> USE DEF Inv
<1>1. TypeOK'
  BY DEF TypeOK, Return
<1>2. Tree' /\ Made'
  BY DEF Tree, Made, Return, TypeOK
<1>3. \A q \in Procs : q # p => pc'[q] = pc[q] /\ call'[q] = call[q] /\ at'[q] = at[q]
                                 /\ depth'[q] = depth[q] /\ Key(q)' = Key(q)
  BY DEF Return, TypeOK, Key
<1>4. pc'[p] = "idle" /\ at'[p] = Root /\ depth'[p] = 1
  BY DEF Return, TypeOK
<1>5. ToAdd' /\ AtRest'
  BY <1>3, <1>4 DEF ToAdd, AtRest, Return
<1>6. ASSUME NEW q \in Procs, pc'[q] \in {"find", "add"}
      PROVE  at'[q] = (Way(call[q].path)[depth[q]])'
  <2>1. q # p /\ pc[q] \in {"find", "add"}
    BY <1>3, <1>4, <1>6
  <2>2. at[q] = Way(call[q].path)[depth[q]]
    BY <2>1 DEF OnTheWay
  <2>3. manager' = manager
    BY DEF Return
  <2> QED BY <2>1, <2>2, <2>3, <1>3 DEF Way, Game, Level, Bottom
<1>7. OnTheWay'
  BY <1>6 DEF OnTheWay
<1>u. Unanswered'
  BY DEF Unanswered, Return, TypeOK
<1> QED BY <1>1, <1>2, <1>5, <1>7, <1>u

LEMMA InvNext == Inv /\ [Next /\ Apart']_vars => Inv'
<1> SUFFICES ASSUME Inv, [Next /\ Apart']_vars PROVE Inv'
  OBVIOUS
<1>1. CASE UNCHANGED vars
  <2> USE <1>1 DEF vars
  <2>1. TypeOK' /\ Tree' /\ Made' /\ AtRest' /\ Unanswered'
    BY DEF Inv, TypeOK, Tree, Made, AtRest, Unanswered
  <2>2. ToAdd' /\ Apart'
    BY DEF Inv, ToAdd, Apart, Key
  <2>3. OnTheWay'
    BY DEF Inv, OnTheWay, Way, Game, Level, Bottom
  <2> QED BY <2>1, <2>2, <2>3 DEF Inv
<1>2. CASE Next /\ Apart'
  BY <1>2, CallInv, FindInv, AddInv, LogicInv, ReturnInv DEF Next
<1> QED BY <1>1, <1>2

(* The invariant of every behaviour in which no two goroutines make the    *)
(* same manager at the same time.                                          *)
THEOREM RegistryInv == ApartSpec => []Inv
<1> QED BY InvInit, InvNext, PTL DEF ApartSpec

(* The variables of a registry of any size keep their types.               *)
THEOREM RegistryTypeOK == ApartSpec => []TypeOK
<1>1. Inv => TypeOK
  BY DEF Inv
<1> QED BY <1>1, RegistryInv, PTL

(* A goroutine stands at a manager that is in the tree, at the place of    *)
(* its server: what it inserts or removes is not lost in a manager that    *)
(* nobody will find.                                                       *)
THEOREM RegistryOnTheWay == ApartSpec => []OnTheWay
<1>1. Inv => OnTheWay
  BY DEF Inv
<1> QED BY <1>1, RegistryInv, PTL

-----------------------------------------------------------------------------
(* The refinement: FindServer that finds nothing and the access to the     *)
(* LogicManger are the moments at which a call takes effect.               *)
Phase == [p \in Procs |-> IF pc[p] \in {"find", "add"} THEN "called" ELSE pc[p]]
Map == [path \in Paths |-> ConnOf(path)]

(* A step that changes no manager and no connection does not change the    *)
(* map.                                                                    *)
LEMMA SameMap == ASSUME UNCHANGED <<manager, logicMap>> PROVE Map' = Map
BY DEF Map, ConnOf, Bottom, Level, Game

LEMMA CallFlat == ASSUME Inv, NEW p \in Procs, Call(p) PROVE Flat!Call(p)
<1>1. UNCHANGED <<manager, logicMap, result>>
  BY DEF Call
<1>2. Map' = Map
  BY <1>1, SameMap
<1>3. pc[p] = "idle" /\ pc' = [pc EXCEPT ![p] = "find"] /\ pc \in [Procs -> {"idle", "find", "add", "done"}]
  BY DEF Call, Inv, TypeOK
<1>4. Phase[p] = "idle" /\ Phase' = [Phase EXCEPT ![p] = "called"]
  BY <1>3 DEF Phase
<1>5. \E c \in Calls : call' = [call EXCEPT ![p] = c]
  BY DEF Call
<1> QED BY <1>1, <1>2, <1>4, <1>5 DEF Flat!Call, Flat!Calls, Calls, Phase, Map

LEMMA FindFlat ==
  ASSUME Inv, NEW p \in Procs, FindServer(p)
  PROVE  Flat!Effect(p) \/ UNCHANGED Flat!vars
<1>1. UNCHANGED <<manager, logicMap, used, call, result>> /\ pc[p] = "find" /\ depth[p] < 4
      /\ pc \in [Procs -> {"idle", "find", "add", "done"}]
      /\ result \in [Procs -> Conns \cup {None}]
  BY DEF FindServer, Inv, TypeOK
<1>2. Map' = Map
  BY <1>1, SameMap
<1>3. CASE pc' = pc
  BY <1>1, <1>2, <1>3 DEF Flat!vars, Map
<1>4. CASE pc' = [pc EXCEPT ![p] = "add"]
  <2>1. Phase' = Phase
    BY <1>1, <1>4 DEF Phase
  <2> QED BY <1>1, <1>2, <2>1 DEF Flat!vars, Map, Phase
<1>5. CASE pc' = [pc EXCEPT ![p] = "done"] /\ call[p].op # "insert"
           /\ manager[depth[p]][at[p]][Key(p)] = None
  <2>1. Phase[p] = "called" /\ Phase' = [Phase EXCEPT ![p] = "done"]
    BY <1>1, <1>5 DEF Phase
  <2>2. call[p].path \in Paths /\ call[p].op \in {"remove", "get"}
    BY <1>1, <1>5, CallType DEF Inv
  <2>3. ConnOf(call[p].path) = None
    <3>1. depth[p] \in 1 .. 3 /\ at[p] = Way(call[p].path)[depth[p]]
          /\ at[p] \in Nodes /\ at[p] # None
      BY <1>1 DEF Inv, TypeOK, OnTheWay
    <3>2. /\ Way(call[p].path)[1] = Root /\ Way(call[p].path)[2] = Game(call[p].path)
          /\ Way(call[p].path)[3] = Level(call[p].path)
          /\ \A d \in 1 .. 4 : call[p].path[d] \in Keys
      BY <2>2, WayType DEF Inv
    <3>3. CASE depth[p] = 1
      BY <3>1, <3>2, <3>3, <1>5 DEF ConnOf, Bottom, Level, Game, Key
    <3>4. CASE depth[p] = 2
      BY <3>1, <3>2, <3>4, <1>5 DEF ConnOf, Bottom, Level, Key
    <3>5. CASE depth[p] = 3
      BY <3>1, <3>2, <3>5, <1>5 DEF ConnOf, Bottom, Key
    <3> QED BY <3>1, <3>3, <3>4, <3>5
  <2>4. Map[call[p].path] = None
    BY <2>2, <2>3 DEF Map
  <2>5. Map = [Map EXCEPT ![call[p].path] = None]
    BY <2>4 DEF Map
  <2>6. call[p].op = "get" => result = [result EXCEPT ![p] = Map[call[p].path]]
    BY <1>1, <2>4 DEF Inv, Unanswered
  <2>7. CASE call[p].op = "remove"
    BY <2>7, <1>1, <1>2, <2>1, <2>5 DEF Flat!Effect, Map, Phase
  <2>8. CASE call[p].op = "get"
    BY <2>8, <1>1, <1>2, <2>1, <2>6 DEF Flat!Effect, Map, Phase
  <2> QED BY <2>2, <2>7, <2>8
<1> QED BY <1>3, <1>4, <1>5 DEF FindServer

LEMMA AddFlat == ASSUME Inv, NEW p \in Procs, Add(p) PROVE UNCHANGED Flat!vars
<1>1. PICK n \in Nodes \ used :
        manager' = [manager EXCEPT ![depth[p]][at[p]][Key(p)] = n]
  BY DEF Add
<1>2. pc[p] = "add" /\ pc' = [pc EXCEPT ![p] = "find"] /\ UNCHANGED <<logicMap, call, result>>
      /\ pc \in [Procs -> {"idle", "find", "add", "done"}]
  BY DEF Add, Inv, TypeOK
<1>3. \A q \in Paths : ConnOf(q)' = ConnOf(q)
  BY <1>1, <1>2, AddKeeps
<1>4. Map' = Map
  BY <1>3 DEF Map
<1>5. Phase' = Phase
  BY <1>2 DEF Phase
<1> QED BY <1>2, <1>4, <1>5 DEF Flat!vars, Map, Phase

LEMMA LogicFlat == ASSUME Inv, NEW p \in Procs, Logic(p) PROVE Flat!Effect(p)
<1> DEFINE c == call[p]
           r == c.path
<1>1. pc[p] = "find" /\ depth[p] = 4 /\ pc' = [pc EXCEPT ![p] = "done"]
      /\ UNCHANGED <<manager, call>>
      /\ pc \in [Procs -> {"idle", "find", "add", "done"}]
  BY DEF Logic, Inv, TypeOK
<1>2. Phase[p] = "called" /\ Phase' = [Phase EXCEPT ![p] = "done"]
  BY <1>1 DEF Phase
<1>3. r \in Paths /\ c.op \in {"insert", "remove", "get"} /\ \A d \in 1 .. 4 : r[d] \in Keys
  BY <1>1, CallType DEF Inv
<1>4. at[p] = Bottom(r) /\ at[p] \in Nodes /\ at[p] # None /\ Key(p) = r[4]
  BY <1>1, <1>3, WayType DEF Inv, OnTheWay, TypeOK, Key
<1>5. Map[r] = logicMap[at[p]][Key(p)]
  BY <1>3, <1>4 DEF Map, ConnOf
<1>6. ASSUME NEW v, logicMap' = [logicMap EXCEPT ![at[p]][Key(p)] = v]
      PROVE  Map' = [Map EXCEPT ![r] = v]
  <2>1. logicMap \in [Nodes -> [Keys -> Conns \cup {None}]]
    BY DEF Inv, TypeOK
  <2>2. \A m \in Nodes, k \in Keys :
          logicMap'[m][k] = IF m = at[p] /\ k = Key(p) THEN v ELSE logicMap[m][k]
    BY <1>6, <2>1, <1>3, <1>4
  <2>3. ASSUME NEW q \in Paths PROVE ConnOf(q)' = IF q = r THEN v ELSE ConnOf(q)
    <3>1. Bottom(q)' = Bottom(q) /\ Bottom(q) \in Nodes \cup {None}
          /\ \A d \in 1 .. 4 : q[d] \in Keys
      BY <1>1, WayType DEF Inv, Bottom, Level, Game
    <3>2. Bottom(q) = at[p] /\ q[4] = Key(p) => q = r
      BY <1>3, <1>4, OnePath DEF Inv
    <3>3. CASE Bottom(q) = None
      BY <3>1, <3>3, <1>4 DEF ConnOf
    <3>4. CASE Bottom(q) # None
      BY <3>1, <3>2, <3>4, <2>2, <1>4 DEF ConnOf
    <3> QED BY <3>3, <3>4
  <2> QED BY <2>3, <1>3 DEF Map
<1>7. CASE c.op = "insert"
  <2>1. logicMap' = [logicMap EXCEPT ![at[p]][Key(p)] = c.conn] /\ result' = result
    BY <1>7 DEF Logic
  <2>2. Map' = [Map EXCEPT ![r] = c.conn]
    BY <2>1, <1>6
  <2> QED BY <1>1, <1>2, <1>7, <2>1, <2>2 DEF Flat!Effect, Map, Phase
<1>8. CASE c.op = "remove"
  <2>1. logicMap' = [logicMap EXCEPT ![at[p]][Key(p)] = None] /\ result' = result
    BY <1>8 DEF Logic
  <2>2. Map' = [Map EXCEPT ![r] = None]
    BY <2>1, <1>6
  <2> QED BY <1>1, <1>2, <1>8, <2>1, <2>2 DEF Flat!Effect, Map, Phase
<1>9. CASE c.op = "get"
  <2>1. logicMap' = logicMap /\ result' = [result EXCEPT ![p] = logicMap[at[p]][Key(p)]]
    BY <1>9 DEF Logic
  <2>2. Map' = Map /\ result' = [result EXCEPT ![p] = Map[r]]
    BY <2>1, <1>1, <1>5, SameMap
  <2> QED BY <1>1, <1>2, <1>9, <2>2 DEF Flat!Effect, Map, Phase
<1> QED BY <1>3, <1>7, <1>8, <1>9

LEMMA ReturnFlat == ASSUME Inv, NEW p \in Procs, Return(p) PROVE Flat!Return(p)
<1>1. Map' = Map
  BY SameMap DEF Return
<1>2. pc[p] = "done" /\ pc' = [pc EXCEPT ![p] = "idle"] /\ pc \in [Procs -> {"idle", "find", "add", "done"}]
  BY DEF Return, Inv, TypeOK
<1>3. Phase[p] = "done" /\ Phase' = [Phase EXCEPT ![p] = "idle"]
  BY <1>2 DEF Phase
<1>4. call' = [call EXCEPT ![p] = NoCall] /\ result' = [result EXCEPT ![p] = None]
  BY DEF Return
<1> QED BY <1>1, <1>3, <1>4 DEF Flat!Return, Flat!NoCall, NoCall, Map, Phase

LEMMA FlatInit == Init => Flat!Init
<1> SUFFICES ASSUME Init PROVE Flat!Init
  OBVIOUS
<1>1. \A q \in Paths : ConnOf(q) = None
  <2>1. \A q \in Paths : q[1] \in Keys
    OBVIOUS
  <2> QED BY <2>1 DEF Init, ConnOf, Bottom, Level, Game
<1>2. Map = [path \in Paths |-> None]
  BY <1>1 DEF Map
<1>3. Phase = [p \in Procs |-> "idle"]
  BY DEF Init, Phase
<1>4. call = [p \in Procs |-> NoCall] /\ result = [p \in Procs |-> None]
  BY DEF Init
<1> QED BY <1>2, <1>3, <1>4 DEF Flat!Init, Flat!NoCall, NoCall, Map, Phase

LEMMA FlatStep == Inv /\ [Next /\ Apart']_vars => [Flat!Next]_Flat!vars
<1> SUFFICES ASSUME Inv, [Next /\ Apart']_vars PROVE [Flat!Next]_Flat!vars
  OBVIOUS
<1>1. CASE UNCHANGED vars
  <2>1. Map' = Map
    BY <1>1, SameMap DEF vars
  <2> QED BY <1>1, <2>1 DEF vars, Flat!vars, Map
<1>2. CASE Next
  BY <1>2, CallFlat, FindFlat, AddFlat, LogicFlat, ReturnFlat DEF Next, Flat!Next
<1> QED BY <1>1, <1>2

(* The registry is one map, however many goroutines insert, remove and     *)
(* look up servers, as long as no two of them make the same manager at the *)
(* same time: every call takes effect at one moment between its beginning  *)
(* and its return.                                                         *)
THEOREM RegistryImplements == ApartSpec => ImplementsFlatMap
<1> QED BY FlatInit, RegistryInv, FlatStep, PTL DEF ApartSpec, ImplementsFlatMap, Flat!Spec
=============================================================================
