------------------------------ MODULE Counter ------------------------------
(***************************************************************************)
(* What the comments of common/atomic.go promise: a number of W values on  *)
(* which every operation takes effect at one moment between its call and   *)
(* its return.                                                             *)
(***************************************************************************)
EXTENDS Integers

CONSTANTS Procs, W, Args

VARIABLES
  value,
  phase,  (* of each goroutine: "idle", "called" or "done"                 *)
  call,   (* the operation it has called                                   *)
  result  (* what the operation returns; 0 and 1 are false and true        *)

vars == <<value, phase, call, result>>

Ops == {"Get", "Set", "GetAndSet", "GetAndIncrement", "GetAndDecrement", "GetAndAdd",
        "IncrementAndGet", "DecrementAndGet", "AddAndGet", "CompareAndSet"}
Calls == [op : Ops, arg : Args, expect : Args]
NoCall == [op |-> "none"]

After(c, v) ==
  CASE c.op = "Get" -> v
    [] c.op \in {"Set", "GetAndSet"} -> c.arg
    [] c.op \in {"GetAndIncrement", "IncrementAndGet"} -> (v + 1) % W
    [] c.op \in {"GetAndDecrement", "DecrementAndGet"} -> (v - 1) % W
    [] c.op \in {"GetAndAdd", "AddAndGet"} -> (v + c.arg) % W
    [] c.op = "CompareAndSet" -> IF v = c.expect THEN c.arg ELSE v

Answer(c, v) ==
  CASE c.op = "Set" -> 0
    [] c.op \in {"Get", "GetAndSet", "GetAndIncrement", "GetAndDecrement", "GetAndAdd"} -> v
    [] c.op \in {"IncrementAndGet", "DecrementAndGet", "AddAndGet"} -> After(c, v)
    [] c.op = "CompareAndSet" -> IF v = c.expect THEN 1 ELSE 0

Init ==
  /\ value \in 0 .. W - 1
  /\ phase = [p \in Procs |-> "idle"]
  /\ call = [p \in Procs |-> NoCall]
  /\ result = [p \in Procs |-> 0]

Call(p) ==
  /\ phase[p] = "idle"
  /\ phase' = [phase EXCEPT ![p] = "called"]
  /\ \E c \in Calls : call' = [call EXCEPT ![p] = c]
  /\ UNCHANGED <<value, result>>

Effect(p) ==
  /\ phase[p] = "called"
  /\ phase' = [phase EXCEPT ![p] = "done"]
  /\ value' = After(call[p], value)
  /\ result' = [result EXCEPT ![p] = Answer(call[p], value)]
  /\ UNCHANGED call

Return(p) ==
  /\ phase[p] = "done"
  /\ phase' = [phase EXCEPT ![p] = "idle"]
  /\ call' = [call EXCEPT ![p] = NoCall]
  /\ result' = [result EXCEPT ![p] = 0]
  /\ UNCHANGED value

Next == \E p \in Procs : Call(p) \/ Effect(p) \/ Return(p)
Spec == Init /\ [][Next]_vars
=============================================================================
