------------------------------ MODULE Atomics ------------------------------
(***************************************************************************)
(* common/atomic.go: AtomicUint64, AtomicUint32 and, with W = 2, the       *)
(* AtomicBoolean.  Set and CompareAndSet are instructions of the machine;  *)
(* the other operations read the value and try CompareAndSet until it      *)
(* succeeds.  They read it with Get, a plain load that races with the      *)
(* stores of other goroutines: where a load is wider than the machine's    *)
(* word it is two loads, of the halves, in either order.                   *)
(***************************************************************************)
EXTENDS Integers

CONSTANTS
  Procs,   (* goroutines                                                   *)
  W,       (* the number of values: 2^64, 2^32 or 2                        *)
  Halves,  (* the number of values of what one load reads, of every build  *)
  Args     (* the values that the operations are called with               *)

ASSUME AtomicsAssumption ==
  /\ W \in Nat \ {0} /\ Args \subseteq 0 .. W - 1
  /\ Halves \subseteq 1 .. W

None == -1

VARIABLES
  half,       (* the number of values of what one load of the build reads  *)
  value,      (* *a                                                        *)
  pc,         (* where each goroutine stands                               *)
  call,       (* the operation it has called                               *)
  low, high,  (* the halves that its Get has read                          *)
  result      (* what the operation returns; 0 and 1 are false and true    *)

vars == <<half, value, pc, call, low, high, result>>

Values == 0 .. W - 1
Ops == {"Get", "Set", "GetAndSet", "GetAndIncrement", "GetAndDecrement", "GetAndAdd",
        "IncrementAndGet", "DecrementAndGet", "AddAndGet", "CompareAndSet"}
Calls == [op : Ops, arg : Args, expect : Args]
NoCall == [op |-> "none"]

Init ==
  /\ half \in Halves
  /\ value \in Values
  /\ pc = [p \in Procs |-> "idle"]
  /\ call = [p \in Procs |-> NoCall]
  /\ low = [p \in Procs |-> None] /\ high = [p \in Procs |-> None]
  /\ result = [p \in Procs |-> 0]

Call(p) ==
  /\ pc[p] = "idle"
  /\ \E c \in Calls :
       /\ call' = [call EXCEPT ![p] = c]
       /\ pc' = [pc EXCEPT ![p] = IF c.op \in {"Set", "CompareAndSet"} THEN "store" ELSE "get"]
  /\ UNCHANGED <<half, value, low, high, result>>

(* StoreUint64 and CompareAndSwapUint64.                                   *)
Set(p) ==
  /\ pc[p] = "store" /\ call[p].op = "Set"
  /\ value' = call[p].arg
  /\ pc' = [pc EXCEPT ![p] = "done"]
  /\ UNCHANGED <<half, call, low, high, result>>

CompareAndSet(p) ==
  /\ pc[p] = "store" /\ call[p].op = "CompareAndSet"
  /\ value' = IF value = call[p].expect THEN call[p].arg ELSE value
  /\ result' = [result EXCEPT ![p] = IF value = call[p].expect THEN 1 ELSE 0]
  /\ pc' = [pc EXCEPT ![p] = "done"]
  /\ UNCHANGED <<half, call, low, high>>

(* The load of Get, by halves.                                             *)
LoadLow(p) ==
  /\ pc[p] = "get" /\ low[p] = None
  /\ low' = [low EXCEPT ![p] = value % half]
  /\ UNCHANGED <<half, value, pc, call, high, result>>

LoadHigh(p) ==
  /\ pc[p] = "get" /\ high[p] = None
  /\ high' = [high EXCEPT ![p] = value \div half]
  /\ UNCHANGED <<half, value, pc, call, low, result>>

current(p) == low[p] + half * high[p]
Loaded(p)  == pc[p] = "get" /\ low[p] # None /\ high[p] # None

Get(p) ==
  /\ Loaded(p) /\ call[p].op = "Get"
  /\ result' = [result EXCEPT ![p] = current(p)]
  /\ pc' = [pc EXCEPT ![p] = "done"]
  /\ UNCHANGED <<half, value, call, low, high>>

(* What the loops compute from what they have read, and what they return.  *)
next(c, v) ==
  CASE c.op = "GetAndSet" -> c.arg
    [] c.op \in {"GetAndIncrement", "IncrementAndGet"} -> (v + 1) % W
    [] c.op \in {"GetAndDecrement", "DecrementAndGet"} -> (v - 1) % W
    [] c.op \in {"GetAndAdd", "AddAndGet"} -> (v + c.arg) % W

Returned(c, v) ==
  IF c.op \in {"IncrementAndGet", "DecrementAndGet", "AddAndGet"} THEN next(c, v) ELSE v

(* One turn of a loop ends: CompareAndSet succeeds, or the value is read   *)
(* again.  Mutants: what another goroutine has stored in the meantime is   *)
(* overwritten; the value is not read again.                               *)
TryBlindly(p) ==
  /\ Loaded(p) /\ call[p].op # "Get"
  /\ value' = next(call[p], current(p))
  /\ result' = [result EXCEPT ![p] = Returned(call[p], current(p))]
  /\ pc' = [pc EXCEPT ![p] = "done"]
  /\ UNCHANGED <<half, call, low, high>>
TryAgain(p) ==
  /\ Loaded(p) /\ call[p].op # "Get" /\ value = current(p)
  /\ value' = next(call[p], current(p))
  /\ result' = [result EXCEPT ![p] = Returned(call[p], current(p))]
  /\ pc' = [pc EXCEPT ![p] = "done"]
  /\ UNCHANGED <<half, call, low, high>>
Try(p) ==
  /\ Loaded(p) /\ call[p].op # "Get"
  /\ IF value = current(p)
       THEN /\ value' = next(call[p], current(p))
            /\ result' = [result EXCEPT ![p] = Returned(call[p], current(p))]
            /\ pc' = [pc EXCEPT ![p] = "done"]
            /\ UNCHANGED <<low, high>>
       ELSE /\ low' = [low EXCEPT ![p] = None]
            /\ high' = [high EXCEPT ![p] = None]
            /\ UNCHANGED <<value, result, pc>>
  /\ UNCHANGED <<half, call>>

Return(p) ==
  /\ pc[p] = "done"
  /\ pc' = [pc EXCEPT ![p] = "idle"]
  /\ call' = [call EXCEPT ![p] = NoCall]
  /\ low' = [low EXCEPT ![p] = None]
  /\ high' = [high EXCEPT ![p] = None]
  /\ result' = [result EXCEPT ![p] = 0]
  /\ UNCHANGED <<half, value>>

Step(p) == Set(p) \/ CompareAndSet(p) \/ LoadLow(p) \/ LoadHigh(p) \/ Get(p) \/ Try(p) \/ Return(p)
Next == \E p \in Procs : Call(p) \/ Step(p)

(* A goroutine that has called an operation goes on with it.               *)
Spec == Init /\ [][Next]_vars /\ \A p \in Procs : WF_vars(Step(p))

(* The builds on which a load reads the whole value, unless it is for one  *)
(* of the loops.                                                           *)
Whole == half = W \/ \A p \in Procs : call[p].op # "Get"
WholeSpec == Init /\ [][Next /\ Whole']_vars /\ \A p \in Procs : WF_vars(Step(p))

-----------------------------------------------------------------------------
TypeOK ==
  /\ half \in Halves
  /\ value \in Values
  /\ pc \in [Procs -> {"idle", "store", "get", "done"}]
  /\ call \in [Procs -> Calls \cup {NoCall}]
  /\ low \in [Procs -> Values \cup {None}]
  /\ high \in [Procs -> Values \cup {None}]
  /\ result \in [Procs -> Nat]

(* Every operation takes effect at one moment: the loops when their        *)
(* CompareAndSet succeeds, whatever they had read, and Get when it loads.  *)
Got(p) == pc[p] = "get" /\ call[p].op = "Get" /\ low[p] # None
Abstract == INSTANCE Counter WITH
  phase  <- [p \in Procs |-> IF pc[p] \in {"idle", "done"} THEN pc[p]
                             ELSE IF Got(p) THEN "done" ELSE "called"],
  result <- [p \in Procs |-> IF Got(p) THEN low[p] ELSE result[p]]
ImplementsCounter == Abstract!Spec

(* The loops are free of locks: one goroutine after another comes to the   *)
(* end of its operation, unless from some time on they are all idle again  *)
(* and again; none keeps the others from it by failing itself.             *)
LockFree ==
  \/ []<>(\A p \in Procs : pc[p] = "idle")
  \/ \E p \in Procs : []<>(pc[p] = "done")
=============================================================================
