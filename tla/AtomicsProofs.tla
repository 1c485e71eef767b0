--------------------------- MODULE AtomicsProofs ---------------------------
(***************************************************************************)
(* For any number of goroutines, any width of the value and any split of   *)
(* it into halves: every operation of common/atomic.go takes effect at one *)
(* moment, where Get's load reads the whole value or only feeds a loop.    *)
(***************************************************************************)
EXTENDS Atomics, TLAPS

USE AtomicsAssumption

(* What a goroutine that stands somewhere has called and read.             *)
Standing(p) ==
  /\ pc[p] = "idle" => call[p] = NoCall
  /\ pc[p] # "idle" => call[p] \in Calls
  /\ pc[p] = "store" => call[p].op \in {"Set", "CompareAndSet"}
  /\ pc[p] = "get" => call[p].op \notin {"Set", "CompareAndSet"}
  /\ pc[p] \in {"idle", "store"} => low[p] = None /\ high[p] = None
  /\ pc[p] # "done" => result[p] = 0

(* What a Get that reads the whole value has read.                         *)
ReadWhole(p) == (pc[p] = "get" /\ call[p].op = "Get") => high[p] \in {None, 0}

Inv == TypeOK /\ Whole /\ \A p \in Procs : Standing(p) /\ ReadWhole(p)

-----------------------------------------------------------------------------
(* The halves of a value are values, and the only half is the value.       *)
LEMMA Divided ==
  ASSUME NEW v \in Values, NEW h \in 1 .. W
  PROVE  v % h \in Values /\ v \div h \in Values
<1>1. v \in Nat /\ h \in Nat /\ h > 0 /\ v < W
  BY DEF Values
<1>2. v % h \in 0 .. h - 1
  BY <1>1
<1>3. v \div h \in Int /\ v = h * (v \div h) + (v % h)
  BY <1>1
<1>4. v \div h >= 0
  BY <1>1, <1>2, <1>3
<1>5. v \div h <= h * (v \div h)
  BY <1>1, <1>3, <1>4
<1> QED BY <1>1, <1>2, <1>3, <1>4, <1>5 DEF Values

LEMMA Undivided ==
  ASSUME NEW v \in Values
  PROVE  v % W = v /\ v \div W = 0
BY DEF Values

(* What the operations store and return.                                   *)
LEMMA CallTypes ==
  ASSUME NEW c \in Calls
  PROVE  c.op \in Ops /\ c.arg \in Values /\ c.expect \in Values
BY DEF Calls, Values

LEMMA NextType ==
  ASSUME NEW c \in Calls, NEW v \in Values,
         c.op \notin {"Get", "Set", "CompareAndSet"}
  PROVE  next(c, v) \in Values /\ Returned(c, v) \in Values
<1>1. c.op \in Ops /\ c.arg \in Values
  BY CallTypes
<1>2. (v + 1) % W \in Values /\ (v - 1) % W \in Values /\ (v + c.arg) % W \in Values
  BY <1>1 DEF Values
<1>3. next(c, v) \in Values
  BY <1>1, <1>2 DEF next, Ops
<1> QED BY <1>3 DEF Returned

-----------------------------------------------------------------------------
LEMMA InvInit == Init => Inv
<1> SUFFICES ASSUME Init PROVE Inv
  OBVIOUS
<1>1. TypeOK
  BY DEF Init, TypeOK
<1>2. Whole
  BY DEF Init, Whole, NoCall
<1>3. \A p \in Procs : Standing(p) /\ ReadWhole(p)
  BY DEF Init, Standing, ReadWhole, NoCall
<1> QED BY <1>1, <1>2, <1>3 DEF Inv

(* A step of p leaves what the others have called and read alone.          *)
LEMMA Others ==
  ASSUME Inv, NEW p \in Procs, Call(p) \/ Step(p), NEW q \in Procs, q # p
  PROVE  /\ pc'[q] = pc[q] /\ call'[q] = call[q] /\ result'[q] = result[q]
         /\ low'[q] = low[q] /\ high'[q] = high[q]
<1> USE DEF Inv, TypeOK
<1>1. CASE Call(p)
  BY <1>1 DEF Call
<1>2. CASE Set(p)
  BY <1>2 DEF Set
<1>3. CASE CompareAndSet(p)
  BY <1>3 DEF CompareAndSet
<1>4. CASE LoadLow(p)
  BY <1>4 DEF LoadLow
<1>5. CASE LoadHigh(p)
  BY <1>5 DEF LoadHigh
<1>6. CASE Get(p)
  BY <1>6 DEF Get
<1>7. CASE Try(p)
  BY <1>7 DEF Try
<1>8. CASE Return(p)
  BY <1>8 DEF Return
<1> QED BY <1>1, <1>2, <1>3, <1>4, <1>5, <1>6, <1>7, <1>8 DEF Step

LEMMA InvOfSelf ==
  ASSUME Inv, NEW p \in Procs, Call(p) \/ Step(p), Whole'
  PROVE  TypeOK' /\ (Standing(p) /\ ReadWhole(p))'
<1> USE DEF Inv
<1>0. half \in 1 .. W /\ value \in Values /\ Standing(p) /\ ReadWhole(p)
  BY DEF TypeOK
<1>1. CASE Call(p)
  <2>1. PICK c \in Calls :
          /\ call' = [call EXCEPT ![p] = c]
          /\ pc' = [pc EXCEPT ![p] = IF c.op \in {"Set", "CompareAndSet"} THEN "store" ELSE "get"]
    BY <1>1 DEF Call
  <2>2. pc[p] = "idle" /\ UNCHANGED <<half, value, low, high, result>>
    BY <1>1 DEF Call
  <2>3. TypeOK'
    BY <2>1, <2>2 DEF TypeOK
  <2>4. call'[p] = c /\ pc'[p] = IF c.op \in {"Set", "CompareAndSet"} THEN "store" ELSE "get"
    BY <2>1 DEF TypeOK
  <2>5. high[p] = None
    BY <2>2, <1>0 DEF Standing
  <2> QED BY <2>2, <2>3, <2>4, <2>5, <1>0 DEF Standing, ReadWhole
<1>2. CASE Set(p)
  <2>1. call[p].arg \in Values
    BY <1>2, <1>0, CallTypes DEF Set, Standing
  <2>2. TypeOK'
    BY <1>2, <2>1 DEF Set, TypeOK
  <2> QED BY <1>2, <2>2, <1>0 DEF Set, TypeOK, Standing, ReadWhole
<1>3. CASE CompareAndSet(p)
  <2>1. call[p].arg \in Values
    BY <1>3, <1>0, CallTypes DEF CompareAndSet, Standing
  <2>2. TypeOK'
    BY <1>3, <2>1 DEF CompareAndSet, TypeOK
  <2> QED BY <1>3, <2>2, <1>0 DEF CompareAndSet, TypeOK, Standing, ReadWhole
<1>4. CASE LoadLow(p)
  <2>1. value % half \in Values
    BY <1>0, Divided
  <2>2. TypeOK'
    BY <1>4, <2>1 DEF LoadLow, TypeOK
  <2> QED BY <1>4, <2>2, <1>0 DEF LoadLow, TypeOK, Standing, ReadWhole
<1>5. CASE LoadHigh(p)
  <2>1. value \div half \in Values
    BY <1>0, Divided
  <2>2. TypeOK'
    BY <1>5, <2>1 DEF LoadHigh, TypeOK
  <2>3. call[p].op = "Get" => value \div half = 0
    BY <1>0, Undivided DEF Whole
  <2> QED BY <1>5, <2>2, <2>3, <1>0 DEF LoadHigh, TypeOK, Standing, ReadWhole
<1>6. CASE Get(p)
  <2>1. low[p] \in Nat /\ high[p] = 0
    BY <1>6, <1>0 DEF Get, Loaded, ReadWhole, TypeOK, Values
  <2>2. current(p) = low[p]
    BY <2>1, <1>0 DEF current
  <2>3. TypeOK'
    BY <1>6, <2>1, <2>2 DEF Get, TypeOK
  <2>4. pc[p] = "get" /\ pc'[p] = "done" /\ call' = call
    BY <1>6 DEF Get, Loaded, TypeOK
  <2> QED BY <2>3, <2>4, <1>0 DEF Standing, ReadWhole
<1>7. CASE Try(p)
  <2>1. call[p] \in Calls /\ call[p].op \notin {"Get", "Set", "CompareAndSet"} /\ pc[p] = "get"
    BY <1>7, <1>0 DEF Try, Loaded, Standing
  <2>2. CASE value = current(p)
    <3>1. next(call[p], current(p)) \in Values /\ Returned(call[p], current(p)) \in Nat
      BY <2>1, <2>2, <1>0, NextType DEF Values
    <3>2. TypeOK'
      BY <1>7, <2>2, <3>1 DEF Try, TypeOK
    <3> QED BY <1>7, <2>1, <2>2, <3>2, <1>0 DEF Try, TypeOK, Standing, ReadWhole
  <2>3. CASE value # current(p)
    <3>1. TypeOK'
      BY <1>7, <2>3 DEF Try, TypeOK
    <3> QED BY <1>7, <2>1, <2>3, <3>1, <1>0 DEF Try, TypeOK, Standing, ReadWhole
  <2> QED BY <2>2, <2>3
<1>8. CASE Return(p)
  <2>1. TypeOK'
    BY <1>8 DEF Return, TypeOK
  <2> QED BY <1>8, <2>1, <1>0 DEF Return, TypeOK, Standing, ReadWhole
<1> QED BY <1>1, <1>2, <1>3, <1>4, <1>5, <1>6, <1>7, <1>8 DEF Step

LEMMA InvNext == Inv /\ [Next /\ Whole']_vars => Inv'
<1> SUFFICES ASSUME Inv, [Next /\ Whole']_vars PROVE Inv'
  OBVIOUS
<1>1. CASE UNCHANGED vars
  BY <1>1 DEF vars, Inv, TypeOK, Whole, Standing, ReadWhole
<1>2. CASE Next /\ Whole'
  <2>1. PICK p \in Procs : Call(p) \/ Step(p)
    BY <1>2 DEF Next
  <2>2. TypeOK' /\ (Standing(p) /\ ReadWhole(p))'
    BY <1>2, <2>1, InvOfSelf
  <2>3. ASSUME NEW q \in Procs, q # p PROVE (Standing(q) /\ ReadWhole(q))'
    <3>1. Standing(q) /\ ReadWhole(q)
      BY DEF Inv
    <3> QED BY <3>1, <2>1, <2>3, Others DEF Standing, ReadWhole
  <2> QED BY <1>2, <2>2, <2>3 DEF Inv
<1> QED BY <1>1, <1>2

THEOREM AtomicsInv == WholeSpec => []Inv
<1> QED BY InvInit, InvNext, PTL DEF WholeSpec

(* The value stays within its width, whatever is added to it or subtracted *)
(* from it.                                                                *)
THEOREM AtomicsTypeOK == WholeSpec => []TypeOK
<1>1. Inv => TypeOK
  BY DEF Inv
<1> QED BY <1>1, AtomicsInv, PTL

-----------------------------------------------------------------------------
(* The refinement.                                                         *)
PhaseOf(p) == IF pc[p] \in {"idle", "done"} THEN pc[p]
              ELSE IF Got(p) THEN "done" ELSE "called"
ResultOf(p) == IF Got(p) THEN low[p] ELSE result[p]
Phase  == [p \in Procs |-> PhaseOf(p)]
Result == [p \in Procs |-> ResultOf(p)]

(* A step of p maps to what it does to the phase and the result of p.      *)
LEMMA Mapped ==
  ASSUME Inv, NEW p \in Procs, Call(p) \/ Step(p)
  PROVE  /\ Phase' = [Phase EXCEPT ![p] = PhaseOf(p)']
         /\ Result' = [Result EXCEPT ![p] = ResultOf(p)']
         /\ Phase[p] = PhaseOf(p) /\ Result[p] = ResultOf(p)
<1>1. \A q \in Procs : q # p => PhaseOf(q)' = PhaseOf(q) /\ ResultOf(q)' = ResultOf(q)
  BY Others DEF PhaseOf, ResultOf, Got
<1> QED BY <1>1 DEF Phase, Result

LEMMA StepEffect ==
  ASSUME Inv, NEW p \in Procs, Step(p), PhaseOf(p) = "called", PhaseOf(p)' = "done",
         value' = Abstract!After(call[p], value),
         ResultOf(p)' = Abstract!Answer(call[p], value), call' = call
  PROVE  Abstract!Effect(p)
BY Mapped DEF Abstract!Effect, Phase, Result, PhaseOf, ResultOf

LEMMA StepStutter ==
  ASSUME Inv, NEW p \in Procs, Step(p), PhaseOf(p)' = PhaseOf(p),
         ResultOf(p)' = ResultOf(p), UNCHANGED <<value, call>>
  PROVE  UNCHANGED Abstract!vars
<1>1. Phase' = Phase /\ Result' = Result
  BY Mapped DEF Phase, Result
<1> QED BY <1>1 DEF Abstract!vars, Phase, Result, PhaseOf, ResultOf

LEMMA CallMaps == ASSUME Inv, NEW p \in Procs, Call(p) PROVE Abstract!Call(p)
<1>1. PICK c \in Calls :
        /\ call' = [call EXCEPT ![p] = c]
        /\ pc' = [pc EXCEPT ![p] = IF c.op \in {"Set", "CompareAndSet"} THEN "store" ELSE "get"]
  BY DEF Call
<1>2. pc[p] = "idle" /\ low[p] = None /\ UNCHANGED <<value, low, result>>
  BY DEF Call, Inv, Standing
<1>3. pc'[p] \in {"store", "get"}
  BY <1>1 DEF Inv, TypeOK
<1>4. PhaseOf(p) = "idle" /\ PhaseOf(p)' = "called" /\ ResultOf(p)' = ResultOf(p)
  BY <1>2, <1>3 DEF PhaseOf, ResultOf, Got
<1>5. Phase[p] = "idle" /\ Phase' = [Phase EXCEPT ![p] = "called"] /\ Result' = Result
  BY <1>4, Mapped DEF Result
<1>6. Abstract!Calls = Calls
  BY DEF Abstract!Calls, Calls, Abstract!Ops, Ops
<1> QED BY <1>1, <1>2, <1>5, <1>6 DEF Abstract!Call, Phase, Result, PhaseOf, ResultOf

LEMMA ReturnMaps == ASSUME Inv, NEW p \in Procs, Return(p) PROVE Abstract!Return(p)
<1>1. pc[p] = "done" /\ pc'[p] = "idle" /\ result'[p] = 0
  BY DEF Return, Inv, TypeOK
<1>2. PhaseOf(p) = "done" /\ PhaseOf(p)' = "idle" /\ ResultOf(p)' = 0
  BY <1>1 DEF PhaseOf, ResultOf, Got
<1>3. Phase[p] = "done" /\ Phase' = [Phase EXCEPT ![p] = "idle"]
      /\ Result' = [Result EXCEPT ![p] = 0]
  BY <1>2, Mapped DEF Step
<1>4. call' = [call EXCEPT ![p] = NoCall] /\ value' = value
  BY DEF Return
<1> QED BY <1>3, <1>4 DEF Abstract!Return, Abstract!NoCall, NoCall, Phase, Result, PhaseOf, ResultOf

LEMMA StepMaps ==
  ASSUME Inv, NEW p \in Procs, Step(p)
  PROVE  Abstract!Effect(p) \/ Abstract!Return(p) \/ UNCHANGED Abstract!vars
<1>0. Standing(p) /\ ReadWhole(p) /\ pc[p] \in {"idle", "store", "get", "done"}
      /\ half \in 1 .. W /\ value \in Values
  BY DEF Inv, TypeOK
<1>1. CASE Set(p)
  <2>1. call[p].op = "Set" /\ pc[p] = "store" /\ pc'[p] = "done" /\ call' = call
        /\ value' = call[p].arg /\ result'[p] = 0
    BY <1>1, <1>0 DEF Set, Inv, TypeOK, Standing
  <2>2. PhaseOf(p) = "called" /\ PhaseOf(p)' = "done" /\ ResultOf(p)' = 0
    BY <2>1 DEF PhaseOf, ResultOf, Got
  <2>3. Abstract!After(call[p], value) = call[p].arg /\ Abstract!Answer(call[p], value) = 0
    BY <2>1 DEF Abstract!After, Abstract!Answer
  <2> QED BY <2>1, <2>2, <2>3, StepEffect
<1>2. CASE CompareAndSet(p)
  <2>1. call[p].op = "CompareAndSet" /\ pc[p] = "store" /\ pc'[p] = "done" /\ call' = call
        /\ value' = (IF value = call[p].expect THEN call[p].arg ELSE value)
        /\ result'[p] = IF value = call[p].expect THEN 1 ELSE 0
    BY <1>2, <1>0 DEF CompareAndSet, Inv, TypeOK, Standing
  <2>2. PhaseOf(p) = "called" /\ PhaseOf(p)' = "done" /\ ResultOf(p)' = result'[p]
    BY <2>1 DEF PhaseOf, ResultOf, Got
  <2>3. /\ Abstract!After(call[p], value) = IF value = call[p].expect THEN call[p].arg ELSE value
        /\ Abstract!Answer(call[p], value) = IF value = call[p].expect THEN 1 ELSE 0
    BY <2>1 DEF Abstract!After, Abstract!Answer
  <2> QED BY <2>1, <2>2, <2>3, StepEffect
<1>3. CASE LoadLow(p)
  <2>1. pc[p] = "get" /\ low[p] = None /\ low'[p] = value % half /\ UNCHANGED <<value, pc, call, result>>
    BY <1>3 DEF LoadLow, Inv, TypeOK
  <2>2. CASE call[p].op = "Get"
    <3>0. half = W /\ value # None
      BY <2>2, <1>0 DEF Inv, Whole, Values, None
    <3>1. value % half = value /\ value # None
      BY <3>0, <1>0, Undivided
    <3>2. PhaseOf(p) = "called" /\ PhaseOf(p)' = "done" /\ ResultOf(p)' = value
      BY <2>1, <2>2, <3>1 DEF PhaseOf, ResultOf, Got
    <3>3. Abstract!After(call[p], value) = value /\ Abstract!Answer(call[p], value) = value
      BY <2>2 DEF Abstract!After, Abstract!Answer
    <3> QED BY <2>1, <3>2, <3>3, StepEffect
  <2>3. CASE call[p].op # "Get"
    <3>1. PhaseOf(p)' = PhaseOf(p) /\ ResultOf(p)' = ResultOf(p)
      BY <2>1, <2>3 DEF PhaseOf, ResultOf, Got
    <3> QED BY <2>1, <3>1, StepStutter
  <2> QED BY <2>2, <2>3
<1>4. CASE LoadHigh(p)
  <2>1. UNCHANGED <<value, pc, call, low, result>>
    BY <1>4 DEF LoadHigh
  <2>2. PhaseOf(p)' = PhaseOf(p) /\ ResultOf(p)' = ResultOf(p)
    BY <2>1 DEF PhaseOf, ResultOf, Got
  <2> QED BY <2>1, <2>2, StepStutter
<1>5. CASE Get(p)
  <2>1. pc[p] = "get" /\ call[p].op = "Get" /\ low[p] # None /\ high[p] = 0 /\ low[p] \in Int
        /\ UNCHANGED <<value, call, low>> /\ pc'[p] = "done" /\ result'[p] = current(p)
    BY <1>5, <1>0 DEF Get, Loaded, Inv, TypeOK, ReadWhole, Values
  <2>2. current(p) = low[p]
    BY <2>1, <1>0 DEF current
  <2>3. PhaseOf(p) = "done" /\ PhaseOf(p)' = "done" /\ ResultOf(p)' = ResultOf(p)
    BY <2>1, <2>2 DEF PhaseOf, ResultOf, Got
  <2> QED BY <2>1, <2>3, StepStutter
<1>6. CASE Try(p)
  <2>1. pc[p] = "get" /\ call[p] \in Calls /\ call[p].op \notin {"Get", "Set", "CompareAndSet"}
        /\ call' = call /\ call[p].op \in Ops
    BY <1>6, <1>0, CallTypes DEF Try, Loaded, Standing
  <2>2. CASE value = current(p)
    <3>1. value' = next(call[p], value) /\ result'[p] = Returned(call[p], value) /\ pc'[p] = "done"
      BY <1>6, <2>2 DEF Try, Inv, TypeOK
    <3>2. PhaseOf(p) = "called" /\ PhaseOf(p)' = "done" /\ ResultOf(p)' = Returned(call[p], value)
      BY <2>1, <3>1 DEF PhaseOf, ResultOf, Got
    <3>3. Abstract!After(call[p], value) = next(call[p], value)
      BY <2>1 DEF Abstract!After, next, Ops
    <3>4. Abstract!Answer(call[p], value) = Returned(call[p], value)
      BY <2>1, <3>3 DEF Abstract!Answer, Returned, Ops
    <3> QED BY <2>1, <3>1, <3>2, <3>3, <3>4, StepEffect
  <2>3. CASE value # current(p)
    <3>1. UNCHANGED <<value, pc, call, result>>
      BY <1>6, <2>3 DEF Try
    <3>2. PhaseOf(p)' = PhaseOf(p) /\ ResultOf(p)' = ResultOf(p)
      BY <2>1, <3>1 DEF PhaseOf, ResultOf, Got
    <3> QED BY <3>1, <3>2, StepStutter
  <2> QED BY <2>2, <2>3
<1>7. CASE Return(p)
  BY <1>7, ReturnMaps
<1> QED BY <1>1, <1>2, <1>3, <1>4, <1>5, <1>6, <1>7 DEF Step

LEMMA AbstractInit == Init => Abstract!Init
<1> SUFFICES ASSUME Init PROVE Abstract!Init
  OBVIOUS
<1>1. \A p \in Procs : PhaseOf(p) = "idle" /\ ResultOf(p) = 0
  BY DEF Init, PhaseOf, ResultOf, Got
<1>2. Phase = [p \in Procs |-> "idle"] /\ Result = [p \in Procs |-> 0]
  BY <1>1 DEF Phase, Result
<1>3. value \in 0 .. W - 1 /\ call = [p \in Procs |-> NoCall]
  BY DEF Init, Values
<1> QED BY <1>2, <1>3 DEF Abstract!Init, Abstract!NoCall, NoCall, Phase, Result, PhaseOf, ResultOf

LEMMA AbstractNext == Inv /\ [Next /\ Whole']_vars => [Abstract!Next]_Abstract!vars
<1> SUFFICES ASSUME Inv, [Next /\ Whole']_vars PROVE [Abstract!Next]_Abstract!vars
  OBVIOUS
<1>1. CASE UNCHANGED vars
  BY <1>1 DEF vars, Abstract!vars, Got
<1>2. CASE Next
  BY <1>2, CallMaps, StepMaps DEF Next, Abstract!Next
<1> QED BY <1>1, <1>2

(* Every operation is atomic: with any number of goroutines, and although  *)
(* the loops read the value without any synchronisation, the counter       *)
(* behaves as if each operation happened at one moment.                    *)
THEOREM AtomicsImplement == WholeSpec => ImplementsCounter
<1> QED BY AbstractInit, AtomicsInv, AbstractNext, PTL
        DEF WholeSpec, ImplementsCounter, Abstract!Spec
=============================================================================
