---------------------------- MODULE MCKeptWheel ----------------------------
(* TimingWheel under prompt calls of AfterFunc, with a history variable.   *)
EXTENDS TimingWheel

(* So far W has kept up with the clock.                                    *)
VARIABLE kept

KeptInit == kept = TRUE /\ Init
KeptSpec ==
  /\ KeptInit
  /\ [][Next /\ Prompt /\ kept' = (kept /\ KeepsUp)]_<<vars, kept>>
  /\ Fairness

(* While W has kept up with the clock, no task is started before its delay *)
(* has elapsed, to the tick.                                               *)
PunctuallyNeverEarly ==
  [][\A t \in Timers : kept' /\ runs'[t] # runs[t] => texp[t] < now + Tick]_<<vars, kept>>

=============================================================================
