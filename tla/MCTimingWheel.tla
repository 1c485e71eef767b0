---------------------------- MODULE MCTimingWheel ----------------------------
(* Small instances of TimingWheel for TLC.                                 *)
EXTENDS TimingWheel, TLC

Perms == Permutations(Timers) \cup Permutations(Stops)

=============================================================================
