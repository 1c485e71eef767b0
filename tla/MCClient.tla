------------------------------ MODULE MCClient ------------------------------
(* Small instances of Client for TLC.                                      *)
EXTENDS Client, TLC

(* The descriptors are interchangeable; the kernel hands out any.          *)
FdSymmetry == Permutations(Fds)

=============================================================================
