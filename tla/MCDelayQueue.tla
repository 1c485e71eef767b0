---------------------------- MODULE MCDelayQueue ----------------------------
(* Small instances of DelayQueue for TLC.                                  *)
EXTENDS DelayQueue, TLC

Perms == Permutations(Items)

(* -1 is what a bucket's expiration reads between two uses of the bucket.  *)
MCPrios == {-1, 1, 2}

=============================================================================
