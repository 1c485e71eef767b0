------------------------------ MODULE MCServer ------------------------------
(* Small instances of Server for TLC: two clients, and how many packets    *)
(* each of them sends at most.                                             *)
EXTENDS Server, TLC

CONSTANTS c1, c2

MCConns == {c1, c2}
One == c1 :> 1 @@ c2 :> 1
Three == c1 :> 3 @@ c2 :> 0

(* One client only.                                                        *)
Alone      == {c1}
TwoPackets == c1 :> 2

Perms == Permutations(Fds) \cup Permutations(Epollers)

=============================================================================
