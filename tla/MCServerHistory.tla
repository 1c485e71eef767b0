--------------------------- MODULE MCServerHistory --------------------------
(* The small instances of Server, with the history of mix-ups.             *)
EXTENDS MCServer, ServerHistory

=============================================================================
