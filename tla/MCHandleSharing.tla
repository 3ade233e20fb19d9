--------------------------- MODULE MCHandleSharing ---------------------------
(* Instances of HandleSharing for TLC. *)
EXTENDS HandleSharing, TLC

CONSTANTS c1, c2, c3,     \* the clients
          none

ClientSymmetry == Permutations(Clients)

=============================================================================
