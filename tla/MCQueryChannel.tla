--------------------------- MODULE MCQueryChannel ---------------------------
(* Instances of QueryChannel for TLC. *)
EXTENDS QueryRefinement, TLC

CONSTANTS c1, c2, c3,   \* the clients
          none          \* no client is reading the banner

ClientSymmetry == Permutations(Clients)

=============================================================================
