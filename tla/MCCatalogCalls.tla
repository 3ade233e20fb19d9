--------------------------- MODULE MCCatalogCalls ---------------------------
(* Instances of CatalogCalls for TLC. *)
EXTENDS CatalogRefinement, TLC

CONSTANTS c1, c2,              \* the clients
          des, ext,            \* DES's default database and an external one
          unknown, noname         \* names that are no database

ClientSymmetry == Permutations(Clients)

=============================================================================
