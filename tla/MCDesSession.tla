---------------------------- MODULE MCDesSession ----------------------------
(* Instances of DesSession for TLC. *)
EXTENDS DesSession, TLC

CONSTANTS c1, c2, c3,   \* the clients
          e1, e2        \* hashes of two DES executables

SameExecOf == [c \in Clients |-> e1]
\* c2's data source names another executable.
MixedExecOf == [c \in Clients |-> IF c = c2 THEN e2 ELSE e1]

ClientSymmetry == Permutations(Clients)
\* The clients other than c2 are alike when Exec is MixedExecOf.
SameExecSymmetry == Permutations(Clients \ {c2})

=============================================================================
