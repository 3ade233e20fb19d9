-------------------------- MODULE QueryRefinement --------------------------
(* QueryChannel implements QueryService while DES answers in bursts. *)
EXTENDS QueryChannel

\* DES executes a query when it takes it from its input.
Executed == sent - Len(inPipe)

Stage(c) ==
  CASE pc[c] \in {"idle", "dead"} -> "idle"
    [] pc[c] \notin {"idle", "dead"} /\ query[c] \in 1 .. Executed -> "executed"
    [] OTHER -> "asked"

Service == INSTANCE QueryService WITH
  stage <- [c \in Clients |-> Stage(c)],
  ticket <- [c \in Clients |-> IF query[c] <= Executed THEN query[c] ELSE 0],
  executed <- Executed

\* Every query is executed exactly once, while its call is under way, and the
\* call returns the answer to it; a call that timed out on the query mutex is
\* never executed.
ServesEachOnce == Service!Spec

=============================================================================
