------------------------ MODULE MCStatementExecution ------------------------
(* Instances of StatementExecution for TLC. *)
EXTENDS StatementExecution

=============================================================================
