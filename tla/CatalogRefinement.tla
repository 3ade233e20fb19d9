-------------------------- MODULE CatalogRefinement --------------------------
(* CatalogCalls implements DatabaseService. *)
EXTENDS CatalogCalls

Stage(c) ==
  IF pc[c] \in {"idle", "dead"} THEN "idle"
  ELSE IF call[c] \in Switching \cup {"tables", "primary"} THEN "abroad" ELSE "home"

Service == INSTANCE DatabaseService WITH
  Default <- Des,
  Reliable <- ~AnswersMixed,
  stage <- [c \in Clients |-> Stage(c)],
  current <- chosen,
  lost <- misled,
  rows <- seen

\* The database the applications chose is the one every statement sees, and no
\* catalog call moves it, although three of them do so under way: on a channel
\* that gives each exchange its own answer always, on any other until a catalog
\* call takes something else for the answer of /current_db.
SeesChosen == Service!Spec

=============================================================================
