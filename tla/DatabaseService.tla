--------------------------- MODULE DatabaseService ---------------------------
(***************************************************************************)
(* What the driver promises about DES's current database, which all the    *)
(* connections share: a statement sees the current database, only a call   *)
(* that is asked to changes it, and a catalog call, which looks into any   *)
(* database, leaves it alone.  On an unreliable channel a catalog call may *)
(* lose the current database, and until one is chosen again a statement    *)
(* sees some database, the applications do not know which.                 *)
(***************************************************************************)
CONSTANTS Clients, Databases, Default, Reliable

VARIABLES
  stage,     \* "idle", or the sort of call: "home" or "abroad"
  current,   \* the current database
  lost,      \* a catalog call has lost it
  rows       \* databases whose contents the latest call has returned

vars == <<stage, current, lost, rows>>

Init ==
  /\ stage = [c \in Clients |-> "idle"]
  /\ current = Default
  /\ lost = FALSE
  /\ rows = [c \in Clients |-> {}]

\* A call starts, or is refused at once.
Ask(c) ==
  /\ stage[c] = "idle"
  /\ \E s \in {"idle", "home", "abroad"} : stage' = [stage EXCEPT ![c] = s]
  /\ rows' = [rows EXCEPT ![c] = {}]
  /\ UNCHANGED <<current, lost>>

See(c, D) ==
  /\ rows' = [rows EXCEPT ![c] = D]
  /\ \E s \in {stage[c], "idle"} : stage' = [stage EXCEPT ![c] = s]
  /\ UNCHANGED <<current, lost>>

\* A statement returns rows of the current database, or none if it fails.
Visible == IF lost THEN Databases ELSE {current}
Look(c) == stage[c] = "home" /\ \E D \in {{}} \cup {{d} : d \in Visible} : See(c, D)

\* A catalog call returns descriptions of tables of any databases.
Browse(c) == stage[c] = "abroad" /\ \E D \in SUBSET Databases : See(c, D)

Choose(c) ==
  /\ stage[c] = "home"
  /\ current' \in Databases
  /\ lost' = FALSE
  /\ UNCHANGED <<stage, rows>>

Lose(c) ==
  /\ ~Reliable /\ stage[c] = "abroad"
  /\ lost' = TRUE
  /\ UNCHANGED <<stage, current, rows>>

Leave(c) ==
  /\ stage' = [stage EXCEPT ![c] = "idle"]
  /\ UNCHANGED <<current, lost, rows>>

Next == \E c \in Clients : Ask(c) \/ Look(c) \/ Browse(c) \/ Choose(c) \/ Lose(c) \/ Leave(c)

Spec == Init /\ [][Next]_vars

=============================================================================
