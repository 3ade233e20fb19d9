---------------------------- MODULE QueryService ----------------------------
(***************************************************************************)
(* What the query mutex and the channel promise the driver's callers: DES  *)
(* executes the query of a call exactly once, after the call began and     *)
(* before it returns, and the call returns the answer to that very query;  *)
(* a call that is refused has not been, and never will be, executed.       *)
(***************************************************************************)
EXTENDS Naturals

CONSTANT Clients

VARIABLES
  stage,     \* where the call of each client stands
  ticket,    \* position of the client's query in DES's history
  reply,     \* the position whose answer its last call returned, 0 if none
  executed   \* queries DES has executed

vars == <<stage, ticket, reply, executed>>

Init ==
  /\ stage = [c \in Clients |-> "idle"]
  /\ ticket = [c \in Clients |-> 0]
  /\ reply = [c \in Clients |-> 0]
  /\ executed = 0

Ask(c) ==
  /\ stage[c] = "idle"
  /\ stage' = [stage EXCEPT ![c] = "asked"]
  /\ ticket' = [ticket EXCEPT ![c] = 0]
  /\ reply' = [reply EXCEPT ![c] = 0]
  /\ UNCHANGED executed

Execute(c) ==
  /\ stage[c] = "asked"
  /\ stage' = [stage EXCEPT ![c] = "executed"]
  /\ executed' = executed + 1
  /\ ticket' = [ticket EXCEPT ![c] = executed']
  /\ UNCHANGED reply

Return(c) ==
  /\ stage[c] = "executed"
  /\ stage' = [stage EXCEPT ![c] = "idle"]
  /\ reply' = [reply EXCEPT ![c] = ticket[c]]
  /\ UNCHANGED <<ticket, executed>>

Refuse(c) ==
  /\ stage[c] = "asked"
  /\ stage' = [stage EXCEPT ![c] = "idle"]
  /\ UNCHANGED <<ticket, reply, executed>>

Next == \E c \in Clients : Ask(c) \/ Execute(c) \/ Return(c) \/ Refuse(c)

Spec == Init /\ [][Next]_vars

=============================================================================
