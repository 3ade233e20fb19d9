---------------------------- MODULE HandleSharing ----------------------------
(***************************************************************************)
(* connect() and close() of the Windows build (driver/connect.cc,          *)
(* handle.cc).  The client that launches DES owns its pipes; another one,  *)
(* the petitioner, asks a client of the table, the petitionee, whose       *)
(* sharing thread duplicates its handles into the petitioner's process,    *)
(* through a record in shared memory, two mutexes and three manual-reset   *)
(* events.  Mutexes are owned by a thread, nest, and are abandoned to the  *)
(* next taker when their owner dies.                                       *)
(*                                                                         *)
(* What only the holder of the shared-memory mutex touches changes with    *)
(* the step that takes or releases it; the record and the events, which    *)
(* the sharing threads use without it, change step by step.                *)
(* A suffixed operator is a plausible slip, used by the checking runs.     *)
(***************************************************************************)
EXTENDS Naturals, Sequences, FiniteSets

CONSTANTS
  Clients,     \* processes, each with one connection handle
  None,        \* no client, a NULL handle
  MAX_CLIENTS, \* entries of the client table
  Faults,      \* TRUE: clients may die and DES's launch may fail
  Slow,        \* TRUE: a sharer that will answer may take more than EVENT_TIMEOUT
  MaxConnects  \* bound: calls of connect() in a behaviour

ASSUME SharingAssumption ==
  /\ None \notin Clients \cup [process : Clients, des : Nat]
  /\ MAX_CLIENTS \in Nat \ {0}
  /\ Faults \in BOOLEAN /\ Slow \in BOOLEAN /\ MaxConnects \in Nat

VARIABLES
  pc,         \* where each client stands
  sharer,     \* where its sharing thread stands, "none" while not connected
  target,     \* the process that thread duplicates into
  pipes,      \* driver_to_des_out_rpipe and driver_to_des_in_wpipe
  patient,    \* history: its petition found handle_sent_event not signaled
  shared,     \* shared_memory_mutex
  turn,       \* request_handle_mutex
  table,      \* connected_clients_struct
  petitioner, \* handle_petitioner: id and pid
  petitionee, \* handle_petitionee.id
  sent,       \* out_handle and in_handle of the record
  events,     \* the events that are signaled
  created,    \* des_process_created
  des,        \* DES processes: launched so far, and those not told to quit
  mapped,     \* processes with the shared memory mapped: they keep it alive
  open,       \* processes with the events open: they keep them alive
  connects    \* calls of connect() so far

record == <<petitioner, petitionee, sent>>
vars == <<pc, sharer, target, pipes, patient, shared, turn, table, record, events,
          created, des, mapped, open, connects>>

Some == Clients \cup {None}
Ends == {"out", "in"}
NoPipes == [e \in Ends |-> None]
Unowned == [owner |-> None, count |-> 0, abandoned |-> FALSE]
NoPetitioner == [id |-> None, pid |-> None]

\* A handle is a number of one process, for a pipe of one DES process.
Handle == [process : Clients, des : Nat] \cup {None}

Places == {"out", "launch", "banner", "petition", "turn", "request", "await", "retry",
           "collect", "reset", "enter", "in", "join", "leave", "quit", "dead"}
Petitioning == {"petition", "turn", "request", "await", "retry", "collect", "reset"}

TypeOK ==
  /\ pc \in [Clients -> Places]
  /\ sharer \in [Clients -> {"none", "wait", "open", "out", "in", "signal", "ended"}]
  /\ target \in [Clients -> Some]
  /\ pipes \in [Clients -> [Ends -> Handle]]
  /\ patient \in [Clients -> BOOLEAN]
  /\ \A m \in {shared, turn} : m \in [owner : Some, count : Nat, abandoned : BOOLEAN]
  /\ \A m \in {shared, turn} : m.owner = None <=> m.count = 0
  /\ table \in Seq(Clients)
  /\ petitioner \in [id : Some, pid : Some] /\ petitionee \in Some
  /\ sent \in [Ends -> Handle]
  /\ events \subseteq {"request", "sent", "finishing"}
  /\ created \in BOOLEAN
  /\ des \in [launched : Nat, alive : SUBSET Nat] /\ des.alive \subseteq 1 .. des.launched
  /\ open \subseteq mapped /\ mapped \subseteq Clients
  /\ connects \in Nat

Init ==
  /\ pc = [c \in Clients |-> "out"]
  /\ sharer = [c \in Clients |-> "none"]
  /\ target = [c \in Clients |-> None]
  /\ pipes = [c \in Clients |-> NoPipes]
  /\ patient = [c \in Clients |-> FALSE]
  /\ shared = Unowned /\ turn = Unowned
  /\ table = <<>>
  /\ petitioner = NoPetitioner /\ petitionee = None /\ sent = NoPipes
  /\ events = {}
  /\ created = FALSE
  /\ des = [launched |-> 0, alive |-> {}]
  /\ mapped = {} /\ open = {}
  /\ connects = 0

-----------------------------------------------------------------------------
(* Mutexes.  get_mutex gives up after two seconds, and reports an abandoned *)
(* mutex as an error although the caller now owns it.                       *)

Available(m, c) == m.owner \in {None, c}
Taken(m, c) == [owner |-> c, count |-> m.count + 1, abandoned |-> FALSE]

ReleasedWhole(m, c) == IF m.owner = c THEN Unowned ELSE m

ReleasedByAny(m, c) == IF m.count = 1 THEN Unowned ELSE [m EXCEPT !.count = @ - 1]

\* ReleaseMutex fails for who does not own it.
Released(m, c) ==
  IF m.owner # c THEN m ELSE IF m.count = 1 THEN Unowned ELSE [m EXCEPT !.count = @ - 1]

\* What get_shared_memory_mutex leaves when its result is not looked at.
TakenIfPossible(m, c) == IF Available(m, c) THEN Taken(m, c) ELSE m

Move(c, from, to) == pc[c] = from /\ pc' = [pc EXCEPT ![c] = to]
Whole(c) == \A e \in Ends : pipes[c][e] # None

\* Only a connected client has a sharing thread.
Connected(c) == sharer[c] # "none"

\* Where get_DES_process_pipes returns to: connect(), which gives up on an error,
\* or send_query_and_read, which calls it again while a pipe is missing.
ReturnPlace(c) == IF Connected(c) THEN "in" ELSE "enter"
ErrorPlace(c) == IF Connected(c) THEN "in" ELSE "out"

-----------------------------------------------------------------------------
(* connect()                                                               *)

TakeConnect(c) ==
  /\ Available(shared, c) /\ connects < MaxConnects
  /\ connects' = connects + 1
  /\ mapped' = mapped \cup {c} /\ open' = open \cup {c}
  /\ LET full == Len(table) = MAX_CLIENTS IN
     /\ Move(c, "out", IF shared.abandoned \/ full THEN "out"
                       ELSE IF created THEN "petition" ELSE "launch")
     /\ shared' = IF full /\ ~shared.abandoned THEN Released(Taken(shared, c), c)
                  ELSE Taken(shared, c)
  /\ UNCHANGED <<sharer, target, pipes, patient, turn, table, record, events, created, des>>

TimeoutConnect(c) ==
  /\ ~Available(shared, c) /\ connects < MaxConnects
  /\ pc[c] = "out"
  /\ connects' = connects + 1
  /\ mapped' = mapped \cup {c} /\ open' = open \cup {c}
  /\ UNCHANGED <<pc, sharer, target, pipes, patient, shared, turn, table, record, events,
                 created, des>>

\* createPipes and CreateProcessW.  An error returns with the mutex held.
Launch(c) ==
  /\ \/ /\ Move(c, "launch", "banner")
        /\ des' = [launched |-> des.launched + 1, alive |-> des.alive \cup {des.launched + 1}]
        /\ pipes' = [pipes EXCEPT ![c] =
                       [e \in Ends |-> [process |-> c, des |-> des.launched + 1]]]
     \/ Faults /\ Move(c, "launch", "out") /\ UNCHANGED <<des, pipes>>
  /\ UNCHANGED <<sharer, target, patient, shared, turn, table, record, events, created,
                 mapped, open, connects>>

BannerUnannounced(c) ==
  /\ Move(c, "banner", "enter")
  /\ UNCHANGED <<sharer, target, pipes, patient, shared, turn, table, record, events, created,
                 des, mapped, open, connects>>

\* The banner is read, or cannot be.
Banner(c) ==
  /\ \/ Move(c, "banner", "enter") /\ created' = TRUE
     \/ Faults /\ Move(c, "banner", "out") /\ UNCHANGED created
  /\ UNCHANGED <<sharer, target, pipes, patient, shared, turn, table, record, events, des,
                 mapped, open, connects>>

\* The client starts its sharing thread and appends itself to the table.
Enter(c) ==
  /\ Move(c, "enter", "in")
  /\ sharer' = [sharer EXCEPT ![c] = "wait"]
  /\ table' = Append(table, c)
  /\ shared' = Released(shared, c)
  /\ UNCHANGED <<target, pipes, patient, turn, record, events, created, des, mapped, open,
                 connects>>

-----------------------------------------------------------------------------
(* get_DES_process_pipes()                                                 *)

\* Who may be asked: a client alone, or any but the last.
Askable(T) == IF Len(T) = 1 THEN {T[1]} ELSE {T[i] : i \in 1 .. Len(T) - 1}

\* Top of the loop, with the mutexes in the states s and t: a petitionee is chosen
\* from the clients T, or there is none left to ask.  Without the shared-memory
\* mutex, whose taking may have timed out, its release fails and so does the call.
Choose(c, T, s, t) ==
  /\ table' = T
  /\ shared' = Released(s, c)
  /\ IF T = <<>>
       THEN /\ pc' = [pc EXCEPT ![c] = ErrorPlace(c)]
            /\ turn' = Released(t, c)
            /\ UNCHANGED petitionee
       ELSE /\ pc' = [pc EXCEPT ![c] = IF s.owner = c THEN "request" ELSE ErrorPlace(c)]
            /\ turn' = IF s.owner = c THEN t ELSE Released(t, c)
            /\ petitionee' \in Askable(T)

\* send_query_and_read of a connected client with a NULL pipe, alone under the
\* query mutex.
NeedsPipes(c) ==
  /\ pc[c] = "in" /\ ~Whole(c)
  /\ \A d \in Clients : ~(Connected(d) /\ pc[d] \in Petitioning)

TakePetition(c) ==
  /\ pc[c] = "petition" \/ NeedsPipes(c)
  /\ Available(shared, c)
  /\ shared' = Taken(shared, c)
  /\ pc' = [pc EXCEPT ![c] = IF shared.abandoned THEN ErrorPlace(c) ELSE "turn"]
  /\ UNCHANGED <<sharer, target, pipes, patient, turn, table, record, events, created, des,
                 mapped, open, connects>>

TakeTurn(c) ==
  /\ pc[c] = "turn" /\ Available(turn, c)
  /\ IF turn.abandoned
       THEN /\ pc' = [pc EXCEPT ![c] = ErrorPlace(c)]
            /\ turn' = Taken(turn, c) /\ shared' = Released(shared, c)
            /\ UNCHANGED <<table, petitioner, petitionee>>
       ELSE /\ petitioner' = [id |-> c, pid |-> c]
            /\ Choose(c, table, shared, Taken(turn, c))
  /\ UNCHANGED <<sharer, target, pipes, patient, sent, events, created, des, mapped, open,
                 connects>>

TimeoutTurn(c) ==
  /\ Move(c, "turn", ErrorPlace(c)) /\ ~Available(turn, c)
  /\ shared' = Released(shared, c)
  /\ UNCHANGED <<sharer, target, pipes, patient, turn, table, record, events, created, des,
                 mapped, open, connects>>

SetRequest(c) ==
  /\ Move(c, "request", "await")
  /\ events' = events \cup {"request"}
  /\ patient' = [patient EXCEPT ![c] = "sent" \notin events]
  /\ UNCHANGED <<sharer, target, pipes, shared, turn, table, record, created, des, mapped,
                 open, connects>>

\* handle_sent_event is signaled; nothing ever resets it.
Await(c) ==
  /\ Move(c, "await", "collect") /\ "sent" \in events
  /\ shared' = TakenIfPossible(shared, c)
  /\ UNCHANGED <<sharer, target, pipes, patient, turn, table, record, events, created, des,
                 mapped, open, connects>>

\* The petitionee will not answer: its thread has ended, or never ran.
Silent(d) == d \notin {e \in Clients : sharer[e] \notin {"none", "ended"}}

AwaitTimeout(c) ==
  /\ Move(c, "await", "retry") /\ "sent" \notin events
  /\ Slow \/ Silent(petitionee)
  /\ shared' = TakenIfPossible(shared, c)
  /\ UNCHANGED <<sharer, target, pipes, patient, turn, table, record, events, created, des,
                 mapped, open, connects>>

Place(T, d) == CHOOSE i \in DOMAIN T : T[i] = d /\ \A j \in 1 .. i - 1 : T[j] # d
Listed(T, d) == \E i \in DOMAIN T : T[i] = d

WithoutRest(T, d) == IF Listed(T, d) THEN SubSeq(T, 1, Place(T, d) - 1) ELSE T

\* remove_client_from_shmem: the entries after d move up.
Without(T, d) ==
  IF Listed(T, d)
    THEN [i \in 1 .. Len(T) - 1 |-> IF i < Place(T, d) THEN T[i] ELSE T[i + 1]]
    ELSE T

\* The silent petitionee leaves the table, and another one is asked.
Retry(c) ==
  /\ pc[c] = "retry"
  /\ Choose(c, Without(table, petitionee), shared, turn)
  /\ UNCHANGED <<sharer, target, pipes, patient, petitioner, sent, events, created, des,
                 mapped, open, connects>>

Collect(c) ==
  /\ Move(c, "collect", "reset")
  /\ pipes' = [pipes EXCEPT ![c] = sent]
  /\ UNCHANGED <<sharer, target, patient, shared, turn, table, record, events, created, des,
                 mapped, open, connects>>

\* The record is emptied, and both mutexes are released once.
Reset(c) ==
  /\ Move(c, "reset", ReturnPlace(c))
  /\ petitioner' = NoPetitioner /\ petitionee' = None /\ sent' = NoPipes
  /\ turn' = Released(turn, c) /\ shared' = Released(shared, c)
  /\ UNCHANGED <<sharer, target, pipes, patient, table, events, created, des, mapped, open,
                 connects>>

-----------------------------------------------------------------------------
(* sharePipes(), the sharing thread of c                                   *)

ShareStep(c, from, to) ==
  /\ sharer[c] = from /\ sharer' = [sharer EXCEPT ![c] = to]
  /\ UNCHANGED <<pc, pipes, patient, shared, turn, table, petitioner, petitionee, created,
                 des, mapped, open, connects>>

\* WaitForMultipleObjects reports the first event of its list that is signaled; a
\* wake-up that concerns somebody else changes nothing.
WakeToShare(c) ==
  /\ ShareStep(c, "wait", "open")
  /\ "request" \in events /\ petitioner.pid # None /\ petitionee = c
  /\ UNCHANGED <<target, sent, events>>

WakeToFinish(c) ==
  /\ ShareStep(c, "wait", "ended")
  /\ "request" \notin events /\ "finishing" \in events /\ petitioner.id = c
  /\ UNCHANGED <<target, sent, events>>

\* OpenProcess of the petitioner, read again.
OpenPetitioner(c) ==
  /\ LET p == petitioner.pid
         found == p # None /\ pc[p] # "dead" IN
     /\ ShareStep(c, "open", IF found THEN "out" ELSE "ended")
     /\ target' = [target EXCEPT ![c] = IF found THEN p ELSE @]
  /\ UNCHANGED <<sent, events>>

\* DuplicateHandle, into the record.  It fails for a handle that is not the
\* sharer's own and for a process that is gone.
Duplicate(c, e, next) ==
  \/ /\ ShareStep(c, e, next)
     /\ pipes[c][e] # None /\ pipes[c][e].process = c /\ pc[target[c]] # "dead"
     /\ sent' = [sent EXCEPT ![e] = [process |-> target[c], des |-> pipes[c][e].des]]
     /\ UNCHANGED <<target, events>>
  \/ /\ ShareStep(c, e, "ended")
     /\ ~(pipes[c][e] # None /\ pipes[c][e].process = c /\ pc[target[c]] # "dead")
     /\ UNCHANGED <<target, sent, events>>

DuplicateOut(c) == Duplicate(c, "out", "in")

DuplicateInEarly(c) ==
  /\ ShareStep(c, "in", "wait") /\ pc[target[c]] # "dead"
  /\ events' = (events \ {"request"}) \cup {"sent"}
  /\ UNCHANGED <<target, sent>>

DuplicateIn(c) == Duplicate(c, "in", "signal")

\* ResetEvent, then SetEvent.
SignalSent(c) ==
  /\ ShareStep(c, "signal", "wait")
  /\ events' = (events \ {"request"}) \cup {"sent"}
  /\ UNCHANGED <<target, sent>>

-----------------------------------------------------------------------------
(* close()                                                                 *)

\* The last process to close them takes the events and mutexes along.
CloseObjects(c, s, t, evs) ==
  /\ open' = open \ {c}
  /\ events' = IF open' = {} THEN {} ELSE evs
  /\ shared' = IF open' = {} THEN Unowned ELSE s
  /\ turn' = IF open' = {} THEN Unowned ELSE t

StartClose(c) ==
  /\ pc[c] = "in" /\ Available(shared, c)
  /\ shared' = Taken(shared, c)
  /\ IF shared.abandoned
       THEN UNCHANGED <<pc, petitioner, events>>
       ELSE /\ Move(c, "in", "join")
            /\ petitioner' = [petitioner EXCEPT !.id = c]
            /\ events' = events \cup {"finishing"}
  /\ UNCHANGED <<sharer, target, pipes, patient, turn, table, petitionee, sent, created, des,
                 mapped, open, connects>>

\* share_pipes_thread->join()
JoinSharer(c) ==
  /\ Move(c, "join", "leave") /\ sharer[c] = "ended"
  /\ petitioner' = [petitioner EXCEPT !.id = None]
  /\ shared' = Released(shared, c)
  /\ UNCHANGED <<sharer, target, pipes, patient, turn, table, petitionee, sent, events,
                 created, des, mapped, open, connects>>

\* The mutex is taken again; a client that cannot take it stays connected, without
\* a sharing thread.
TimeoutLeave(c) ==
  /\ Move(c, "leave", "in") /\ ~Available(shared, c)
  /\ UNCHANGED <<sharer, target, pipes, patient, shared, turn, table, record, events,
                 created, des, mapped, open, connects>>

Leave(c) ==
  /\ Available(shared, c)
  /\ LET rest == Without(table, c) IN
     \/ /\ shared.abandoned
        /\ Move(c, "leave", "in") /\ shared' = Taken(shared, c)
        /\ UNCHANGED <<sharer, turn, table, events, open>>
     \/ /\ ~shared.abandoned /\ rest = <<>>
        /\ Move(c, "leave", "quit") /\ shared' = Taken(shared, c) /\ table' = rest
        /\ UNCHANGED <<sharer, turn, events, open>>
     \/ /\ ~shared.abandoned /\ rest # <<>>
        /\ Move(c, "leave", "out") /\ table' = rest
        /\ sharer' = [sharer EXCEPT ![c] = "none"]
        /\ CloseObjects(c, shared, turn, events)
  /\ UNCHANGED <<target, pipes, patient, record, created, des, mapped, connects>>

\* send_query_and_read("/q"), then the shared memory is reset by hand.  Without its
\* pipes a client asks an empty table for them for ever, holding the mutex.
Quit(c) ==
  /\ Move(c, "quit", "out") /\ Whole(c)
  /\ sharer' = [sharer EXCEPT ![c] = "none"]
  /\ des' = IF pipes[c]["in"].process = c
              THEN [des EXCEPT !.alive = @ \ {pipes[c]["in"].des}] ELSE des
  /\ petitioner' = NoPetitioner /\ petitionee' = None /\ sent' = NoPipes
  /\ created' = FALSE
  /\ CloseObjects(c, Released(shared, c), turn, events)
  /\ UNCHANGED <<target, pipes, patient, table, mapped, connects>>

-----------------------------------------------------------------------------
\* A process dies: its threads end, its mutexes are abandoned, its handles closed.
Abandoned(m, c) == IF m.owner = c THEN [Unowned EXCEPT !.abandoned = TRUE] ELSE m

Crash(c) ==
  /\ Faults /\ c \in mapped
  /\ pc' = [pc EXCEPT ![c] = "dead"]
  /\ sharer' = [sharer EXCEPT ![c] = "ended"]
  /\ pipes' = [pipes EXCEPT ![c] = NoPipes]
  /\ mapped' = mapped \ {c}
  /\ CloseObjects(c, Abandoned(shared, c), Abandoned(turn, c), events)
  /\ IF mapped' = {}
       THEN /\ table' = <<>> /\ created' = FALSE
            /\ petitioner' = NoPetitioner /\ petitionee' = None /\ sent' = NoPipes
       ELSE UNCHANGED <<table, created, record>>
  /\ UNCHANGED <<target, patient, des, connects>>

ConnectStep(c) ==
  \/ TakeConnect(c) \/ TimeoutConnect(c) \/ Launch(c) \/ Banner(c) \/ Enter(c)
  \/ TakePetition(c) \/ TakeTurn(c) \/ TimeoutTurn(c) \/ SetRequest(c) \/ Await(c)
  \/ AwaitTimeout(c) \/ Retry(c) \/ Collect(c) \/ Reset(c)

SharerStep(c) ==
  \/ WakeToShare(c) \/ WakeToFinish(c) \/ OpenPetitioner(c) \/ DuplicateOut(c)
  \/ DuplicateIn(c) \/ SignalSent(c)

CloseStep(c) ==
  StartClose(c) \/ JoinSharer(c) \/ TimeoutLeave(c) \/ Leave(c) \/ Quit(c)

Next == \E c \in Clients : ConnectStep(c) \/ SharerStep(c) \/ CloseStep(c) \/ Crash(c)

Spec == Init /\ [][Next]_vars

-----------------------------------------------------------------------------
(* Properties                                                              *)

\* While nobody has died, a petition that waited for handle_sent_event reads two
\* handles, both made for its own process, whatever the sharers, the timeouts and
\* the closing clients did meanwhile.
HandlesWhole ==
  (\A d \in Clients : pc[d] # "dead") =>
    \A c \in Clients : pc[c] = "collect" /\ patient[c] =>
      \A e \in Ends : sent[e] # None /\ sent[e].process = c

\* The table has room for the client that is about to enter it: the check of
\* connect() still holds after the petition, which releases the mutex it nests.
TableBounded == Len(table) <= MAX_CLIENTS

\* Clients whose pipes are their own use one DES process.
SameDes ==
  \A c, d \in Clients :
    pc[c] = "in" /\ pc[d] = "in" =>
      \A e, f \in Ends :
        LET h == pipes[c][e]  k == pipes[d][f] IN
        h # None /\ k # None /\ h.process = c /\ k.process = d => h.des = k.des

\* "/q" is sent when no other client is connected.
QuitOnlyAlone ==
  \A c \in Clients : pc[c] = "quit" =>
    \A d \in Clients \ {c} : ~Connected(d) \/ pc[d] = "dead"

\* A connected client has the pipes of DES.
PipesGiven == \A c \in Clients : pc[c] = "in" => Whole(c)

=============================================================================
