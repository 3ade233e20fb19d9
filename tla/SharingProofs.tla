---------------------------- MODULE SharingProofs ----------------------------
(***************************************************************************)
(* Theorems about HandleSharing, for any number of clients and connections *)
(* and any size of the client table, with sharers of any speed, launches   *)
(* that fail and clients that die: the table is not overrun, "/q" is sent  *)
(* when nobody else is connected, all use one DES process, and a petition  *)
(* that had to wait gets two handles of its own.                           *)
(*                                                                         *)
(* A petitioner takes a petitionee that times out off the table, although  *)
(* it may be alive, so the table alone does not say who is connected.  The *)
(* argument is that no petition times out once handle_sent_event has been  *)
(* signaled, as nothing resets it, and nobody joins by petition before:    *)
(* who is taken off was alone, and the petition that did it fails.         *)
(***************************************************************************)
EXTENDS HandleSharing, SequenceTheorems, FiniteSetTheorems, WellFoundedInduction, TLAPS

SharerPlaces == {"none", "wait", "open", "out", "in", "signal", "ended"}

\* A mutex nobody owns has been released as often as it was taken.
Mutex ==
  {m \in [owner : Some, count : Nat, abandoned : BOOLEAN] : m.owner = None <=> m.count = 0}

\* The types the argument needs.
Types ==
  /\ pc \in [Clients -> Places]
  /\ sharer \in [Clients -> SharerPlaces]
  /\ DOMAIN pipes = Clients
  /\ shared \in Mutex
  /\ table \in Seq(Clients)
  /\ created \in BOOLEAN
  /\ des \in [launched : Nat, alive : SUBSET Nat]
  /\ open \subseteq mapped /\ mapped \subseteq Clients

\* A client that is connected and has not died.
Live(c) == Connected(c) /\ pc[c] # "dead"
NobodyLives == \A c \in Clients : ~Live(c)

\* A client within connect(), past its check of the table.
Asking == {"request", "await", "retry", "collect", "reset"}
Newcomer(c) ==
  ~Connected(c) /\ pc[c] \in {"launch", "banner", "petition", "turn", "enter"} \cup Asking

PlaceInv ==
  \A c \in Clients :
    /\ pc[c] \in {"out", "launch", "banner", "petition", "enter"} => ~Connected(c)
    /\ pc[c] \in {"in", "join", "leave", "quit"} => Connected(c)
    /\ pc[c] = "dead" => sharer[c] = "ended"
    /\ Live(c) => c \in open

\* A newcomer keeps the shared-memory mutex, which it took twice for a petition,
\* and with it the place it found in the table.
HoldInv ==
  \A c \in Clients : Newcomer(c) =>
    /\ shared.owner = c /\ shared.count >= 1 /\ c \in open
    /\ pc[c] \in {"turn", "retry", "collect", "reset"} => shared.count >= 2
    /\ Len(table) < MAX_CLIENTS

\* Everyone connected is in the table, but a client that was taken off alone.
ListedInv ==
  /\ table # <<>> => \A c \in Clients : Live(c) => Listed(table, c)
  /\ table = <<>> => \A c, d \in Clients : Live(c) /\ Live(d) => c = d

\* Before handle_sent_event was signaled there is one client at most, or none is
\* left that could signal it.  Who shares the pipes of another came after that.
SentInv ==
  /\ "sent" \notin events => Len(table) <= 1 \/ NobodyLives
  /\ \A c \in Clients :
       /\ pc[c] \in {"collect", "reset"} => "sent" \in events
       /\ pc[c] = "banner" => Whole(c)
       /\ Live(c) => "sent" \in events \/ Whole(c)
       /\ Live(c) /\ pc[c] \in Petitioning => "sent" \in events /\ pc[c] # "retry"

\* A launch finds the table empty; a petition has somebody to ask, and when it
\* is to take somebody off the table there is nobody else on it.
NewInv ==
  /\ ~created => table = <<>> /\ NobodyLives
  /\ \A c \in Clients :
       /\ pc[c] \in {"launch", "banner"} => ~created
       /\ Newcomer(c) /\ pc[c] \notin {"launch", "banner"} => created
       /\ Newcomer(c) /\ pc[c] \in Asking => table # <<>>
       /\ Newcomer(c) /\ pc[c] = "retry" => Len(table) <= 1 \/ NobodyLives
       /\ pc[c] = "enter" => \/ table # <<>> /\ "sent" \in events
                             \/ table = <<>> /\ NobodyLives /\ Whole(c)

\* Who quits DES has the mutex and has seen itself alone in the table.
QuitInv ==
  \A c \in Clients : pc[c] = "quit" =>
    /\ shared.owner = c /\ shared.count >= 1
    /\ table = <<>>
    /\ \A d \in Clients : Live(d) => d = c

IInv ==
  /\ Types /\ PlaceInv /\ HoldInv /\ ListedInv /\ SentInv /\ NewInv /\ QuitInv
  /\ TableBounded

-----------------------------------------------------------------------------
(* The table. *)

\* The least of the places where d stands.
LEMMA PlaceFirst ==
  ASSUME NEW T \in Seq(Clients), NEW d, Listed(T, d)
  PROVE  Place(T, d) \in 1 .. Len(T) /\ T[Place(T, d)] = d
<1> DEFINE at == {i \in 1 .. Len(T) : T[i] = d}
           upTo == {1 .. i : i \in at}
<1>1. at # {} /\ at \subseteq Nat
  BY DEF Listed
<1>2. upTo # {} /\ upTo \subseteq FiniteSubsetsOf(Nat)
  <2>1. \A i \in Nat : IsFiniteSet(1 .. i)
    BY FS_Interval
  <2> QED
    BY <1>1, <2>1 DEF FiniteSubsetsOf
<1>3. PICK least \in upTo : \A u \in upTo : ~(<<u, least>> \in StrictSubsetOrdering(Nat))
  BY <1>2, FS_StrictSubsetOrderingWellFounded, WFMin
<1>4. PICK i \in at : least = 1 .. i
  OBVIOUS
<1>5. ASSUME NEW j \in at, j < i PROVE FALSE
  <2>1. 1 .. j \subseteq 1 .. i /\ 1 .. j # 1 .. i /\ 1 .. j \in SUBSET Nat /\ 1 .. i \in SUBSET Nat
    BY <1>1, <1>5
  <2>2. <<1 .. j, 1 .. i>> \in StrictSubsetOrdering(Nat)
    BY <2>1 DEF StrictSubsetOrdering
  <2> QED
    BY <1>3, <1>4, <2>2
<1>6. i \in DOMAIN T /\ T[i] = d /\ \A j \in 1 .. i - 1 : T[j] # d
  BY <1>1, <1>5
<1> QED
  BY <1>6 DEF Place

\* Taking one client off the table leaves the others on it.
LEMMA WithoutLeaves ==
  ASSUME NEW T \in Seq(Clients), NEW d
  PROVE  /\ Without(T, d) \in Seq(Clients) /\ Len(Without(T, d)) <= Len(T)
         /\ IF Listed(T, d) THEN Len(Without(T, d)) = Len(T) - 1 ELSE Without(T, d) = T
         /\ \A e \in Clients \ {d} : Listed(T, e) => Listed(Without(T, d), e)
<1>1. CASE ~Listed(T, d)
  BY <1>1 DEF Without
<1>2. CASE Listed(T, d)
  <2> DEFINE p == Place(T, d)
             n == Len(T) - 1
             rest == [i \in 1 .. n |-> IF i < p THEN T[i] ELSE T[i + 1]]
  <2>1. p \in 1 .. Len(T) /\ T[p] = d /\ n \in Nat /\ Len(T) = n + 1
    BY <1>2, PlaceFirst
  <2>2. Without(T, d) = rest
    BY <1>2 DEF Without
  <2> HIDE DEF p, n
  <2>3. \A i \in 1 .. n : rest[i] \in Clients
    BY <2>1
  <2>4. rest \in Seq(Clients) /\ Len(rest) = n /\ DOMAIN rest = 1 .. n
    BY <2>1, <2>3
  <2>5. ASSUME NEW e \in Clients \ {d}, Listed(T, e) PROVE Listed(rest, e)
    <3>1. PICK i \in 1 .. Len(T) : T[i] = e
      BY <2>5 DEF Listed
    <3>2. CASE i < p
      <4>1. i \in 1 .. n /\ rest[i] = e
        BY <2>1, <3>1, <3>2
      <4> QED
        BY <2>4, <4>1 DEF Listed
    <3>3. CASE i > p
      <4>1. i - 1 \in 1 .. n /\ rest[i - 1] = e
        BY <2>1, <3>1, <3>3
      <4> QED
        BY <2>4, <4>1 DEF Listed
    <3>4. i # p
      BY <2>1, <2>5, <3>1
    <3> QED
      BY <2>1, <3>2, <3>3, <3>4
  <2> QED
    BY <1>2, <2>1, <2>2, <2>4, <2>5
<1> QED
  BY <1>1, <1>2

LEMMA Appended ==
  ASSUME NEW T \in Seq(Clients), NEW d \in Clients
  PROVE  /\ Append(T, d) \in Seq(Clients) /\ Append(T, d) # <<>>
         /\ Len(Append(T, d)) = Len(T) + 1
         /\ Listed(Append(T, d), d)
         /\ \A e : Listed(T, e) => Listed(Append(T, d), e)
<1>1. /\ Append(T, d) \in Seq(Clients) /\ Append(T, d) # <<>>
      /\ Len(Append(T, d)) = Len(T) + 1
      /\ \A i \in 1 .. Len(T) : Append(T, d)[i] = T[i]
      /\ Append(T, d)[Len(T) + 1] = d
  BY AppendProperties
<1>2. DOMAIN T = 1 .. Len(T) /\ DOMAIN Append(T, d) = 1 .. Len(T) + 1 /\ Len(T) \in Nat
  BY <1>1, LenProperties
<1> QED
  BY <1>1, <1>2 DEF Listed

LEMMA NobodyListed == \A e : ~Listed(<<>>, e)
  BY DEF Listed

-----------------------------------------------------------------------------
LEMMA InitHolds == Init => IInv
<1> SUFFICES ASSUME Init PROVE IInv
  OBVIOUS
<1>1. Types
  <2>1. Unowned \in Mutex
    BY DEF Unowned, Some, Mutex
  <2>2. <<>> \in Seq(Clients)
    OBVIOUS
  <2> QED
    BY <2>1, <2>2 DEF Init, Types, Places, SharerPlaces
<1>2. \A c \in Clients : pc[c] = "out" /\ ~Connected(c) /\ ~Live(c) /\ ~Newcomer(c)
  BY DEF Init, Connected, Live, Newcomer, Asking
<1>3. PlaceInv /\ HoldInv /\ ListedInv /\ QuitInv
  BY <1>2 DEF PlaceInv, HoldInv, ListedInv, QuitInv
<1>4. SentInv /\ NewInv /\ TableBounded
  BY <1>2, SharingAssumption DEF Init, SentInv, NewInv, TableBounded, NobodyLives
<1> QED
  BY <1>1, <1>3, <1>4 DEF IInv

-----------------------------------------------------------------------------
(* connect(). *)

LEMMA MutexSteps ==
  ASSUME NEW m \in Mutex, NEW c \in Clients
  PROVE  /\ Taken(m, c) \in Mutex /\ Taken(m, c).owner = c /\ Taken(m, c).count = m.count + 1
         /\ TakenIfPossible(m, c) \in Mutex /\ Abandoned(m, c) \in Mutex
         /\ Released(m, c) \in Mutex
         /\ m.owner # c => Released(m, c) = m /\ Abandoned(m, c) = m
         /\ m.owner = c /\ m.count >= 2 => /\ Released(m, c).owner = c
                                            /\ Released(m, c).count = m.count - 1
<1>1. m \in [owner : Some, count : Nat, abandoned : BOOLEAN] /\ (m.owner = None <=> m.count = 0)
  BY DEF Mutex
<1>2. c \in Some /\ c # None /\ Unowned \in Mutex
  BY SharingAssumption DEF Some, Unowned, Mutex
<1>3. Taken(m, c) \in Mutex /\ Taken(m, c).owner = c /\ Taken(m, c).count = m.count + 1
  BY <1>1, <1>2 DEF Taken, Mutex
<1>4. Abandoned(m, c) \in Mutex
  BY <1>1, <1>2 DEF Abandoned, Unowned, Mutex
<1>5. ASSUME m.owner = c, m.count # 1
      PROVE  [m EXCEPT !.count = @ - 1] \in Mutex
  BY <1>1, <1>2, <1>5 DEF Mutex
<1> QED
  BY <1>1, <1>2, <1>3, <1>4, <1>5 DEF Released, TakenIfPossible, Abandoned

\* A newcomer, or who quits, keeps the mutex while others move.
LEMMA TakeConnectKeeps == ASSUME IInv, NEW c \in Clients, TakeConnect(c) PROVE IInv'
<1> DEFINE full == Len(table) = MAX_CLIENTS
           to == IF shared.abandoned \/ full THEN "out" ELSE IF created THEN "petition" ELSE "launch"
<1>1. /\ pc[c] = "out" /\ pc' = [pc EXCEPT ![c] = to] /\ ~Connected(c)
      /\ open' = open \cup {c} /\ mapped' = mapped \cup {c}
      /\ shared.owner \in {None, c}
      /\ UNCHANGED <<sharer, pipes, table, events, created, sent, des>>
  BY DEF TakeConnect, Move, IInv, PlaceInv, record, Available
<1>2. /\ to \in {"out", "petition", "launch"}
      /\ to = "petition" => created
      /\ to = "launch" => ~created
      /\ to # "out" => shared' = Taken(shared, c) /\ Len(table) < MAX_CLIENTS
  BY SharingAssumption DEF TakeConnect, IInv, TableBounded, Types
<1>3. shared' \in Mutex
  BY MutexSteps DEF TakeConnect, IInv, Types
<1> HIDE DEF to
<1>4. \A d \in Clients \ {c} : ~Newcomer(d) /\ pc[d] # "quit"
  BY <1>1, SharingAssumption DEF IInv, HoldInv, QuitInv
<1>5. \A d \in Clients :
        /\ pc'[d] = IF d = c THEN to ELSE pc[d]
        /\ Live(d)' <=> Live(d)
        /\ Connected(d)' <=> Connected(d)
        /\ Whole(d)' <=> Whole(d)
        /\ d # c => ~Newcomer(d)'
  BY <1>1, <1>2, <1>4 DEF Live, Connected, Whole, Newcomer, IInv, Types
<1>6. ~Live(c) /\ (NobodyLives' <=> NobodyLives)
  BY <1>1, <1>5 DEF Live, NobodyLives
<1>7. Types'
  BY <1>1, <1>2, <1>3 DEF IInv, Types, Places
<1>8. PlaceInv'
  BY <1>1, <1>2, <1>5, <1>6 DEF IInv, PlaceInv
<1>9. HoldInv'
  <2>1. Newcomer(c)' => to \in {"petition", "launch"}
    BY <1>2, <1>5 DEF Newcomer, Asking
  <2>2. to # "out" => shared'.owner = c /\ shared'.count >= 1
    BY <1>2, MutexSteps DEF IInv, Types, Mutex
  <2> QED
    BY <1>1, <1>2, <1>5, <2>1, <2>2 DEF HoldInv
<1>10. ListedInv'
  BY <1>1, <1>5 DEF IInv, ListedInv, Listed
<1>11. SentInv'
  BY <1>1, <1>2, <1>5, <1>6 DEF IInv, SentInv
<1>12. NewInv'
  BY <1>1, <1>2, <1>5, <1>6 DEF IInv, NewInv, Newcomer, Asking
<1>13. QuitInv' /\ TableBounded'
  BY <1>1, <1>2, <1>4, <1>5 DEF IInv, QuitInv, TableBounded
<1> QED
  BY <1>7, <1>8, <1>9, <1>10, <1>11, <1>12, <1>13 DEF IInv

\* Only the mapping changes.
LEMMA TimeoutConnectKeeps == ASSUME IInv, NEW c \in Clients, TimeoutConnect(c) PROVE IInv'
<1>1. /\ open' = open \cup {c} /\ mapped' = mapped \cup {c}
      /\ UNCHANGED <<pc, sharer, pipes, shared, table, events, created, sent, des>>
  BY DEF TimeoutConnect, record
<1>2. /\ \A d \in Clients : (Live(d)' <=> Live(d)) /\ (Newcomer(d)' <=> Newcomer(d))
      /\ (NobodyLives' <=> NobodyLives)
  BY <1>1 DEF Live, Connected, Newcomer, NobodyLives
<1>3. Types' /\ PlaceInv' /\ HoldInv'
  BY <1>1, <1>2 DEF IInv, Types, PlaceInv, HoldInv, Connected
<1>4. ListedInv' /\ SentInv' /\ NewInv'
  BY <1>1, <1>2 DEF IInv, ListedInv, Listed, SentInv, NewInv, Whole
<1>5. QuitInv' /\ TableBounded'
  BY <1>1, <1>2 DEF IInv, QuitInv, TableBounded
<1> QED
  BY <1>3, <1>4, <1>5 DEF IInv

\* createPipes and CreateProcessW, or an error.
LEMMA LaunchKeeps == ASSUME IInv, NEW c \in Clients, Launch(c) PROVE IInv'
<1>1. PICK to \in {"banner", "out"} :
        /\ pc[c] = "launch" /\ pc' = [pc EXCEPT ![c] = to]
        /\ UNCHANGED <<sharer, shared, table, events, created, sent, mapped, open>>
        /\ des' \in [launched : Nat, alive : SUBSET Nat]
        /\ DOMAIN pipes' = Clients
        /\ \A d \in Clients \ {c} : pipes'[d] = pipes[d]
        /\ to = "banner" => Whole(c)'
  <2>1. CASE Move(c, "launch", "out") /\ UNCHANGED <<des, pipes>>
    BY <2>1 DEF Launch, Move, IInv, Types, record
  <2>2. CASE pipes' = [pipes EXCEPT ![c] = [e \in Ends |-> [process |-> c, des |-> des.launched + 1]]]
             /\ Move(c, "launch", "banner")
             /\ des' = [launched |-> des.launched + 1, alive |-> des.alive \cup {des.launched + 1}]
    <3>1. [process |-> c, des |-> des.launched + 1] \in Handle \ {None}
      BY SharingAssumption DEF IInv, Types, Handle
    <3> QED
      BY <2>2, <3>1 DEF Launch, Move, IInv, Types, record, Whole
  <2> QED
    BY <2>1, <2>2 DEF Launch
<1>2. ~Live(c) /\ ~Connected(c) /\ Newcomer(c)
  BY <1>1 DEF IInv, PlaceInv, Live, Newcomer
<1>3. /\ \A d \in Clients :
           /\ pc'[d] = IF d = c THEN to ELSE pc[d]
           /\ Live(d)' <=> Live(d)
           /\ Connected(d)' <=> Connected(d)
           /\ d # c => (Whole(d)' <=> Whole(d)) /\ (Newcomer(d)' <=> Newcomer(d))
      /\ NobodyLives' <=> NobodyLives
  BY <1>1, <1>2 DEF Live, Connected, Whole, Newcomer, NobodyLives, IInv, Types
<1>4. Types' /\ PlaceInv'
  BY <1>1, <1>2, <1>3 DEF IInv, Types, Places, PlaceInv
<1>5. HoldInv' /\ QuitInv' /\ TableBounded'
  BY <1>1, <1>2, <1>3 DEF IInv, HoldInv, QuitInv, TableBounded
<1>6. ListedInv' /\ SentInv'
  BY <1>1, <1>2, <1>3 DEF IInv, ListedInv, Listed, SentInv
<1>7. NewInv'
  BY <1>1, <1>2, <1>3 DEF IInv, NewInv, Newcomer, Asking
<1> QED
  BY <1>4, <1>5, <1>6, <1>7 DEF IInv

\* DES answered, so des_process_created is set, or did not.
LEMMA BannerKeeps == ASSUME IInv, NEW c \in Clients, Banner(c) PROVE IInv'
<1>1. PICK to \in {"enter", "out"} :
        /\ pc[c] = "banner" /\ pc' = [pc EXCEPT ![c] = to]
        /\ UNCHANGED <<sharer, pipes, shared, table, events, sent, des, mapped, open>>
        /\ to = "enter" => created' = TRUE
        /\ to = "out" => created' = created
  BY DEF Banner, Move, record
<1>2. /\ ~Live(c) /\ ~Connected(c) /\ Newcomer(c) /\ Whole(c)
      /\ table = <<>> /\ NobodyLives /\ ~created
  BY <1>1 DEF IInv, PlaceInv, Live, Newcomer, SentInv, NewInv
<1>3. \A d \in Clients \ {c} : ~Newcomer(d) /\ pc[d] # "quit"
  BY <1>2, SharingAssumption DEF IInv, HoldInv, QuitInv
<1>4. /\ \A d \in Clients :
           /\ pc'[d] = IF d = c THEN to ELSE pc[d]
           /\ ~Live(d)'
           /\ Connected(d)' <=> Connected(d)
           /\ Whole(d)' <=> Whole(d)
           /\ d # c => ~Newcomer(d)'
      /\ NobodyLives'
  BY <1>1, <1>2, <1>3 DEF Live, Connected, Whole, Newcomer, NobodyLives, IInv, Types
<1>5. Types' /\ PlaceInv'
  BY <1>1, <1>2, <1>4 DEF IInv, Types, Places, PlaceInv
<1>6. HoldInv' /\ QuitInv' /\ TableBounded'
  BY <1>1, <1>2, <1>3, <1>4 DEF IInv, HoldInv, QuitInv, TableBounded
<1>7. ListedInv' /\ SentInv'
  BY <1>1, <1>2, <1>4 DEF IInv, ListedInv, SentInv
<1>8. NewInv'
  <2>1. \A d \in Clients \ {c} : pc'[d] \notin {"launch", "banner", "enter"}
    BY <1>3, <1>4 DEF Newcomer, IInv, PlaceInv
  <2> QED
    BY <1>1, <1>2, <1>4, <2>1 DEF NewInv, Newcomer, Asking
<1> QED
  BY <1>5, <1>6, <1>7, <1>8 DEF IInv

\* The steps of one client that change neither the table nor who is connected:
\* within connect() or a petition, or on the way out of them.
LEMMA WalkKeeps ==
  ASSUME IInv, NEW c \in Clients, NEW to \in Places \ {"quit", "dead", "launch", "banner"},
         pc' = [pc EXCEPT ![c] = to], pc[c] \notin {"quit", "dead"},
         UNCHANGED <<sharer, table, created, des, mapped, open>>,
         DOMAIN pipes' = Clients,
         \A d \in Clients \ {c} : pipes'[d] = pipes[d],
         pipes' = pipes \/ (to = "reset" /\ "sent" \in events),
         "sent" \in events => "sent" \in events',
         "sent" \in events' => "sent" \in events,
         shared' \in Mutex,
         shared.owner \notin {None, c} => shared' = shared,
         to \in {"out", "petition", "enter"} => ~Connected(c),
         to \in {"in", "join", "leave"} => Connected(c),
         Newcomer(c)' =>
           /\ Newcomer(c) /\ pc[c] \notin {"launch", "banner"}
           /\ shared'.owner = c /\ shared'.count >= 1
           /\ to \in {"turn", "retry", "collect", "reset"} => shared'.count >= 2
           /\ to \in Asking => table # <<>>,
         to \in {"collect", "reset", "enter"} => "sent" \in events,
         to = "retry" => "sent" \notin events,
         to = "enter" => table # <<>>,
         Live(c) /\ to \in Petitioning => "sent" \in events
  PROVE  IInv'
<1>1. /\ \A d \in Clients :
           /\ pc'[d] = IF d = c THEN to ELSE pc[d]
           /\ Live(d)' <=> Live(d)
           /\ Connected(d)' <=> Connected(d)
           /\ d # c => (Whole(d)' <=> Whole(d)) /\ (Newcomer(d)' <=> Newcomer(d))
      /\ NobodyLives' <=> NobodyLives
  BY DEF Live, Connected, Whole, Newcomer, NobodyLives, IInv, Types
<1>2. Types' /\ PlaceInv'
  BY <1>1 DEF IInv, Types, PlaceInv, Live
<1>3. \A d \in Clients \ {c} : Newcomer(d) \/ pc[d] = "quit" => shared' = shared
  BY SharingAssumption DEF IInv, HoldInv, QuitInv
<1>4. HoldInv' /\ QuitInv' /\ TableBounded'
  BY <1>1, <1>3 DEF IInv, HoldInv, QuitInv, TableBounded
<1>5. ListedInv'
  BY <1>1 DEF IInv, ListedInv, Listed
<1>6. SentInv'
  <2>1. Live(c) => "sent" \in events \/ Whole(c)'
    BY DEF IInv, SentInv, Whole
  <2> QED
    BY <1>1, <2>1 DEF IInv, SentInv
<1>7. NewInv'
  BY <1>1 DEF IInv, NewInv, SentInv
<1> QED
  BY <1>2, <1>4, <1>5, <1>6, <1>7 DEF IInv

-----------------------------------------------------------------------------
(* get_DES_process_pipes(). *)

\* What a newcomer under way in its petition knows; who is connected already
\* petitions only after handle_sent_event was signaled.
LEMMA PetitionFacts ==
  ASSUME IInv, NEW c \in Clients, pc[c] \in Petitioning
  PROVE  /\ Connected(c) <=> Live(c)
         /\ ~Connected(c) =>
              /\ Newcomer(c) /\ shared.owner = c /\ shared.count >= 1
              /\ pc[c] \in {"turn", "retry", "collect", "reset"} => shared.count >= 2
              /\ pc[c] \in Asking => table # <<>>
         /\ Connected(c) => "sent" \in events /\ pc[c] # "retry"
<1>1. pc[c] # "dead"
  BY DEF Petitioning
<1>2. ~Connected(c) => Newcomer(c)
  BY DEF Newcomer, Petitioning, Asking
<1> QED
  BY <1>1, <1>2 DEF IInv, HoldInv, NewInv, SentInv, Live

LEMMA TakePetitionKeeps == ASSUME IInv, NEW c \in Clients, TakePetition(c) PROVE IInv'
<1> DEFINE to == IF shared.abandoned THEN ErrorPlace(c) ELSE "turn"
<1>1. /\ pc' = [pc EXCEPT ![c] = to] /\ shared' = Taken(shared, c)
      /\ UNCHANGED <<sharer, pipes, table, sent, events, created, des, mapped, open>>
      /\ \/ pc[c] = "petition" /\ ~Connected(c)
         \/ pc[c] = "in" /\ ~Whole(c) /\ Connected(c)
  <2>1. pc[c] = "petition" \/ (pc[c] = "in" /\ ~Whole(c))
    BY DEF TakePetition, NeedsPipes
  <2>2. (pc[c] = "petition" => ~Connected(c)) /\ (pc[c] = "in" => Connected(c))
    BY DEF IInv, PlaceInv
  <2> QED
    BY <2>1, <2>2 DEF TakePetition, record
<1>2. Live(c) => "sent" \in events
  <2>1. CASE pc[c] = "petition"
    BY <2>1, PetitionFacts DEF Petitioning
  <2>2. CASE pc[c] = "in" /\ ~Whole(c)
    BY <2>2 DEF IInv, SentInv
  <2> QED
    BY <1>1, <2>1, <2>2
<1>3. to = (IF Connected(c) THEN "in" ELSE "out") \/ to = "turn"
  BY DEF ErrorPlace
<1> HIDE DEF to
<1>4. /\ shared' \in Mutex /\ shared'.owner = c
      /\ ~Connected(c) => Newcomer(c) /\ shared'.count >= 2 /\ shared'.count >= 1
  <2>1. shared \in Mutex /\ shared.count \in Nat
    BY DEF IInv, Types, Mutex
  <2>2. ~Connected(c) => Newcomer(c) /\ shared.count >= 1
    BY <1>1, PetitionFacts DEF Petitioning
  <2>3. /\ Taken(shared, c) \in Mutex /\ Taken(shared, c).owner = c
        /\ Taken(shared, c).count = shared.count + 1
    BY <2>1, MutexSteps
  <2> QED
    BY <1>1, <2>1, <2>2, <2>3
<1>5. Newcomer(c)' => to = "turn" /\ ~Connected(c)
  BY <1>1, <1>3 DEF Newcomer, Connected, IInv, Types, Asking
<1>6. shared.owner \in {None, c}
  BY DEF TakePetition, Available
<1>7. to \in Places \ {"quit", "dead", "launch", "banner"} /\ to \notin Asking \cup {"enter", "petition"}
  BY <1>3 DEF Places, Asking
<1>8. DOMAIN pipes' = Clients
  BY <1>1 DEF IInv, Types
<1> QED
  BY <1>1, <1>2, <1>3, <1>4, <1>5, <1>6, <1>7, <1>8, WalkKeeps DEF Asking

\* The newcomer's two takings and this release leave it the mutex.
LEMMA OneReleased ==
  ASSUME IInv, NEW c \in Clients, pc[c] \in {"turn", "reset"}
  PROVE  /\ Released(shared, c) \in Mutex
         /\ shared.owner # c => Released(shared, c) = shared
         /\ ~Connected(c) => Released(shared, c).owner = c /\ Released(shared, c).count >= 1
<1>1. shared \in Mutex /\ shared.count \in Nat
  BY DEF IInv, Types, Mutex
<1>2. ~Connected(c) => shared.owner = c /\ shared.count >= 2
  BY PetitionFacts DEF Petitioning
<1>3. /\ Released(shared, c) \in Mutex
      /\ shared.owner # c => Released(shared, c) = shared
      /\ ~Connected(c) => /\ Released(shared, c).owner = c
                          /\ Released(shared, c).count = shared.count - 1
  BY <1>1, <1>2, MutexSteps
<1> QED
  BY <1>1, <1>2, <1>3

\* handle_petitioner_mutex is not got, or there is nobody to ask.
LEMMA TurnFailsKeeps ==
  ASSUME IInv, NEW c \in Clients, Move(c, "turn", ErrorPlace(c)), shared' = Released(shared, c),
         UNCHANGED <<sharer, pipes, table, sent, events, created, des, mapped, open>>
  PROVE  IInv'
<1>1. ErrorPlace(c) = (IF Connected(c) THEN "in" ELSE "out")
  BY DEF ErrorPlace
<1>2. ~Newcomer(c)'
  BY <1>1 DEF Newcomer, Move, IInv, Types, Connected, Asking
<1> QED
  BY <1>1, <1>2, OneReleased, WalkKeeps DEF Move, IInv, Types, Places, Petitioning

LEMMA TakeTurnKeeps == ASSUME IInv, NEW c \in Clients, TakeTurn(c) PROVE IInv'
<1>1. /\ pc[c] = "turn" /\ shared' = Released(shared, c)
      /\ UNCHANGED <<sharer, pipes, table, sent, events, created, des, mapped, open>>
      /\ \/ pc' = [pc EXCEPT ![c] = ErrorPlace(c)]
         \/ pc' = [pc EXCEPT ![c] = "request"] /\ shared.owner = c /\ table # <<>>
  BY DEF TakeTurn, Choose
<1>2. CASE pc' = [pc EXCEPT ![c] = ErrorPlace(c)]
  BY <1>1, <1>2, TurnFailsKeeps DEF Move
<1>3. CASE pc' = [pc EXCEPT ![c] = "request"] /\ shared.owner = c /\ table # <<>>
  <2>1. Live(c) => "sent" \in events
    BY <1>1, PetitionFacts DEF Petitioning
  <2>2. Newcomer(c)' => ~Connected(c) /\ Newcomer(c)
    BY <1>1, PetitionFacts DEF Newcomer, Connected, Petitioning
  <2> QED
    BY <1>1, <1>3, <2>1, <2>2, OneReleased, WalkKeeps DEF IInv, Types, Places
<1> QED
  BY <1>1, <1>2, <1>3

LEMMA TimeoutTurnKeeps == ASSUME IInv, NEW c \in Clients, TimeoutTurn(c) PROVE IInv'
  BY TurnFailsKeeps DEF TimeoutTurn, Move, record

LEMMA SetRequestKeeps == ASSUME IInv, NEW c \in Clients, SetRequest(c) PROVE IInv'
<1>1. /\ pc[c] = "request" /\ pc' = [pc EXCEPT ![c] = "await"]
      /\ UNCHANGED <<sharer, pipes, table, shared, sent, created, des, mapped, open>>
      /\ "sent" \in events <=> "sent" \in events'
  BY DEF SetRequest, Move, record
<1>2. Newcomer(c)' => ~Connected(c)
  BY <1>1 DEF Newcomer, Connected
<1> QED
  BY <1>1, <1>2, PetitionFacts, WalkKeeps DEF IInv, Types, Places, Petitioning, Asking

LEMMA AwaitedKeeps ==
  ASSUME IInv, NEW c \in Clients, Await(c) \/ AwaitTimeout(c)
  PROVE  IInv'
<1>1. PICK to \in {"collect", "retry"} :
        /\ pc[c] = "await" /\ pc' = [pc EXCEPT ![c] = to]
        /\ shared' = TakenIfPossible(shared, c)
        /\ to = "collect" <=> "sent" \in events
        /\ UNCHANGED <<sharer, pipes, table, sent, events, created, des, mapped, open>>
  BY DEF Await, AwaitTimeout, Move, record
<1>2. Newcomer(c)' => ~Connected(c)
  BY <1>1 DEF Newcomer, Connected
<1>3. /\ shared' \in Mutex
      /\ ~Connected(c) => shared' = Taken(shared, c)
      /\ shared.owner \notin {None, c} => shared' = shared
  BY <1>1, PetitionFacts, MutexSteps DEF TakenIfPossible, Available, IInv, Types, Petitioning
<1>4. ~Connected(c) => shared'.owner = c /\ shared'.count >= 2 /\ shared'.count >= 1
  <2>1. shared \in Mutex /\ shared.count \in Nat
    BY DEF IInv, Types, Mutex
  <2>2. ~Connected(c) => shared.count >= 1
    BY <1>1, PetitionFacts DEF Petitioning
  <2>3. Taken(shared, c).owner = c /\ Taken(shared, c).count = shared.count + 1
    BY <2>1, MutexSteps
  <2> QED
    BY <1>3, <2>1, <2>2, <2>3
<1>5. /\ ~Connected(c) => Newcomer(c) /\ table # <<>>
      /\ Live(c) => "sent" \in events
  BY <1>1, PetitionFacts DEF Petitioning, Asking
<1> QED
  BY <1>1, <1>2, <1>3, <1>4, <1>5, WalkKeeps DEF IInv, Types, Places

LEMMA CollectKeeps == ASSUME IInv, NEW c \in Clients, Collect(c) PROVE IInv'
<1>1. /\ pc[c] = "collect" /\ pc' = [pc EXCEPT ![c] = "reset"]
      /\ pipes' = [pipes EXCEPT ![c] = sent]
      /\ UNCHANGED <<sharer, table, shared, sent, events, created, des, mapped, open>>
  BY DEF Collect, Move, record
<1>2. "sent" \in events
  BY <1>1 DEF IInv, SentInv
<1>3. Newcomer(c)' => ~Connected(c)
  BY <1>1 DEF Newcomer, Connected
<1>4. DOMAIN pipes' = Clients /\ \A d \in Clients \ {c} : pipes'[d] = pipes[d]
  BY <1>1 DEF IInv, Types
<1> QED
  BY <1>1, <1>2, <1>3, <1>4, PetitionFacts, WalkKeeps DEF IInv, Types, Places, Petitioning, Asking

LEMMA ResetKeeps == ASSUME IInv, NEW c \in Clients, Reset(c) PROVE IInv'
<1> DEFINE to == ReturnPlace(c)
<1>1. /\ pc[c] = "reset" /\ pc' = [pc EXCEPT ![c] = to] /\ shared' = Released(shared, c)
      /\ UNCHANGED <<sharer, pipes, table, events, created, des, mapped, open>>
  BY DEF Reset, Move
<1>2. to = (IF Connected(c) THEN "in" ELSE "enter")
  BY DEF ReturnPlace
<1> HIDE DEF to
<1>3. "sent" \in events
  BY <1>1 DEF IInv, SentInv
<1>4. Newcomer(c)' => ~Connected(c)
  BY <1>1 DEF Newcomer, Connected
<1>5. ~Connected(c) => table # <<>> /\ Newcomer(c)
  BY <1>1, PetitionFacts DEF Petitioning, Asking
<1> QED
  BY <1>1, <1>2, <1>3, <1>4, <1>5, OneReleased, WalkKeeps DEF IInv, Types, Places, Petitioning, Asking

\* Who meets the mutex of a newcomer cannot be one.
LEMMA OneNewcomer ==
  ASSUME IInv, NEW c \in Clients, Newcomer(c)
  PROVE  \A d \in Clients \ {c} : ~Newcomer(d) /\ pc[d] # "quit"
  BY DEF IInv, HoldInv, QuitInv

\* Only a newcomer takes a petitionee off the table, and that one was alone there.
LEMMA RetryKeeps == ASSUME IInv, NEW c \in Clients, Retry(c) PROVE IInv'
<1> DEFINE T == Without(table, petitionee)
           to == IF T = <<>> THEN "out" ELSE "request"
<1>1. pc[c] = "retry" /\ ~Connected(c) /\ ~Live(c)
  BY PetitionFacts DEF Retry, Petitioning
<1>2. /\ Newcomer(c) /\ shared.owner = c /\ shared.count >= 2
      /\ table # <<>> /\ created /\ (Len(table) <= 1 \/ NobodyLives)
  BY <1>1, PetitionFacts DEF Petitioning, Asking, IInv, NewInv
<1>3. /\ T \in Seq(Clients) /\ Len(T) <= Len(table)
      /\ IF Listed(table, petitionee) THEN Len(T) = Len(table) - 1 ELSE T = table
  BY WithoutLeaves DEF IInv, Types
<1>4. /\ pc' = [pc EXCEPT ![c] = to] /\ table' = T /\ shared' = Released(shared, c)
      /\ UNCHANGED <<sharer, pipes, events, created, des, mapped, open>>
  BY <1>1, <1>2 DEF Retry, Choose, ErrorPlace
<1> HIDE DEF T, to
<1>5. to \in {"out", "request"} /\ (to = "request" => T # <<>>)
  BY DEF to
<1>6. /\ shared' \in Mutex /\ shared'.owner = c /\ shared'.count >= 1
  <2>1. shared \in Mutex /\ shared.count \in Nat
    BY DEF IInv, Types, Mutex
  <2>2. /\ shared' \in Mutex /\ shared'.owner = c /\ shared'.count = shared.count - 1
    BY <1>2, <1>4, <2>1, MutexSteps
  <2> QED
    BY <1>2, <2>1, <2>2
<1>7. /\ \A d \in Clients :
           /\ pc'[d] = IF d = c THEN to ELSE pc[d]
           /\ (Live(d)' <=> Live(d)) /\ (Connected(d)' <=> Connected(d)) /\ (Whole(d)' <=> Whole(d))
           /\ d # c => ~Newcomer(d)' /\ ~Newcomer(d) /\ pc[d] # "quit"
      /\ NobodyLives' <=> NobodyLives
  BY <1>1, <1>2, <1>4, <1>5, OneNewcomer DEF Live, Connected, Whole, Newcomer, NobodyLives, IInv, Types
<1>8. Types' /\ PlaceInv'
  BY <1>1, <1>3, <1>4, <1>5, <1>6, <1>7 DEF IInv, Types, Places, PlaceInv
<1>9. Len(table) < MAX_CLIENTS /\ c \in open
  BY <1>2 DEF IInv, HoldInv
<1>10. Len(T) < MAX_CLIENTS /\ Len(T) \in Nat /\ Len(table) \in Nat
  BY <1>3, <1>9, SharingAssumption DEF IInv, Types
<1>11. HoldInv' /\ QuitInv' /\ TableBounded'
  BY <1>4, <1>5, <1>6, <1>7, <1>9, <1>10, SharingAssumption DEF HoldInv, QuitInv, TableBounded
<1>12. ListedInv'
  <2>1. CASE NobodyLives
    BY <1>7, <2>1 DEF ListedInv, NobodyLives
  <2>2. CASE Len(table) <= 1 /\ Listed(table, petitionee)
    <3>1. T = <<>>
      BY <1>3, <1>10, <2>2
    <3>2. \A d \in Clients : Live(d) => d = table[1]
      BY <1>2, <1>10, <2>2 DEF IInv, ListedInv, Listed, Types
    <3> QED
      BY <1>4, <1>7, <3>1, <3>2 DEF ListedInv
  <2>3. CASE ~Listed(table, petitionee)
    BY <1>3, <1>4, <1>7, <2>3 DEF IInv, ListedInv, Listed
  <2> QED
    BY <1>2, <2>1, <2>2, <2>3
<1>13. SentInv'
  <2>1. Len(table) <= 1 => Len(T) <= 1
    BY <1>3, <1>10
  <2> QED
    BY <1>1, <1>2, <1>4, <1>5, <1>7, <2>1 DEF IInv, SentInv
<1>14. NewInv'
  <2>1. \A d \in Clients \ {c} : pc[d] \notin {"launch", "banner", "enter"}
    BY <1>7 DEF Newcomer, IInv, PlaceInv
  <2> QED
    BY <1>2, <1>4, <1>5, <1>7, <2>1 DEF NewInv, Asking
<1> QED
  BY <1>8, <1>11, <1>12, <1>13, <1>14 DEF IInv

\* The client is in the table, and shares its pipes or has its own.
LEMMA EnterKeeps == ASSUME IInv, NEW c \in Clients, Enter(c) PROVE IInv'
<1>1. /\ pc[c] = "enter" /\ pc' = [pc EXCEPT ![c] = "in"]
      /\ sharer' = [sharer EXCEPT ![c] = "wait"]
      /\ table' = Append(table, c) /\ shared' = Released(shared, c)
      /\ UNCHANGED <<pipes, events, created, des, mapped, open>>
  BY DEF Enter, Move, record
<1>2. ~Connected(c) /\ ~Live(c) /\ Newcomer(c)
  BY <1>1 DEF IInv, PlaceInv, Live, Newcomer
<1>3. /\ created /\ c \in open /\ Len(table) < MAX_CLIENTS
      /\ \/ table # <<>> /\ "sent" \in events
         \/ table = <<>> /\ NobodyLives /\ Whole(c)
  BY <1>1, <1>2 DEF IInv, HoldInv, NewInv
<1>4. /\ \A d \in Clients :
           /\ pc'[d] = IF d = c THEN "in" ELSE pc[d]
           /\ Live(d)' <=> (Live(d) \/ d = c)
           /\ Connected(d)' <=> (Connected(d) \/ d = c)
           /\ Whole(d)' <=> Whole(d)
           /\ ~Newcomer(d)'
           /\ d # c => ~Newcomer(d) /\ pc[d] # "quit"
  BY <1>1, <1>2, OneNewcomer DEF Live, Connected, Whole, Newcomer, Asking, IInv, Types
<1>5. /\ table' \in Seq(Clients) /\ table' # <<>> /\ Len(table') = Len(table) + 1
      /\ Listed(table', c) /\ \A d \in Clients : Listed(table, d) => Listed(table', d)
      /\ Len(table) \in Nat
  BY <1>1, Appended DEF IInv, Types
<1>6. Types' /\ PlaceInv'
  <2>1. shared' \in Mutex
    BY <1>1, MutexSteps DEF IInv, Types
  <2> QED
    BY <1>1, <1>3, <1>4, <1>5, <2>1 DEF IInv, Types, Places, SharerPlaces, PlaceInv
<1>7. HoldInv' /\ QuitInv' /\ TableBounded'
  BY <1>3, <1>4, <1>5, SharingAssumption DEF HoldInv, QuitInv, TableBounded
<1>8. ListedInv'
  BY <1>3, <1>4, <1>5 DEF IInv, ListedInv, NobodyLives
<1>9. SentInv'
  <2>1. table = <<>> => Len(table') <= 1
    BY <1>5
  <2> QED
    BY <1>1, <1>3, <1>4, <2>1 DEF IInv, SentInv, Petitioning
<1>10. NewInv'
  <2>1. \A d \in Clients \ {c} : pc[d] \notin {"launch", "banner", "enter"}
    BY <1>4 DEF Newcomer, IInv, PlaceInv
  <2> QED
    BY <1>1, <1>3, <1>4, <2>1 DEF NewInv
<1> QED
  BY <1>6, <1>7, <1>8, <1>9, <1>10 DEF IInv

-----------------------------------------------------------------------------
(* The sharing thread, and close(). *)

\* A sharing thread runs in a live client, and at most signals the event.
LEMMA SharerKeeps == ASSUME IInv, NEW c \in Clients, SharerStep(c) PROVE IInv'
<1>1. PICK to \in SharerPlaces \ {"none"} :
        /\ sharer[c] \notin {"none", "ended"} /\ sharer' = [sharer EXCEPT ![c] = to]
        /\ "sent" \in events => "sent" \in events'
        /\ UNCHANGED <<pc, pipes, shared, table, created, des, mapped, open>>
  <2>1. ASSUME NEW from \in {"wait", "open", "out", "in", "signal"},
               NEW to \in SharerPlaces \ {"none"}, ShareStep(c, from, to),
               "sent" \in events => "sent" \in events'
        PROVE  /\ sharer[c] \notin {"none", "ended"} /\ sharer' = [sharer EXCEPT ![c] = to]
               /\ UNCHANGED <<pc, pipes, shared, table, created, des, mapped, open>>
    BY <2>1 DEF ShareStep
  <2>2. CASE WakeToShare(c)
    BY <2>1, <2>2 DEF WakeToShare, SharerPlaces
  <2>3. CASE WakeToFinish(c)
    BY <2>1, <2>3 DEF WakeToFinish, SharerPlaces
  <2>4. CASE OpenPetitioner(c)
    BY <2>1, <2>4 DEF OpenPetitioner, SharerPlaces
  <2>5. CASE DuplicateOut(c)
    BY <2>1, <2>5 DEF DuplicateOut, Duplicate, SharerPlaces
  <2>6. CASE DuplicateIn(c)
    BY <2>1, <2>6 DEF DuplicateIn, Duplicate, SharerPlaces
  <2>7. CASE SignalSent(c)
    BY <2>1, <2>7 DEF SignalSent, SharerPlaces
  <2> QED
    BY <2>2, <2>3, <2>4, <2>5, <2>6, <2>7 DEF SharerStep
<1>2. Live(c)
  BY <1>1 DEF IInv, PlaceInv, Live, Connected
<1>3. "sent" \notin events' => "sent" \notin events
  BY <1>1
<1>4. /\ \A d \in Clients :
           /\ (Live(d)' <=> Live(d)) /\ (Connected(d)' <=> Connected(d))
           /\ (Whole(d)' <=> Whole(d)) /\ (Newcomer(d)' <=> Newcomer(d))
      /\ NobodyLives' <=> NobodyLives
  BY <1>1 DEF Live, Connected, Whole, Newcomer, NobodyLives, IInv, Types
<1>5. Types' /\ PlaceInv'
  BY <1>1, <1>2, <1>4 DEF IInv, Types, SharerPlaces, PlaceInv, Live
<1>6. HoldInv' /\ QuitInv' /\ TableBounded'
  BY <1>1, <1>4 DEF IInv, HoldInv, QuitInv, TableBounded
<1>7. ListedInv'
  BY <1>1, <1>4 DEF IInv, ListedInv, Listed
<1>8. SentInv' /\ NewInv'
  BY <1>1, <1>3, <1>4 DEF IInv, SentInv, NewInv
<1> QED
  BY <1>5, <1>6, <1>7, <1>8 DEF IInv

\* The beginning of close(), up to the wait for the mutex.
LEMMA CloseWalkKeeps ==
  ASSUME IInv, NEW c \in Clients, StartClose(c) \/ JoinSharer(c) \/ TimeoutLeave(c)
  PROVE  IInv'
<1>1. PICK to \in {"in", "join", "leave"} :
        /\ pc[c] \in {"in", "join", "leave"} /\ pc' = [pc EXCEPT ![c] = to]
        /\ shared' \in {shared, Released(shared, c), Taken(shared, c)}
        /\ shared' = Taken(shared, c) => shared.owner \in {None, c} \/ shared' = shared
        /\ "sent" \in events' <=> "sent" \in events
        /\ UNCHANGED <<sharer, pipes, table, created, des, mapped, open>>
  <2>1. CASE StartClose(c)
    <3>1. pc[c] = "in" /\ shared' = Taken(shared, c) /\ shared.owner \in {None, c}
      BY <2>1 DEF StartClose, Available
    <3>2. \E to \in {"in", "join"} : pc' = [pc EXCEPT ![c] = to]
      BY <2>1, <3>1 DEF StartClose, Move, IInv, Types
    <3> QED
      BY <2>1, <3>1, <3>2 DEF StartClose
  <2>2. CASE JoinSharer(c)
    <3>1. pc[c] = "join" /\ pc' = [pc EXCEPT ![c] = "leave"] /\ shared' = Released(shared, c)
      BY <2>2 DEF JoinSharer, Move
    <3>2. Released(shared, c) = Taken(shared, c) => shared.owner \in {None, c} \/ shared' = shared
      BY <3>1 DEF Released
    <3> QED
      BY <2>2, <3>1, <3>2 DEF JoinSharer
  <2>3. CASE TimeoutLeave(c)
    BY <2>3 DEF TimeoutLeave, Move, record
  <2> QED
    BY <2>1, <2>2, <2>3
<1>2. Connected(c) /\ pc[c] # "dead"
  BY <1>1 DEF IInv, PlaceInv
<1>3. ~Newcomer(c)'
  BY <1>1, <1>2 DEF Newcomer, Connected, IInv, Types
<1>4. shared' \in Mutex /\ (shared.owner \notin {None, c} => shared' = shared)
  <2>1. shared \in Mutex
    BY DEF IInv, Types
  <2>2. /\ Released(shared, c) \in Mutex /\ Taken(shared, c) \in Mutex
        /\ shared.owner # c => Released(shared, c) = shared
    BY <2>1, MutexSteps
  <2> QED
    BY <1>1, <2>1, <2>2
<1> QED
  BY <1>1, <1>2, <1>3, <1>4, WalkKeeps DEF IInv, Types, Places, Petitioning, Asking

\* A client that is no longer live has let go of the events, and may have taken
\* them along; newcomers and live clients keep them.
LEMMA DepartureKeeps ==
  ASSUME IInv, NEW c \in Clients, NEW to \in {"out", "dead"}, NEW s \in Mutex, NEW t,
         pc' = [pc EXCEPT ![c] = to],
         to = "out" => ~Connected(c)',
         to = "dead" => sharer'[c] = "ended",
         sharer' \in [Clients -> SharerPlaces],
         \A d \in Clients \ {c} : sharer'[d] = sharer[d],
         DOMAIN pipes' = Clients, \A d \in Clients \ {c} : pipes'[d] = pipes[d],
         CloseObjects(c, s, t, events),
         shared.owner # c => s = shared,
         table' \in Seq(Clients), Len(table') <= Len(table),
         created' \in BOOLEAN, des' \in [launched : Nat, alive : SUBSET Nat],
         open' \subseteq mapped', mapped' \subseteq Clients,
         \A d \in Clients \ {c} : Listed(table, d) /\ Live(d) => Listed(table', d),
         \A d \in Clients \ {c} : Newcomer(d) => table' = table /\ created' = created,
         \/ created' = created
         \/ ~created' /\ table' = <<>> /\ \A d \in Clients \ {c} : ~Live(d)
  PROVE  IInv'
<1>1. /\ \A d \in Clients :
           /\ pc'[d] = IF d = c THEN to ELSE pc[d]
           /\ d # c => /\ (Live(d)' <=> Live(d)) /\ (Connected(d)' <=> Connected(d))
                       /\ (Whole(d)' <=> Whole(d)) /\ (Newcomer(d)' <=> Newcomer(d))
      /\ ~Live(c)' /\ ~Newcomer(c)'
      /\ NobodyLives => NobodyLives'
  BY DEF Live, Connected, Whole, Newcomer, NobodyLives, Asking, IInv, Types
<1>2. \A d \in Clients \ {c} : Live(d) \/ Newcomer(d) => d \in open' /\ events' = events /\ shared' = s
  BY DEF IInv, PlaceInv, HoldInv, CloseObjects
<1>3. \A d \in Clients \ {c} :
        /\ pc[d] \in {"launch", "banner", "enter"} => Newcomer(d)
        /\ pc[d] \in {"collect", "reset"} => Live(d) \/ Newcomer(d)
        /\ pc[d] = "quit" => Live(d)
  BY DEF IInv, PlaceInv, Live, Newcomer, Asking
<1>4. /\ events' = events \/ (events' = {} /\ NobodyLives')
      /\ shared' \in Mutex /\ open' = open \ {c}
  <2>1. shared' = s \/ shared' = Unowned
    BY DEF CloseObjects
  <2>2. Unowned \in Mutex
    BY DEF Unowned, Mutex, Some
  <2>3. events' # events => events' = {} /\ open' = {}
    BY DEF CloseObjects
  <2> QED
    BY <1>1, <1>2, <2>1, <2>2, <2>3 DEF NobodyLives, CloseObjects
<1>5. Len(table') \in Nat /\ Len(table) \in Nat /\ (table' # <<>> => table # <<>>)
  <2>1. Len(table') \in Nat /\ Len(table) \in Nat
    BY LenProperties DEF IInv, Types
  <2>2. table = <<>> => table' = <<>>
    BY <2>1, EmptySeq
  <2> QED
    BY <2>1, <2>2
<1>6. Types' /\ PlaceInv'
  BY <1>1, <1>2, <1>4 DEF IInv, Types, Places, PlaceInv
<1>7. \A d \in Clients \ {c} : Newcomer(d) \/ pc[d] = "quit" => s = shared
  BY DEF IInv, HoldInv, QuitInv
<1>8. HoldInv'
  BY <1>1, <1>2, <1>7 DEF IInv, HoldInv
<1>9. QuitInv' /\ TableBounded'
  BY <1>1, <1>2, <1>3, <1>5, <1>7, SharingAssumption DEF IInv, QuitInv, TableBounded
<1>10. ListedInv'
  <2>1. \A d \in Clients : Live(d)' => d # c /\ Live(d)
    BY <1>1
  <2> QED
    BY <1>5, <2>1, NobodyListed DEF IInv, ListedInv
<1>11. SentInv'
  <2>1. "sent" \notin events' => Len(table') <= 1 \/ NobodyLives'
    BY <1>1, <1>4, <1>5 DEF IInv, SentInv
  <2> QED
    BY <1>1, <1>2, <1>3, <2>1 DEF IInv, SentInv
<1>12. NewInv'
  <2>1. ~created' => table' = <<>> /\ NobodyLives'
    BY <1>1, <1>5 DEF IInv, NewInv, NobodyLives
  <2> QED
    BY <1>1, <1>2, <1>3, <2>1 DEF IInv, NewInv
<1> QED
  BY <1>6, <1>8, <1>9, <1>10, <1>11, <1>12 DEF IInv

LEMMA LeaveKeeps == ASSUME IInv, NEW c \in Clients, Leave(c) PROVE IInv'
<1> DEFINE rest == Without(table, c)
<1>1. /\ pc[c] = "leave" /\ Connected(c) /\ Live(c) /\ shared.owner \in {None, c}
      /\ UNCHANGED <<pipes, created, des, mapped>>
  BY DEF Leave, Move, Available, IInv, PlaceInv, Live
<1>2. /\ rest \in Seq(Clients) /\ Len(rest) <= Len(table)
      /\ \A d \in Clients \ {c} : Listed(table, d) => Listed(rest, d)
  BY WithoutLeaves DEF IInv, Types
<1>3. \A d \in Clients \ {c} : ~Newcomer(d) /\ pc[d] # "quit"
  BY <1>1, SharingAssumption DEF IInv, HoldInv, QuitInv
<1>4. shared \in Mutex
  BY DEF IInv, Types
<1> HIDE DEF rest
<1>5. CASE /\ pc' = [pc EXCEPT ![c] = "in"] /\ shared' = Taken(shared, c)
           /\ UNCHANGED <<sharer, table, events, open>>
  <2>1. ~Newcomer(c)' /\ shared' \in Mutex
    BY <1>1, <1>4, <1>5, MutexSteps DEF Newcomer, Connected
  <2> QED
    BY <1>1, <1>5, <2>1, WalkKeeps DEF IInv, Types, Places, Petitioning, Asking
<1>6. CASE /\ pc' = [pc EXCEPT ![c] = "quit"] /\ shared' = Taken(shared, c)
           /\ table' = rest /\ rest = <<>>
           /\ UNCHANGED <<sharer, events, open>>
  <2>1. \A d \in Clients : Live(d) => d = c
    BY <1>1, <1>2, <1>6, NobodyListed DEF IInv, ListedInv
  <2>2. /\ \A d \in Clients :
             /\ pc'[d] = IF d = c THEN "quit" ELSE pc[d]
             /\ (Live(d)' <=> Live(d)) /\ (Connected(d)' <=> Connected(d))
             /\ (Whole(d)' <=> Whole(d)) /\ ~Newcomer(d)'
    BY <1>1, <1>3, <1>6 DEF Live, Connected, Whole, Newcomer, Asking, IInv, Types
  <2>3. created
    BY <1>1 DEF IInv, NewInv, NobodyLives
  <2>4. shared' \in Mutex /\ shared'.owner = c /\ shared'.count >= 1
    <3>1. shared.count \in Nat
      BY <1>4 DEF Mutex
    <3>2. Taken(shared, c) \in Mutex /\ Taken(shared, c).owner = c /\ Taken(shared, c).count = shared.count + 1
      BY <1>4, MutexSteps
    <3> QED
      BY <1>6, <3>1, <3>2
  <2>5. \A d \in Clients : pc'[d] \notin {"launch", "banner", "enter"}
    BY <1>3, <2>2 DEF Newcomer, IInv, PlaceInv
  <2>6. Types' /\ PlaceInv'
    BY <1>1, <1>2, <1>6, <2>2, <2>4 DEF IInv, Types, Places, PlaceInv
  <2>7. HoldInv' /\ QuitInv' /\ ListedInv'
    BY <1>3, <1>6, <2>1, <2>2, <2>4 DEF HoldInv, QuitInv, ListedInv
  <2>8. TableBounded' /\ SentInv'
    <3>1. Len(table') = 0
      BY <1>6
    <3> QED
      BY <1>6, <2>2, <3>1, SharingAssumption DEF IInv, TableBounded, SentInv, Petitioning
  <2>9. NewInv'
    BY <1>1, <2>2, <2>3, <2>5 DEF NewInv
  <2> QED
    BY <2>6, <2>7, <2>8, <2>9 DEF IInv
<1>7. CASE /\ pc' = [pc EXCEPT ![c] = "out"] /\ table' = rest
           /\ sharer' = [sharer EXCEPT ![c] = "none"]
           /\ CloseObjects(c, shared, turn, events)
  <2>1. /\ ~Connected(c)' /\ sharer' \in [Clients -> SharerPlaces]
        /\ \A d \in Clients \ {c} : sharer'[d] = sharer[d]
    BY <1>7 DEF Connected, IInv, Types, SharerPlaces
  <2>2. open' \subseteq mapped' /\ mapped' \subseteq Clients /\ DOMAIN pipes' = Clients
    BY <1>1, <1>7 DEF CloseObjects, IInv, Types
  <2>3. created' \in BOOLEAN /\ des' \in [launched : Nat, alive : SUBSET Nat]
    BY <1>1 DEF IInv, Types
  <2> QED
    BY <1>1, <1>2, <1>3, <1>4, <1>7, <2>1, <2>2, <2>3, DepartureKeeps
<1> QED
  BY <1>5, <1>6, <1>7 DEF Leave, Move, rest

LEMMA QuitKeeps == ASSUME IInv, NEW c \in Clients, Quit(c) PROVE IInv'
<1>1. /\ pc[c] = "quit" /\ pc' = [pc EXCEPT ![c] = "out"]
      /\ sharer' = [sharer EXCEPT ![c] = "none"] /\ created' = FALSE
      /\ CloseObjects(c, Released(shared, c), turn, events)
      /\ UNCHANGED <<pipes, table, mapped>>
  BY DEF Quit, Move
<1>2. /\ shared.owner = c /\ table = <<>> /\ \A d \in Clients \ {c} : ~Live(d)
  BY <1>1 DEF IInv, QuitInv
<1>3. \A d \in Clients \ {c} : ~Newcomer(d)
  BY <1>2 DEF IInv, HoldInv
<1>4. Released(shared, c) \in Mutex
  BY MutexSteps DEF IInv, Types
<1>5. des' \in [launched : Nat, alive : SUBSET Nat]
  BY DEF Quit, IInv, Types
<1>6. /\ ~Connected(c)' /\ sharer' \in [Clients -> SharerPlaces]
      /\ \A d \in Clients \ {c} : sharer'[d] = sharer[d]
  BY <1>1 DEF Connected, IInv, Types, SharerPlaces
<1>7. open' \subseteq mapped' /\ mapped' \subseteq Clients /\ DOMAIN pipes' = Clients
  BY <1>1 DEF CloseObjects, IInv, Types
<1>8. table' \in Seq(Clients) /\ Len(table') <= Len(table)
  <2>1. table \in Seq(Clients) /\ Len(table) \in Nat
    BY LenProperties DEF IInv, Types
  <2> QED
    BY <1>1, <2>1
<1> QED
  BY <1>1, <1>2, <1>3, <1>4, <1>5, <1>6, <1>7, <1>8, DepartureKeeps

LEMMA CrashKeeps == ASSUME IInv, NEW c \in Clients, Crash(c) PROVE IInv'
<1>1. /\ pc' = [pc EXCEPT ![c] = "dead"] /\ sharer' = [sharer EXCEPT ![c] = "ended"]
      /\ pipes' = [pipes EXCEPT ![c] = NoPipes] /\ mapped' = mapped \ {c}
      /\ CloseObjects(c, Abandoned(shared, c), Abandoned(turn, c), events)
      /\ des' = des
      /\ IF mapped' = {} THEN table' = <<>> /\ created' = FALSE
         ELSE table' = table /\ created' = created
  BY DEF Crash
<1>2. mapped' = {} => \A d \in Clients \ {c} : ~Live(d) /\ ~Newcomer(d)
  BY <1>1 DEF IInv, PlaceInv, HoldInv, Types
<1>3. Abandoned(shared, c) \in Mutex /\ (shared.owner # c => Abandoned(shared, c) = shared)
  BY MutexSteps DEF IInv, Types
<1>4. /\ sharer'[c] = "ended" /\ sharer' \in [Clients -> SharerPlaces]
      /\ \A d \in Clients \ {c} : sharer'[d] = sharer[d]
      /\ DOMAIN pipes' = Clients /\ \A d \in Clients \ {c} : pipes'[d] = pipes[d]
  BY <1>1 DEF IInv, Types, SharerPlaces
<1>5. open' \subseteq mapped' /\ mapped' \subseteq Clients
  BY <1>1 DEF CloseObjects, IInv, Types
<1>6. table' \in Seq(Clients) /\ Len(table') <= Len(table) /\ created' \in BOOLEAN
  <2>1. table \in Seq(Clients) /\ Len(table) \in Nat /\ created \in BOOLEAN
    BY LenProperties DEF IInv, Types
  <2>2. CASE table' = <<>> /\ created' = FALSE
    <3>1. table' \in Seq(Clients)
      BY <2>2
    <3>2. Len(table') = 0
      BY <2>2
    <3>3. Len(table') <= Len(table)
      BY <2>1, <3>2
    <3>4. created' \in BOOLEAN
      BY <2>2
    <3> QED
      BY <3>1, <3>3, <3>4
  <2>3. CASE table' = table /\ created' = created
    BY <2>1, <2>3
  <2> QED
    BY <1>1, <2>2, <2>3
<1>7. des' \in [launched : Nat, alive : SUBSET Nat]
  BY <1>1 DEF IInv, Types
<1>8. /\ \A d \in Clients \ {c} : Listed(table, d) /\ Live(d) => Listed(table', d)
      /\ \A d \in Clients \ {c} : Newcomer(d) => table' = table /\ created' = created
      /\ \/ created' = created
         \/ ~created' /\ table' = <<>> /\ \A d \in Clients \ {c} : ~Live(d)
  BY <1>1, <1>2
<1> QED
  BY <1>1, <1>3, <1>4, <1>5, <1>6, <1>7, <1>8, DepartureKeeps

-----------------------------------------------------------------------------
LEMMA StepHolds == ASSUME IInv, [Next]_vars PROVE IInv'
<1>1. CASE UNCHANGED vars
  BY <1>1 DEF vars, record, IInv, Types, PlaceInv, HoldInv, ListedInv, SentInv, NewInv, QuitInv,
              TableBounded, Live, Connected, Whole, Newcomer, NobodyLives
<1>2. ASSUME NEW c \in Clients, ConnectStep(c) PROVE IInv'
  BY <1>2, TakeConnectKeeps, TimeoutConnectKeeps, LaunchKeeps, BannerKeeps, EnterKeeps,
     TakePetitionKeeps, TakeTurnKeeps, TimeoutTurnKeeps, SetRequestKeeps, AwaitedKeeps,
     RetryKeeps, CollectKeeps, ResetKeeps DEF ConnectStep
<1>3. ASSUME NEW c \in Clients, CloseStep(c) PROVE IInv'
  BY <1>3, CloseWalkKeeps, LeaveKeeps, QuitKeeps DEF CloseStep
<1> QED
  BY <1>1, <1>2, <1>3, SharerKeeps, CrashKeeps DEF Next

LEMMA Invariant == Spec => []IInv
<1>1. IInv /\ [Next]_vars => IInv'
  BY StepHolds
<1> QED
  BY InitHolds, <1>1, PTL DEF Spec

\* The table of connect() and remove_client_from_shmem has never more entries than
\* MAX_CLIENTS, though a newcomer is entered long after the check.
THEOREM TableFits == Spec => []TableBounded
<1>1. IInv => TableBounded
  BY DEF IInv
<1> QED
  BY Invariant, <1>1, PTL

\* close() sends "/q" when no other living client is connected, though clients in
\* use are taken off the table it goes by.
THEOREM LastQuits == Spec => []QuitOnlyAlone
<1>1. IInv => QuitOnlyAlone
  BY DEF IInv, QuitInv, QuitOnlyAlone, Live
<1> QED
  BY Invariant, <1>1, PTL

-----------------------------------------------------------------------------
(* Type correctness. *)

\* TypeOK, and a sharing thread duplicates for a client.
TypeInv ==
  /\ pc \in [Clients -> Places] /\ sharer \in [Clients -> SharerPlaces]
  /\ target \in [Clients -> Some] /\ pipes \in [Clients -> [Ends -> Handle]]
  /\ patient \in [Clients -> BOOLEAN]
  /\ shared \in Mutex /\ turn \in Mutex
  /\ table \in Seq(Clients)
  /\ petitioner \in [id : Some, pid : Some] /\ petitionee \in Some
  /\ sent \in [Ends -> Handle]
  /\ events \subseteq {"request", "sent", "finishing"}
  /\ created \in BOOLEAN
  /\ des \in [launched : Nat, alive : SUBSET Nat] /\ des.alive \subseteq 1 .. des.launched
  /\ open \subseteq mapped /\ mapped \subseteq Clients
  /\ connects \in Nat
  /\ \A c \in Clients : sharer[c] \in {"out", "in"} => target[c] \in Clients

LEMMA Constants ==
  /\ Clients \subseteq Some /\ None \in Some /\ Unowned \in Mutex
  /\ NoPipes \in [Ends -> Handle] /\ NoPetitioner \in [id : Some, pid : Some]
  BY DEF Some, Unowned, Mutex, NoPipes, NoPetitioner, Handle

LEMMA InitTyped == Init => TypeInv
<1> SUFFICES ASSUME Init PROVE TypeInv
  OBVIOUS
<1>1. <<>> \in Seq(Clients)
  OBVIOUS
<1>2. \A c \in Clients : sharer[c] = "none"
  BY DEF Init
<1>3. des \in [launched : Nat, alive : SUBSET Nat] /\ des.alive \subseteq 1 .. des.launched
  BY DEF Init
<1> QED
  BY <1>1, <1>2, <1>3, Constants DEF Init, TypeInv, Places, SharerPlaces

LEMMA ConnectTyped ==
  ASSUME TypeInv, NEW c \in Clients,
         TakeConnect(c) \/ TimeoutConnect(c) \/ Banner(c) \/ Enter(c)
  PROVE  TypeInv'
<1>1. /\ shared \in Mutex /\ Taken(shared, c) \in Mutex /\ Released(shared, c) \in Mutex
      /\ Released(Taken(shared, c), c) \in Mutex
  BY MutexSteps DEF TypeInv
<1>2. CASE TakeConnect(c)
  BY <1>1, <1>2 DEF TypeInv, TakeConnect, Move, Places, record
<1>3. CASE TimeoutConnect(c)
  BY <1>3 DEF TypeInv, TimeoutConnect, record
<1>4. CASE Banner(c)
  BY <1>4 DEF TypeInv, Banner, Move, Places, record
<1>5. CASE Enter(c)
  <2>1. Append(table, c) \in Seq(Clients)
    BY Appended DEF TypeInv
  <2> QED
    BY <1>1, <1>5, <2>1 DEF TypeInv, Enter, Move, Places, SharerPlaces, record
<1> QED
  BY <1>2, <1>3, <1>4, <1>5

LEMMA LaunchTyped == ASSUME TypeInv, NEW c \in Clients, Launch(c) PROVE TypeInv'
<1>1. CASE UNCHANGED <<des, pipes>>
  BY <1>1 DEF TypeInv, Launch, Move, Places, record
<1>2. CASE /\ des' = [launched |-> des.launched + 1, alive |-> des.alive \cup {des.launched + 1}]
           /\ pipes' = [pipes EXCEPT ![c] =
                          [e \in Ends |-> [process |-> c, des |-> des.launched + 1]]]
  <2>1. des.launched \in Nat /\ des.alive \subseteq 1 .. des.launched
    BY DEF TypeInv
  <2>2. /\ des' \in [launched : Nat, alive : SUBSET Nat]
        /\ des'.alive \subseteq 1 .. des'.launched
    BY <1>2, <2>1
  <2>3. pipes' \in [Clients -> [Ends -> Handle]]
    BY <1>2, <2>1 DEF TypeInv, Handle
  <2> QED
    BY <2>2, <2>3 DEF TypeInv, Launch, Move, Places, record
<1> QED
  BY <1>1, <1>2 DEF Launch

LEMMA ChooseTyped ==
  ASSUME TypeInv, NEW c \in Clients, NEW T \in Seq(Clients), NEW t \in Mutex,
         Choose(c, T, shared, t)
  PROVE  /\ pc' \in [Clients -> Places] /\ shared' \in Mutex /\ turn' \in Mutex
         /\ table' \in Seq(Clients) /\ petitionee' \in Some
<1>1. shared \in Mutex /\ Released(shared, c) \in Mutex /\ Released(t, c) \in Mutex
  BY MutexSteps DEF TypeInv
<1>2. ErrorPlace(c) \in Places
  BY DEF ErrorPlace, Places
<1>3. T # <<>> => Askable(T) \subseteq Clients
  <2>1. Len(T) \in Nat /\ \A i \in 1 .. Len(T) : T[i] \in Clients
    BY ElementOfSeq
  <2>2. T # <<>> => Len(T) >= 1
    BY <2>1, EmptySeq
  <2> QED
    BY <2>1, <2>2 DEF Askable
<1>4. petitionee' \in Some
  BY <1>3, Constants DEF Choose, TypeInv
<1> QED
  BY <1>1, <1>2, <1>4 DEF Choose, TypeInv, Places

LEMMA PetitionTyped ==
  ASSUME TypeInv, NEW c \in Clients,
         \/ TakePetition(c) \/ TakeTurn(c) \/ TimeoutTurn(c) \/ SetRequest(c) \/ Await(c)
         \/ AwaitTimeout(c) \/ Retry(c) \/ Collect(c) \/ Reset(c)
  PROVE  TypeInv'
<1>1. /\ shared \in Mutex /\ turn \in Mutex
      /\ Taken(shared, c) \in Mutex /\ Released(shared, c) \in Mutex
      /\ Taken(turn, c) \in Mutex /\ Released(turn, c) \in Mutex
      /\ TakenIfPossible(shared, c) \in Mutex
      /\ ErrorPlace(c) \in Places /\ ReturnPlace(c) \in Places
  BY MutexSteps DEF TypeInv, ErrorPlace, ReturnPlace, Places
<1>2. CASE TakePetition(c)
  BY <1>1, <1>2 DEF TypeInv, TakePetition, Places, record
<1>3. CASE TakeTurn(c)
  <2>1. CASE Choose(c, table, shared, Taken(turn, c)) /\ petitioner' = [id |-> c, pid |-> c]
    <3>1. petitioner' \in [id : Some, pid : Some]
      BY <2>1, Constants
    <3>2. table \in Seq(Clients)
      BY DEF TypeInv
    <3> QED
      BY <1>1, <1>3, <2>1, <3>1, <3>2, ChooseTyped DEF TypeInv, TakeTurn
  <2>2. CASE UNCHANGED <<table, petitioner, petitionee>> /\ turn' = Taken(turn, c)
             /\ shared' = Released(shared, c) /\ pc' = [pc EXCEPT ![c] = ErrorPlace(c)]
    BY <1>1, <1>3, <2>2 DEF TypeInv, TakeTurn
  <2> QED
    BY <1>3, <2>1, <2>2 DEF TakeTurn
<1>4. CASE TimeoutTurn(c)
  BY <1>1, <1>4 DEF TypeInv, TimeoutTurn, Move, record
<1>5. CASE SetRequest(c)
  BY <1>5 DEF TypeInv, SetRequest, Move, Places, record
<1>6. CASE Await(c) \/ AwaitTimeout(c)
  BY <1>1, <1>6 DEF TypeInv, Await, AwaitTimeout, Move, Places, record
<1>7. CASE Retry(c)
  <2>1. Without(table, petitionee) \in Seq(Clients)
    BY WithoutLeaves DEF TypeInv
  <2> QED
    BY <1>1, <1>7, <2>1, ChooseTyped DEF TypeInv, Retry
<1>8. CASE Collect(c)
  BY <1>8 DEF TypeInv, Collect, Move, Places, record
<1>9. CASE Reset(c)
  BY <1>1, <1>9, Constants DEF TypeInv, Reset, Move
<1> QED
  BY <1>2, <1>3, <1>4, <1>5, <1>6, <1>7, <1>8, <1>9

LEMMA SharerTyped == ASSUME TypeInv, NEW c \in Clients, SharerStep(c) PROVE TypeInv'
<1>1. ASSUME NEW from, NEW to \in SharerPlaces, ShareStep(c, from, to),
             target' \in [Clients -> Some], sent' \in [Ends -> Handle],
             events' \subseteq {"request", "sent", "finishing"},
             \A d \in Clients \ {c} : target'[d] = target[d],
             to \in {"out", "in"} => target'[c] \in Clients
      PROVE  TypeInv'
  BY <1>1 DEF TypeInv, ShareStep
<1>2. /\ target \in [Clients -> Some] /\ sent \in [Ends -> Handle]
      /\ pipes \in [Clients -> [Ends -> Handle]]
      /\ petitioner.pid \in Some /\ events \subseteq {"request", "sent", "finishing"}
  BY DEF TypeInv
<1>3. CASE WakeToShare(c) \/ WakeToFinish(c)
  BY <1>1, <1>2, <1>3 DEF WakeToShare, WakeToFinish, SharerPlaces
<1>4. CASE OpenPetitioner(c)
  <2> DEFINE p == petitioner.pid
             found == p # None /\ pc[p] # "dead"
             to == IF found THEN "out" ELSE "ended"
  <2>1. /\ ShareStep(c, "open", to) /\ UNCHANGED <<sent, events>>
        /\ target' = [target EXCEPT ![c] = IF found THEN p ELSE @]
    BY <1>4 DEF OpenPetitioner
  <2>2. target' \in [Clients -> Some] /\ \A d \in Clients \ {c} : target'[d] = target[d]
    BY <1>2, <2>1
  <2>3. to \in SharerPlaces /\ (to \in {"out", "in"} => target'[c] \in Clients)
    BY <1>2, <2>1 DEF SharerPlaces, Some
  <2> HIDE DEF to, p, found
  <2> QED
    BY <1>1, <1>2, <2>1, <2>2, <2>3
<1>5. ASSUME NEW e \in Ends, NEW next \in {"in", "signal"}, Duplicate(c, e, next)
      PROVE  TypeInv'
  <2>1. target[c] \in Clients
    BY <1>5 DEF Duplicate, ShareStep, TypeInv, Ends
  <2>2. CASE ShareStep(c, e, next) /\ pipes[c][e] # None /\ UNCHANGED <<target, events>>
             /\ sent' = [sent EXCEPT ![e] = [process |-> target[c], des |-> pipes[c][e].des]]
    <3>1. pipes[c][e] \in Handle \ {None}
      BY <1>2, <2>2
    <3>2. pipes[c][e].des \in Nat
      BY <3>1 DEF Handle
    <3>3. [process |-> target[c], des |-> pipes[c][e].des] \in Handle
      BY <2>1, <3>2 DEF Handle
    <3>4. sent' \in [Ends -> Handle]
      BY <1>2, <2>2, <3>3
    <3> QED
      BY <1>1, <1>2, <2>1, <2>2, <3>4 DEF SharerPlaces
  <2>3. CASE ShareStep(c, e, "ended") /\ UNCHANGED <<target, sent, events>>
    BY <1>1, <1>2, <2>3 DEF SharerPlaces
  <2> QED
    BY <1>5, <2>2, <2>3 DEF Duplicate
<1>6. CASE DuplicateOut(c) \/ DuplicateIn(c)
  BY <1>5, <1>6 DEF DuplicateOut, DuplicateIn, Ends
<1>7. CASE SignalSent(c)
  BY <1>1, <1>2, <1>7 DEF SignalSent, SharerPlaces
<1> QED
  BY <1>3, <1>4, <1>6, <1>7 DEF SharerStep

LEMMA ObjectsTyped ==
  ASSUME TypeInv, NEW c \in Clients, NEW s \in Mutex, NEW t \in Mutex,
         CloseObjects(c, s, t, events)
  PROVE  /\ open' = open \ {c} /\ shared' \in Mutex /\ turn' \in Mutex
         /\ events' \subseteq {"request", "sent", "finishing"}
  BY Constants DEF CloseObjects, TypeInv

LEMMA CloseTyped == ASSUME TypeInv, NEW c \in Clients, CloseStep(c) \/ Crash(c) PROVE TypeInv'
<1>1. /\ shared \in Mutex /\ turn \in Mutex
      /\ Taken(shared, c) \in Mutex /\ Released(shared, c) \in Mutex
      /\ Abandoned(shared, c) \in Mutex /\ Abandoned(turn, c) \in Mutex
  BY MutexSteps DEF TypeInv
<1>2. petitioner \in [id : Some, pid : Some] /\ c \in Some /\ None \in Some
  BY Constants DEF TypeInv
<1>3. CASE StartClose(c)
  BY <1>1, <1>2, <1>3 DEF TypeInv, StartClose, Move, Places
<1>4. CASE JoinSharer(c)
  BY <1>1, <1>2, <1>4 DEF TypeInv, JoinSharer, Move, Places
<1>5. CASE TimeoutLeave(c)
  BY <1>5 DEF TypeInv, TimeoutLeave, Move, Places, record
<1>6. CASE Leave(c)
  <2>1. Without(table, c) \in Seq(Clients)
    BY WithoutLeaves DEF TypeInv
  <2>2. CASE CloseObjects(c, shared, turn, events) /\ sharer' = [sharer EXCEPT ![c] = "none"]
             /\ table' = Without(table, c) /\ Move(c, "leave", "out")
    BY <1>1, <1>6, <2>1, <2>2, ObjectsTyped
       DEF TypeInv, Leave, Move, Places, SharerPlaces, record
  <2>3. CASE /\ UNCHANGED <<sharer, turn, events, open>> /\ shared' = Taken(shared, c)
             /\ table' \in {table, Without(table, c)}
             /\ Move(c, "leave", "in") \/ Move(c, "leave", "quit")
    BY <1>1, <1>6, <2>1, <2>3 DEF TypeInv, Leave, Move, Places, record
  <2> QED
    BY <1>6, <2>2, <2>3 DEF Leave
<1>7. CASE Quit(c)
  <2>1. /\ des' \in [launched : Nat, alive : SUBSET Nat]
        /\ des'.alive \subseteq 1 .. des'.launched
    BY <1>7 DEF Quit, TypeInv
  <2>2. CloseObjects(c, Released(shared, c), turn, events)
    BY <1>7 DEF Quit
  <2> QED
    BY <1>1, <1>7, <2>1, <2>2, ObjectsTyped, Constants
       DEF TypeInv, Quit, Move, Places, SharerPlaces
<1>8. CASE Crash(c)
  <2>1. CloseObjects(c, Abandoned(shared, c), Abandoned(turn, c), events)
    BY <1>8 DEF Crash
  <2>2. /\ table' \in Seq(Clients) /\ created' \in BOOLEAN
        /\ petitioner' \in [id : Some, pid : Some] /\ petitionee' \in Some
        /\ sent' \in [Ends -> Handle]
    <3>1. <<>> \in Seq(Clients)
      OBVIOUS
    <3> QED
      BY <1>8, <3>1, Constants DEF Crash, record, TypeInv
  <2>3. /\ pc' \in [Clients -> Places]
        /\ sharer' = [sharer EXCEPT ![c] = "ended"] /\ sharer' \in [Clients -> SharerPlaces]
        /\ pipes' \in [Clients -> [Ends -> Handle]]
    BY <1>8, Constants DEF Crash, TypeInv, Places, SharerPlaces
  <2>4. /\ open' \subseteq mapped' /\ mapped' \subseteq Clients
        /\ shared' \in Mutex /\ turn' \in Mutex
        /\ events' \subseteq {"request", "sent", "finishing"}
    BY <1>1, <1>8, <2>1, ObjectsTyped DEF Crash, TypeInv
  <2> QED
    BY <1>8, <2>2, <2>3, <2>4 DEF TypeInv, Crash
<1> QED
  BY <1>3, <1>4, <1>5, <1>6, <1>7, <1>8 DEF CloseStep

LEMMA Typing == Spec => []TypeInv
<1>1. TypeInv /\ [Next]_vars => TypeInv'
  <2>1. TypeInv /\ UNCHANGED vars => TypeInv'
    BY DEF vars, record, TypeInv
  <2>2. ASSUME TypeInv, NEW c \in Clients, ConnectStep(c) PROVE TypeInv'
    BY <2>2, ConnectTyped, LaunchTyped, PetitionTyped DEF ConnectStep
  <2> QED
    BY <2>1, <2>2, SharerTyped, CloseTyped DEF Next
<1> QED
  BY InitTyped, <1>1, PTL DEF Spec

\* Every variable keeps to its type: the mutexes are owned as often as they were
\* taken, the record holds handles of clients for DES processes that were launched.
THEOREM TypeCorrect == Spec => []TypeOK
<1>1. TypeInv => TypeOK
  BY DEF TypeInv, TypeOK, SharerPlaces, Mutex
<1> QED
  BY Typing, <1>1, PTL

-----------------------------------------------------------------------------
(* One DES process at a time. *)

\* The handles that will be used, the record's too, are for the DES process that
\* was launched last; the record is empty while none runs.
Holds(c) == Live(c) \/ pc[c] \in {"banner", "enter", "reset"}
DesInv ==
  /\ \A c \in Clients : Holds(c) =>
       \A e \in Ends : pipes[c][e] # None => pipes[c][e].des = des.launched
  /\ \A e \in Ends : sent[e] # None => created /\ sent[e].des = des.launched

LEMMA DesKept ==
  ASSUME DesInv, des'.launched = des.launched, pipes' = pipes,
         \A d \in Clients : Holds(d)' => Holds(d),
         sent' = NoPipes \/ (sent' = sent /\ created' = created)
  PROVE  DesInv'
  BY DEF DesInv, NoPipes

\* A step that moves one client, and no handle.
LEMMA DesWalk ==
  ASSUME IInv, DesInv, NEW c \in Clients, NEW to,
         pc' = [pc EXCEPT ![c] = to],
         Connected(c)' => Connected(c) \/ Holds(c), pc[c] # "dead",
         to \in {"banner", "enter", "reset"} => Holds(c),
         \A d \in Clients \ {c} : sharer'[d] = sharer[d],
         des'.launched = des.launched, pipes' = pipes,
         sent' = NoPipes \/ (sent' = sent /\ created' = created)
  PROVE  DesInv'
<1>1. \A d \in Clients : Holds(d)' => Holds(d)
  BY DEF Holds, Live, Connected, IInv, Types
<1> QED
  BY <1>1, DesKept

LEMMA DesLaunch == ASSUME IInv, TypeInv, DesInv, NEW c \in Clients, Launch(c) PROVE DesInv'
<1>1. pc[c] = "launch" /\ ~created /\ NobodyLives /\ Newcomer(c)
  BY DEF Launch, Move, IInv, NewInv, Newcomer, PlaceInv
<1>2. CASE Move(c, "launch", "out") /\ UNCHANGED <<des, pipes>>
  BY <1>1, <1>2, DesWalk DEF Launch, Move, record, Connected
<1>3. CASE /\ Move(c, "launch", "banner") /\ des'.launched = des.launched + 1
           /\ pipes' = [pipes EXCEPT ![c] =
                          [e \in Ends |-> [process |-> c, des |-> des.launched + 1]]]
  <2>1. \A d \in Clients \ {c} : ~Holds(d)
    BY <1>1, OneNewcomer DEF Holds, NobodyLives, Newcomer, Asking, IInv, PlaceInv, Live
  <2>2. \A d \in Clients \ {c} : ~Holds(d)'
    BY <1>3, <2>1 DEF Holds, Live, Connected, Launch, Move, IInv, Types
  <2>3. \A e \in Ends : pipes'[c][e].des = des'.launched
    BY <1>3 DEF TypeInv
  <2>4. \A e \in Ends : sent[e] = None
    BY <1>1 DEF DesInv
  <2> QED
    BY <2>2, <2>3, <2>4 DEF DesInv, Launch, record
<1> QED
  BY <1>2, <1>3 DEF Launch

LEMMA DesCollect == ASSUME IInv, TypeInv, DesInv, NEW c \in Clients, Collect(c) PROVE DesInv'
<1>1. /\ pipes' = [pipes EXCEPT ![c] = sent] /\ pc' = [pc EXCEPT ![c] = "reset"]
      /\ UNCHANGED <<sharer, sent, created, des>>
  BY DEF Collect, Move, record
<1>2. pipes'[c] = sent /\ \A d \in Clients \ {c} : pipes'[d] = pipes[d]
  BY <1>1 DEF TypeInv
<1>3. \A d \in Clients \ {c} : Holds(d)' => Holds(d)
  BY <1>1 DEF Holds, Live, Connected, IInv, Types
<1> QED
  BY <1>1, <1>2, <1>3 DEF DesInv

LEMMA DesShare == ASSUME IInv, TypeInv, DesInv, NEW c \in Clients, SharerStep(c) PROVE DesInv'
<1>1. ASSUME NEW from \in SharerPlaces \ {"none", "ended"}, NEW to \in SharerPlaces,
             ShareStep(c, from, to)
      PROVE  /\ Live(c) /\ UNCHANGED <<pc, pipes, created, des>>
             /\ \A d \in Clients : Holds(d)' => Holds(d)
  <2>1. Live(c)
    BY <1>1 DEF ShareStep, IInv, PlaceInv, Live, Connected
  <2> QED
    BY <1>1, <2>1 DEF ShareStep, Holds, Live, Connected, IInv, Types
<1>2. ASSUME NEW from \in SharerPlaces \ {"none", "ended"}, NEW to \in SharerPlaces,
             ShareStep(c, from, to), sent' = sent
      PROVE  DesInv'
  BY <1>1, <1>2, DesKept
<1>3. ASSUME NEW e \in Ends, NEW to \in SharerPlaces, Duplicate(c, e, to) PROVE DesInv'
  <2>1. e \in SharerPlaces \ {"none", "ended"}
    BY DEF Ends, SharerPlaces
  <2>2. CASE ShareStep(c, e, "ended") /\ sent' = sent
    BY <1>2, <2>1, <2>2 DEF SharerPlaces
  <2>3. CASE /\ ShareStep(c, e, to) /\ pipes[c][e] # None
             /\ sent' = [sent EXCEPT ![e] = [process |-> target[c], des |-> pipes[c][e].des]]
    <3>1. Live(c) /\ UNCHANGED <<pipes, created, des>> /\ \A d \in Clients : Holds(d)' => Holds(d)
      BY <1>1, <2>1, <2>3
    <3>2. created /\ pipes[c][e].des = des.launched
      BY <2>3, <3>1 DEF DesInv, Holds, IInv, NewInv, NobodyLives
    <3>3. /\ sent'[e] = [process |-> target[c], des |-> pipes[c][e].des]
          /\ \A f \in Ends \ {e} : sent'[f] = sent[f]
      BY <2>3 DEF TypeInv
    <3>4. sent'[e].des = des'.launched
      BY <3>1, <3>2, <3>3
    <3> QED
      BY <3>1, <3>2, <3>3, <3>4 DEF DesInv
  <2> QED
    BY <1>3, <2>2, <2>3 DEF Duplicate
<1>4. CASE WakeToShare(c) \/ WakeToFinish(c) \/ SignalSent(c)
  BY <1>2, <1>4 DEF WakeToShare, WakeToFinish, SignalSent, SharerPlaces
<1>5. CASE OpenPetitioner(c)
  BY <1>2, <1>5 DEF OpenPetitioner, SharerPlaces
<1>6. CASE DuplicateOut(c) \/ DuplicateIn(c)
  BY <1>3, <1>6 DEF DuplicateOut, DuplicateIn, Ends, SharerPlaces
<1> QED
  BY <1>4, <1>5, <1>6 DEF SharerStep

LEMMA DesCrash == ASSUME IInv, TypeInv, DesInv, NEW c \in Clients, Crash(c) PROVE DesInv'
<1>1. /\ pc' = [pc EXCEPT ![c] = "dead"] /\ sharer' = [sharer EXCEPT ![c] = "ended"]
      /\ pipes' = [pipes EXCEPT ![c] = NoPipes] /\ des' = des
      /\ sent' = NoPipes \/ (sent' = sent /\ created' = created)
  BY DEF Crash, record
<1>2. pipes'[c] = NoPipes /\ \A d \in Clients \ {c} : pipes'[d] = pipes[d]
  BY <1>1 DEF TypeInv
<1>3. \A d \in Clients \ {c} : Holds(d)' => Holds(d)
  BY <1>1 DEF Holds, Live, Connected, IInv, Types
<1> QED
  BY <1>1, <1>2, <1>3 DEF DesInv, NoPipes

LEMMA DesConnect ==
  ASSUME IInv, TypeInv, DesInv, NEW c \in Clients,
         \/ TakeConnect(c) \/ TimeoutConnect(c) \/ Banner(c) \/ Enter(c)
         \/ TakePetition(c) \/ TakeTurn(c) \/ TimeoutTurn(c) \/ SetRequest(c) \/ Await(c)
         \/ AwaitTimeout(c) \/ Retry(c) \/ Reset(c)
  PROVE  DesInv'
<1>1. CASE TakeConnect(c)
  BY <1>1, DesWalk DEF TakeConnect, Move, record, Connected
<1>2. CASE TimeoutConnect(c)
  BY <1>2, DesKept DEF TimeoutConnect, record, Holds, Live, Connected
<1>3. CASE Banner(c)
  <2>1. pc[c] = "banner" /\ ~created /\ Holds(c)
    BY <1>3 DEF Banner, Move, Holds, IInv, NewInv
  <2>2. sent' = NoPipes
    <3>1. \A e \in Ends : sent[e] = None
      BY <2>1 DEF DesInv
    <3> QED
      BY <1>3, <3>1 DEF Banner, record, NoPipes, TypeInv
  <2> QED
    BY <1>3, <2>1, <2>2, DesWalk DEF Banner, Move, record, Connected
<1>4. CASE Enter(c)
  BY <1>4, DesWalk DEF Enter, Move, record, Connected, Holds, IInv, Types
<1>5. CASE TakePetition(c)
  BY <1>5, DesWalk DEF TakePetition, NeedsPipes, ErrorPlace, record, Connected
<1>6. CASE TakeTurn(c)
  BY <1>6, DesWalk DEF TakeTurn, Choose, ErrorPlace, Connected
<1>7. CASE TimeoutTurn(c)
  BY <1>7, DesWalk DEF TimeoutTurn, Move, ErrorPlace, record, Connected
<1>8. CASE SetRequest(c) \/ Await(c) \/ AwaitTimeout(c)
  BY <1>8, DesWalk DEF SetRequest, Await, AwaitTimeout, Move, record, Connected
<1>9. CASE Retry(c)
  BY <1>9, DesWalk DEF Retry, Choose, ErrorPlace, Connected
<1>10. CASE Reset(c)
  BY <1>10, DesWalk DEF Reset, Move, ReturnPlace, Connected, Holds
<1> QED
  BY <1>1, <1>2, <1>3, <1>4, <1>5, <1>6, <1>7, <1>8, <1>9, <1>10

LEMMA DesClose ==
  ASSUME IInv, DesInv, NEW c \in Clients, CloseStep(c)
  PROVE  DesInv'
<1>1. CASE StartClose(c)
  <2>1. CASE UNCHANGED pc
    BY <1>1, <2>1, DesKept DEF StartClose, Holds, Live, Connected
  <2>2. CASE Move(c, "in", "join")
    BY <1>1, <2>2, DesWalk DEF StartClose, Move, Connected
  <2> QED
    BY <1>1, <2>1, <2>2 DEF StartClose
<1>2. CASE JoinSharer(c) \/ TimeoutLeave(c)
  BY <1>2, DesWalk DEF JoinSharer, TimeoutLeave, Move, record, Connected
<1>3. CASE Leave(c)
  <2>1. \E to \in {"in", "quit", "out"} : Move(c, "leave", to)
    BY <1>3 DEF Leave
  <2>2. Connected(c) /\ \A d \in Clients \ {c} : sharer'[d] = sharer[d]
    BY <1>3, <2>1 DEF Leave, Move, IInv, PlaceInv, Types
  <2> QED
    BY <1>3, <2>1, <2>2, DesWalk DEF Leave, Move, record
<1>4. CASE Quit(c)
  <2>1. Connected(c) /\ \A d \in Clients \ {c} : sharer'[d] = sharer[d]
    BY <1>4 DEF Quit, Move, IInv, PlaceInv, Types
  <2>2. des'.launched = des.launched
    BY <1>4 DEF Quit, IInv, Types
  <2> QED
    BY <1>4, <2>1, <2>2, DesWalk DEF Quit, Move
<1> QED
  BY <1>1, <1>2, <1>3, <1>4 DEF CloseStep

LEMMA DesInvariant == Spec => []DesInv
<1>1. Init => DesInv
  BY DEF Init, DesInv, Holds, Live, Connected, NoPipes
<1>2. IInv /\ TypeInv /\ DesInv /\ [Next]_vars => DesInv'
  <2>1. ASSUME DesInv, UNCHANGED vars PROVE DesInv'
    BY <2>1, DesKept DEF vars, record, Holds, Live, Connected
  <2>2. ASSUME IInv, TypeInv, DesInv, NEW c \in Clients, ConnectStep(c) PROVE DesInv'
    BY <2>2, DesConnect, DesLaunch, DesCollect DEF ConnectStep
  <2> QED
    BY <2>1, <2>2, DesShare, DesClose, DesCrash DEF Next
<1> QED
  BY <1>1, <1>2, Invariant, Typing, PTL DEF Spec

\* Connected clients use one DES process: connect() launches one only when nobody is
\* connected, and the record hands on handles of no other, although petitions time
\* out, clients die, and a DES process may be left without having been told to quit.
THEOREM DesIsShared == Spec => []SameDes
<1>1. IInv /\ DesInv => SameDes
  BY DEF IInv, PlaceInv, DesInv, Holds, Live, SameDes
<1> QED
  BY Invariant, DesInvariant, <1>1, PTL

-----------------------------------------------------------------------------
(* A petition that waited. *)

\* A newcomer's petition, from the choice of its petitionee until it is answered.
Asks(c) == Newcomer(c) /\ pc[c] \in {"request", "await", "retry"}

\* A petition made before handle_sent_event was signaled, until it is read.
Patient(c) == pc[c] \in {"await", "collect"} /\ patient[c]

Busy(c) == sharer[c] \in {"open", "out", "in", "signal"}
Made(e, c) == sent[e] # None /\ sent[e].process = c

\* Until handle_sent_event is signaled one sharing thread at most is at work, for
\* the newcomer if there is one.  A petitionee nobody asks any more is left behind
\* only with an empty table, which no petition gets past, or with nobody to share.
FirstInv ==
  /\ \A d \in Clients : Busy(d) => petitionee = d
  /\ \A c \in Clients : Asks(c) =>
       /\ petitioner.pid = c /\ Listed(table, petitionee)
       /\ \A d \in Clients :
            /\ sharer[d] \in {"out", "in", "signal"} => target[d] = c
            /\ sharer[d] \in {"in", "signal"} => Made("out", c)
            /\ sharer[d] = "signal" => Made("in", c)
  /\ petitionee # None =>
       \/ \E c \in Clients : Asks(c)
       \/ /\ created /\ (table = <<>> \/ NobodyLives)
          /\ \A c \in Clients : pc[c] # "enter"

\* Once it is signaled nobody touches the record before who waited has read it.
PatientInv ==
  \A c \in Clients : Patient(c) =>
    /\ ~Connected(c)
    /\ "sent" \in events =>
         /\ "request" \notin events
         /\ \A d \in Clients : ~Busy(d) /\ (Connected(d) => pc[d] \notin Petitioning)
         /\ \A e \in Ends : Made(e, c)

NobodyDied == \A d \in Clients : pc[d] # "dead"
WholeInv == NobodyDied => ("sent" \notin events => FirstInv) /\ PatientInv

\* Whoever has asked is a newcomer, so there is one; a connected petitioner comes
\* after the first signal and finds nobody waiting.
LEMMA AskFacts ==
  ASSUME IInv, WholeInv, NobodyDied
  PROVE  /\ \A d \in Clients :
              /\ Asks(d) \/ Patient(d) \/ pc[d] = "enter" => Newcomer(d)
              /\ Connected(d) <=> Live(d)
              /\ Busy(d) => Live(d)
              /\ Connected(d) /\ pc[d] \in Petitioning =>
                   "sent" \in events /\ \A x \in Clients : ~Patient(x)
         /\ \A c, d \in Clients : Newcomer(c) /\ d # c => ~Newcomer(d)
         /\ \A d \in Clients : Newcomer(d) => shared.owner = d
<1>1. \A d \in Clients : (Connected(d) <=> Live(d)) /\ (Busy(d) => Live(d))
  BY DEF Live, NobodyDied, Busy, Connected
<1>2. \A d \in Clients : Asks(d) \/ Patient(d) \/ pc[d] = "enter" => Newcomer(d)
  BY DEF WholeInv, PatientInv, Asks, Patient, Newcomer, Asking, IInv, PlaceInv
<1>3. \A d \in Clients : Connected(d) /\ pc[d] \in Petitioning => "sent" \in events
  BY <1>1 DEF IInv, SentInv
<1>4. \A d \in Clients : Connected(d) /\ pc[d] \in Petitioning => \A x \in Clients : ~Patient(x)
  BY <1>3 DEF WholeInv, PatientInv
<1> QED
  BY <1>1, <1>2, <1>3, <1>4, OneNewcomer DEF IInv, HoldInv

LEMMA WholeClear ==
  ASSUME "sent" \in events', \A d \in Clients : ~Patient(d)' PROVE WholeInv'
  BY DEF WholeInv, PatientInv

\* The steps of one client that leave the record, the events of a petition, the
\* table and the sharing threads alone.
LEMMA WholeWalk ==
  ASSUME IInv, WholeInv, NEW c \in Clients, NEW to,
         pc' = [pc EXCEPT ![c] = to], pc[c] # "dead",
         UNCHANGED <<sharer, target, patient, table, petitionee, sent>>,
         petitioner'.pid = petitioner.pid,
         created => created',
         \A e \in {"request", "sent"} : e \in events' <=> e \in events,
         Asks(c)' <=> Asks(c), Patient(c)' => Patient(c),
         to = "enter" => "sent" \in events \/ petitionee = None,
         Connected(c) /\ to \in Petitioning =>
           pc[c] \in Petitioning \/ \A d \in Clients : ~Patient(d)
  PROVE  WholeInv'
<1> SUFFICES ASSUME NobodyDied' PROVE WholeInv'
  BY DEF WholeInv
<1>1. \A d \in Clients : pc'[d] = IF d = c THEN to ELSE pc[d]
  BY DEF IInv, Types
<1>2. NobodyDied /\ (NobodyLives' <=> NobodyLives)
  BY <1>1 DEF NobodyDied, NobodyLives, Live, Connected
<1>3. \A d \in Clients :
        /\ (Asks(d)' <=> Asks(d)) /\ (Patient(d)' => Patient(d))
        /\ (Busy(d)' <=> Busy(d)) /\ (Connected(d)' <=> Connected(d))
        /\ \A e \in Ends : Made(e, d)' <=> Made(e, d)
  BY <1>1 DEF Asks, Patient, Busy, Connected, Made, Newcomer
<1>4. ASSUME "sent" \notin events' PROVE FirstInv'
  <2>1. FirstInv
    BY <1>2, <1>4 DEF WholeInv
  <2>2. \A d \in Clients : Busy(d)' => petitionee' = d
    BY <1>3, <2>1 DEF FirstInv
  <2>3. \A x \in Clients : Asks(x)' =>
          /\ petitioner'.pid = x /\ Listed(table', petitionee')
          /\ \A d \in Clients :
               /\ sharer'[d] \in {"out", "in", "signal"} => target'[d] = x
               /\ sharer'[d] \in {"in", "signal"} => Made("out", x)'
               /\ sharer'[d] = "signal" => Made("in", x)'
    BY <1>3, <2>1 DEF FirstInv, Listed, Made
  <2>4. petitionee' # None =>
          \/ \E x \in Clients : Asks(x)'
          \/ /\ created' /\ (table' = <<>> \/ NobodyLives')
             /\ \A x \in Clients : pc'[x] # "enter"
    BY <1>1, <1>2, <1>3, <1>4, <2>1 DEF FirstInv
  <2> QED
    BY <2>2, <2>3, <2>4 DEF FirstInv, Listed
<1>5. PatientInv'
  BY <1>1, <1>2, <1>3 DEF WholeInv, PatientInv
<1> QED
  BY <1>4, <1>5 DEF WholeInv

\* Up to the petition, and a client that launches DES.
LEMMA ArrivalWhole ==
  ASSUME IInv, IInv', TypeInv, WholeInv, NEW c \in Clients,
         TakeConnect(c) \/ TimeoutConnect(c) \/ Launch(c) \/ Banner(c) \/ Enter(c)
  PROVE  WholeInv'
<1> SUFFICES ASSUME NobodyDied' PROVE WholeInv'
  BY DEF WholeInv
<1>1. CASE TakeConnect(c)
  <2>1. PICK to \in {"out", "petition", "launch"} :
          /\ pc[c] = "out" /\ pc' = [pc EXCEPT ![c] = to] /\ ~Connected(c)
          /\ UNCHANGED <<sharer, target, patient, table, petitioner, petitionee, sent, events,
                         created>>
    BY <1>1 DEF TakeConnect, Move, record, IInv, PlaceInv
  <2>2. pc'[c] = to
    BY <2>1 DEF IInv, Types
  <2>3. ~Asks(c) /\ ~Asks(c)' /\ ~Patient(c)'
    BY <2>1, <2>2 DEF Asks, Patient
  <2> QED
    BY <2>1, <2>3, WholeWalk
<1>2. CASE TimeoutConnect(c)
  <2>1. pc' = [pc EXCEPT ![c] = "out"] /\ pc[c] = "out" /\ ~Connected(c)
    BY <1>2 DEF TimeoutConnect, IInv, Types, PlaceInv
  <2>2. UNCHANGED <<pc, sharer, target, patient, table, petitioner, petitionee, sent, events,
                    created>>
    BY <1>2 DEF TimeoutConnect, record
  <2>3. (Asks(c)' <=> Asks(c)) /\ (Patient(c)' => Patient(c))
    BY <2>2 DEF Asks, Patient, Newcomer, Connected
  <2> QED
    BY <2>1, <2>2, <2>3, WholeWalk
<1>3. CASE Launch(c)
  <2>1. PICK to \in {"out", "banner"} :
          /\ pc[c] = "launch" /\ pc' = [pc EXCEPT ![c] = to] /\ ~Connected(c)
          /\ UNCHANGED <<sharer, target, patient, table, petitioner, petitionee, sent, events,
                         created>>
    BY <1>3 DEF Launch, Move, record, IInv, PlaceInv
  <2>2. pc'[c] = to
    BY <2>1 DEF IInv, Types
  <2>3. ~Asks(c) /\ ~Asks(c)' /\ ~Patient(c)'
    BY <2>1, <2>2 DEF Asks, Patient
  <2> QED
    BY <2>1, <2>3, WholeWalk
<1>4. CASE Banner(c)
  <2>1. PICK to \in {"out", "enter"} :
          /\ pc[c] = "banner" /\ pc' = [pc EXCEPT ![c] = to] /\ ~Connected(c)
          /\ created => created'
          /\ UNCHANGED <<sharer, target, patient, table, petitioner, petitionee, sent, events>>
    BY <1>4 DEF Banner, Move, record, IInv, PlaceInv
  <2>2. pc'[c] = to
    BY <2>1 DEF IInv, Types
  <2>3. ~Asks(c) /\ ~Asks(c)' /\ ~Patient(c)'
    BY <2>1, <2>2 DEF Asks, Patient
  <2>4. "sent" \in events \/ petitionee = None
    <3>1. NobodyDied /\ ~created /\ Newcomer(c)
      BY <2>1 DEF NobodyDied, IInv, Types, NewInv, Newcomer
    <3>2. \A d \in Clients : ~Asks(d)
      BY <2>3, <3>1, AskFacts
    <3> QED
      BY <3>1, <3>2 DEF WholeInv, FirstInv
  <2> QED
    BY <2>1, <2>3, <2>4, WholeWalk
<1>5. CASE Enter(c)
  <2>1. /\ pc[c] = "enter" /\ pc' = [pc EXCEPT ![c] = "in"]
        /\ sharer' = [sharer EXCEPT ![c] = "wait"]
        /\ UNCHANGED <<patient, petitionee, events>>
    BY <1>5 DEF Enter, Move, record
  <2>2. \A d \in Clients : /\ pc'[d] = IF d = c THEN "in" ELSE pc[d]
                           /\ sharer'[d] = IF d = c THEN "wait" ELSE sharer[d]
    BY <2>1 DEF IInv, Types
  <2>3. NobodyDied /\ Newcomer(c)
    BY <2>1, <2>2 DEF NobodyDied, IInv, PlaceInv, Newcomer
  <2>4. \A d \in Clients : ~Asks(d) /\ ~Asks(d)' /\ ~Patient(d)'
    BY <2>1, <2>2, <2>3, AskFacts DEF Asks, Patient, Newcomer, Connected
  <2>5. ASSUME "sent" \notin events' PROVE FirstInv'
    <3>1. NobodyLives /\ petitionee = None
      BY <2>1, <2>3, <2>4, <2>5 DEF IInv, NewInv, WholeInv, FirstInv
    <3>2. \A d \in Clients : ~Busy(d)'
      BY <2>2, <2>3, <3>1, AskFacts DEF NobodyLives, Busy
    <3> QED
      BY <2>1, <2>4, <3>1, <3>2 DEF FirstInv
  <2> QED
    BY <2>4, <2>5 DEF WholeInv, PatientInv
<1> QED
  BY <1>1, <1>2, <1>3, <1>4, <1>5

\* A petition of a client that is connected already.
LEMMA LaterWhole ==
  ASSUME IInv, TypeInv, WholeInv, NEW c \in Clients, Connected(c),
         \/ TakeTurn(c) \/ TimeoutTurn(c) \/ SetRequest(c) \/ Await(c) \/ AwaitTimeout(c)
         \/ Retry(c) \/ Collect(c) \/ Reset(c)
  PROVE  WholeInv'
<1> SUFFICES ASSUME NobodyDied' PROVE WholeInv'
  BY DEF WholeInv
<1> DEFINE Others(to) == /\ pc[c] \in Petitioning /\ pc' = [pc EXCEPT ![c] = to]
                         /\ patient' = patient /\ events' = events
                         /\ to \notin {"await", "collect"} \/ (to = "collect" /\ pc[c] = "await")
<1>1. (\E to : Others(to)) \/ SetRequest(c)
  <2>1. CASE TakeTurn(c)
    BY <2>1 DEF TakeTurn, Choose, ErrorPlace, Petitioning
  <2>2. CASE TimeoutTurn(c)
    <3>1. Others(ErrorPlace(c))
      BY <2>2 DEF TimeoutTurn, Move, ErrorPlace, Petitioning, record
    <3> QED
      BY <3>1
  <2>3. CASE Await(c) \/ AwaitTimeout(c)
    BY <2>3 DEF Await, AwaitTimeout, Move, Petitioning, record
  <2>4. CASE Retry(c)
    BY <2>4 DEF Retry, Choose, ErrorPlace, Petitioning
  <2>5. CASE Collect(c)
    <3>1. Others("reset")
      BY <2>5 DEF Collect, Move, Petitioning, record
    <3> QED
      BY <3>1
  <2>6. CASE Reset(c)
    <3>1. Others(ReturnPlace(c))
      BY <2>6 DEF Reset, Move, ReturnPlace, Petitioning
    <3> QED
      BY <3>1
  <2> QED
    BY <2>1, <2>2, <2>3, <2>4, <2>5, <2>6
<1>2. CASE SetRequest(c)
  <2>1. /\ pc[c] = "request" /\ pc' = [pc EXCEPT ![c] = "await"]
        /\ patient' = [patient EXCEPT ![c] = "sent" \notin events]
        /\ events' = events \cup {"request"}
    BY <1>2 DEF SetRequest, Move
  <2>2. NobodyDied
    BY <2>1 DEF NobodyDied, IInv, Types
  <2>3. "sent" \in events /\ \A d \in Clients : ~Patient(d)
    BY <2>1, <2>2, AskFacts DEF Petitioning
  <2>4. \A d \in Clients : patient'[d] = IF d = c THEN FALSE ELSE patient[d]
    BY <2>1, <2>3 DEF TypeInv
  <2>5. \A d \in Clients : ~Patient(d)'
    BY <2>1, <2>3, <2>4 DEF Patient, IInv, Types
  <2> QED
    BY <2>1, <2>3, <2>5, WholeClear
<1>3. ASSUME NEW to, Others(to) PROVE WholeInv'
  <2>1. NobodyDied
    BY <1>3 DEF NobodyDied, IInv, Types, Petitioning
  <2>2. "sent" \in events /\ \A d \in Clients : ~Patient(d)
    BY <1>3, <2>1, AskFacts
  <2>3. \A d \in Clients : ~Patient(d)'
    BY <1>3, <2>2 DEF Patient, IInv, Types
  <2> QED
    BY <1>3, <2>2, <2>3, WholeClear
<1> HIDE DEF Others
<1> QED
  BY <1>1, <1>2, <1>3

\* A newcomer's way to its answer.
LEMMA PetitionWhole ==
  ASSUME IInv, IInv', TypeInv, WholeInv, NEW c \in Clients,
         TakePetition(c) \/ TimeoutTurn(c) \/ Await(c) \/ AwaitTimeout(c) \/ Collect(c) \/ Reset(c)
  PROVE  WholeInv'
<1> SUFFICES ASSUME NobodyDied' PROVE WholeInv'
  BY DEF WholeInv
<1>1. CASE TakePetition(c)
  <2>1. PICK to \in {"turn", "in", "out"} :
          /\ pc[c] \in {"petition", "in"} /\ pc' = [pc EXCEPT ![c] = to]
          /\ shared.owner \in {None, c}
          /\ UNCHANGED <<sharer, target, patient, table, petitioner, petitionee, sent, events,
                         created>>
    BY <1>1 DEF TakePetition, NeedsPipes, ErrorPlace, record, Available
  <2>2. pc'[c] = to /\ NobodyDied
    BY <2>1 DEF NobodyDied, IInv, Types
  <2>3. ~Asks(c) /\ ~Asks(c)' /\ ~Patient(c)' /\ ~Patient(c)
    BY <2>1, <2>2 DEF Asks, Patient
  <2>4. \A d \in Clients : ~Patient(d)
    BY <2>1, <2>2, <2>3, AskFacts, SharingAssumption
  <2> QED
    BY <2>1, <2>3, <2>4, WholeWalk
<1>2. CASE TimeoutTurn(c)
  <2>1. PICK to \in {"in", "out"} :
          /\ pc[c] = "turn" /\ pc' = [pc EXCEPT ![c] = to]
          /\ UNCHANGED <<sharer, target, patient, table, petitioner, petitionee, sent, events,
                         created>>
    BY <1>2 DEF TimeoutTurn, Move, ErrorPlace, record
  <2>2. pc'[c] = to
    BY <2>1 DEF IInv, Types
  <2>3. ~Asks(c) /\ ~Asks(c)' /\ ~Patient(c)'
    BY <2>1, <2>2 DEF Asks, Patient
  <2> QED
    BY <2>1, <2>3, WholeWalk DEF Petitioning
<1>3. ASSUME Await(c) \/ AwaitTimeout(c), ~Connected(c) PROVE WholeInv'
  <2>1. PICK to \in {"collect", "retry"} :
          /\ pc[c] = "await" /\ pc' = [pc EXCEPT ![c] = to]
          /\ to = "collect" <=> "sent" \in events
          /\ UNCHANGED <<sharer, target, patient, table, petitioner, petitionee, sent, events,
                         created>>
    BY <1>3 DEF Await, AwaitTimeout, Move, record
  <2>2. pc'[c] = to
    BY <2>1 DEF IInv, Types
  <2>3. Patient(c)' => Patient(c)
    BY <2>1, <2>2 DEF Patient
  <2>4. CASE to = "retry"
    <3>1. Asks(c) /\ Asks(c)'
      BY <1>3, <2>1, <2>2, <2>4 DEF Asks, Newcomer, Connected, Asking
    <3> QED
      BY <1>3, <2>1, <2>3, <3>1, <2>4, WholeWalk
  <2>5. CASE to = "collect"
    <3>1. "sent" \in events /\ "sent" \in events'
      BY <2>1, <2>5
    <3>2. /\ \A d \in Clients : (Patient(d)' => Patient(d)) /\ (Busy(d)' <=> Busy(d))
          /\ \A d \in Clients : Connected(d)' => Connected(d) /\ pc'[d] = pc[d]
          /\ \A e \in Ends, d \in Clients : Made(e, d)' <=> Made(e, d)
          /\ NobodyDied
      BY <1>3, <2>1, <2>3 DEF Patient, Busy, Connected, Made, NobodyDied, IInv, Types
    <3>3. PatientInv
      BY <3>2 DEF WholeInv
    <3>4. PatientInv'
      BY <1>3, <2>1, <3>2, <3>3 DEF PatientInv
    <3> QED
      BY <3>1, <3>4 DEF WholeInv
  <2> QED
    BY <2>4, <2>5
<1>4. ASSUME Collect(c) \/ Reset(c), ~Connected(c) PROVE WholeInv'
  <2>1. PICK to \in {"reset", "enter"} :
          /\ pc[c] \in {"collect", "reset"} /\ pc' = [pc EXCEPT ![c] = to]
          /\ UNCHANGED <<sharer, patient, events>>
    BY <1>4 DEF Collect, Reset, Move, ReturnPlace, record
  <2>2. "sent" \in events' /\ NobodyDied /\ Newcomer(c)
    BY <1>4, <2>1 DEF IInv, SentInv, NobodyDied, Types, Newcomer, Asking
  <2>3. \A d \in Clients : ~Patient(d)'
    BY <2>1, <2>2, AskFacts DEF Patient, IInv, Types
  <2> QED
    BY <2>2, <2>3, WholeClear
<1> QED
  BY <1>1, <1>2, <1>3, <1>4, LaterWhole

\* The petitionee a newcomer chooses is on the table; no sharing thread is at work
\* for anybody else by then.
LEMMA ChoiceWhole ==
  ASSUME IInv, IInv', TypeInv, WholeInv, NEW c \in Clients, Newcomer(c), NobodyDied,
         NEW T \in Seq(Clients), NEW t, Choose(c, T, shared, t), pc[c] \in {"turn", "retry"},
         UNCHANGED <<sharer, target, patient, sent, events, created>>,
         petitioner'.pid = c,
         "sent" \notin events /\ T # <<>> => NobodyLives \/ \A d \in Clients : ~Busy(d)
  PROVE  WholeInv'
<1> DEFINE to == IF T = <<>> THEN "out" ELSE "request"
<1>1. /\ ~Connected(c) /\ shared.owner = c /\ table' = T
      /\ \A d \in Clients \ {c} : ~Newcomer(d)
  BY AskFacts DEF Newcomer, Choose
<1>2. /\ pc' = [pc EXCEPT ![c] = to]
      /\ T = <<>> => petitionee' = petitionee
      /\ T # <<>> => petitionee' \in Askable(T)
  BY <1>1 DEF Choose, ErrorPlace
<1>3. pc'[c] = to /\ to \in {"out", "request"} /\ \A d \in Clients \ {c} : pc'[d] = pc[d]
  BY <1>2 DEF IInv, Types
<1> HIDE DEF to
<1>4. \A d \in Clients :
        /\ Busy(d)' <=> Busy(d)
        /\ d # c => ~Newcomer(d)' /\ ~Asks(d)' /\ ~Patient(d)'
        /\ ~Patient(c)'
  BY <1>1, <1>2, <1>3, AskFacts DEF Busy, Newcomer, Asks, Patient, Connected
<1>5. PatientInv'
  BY <1>4 DEF PatientInv
<1>6. ASSUME "sent" \notin events' PROVE FirstInv'
  <2>1. FirstInv
    BY <1>2, <1>6 DEF WholeInv
  <2>2. CASE T = <<>>
    <3>1. to = "out" /\ petitionee' = petitionee /\ table' = <<>>
      BY <1>1, <1>2, <2>2 DEF to
    <3>2. \A d \in Clients : ~Asks(d)'
      BY <1>3, <1>4, <3>1 DEF Asks
    <3>3. created' /\ \A d \in Clients : pc'[d] # "enter"
      <4>1. created
        BY DEF IInv, NewInv, Newcomer
      <4>2. \A d \in Clients \ {c} : pc[d] # "enter"
        BY <1>1, AskFacts
      <4> QED
        BY <1>3, <3>1, <4>1, <4>2
    <3> QED
      BY <1>4, <2>1, <3>1, <3>2, <3>3 DEF FirstInv
  <2>3. CASE T # <<>>
    <3>1. \A d \in Clients : ~Busy(d)'
      BY <1>4, <1>6, <2>3, AskFacts DEF NobodyLives
    <3>2. Listed(table', petitionee')
      <4>1. petitionee' \in Askable(T) /\ Len(T) \in Nat /\ Len(T) # 0
        BY <1>2, <2>3, EmptySeq
      <4> QED
        BY <1>1, <4>1 DEF Askable, Listed
    <3>3. Asks(c)'
      BY <1>1, <1>2, <1>3, <2>3 DEF Asks, Newcomer, Connected, Asking, to
    <3>4. \A x \in Clients : Asks(x)' => x = c
      BY <1>4
    <3>5. \A d \in Clients : sharer'[d] \notin {"out", "in", "signal"}
      BY <3>1 DEF Busy
    <3> QED
      BY <3>1, <3>2, <3>3, <3>4, <3>5 DEF FirstInv
  <2> QED
    BY <2>2, <2>3
<1> QED
  BY <1>5, <1>6 DEF WholeInv

LEMMA TurnWhole ==
  ASSUME IInv, IInv', TypeInv, WholeInv, NEW c \in Clients, TakeTurn(c) PROVE WholeInv'
<1> SUFFICES ASSUME NobodyDied', ~Connected(c) PROVE WholeInv'
  BY LaterWhole DEF WholeInv
<1>1. pc[c] = "turn" /\ UNCHANGED <<sharer, target, patient, sent, events, created>>
  BY DEF TakeTurn
<1>2. Newcomer(c)
  BY <1>1 DEF Newcomer
<1>3. CASE pc' = [pc EXCEPT ![c] = ErrorPlace(c)] /\ UNCHANGED <<table, petitioner, petitionee>>
  <2>1. ErrorPlace(c) = "out"
    BY DEF ErrorPlace
  <2>2. pc'[c] = "out"
    BY <1>3, <2>1 DEF IInv, Types
  <2>3. ~Asks(c) /\ ~Asks(c)' /\ ~Patient(c)'
    BY <1>1, <2>2 DEF Asks, Patient
  <2> QED
    BY <1>1, <1>3, <2>1, <2>3, WholeWalk
<1>4. CASE petitioner' = [id |-> c, pid |-> c] /\ Choose(c, table, shared, Taken(turn, c))
  <2>1. NobodyDied
    <3>1. \A d \in Clients \ {c} : pc'[d] = pc[d]
      BY <1>4 DEF Choose, IInv, Types
    <3> QED
      BY <1>1, <3>1 DEF NobodyDied
  <2>2. ASSUME "sent" \notin events, table # <<>> PROVE NobodyLives \/ \A d \in Clients : ~Busy(d)
    <3>1. FirstInv /\ \A d \in Clients : ~Asks(d)
      BY <1>1, <1>2, <2>1, <2>2, AskFacts DEF WholeInv, Asks
    <3>2. CASE petitionee = None
      BY <3>1, <3>2, SharingAssumption DEF FirstInv
    <3>3. CASE petitionee # None
      BY <2>2, <3>1, <3>3 DEF FirstInv
    <3> QED
      BY <3>2, <3>3
  <2>3. petitioner'.pid = c /\ table \in Seq(Clients)
    BY <1>4 DEF TypeInv
  <2> QED
    BY <1>1, <1>2, <1>4, <2>1, <2>2, <2>3, ChoiceWhole
<1> QED
  BY <1>3, <1>4 DEF TakeTurn

\* Before the first signal the petitionee a newcomer takes off the table was alone.
LEMMA RetryWhole ==
  ASSUME IInv, IInv', TypeInv, WholeInv, NEW c \in Clients, Retry(c) PROVE WholeInv'
<1> SUFFICES ASSUME NobodyDied', ~Connected(c) PROVE WholeInv'
  BY LaterWhole DEF WholeInv
<1> DEFINE T == Without(table, petitionee)
<1>1. /\ pc[c] = "retry" /\ Choose(c, T, shared, turn)
      /\ UNCHANGED <<sharer, target, patient, petitioner, sent, events, created>>
  BY DEF Retry
<1>2. Newcomer(c)
  BY <1>1 DEF Newcomer, Asking
<1>3. NobodyDied
  <2>1. \A d \in Clients \ {c} : pc'[d] = pc[d]
    BY <1>1 DEF Choose, IInv, Types
  <2> QED
    BY <1>1, <2>1 DEF NobodyDied
<1>4. /\ T \in Seq(Clients) /\ Len(T) \in Nat /\ Len(table) \in Nat
      /\ Listed(table, petitionee) => Len(T) = Len(table) - 1
  <2>1. table \in Seq(Clients)
    BY DEF TypeInv
  <2> QED
    BY <2>1, WithoutLeaves, LenProperties
<1> HIDE DEF T
<1>5. CASE "sent" \notin events
  <2>1. petitioner.pid = c /\ Listed(table, petitionee)
    BY <1>1, <1>2, <1>3, <1>5 DEF WholeInv, FirstInv, Asks
  <2>2. T # <<>> => NobodyLives
    <3>1. Len(table) <= 1 \/ NobodyLives
      BY <1>1, <1>2 DEF IInv, NewInv
    <3>2. Len(table) <= 1 => Len(T) = 0
      BY <1>4, <2>1, EmptySeq
    <3> QED
      BY <1>4, <3>1, <3>2, EmptySeq
  <2> QED
    BY <1>1, <1>2, <1>3, <1>4, <2>1, <2>2, ChoiceWhole
<1>6. CASE "sent" \in events
  <2>1. PICK to \in {"out", "request"} : pc' = [pc EXCEPT ![c] = to]
    BY <1>1 DEF Choose, ErrorPlace
  <2>2. \A d \in Clients : ~Patient(d)'
    BY <1>1, <1>2, <1>3, <2>1, AskFacts DEF Patient, IInv, Types
  <2> QED
    BY <1>1, <1>6, <2>2, WholeClear
<1> QED
  BY <1>5, <1>6

LEMMA RequestWhole ==
  ASSUME IInv, IInv', TypeInv, WholeInv, NEW c \in Clients, SetRequest(c) PROVE WholeInv'
<1> SUFFICES ASSUME NobodyDied', ~Connected(c) PROVE WholeInv'
  BY LaterWhole DEF WholeInv
<1>1. /\ pc[c] = "request" /\ pc' = [pc EXCEPT ![c] = "await"]
      /\ events' = events \cup {"request"}
      /\ patient' = [patient EXCEPT ![c] = "sent" \notin events]
      /\ UNCHANGED <<sharer, target, table, petitioner, petitionee, sent, created>>
  BY DEF SetRequest, Move, record
<1>2. /\ \A d \in Clients : pc'[d] = IF d = c THEN "await" ELSE pc[d]
      /\ patient'[c] <=> "sent" \notin events
  BY <1>1 DEF TypeInv
<1>3. NobodyDied /\ Newcomer(c) /\ Asks(c)
  BY <1>1, <1>2 DEF NobodyDied, Newcomer, Asking, Asks
<1>4. \A d \in Clients :
        /\ (Newcomer(d)' <=> Newcomer(d)) /\ (Asks(d)' <=> Asks(d)) /\ (Busy(d)' <=> Busy(d))
        /\ Patient(d)' => d = c
        /\ (Connected(d)' <=> Connected(d)) /\ (Live(d)' <=> Live(d))
        /\ \A e \in Ends : Made(e, d)' <=> Made(e, d)
  <2>1. \A d \in Clients \ {c} : ~Newcomer(d)
    BY <1>3, AskFacts
  <2>2. \A d \in Clients \ {c} : ~Patient(d)'
    BY <1>1, <1>2, <1>3, <2>1, AskFacts DEF Patient, TypeInv
  <2> QED
    BY <1>1, <1>2, <2>2 DEF Newcomer, Asks, Asking, Busy, Connected, Live, Made
<1>5. PatientInv'
  <2>1. Patient(c)' => "sent" \notin events'
    BY <1>1, <1>2 DEF Patient
  <2> QED
    BY <1>4, <2>1 DEF PatientInv
<1>6. ASSUME "sent" \notin events' PROVE FirstInv'
  <2>1. FirstInv
    BY <1>1, <1>3, <1>6 DEF WholeInv
  <2> QED
    BY <1>1, <1>3, <1>4, <2>1 DEF FirstInv, Listed, Made
<1> QED
  BY <1>5, <1>6 DEF WholeInv

\* The sharing thread: what it has written when it signals was written for who waits.
LEMMA SharerWhole ==
  ASSUME IInv, TypeInv, WholeInv, NEW c \in Clients, SharerStep(c) PROVE WholeInv'
<1> SUFFICES ASSUME NobodyDied' PROVE WholeInv'
  BY DEF WholeInv
<1>1. /\ sharer[c] \in SharerPlaces \ {"none", "ended"}
      /\ UNCHANGED <<pc, patient, table, petitioner, petitionee, created>>
  BY DEF SharerStep, WakeToShare, WakeToFinish, OpenPetitioner, DuplicateOut, DuplicateIn,
         Duplicate, SignalSent, ShareStep, SharerPlaces
<1>2. NobodyDied /\ Live(c)
  BY <1>1 DEF NobodyDied, Live, Connected
<1>3. ASSUME NEW to \in SharerPlaces \ {"none"}, sharer' = [sharer EXCEPT ![c] = to]
      PROVE  \A d \in Clients :
               /\ sharer'[d] = IF d = c THEN to ELSE sharer[d]
               /\ (Connected(d)' <=> Connected(d)) /\ (Live(d)' <=> Live(d))
               /\ (Newcomer(d)' <=> Newcomer(d))
               /\ (Asks(d)' <=> Asks(d)) /\ (Patient(d)' <=> Patient(d))
  BY <1>1, <1>3 DEF Connected, Live, Newcomer, Asks, Patient, IInv, Types
\* A thread that is at work, or goes to work, while a petition that waited is answered.
<1>4. ASSUME "sent" \in events, "sent" \in events',
             "request" \in events \/ Busy(c),
             NEW to \in SharerPlaces \ {"none"}, sharer' = [sharer EXCEPT ![c] = to]
      PROVE  WholeInv'
  <2>1. \A d \in Clients : ~Patient(d)'
    BY <1>2, <1>3, <1>4 DEF WholeInv, PatientInv
  <2> QED
    BY <1>4, <2>1, WholeClear
\* Before that it is the only one.
<1>5. ASSUME "sent" \notin events', "sent" \notin events, petitionee = c,
             NEW to \in SharerPlaces \ {"none"}, sharer' = [sharer EXCEPT ![c] = to],
             \A x \in Clients : Asks(x) =>
                /\ to \in {"out", "in", "signal"} => target'[c] = x
                /\ to \in {"in", "signal"} => Made("out", x)'
                /\ to = "signal" => Made("in", x)'
      PROVE  WholeInv'
  <2>1. FirstInv /\ PatientInv
    BY <1>2, <1>5 DEF WholeInv
  <2>2. \A d \in Clients \ {c} : ~Busy(d)'
    BY <1>3, <1>5, <2>1 DEF FirstInv, Busy
  <2>3. ASSUME NEW x \in Clients, Asks(x)'
        PROVE  /\ petitioner'.pid = x /\ Listed(table', petitionee')
               /\ \A d \in Clients :
                    /\ sharer'[d] \in {"out", "in", "signal"} => target'[d] = x
                    /\ sharer'[d] \in {"in", "signal"} => Made("out", x)'
                    /\ sharer'[d] = "signal" => Made("in", x)'
    <3>1. Asks(x) /\ sharer'[c] = to
      BY <1>3, <1>5, <2>3
    <3>2. petitioner'.pid = x /\ Listed(table', petitionee')
      BY <1>1, <2>1, <3>1 DEF FirstInv, Listed
    <3>3. \A d \in Clients \ {c} : sharer'[d] \notin {"out", "in", "signal"}
      BY <2>2 DEF Busy
    <3> QED
      BY <1>5, <3>1, <3>2, <3>3
  <2>4. petitionee' # None =>
          \/ \E x \in Clients : Asks(x)'
          \/ /\ created' /\ (table' = <<>> \/ NobodyLives')
             /\ \A x \in Clients : pc'[x] # "enter"
    BY <1>1, <1>3, <1>5, <2>1 DEF FirstInv, NobodyLives
  <2>5. \A d \in Clients : Busy(d)' => petitionee' = d
    BY <1>1, <1>5, <2>2
  <2>6. FirstInv'
    BY <2>3, <2>4, <2>5 DEF FirstInv
  <2>7. PatientInv'
    BY <1>3, <1>5, <2>1 DEF PatientInv
  <2> QED
    BY <2>6, <2>7 DEF WholeInv
<1>6. Busy(c) /\ "sent" \notin events => petitionee = c
  BY <1>2 DEF WholeInv, FirstInv
<1>7. CASE WakeToShare(c)
  <2>1. /\ sharer' = [sharer EXCEPT ![c] = "open"]
        /\ "open" \in SharerPlaces \ {"none"}
        /\ "request" \in events /\ petitionee = c /\ events' = events
    BY <1>7 DEF WakeToShare, ShareStep, SharerPlaces
  <2> QED
    BY <1>4, <1>5, <2>1
<1>8. CASE WakeToFinish(c)
  <2>1. /\ sharer' = [sharer EXCEPT ![c] = "ended"]
        /\ "ended" \in SharerPlaces \ {"none"}
        /\ UNCHANGED <<target, sent, events>>
    BY <1>8 DEF WakeToFinish, ShareStep, SharerPlaces
  <2>2. \A d \in Clients : (Busy(d)' => Busy(d)) /\ (Connected(d)' <=> Connected(d))
    <3>1. \A d \in Clients : sharer'[d] = IF d = c THEN "ended" ELSE sharer[d]
      BY <2>1 DEF TypeInv
    <3> QED
      BY <1>1, <3>1 DEF Busy, Connected
  <2>3. PatientInv'
    BY <1>1, <1>2, <1>3, <2>1, <2>2 DEF WholeInv, PatientInv, Made
  <2>4. ASSUME "sent" \notin events' PROVE FirstInv'
    <3>1. FirstInv
      BY <1>2, <2>1, <2>4 DEF WholeInv
    <3>2. \A d \in Clients : sharer'[d] \in {"out", "in", "signal"} => sharer'[d] = sharer[d]
      BY <1>3, <2>1
    <3>3. \A d \in Clients : Asks(d)' <=> Asks(d)
      BY <1>3, <2>1
    <3>4. NobodyLives' <=> NobodyLives
      BY <1>3, <2>1 DEF NobodyLives
    <3> QED
      BY <1>1, <2>1, <2>2, <3>1, <3>2, <3>3, <3>4 DEF FirstInv, Listed, Made
  <2> QED
    BY <2>3, <2>4 DEF WholeInv
<1>9. CASE OpenPetitioner(c)
  <2> DEFINE p == petitioner.pid
             found == p # None /\ pc[p] # "dead"
             to == IF found THEN "out" ELSE "ended"
  <2>1. /\ sharer' = [sharer EXCEPT ![c] = to] /\ events' = events /\ sharer[c] = "open"
        /\ target' = [target EXCEPT ![c] = IF found THEN p ELSE @]
    BY <1>9 DEF OpenPetitioner, ShareStep
  <2>2. to \in {"out", "ended"} /\ (to = "out" => target'[c] = p)
    BY <2>1 DEF TypeInv
  <2>3. Busy(c) /\ to \in SharerPlaces \ {"none"}
    BY <2>1, <2>2 DEF Busy, SharerPlaces
  <2>4. "sent" \notin events => \A x \in Clients : Asks(x) => p = x
    BY <1>2 DEF WholeInv, FirstInv
  <2> HIDE DEF to, found, p
  <2> QED
    BY <1>4, <1>5, <1>6, <2>1, <2>2, <2>3, <2>4
<1>10. ASSUME NEW e \in Ends, Duplicate(c, e, IF e = "out" THEN "in" ELSE "signal")
       PROVE  WholeInv'
  <2> DEFINE next == IF e = "out" THEN "in" ELSE "signal"
  <2>1. sharer[c] = e /\ Busy(c) /\ events' = events /\ target[c] \in Clients
    BY <1>10 DEF Duplicate, ShareStep, Ends, Busy, TypeInv
  <2>2. CASE ShareStep(c, e, "ended")
    <3>1. sharer' = [sharer EXCEPT ![c] = "ended"] /\ "ended" \in SharerPlaces \ {"none"}
      BY <2>2 DEF ShareStep, SharerPlaces
    <3> QED
      BY <1>4, <1>5, <1>6, <2>1, <3>1
  <2>3. CASE /\ ShareStep(c, e, next) /\ pipes[c][e] # None /\ target' = target
             /\ sent' = [sent EXCEPT ![e] = [process |-> target[c], des |-> pipes[c][e].des]]
    <3>1. sharer' = [sharer EXCEPT ![c] = next] /\ next \in SharerPlaces \ {"none"}
      BY <2>3 DEF ShareStep, SharerPlaces
    <3>2. /\ sent'[e] = [process |-> target[c], des |-> pipes[c][e].des]
          /\ \A f \in Ends \ {e} : sent'[f] = sent[f]
      BY <2>3 DEF TypeInv
    <3>3. sent'[e] # None /\ sent'[e].process = target[c]
      <4>1. pipes[c][e].des \in Nat
        BY <2>3 DEF TypeInv, Handle
      <4>2. [process |-> target[c], des |-> pipes[c][e].des] # None
        BY <2>1, <4>1, SharingAssumption
      <4> QED
        BY <3>2, <4>2
    <3>4. "sent" \notin events => \A x \in Clients : Asks(x) =>
            /\ target[c] = x /\ Made(e, x)' /\ (e = "in" => Made("out", x)')
      <4>1. "sent" \notin events => \A x \in Clients : Asks(x) =>
              target[c] = x /\ (e = "in" => Made("out", x))
        BY <1>2, <2>1 DEF WholeInv, FirstInv, Ends
      <4> QED
        BY <3>2, <3>3, <4>1 DEF Made, Ends
    <3> QED
      BY <1>4, <1>5, <1>6, <2>1, <2>3, <3>1, <3>4 DEF Ends
  <2> QED
    BY <1>10, <2>2, <2>3 DEF Duplicate
<1>11. CASE SignalSent(c)
  <2>1. /\ sharer[c] = "signal" /\ sharer' = [sharer EXCEPT ![c] = "wait"]
        /\ events' = (events \ {"request"}) \cup {"sent"} /\ sent' = sent
        /\ Busy(c) /\ "wait" \in SharerPlaces \ {"none"}
    BY <1>11 DEF SignalSent, ShareStep, Busy, SharerPlaces
  <2>2. CASE "sent" \in events
    BY <1>4, <2>1, <2>2
  <2>3. CASE "sent" \notin events
    <3>1. FirstInv /\ PatientInv /\ petitionee = c
      BY <1>2, <1>6, <2>1, <2>3 DEF WholeInv
    <3>2. \A d \in Clients : ~Busy(d)'
      <4>1. \A d \in Clients : sharer'[d] = IF d = c THEN "wait" ELSE sharer[d]
        BY <2>1 DEF TypeInv
      <4>2. \A d \in Clients \ {c} : ~Busy(d)
        BY <3>1 DEF FirstInv
      <4> QED
        BY <4>1, <4>2 DEF Busy
    <3>3. \A d \in Clients : Connected(d)' => pc'[d] \notin Petitioning
      BY <1>1, <1>2, <1>3, <2>1, <2>3, AskFacts
    <3>4. ASSUME NEW x \in Clients, Patient(x)' PROVE ~Connected(x)' /\ \A e \in Ends : Made(e, x)'
      <4>1. Patient(x) /\ Newcomer(x)
        BY <1>2, <1>3, <2>1, <3>4, AskFacts
      <4>2. pc[x] # "collect"
        BY <2>3 DEF IInv, SentInv
      <4>3. Asks(x)
        BY <4>1, <4>2 DEF Asks, Patient
      <4>4. Made("out", x) /\ Made("in", x)
        BY <2>1, <3>1, <4>3 DEF FirstInv
      <4> QED
        BY <1>3, <2>1, <4>1, <4>4 DEF Made, Ends, Newcomer
    <3>5. PatientInv'
      BY <2>1, <3>2, <3>3, <3>4 DEF PatientInv
    <3> QED
      BY <2>1, <3>5 DEF WholeInv
  <2> QED
    BY <2>2, <2>3
<1> QED
  BY <1>7, <1>8, <1>9, <1>10, <1>11 DEF SharerStep, DuplicateOut, DuplicateIn, Ends

\* close() and a client that dies: nobody waits, for a newcomer keeps the mutex.
LEMMA CloseWhole ==
  ASSUME IInv, IInv', TypeInv, WholeInv, NEW c \in Clients, CloseStep(c)
  PROVE  WholeInv'
<1> SUFFICES ASSUME NobodyDied' PROVE WholeInv'
  BY DEF WholeInv
<1>1. pc[c] \in {"in", "join", "leave", "quit"} /\ Connected(c)
  BY DEF CloseStep, StartClose, JoinSharer, TimeoutLeave, Leave, Quit, Move, IInv, PlaceInv
<1>2. /\ NobodyDied /\ Live(c)
      /\ \A d \in Clients \ {c} : pc'[d] = pc[d] /\ sharer'[d] = sharer[d]
      /\ UNCHANGED <<target, patient>>
  <2>1. /\ \A d \in Clients \ {c} : pc'[d] = pc[d] /\ sharer'[d] = sharer[d]
        /\ UNCHANGED <<target, patient>>
    BY DEF CloseStep, StartClose, JoinSharer, TimeoutLeave, Leave, Quit, Move, record, TypeInv
  <2> QED
    BY <1>1, <2>1 DEF NobodyDied, Live
<1>3. ASSUME NEW to \in {"in", "join", "leave"}, pc' = [pc EXCEPT ![c] = to],
             UNCHANGED <<sharer, table, petitionee, sent, created>>,
             petitioner'.pid = petitioner.pid,
             events' \in {events, events \cup {"finishing"}}
      PROVE  WholeInv'
  <2>1. pc'[c] = to
    BY <1>3 DEF TypeInv
  <2>2. ~Asks(c) /\ ~Asks(c)' /\ ~Patient(c)'
    BY <1>1, <1>3, <2>1 DEF Asks, Patient
  <2>3. \A e \in {"request", "sent"} : e \in events' <=> e \in events
    BY <1>3
  <2> QED
    BY <1>1, <1>2, <1>3, <2>2, <2>3, WholeWalk DEF Petitioning
<1>4. CASE StartClose(c) \/ JoinSharer(c) \/ TimeoutLeave(c)
  <2>1. petitioner'.pid = petitioner.pid
    BY <1>4 DEF StartClose, JoinSharer, TimeoutLeave, record, TypeInv
  <2>2. CASE StartClose(c)
    <3>1. \E to \in {"in", "join"} : pc' = [pc EXCEPT ![c] = to]
      BY <2>2 DEF StartClose, Move, TypeInv
    <3> QED
      BY <1>3, <2>1, <2>2, <3>1 DEF StartClose
  <2>3. CASE JoinSharer(c)
    BY <1>3, <2>1, <2>3 DEF JoinSharer, Move
  <2>4. CASE TimeoutLeave(c)
    BY <1>3, <2>1, <2>4 DEF TimeoutLeave, Move, record
  <2> QED
    BY <1>4, <2>2, <2>3, <2>4
\* Who leaves has seen the mutex free.
<1>5. ASSUME NEW to \in {"out", "quit"}, pc' = [pc EXCEPT ![c] = to], shared.owner \in {None, c},
             sharer'[c] \in {sharer[c], "none"},
             events' = events \/ (events' = {} /\ open' = {}),
             \/ petitionee' = petitionee
             \/ petitionee' = None /\ \A d \in Clients : ~Busy(d)',
             "sent" \notin events' /\ petitionee' # None =>
               created' /\ (table' = <<>> \/ open' = {})
      PROVE  WholeInv'
  <2>1. \A d \in Clients : ~Newcomer(d)
    BY <1>1, <1>2, <1>5, AskFacts, SharingAssumption DEF Newcomer
  <2>2. pc'[c] = to
    BY <1>5 DEF TypeInv
  <2>3. \A d \in Clients : ~Asks(d)' /\ ~Patient(d)' /\ pc'[d] # "enter"
    <3>1. ~Asks(c)' /\ ~Patient(c)' /\ pc'[c] # "enter"
      BY <1>5, <2>2 DEF Asks, Patient
    <3>2. \A d \in Clients \ {c} : ~Asks(d)' /\ ~Patient(d)' /\ pc'[d] # "enter"
      BY <1>2, <2>1, AskFacts DEF Asks, Patient, Newcomer, Connected
    <3> QED
      BY <3>1, <3>2
  <2>4. \A d \in Clients : (Busy(d)' => Busy(d)) /\ (Live(d)' => d \in open')
    BY <1>2, <1>5 DEF Busy, IInv, PlaceInv
  <2>5. open' = {} => NobodyLives' /\ \A d \in Clients : ~Busy(d)'
    BY <2>4 DEF NobodyLives, Busy, Live, Connected, NobodyDied
  <2>6. ASSUME "sent" \notin events' PROVE FirstInv'
    <3>1. \A d \in Clients : Busy(d)' => petitionee' = d
      <4>1. CASE open' = {}
        BY <2>5, <4>1
      <4>2. CASE events' = events
        <5>1. \A d \in Clients : Busy(d) => petitionee = d
          BY <1>2, <2>6, <4>2 DEF WholeInv, FirstInv
        <5> QED
          BY <1>5, <2>4, <5>1
      <4> QED
        BY <1>5, <4>1, <4>2
    <3> QED
      BY <1>5, <2>3, <2>5, <2>6, <3>1 DEF FirstInv
  <2> QED
    BY <2>3, <2>6 DEF WholeInv, PatientInv
<1>6. CASE Leave(c)
  <2> DEFINE rest == Without(table, c)
  <2>1. pc[c] = "leave" /\ shared.owner \in {None, c} /\ created /\ UNCHANGED <<petitionee, created>>
    BY <1>2, <1>6 DEF Leave, Move, Available, record, IInv, NewInv, NobodyLives
  <2>2. CASE Move(c, "leave", "in") /\ UNCHANGED <<sharer, table, events>>
    BY <1>3, <1>6, <2>2 DEF Leave, Move, record
  <2>3. CASE Move(c, "leave", "quit") /\ table' = <<>> /\ UNCHANGED <<sharer, events>>
    BY <1>5, <2>1, <2>3 DEF Move
  <2>4. CASE /\ Move(c, "leave", "out") /\ rest # <<>>
             /\ sharer' = [sharer EXCEPT ![c] = "none"]
             /\ CloseObjects(c, shared, turn, events)
    <3>1. events' = events \/ (events' = {} /\ open' = {})
      BY <2>4 DEF CloseObjects
    <3>2. "sent" \in events
      <4>1. table \in Seq(Clients) /\ rest \in Seq(Clients) /\ Len(rest) <= Len(table)
            /\ (Listed(table, c) => Len(rest) = Len(table) - 1)
        BY WithoutLeaves DEF TypeInv
      <4>2. Len(rest) \in Nat /\ Len(table) \in Nat /\ Len(rest) # 0
        BY <2>4, <4>1, LenProperties, EmptySeq
      <4>3. Listed(table, c)
        <5>1. table # <<>>
          BY <4>1, <4>2
        <5> QED
          BY <1>2, <5>1 DEF IInv, ListedInv
      <4>4. "sent" \notin events => Len(table) <= 1
        BY <1>2 DEF IInv, SentInv, NobodyLives
      <4> QED
        BY <4>1, <4>2, <4>3, <4>4
    <3>3. sharer'[c] = "none"
      BY <2>4 DEF TypeInv
    <3> QED
      BY <1>5, <2>1, <2>4, <3>1, <3>2, <3>3 DEF Move
  <2> QED
    BY <1>6, <2>2, <2>3, <2>4 DEF Leave
<1>7. CASE Quit(c)
  <2>1. /\ pc[c] = "quit" /\ pc' = [pc EXCEPT ![c] = "out"]
        /\ sharer' = [sharer EXCEPT ![c] = "none"] /\ petitionee' = None
        /\ CloseObjects(c, Released(shared, c), turn, events)
    BY <1>7 DEF Quit, Move
  <2>2. events' = events \/ (events' = {} /\ open' = {})
    BY <2>1 DEF CloseObjects
  <2>3. sharer'[c] = "none"
    BY <2>1 DEF TypeInv
  <2>4. shared.owner = c /\ \A d \in Clients \ {c} : ~Live(d)
    BY <2>1 DEF IInv, QuitInv
  <2>5. \A d \in Clients : ~Busy(d)'
    <3>1. \A d \in Clients \ {c} : ~Busy(d)
      BY <1>2, <2>4, AskFacts
    <3> QED
      BY <1>2, <2>3, <3>1 DEF Busy
  <2> QED
    BY <1>5, <2>1, <2>2, <2>3, <2>4, <2>5
<1> QED
  BY <1>4, <1>6, <1>7 DEF CloseStep

LEMMA WholeInvariant == Spec => []WholeInv
<1>1. Init => WholeInv
  BY DEF Init, WholeInv, FirstInv, PatientInv, Patient, Asks, Busy
<1>2. IInv /\ TypeInv /\ WholeInv /\ [Next]_vars => WholeInv'
  <2> SUFFICES ASSUME IInv, TypeInv, WholeInv, [Next]_vars PROVE WholeInv'
    OBVIOUS
  <2>1. IInv'
    BY StepHolds
  <2>2. CASE UNCHANGED vars
    BY <2>2 DEF vars, record, WholeInv, FirstInv, PatientInv, Patient, Asks, Busy, Made, Newcomer,
                Connected, Listed, NobodyLives, Live, NobodyDied
  <2>3. ASSUME NEW c \in Clients, ConnectStep(c) PROVE WholeInv'
    BY <2>1, <2>3, ArrivalWhole, PetitionWhole, TurnWhole, RequestWhole, RetryWhole DEF ConnectStep
  <2>4. ASSUME NEW c \in Clients, Crash(c) PROVE WholeInv'
    BY <2>4 DEF Crash, WholeInv, NobodyDied, TypeInv
  <2> QED
    BY <2>1, <2>2, <2>3, <2>4, SharerWhole, CloseWhole DEF Next
<1> QED
  BY <1>1, <1>2, Invariant, Typing, PTL DEF Spec

\* get_DES_process_pipes reads two handles made for its own process whenever it had
\* to wait for handle_sent_event, though the record and the events are used without
\* a mutex by the sharing threads, of any speed, and a petitionee may be given up on.
THEOREM WaitedIsWhole == Spec => []HandlesWhole
<1>1. IInv /\ WholeInv => HandlesWhole
  BY DEF IInv, SentInv, WholeInv, NobodyDied, PatientInv, Patient, Made, HandlesWhole
<1> QED
  BY Invariant, WholeInvariant, <1>1, PTL

=============================================================================
