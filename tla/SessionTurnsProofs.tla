-------------------------- MODULE SessionTurnsProofs --------------------------
(***************************************************************************)
(* Theorems about DesSession when clients take turns: no connect() or      *)
(* close() starts while another is running.  Then n_clients, incremented   *)
(* and decremented by a load and a store, counts the connected clients;    *)
(* the last close() alone tells DES to quit and, where launches succeed    *)
(* and nobody dies, leaves nothing behind.  For any number of clients and  *)
(* connect() calls, on any kernel; what a process death or a failing       *)
(* launch spoils is said by the hypotheses of each theorem.                *)
(***************************************************************************)
EXTENDS DesSessionProofs, FiniteSetTheorems

\* Calls do not overlap.
TakingTurns == ~Overlap

\* The clients that n_clients of segment s includes: a creator from n_clients = 1, a
\* joiner from n_clients += 1, both until the store of n_clients -= 1.
Counted == {"setexec", "unlock", "connected", "cwait", "cload", "cstore"}
CountedAt(s) == {c \in Clients : segOf[c] = s /\ pc[c] \in Counted}

\* A creator that has not counted itself, and a client that found itself the last.
Launching == {"mkin", "mkout", "fork", "forked", "launched", "opening", "openout",
              "banner", "countone"}
Emptying == {"cquit", "csendq", "cdetach", "crmid"}

OneCall == \A c, d \in Clients : MidCall(c) /\ MidCall(d) => c = d

\* Every client in a call or connected uses the segment the key leads to, until it
\* has removed it.
AtKey ==
  \A c \in Clients : MidCall(c) \/ pc[c] = "connected" =>
    IF TearingDown(c) THEN key = 0 ELSE segOf[c] = key

\* Nobody changes n_clients between a client's load and its store or test.
Registers ==
  \A c \in Clients :
    pc[c] \in {"store", "cstore", "ctest"} => reg[c] = n_clients[segOf[c]]

\* n_clients is the number of clients counted; deaths leave it too high, never too
\* low.
CountHeld ==
  \A s \in Serials :
    /\ IsFiniteSet(CountedAt(s))
    /\ n_clients[s] >= Cardinality(CountedAt(s))
    /\ NobodyDied => n_clients[s] = Cardinality(CountedAt(s))

\* Where DES has not been launched nobody is counted; nor while a client launches it
\* or tears everything down.
NobodyCounted ==
  /\ \A s \in Serials : ~des_process_created[s] => n_clients[s] = 0
  /\ \A c \in Clients :
       /\ pc[c] \in {"mkin", "mkout", "fork", "forked"} =>
            ~des_process_created[segOf[c]]
       /\ pc[c] \in Launching \cup Emptying => n_clients[segOf[c]] = 0
       /\ pc[c] = "setexec" => Connected = {}

TurnsInv == OneCall /\ AtKey /\ Registers /\ CountHeld /\ NobodyCounted

-----------------------------------------------------------------------------
\* While a client is in a call, or starts one, no other is in a call.
LEMMA OthersRest ==
  ASSUME TakingTurns, TypeOK, OneCall, NEW c \in Clients,
         CallStep(c) \/ Attach(c) \/ StartClose(c)
  PROVE  /\ \A d \in Clients \ {c} : ~MidCall(d)
         /\ CallStep(c) => MidCall(c)
<1>1. ASSUME Attach(c) \/ StartClose(c) PROVE \A d \in Clients \ {c} : ~MidCall(d)
  <2>1. Quiet(c) /\ pc[c] \in {"idle", "connected"} /\ pc'[c] \in {"attached", "cwait"}
    <3>1. CASE Attach(c)
      BY <3>1 DEF Attach, Goto, TypeOK
    <3> QED
      BY <1>1, <3>1 DEF StartClose, Goto, TypeOK
  <2> QED
    BY <2>1 DEF TakingTurns, Quiet, MidCall, ConnectSteps, CloseSteps
<1>2. CallStep(c) => MidCall(c)
  <2>1. ConnectStep(c) => pc[c] \in ConnectSteps
    BY DEF ConnectStep, ReadCreated, SemInit, TakeConnect, TimeoutConnect, RejectExec,
       ChooseRole, MakeInFifo, MakeOutFifo, Fork, SetCreated, EarlyRelease, OpenIn,
       OpenOut, OpenTimeout, ReadBanner, CountOne, SetExec, LoadCount, StoreCount,
       Unlock, Goto, ConnectSteps
  <2>2. CloseStep(c) => pc[c] \in CloseSteps
    BY DEF CloseStep, TakeClose, TimeoutClose, LoadCountClose, StoreCountClose,
       TestCount, ReleaseQuit, SendQuit, Detach, RemoveSegment, UnlinkIn, UnlinkOut,
       ReleaseLeave, Leave, Goto, CloseSteps
  <2> QED
    BY <2>1, <2>2 DEF CallStep, MidCall
<1> QED
  BY <1>1, <1>2 DEF OneCall

\* Where n_clients is zero nobody is counted.
LEMMA ZeroCountsNobody ==
  ASSUME CountHeld, NEW s \in Serials, n_clients[s] = 0
  PROVE  CountedAt(s) = {}
<1>1. IsFiniteSet(CountedAt(s)) /\ 0 >= Cardinality(CountedAt(s))
  BY DEF CountHeld
<1>2. Cardinality(CountedAt(s)) \in Nat
  BY <1>1, FS_CardinalityType
<1>3. Cardinality(CountedAt(s)) = 0
  BY <1>1, <1>2
<1> QED
  BY <1>1, <1>3, FS_EmptySet

\* Where n_clients is zero, nobody is connected through the key.
LEMMA ZeroNobodyConnected ==
  ASSUME CountHeld, AtKey, key \in Serials, n_clients[key] = 0
  PROVE  Connected = {}
<1>1. CountedAt(key) = {}
  BY ZeroCountsNobody
<1>2. \A d \in Connected : d \in CountedAt(key)
  BY DEF Connected, AtKey, CountedAt, Counted, TearingDown
<1> QED
  BY <1>1, <1>2

\* A client that moves within or outside the counted ones leaves the count exact.
LEMMA SameCount ==
  ASSUME CountHeld, NEW c \in Clients, NEW to, pc[c] # "dead", to # "dead",
         TypeOK, pc' = [pc EXCEPT ![c] = to], UNCHANGED n_clients,
         \A d \in Clients : d # c => segOf'[d] = segOf[d],
         to \in Counted <=> pc[c] \in Counted,
         to \in Counted => segOf'[c] = segOf[c]
  PROVE  CountHeld'
<1>1. \A s \in Serials : CountedAt(s)' = CountedAt(s)
  BY DEF TypeOK, CountedAt
<1>2. NobodyDied' => NobodyDied
  BY DEF TypeOK, NobodyDied
<1> QED
  BY <1>1, <1>2 DEF CountHeld

\* A step of c within its call that neither counts it nor moves it to another
\* segment.
LEMMA Move ==
  ASSUME TypeOK, TurnsInv, NEW c \in Clients, NEW to,
         \A d \in Clients \ {c} : ~MidCall(d),
         pc' = [pc EXCEPT ![c] = to], UNCHANGED <<segOf, n_clients, key>>,
         to \notin {"dead", "setexec"},
         MidCall(c) \/ pc[c] = "connected",
         to \in Counted <=> pc[c] \in Counted,
         to \in {"cunlinkin", "cunlinkout"} <=> TearingDown(c) /\ to # "idle",
         to \in {"store", "cstore", "ctest"} => reg'[c] = n_clients[segOf[c]],
         \A s \in Serials : des_process_created[s] => des_process_created'[s],
         to \in {"mkin", "mkout", "fork", "forked"} => ~des_process_created'[segOf[c]],
         to \in Launching \cup Emptying => n_clients[segOf[c]] = 0
  PROVE  TurnsInv'
<1>1. \A d \in Clients : d # c => ~MidCall(d)' /\ pc'[d] = pc[d]
  BY DEF TypeOK, MidCall
<1>2. pc'[c] = to
  BY DEF TypeOK
<1>3. OneCall'
  BY <1>1 DEF OneCall
<1>4. AtKey'
  <2>1. ASSUME NEW d \in Clients, (MidCall(d) \/ pc[d] = "connected")'
        PROVE  (IF TearingDown(d) THEN key = 0 ELSE segOf[d] = key)'
    <3>1. CASE d = c
      <4>1. TearingDown(c)' => TearingDown(c) /\ key = 0
        BY <1>2 DEF TearingDown, TurnsInv, AtKey
      <4>2. ~TearingDown(c)' => ~TearingDown(c) /\ segOf[c] = key
        BY <1>2, <2>1, <3>1 DEF TearingDown, TurnsInv, AtKey, MidCall, ConnectSteps,
           CloseSteps
      <4> QED
        BY <3>1, <4>1, <4>2
    <3>2. CASE d # c
      BY <1>1, <2>1, <3>2 DEF TurnsInv, AtKey, TearingDown
    <3> QED
      BY <3>1, <3>2
  <2> QED
    BY <2>1 DEF AtKey
<1>5. Registers'
  BY <1>1, <1>2 DEF Registers, MidCall, ConnectSteps, CloseSteps
<1>6. CountHeld'
  <2>1. pc[c] # "dead"
    BY DEF MidCall, ConnectSteps, CloseSteps
  <2>2. \A d \in Clients : d # c => segOf'[d] = segOf[d]
    OBVIOUS
  <2> QED
    BY <2>1, <2>2, SameCount DEF TurnsInv
<1>7. NobodyCounted'
  <2>1. \A s \in Serials : ~des_process_created'[s] => n_clients'[s] = 0
    BY DEF TurnsInv, NobodyCounted
  <2> QED
    BY <1>1, <1>2, <2>1 DEF NobodyCounted, MidCall, ConnectSteps, CloseSteps, Launching,
       Emptying
<1> QED
  BY <1>3, <1>4, <1>5, <1>6, <1>7 DEF TurnsInv

\* The steps of connect() and close() that leave n_clients, the key and the
\* client's segment alone.
LEMMA MoveSteps ==
  ASSUME TakingTurns, TypeOK, SegmentsHeld, TurnsInv, NEW c \in Clients,
         \/ ReadCreated(c) \/ SemInit(c) \/ TakeConnect(c) \/ TimeoutConnect(c)
         \/ RejectExec(c) \/ ChooseRole(c) \/ MakeInFifo(c) \/ MakeOutFifo(c) \/ Fork(c)
         \/ SetCreated(c) \/ EarlyRelease(c) \/ OpenIn(c) \/ OpenOut(c)
         \/ OpenTimeout(c) \/ ReadBanner(c) \/ SetExec(c) \/ LoadCount(c) \/ Unlock(c)
         \/ StartClose(c) \/ TakeClose(c) \/ TimeoutClose(c) \/ LoadCountClose(c)
         \/ TestCount(c) \/ ReleaseQuit(c) \/ SendQuit(c) \/ Detach(c) \/ UnlinkIn(c)
         \/ UnlinkOut(c) \/ ReleaseLeave(c)
  PROVE  TurnsInv'
<1>1. \A d \in Clients \ {c} : ~MidCall(d)
  BY OthersRest DEF TurnsInv, CallStep, ConnectStep, CloseStep
<1>2. MidCall(c) \/ pc[c] = "connected"
  BY OthersRest DEF TurnsInv, CallStep, ConnectStep, CloseStep, StartClose, Goto
<1>3. /\ pc[c] \in {"mkin", "mkout", "fork", "forked"} => ~des_process_created[segOf[c]]
      /\ pc[c] \in Launching \cup Emptying => n_clients[segOf[c]] = 0
      /\ pc[c] = "ctest" => reg[c] = n_clients[segOf[c]]
  BY DEF TurnsInv, NobodyCounted, Registers
<1>4. pc[c] = "locked" /\ ~Created(c) => n_clients[segOf[c]] = 0
  BY HeldSegment DEF TurnsInv, NobodyCounted, Created, BeforeFork
<1> USE <1>1, <1>2, <1>3, Move DEF mine, shmem, names, Goto, OnlySemChanges, Counted,
        Launching, Emptying, TearingDown
<1>5. CASE ReadCreated(c) \/ SemInit(c) \/ TakeConnect(c)
  <2>1. CASE ReadCreated(c)
    BY <2>1 DEF ReadCreated
  <2>2. CASE SemInit(c)
    BY <2>2 DEF SemInit
  <2>3. CASE TakeConnect(c)
    BY <2>3 DEF TakeConnect
  <2> QED
    BY <1>5, <2>1, <2>2, <2>3
<1>6. CASE TimeoutConnect(c) \/ RejectExec(c) \/ OpenTimeout(c)
  <2>1. CASE TimeoutConnect(c)
    BY <2>1 DEF TimeoutConnect
  <2>2. CASE RejectExec(c)
    BY <2>2 DEF RejectExec
  <2>3. CASE OpenTimeout(c)
    BY <2>3 DEF OpenTimeout
  <2> QED
    BY <1>6, <2>1, <2>2, <2>3
<1>7. CASE ChooseRole(c)
  BY <1>4, <1>7 DEF ChooseRole, Created
<1>8. CASE MakeInFifo(c) \/ MakeOutFifo(c) \/ Fork(c)
  <2>1. CASE MakeInFifo(c)
    BY <2>1 DEF MakeInFifo
  <2>2. CASE MakeOutFifo(c)
    BY <2>2 DEF MakeOutFifo
  <2>3. CASE Fork(c)
    BY <2>3 DEF Fork
  <2> QED
    BY <1>8, <2>1, <2>2, <2>3
<1>9. CASE SetCreated(c) \/ ReadBanner(c)
  <2>1. \A s \in Serials : des_process_created[s] => des_process_created'[s]
    BY <1>9 DEF TypeOK, SetCreated, ReadBanner
  <2>2. CASE SetCreated(c)
    BY <2>1, <2>2 DEF SetCreated
  <2>3. CASE ReadBanner(c)
    BY <2>1, <2>3 DEF ReadBanner
  <2> QED
    BY <1>9, <2>2, <2>3
<1>10. CASE EarlyRelease(c) \/ OpenIn(c) \/ OpenOut(c)
  <2>1. CASE EarlyRelease(c)
    BY <2>1 DEF EarlyRelease
  <2>2. CASE OpenIn(c)
    BY <2>2 DEF OpenIn
  <2>3. CASE OpenOut(c)
    BY <2>3 DEF OpenOut
  <2> QED
    BY <1>10, <2>1, <2>2, <2>3
<1>11. CASE SetExec(c) \/ Unlock(c)
  <2>1. CASE SetExec(c)
    <3>1. /\ pc[c] = "setexec" /\ pc' = [pc EXCEPT ![c] = "unlock"]
          /\ UNCHANGED <<segOf, n_clients, key>>
          /\ \A s \in Serials : des_process_created[s] => des_process_created'[s]
      BY <2>1 DEF SetExec
    <3> DEFINE to == "unlock"
    <3>2. /\ to \in Counted /\ pc[c] \in Counted /\ ~TearingDown(c)
          /\ to \notin {"cunlinkin", "cunlinkout"}
      BY <3>1
    <3>3. /\ to \notin {"dead", "setexec"} /\ to \notin {"store", "cstore", "ctest"}
          /\ to \notin {"mkin", "mkout", "fork", "forked"}
          /\ to \notin Launching \cup Emptying
      OBVIOUS
    <3>4. pc' = [pc EXCEPT ![c] = to]
      BY <3>1
    <3> HIDE DEF to
    <3> QED
      BY <3>1, <3>2, <3>3, <3>4
  <2>2. CASE Unlock(c)
    BY <2>2 DEF Unlock
  <2> QED
    BY <1>11, <2>1, <2>2
<1>12. CASE LoadCount(c) \/ LoadCountClose(c)
  <2>1. reg'[c] = n_clients[segOf[c]]
    BY <1>12 DEF TypeOK, LoadCount, LoadCountClose
  <2>2. CASE LoadCount(c)
    BY <2>1, <2>2 DEF LoadCount
  <2>3. CASE LoadCountClose(c)
    BY <2>1, <2>3 DEF LoadCountClose
  <2> QED
    BY <1>12, <2>2, <2>3
<1>13. CASE StartClose(c) \/ TakeClose(c) \/ TimeoutClose(c)
  <2>1. CASE StartClose(c)
    BY <2>1 DEF StartClose
  <2>2. CASE TakeClose(c)
    BY <2>2 DEF TakeClose
  <2>3. CASE TimeoutClose(c)
    BY <2>3 DEF TimeoutClose
  <2> QED
    BY <1>13, <2>1, <2>2, <2>3
<1>14. CASE TestCount(c)
  BY <1>14 DEF TestCount
<1>15. CASE ReleaseQuit(c) \/ SendQuit(c) \/ Detach(c)
  <2>1. CASE ReleaseQuit(c)
    BY <2>1 DEF ReleaseQuit
  <2>2. CASE SendQuit(c)
    BY <2>2 DEF SendQuit
  <2>3. CASE Detach(c)
    BY <2>3 DEF Detach
  <2> QED
    BY <1>15, <2>1, <2>2, <2>3
<1>16. CASE UnlinkIn(c) \/ UnlinkOut(c) \/ ReleaseLeave(c)
  <2>1. CASE UnlinkIn(c)
    BY <2>1 DEF UnlinkIn
  <2>2. CASE UnlinkOut(c)
    BY <2>2 DEF UnlinkOut
  <2>3. CASE ReleaseLeave(c)
    BY <2>3 DEF ReleaseLeave
  <2> QED
    BY <1>16, <2>1, <2>2, <2>3
<1> QED
  BY <1>5, <1>6, <1>7, <1>8, <1>9, <1>10, <1>11, <1>12, <1>13, <1>14, <1>15, <1>16

\* One more is counted with n_clients + 1, one fewer with n_clients - 1.
LEMMA OneMore ==
  ASSUME CountHeld, NEW c, NEW s \in Serials, c \notin CountedAt(s),
         NEW k, k = n_clients[s] + 1, n_clients[s] \in Int
  PROVE  /\ IsFiniteSet(CountedAt(s) \cup {c})
         /\ k >= Cardinality(CountedAt(s) \cup {c})
         /\ NobodyDied => k = Cardinality(CountedAt(s) \cup {c})
<1>1. /\ IsFiniteSet(CountedAt(s)) /\ n_clients[s] >= Cardinality(CountedAt(s))
      /\ NobodyDied => n_clients[s] = Cardinality(CountedAt(s))
  BY DEF CountHeld
<1>2. Cardinality(CountedAt(s)) \in Nat
  BY <1>1, FS_CardinalityType
<1>3. /\ IsFiniteSet(CountedAt(s) \cup {c})
      /\ Cardinality(CountedAt(s) \cup {c}) = Cardinality(CountedAt(s)) + 1
  BY <1>1, FS_AddElement
<1>4. k >= Cardinality(CountedAt(s) \cup {c})
  BY <1>1, <1>2, <1>3
<1>5. ASSUME NobodyDied PROVE k = Cardinality(CountedAt(s) \cup {c})
  BY <1>1, <1>3, <1>5
<1> QED
  BY <1>3, <1>4, <1>5

\* And where the counted lose one, n_clients - 1 is their number.
LEMMA OneFewer ==
  ASSUME CountHeld, NEW c, NEW s \in Serials, c \in CountedAt(s),
         NEW k, k = n_clients[s] - 1, n_clients[s] \in Int
  PROVE  /\ IsFiniteSet(CountedAt(s) \ {c})
         /\ k >= Cardinality(CountedAt(s) \ {c})
         /\ NobodyDied => k = Cardinality(CountedAt(s) \ {c})
<1>1. /\ IsFiniteSet(CountedAt(s)) /\ n_clients[s] >= Cardinality(CountedAt(s))
      /\ NobodyDied => n_clients[s] = Cardinality(CountedAt(s))
  BY DEF CountHeld
<1>2. Cardinality(CountedAt(s)) \in Nat
  BY <1>1, FS_CardinalityType
<1>3. /\ IsFiniteSet(CountedAt(s) \ {c})
      /\ Cardinality(CountedAt(s) \ {c}) = Cardinality(CountedAt(s)) - 1
  BY <1>1, FS_RemoveElement
<1>4. k >= Cardinality(CountedAt(s) \ {c})
  BY <1>1, <1>2, <1>3
<1>5. ASSUME NobodyDied PROVE k = Cardinality(CountedAt(s) \ {c})
  BY <1>1, <1>3, <1>5
<1> QED
  BY <1>3, <1>4, <1>5

\* The store of a new n_clients leaves it the number of the counted.
LEMMA CountStored ==
  ASSUME TypeOK, CountHeld, NEW c \in Clients, NEW to, NEW k, segOf[c] \in Serials,
         pc[c] # "dead", to # "dead", UNCHANGED segOf,
         pc' = [pc EXCEPT ![c] = to], n_clients' = [n_clients EXCEPT ![segOf[c]] = k],
         \/ pc[c] \notin Counted /\ to \in Counted /\ k = n_clients[segOf[c]] + 1
         \/ pc[c] \in Counted /\ to \notin Counted /\ k = n_clients[segOf[c]] - 1
  PROVE  CountHeld'
<1> DEFINE seg == segOf[c]
<1>1. NobodyDied' => NobodyDied
  BY DEF TypeOK, NobodyDied
<1>2. n_clients'[seg] = k /\ \A s \in Serials \ {seg} : n_clients'[s] = n_clients[s]
  BY DEF TypeOK
<1>3. \A s \in Serials \ {seg} : CountedAt(s)' = CountedAt(s)
  BY DEF TypeOK, CountedAt
<1>4. /\ IsFiniteSet(CountedAt(seg)')
      /\ k >= Cardinality(CountedAt(seg)')
      /\ NobodyDied => k = Cardinality(CountedAt(seg)')
  <2>0. n_clients[seg] \in Int
    BY DEF TypeOK
  <2>1. CASE pc[c] \notin Counted /\ to \in Counted /\ k = n_clients[seg] + 1
    <3>1. c \notin CountedAt(seg) /\ CountedAt(seg)' = CountedAt(seg) \cup {c}
      BY <2>1 DEF TypeOK, CountedAt
    <3> QED
      BY <2>0, <2>1, <3>1, OneMore
  <2>2. CASE pc[c] \in Counted /\ to \notin Counted /\ k = n_clients[seg] - 1
    <3>1. c \in CountedAt(seg) /\ CountedAt(seg)' = CountedAt(seg) \ {c}
      BY <2>2 DEF TypeOK, CountedAt
    <3> QED
      BY <2>0, <2>2, <3>1, OneFewer
  <2> QED
    BY <2>1, <2>2
<1> HIDE DEF seg
<1>5. ASSUME NEW s \in Serials
      PROVE  (/\ IsFiniteSet(CountedAt(s))
              /\ n_clients[s] >= Cardinality(CountedAt(s))
              /\ NobodyDied => n_clients[s] = Cardinality(CountedAt(s)))'
  <2>1. CASE s = seg
    <3>1. CountedAt(s)' = CountedAt(seg)' /\ n_clients'[s] = k
      BY <1>2, <2>1 DEF seg, CountedAt
    <3> QED
      BY <1>1, <1>4, <3>1
  <2>2. CASE s # seg
    BY <1>1, <1>2, <1>3, <2>2 DEF CountHeld
  <2> QED
    BY <2>1, <2>2
<1> QED
  BY <1>5 DEF CountHeld

\* A client that stores n_clients keeps the rest of the invariant too: no other is
\* in a call to be surprised.
LEMMA Stored ==
  ASSUME TypeOK, TurnsInv, NEW c \in Clients, NEW to, NEW k,
         \A d \in Clients \ {c} : ~MidCall(d), MidCall(c), ~TearingDown(c),
         segOf[c] \in Serials, des_process_created[segOf[c]],
         pc' = [pc EXCEPT ![c] = to], n_clients' = [n_clients EXCEPT ![segOf[c]] = k],
         UNCHANGED <<segOf, key, des_process_created>>,
         to \in {"setexec", "unlock", "ctest"}, to = "ctest" => reg'[c] = k,
         to = "setexec" => Connected = {},
         \/ pc[c] \notin Counted /\ to \in Counted /\ k = n_clients[segOf[c]] + 1
         \/ pc[c] \in Counted /\ to \notin Counted /\ k = n_clients[segOf[c]] - 1
  PROVE  TurnsInv'
<1>1. \A d \in Clients : d # c => ~MidCall(d)' /\ pc'[d] = pc[d]
  BY DEF TypeOK, MidCall
<1>2. pc'[c] = to /\ n_clients'[segOf[c]] = k
  BY DEF TypeOK
<1>3. OneCall'
  BY <1>1 DEF OneCall
<1>4. AtKey'
  <2>1. segOf[c] = key /\ ~TearingDown(c)'
    BY <1>2 DEF TurnsInv, AtKey, TearingDown
  <2> QED
    BY <1>1, <2>1 DEF TurnsInv, AtKey, TearingDown
<1>5. Registers'
  BY <1>1, <1>2 DEF Registers, MidCall, ConnectSteps, CloseSteps
<1>6. CountHeld'
  <2>1. pc[c] # "dead" /\ to # "dead"
    BY DEF MidCall, ConnectSteps, CloseSteps
  <2> QED
    BY <2>1, CountStored DEF TurnsInv
<1>7. NobodyCounted'
  <2>1. \A s \in Serials : ~des_process_created'[s] => n_clients'[s] = 0
    BY DEF TypeOK, TurnsInv, NobodyCounted
  <2>2. to = "setexec" => Connected' = {}
    BY <1>1, <1>2 DEF Connected
  <2> QED
    BY <1>1, <1>2, <2>1, <2>2 DEF NobodyCounted, MidCall, ConnectSteps, CloseSteps,
       Launching, Emptying
<1> QED
  BY <1>3, <1>4, <1>5, <1>6, <1>7 DEF TurnsInv

\* The creator counts itself as the only one, a joiner adds itself, close() takes one
\* away: each counts right.
LEMMA StoreSteps ==
  ASSUME TakingTurns, TypeOK, SegmentsHeld, TurnsInv, NEW c \in Clients,
         CountOne(c) \/ StoreCount(c) \/ StoreCountClose(c)
  PROVE  TurnsInv'
<1> USE DEF Goto, mine, shmem, names
<1>1. MidCall(c) /\ \A d \in Clients \ {c} : ~MidCall(d)
  BY OthersRest DEF TurnsInv, CallStep, ConnectStep, CloseStep
<1>2. pc[c] \in {"countone", "store", "cstore"} /\ ~TearingDown(c)
  BY DEF CountOne, StoreCount, StoreCountClose, TearingDown
<1>3. /\ segOf[c] \in Serials /\ des_process_created[segOf[c]]
      /\ n_clients[segOf[c]] \in Int
  BY <1>2, HeldSegment DEF SegmentsHeld, KnowsCreated, HasIn, HasOut, TypeOK
<1>4. CASE CountOne(c)
  <2>1. n_clients[segOf[c]] = 0 /\ segOf[c] = key
    BY <1>1, <1>2, <1>4 DEF CountOne, TurnsInv, NobodyCounted, Launching, AtKey
  <2>2. Connected = {}
    BY <1>3, <2>1, ZeroNobodyConnected DEF TurnsInv
  <2> DEFINE to == "setexec" k == 1
  <2>3. /\ pc' = [pc EXCEPT ![c] = to] /\ n_clients' = [n_clients EXCEPT ![segOf[c]] = k]
        /\ UNCHANGED <<segOf, key, des_process_created>>
    BY <1>4 DEF CountOne
  <2>4. /\ pc[c] \notin Counted /\ to \in Counted /\ k = n_clients[segOf[c]] + 1
        /\ to # "ctest" /\ to \in {"setexec", "unlock", "ctest"}
    BY <1>4, <2>1 DEF CountOne, Counted
  <2> HIDE DEF to, k
  <2> QED
    BY <1>1, <1>2, <1>3, <2>2, <2>3, <2>4, Stored
<1>5. CASE StoreCount(c)
  <2>1. reg[c] = n_clients[segOf[c]]
    BY <1>5 DEF StoreCount, TurnsInv, Registers
  <2> DEFINE to == "unlock" k == reg[c] + 1
  <2>3. /\ pc' = [pc EXCEPT ![c] = to] /\ n_clients' = [n_clients EXCEPT ![segOf[c]] = k]
        /\ UNCHANGED <<segOf, key, des_process_created>>
    BY <1>5 DEF StoreCount
  <2>4. /\ pc[c] \notin Counted /\ to \in Counted /\ k = n_clients[segOf[c]] + 1
        /\ to # "ctest" /\ to # "setexec" /\ to \in {"setexec", "unlock", "ctest"}
    BY <1>5, <2>1 DEF StoreCount, Counted
  <2> HIDE DEF to, k
  <2> QED
    BY <1>1, <1>2, <1>3, <2>3, <2>4, Stored
<1>6. CASE StoreCountClose(c)
  <2>1. reg[c] = n_clients[segOf[c]]
    BY <1>6 DEF StoreCountClose, TurnsInv, Registers
  <2> DEFINE to == "ctest" k == reg[c] - 1
  <2>3. /\ pc' = [pc EXCEPT ![c] = to] /\ n_clients' = [n_clients EXCEPT ![segOf[c]] = k]
        /\ UNCHANGED <<segOf, key, des_process_created>> /\ reg'[c] = k
    BY <1>6 DEF StoreCountClose, TypeOK
  <2>4. /\ pc[c] \in Counted /\ to \notin Counted /\ k = n_clients[segOf[c]] - 1
        /\ to # "setexec" /\ to \in {"setexec", "unlock", "ctest"}
    BY <1>6, <2>1 DEF StoreCountClose, Counted
  <2> HIDE DEF to, k
  <2> QED
    BY <1>1, <1>2, <1>3, <2>3, <2>4, Stored
<1> QED
  BY <1>4, <1>5, <1>6

\* shmget and shmat: the call has the key's segment, and nobody else is in a call.
LEMMA AttachTurn ==
  ASSUME TakingTurns, TypeOK, NamesInv, TurnsInv, NEW c \in Clients, Attach(c)
  PROVE  TurnsInv'
<1>1. /\ pc[c] = "idle" /\ pc' = [pc EXCEPT ![c] = "attached"]
      /\ segOf' = [segOf EXCEPT ![c] = key'] /\ (key # 0 => key' = key)
      /\ UNCHANGED <<n_clients, des_process_created>>
  BY DEF Attach, Goto, shmem
<1>2. \A d \in Clients : d # c => ~MidCall(d) /\ ~MidCall(d)' /\ pc'[d] = pc[d]
                                 /\ segOf'[d] = segOf[d]
  BY <1>1, OthersRest DEF TypeOK, MidCall, TurnsInv
<1>3. pc'[c] = "attached" /\ segOf'[c] = key'
  BY <1>1 DEF TypeOK
<1>4. OneCall'
  BY <1>2 DEF OneCall
<1>5. AtKey'
  <2>1. \A d \in Clients : pc[d] = "connected" => segOf[d] = key /\ key # 0
    BY DEF TurnsInv, AtKey, TearingDown, NamesInv, SegmentsHeld, KnowsCreated, HasIn,
       HasOut
  <2>2. ~TearingDown(c)' /\ \A d \in Clients : d # c => (pc'[d] = "connected" => ~TearingDown(d)')
    BY <1>3 DEF TearingDown
  <2> QED
    BY <1>1, <1>2, <1>3, <2>1, <2>2 DEF AtKey
<1>6. Registers'
  BY <1>2, <1>3 DEF Registers, MidCall, ConnectSteps, CloseSteps
<1>7. CountHeld'
  <2> DEFINE to == "attached"
  <2>1. pc[c] # "dead" /\ to # "dead" /\ to \notin Counted /\ pc[c] \notin Counted
    BY <1>1 DEF Counted
  <2>2. pc' = [pc EXCEPT ![c] = to]
    BY <1>1
  <2> HIDE DEF to
  <2> QED
    BY <1>1, <1>2, <2>1, <2>2, SameCount DEF TurnsInv
<1>8. NobodyCounted'
  BY <1>1, <1>2, <1>3 DEF TurnsInv, NobodyCounted, MidCall, ConnectSteps, CloseSteps,
     Launching, Emptying
<1> QED
  BY <1>4, <1>5, <1>6, <1>7, <1>8 DEF TurnsInv

\* shmctl(IPC_RMID) finds the segment: the client that removes it is alone, so no
\* close() fails halfway.
LEMMA RemovesOwnKey ==
  ASSUME TypeOK, SegmentsHeld, TurnsInv, NEW c \in Clients, RemoveSegment(c)
  PROVE  /\ pc[c] = "crmid" /\ pc' = [pc EXCEPT ![c] = "cunlinkin"]
         /\ key = segOf[c] /\ key' = 0 /\ segOf' = [segOf EXCEPT ![c] = 0]
         /\ Connected = {} /\ key \in Serials
         /\ UNCHANGED <<n_clients, des_process_created, inFifo, outFifo>>
<1>1. pc[c] = "crmid"
  BY DEF RemoveSegment, Goto
<1>2. key = segOf[c] /\ n_clients[key] = 0
  BY <1>1 DEF TurnsInv, AtKey, TearingDown, MidCall, CloseSteps, NobodyCounted, Emptying
<1>3. key \in Serials
  BY <1>1, <1>2, HeldSegment DEF KnowsCreated, HasIn, HasOut
<1>4. Connected = {}
  BY <1>2, <1>3, ZeroNobodyConnected DEF TurnsInv
<1> QED
  BY <1>1, <1>2, <1>3, <1>4 DEF RemoveSegment, Goto, shmem

\* The removal of the segment leaves nobody in a call or connected to look for it.
LEMMA RemoveTurn ==
  ASSUME TakingTurns, TypeOK, SegmentsHeld, TurnsInv, NEW c \in Clients, RemoveSegment(c)
  PROVE  TurnsInv'
<1>1. /\ pc[c] = "crmid" /\ pc' = [pc EXCEPT ![c] = "cunlinkin"]
      /\ key' = 0 /\ segOf' = [segOf EXCEPT ![c] = 0]
      /\ Connected = {} /\ UNCHANGED <<n_clients, des_process_created>>
  BY RemovesOwnKey
<1>2. \A d \in Clients : d # c => ~MidCall(d) /\ ~MidCall(d)' /\ pc'[d] = pc[d]
                                 /\ segOf'[d] = segOf[d] /\ pc[d] # "connected"
  BY <1>1, OthersRest DEF TypeOK, MidCall, TurnsInv, CallStep, CloseStep, Connected
<1>3. pc'[c] = "cunlinkin"
  BY <1>1 DEF TypeOK
<1>4. OneCall'
  BY <1>2 DEF OneCall
<1>5. AtKey'
  BY <1>1, <1>2, <1>3 DEF AtKey, TearingDown
<1>6. Registers'
  BY <1>2, <1>3 DEF Registers, MidCall, ConnectSteps, CloseSteps
<1>7. CountHeld'
  <2> DEFINE to == "cunlinkin"
  <2>1. /\ pc[c] # "dead" /\ to # "dead" /\ to \notin Counted /\ pc[c] \notin Counted
        /\ pc' = [pc EXCEPT ![c] = to]
    BY <1>1 DEF Counted
  <2> HIDE DEF to
  <2> QED
    BY <1>1, <1>2, <2>1, SameCount DEF TurnsInv
<1>8. NobodyCounted'
  BY <1>1, <1>2, <1>3 DEF TurnsInv, NobodyCounted, MidCall, ConnectSteps, CloseSteps,
     Launching, Emptying
<1> QED
  BY <1>4, <1>5, <1>6, <1>7, <1>8 DEF TurnsInv

\* A client that was not the last lets go of its segment only.
LEMMA LeaveTurn ==
  ASSUME TakingTurns, TypeOK, TurnsInv, NEW c \in Clients, Leave(c)
  PROVE  TurnsInv'
<1>1. /\ pc[c] = "cdrop" /\ pc' = [pc EXCEPT ![c] = "idle"]
      /\ segOf' = [segOf EXCEPT ![c] = 0]
      /\ UNCHANGED <<n_clients, des_process_created, key>>
  BY DEF Leave, Goto, shmem, names
<1>2. \A d \in Clients : d # c => ~MidCall(d) /\ ~MidCall(d)' /\ pc'[d] = pc[d]
                                 /\ segOf'[d] = segOf[d]
  BY <1>1, OthersRest DEF TypeOK, MidCall, TurnsInv, CallStep, CloseStep
<1>3. pc'[c] = "idle"
  BY <1>1 DEF TypeOK
<1>4. OneCall'
  BY <1>2 DEF OneCall
<1>5. AtKey'
  BY <1>1, <1>2, <1>3 DEF TurnsInv, AtKey, TearingDown, MidCall, ConnectSteps, CloseSteps
<1>6. Registers'
  BY <1>2, <1>3 DEF Registers, MidCall, ConnectSteps, CloseSteps
<1>7. CountHeld'
  <2> DEFINE to == "idle"
  <2>1. /\ pc[c] # "dead" /\ to # "dead" /\ to \notin Counted /\ pc[c] \notin Counted
        /\ pc' = [pc EXCEPT ![c] = to]
    BY <1>1 DEF Counted
  <2> HIDE DEF to
  <2> QED
    BY <1>1, <1>2, <2>1, SameCount DEF TurnsInv
<1>8. NobodyCounted'
  BY <1>1, <1>2, <1>3 DEF TurnsInv, NobodyCounted, MidCall, ConnectSteps, CloseSteps,
     Launching, Emptying
<1> QED
  BY <1>4, <1>5, <1>6, <1>7, <1>8 DEF TurnsInv

\* A process that dies is no longer among the counted, though n_clients still counts
\* it.
LEMMA DieTurn ==
  ASSUME TypeOK, TurnsInv, NEW c \in Clients, Die(c)
  PROVE  TurnsInv'
<1>1. /\ pc' = [pc EXCEPT ![c] = "dead"] /\ segOf' = [segOf EXCEPT ![c] = 0]
      /\ reg' = [reg EXCEPT ![c] = 0]
      /\ UNCHANGED <<n_clients, des_process_created, key>>
  BY DEF Die, shmem, names
<1>2. /\ pc'[c] = "dead"
      /\ \A d \in Clients : d # c => pc'[d] = pc[d] /\ segOf'[d] = segOf[d] /\ reg'[d] = reg[d]
  BY <1>1 DEF TypeOK
<1>3. OneCall'
  BY <1>2 DEF TurnsInv, OneCall, MidCall, ConnectSteps, CloseSteps
<1>4. AtKey'
  BY <1>1, <1>2 DEF TurnsInv, AtKey, TearingDown, MidCall, ConnectSteps, CloseSteps
<1>5. Registers'
  BY <1>1, <1>2 DEF TurnsInv, Registers
<1>6. CountHeld'
  <2>1. ~NobodyDied'
    BY <1>2 DEF NobodyDied
  <2>2. ASSUME NEW s \in Serials
        PROVE  IsFiniteSet(CountedAt(s))' /\ n_clients'[s] >= Cardinality(CountedAt(s))'
    <3>1. CountedAt(s)' = CountedAt(s) \ {c}
      BY <1>2 DEF CountedAt, Counted
    <3>2. IsFiniteSet(CountedAt(s)) /\ n_clients[s] >= Cardinality(CountedAt(s))
      BY DEF TurnsInv, CountHeld
    <3>3. IsFiniteSet(CountedAt(s) \ {c}) /\ Cardinality(CountedAt(s) \ {c}) \in Nat
      BY <3>2, FS_RemoveElement, FS_CardinalityType
    <3>4. Cardinality(CountedAt(s) \ {c}) <= Cardinality(CountedAt(s))
      BY <3>2, FS_Subset
    <3>5. n_clients[s] \in Int /\ Cardinality(CountedAt(s)) \in Nat
      BY <3>2, FS_CardinalityType DEF TypeOK
    <3>6. n_clients[s] >= Cardinality(CountedAt(s) \ {c})
      BY <3>2, <3>3, <3>4, <3>5
    <3> QED
      BY <1>1, <3>1, <3>3, <3>6
  <2> QED
    BY <2>1, <2>2 DEF CountHeld
<1>7. NobodyCounted'
  BY <1>1, <1>2 DEF TurnsInv, NobodyCounted, Connected, Launching, Emptying
<1> QED
  BY <1>3, <1>4, <1>5, <1>6, <1>7 DEF TurnsInv

\* The steps of DES, and stuttering, change nothing TurnsInv speaks of.
LEMMA SameTurn ==
  ASSUME TurnsInv, UNCHANGED <<pc, segOf, reg, key, n_clients, des_process_created>>
  PROVE  TurnsInv'
<1>1. \A s : CountedAt(s)' = CountedAt(s)
  BY DEF CountedAt
<1> QED
  BY <1>1 DEF TurnsInv, OneCall, AtKey, Registers, CountHeld, NobodyCounted, MidCall,
     TearingDown, NobodyDied, Connected

\* TurnsInv is inductive relative to the types and NamesInv.
LEMMA TurnsStep ==
  ASSUME TakingTurns, TypeOK, NamesInv, TurnsInv, [Next]_vars
  PROVE  TurnsInv'
<1> USE DEF NamesInv
<1>1. CASE UNCHANGED vars
  BY <1>1, SameTurn DEF vars, mine, shmem, names
<1>2. ASSUME NEW c \in Clients, ConnectStep(c) PROVE TurnsInv'
  BY <1>2, MoveSteps, StoreSteps DEF ConnectStep
<1>3. ASSUME NEW c \in Clients, CloseStep(c) PROVE TurnsInv'
  BY <1>3, MoveSteps, StoreSteps, RemoveTurn, LeaveTurn DEF CloseStep
<1>4. ASSUME NEW c \in Clients, Application(c) PROVE TurnsInv'
  BY <1>4, AttachTurn, MoveSteps, DieTurn DEF Application, Crash, CloseDetached
<1>5. ASSUME NEW g \in Serials, DesStep(g) PROVE TurnsInv'
  BY <1>5, SameTurn DEF DesStep, DesReady, DesFails, DesQuits, DesEof, DesBecomes, mine,
     shmem, names
<1> QED
  BY <1>1, <1>2, <1>3, <1>4, <1>5 DEF Next, CallStep

\* Nobody is in a call or counted before the first connect().
LEMMA TurnsInit == Init => TurnsInv
<1> SUFFICES ASSUME Init PROVE TurnsInv
  OBVIOUS
<1>1. /\ \A c \in Clients : pc[c] = "idle" /\ ~MidCall(c)
      /\ \A s \in Serials : n_clients[s] = 0
  BY DEF Init, MidCall, ConnectSteps, CloseSteps
<1>2. OneCall /\ AtKey /\ Registers /\ NobodyCounted
  BY <1>1 DEF OneCall, AtKey, Registers, NobodyCounted, Launching, Emptying
<1>3. CountHeld
  <2>1. \A s \in Serials : CountedAt(s) = {}
    BY <1>1 DEF CountedAt, Counted
  <2> QED
    BY <1>1, <2>1, FS_EmptySet DEF CountHeld
<1> QED
  BY <1>2, <1>3 DEF TurnsInv

\* Where clients take turns, on any kernel, whatever launches fail and processes die:
\* one call at a time, at the segment the key leads to, with n_clients the number of
\* the counted and none counted while DES is launched or told to quit.
THEOREM TurnsInvariance == TakingTurns /\ Spec => [](TypeOK /\ NamesInv /\ TurnsInv)
<1> SUFFICES ASSUME TakingTurns PROVE Spec => [](TypeOK /\ NamesInv /\ TurnsInv)
  OBVIOUS
<1>1. Init => TypeOK /\ NamesInv /\ TurnsInv
  BY InitHolds, TurnsInit
<1>2. TypeOK /\ NamesInv /\ TurnsInv /\ [Next]_vars => (TypeOK /\ NamesInv /\ TurnsInv)'
  <2> SUFFICES ASSUME TypeOK, NamesInv, TurnsInv, [Next]_vars
               PROVE  (TypeOK /\ NamesInv /\ TurnsInv)'
    OBVIOUS
  <2>1. \A c \in Clients : RemovesKey(c)
    BY DEF RemovesKey, TurnsInv, AtKey, TearingDown, MidCall, CloseSteps
  <2>2. TypeOK'
    BY TypeStep DEF NamesInv
  <2> QED
    BY <2>1, <2>2, NamesStep, TurnsStep
<1> QED
  BY <1>1, <1>2, PTL DEF Spec

\* What the names promise on a kernel that removes a segment once they promise on
\* any here: only who is at the key removes it.  One DES process at a time.
THEOREM TurnsLaunchOnce == TakingTurns /\ Spec => []OneLiveDes
  BY NamesGiveOneLive, TurnsInvariance, PTL

\* A connected client holds the FIFO pair at the names, on any kernel.
THEOREM TurnsHoldCurrent == TakingTurns /\ Spec => []CurrentPipes
  BY NamesGiveCurrent, TurnsInvariance, PTL

\* close() unlinks only FIFOs of a DES process that quits or is gone, on any kernel.
THEOREM TurnsUnlinkDoomed == TakingTurns /\ Spec => LiveFifosKept
<1>1. TypeOK /\ NamesInv /\ [Next]_vars => [Kept]_vars
  BY NamesGiveKept
<1>2. []TypeOK /\ []NamesInv /\ [][Next]_vars => [][Kept]_vars
  BY <1>1, PTL
<1> QED
  BY <1>2, TurnsInvariance, PTL DEF Spec, LiveFifosKept, Kept

\* A death leaves n_clients too high, never too low: the count keeps DES alive for
\* every client that is connected.
THEOREM CountCoversConnected == TakingTurns /\ Spec => []CountNeverShort
<1>1. TypeOK /\ TurnsInv => CountNeverShort
  <2> SUFFICES ASSUME TypeOK, TurnsInv, NobodyMidCall, NEW s \in Serials
               PROVE  n_clients[s] >= Cardinality({c \in Connected : segOf[c] = s})
    BY DEF CountNeverShort
  <2>1. {c \in Connected : segOf[c] = s} = CountedAt(s)
    BY DEF NobodyMidCall, MidCall, ConnectSteps, CloseSteps, Connected, CountedAt, Counted
  <2> QED
    BY <2>1 DEF TurnsInv, CountHeld
<1> QED
  BY <1>1, TurnsInvariance, PTL

\* Between calls n_clients is the number of connected clients, if none died.
THEOREM CountIsConnected == TakingTurns /\ Spec => []CountExact
<1>1. TypeOK /\ TurnsInv => CountExact
  <2> SUFFICES ASSUME TypeOK, TurnsInv, NobodyMidCall, NobodyDied, key # 0
               PROVE  n_clients[key] = Cardinality(Connected)
    BY DEF CountExact
  <2>1. key \in Serials
    BY SessionAssumption DEF TypeOK, Serials
  <2>2. Connected = CountedAt(key)
    BY DEF NobodyMidCall, MidCall, ConnectSteps, CloseSteps, Connected, CountedAt, Counted,
       TurnsInv, AtKey, TearingDown
  <2> QED
    BY <2>1, <2>2 DEF TurnsInv, CountHeld
<1> QED
  BY <1>1, TurnsInvariance, PTL

\* The last close() never takes DES away from a connected client.
THEOREM QuitsAlone == TakingTurns /\ Spec => QuitOnlyAlone
<1> DEFINE Alone ==
      \A g \in Serials :
        des[g] # "quitting" /\ des'[g] = "quitting" => \A c \in Connected : inPipe[c] # g
<1>1. ASSUME TypeOK, NamesInv, TurnsInv, [Next]_vars PROVE [Alone]_vars
  <2> SUFFICES ASSUME Next PROVE Alone
    BY <1>1
  <2>1. ASSUME NEW c \in Clients, SendQuit(c) PROVE Connected = {}
    <3>1. pc[c] = "csendq"
      BY <2>1 DEF SendQuit, Goto
    <3>2. segOf[c] = key /\ n_clients[key] = 0
      BY <1>1, <3>1 DEF TurnsInv, AtKey, NobodyCounted, TearingDown, MidCall, CloseSteps,
         Emptying
    <3>3. key \in Serials
      BY <1>1, <3>1, <3>2, HeldSegment DEF NamesInv, KnowsCreated, HasIn, HasOut
    <3> QED
      BY <1>1, <3>2, <3>3, ZeroNobodyConnected DEF TurnsInv
  <2>2. ASSUME NEW c \in Clients, ConnectStep(c) PROVE Alone
    <3>1. CASE Fork(c)
      BY <1>1, <3>1 DEF Fork, TypeOK
    <3> QED
      BY <2>2, <3>1 DEF ConnectStep, ReadCreated, SemInit, TakeConnect, TimeoutConnect,
         RejectExec, ChooseRole, MakeInFifo, MakeOutFifo, SetCreated, EarlyRelease, OpenIn,
         OpenOut, OpenTimeout, ReadBanner, CountOne, SetExec, LoadCount, StoreCount, Unlock
  <2>3. ASSUME NEW c \in Clients, CloseStep(c) PROVE Alone
    <3>1. CASE SendQuit(c)
      BY <2>1, <3>1
    <3> QED
      BY <2>3, <3>1 DEF CloseStep, TakeClose, TimeoutClose, LoadCountClose,
         StoreCountClose, TestCount, ReleaseQuit, Detach, RemoveSegment, UnlinkIn,
         UnlinkOut, ReleaseLeave, Leave
  <2>4. ASSUME NEW c \in Clients, Application(c) PROVE Alone
    BY <2>4 DEF Application, Attach, StartClose, Crash, CloseDetached, Die
  <2>5. ASSUME NEW g \in Serials, DesStep(g) PROVE Alone
    BY <1>1, <2>5 DEF DesStep, DesReady, DesFails, DesQuits, DesEof, DesBecomes, TypeOK
  <2> QED
    BY <2>2, <2>3, <2>4, <2>5 DEF Next, CallStep
<1> HIDE DEF Alone
<1>2. TypeOK /\ NamesInv /\ TurnsInv /\ [Next]_vars => [Alone]_vars
  BY <1>1
<1>3. TakingTurns /\ Spec => [][Alone]_vars
  BY <1>2, TurnsInvariance, PTL DEF Spec
<1> QED
  BY <1>3 DEF Alone, QuitOnlyAlone

\* No close() stops halfway, the segment detached and connected still set.
LEMMA DetachedStep ==
  ASSUME TakingTurns, TypeOK, NamesInv, TurnsInv, NeverDetached, [Next]_vars
  PROVE  NeverDetached'
<1> USE DEF NeverDetached, TypeOK, Goto
<1>1. CASE UNCHANGED vars
  BY <1>1 DEF vars
<1>2. ASSUME NEW c \in Clients, ConnectStep(c) PROVE NeverDetached'
  BY <1>2 DEF ConnectStep, ReadCreated, SemInit, TakeConnect, TimeoutConnect, RejectExec,
     ChooseRole, MakeInFifo, MakeOutFifo, Fork, SetCreated, EarlyRelease, OpenIn, OpenOut,
     OpenTimeout, ReadBanner, CountOne, SetExec, LoadCount, StoreCount, Unlock
<1>3. ASSUME NEW c \in Clients, CloseStep(c) PROVE NeverDetached'
  <2>1. CASE RemoveSegment(c)
    BY <2>1, RemovesOwnKey DEF NamesInv
  <2> QED
    BY <1>3, <2>1 DEF CloseStep, TakeClose, TimeoutClose, LoadCountClose,
       StoreCountClose, TestCount, ReleaseQuit, SendQuit, Detach, UnlinkIn, UnlinkOut,
       ReleaseLeave, Leave
<1>4. ASSUME NEW c \in Clients, Application(c) PROVE NeverDetached'
  BY <1>4 DEF Application, Attach, StartClose, Crash, CloseDetached, Die
<1>5. ASSUME NEW g \in Serials, DesStep(g) PROVE NeverDetached'
  BY <1>5 DEF DesStep, DesReady, DesFails, DesQuits, DesEof, DesBecomes
<1> QED
  BY <1>1, <1>2, <1>3, <1>4, <1>5 DEF Next, CallStep

\* close() always removes the segment it detached, on any kernel: it never returns an
\* error with connected still set and the memory gone.
THEOREM ClosesWhole == TakingTurns /\ Spec => []NeverDetached
<1> SUFFICES ASSUME TakingTurns PROVE Spec => []NeverDetached
  OBVIOUS
<1>1. Init => NeverDetached
  BY DEF Init, NeverDetached
<1>2. TypeOK /\ NamesInv /\ TurnsInv /\ NeverDetached /\ [Next]_vars => NeverDetached'
  BY DetachedStep
<1> QED
  BY <1>1, <1>2, TurnsInvariance, PTL DEF Spec

-----------------------------------------------------------------------------
(* Launches that succeed.                                                  *)

\* fork() succeeds, the child becomes DES and opens its FIFOs in time.
LaunchesSucceed == ~LaunchMayFail

\* Who is not connected, connecting or closing has no descriptors.
PipesClosed ==
  \A c \in Clients :
    /\ pc[c] \notin HasIn \cup {"cunlinkin"} => inPipe[c] = 0
    /\ pc[c] \notin HasOut \cup {"cunlinkin"} => outPipe[c] = 0

\* The child waits at the FIFOs of its launch until its parent opens them.
ChildWaits ==
  \A c \in Clients : pc[c] \in {"forked", "launched", "opening"} =>
    att[c] # 0 /\ inFifo = att[c] /\ outFifo = att[c] /\ des[att[c]] = "starting"

\* A creator after fork(); and one that has not counted itself, or a client that
\* no longer does.
AfterFork == {"launched", "opening", "openout", "banner", "countone", "setexec"}
Uncounted == {"launched", "opening", "openout", "banner", "countone", "ctest"}
               \cup Emptying
Joined == {"joining", "joinout", "load", "store", "unlock", "connected", "cwait",
           "cload", "cstore"}

\* exec_hash_int is set before the launch is over, and is that of every client that
\* has passed the test of it.
ExecKnown ==
  /\ \A s \in Serials : ~des_process_created[s] => exec_hash_int[s] = NoExec
  /\ NobodyDied =>
       /\ \A c \in Clients : pc[c] \in Joined => Exec[c] = exec_hash_int[segOf[c]]
       /\ key # 0 /\ des_process_created[key] =>
            \/ \E c \in Clients : pc[c] \in AfterFork
            \/ exec_hash_int[key] # NoExec

\* What a creator finds before fork(): no names but the ones it has made, and the
\* mutex free.
FreshStart ==
  \A c \in Clients : pc[c] \in BeforeFork /\ ~des_process_created[segOf[c]] =>
    /\ inFifo = IF pc[c] \in {"mkout", "fork"} THEN att[c] ELSE 0
    /\ outFifo = IF pc[c] = "fork" THEN att[c] ELSE 0
    /\ pc[c] = "wait" => sem[segOf[c]] > 0

\* A name that exists without a segment is about to be unlinked; a segment has a
\* client connected through it, or one that is about to be or was the last.
KeyUsed ==
  /\ key = 0 => /\ inFifo # 0 => \E c \in Clients : pc[c] = "cunlinkin"
                /\ outFifo # 0 => \E c \in Clients : TearingDown(c)
  /\ key # 0 /\ ~des_process_created[key] =>
       \E c \in Clients : pc[c] \in BeforeFork \cup {"forked"}
  /\ key # 0 /\ des_process_created[key] =>
       n_clients[key] # 0 \/ \E c \in Clients : pc[c] \in Uncounted

TidyInv ==
  /\ PipesClosed /\ ChildWaits /\ ExecKnown
  /\ NobodyDied => FreshStart /\ KeyUsed

\* What is known of the only client in a call.
LEMMA InCall ==
  ASSUME TypeOK, NamesInv, TurnsInv, NEW c \in Clients, MidCall(c), ~TearingDown(c)
  PROVE  /\ segOf[c] = key /\ key \in Serials
         /\ \A d \in Clients \ {c} : ~MidCall(d)
         /\ pc[c] \in KnowsCreated => des_process_created[key] /\ Up
<1>1. segOf[c] = key /\ \A d \in Clients \ {c} : ~MidCall(d)
  BY DEF TurnsInv, AtKey, OneCall
<1>2. pc[c] \in BeforeFork \cup {"forked"} \cup KnowsCreated
  BY DEF MidCall, TearingDown, ConnectSteps, CloseSteps, BeforeFork, KnowsCreated, HasIn,
     HasOut
<1>3. key \in Serials
  BY <1>1, <1>2, HeldSegment DEF NamesInv
<1>4. pc[c] \in KnowsCreated => des_process_created[key] /\ Up
  BY <1>1, KeyClients DEF NamesInv, SegmentsHeld, KeyNamesUp
<1> QED
  BY <1>1, <1>3, <1>4

\* Creators do not fail: no open() times out but that of a joiner whose DES is gone,
\* and nobody else reads the banner.
LEMMA CreatorSucceeds ==
  ASSUME LaunchesSucceed, TypeOK, NamesInv, TurnsInv, TidyInv, NEW c \in Clients
  PROVE  /\ OpenTimeout(c) => Goto(c, "joining", "idle")
         /\ ReadBanner(c) =>
              /\ Goto(c, "banner", "countone")
              /\ des_process_created' = [des_process_created EXCEPT ![segOf[c]] = TRUE]
         /\ Fork(c) =>
              /\ Goto(c, "fork", "forked")
              /\ des' = [des EXCEPT ![att[c]] = "starting"]
<1> USE DEF Goto
<1>1. ASSUME pc[c] \in {"opening", "openout", "joinout", "banner"}
      PROVE  inFifo # 0 /\ outFifo # 0
  BY <1>1, InCall DEF MidCall, TearingDown, ConnectSteps, KnowsCreated, HasIn, HasOut, Up
<1>2. ASSUME OpenTimeout(c) PROVE Goto(c, "joining", "idle")
  <2>1. pc[c] \in {"joining", "opening"}
    BY <1>1, <1>2 DEF OpenTimeout
  <2>2. pc[c] # "opening"
    BY <1>1, <1>2, <2>1 DEF OpenTimeout, NoReaderYet, HasReader, LaunchesSucceed, TidyInv, ChildWaits
  <2> QED
    BY <1>2, <2>1, <2>2 DEF OpenTimeout
<1>3. ASSUME ReadBanner(c) PROVE \A d \in Clients \ {c} : outPipe[d] # outPipe[c]
  <2>1. pc[c] = "banner"
    BY <1>3 DEF ReadBanner
  <2>2. /\ segOf[c] = key /\ key \in Serials /\ \A d \in Clients \ {c} : ~MidCall(d)
        /\ Up
    BY <2>1, InCall DEF MidCall, TearingDown, ConnectSteps, KnowsCreated, HasIn, HasOut
  <2>3. outPipe[c] # 0
    BY <2>1, <2>2, KeyClients DEF NamesInv, KeyNamesUp, Up, HasIn, HasOut
  <2>4. Connected = {}
    <3>1. n_clients[key] = 0
      BY <2>1, <2>2 DEF TurnsInv, NobodyCounted, Launching
    <3> QED
      BY <2>2, <3>1, ZeroNobodyConnected DEF TurnsInv
  <2>5. \A d \in Clients \ {c} : pc[d] \notin HasOut \cup {"cunlinkin"}
    BY <2>2, <2>4 DEF MidCall, Connected, ConnectSteps, CloseSteps, HasOut
  <2> QED
    BY <2>3, <2>5 DEF TidyInv, PipesClosed
<1>4. ReadBanner(c) =>
        /\ Goto(c, "banner", "countone")
        /\ des_process_created' = [des_process_created EXCEPT ![segOf[c]] = TRUE]
  BY <1>3 DEF ReadBanner
<1>5. Fork(c) =>
        /\ Goto(c, "fork", "forked")
        /\ des' = [des EXCEPT ![att[c]] = "starting"]
  BY DEF Fork, LaunchesSucceed
<1> QED
  BY <1>2, <1>4, <1>5

\* Descriptors are closed before a call or a process ends.
LEMMA PipesStep ==
  ASSUME LaunchesSucceed, TypeOK, NamesInv, TurnsInv, TidyInv, [Next]_vars
  PROVE  PipesClosed'
<1> USE DEF Goto, TypeOK, PipesClosed, HasIn, HasOut, mine
<1>0. PipesClosed
  BY DEF TidyInv
<1>1. CASE UNCHANGED vars
  BY <1>0, <1>1 DEF vars
<1>2. ASSUME NEW c \in Clients, ConnectStep(c) PROVE PipesClosed'
  <2>1. CASE OpenTimeout(c) \/ ReadBanner(c) \/ Fork(c)
    <3>1. UNCHANGED <<inPipe, outPipe>>
      BY <2>1 DEF OpenTimeout, ReadBanner, Fork
    <3> QED
      BY <1>0, <2>1, <3>1, CreatorSucceeds
  <2>2. CASE OpenIn(c) \/ OpenOut(c)
    BY <1>0, <2>2 DEF OpenIn, OpenOut
  <2>3. CASE ReadCreated(c) \/ SemInit(c) \/ TakeConnect(c) \/ TimeoutConnect(c)
               \/ RejectExec(c) \/ ChooseRole(c) \/ MakeInFifo(c) \/ MakeOutFifo(c)
    BY <1>0, <2>3 DEF ReadCreated, SemInit, TakeConnect, TimeoutConnect, RejectExec,
       ChooseRole, MakeInFifo, MakeOutFifo
  <2>4. CASE SetCreated(c) \/ EarlyRelease(c) \/ CountOne(c) \/ SetExec(c)
               \/ LoadCount(c) \/ StoreCount(c) \/ Unlock(c)
    BY <1>0, <2>4 DEF SetCreated, EarlyRelease, CountOne, SetExec, LoadCount, StoreCount,
       Unlock
  <2> QED
    BY <1>2, <2>1, <2>2, <2>3, <2>4 DEF ConnectStep
<1>3. ASSUME NEW c \in Clients, CloseStep(c) PROVE PipesClosed'
  <2>1. CASE RemoveSegment(c)
    <3>1. UNCHANGED <<inPipe, outPipe>>
      BY <2>1 DEF RemoveSegment
    <3> QED
      BY <1>0, <2>1, <3>1, RemovesOwnKey DEF NamesInv
  <2>2. CASE UnlinkIn(c) \/ UnlinkOut(c) \/ Leave(c)
    BY <1>0, <2>2 DEF UnlinkIn, UnlinkOut, Leave
  <2>3. CASE TakeClose(c) \/ TimeoutClose(c) \/ LoadCountClose(c)
               \/ StoreCountClose(c) \/ TestCount(c)
    BY <1>0, <2>3 DEF TakeClose, TimeoutClose, LoadCountClose, StoreCountClose, TestCount
  <2>4. CASE ReleaseQuit(c) \/ SendQuit(c) \/ Detach(c) \/ ReleaseLeave(c)
    BY <1>0, <2>4 DEF ReleaseQuit, SendQuit, Detach, ReleaseLeave
  <2> QED
    BY <1>3, <2>1, <2>2, <2>3, <2>4 DEF CloseStep
<1>4. ASSUME NEW c \in Clients, Application(c) PROVE PipesClosed'
  BY <1>0, <1>4 DEF Application, Attach, StartClose, Crash, CloseDetached, Die
<1>5. ASSUME NEW g \in Serials, DesStep(g) PROVE PipesClosed'
  BY <1>0, <1>5 DEF DesStep, DesReady, DesFails, DesQuits, DesEof, DesBecomes
<1> QED
  BY <1>1, <1>2, <1>3, <1>4, <1>5 DEF Next, CallStep

\* Nobody unlinks the names a creator's child waits at, nor opens them before it.
LEMMA ChildStep ==
  ASSUME TakingTurns, LaunchesSucceed, TypeOK, NamesInv, TurnsInv, TidyInv, [Next]_vars
  PROVE  ChildWaits'
<1> USE DEF Goto, ChildWaits, mine, names
<1>0. ChildWaits
  BY DEF TidyInv
<1>1. CASE UNCHANGED vars
  BY <1>0, <1>1 DEF vars
<1>2. ASSUME NEW c \in Clients, CallStep(c) PROVE ChildWaits'
  <2>1. \A d \in Clients \ {c} : pc'[d] \notin {"forked", "launched", "opening"}
    <3>1. \A d \in Clients \ {c} : ~MidCall(d)
      BY <1>2, OthersRest DEF TurnsInv
    <3>2. \A d \in Clients \ {c} : pc'[d] = pc[d]
      <4>1. \E to : pc' = [pc EXCEPT ![c] = to]
        <5>1. ConnectStep(c) => \E to : pc' = [pc EXCEPT ![c] = to]
          BY DEF ConnectStep, ReadCreated, SemInit, TakeConnect, TimeoutConnect, RejectExec,
             ChooseRole, MakeInFifo, MakeOutFifo, Fork, SetCreated, EarlyRelease, OpenIn,
             OpenOut, OpenTimeout, ReadBanner, CountOne, SetExec, LoadCount, StoreCount,
             Unlock
        <5>2. CloseStep(c) => \E to : pc' = [pc EXCEPT ![c] = to]
          BY DEF CloseStep, TakeClose, TimeoutClose, LoadCountClose, StoreCountClose,
             TestCount, ReleaseQuit, SendQuit, Detach, RemoveSegment, UnlinkIn, UnlinkOut,
             ReleaseLeave, Leave
        <5> QED
          BY <1>2, <5>1, <5>2 DEF CallStep
      <4> QED
        BY <4>1 DEF TypeOK
    <3> QED
      BY <3>1, <3>2 DEF MidCall, ConnectSteps
  <2>2. CASE Fork(c)
    <3>1. /\ pc[c] = "fork" /\ pc' = [pc EXCEPT ![c] = "forked"]
          /\ des' = [des EXCEPT ![att[c]] = "starting"]
          /\ UNCHANGED <<att, names>>
      BY <2>2, CreatorSucceeds DEF Fork
    <3>2. att[c] # 0 /\ inFifo = att[c] /\ outFifo = att[c] /\ att[c] \in Serials
      BY <3>1 DEF NamesInv, LaunchOwnsNames, BeforeFork, TypeOK, Serials
    <3>3. des'[att[c]] = "starting"
      BY <3>1, <3>2 DEF TypeOK
    <3> QED
      BY <2>1, <3>1, <3>2, <3>3
  <2>3. CASE SetCreated(c) \/ EarlyRelease(c)
    BY <1>0, <2>1, <2>3 DEF SetCreated, EarlyRelease, TypeOK
  <2>4. ASSUME ~Fork(c), ~SetCreated(c), ~EarlyRelease(c)
        PROVE  pc'[c] \notin {"forked", "launched", "opening"}
    <3>1. ~ConnectStep(c) \/ pc'[c] \notin {"forked", "launched", "opening"}
      BY <2>4 DEF ConnectStep, ReadCreated, SemInit, TakeConnect, TimeoutConnect,
         RejectExec, ChooseRole, MakeInFifo, MakeOutFifo, OpenIn, OpenOut, OpenTimeout,
         ReadBanner, CountOne, SetExec, LoadCount, StoreCount, Unlock, TypeOK
    <3>2. ~CloseStep(c) \/ pc'[c] \notin {"forked", "launched", "opening"}
      BY DEF CloseStep, TakeClose, TimeoutClose, LoadCountClose, StoreCountClose,
         TestCount, ReleaseQuit, SendQuit, Detach, RemoveSegment, UnlinkIn, UnlinkOut,
         ReleaseLeave, Leave, TypeOK
    <3> QED
      BY <1>2, <3>1, <3>2 DEF CallStep
  <2> QED
    BY <2>1, <2>2, <2>3, <2>4
<1>3. ASSUME NEW c \in Clients, Attach(c) \/ StartClose(c) PROVE ChildWaits'
  <2>1. \A d \in Clients \ {c} : ~MidCall(d)
    BY <1>3, OthersRest DEF TurnsInv
  <2>2. \A d \in Clients : pc'[d] \notin {"forked", "launched", "opening"}
    BY <1>3, <2>1 DEF Attach, StartClose, TypeOK, MidCall, ConnectSteps
  <2> QED
    BY <2>2
<1>4. ASSUME NEW c \in Clients, Die(c) PROVE ChildWaits'
  BY <1>0, <1>4 DEF Die, TypeOK
<1>5. ASSUME NEW g \in Serials, DesStep(g) PROVE ChildWaits'
  <2>1. UNCHANGED <<pc, att, names>>
    BY <1>5 DEF DesStep, DesReady, DesFails, DesQuits, DesEof, DesBecomes
  <2>2. ASSUME NEW c \in Clients, pc[c] \in {"forked", "launched", "opening"}
        PROVE  des'[att[c]] = "starting"
    <3>1. des[att[c]] = "starting" /\ att[c] # 0
      BY <1>0, <2>2
    <3>2. \A d \in Clients : inPipe[d] # att[c]
      <4>1. /\ segOf[c] = key /\ key \in Serials
            /\ \A d \in Clients \ {c} : ~MidCall(d)
        BY <2>2, InCall DEF MidCall, TearingDown, ConnectSteps
      <4>2. Connected = {}
        <5>1. n_clients[key] = 0
          BY <2>2, <4>1 DEF TurnsInv, NobodyCounted, Launching
        <5> QED
          BY <4>1, <5>1, ZeroNobodyConnected DEF TurnsInv
      <4>3. \A d \in Clients : pc[d] \notin HasIn \cup {"cunlinkin"}
        BY <2>2, <4>1, <4>2 DEF MidCall, Connected, ConnectSteps, CloseSteps, HasIn, HasOut
      <4> QED
        BY <3>1, <4>3 DEF TidyInv, PipesClosed
    <3>3. g # att[c] => des'[att[c]] = des[att[c]]
      <4>1. att[c] \in Serials
        BY <3>1, SessionAssumption DEF TypeOK, Serials
      <4> QED
        BY <1>5, <4>1 DEF DesStep, DesReady, DesFails, DesQuits, DesEof, DesBecomes, TypeOK
    <3>4. DesReady(g) \/ DesQuits(g) \/ DesEof(g)
      BY <1>5 DEF DesStep, DesFails, LaunchesSucceed
    <3>5. g # att[c]
      BY <3>1, <3>2, <3>4 DEF DesReady, DesQuits, DesEof, DesBecomes
    <3> QED
      BY <3>1, <3>3, <3>5
  <2> QED
    BY <1>0, <2>1, <2>2
<1> QED
  BY <1>1, <1>2, <1>3, <1>4, <1>5 DEF Next, Application, Crash, CloseDetached

\* A step of c that leaves exec_hash_int and the key alone.
LEMMA ExecMove ==
  ASSUME TypeOK, ExecKnown, NEW c \in Clients, NEW to, pc[c] # "dead",
         pc' = [pc EXCEPT ![c] = to], UNCHANGED <<segOf, key, exec_hash_int>>,
         \A s \in Serials : des_process_created[s] => des_process_created'[s],
         key # 0 /\ des_process_created'[key] => des_process_created[key] \/ to \in AfterFork,
         to \in Joined => pc[c] \in Joined
                            \/ (NobodyDied => Exec[c] = exec_hash_int[segOf[c]]),
         pc[c] \in AfterFork => to \in AfterFork
  PROVE  ExecKnown'
<1>1. NobodyDied' => NobodyDied
  BY DEF TypeOK, NobodyDied
<1>2. \A s \in Serials : ~des_process_created'[s] => exec_hash_int'[s] = NoExec
  BY DEF ExecKnown
<1>3. ASSUME NobodyDied, NEW d \in Clients, pc'[d] \in Joined
      PROVE  Exec[d] = exec_hash_int'[segOf'[d]]
  BY <1>3 DEF ExecKnown, TypeOK
<1>4. ASSUME NobodyDied, key # 0, des_process_created'[key]
      PROVE  (\E d \in Clients : pc'[d] \in AfterFork) \/ exec_hash_int[key] # NoExec
  <2>1. CASE to \in AfterFork
    BY <2>1 DEF TypeOK
  <2>2. CASE to \notin AfterFork
    <3>1. PICK d \in Clients : pc[d] \in AfterFork \/ exec_hash_int[key] # NoExec
      BY <1>4, <2>2 DEF ExecKnown
    <3> QED
      BY <2>2, <3>1 DEF TypeOK
  <2> QED
    BY <2>1, <2>2
<1> QED
  BY <1>1, <1>2, <1>3, <1>4 DEF ExecKnown

\* The steps that leave exec_hash_int, the key and the client's segment alone: who
\* joins has passed the test, and a creator does not give up after fork().
LEMMA ExecMoves ==
  ASSUME TakingTurns, LaunchesSucceed, TypeOK, NamesInv, TurnsInv, TidyInv,
         NEW c \in Clients,
         \/ ReadCreated(c) \/ SemInit(c) \/ TakeConnect(c) \/ TimeoutConnect(c)
         \/ RejectExec(c) \/ ChooseRole(c) \/ MakeInFifo(c) \/ MakeOutFifo(c) \/ Fork(c)
         \/ SetCreated(c) \/ EarlyRelease(c) \/ OpenIn(c) \/ OpenOut(c)
         \/ OpenTimeout(c) \/ ReadBanner(c) \/ CountOne(c) \/ LoadCount(c)
         \/ StoreCount(c) \/ Unlock(c) \/ StartClose(c) \/ TakeClose(c)
         \/ TimeoutClose(c) \/ LoadCountClose(c) \/ StoreCountClose(c) \/ TestCount(c)
         \/ ReleaseQuit(c) \/ SendQuit(c) \/ Detach(c) \/ UnlinkIn(c) \/ UnlinkOut(c)
         \/ ReleaseLeave(c)
  PROVE  ExecKnown'
<1>0. ExecKnown
  BY DEF TidyInv
<1> USE <1>0, ExecMove DEF mine, shmem, names, Goto, OnlySemChanges, AfterFork, Joined
<1>1. CASE ReadCreated(c) \/ SemInit(c) \/ TakeConnect(c) \/ TimeoutConnect(c)
  <2>1. CASE ReadCreated(c)
    BY <2>1 DEF ReadCreated
  <2>2. CASE SemInit(c)
    BY <2>2 DEF SemInit
  <2>3. CASE TakeConnect(c)
    BY <2>3 DEF TakeConnect
  <2>4. CASE TimeoutConnect(c)
    BY <2>4 DEF TimeoutConnect
  <2> QED
    BY <1>1, <2>1, <2>2, <2>3, <2>4
<1>2. CASE RejectExec(c)
  BY <1>2 DEF RejectExec
<1>3. CASE ChooseRole(c)
  <2>1. pc[c] = "locked" /\ ~OtherExec(c)
    BY <1>3 DEF ChooseRole
  <2>2. segOf[c] = key /\ key \in Serials /\ \A d \in Clients \ {c} : ~MidCall(d)
    BY <2>1, InCall DEF MidCall, TearingDown, ConnectSteps
  <2>3. \A d \in Clients : pc[d] \notin AfterFork
    BY <2>1, <2>2 DEF MidCall, ConnectSteps
  <2>4. NobodyDied /\ Created(c) => Exec[c] = exec_hash_int[segOf[c]]
    BY <2>1, <2>2, <2>3 DEF OtherExec, Created, ExecKnown, Serials
  <2> QED
    BY <1>3, <2>4 DEF ChooseRole
<1>4. CASE MakeInFifo(c) \/ MakeOutFifo(c) \/ Fork(c)
  <2>1. CASE MakeInFifo(c)
    BY <2>1 DEF MakeInFifo
  <2>2. CASE MakeOutFifo(c)
    BY <2>2 DEF MakeOutFifo
  <2>3. CASE Fork(c)
    BY <2>3 DEF Fork
  <2> QED
    BY <1>4, <2>1, <2>2, <2>3
<1>5. CASE SetCreated(c) \/ ReadBanner(c)
  <2>1. \A s \in Serials : des_process_created[s] => des_process_created'[s]
    BY <1>5 DEF TypeOK, SetCreated, ReadBanner
  <2>2. CASE SetCreated(c)
    BY <2>1, <2>2 DEF SetCreated
  <2>3. CASE ReadBanner(c)
    <3>1. /\ pc[c] = "banner" /\ pc' = [pc EXCEPT ![c] = "countone"]
          /\ UNCHANGED <<segOf, key, exec_hash_int>>
      BY <2>3, CreatorSucceeds DEF ReadBanner
    <3> QED
      BY <2>1, <3>1
  <2> QED
    BY <1>5, <2>2, <2>3
<1>6. CASE EarlyRelease(c) \/ OpenIn(c) \/ OpenOut(c) \/ OpenTimeout(c)
  <2>1. CASE EarlyRelease(c)
    BY <2>1 DEF EarlyRelease
  <2>2. CASE OpenIn(c)
    BY <2>2 DEF OpenIn
  <2>3. CASE OpenOut(c)
    BY <2>3 DEF OpenOut
  <2>4. CASE OpenTimeout(c)
    <3>1. /\ pc[c] = "joining" /\ pc' = [pc EXCEPT ![c] = "idle"]
          /\ UNCHANGED <<segOf, key, exec_hash_int, des_process_created>>
      BY <2>4, CreatorSucceeds DEF OpenTimeout
    <3> QED
      BY <3>1
  <2> QED
    BY <1>6, <2>1, <2>2, <2>3, <2>4
<1>7. CASE CountOne(c) \/ LoadCount(c) \/ StoreCount(c) \/ Unlock(c)
  <2>1. CASE CountOne(c)
    BY <2>1 DEF CountOne
  <2>2. CASE LoadCount(c)
    BY <2>2 DEF LoadCount
  <2>3. CASE StoreCount(c)
    BY <2>3 DEF StoreCount
  <2>4. CASE Unlock(c)
    BY <2>4 DEF Unlock
  <2> QED
    BY <1>7, <2>1, <2>2, <2>3, <2>4
<1>8. CASE StartClose(c) \/ TakeClose(c) \/ TimeoutClose(c) \/ LoadCountClose(c)
  <2>1. CASE StartClose(c)
    BY <2>1 DEF StartClose
  <2>2. CASE TakeClose(c)
    BY <2>2 DEF TakeClose
  <2>3. CASE TimeoutClose(c)
    BY <2>3 DEF TimeoutClose
  <2>4. CASE LoadCountClose(c)
    BY <2>4 DEF LoadCountClose
  <2> QED
    BY <1>8, <2>1, <2>2, <2>3, <2>4
<1>9. CASE StoreCountClose(c) \/ TestCount(c) \/ ReleaseQuit(c) \/ SendQuit(c)
  <2>1. CASE StoreCountClose(c)
    BY <2>1 DEF StoreCountClose
  <2>2. CASE TestCount(c)
    BY <2>2 DEF TestCount
  <2>3. CASE ReleaseQuit(c)
    BY <2>3 DEF ReleaseQuit
  <2>4. CASE SendQuit(c)
    BY <2>4 DEF SendQuit
  <2> QED
    BY <1>9, <2>1, <2>2, <2>3, <2>4
<1>10. CASE Detach(c) \/ UnlinkIn(c) \/ UnlinkOut(c) \/ ReleaseLeave(c)
  <2>1. CASE Detach(c)
    BY <2>1 DEF Detach
  <2>2. CASE UnlinkIn(c)
    BY <2>2 DEF UnlinkIn
  <2>3. CASE UnlinkOut(c)
    BY <2>3 DEF UnlinkOut
  <2>4. CASE ReleaseLeave(c)
    BY <2>4 DEF ReleaseLeave
  <2> QED
    BY <1>10, <2>1, <2>2, <2>3, <2>4
<1> QED
  BY <1>1, <1>2, <1>3, <1>4, <1>5, <1>6, <1>7, <1>8, <1>9, <1>10

\* Nobody connects past an exec_hash_int that is not its own.
LEMMA ExecStep ==
  ASSUME TakingTurns, LaunchesSucceed, TypeOK, NamesInv, TurnsInv, TidyInv, [Next]_vars
  PROVE  ExecKnown'
<1>0. ExecKnown
  BY DEF TidyInv
<1> USE DEF Goto, mine, shmem, names
<1>1. CASE UNCHANGED vars
  BY <1>0, <1>1 DEF vars, ExecKnown, NobodyDied
<1>2. ASSUME NEW c \in Clients, SetExec(c) PROVE ExecKnown'
  <2>1. /\ pc[c] = "setexec" /\ pc' = [pc EXCEPT ![c] = "unlock"]
        /\ exec_hash_int' = [exec_hash_int EXCEPT ![segOf[c]] = Exec[c]]
        /\ UNCHANGED <<segOf, key, des_process_created>>
    BY <1>2 DEF SetExec
  <2>2. /\ segOf[c] = key /\ key \in Serials /\ des_process_created[key]
        /\ \A d \in Clients \ {c} : ~MidCall(d)
    BY <2>1, InCall DEF MidCall, TearingDown, ConnectSteps, KnowsCreated, HasIn, HasOut
  <2>3. Connected = {}
    BY <2>1 DEF TurnsInv, NobodyCounted
  <2>4. exec_hash_int'[key] = Exec[c] /\ Exec[c] # NoExec
    BY <2>1, <2>2, SessionAssumption DEF TypeOK
  <2>5. \A d \in Clients : pc'[d] \in Joined => d = c
    BY <2>1, <2>2, <2>3 DEF TypeOK, MidCall, Connected, Joined, ConnectSteps, CloseSteps
  <2>6. \A s \in Serials : ~des_process_created'[s] => exec_hash_int'[s] = NoExec
    BY <1>0, <2>1, <2>2 DEF ExecKnown, TypeOK
  <2> QED
    BY <2>1, <2>2, <2>4, <2>5, <2>6 DEF ExecKnown
<1>3. ASSUME NEW c \in Clients, Attach(c) PROVE ExecKnown'
  <2>1. /\ pc[c] = "idle" /\ pc' = [pc EXCEPT ![c] = "attached"]
        /\ segOf' = [segOf EXCEPT ![c] = key']
        /\ key' = IF key = 0 THEN attempts + 1 ELSE key
        /\ attempts < MaxConnects
        /\ UNCHANGED <<exec_hash_int, des_process_created>>
    BY <1>3 DEF Attach
  <2>2. key = 0 => ~des_process_created[key']
    BY <2>1, SessionAssumption DEF NamesInv, SerialsFresh, TypeOK, Serials
  <2>3. NobodyDied' => NobodyDied
    BY <2>1 DEF TypeOK, NobodyDied
  <2>4. ASSUME NobodyDied, NEW d \in Clients, pc'[d] \in Joined
        PROVE  Exec[d] = exec_hash_int'[segOf'[d]]
    BY <1>0, <2>1, <2>4 DEF ExecKnown, TypeOK, Joined
  <2>5. ASSUME NobodyDied, key' # 0, des_process_created'[key']
        PROVE  (\E d \in Clients : pc'[d] \in AfterFork) \/ exec_hash_int'[key'] # NoExec
    <3>1. key' = key
      BY <2>1, <2>2, <2>5
    <3> QED
      BY <1>0, <2>1, <2>5, <3>1 DEF ExecKnown, TypeOK, AfterFork
  <2>6. \A s \in Serials : ~des_process_created'[s] => exec_hash_int'[s] = NoExec
    BY <1>0, <2>1 DEF ExecKnown
  <2> QED
    BY <2>3, <2>4, <2>5, <2>6 DEF ExecKnown
<1>4. ASSUME NEW c \in Clients, RemoveSegment(c) \/ Leave(c) PROVE ExecKnown'
  <2>1. /\ \/ pc[c] = "crmid" /\ pc' = [pc EXCEPT ![c] = "cunlinkin"] /\ key' = 0
           \/ pc[c] = "cdrop" /\ pc' = [pc EXCEPT ![c] = "idle"] /\ key' = key
        /\ segOf' = [segOf EXCEPT ![c] = 0]
        /\ UNCHANGED <<exec_hash_int, des_process_created>>
    <3>1. CASE RemoveSegment(c)
      <4>1. UNCHANGED <<exec_hash_int, des_process_created>>
        BY <3>1 DEF RemoveSegment
      <4> QED
        BY <3>1, <4>1, RemovesOwnKey DEF NamesInv
    <3> QED
      BY <1>4, <3>1 DEF Leave
  <2>2. NobodyDied' => NobodyDied
    BY <2>1 DEF TypeOK, NobodyDied
  <2>3. \A d \in Clients : pc'[d] \in Joined => pc[d] \in Joined /\ segOf'[d] = segOf[d]
    BY <2>1 DEF TypeOK, Joined
  <2>4. \A d \in Clients : pc[d] \in AfterFork => pc'[d] \in AfterFork
    BY <2>1 DEF TypeOK, AfterFork
  <2> QED
    BY <1>0, <2>1, <2>2, <2>3, <2>4 DEF ExecKnown
<1>5. ASSUME NEW c \in Clients, Die(c) PROVE ExecKnown'
  <2>1. ~NobodyDied'
    BY <1>5 DEF Die, NobodyDied, TypeOK
  <2> QED
    BY <1>0, <1>5, <2>1 DEF ExecKnown, Die
<1>6. ASSUME NEW g \in Serials, DesStep(g) PROVE ExecKnown'
  BY <1>0, <1>6 DEF DesStep, DesReady, DesFails, DesQuits, DesEof, DesBecomes, ExecKnown,
     NobodyDied
<1> QED
  BY <1>1, <1>2, <1>3, <1>4, <1>5, <1>6, ExecMoves DEF Next, CallStep, ConnectStep,
     CloseStep, Application, Crash, CloseDetached

\* A creator before fork() finds the names as it left them, the mutex as its own
\* sem_init left it.
LEMMA FreshStep ==
  ASSUME TakingTurns, LaunchesSucceed, TypeOK, NamesInv, TurnsInv, TidyInv, NobodyDied,
         NEW c \in Clients, CallStep(c) \/ Attach(c) \/ StartClose(c)
  PROVE  FreshStart'
<1> USE DEF Goto, mine, shmem, names, TypeOK
<1>1. \A d \in Clients \ {c} : ~MidCall(d)
  BY OthersRest DEF TurnsInv
<1>2. /\ \E to : pc' = [pc EXCEPT ![c] = to]
      /\ \/ pc'[c] \notin BeforeFork
         \/ Attach(c) \/ ReadCreated(c) \/ SemInit(c) \/ TakeConnect(c)
         \/ ChooseRole(c) \/ MakeInFifo(c) \/ MakeOutFifo(c)
  <2>1. CASE ConnectStep(c)
    BY <2>1 DEF ConnectStep, TimeoutConnect, RejectExec, Fork, SetCreated, EarlyRelease,
       OpenIn, OpenOut, OpenTimeout, ReadBanner, CountOne, SetExec, LoadCount, StoreCount,
       Unlock, BeforeFork, ReadCreated, SemInit, TakeConnect, ChooseRole, MakeInFifo,
       MakeOutFifo
  <2>2. CASE CloseStep(c)
    BY <2>2 DEF CloseStep, TakeClose, TimeoutClose, LoadCountClose, StoreCountClose,
       TestCount, ReleaseQuit, SendQuit, Detach, RemoveSegment, UnlinkIn, UnlinkOut,
       ReleaseLeave, Leave, BeforeFork
  <2> QED
    BY <2>1, <2>2 DEF CallStep, StartClose, Attach, BeforeFork
<1>3. \A d \in Clients \ {c} : pc'[d] \notin BeforeFork
  BY <1>1, <1>2 DEF MidCall, ConnectSteps, BeforeFork
<1>4. FreshStart /\ KeyUsed
  BY DEF TidyInv
<1>5. MidCall(c) /\ ~TearingDown(c) => segOf[c] = key /\ key \in Serials
  BY InCall
<1>6. CASE Attach(c)
  <2>1. /\ pc[c] = "idle" /\ pc'[c] = "attached" /\ segOf'[c] = key'
        /\ key' = IF key = 0 THEN attempts + 1 ELSE key
        /\ UNCHANGED <<inFifo, outFifo, des_process_created>>
    BY <1>6 DEF Attach
  <2>2. \A d \in Clients : ~MidCall(d)
    BY <1>1, <2>1 DEF MidCall, ConnectSteps, CloseSteps
  <2>3. CASE key = 0
    <3>1. inFifo = 0 /\ outFifo = 0
      BY <1>4, <2>2, <2>3 DEF KeyUsed, TearingDown, MidCall, CloseSteps
    <3> QED
      BY <1>3, <2>1, <3>1 DEF FreshStart
  <2>4. CASE key # 0
    <3>1. des_process_created[key]
      BY <1>4, <2>2, <2>4 DEF KeyUsed, MidCall, ConnectSteps, BeforeFork
    <3> QED
      BY <1>3, <2>1, <2>4, <3>1 DEF FreshStart
  <2> QED
    BY <2>3, <2>4
<1>7. CASE ReadCreated(c) \/ SemInit(c) \/ TakeConnect(c) \/ ChooseRole(c)
  <2>1. /\ pc[c] \in {"attached", "seminit", "wait", "locked"} /\ pc'[c] \notin {"mkout", "fork"}
        /\ UNCHANGED <<segOf, inFifo, outFifo, des_process_created>>
    BY <1>7 DEF ReadCreated, SemInit, TakeConnect, ChooseRole, OnlySemChanges
  <2>2. ~des_process_created[segOf[c]] => inFifo = 0 /\ outFifo = 0
    BY <1>4, <2>1 DEF FreshStart, BeforeFork
  <2>3. pc'[c] = "wait" /\ ~des_process_created[segOf[c]] => sem'[segOf[c]] > 0
    <3>1. segOf[c] \in Serials
      BY <1>5, <2>1 DEF MidCall, TearingDown, ConnectSteps
    <3> QED
      BY <1>7, <3>1 DEF ReadCreated, Created, SemInit, TakeConnect, ChooseRole
  <2> QED
    BY <1>3, <2>1, <2>2, <2>3 DEF FreshStart
<1>8. CASE MakeInFifo(c) \/ MakeOutFifo(c)
  <2>1. /\ pc[c] \in {"mkin", "mkout"} /\ UNCHANGED <<segOf, des_process_created, att>>
        /\ pc'[c] # "wait"
    BY <1>8 DEF MakeInFifo, MakeOutFifo
  <2>2. ~des_process_created[segOf[c]]
    BY <2>1 DEF TurnsInv, NobodyCounted
  <2>3. outFifo = 0 /\ inFifo = IF pc[c] = "mkout" THEN att[c] ELSE 0
    BY <1>4, <2>1, <2>2 DEF FreshStart, BeforeFork
  <2>4. /\ pc'[c] \in {"mkout", "fork"} /\ inFifo' = att[c]
        /\ outFifo' = IF pc'[c] = "fork" THEN att[c] ELSE 0
    BY <1>8, <2>3 DEF MakeInFifo, MakeOutFifo
  <2> QED
    BY <1>3, <2>1, <2>4 DEF FreshStart
<1> QED
  BY <1>2, <1>3, <1>6, <1>7, <1>8 DEF FreshStart

\* A step of c, in its call, that leaves the key in use.
LEMMA UsedMove ==
  ASSUME TypeOK, KeyUsed, NEW c \in Clients, NEW to, key \in Serials, UNCHANGED key,
         pc' = [pc EXCEPT ![c] = to],
         pc[c] \in BeforeFork \cup {"forked"} =>
           to \in BeforeFork \cup {"forked"} \/ des_process_created'[key],
         \/ /\ des_process_created'[key] = des_process_created[key]
            /\ pc[c] \in Uncounted => to \in Uncounted \/ n_clients'[key] # 0
            /\ n_clients[key] # 0 => to \in Uncounted \/ n_clients'[key] # 0
         \/ des_process_created'[key] /\ to \in Uncounted
  PROVE  KeyUsed'
<1>1. key # 0 /\ key' # 0
  BY DEF Serials
<1>2. pc'[c] = to /\ \A d \in Clients : d # c => pc'[d] = pc[d]
  BY DEF TypeOK
<1>3. ~des_process_created'[key] => \E d \in Clients : pc'[d] \in BeforeFork \cup {"forked"}
  <2> SUFFICES ASSUME ~des_process_created'[key]
               PROVE  \E d \in Clients : pc'[d] \in BeforeFork \cup {"forked"}
    OBVIOUS
  <2>1. PICK d \in Clients : pc[d] \in BeforeFork \cup {"forked"}
    BY <1>1 DEF KeyUsed
  <2> QED
    BY <1>2, <2>1
<1>4. des_process_created'[key] =>
        n_clients'[key] # 0 \/ \E d \in Clients : pc'[d] \in Uncounted
  <2> SUFFICES ASSUME des_process_created'[key], n_clients'[key] = 0
               PROVE  \E d \in Clients : pc'[d] \in Uncounted
    OBVIOUS
  <2>1. CASE to \in Uncounted
    BY <1>2, <2>1
  <2>2. CASE to \notin Uncounted
    <3>1. PICK d \in Clients : pc[d] \in Uncounted
      BY <1>1, <2>2 DEF KeyUsed
    <3> QED
      BY <1>2, <2>2, <3>1
  <2> QED
    BY <2>1, <2>2
<1> QED
  BY <1>1, <1>3, <1>4 DEF KeyUsed

\* While nobody has died a creator does not give up before fork().
LEMMA CreatorGetsThere ==
  ASSUME TypeOK, NamesInv, TurnsInv, TidyInv, NobodyDied, NEW c \in Clients
  PROVE  /\ TimeoutConnect(c) \/ RejectExec(c) => des_process_created[key]
         /\ MakeInFifo(c) => Goto(c, "mkin", "mkout")
         /\ MakeOutFifo(c) => Goto(c, "mkout", "fork")
<1> USE DEF Goto
<1>1. pc[c] \in {"wait", "locked"} => segOf[c] = key /\ key \in Serials
  BY InCall DEF MidCall, TearingDown, ConnectSteps
<1>2. TimeoutConnect(c) => des_process_created[key]
  BY <1>1 DEF TimeoutConnect, CannotTake, TidyInv, FreshStart, BeforeFork
<1>3. RejectExec(c) => des_process_created[key]
  BY <1>1 DEF RejectExec, OtherExec, TidyInv, ExecKnown
<1>4. pc[c] \in {"mkin", "mkout"} => ~des_process_created[segOf[c]]
  BY DEF TurnsInv, NobodyCounted
<1>5. /\ pc[c] = "mkin" => inFifo = 0
      /\ pc[c] = "mkout" => outFifo = 0
  BY <1>4 DEF TidyInv, FreshStart, BeforeFork
<1> QED
  BY <1>2, <1>3, <1>5 DEF MakeInFifo, MakeOutFifo

\* The steps of a call at the key leave somebody who uses the key's segment.
LEMMA UsedMoves ==
  ASSUME TakingTurns, LaunchesSucceed, TypeOK, NamesInv, TurnsInv, TidyInv, NobodyDied,
         NEW c \in Clients,
         \/ ReadCreated(c) \/ SemInit(c) \/ TakeConnect(c) \/ TimeoutConnect(c)
         \/ RejectExec(c) \/ ChooseRole(c) \/ MakeInFifo(c) \/ MakeOutFifo(c) \/ Fork(c)
         \/ SetCreated(c) \/ EarlyRelease(c) \/ OpenIn(c) \/ OpenOut(c)
         \/ OpenTimeout(c) \/ ReadBanner(c) \/ CountOne(c) \/ SetExec(c) \/ LoadCount(c)
         \/ StoreCount(c) \/ Unlock(c) \/ TakeClose(c)
         \/ TimeoutClose(c) \/ LoadCountClose(c) \/ StoreCountClose(c) \/ TestCount(c)
         \/ ReleaseQuit(c) \/ SendQuit(c) \/ Detach(c) \/ ReleaseLeave(c) \/ Leave(c)
  PROVE  KeyUsed'
<1>0. KeyUsed
  BY DEF TidyInv
<1>00. segOf[c] = key /\ key \in Serials
  <2>1. MidCall(c)
    BY OthersRest DEF TurnsInv, CallStep, ConnectStep, CloseStep
  <2>2. ~TearingDown(c)
    BY DEF TearingDown, Goto, ReadCreated, SemInit, TakeConnect, TimeoutConnect,
       RejectExec, ChooseRole, MakeInFifo, MakeOutFifo, Fork, SetCreated, EarlyRelease,
       OpenIn, OpenOut, OpenTimeout, ReadBanner, CountOne, SetExec, LoadCount, StoreCount,
       Unlock, TakeClose, TimeoutClose, LoadCountClose, StoreCountClose, TestCount,
       ReleaseQuit, SendQuit, Detach, ReleaseLeave, Leave
  <2> QED
    BY <2>1, <2>2, InCall
<1> USE <1>0, <1>00, UsedMove DEF mine, shmem, names, Goto, OnlySemChanges, BeforeFork,
        Uncounted, Emptying
<1>1. CASE ReadCreated(c) \/ SemInit(c) \/ TakeConnect(c) \/ ChooseRole(c)
  <2>1. CASE ReadCreated(c)
    BY <2>1 DEF ReadCreated
  <2>2. CASE SemInit(c)
    BY <2>2 DEF SemInit
  <2>3. CASE TakeConnect(c)
    BY <2>3 DEF TakeConnect
  <2>4. CASE ChooseRole(c)
    BY <2>4 DEF ChooseRole, Created
  <2> QED
    BY <1>1, <2>1, <2>2, <2>3, <2>4
<1>2. CASE TimeoutConnect(c) \/ RejectExec(c)
  <2>1. des_process_created[key]
    BY <1>2, CreatorGetsThere
  <2>2. CASE TimeoutConnect(c)
    BY <2>1, <2>2 DEF TimeoutConnect
  <2>3. CASE RejectExec(c)
    BY <2>1, <2>3 DEF RejectExec
  <2> QED
    BY <1>2, <2>2, <2>3
<1>3. CASE MakeInFifo(c) \/ MakeOutFifo(c) \/ Fork(c)
  <2>1. /\ \/ pc[c] = "mkin" /\ pc' = [pc EXCEPT ![c] = "mkout"]
           \/ pc[c] = "mkout" /\ pc' = [pc EXCEPT ![c] = "fork"]
           \/ pc[c] = "fork" /\ pc' = [pc EXCEPT ![c] = "forked"]
        /\ UNCHANGED <<key, n_clients, des_process_created>>
    BY <1>3, CreatorGetsThere, CreatorSucceeds DEF MakeInFifo, MakeOutFifo, Fork
  <2> QED
    BY <2>1
<1>4. CASE SetCreated(c) \/ ReadBanner(c)
  <2>1. /\ des_process_created'[key]
        /\ \/ pc[c] = "forked" /\ pc' = [pc EXCEPT ![c] = "launched"]
           \/ pc[c] = "banner" /\ pc' = [pc EXCEPT ![c] = "countone"]
        /\ UNCHANGED <<key, n_clients>>
    BY <1>4, CreatorSucceeds DEF SetCreated, ReadBanner, TypeOK
  <2> QED
    BY <2>1
<1>5. CASE EarlyRelease(c) \/ OpenIn(c) \/ OpenOut(c)
  <2>1. CASE EarlyRelease(c)
    BY <2>1 DEF EarlyRelease
  <2>2. CASE OpenIn(c)
    BY <2>2 DEF OpenIn
  <2>3. CASE OpenOut(c)
    BY <2>3 DEF OpenOut
  <2> QED
    BY <1>5, <2>1, <2>2, <2>3
<1>6. CASE OpenTimeout(c)
  <2>1. /\ pc[c] = "joining" /\ pc' = [pc EXCEPT ![c] = "idle"]
        /\ UNCHANGED <<key, n_clients, des_process_created>>
    BY <1>6, CreatorSucceeds DEF OpenTimeout
  <2> QED
    BY <2>1
<1>7. CASE CountOne(c) \/ StoreCount(c) \/ StoreCountClose(c)
  <2>1. n_clients[key] \in Int /\ n_clients[key] >= 0
    BY FS_CardinalityType DEF TypeOK, TurnsInv, CountHeld
  <2>2. CASE CountOne(c)
    <3>1. n_clients'[key] = 1
      BY <2>2 DEF CountOne, TypeOK
    <3>2. /\ pc[c] = "countone" /\ pc' = [pc EXCEPT ![c] = "setexec"]
          /\ n_clients'[key] # 0 /\ UNCHANGED <<key, des_process_created>>
      BY <2>2, <3>1 DEF CountOne
    <3> QED
      BY <3>2
  <2>3. CASE StoreCount(c)
    <3>1. n_clients'[key] = n_clients[key] + 1
      BY <2>3 DEF StoreCount, TypeOK, TurnsInv, Registers
    <3>2. n_clients'[key] # 0
      BY <2>1, <3>1
    <3> QED
      BY <2>3, <3>2 DEF StoreCount
  <2>4. CASE StoreCountClose(c)
    BY <2>4 DEF StoreCountClose
  <2> QED
    BY <1>7, <2>2, <2>3, <2>4
<1>8. CASE SetExec(c) \/ LoadCount(c) \/ Unlock(c)
  <2>1. CASE SetExec(c)
    BY <2>1 DEF SetExec
  <2>2. CASE LoadCount(c)
    BY <2>2 DEF LoadCount
  <2>3. CASE Unlock(c)
    BY <2>3 DEF Unlock
  <2> QED
    BY <1>8, <2>1, <2>2, <2>3
<1>9. CASE TakeClose(c) \/ TimeoutClose(c) \/ LoadCountClose(c)
  <2>1. CASE TakeClose(c)
    BY <2>1 DEF TakeClose
  <2>2. CASE TimeoutClose(c)
    BY <2>2 DEF TimeoutClose
  <2>3. CASE LoadCountClose(c)
    BY <2>3 DEF LoadCountClose
  <2> QED
    BY <1>9, <2>1, <2>2, <2>3
<1>10. CASE TestCount(c)
  <2>1. pc[c] = "ctest" /\ reg[c] = n_clients[key]
    BY <1>10 DEF TestCount, TurnsInv, Registers
  <2>2. /\ \/ pc' = [pc EXCEPT ![c] = "cquit"]
           \/ pc' = [pc EXCEPT ![c] = "cleave"] /\ n_clients[key] # 0
        /\ UNCHANGED <<key, n_clients, des_process_created>>
    BY <1>10, <2>1 DEF TestCount
  <2> QED
    BY <2>1, <2>2
<1>11. CASE ReleaseQuit(c) \/ SendQuit(c) \/ Detach(c)
  <2>1. CASE ReleaseQuit(c)
    BY <2>1 DEF ReleaseQuit
  <2>2. CASE SendQuit(c)
    BY <2>2 DEF SendQuit
  <2>3. CASE Detach(c)
    BY <2>3 DEF Detach
  <2> QED
    BY <1>11, <2>1, <2>2, <2>3
<1>12. CASE ReleaseLeave(c) \/ Leave(c)
  <2>1. CASE ReleaseLeave(c)
    BY <2>1 DEF ReleaseLeave
  <2>2. CASE Leave(c)
    BY <2>2 DEF Leave
  <2> QED
    BY <1>12, <2>1, <2>2
<1> QED
  BY <1>1, <1>2, <1>3, <1>4, <1>5, <1>6, <1>7, <1>8, <1>9, <1>10, <1>11, <1>12

\* A segment is made by a client that starts to use it, and removed, like the names
\* after it, by the last one to use it.
LEMMA KeySteps ==
  ASSUME TakingTurns, LaunchesSucceed, TypeOK, NamesInv, TurnsInv, TidyInv,
         NEW c \in Clients,
         Attach(c) \/ StartClose(c) \/ RemoveSegment(c) \/ UnlinkIn(c) \/ UnlinkOut(c),
         NobodyDied
  PROVE  KeyUsed'
<1>0. KeyUsed
  BY DEF TidyInv
<1> USE DEF mine, shmem, names, Goto
<1>1. \A d \in Clients \ {c} : ~MidCall(d)
  BY OthersRest DEF TurnsInv, CallStep, CloseStep
<1>2. CASE Attach(c)
  <2>1. /\ pc[c] = "idle" /\ pc'[c] = "attached"
        /\ pc' = [pc EXCEPT ![c] = "attached"]
        /\ key' = IF key = 0 THEN attempts + 1 ELSE key
        /\ attempts < MaxConnects /\ attempts \in Nat
        /\ UNCHANGED <<inFifo, outFifo, n_clients, des_process_created>>
    BY <1>2 DEF Attach, TypeOK
  <2>2. key' # 0 /\ (key = 0 => ~des_process_created[key'])
    <3>1. attempts + 1 \in Serials /\ attempts + 1 > attempts /\ attempts + 1 # 0
      BY <2>1, SessionAssumption DEF Serials
    <3>2. ~des_process_created[attempts + 1]
      BY <3>1 DEF NamesInv, SerialsFresh
    <3> QED
      BY <2>1, <3>1, <3>2
  <2>3. \A d \in Clients : pc[d] \in Uncounted => pc'[d] \in Uncounted
    BY <2>1 DEF TypeOK, Uncounted, Emptying
  <2> QED
    BY <1>0, <2>1, <2>2, <2>3 DEF KeyUsed, BeforeFork
<1>3. CASE StartClose(c)
  <2>1. /\ pc[c] = "connected" /\ pc' = [pc EXCEPT ![c] = "cwait"]
        /\ UNCHANGED <<key, n_clients, des_process_created>>
    BY <1>3 DEF StartClose
  <2>2. key \in Serials
    BY <2>1, HeldSegment DEF NamesInv, TurnsInv, AtKey, TearingDown, KnowsCreated, HasIn,
       HasOut
  <2> QED
    BY <1>0, <2>1, <2>2, UsedMove DEF BeforeFork, Uncounted, Emptying
<1>4. CASE RemoveSegment(c)
  <2>1. key' = 0 /\ pc'[c] = "cunlinkin"
    BY <1>4, RemovesOwnKey DEF NamesInv, TypeOK
  <2> QED
    BY <2>1 DEF KeyUsed, TearingDown
<1>5. CASE UnlinkIn(c) \/ UnlinkOut(c)
  <2>1. TearingDown(c) /\ key = 0
    BY <1>5 DEF UnlinkIn, UnlinkOut, TearingDown, TurnsInv, AtKey, MidCall, CloseSteps
  <2>2. CASE UnlinkIn(c)
    <3>1. inFifo' = 0 /\ key' = key /\ pc'[c] = "cunlinkout"
      BY <2>2 DEF UnlinkIn, TypeOK
    <3> QED
      BY <2>1, <3>1 DEF KeyUsed, TearingDown
  <2>3. CASE UnlinkOut(c)
    <3>1. outFifo' = 0 /\ key' = key /\ inFifo' = inFifo /\ pc[c] = "cunlinkout"
      BY <2>3 DEF UnlinkOut
    <3>2. \A d \in Clients : pc[d] # "cunlinkin"
      BY <1>1, <3>1 DEF MidCall, CloseSteps
    <3> QED
      BY <1>0, <2>1, <3>1, <3>2 DEF KeyUsed
  <2> QED
    BY <1>5, <2>2, <2>3
<1> QED
  BY <1>2, <1>3, <1>4, <1>5

\* TidyInv is inductive relative to the invariants before it.
LEMMA TidyStep ==
  ASSUME TakingTurns, LaunchesSucceed, TypeOK, NamesInv, TurnsInv, TidyInv, [Next]_vars
  PROVE  TidyInv'
<1>1. PipesClosed' /\ ChildWaits' /\ ExecKnown'
  BY PipesStep, ChildStep, ExecStep
<1>2. CASE UNCHANGED vars
  BY <1>1, <1>2 DEF vars, mine, shmem, names, TidyInv, NobodyDied, FreshStart, KeyUsed,
     TearingDown
<1>3. ASSUME NEW c \in Clients, CallStep(c) \/ Attach(c) \/ StartClose(c), NobodyDied
      PROVE  FreshStart' /\ KeyUsed'
  BY <1>3, FreshStep, UsedMoves, KeySteps DEF CallStep, ConnectStep, CloseStep
<1>4. ASSUME NEW c \in Clients, Die(c) PROVE ~NobodyDied'
  BY <1>4 DEF Die, NobodyDied, TypeOK
<1>5. ASSUME NEW g \in Serials, DesStep(g) PROVE TidyInv'
  <2>1. UNCHANGED <<pc, mine, shmem, names>>
    BY <1>5 DEF DesStep, DesReady, DesFails, DesQuits, DesEof, DesBecomes
  <2> QED
    BY <1>1, <2>1 DEF mine, shmem, names, TidyInv, NobodyDied, FreshStart, KeyUsed,
       TearingDown
<1>6. ASSUME NEW c \in Clients, CallStep(c) \/ Attach(c) \/ StartClose(c), NobodyDied'
      PROVE  NobodyDied
  <2> SUFFICES ASSUME ~NobodyDied PROVE FALSE
    OBVIOUS
  <2>1. PICK d \in Clients : pc[d] = "dead"
    BY DEF NobodyDied
  <2>2. pc'[d] = "dead"
    <3>1. \E to : pc[c] # "dead" /\ pc' = [pc EXCEPT ![c] = to]
      <4>1. ConnectStep(c) => \E to : pc[c] # "dead" /\ pc' = [pc EXCEPT ![c] = to]
        BY DEF ConnectStep, ReadCreated, SemInit, TakeConnect, TimeoutConnect, RejectExec,
           ChooseRole, MakeInFifo, MakeOutFifo, Fork, SetCreated, EarlyRelease, OpenIn,
           OpenOut, OpenTimeout, ReadBanner, CountOne, SetExec, LoadCount, StoreCount,
           Unlock, Goto
      <4>2. CloseStep(c) => \E to : pc[c] # "dead" /\ pc' = [pc EXCEPT ![c] = to]
        BY DEF CloseStep, TakeClose, TimeoutClose, LoadCountClose, StoreCountClose,
           TestCount, ReleaseQuit, SendQuit, Detach, RemoveSegment, UnlinkIn, UnlinkOut,
           ReleaseLeave, Leave, Goto
      <4>3. Attach(c) \/ StartClose(c) => \E to : pc[c] # "dead" /\ pc' = [pc EXCEPT ![c] = to]
        BY DEF Attach, StartClose, Goto
      <4> QED
        BY <1>6, <4>1, <4>2, <4>3 DEF CallStep
    <3> QED
      BY <2>1, <3>1 DEF TypeOK
  <2> QED
    BY <1>6, <2>2 DEF NobodyDied
<1>7. ASSUME NEW c \in Clients, CallStep(c) \/ Attach(c) \/ StartClose(c) PROVE TidyInv'
  <2>1. NobodyDied' => FreshStart' /\ KeyUsed'
    BY <1>3, <1>6, <1>7
  <2> QED
    BY <1>1, <2>1 DEF TidyInv
<1>8. ASSUME NEW c \in Clients, Die(c) PROVE TidyInv'
  BY <1>1, <1>4, <1>8 DEF TidyInv
<1> QED
  BY <1>2, <1>5, <1>7, <1>8 DEF Next, Application, Crash, CloseDetached

\* Nothing is open, launched or named before the first connect().
LEMMA TidyInit == Init => TidyInv
<1> SUFFICES ASSUME Init PROVE TidyInv
  OBVIOUS
<1>1. PipesClosed /\ ChildWaits
  BY DEF Init, PipesClosed, ChildWaits
<1>2. ExecKnown
  BY DEF Init, ExecKnown, Joined
<1>3. FreshStart /\ KeyUsed
  BY DEF Init, FreshStart, KeyUsed, BeforeFork
<1> QED
  BY <1>1, <1>2, <1>3 DEF TidyInv

\* Where clients take turns and launches succeed: descriptors are closed, the child
\* finds its names, and until somebody dies a segment is in use and exec_hash_int
\* that of all its clients.
THEOREM TidyInvariance == TakingTurns /\ LaunchesSucceed /\ Spec => []TidyInv
<1> SUFFICES ASSUME TakingTurns, LaunchesSucceed PROVE Spec => []TidyInv
  OBVIOUS
<1>1. TypeOK /\ NamesInv /\ TurnsInv /\ TidyInv /\ [Next]_vars => TidyInv'
  BY TidyStep
<1> QED
  BY <1>1, TidyInit, TurnsInvariance, PTL DEF Spec

\* Clients connected to one DES process named the same executable, while none died.
THEOREM ExecIsShared == TakingTurns /\ LaunchesSucceed /\ Spec => []SameExec
<1>1. TurnsInv /\ TidyInv => SameExec
  BY DEF SameExec, Connected, TidyInv, ExecKnown, Joined, TurnsInv, AtKey, TearingDown
<1> QED
  BY <1>1, TurnsInvariance, TidyInvariance, PTL

\* When all have closed and none died there is no segment, no FIFO and no DES that
\* nobody told to quit.
THEOREM LeavesNothing == TakingTurns /\ LaunchesSucceed /\ Spec => []NothingLeft
<1>1. ASSUME TypeOK, NamesInv, TurnsInv, TidyInv, NobodyMidCall, NobodyDied, Connected = {}
      PROVE  key = 0 /\ inFifo = 0 /\ outFifo = 0 /\ \A g \in Serials : ~Live(g)
  <2> USE <1>1
  <2>1. KeyUsed
    BY DEF TidyInv
  <2>2. \A c \in Clients : /\ ~TearingDown(c) /\ pc[c] \notin Uncounted
                           /\ pc[c] \notin BeforeFork \cup {"forked"}
    BY DEF NobodyMidCall, MidCall, ConnectSteps, CloseSteps, TearingDown, Uncounted,
       Emptying, BeforeFork
  <2>3. key = 0
    <3> SUFFICES ASSUME key # 0 PROVE FALSE
      OBVIOUS
    <3>1. n_clients[key] # 0 /\ key \in Serials
      BY <2>1, <2>2, SessionAssumption DEF KeyUsed, TypeOK, Serials
    <3>2. CountedAt(key) = {}
      BY DEF CountedAt, Counted, Connected, NobodyMidCall, MidCall, ConnectSteps,
         CloseSteps
    <3> QED
      BY <3>1, <3>2, FS_EmptySet DEF TurnsInv, CountHeld
  <2>4. inFifo = 0 /\ outFifo = 0
    BY <2>1, <2>2, <2>3 DEF KeyUsed, TearingDown
  <2>5. \A g \in Serials : ~Live(g)
    BY <2>4 DEF NamesInv, LiveNamed, Serials
  <2> QED
    BY <2>3, <2>4, <2>5
<1>2. TypeOK /\ NamesInv /\ TurnsInv /\ TidyInv => NothingLeft
  BY <1>1 DEF NothingLeft
<1> QED
  BY <1>2, TurnsInvariance, TidyInvariance, PTL

=============================================================================
