-------------------------- MODULE DesSessionProofs --------------------------
(***************************************************************************)
(* Theorems about DesSession, for any number of clients and of connect()   *)
(* calls, with overlapping calls, process deaths and failing launches.     *)
(*                                                                         *)
(* What is proved here of the FIFO names needs a kernel on which IPC_RMID  *)
(* of a removed segment fails: on Linux two clients may both take          *)
(* themselves for the last one.                                            *)
(*                                                                         *)
(* The invariant is TypeOK /\ NamesInv.  Most steps move one client and    *)
(* leave everything NamesInv speaks of alone (LocalStep); the others have  *)
(* a lemma each, with one step per conjunct of NamesInv.                   *)
(***************************************************************************)
EXTENDS DesSession, TLAPS

\* What the theorems about the FIFO names need of the kernel.
RemovedOnce == ~RmidAgain

\* What they need where the kernel has it otherwise: nobody took the segment out of
\* the key's reach before the client that is about to remove it.
RemovesKey(c) == pc[c] = "crmid" => segOf[c] = key

\* get_mutex leaves a semaphore value: sem_trywait decrements positive ones only.
LEMMA TakeType ==
  ASSUME sem \in [Serials -> Nat], NEW s \in Serials, Take(s)
  PROVE  sem' \in [Serials -> Nat]
  BY DEF Take

\* release_mutex leaves a semaphore value.
LEMMA PostType ==
  ASSUME sem \in [Serials -> Nat], NEW s \in Serials, Post(s)
  PROVE  sem' \in [Serials -> Nat]
  BY DEF Post

\* A client between shmat and shmdt has a segment attached: no step of connect()
\* or close() reads or writes shared memory through a null shmem.
LEMMA HeldSegment ==
  ASSUME TypeOK, SegmentsHeld, NEW c \in Clients,
         pc[c] \in BeforeFork \cup {"forked"} \cup KnowsCreated
  PROVE  segOf[c] \in Serials
  BY SessionAssumption DEF TypeOK, SegmentsHeld, Serials

\* Every step of connect(), close(), the DES process or a dying client keeps the
\* types; steps through shmem need the segment to be attached.
LEMMA TypeStep == ASSUME TypeOK, SegmentsHeld, [Next]_vars PROVE TypeOK'
<1> USE SessionAssumption
    DEF TypeOK, mine, shmem, names, ConnectSteps, CloseSteps, Resting
<1>0. CASE UNCHANGED vars
  BY <1>0 DEF vars
<1>1. ASSUME NEW c \in Clients, Attach(c) PROVE TypeOK'
  <2>1. /\ attempts' \in 0 .. MaxConnects /\ attempts' = attempts + 1
        /\ key' \in 0 .. MaxConnects
    BY <1>1 DEF Attach
  <2>2. leaks' \in [Clients -> SUBSET Serials]
    BY <1>1 DEF Attach, Serials
  <2> QED
    BY <1>1, <2>1, <2>2 DEF Attach, Goto
<1>2. ASSUME NEW c \in Clients, ReadCreated(c) PROVE TypeOK'
  BY <1>2 DEF ReadCreated, Goto
<1>3. ASSUME NEW c \in Clients, SemInit(c) PROVE TypeOK'
  BY <1>3, HeldSegment DEF SemInit, OnlySemChanges, Goto, BeforeFork, KnowsCreated, HasIn, HasOut
<1>4. ASSUME NEW c \in Clients, TakeConnect(c) PROVE TypeOK'
  BY <1>4, HeldSegment, TakeType DEF TakeConnect, OnlySemChanges, Goto, BeforeFork, KnowsCreated, HasIn, HasOut
<1>5. ASSUME NEW c \in Clients, TimeoutConnect(c) PROVE TypeOK'
  BY <1>5 DEF TimeoutConnect, Goto
<1>6. ASSUME NEW c \in Clients, RejectExec(c) PROVE TypeOK'
  BY <1>6, HeldSegment, PostType DEF RejectExec, OnlySemChanges, Goto, BeforeFork, KnowsCreated, HasIn, HasOut
<1>7. ASSUME NEW c \in Clients, ChooseRole(c) PROVE TypeOK'
  BY <1>7 DEF ChooseRole, Goto
<1>8. ASSUME NEW c \in Clients, MakeInFifo(c) PROVE TypeOK'
  BY <1>8 DEF MakeInFifo, Goto
<1>9. ASSUME NEW c \in Clients, MakeOutFifo(c) PROVE TypeOK'
  BY <1>9 DEF MakeOutFifo, Goto
<1>10. ASSUME NEW c \in Clients, Fork(c) PROVE TypeOK'
  BY <1>10 DEF Fork, DesStates, Goto
<1>11. ASSUME NEW c \in Clients, SetCreated(c) PROVE TypeOK'
  BY <1>11, HeldSegment DEF SetCreated, Goto, BeforeFork, KnowsCreated, HasIn, HasOut
<1>12. ASSUME NEW c \in Clients, EarlyRelease(c) PROVE TypeOK'
  BY <1>12, HeldSegment, PostType DEF EarlyRelease, OnlySemChanges, Goto, BeforeFork, KnowsCreated, HasIn, HasOut
<1>13. ASSUME NEW c \in Clients, OpenIn(c) PROVE TypeOK'
  BY <1>13 DEF OpenIn, Goto
<1>14. ASSUME NEW c \in Clients, OpenOut(c) PROVE TypeOK'
  BY <1>14 DEF OpenOut, Goto
<1>15. ASSUME NEW c \in Clients, OpenTimeout(c) PROVE TypeOK'
  BY <1>15 DEF OpenTimeout, Goto
<1>16. ASSUME NEW c \in Clients, ReadBanner(c) PROVE TypeOK'
  BY <1>16, HeldSegment DEF ReadBanner, Goto, BeforeFork, KnowsCreated, HasIn, HasOut
<1>17. ASSUME NEW c \in Clients, CountOne(c) PROVE TypeOK'
  BY <1>17, HeldSegment DEF CountOne, Goto, BeforeFork, KnowsCreated, HasIn, HasOut
<1>18. ASSUME NEW c \in Clients, SetExec(c) PROVE TypeOK'
  BY <1>18, HeldSegment DEF SetExec, Goto, BeforeFork, KnowsCreated, HasIn, HasOut
<1>19. ASSUME NEW c \in Clients, LoadCount(c) PROVE TypeOK'
  BY <1>19, HeldSegment DEF LoadCount, Goto, BeforeFork, KnowsCreated, HasIn, HasOut
<1>20. ASSUME NEW c \in Clients, StoreCount(c) PROVE TypeOK'
  BY <1>20, HeldSegment DEF StoreCount, Goto, BeforeFork, KnowsCreated, HasIn, HasOut
<1>21. ASSUME NEW c \in Clients, Unlock(c) PROVE TypeOK'
  BY <1>21, HeldSegment, PostType DEF Unlock, OnlySemChanges, Goto, BeforeFork, KnowsCreated, HasIn, HasOut
<1>22. ASSUME NEW c \in Clients, StartClose(c) PROVE TypeOK'
  BY <1>22 DEF StartClose, Goto
<1>23. ASSUME NEW c \in Clients, TakeClose(c) PROVE TypeOK'
  BY <1>23, HeldSegment, TakeType DEF TakeClose, OnlySemChanges, Goto, BeforeFork, KnowsCreated, HasIn, HasOut
<1>24. ASSUME NEW c \in Clients, TimeoutClose(c) PROVE TypeOK'
  BY <1>24 DEF TimeoutClose, Goto
<1>25. ASSUME NEW c \in Clients, LoadCountClose(c) PROVE TypeOK'
  BY <1>25, HeldSegment DEF LoadCountClose, Goto, BeforeFork, KnowsCreated, HasIn, HasOut
<1>26. ASSUME NEW c \in Clients, StoreCountClose(c) PROVE TypeOK'
  BY <1>26, HeldSegment DEF StoreCountClose, Goto, BeforeFork, KnowsCreated, HasIn, HasOut
<1>27. ASSUME NEW c \in Clients, TestCount(c) PROVE TypeOK'
  BY <1>27 DEF TestCount, Goto
<1>28. ASSUME NEW c \in Clients, ReleaseQuit(c) PROVE TypeOK'
  BY <1>28, HeldSegment, PostType DEF ReleaseQuit, OnlySemChanges, Goto, BeforeFork, KnowsCreated, HasIn, HasOut
<1>29. ASSUME NEW c \in Clients, SendQuit(c) PROVE TypeOK'
  BY <1>29 DEF SendQuit, DesStates, Goto
<1>30. ASSUME NEW c \in Clients, Detach(c) \/ RemoveSegment(c) PROVE TypeOK'
  BY <1>30 DEF Detach, RemoveSegment, Goto
<1>31. ASSUME NEW c \in Clients, UnlinkIn(c) PROVE TypeOK'
  BY <1>31 DEF UnlinkIn, Goto
<1>32. ASSUME NEW c \in Clients, UnlinkOut(c) PROVE TypeOK'
  BY <1>32 DEF UnlinkOut, Goto
<1>36. ASSUME NEW c \in Clients, Leave(c) PROVE TypeOK'
  BY <1>36 DEF Leave, Goto
<1>33. ASSUME NEW c \in Clients, ReleaseLeave(c) PROVE TypeOK'
  BY <1>33, HeldSegment, PostType DEF ReleaseLeave, OnlySemChanges, Goto, BeforeFork, KnowsCreated, HasIn, HasOut
<1>34. ASSUME NEW c \in Clients, Crash(c) PROVE TypeOK'
  BY <1>34 DEF Crash, Die, Goto
<1>35. ASSUME NEW c \in Clients, CloseDetached(c) PROVE TypeOK'
  BY <1>35 DEF CloseDetached, Die, Goto
<1>37. ASSUME NEW g \in Serials, DesStep(g) PROVE TypeOK'
  BY <1>37 DEF DesStep, DesReady, DesFails, DesQuits, DesEof, DesBecomes, DesStates
<1> QED
  BY <1>0, <1>1, <1>2, <1>3, <1>4, <1>5, <1>6, <1>7, <1>8, <1>9, <1>10, <1>11, <1>12, <1>13, <1>14, <1>15, <1>16, <1>17, <1>18, <1>19, <1>20, <1>21, <1>22, <1>23, <1>24, <1>25, <1>26, <1>27, <1>28, <1>29, <1>30, <1>31, <1>32, <1>33, <1>34, <1>35, <1>36, <1>37
  DEF Next, CallStep, ConnectStep, CloseStep, Application

\* What a client past shmget and shmat knows of its segment stays true, on any
\* kernel: nobody resets des_process_created.
LEMMA SegmentsStep == ASSUME TypeOK, SegmentsHeld, [Next]_vars PROVE SegmentsHeld'
<1> USE DEF TypeOK, SegmentsHeld, BeforeFork, KnowsCreated, HasIn, HasOut,
            mine, shmem, names
<1>0. CASE UNCHANGED vars
  BY <1>0 DEF vars
<1>1. ASSUME NEW c \in Clients,
             ReadCreated(c) \/ SemInit(c) \/ TakeConnect(c) \/ TimeoutConnect(c)
               \/ RejectExec(c) \/ ChooseRole(c)
      PROVE  SegmentsHeld'
  BY <1>1 DEF ReadCreated, SemInit, TakeConnect, TimeoutConnect, RejectExec,
     ChooseRole, Created, OnlySemChanges, Goto
<1>2. ASSUME NEW c \in Clients,
             MakeInFifo(c) \/ MakeOutFifo(c) \/ Fork(c) \/ EarlyRelease(c)
      PROVE  SegmentsHeld'
  BY <1>2 DEF MakeInFifo, MakeOutFifo, Fork, EarlyRelease, OnlySemChanges, Goto
<1>9. ASSUME NEW c \in Clients, SetCreated(c) \/ ReadBanner(c) PROVE SegmentsHeld'
  BY <1>9, HeldSegment DEF SetCreated, ReadBanner, Goto
<1>3. ASSUME NEW c \in Clients,
             OpenIn(c) \/ OpenOut(c) \/ OpenTimeout(c) \/ CountOne(c)
      PROVE  SegmentsHeld'
  BY <1>3 DEF OpenIn, OpenOut, OpenTimeout, CountOne, Goto
<1>4. ASSUME NEW c \in Clients, SetExec(c) \/ LoadCount(c) \/ StoreCount(c) \/ Unlock(c)
      PROVE  SegmentsHeld'
  BY <1>4 DEF SetExec, LoadCount, StoreCount, Unlock, OnlySemChanges, Goto
<1>5. ASSUME NEW c \in Clients,
             TakeClose(c) \/ TimeoutClose(c) \/ LoadCountClose(c) \/ StoreCountClose(c)
               \/ TestCount(c) \/ ReleaseQuit(c) \/ SendQuit(c) \/ Detach(c)
      PROVE  SegmentsHeld'
  BY <1>5 DEF TakeClose, TimeoutClose, LoadCountClose, StoreCountClose, TestCount,
     ReleaseQuit, SendQuit, Detach, OnlySemChanges, Goto
<1>6. ASSUME NEW c \in Clients,
             RemoveSegment(c) \/ UnlinkIn(c) \/ UnlinkOut(c) \/ ReleaseLeave(c) \/ Leave(c)
      PROVE  SegmentsHeld'
  BY <1>6 DEF RemoveSegment, UnlinkIn, UnlinkOut, ReleaseLeave, Leave, OnlySemChanges, Goto
<1>7. ASSUME NEW c \in Clients, Application(c) PROVE SegmentsHeld'
  <2>1. Attach(c) => key' # 0
    BY SessionAssumption DEF Attach
  <2> QED
    BY <1>7, <2>1 DEF Application, Attach, StartClose, Crash, CloseDetached, Die, Goto
<1>8. ASSUME NEW g \in Serials, DesStep(g) PROVE SegmentsHeld'
  BY <1>8 DEF DesStep, DesReady, DesFails, DesQuits, DesEof, DesBecomes
<1> QED
  BY <1>0, <1>1, <1>2, <1>3, <1>4, <1>5, <1>6, <1>7, <1>8, <1>9
  DEF Next, CallStep, ConnectStep, CloseStep

\* connect() and close() keep every variable in its type, on any kernel; in
\* particular a semaphore never goes below zero and shared memory is never used
\* while no segment is attached.
THEOREM TypeCorrect == Spec => []TypeOK
<1>1. Init => TypeOK /\ SegmentsHeld
  BY SessionAssumption DEF Init, TypeOK, Resting, DesStates, SegmentsHeld,
     BeforeFork, KnowsCreated, HasIn, HasOut
<1>2. TypeOK /\ SegmentsHeld /\ [Next]_vars => (TypeOK /\ SegmentsHeld)'
  BY TypeStep, SegmentsStep
<1> QED
  BY <1>1, <1>2, PTL DEF Spec

-----------------------------------------------------------------------------
nameVars == <<att, segOf, inPipe, outPipe, attempts, des_process_created,
              names, des>>

\* A step of c alone, to a place where no more is known of it than before.
LEMMA LocalStep ==
  ASSUME TypeOK, NamesInv, NEW c \in Clients, NEW to,
         pc' = [pc EXCEPT ![c] = to], UNCHANGED nameVars,
         to \notin {"mkout", "fork", "forked", "cdetach", "cunlinkin", "cunlinkout"},
         to = "crmid" => pc[c] = "cdetach",
         to \in BeforeFork => pc[c] \in BeforeFork,
         to \in HasIn => pc[c] \in HasIn,
         to \in HasOut => pc[c] \in HasOut,
         to \in KnowsCreated =>
           /\ pc[c] \in BeforeFork \cup {"forked"} \cup KnowsCreated
           /\ des_process_created[segOf[c]]
  PROVE  NamesInv'
<1> USE DEF NamesInv, nameVars, names, TypeOK
<1>1. SerialsFresh'
  BY DEF SerialsFresh
<1>2. LaunchOwnsNames'
  BY DEF LaunchOwnsNames
<1>3. LiveNamed'
  BY DEF LiveNamed, Live
<1>4. SegmentsHeld'
  BY DEF SegmentsHeld
<1>5. KeyLaunched' => KeyLaunched
  BY DEF KeyLaunched
<1>6. KeyNamesUp'
  BY <1>5 DEF KeyNamesUp, Up, Doomed
<1>7. TeardownAlone'
  BY <1>5 DEF TeardownAlone, TearingDown, Up, Doomed
<1> QED
  BY <1>1, <1>2, <1>3, <1>4, <1>6, <1>7

\* The steps of connect() and close() that touch semaphores, counters and the
\* client's own place only are local.
LEMMA LocalSteps ==
  ASSUME TypeOK, NamesInv, NEW c \in Clients,
         \/ ReadCreated(c) \/ SemInit(c) \/ TakeConnect(c) \/ TimeoutConnect(c)
         \/ RejectExec(c) \/ ChooseRole(c) \/ EarlyRelease(c) \/ OpenTimeout(c)
         \/ CountOne(c) \/ SetExec(c) \/ LoadCount(c) \/ StoreCount(c) \/ Unlock(c)
         \/ StartClose(c) \/ TakeClose(c) \/ TimeoutClose(c) \/ LoadCountClose(c)
         \/ StoreCountClose(c) \/ TestCount(c) \/ ReleaseQuit(c) \/ Detach(c)
         \/ ReleaseLeave(c)
  PROVE  NamesInv'
<1> DEFINE Known == des_process_created[segOf[c]]
<1> USE DEF mine, shmem, names, nameVars, Goto, OnlySemChanges, BeforeFork,
            HasIn, HasOut, KnowsCreated
<1>1. pc[c] \in KnowsCreated => Known
  BY DEF NamesInv, SegmentsHeld
<1>2. CASE ReadCreated(c)
  BY <1>1, <1>2, LocalStep DEF ReadCreated, Created
<1>3. CASE SemInit(c)
  BY <1>1, <1>3, LocalStep DEF SemInit
<1>4. CASE TakeConnect(c)
  BY <1>1, <1>4, LocalStep DEF TakeConnect
<1>5. CASE TimeoutConnect(c)
  BY <1>1, <1>5, LocalStep DEF TimeoutConnect
<1>6. CASE RejectExec(c)
  BY <1>1, <1>6, LocalStep DEF RejectExec
<1>7. CASE ChooseRole(c)
  BY <1>1, <1>7, LocalStep DEF ChooseRole, Created
<1>8. CASE EarlyRelease(c)
  BY <1>1, <1>8, LocalStep DEF EarlyRelease
<1>9. CASE OpenTimeout(c)
  BY <1>1, <1>9, LocalStep DEF OpenTimeout
<1>10. CASE CountOne(c)
  BY <1>1, <1>10, LocalStep DEF CountOne
<1>11. CASE SetExec(c)
  BY <1>1, <1>11, LocalStep DEF SetExec
<1>12. CASE LoadCount(c)
  BY <1>1, <1>12, LocalStep DEF LoadCount
<1>13. CASE StoreCount(c)
  BY <1>1, <1>13, LocalStep DEF StoreCount
<1>14. CASE Unlock(c)
  BY <1>1, <1>14, LocalStep DEF Unlock
<1>15. CASE StartClose(c)
  BY <1>1, <1>15, LocalStep DEF StartClose
<1>16. CASE TakeClose(c)
  BY <1>1, <1>16, LocalStep DEF TakeClose
<1>17. CASE TimeoutClose(c)
  BY <1>1, <1>17, LocalStep DEF TimeoutClose
<1>18. CASE LoadCountClose(c)
  BY <1>1, <1>18, LocalStep DEF LoadCountClose
<1>19. CASE StoreCountClose(c)
  BY <1>1, <1>19, LocalStep DEF StoreCountClose
<1>20. CASE TestCount(c)
  BY <1>1, <1>20, LocalStep DEF TestCount
<1>21. CASE ReleaseQuit(c)
  BY <1>1, <1>21, LocalStep DEF ReleaseQuit
<1>22. CASE Detach(c)
  BY <1>1, <1>22, LocalStep DEF Detach
<1>23. CASE ReleaseLeave(c)
  BY <1>1, <1>23, LocalStep DEF ReleaseLeave
<1> QED
  BY <1>2, <1>3, <1>4, <1>5, <1>6, <1>7, <1>8, <1>9, <1>10, <1>11, <1>12, <1>13, <1>14, <1>15, <1>16, <1>17, <1>18, <1>19, <1>20, <1>21, <1>22, <1>23

-----------------------------------------------------------------------------
\* What the invariant says of the names when nobody has launched through them.
LEMMA NoLaunchAtKey ==
  ASSUME NamesInv, ~Up
  PROVE  /\ ~KeyLaunched
         /\ \A d \in Clients : pc[d] # "cunlinkin"
  BY DEF NamesInv, KeyNamesUp, TeardownAlone, TearingDown

\* A client past the launch keeps the key's segment launched.
LEMMA KeyClients ==
  ASSUME TypeOK, NamesInv, NEW d \in Clients, segOf[d] = key, pc[d] \in KnowsCreated
  PROVE  KeyLaunched
  BY DEF NamesInv, SegmentsHeld, KeyLaunched

\* shmget and shmat: a fresh segment carries no launch, a known one no new claim.
LEMMA AttachNames ==
  ASSUME TypeOK, NamesInv, NEW c \in Clients, Attach(c)
  PROVE  NamesInv'
<1> USE DEF TypeOK, NamesInv, Serials
<1>1. /\ pc[c] = "idle" /\ pc' = [pc EXCEPT ![c] = "attached"]
      /\ attempts' = attempts + 1 /\ attempts + 1 \in Serials
      /\ att' = [att EXCEPT ![c] = attempts + 1]
      /\ key' = IF key = 0 THEN attempts + 1 ELSE key
      /\ segOf' = [segOf EXCEPT ![c] = key']
      /\ UNCHANGED <<inPipe, outPipe, des_process_created, inFifo, outFifo, des>>
  BY SessionAssumption DEF Attach, Goto, shmem
<1> HIDE DEF TypeOK, NamesInv, Serials
<1>2. key' # 0 /\ (key # 0 => key' = key) /\ (key = 0 => ~des_process_created[key'])
  <2>1. attempts \in Nat /\ ~des_process_created[attempts + 1]
    BY <1>1 DEF TypeOK, NamesInv, SerialsFresh
  <2> QED
    BY <1>1, <2>1
<1>3. \A d \in Clients \ {c} : segOf[d] = key' => segOf[d] = key
  BY <1>1 DEF TypeOK, NamesInv, SerialsFresh, Serials
<1>4. SerialsFresh'
  <2>1. key' <= attempts'
    <3>1. key \in Nat /\ attempts \in Nat
      BY DEF TypeOK
    <3> QED
      BY <1>1, <3>1 DEF NamesInv, SerialsFresh
  <2>2. \A d \in Clients : att'[d] <= attempts' /\ segOf'[d] <= attempts'
    BY <1>1, <2>1 DEF TypeOK, NamesInv, SerialsFresh
  <2>3. \A s \in Serials :
          s > attempts' => ~des_process_created'[s] /\ des'[s] = "none"
    BY <1>1 DEF TypeOK, NamesInv, SerialsFresh, Serials
  <2>4. \A d, e \in Clients : att'[d] = att'[e] /\ att'[d] # 0 => d = e
    BY <1>1 DEF TypeOK, NamesInv, SerialsFresh
  <2> QED
    BY <2>1, <2>2, <2>3, <2>4 DEF SerialsFresh
<1>5. LaunchOwnsNames'
  <2>1. des[attempts + 1] = "none"
    BY <1>1 DEF TypeOK, NamesInv, SerialsFresh
  <2> QED
    BY <1>1, <2>1 DEF TypeOK, NamesInv, LaunchOwnsNames, Serials
<1>6. LiveNamed'
  BY <1>1 DEF NamesInv, LiveNamed, Live
<1>7. SegmentsHeld'
  BY <1>1, <1>2 DEF TypeOK, NamesInv, SegmentsHeld, KnowsCreated, HasIn, HasOut
<1>8. KeyLaunched' => KeyLaunched
  BY <1>1, <1>2, <1>3 DEF TypeOK, KeyLaunched
<1>9. KeyNamesUp'
  BY <1>1, <1>2, <1>3, <1>8 DEF TypeOK, NamesInv, KeyNamesUp, Up, Doomed, HasIn, HasOut
<1>10. TeardownAlone'
  BY <1>1, <1>8 DEF TypeOK, NamesInv, TeardownAlone, TearingDown, Up, Doomed
<1> QED
  BY <1>4, <1>5, <1>6, <1>7, <1>9, <1>10 DEF NamesInv

\* createPipes(), first mkfifo: it fails on an existing name, so a creator that
\* gets through knows that nobody has launched at the key and nobody unlinks.
LEMMA MakeInFifoNames ==
  ASSUME TypeOK, NamesInv, NEW c \in Clients, MakeInFifo(c)
  PROVE  NamesInv'
<1>1. CASE inFifo # 0
  BY <1>1, LocalStep DEF MakeInFifo, Goto, mine, shmem, nameVars, names,
     BeforeFork, HasIn, HasOut, KnowsCreated
<1>2. CASE inFifo = 0
  <2>1. /\ pc[c] = "mkin" /\ pc' = [pc EXCEPT ![c] = "mkout"] /\ inFifo' = att[c]
        /\ UNCHANGED <<att, segOf, inPipe, outPipe, attempts,
                       des_process_created, key, outFifo, des>>
    BY <1>2 DEF MakeInFifo, Goto, mine, shmem
  <2>2. /\ ~KeyLaunched
        /\ \A d \in Clients : pc[d] # "cunlinkin"
    BY <1>2, NoLaunchAtKey DEF Up
  <2>3. att[c] # 0 /\ des[att[c]] = "none"
    BY <2>1 DEF NamesInv, LaunchOwnsNames, BeforeFork
  <2>4. ~KeyLaunched'
    BY <2>1, <2>2 DEF TypeOK, KeyLaunched
  <2>5. SerialsFresh'
    BY <2>1 DEF NamesInv, SerialsFresh
  <2>6. LaunchOwnsNames'
    BY <1>2, <2>1, <2>3 DEF TypeOK, NamesInv, LaunchOwnsNames, BeforeFork
  <2>7. LiveNamed'
    BY <1>2, <2>1 DEF NamesInv, LiveNamed, Live, Serials
  <2>8. SegmentsHeld'
    BY <2>1 DEF TypeOK, NamesInv, SegmentsHeld, BeforeFork, KnowsCreated, HasIn, HasOut
  <2>9. KeyNamesUp'
    <3>1. \A d \in Clients : segOf[d] = key => pc[d] \notin KnowsCreated
      BY <2>2, KeyClients
    <3> QED
      BY <2>1, <2>4, <3>1 DEF TypeOK, KeyNamesUp, KnowsCreated, HasIn, HasOut
  <2>10. TeardownAlone'
    BY <2>1, <2>2, <2>4 DEF TypeOK, NamesInv, TeardownAlone, TearingDown, Doomed
  <2> QED
    BY <2>5, <2>6, <2>7, <2>8, <2>9, <2>10 DEF NamesInv
<1> QED
  BY <1>1, <1>2

\* createPipes(), second mkfifo: as the first; both names are now the creator's.
LEMMA MakeOutFifoNames ==
  ASSUME TypeOK, NamesInv, NEW c \in Clients, MakeOutFifo(c)
  PROVE  NamesInv'
<1>1. CASE outFifo # 0
  BY <1>1, LocalStep DEF MakeOutFifo, Goto, mine, shmem, nameVars, names,
     BeforeFork, HasIn, HasOut, KnowsCreated
<1>2. CASE outFifo = 0
  <2>1. /\ pc[c] = "mkout" /\ pc' = [pc EXCEPT ![c] = "fork"] /\ outFifo' = att[c]
        /\ UNCHANGED <<att, segOf, inPipe, outPipe, attempts,
                       des_process_created, key, inFifo, des>>
    BY <1>2 DEF MakeOutFifo, Goto, mine, shmem
  <2>2. /\ ~KeyLaunched
        /\ \A d \in Clients : pc[d] # "cunlinkin"
    BY <1>2, NoLaunchAtKey DEF Up
  <2>3. att[c] # 0 /\ des[att[c]] = "none" /\ inFifo = att[c]
    BY <2>1 DEF NamesInv, LaunchOwnsNames, BeforeFork
  <2>4. ~KeyLaunched'
    BY <2>1, <2>2 DEF TypeOK, KeyLaunched
  <2>5. SerialsFresh'
    BY <2>1 DEF NamesInv, SerialsFresh
  <2>6. LaunchOwnsNames'
    BY <1>2, <2>1, <2>3 DEF TypeOK, NamesInv, LaunchOwnsNames, BeforeFork
  <2>7. LiveNamed'
    BY <1>2, <2>1 DEF NamesInv, LiveNamed, Live, Serials
  <2>8. SegmentsHeld'
    BY <2>1 DEF TypeOK, NamesInv, SegmentsHeld, BeforeFork, KnowsCreated, HasIn, HasOut
  <2>9. KeyNamesUp'
    <3>1. \A d \in Clients : segOf[d] = key => pc[d] \notin KnowsCreated
      BY <2>2, KeyClients
    <3> QED
      BY <2>1, <2>4, <3>1 DEF TypeOK, KeyNamesUp, KnowsCreated, HasIn, HasOut
  <2>10. TeardownAlone'
    BY <1>2, <2>1, <2>2 DEF TypeOK, NamesInv, TeardownAlone, TearingDown
  <2> QED
    BY <2>5, <2>6, <2>7, <2>8, <2>9, <2>10 DEF NamesInv
<1> QED
  BY <1>1, <1>2

\* fork(): DES starts over the names its creator owns, the only live one.
LEMMA ForkNames ==
  ASSUME TypeOK, NamesInv, NEW c \in Clients, Fork(c)
  PROVE  NamesInv'
<1>1. CASE pc' = [pc EXCEPT ![c] = "idle"] /\ UNCHANGED des
  BY <1>1, LocalStep DEF Fork, Goto, shmem, nameVars, names,
     BeforeFork, HasIn, HasOut, KnowsCreated
<1>2. CASE pc' = [pc EXCEPT ![c] = "forked"] /\ des' = [des EXCEPT ![att[c]] = "starting"]
  <2>1. /\ pc[c] = "fork"
        /\ UNCHANGED <<att, segOf, inPipe, outPipe, attempts,
                       des_process_created, key, inFifo, outFifo>>
    BY DEF Fork, Goto, shmem, names
  <2>2. /\ att[c] \in Serials /\ des[att[c]] = "none"
        /\ inFifo = att[c] /\ outFifo = att[c]
    BY <2>1, SessionAssumption DEF TypeOK, NamesInv, LaunchOwnsNames, BeforeFork, Serials
  <2>3. Up'
    BY <1>2, <2>1, <2>2 DEF TypeOK, Up, Serials
  <2>4. ~Up /\ ~Doomed(inFifo) /\ ~Doomed(outFifo)
    BY <2>2 DEF Up, Doomed
  <2>5. SerialsFresh'
    BY <1>2, <2>1, <2>2 DEF TypeOK, NamesInv, SerialsFresh, Serials
  <2>6. LaunchOwnsNames'
    <3>1. \A d \in Clients \ {c} : att[d] # 0 => att[d] # att[c]
      BY <2>2 DEF NamesInv, SerialsFresh
    <3> QED
      BY <1>2, <2>1, <2>2, <3>1 DEF TypeOK, NamesInv, LaunchOwnsNames, BeforeFork
  <2>7. LiveNamed'
    BY <1>2, <2>1, <2>2 DEF TypeOK, NamesInv, LiveNamed, Live
  <2>8. SegmentsHeld'
    BY <1>2, <2>1 DEF TypeOK, NamesInv, SegmentsHeld, BeforeFork, KnowsCreated, HasIn, HasOut
  <2>9. KeyNamesUp'
    <3>1. ~KeyLaunched
      BY <2>4, NoLaunchAtKey
    <3>2. \A d \in Clients : segOf[d] = key => pc[d] \notin KnowsCreated
      BY <3>1, KeyClients
    <3> QED
      BY <1>2, <2>1, <2>3, <3>2 DEF TypeOK, KeyNamesUp, KnowsCreated, HasIn, HasOut
  <2>10. TeardownAlone'
    BY <1>2, <2>1, <2>4 DEF TypeOK, NamesInv, TeardownAlone, TearingDown
  <2> QED
    BY <2>5, <2>6, <2>7, <2>8, <2>9, <2>10 DEF NamesInv
<1> QED
  BY <1>1, <1>2 DEF Fork, Goto

\* des_process_created = true only says of the segment what fork() already did.
LEMMA SetCreatedNames ==
  ASSUME TypeOK, NamesInv, NEW c \in Clients, SetCreated(c)
  PROVE  NamesInv'
<1>1. /\ pc[c] = "forked" /\ pc' = [pc EXCEPT ![c] = "launched"]
      /\ des_process_created' = [des_process_created EXCEPT ![segOf[c]] = TRUE]
      /\ UNCHANGED <<att, segOf, inPipe, outPipe, attempts, key, inFifo, outFifo, des>>
  BY DEF SetCreated, Goto, mine, names
<1>2. segOf[c] \in Serials /\ segOf[c] <= attempts
  BY <1>1, HeldSegment DEF NamesInv, SerialsFresh
<1>3. KeyLaunched' => KeyLaunched
  BY <1>1 DEF TypeOK, KeyLaunched
<1>4. SerialsFresh'
  BY <1>1, <1>2 DEF TypeOK, NamesInv, SerialsFresh, Serials
<1>5. LaunchOwnsNames'
  BY <1>1 DEF TypeOK, NamesInv, LaunchOwnsNames, BeforeFork
<1>6. LiveNamed'
  BY <1>1 DEF NamesInv, LiveNamed, Live
<1>7. SegmentsHeld'
  BY <1>1, <1>2 DEF TypeOK, NamesInv, SegmentsHeld, BeforeFork, KnowsCreated, HasIn, HasOut
<1>8. KeyNamesUp'
  BY <1>1, <1>3 DEF TypeOK, NamesInv, KeyNamesUp, Up, Doomed, HasIn, HasOut
<1>9. TeardownAlone'
  BY <1>1, <1>3 DEF TypeOK, NamesInv, TeardownAlone, TearingDown, Up, Doomed
<1> QED
  BY <1>4, <1>5, <1>6, <1>7, <1>8, <1>9 DEF NamesInv

\* Opening a FIFO of the key's segment opens the one at the name.
LEMMA OpenNames ==
  ASSUME TypeOK, NamesInv, NEW c \in Clients, OpenIn(c) \/ OpenOut(c)
  PROVE  NamesInv'
<1>1. /\ \/ /\ pc[c] \in {"opening", "joining"}
            /\ \/ pc' = [pc EXCEPT ![c] = "openout"]
               \/ pc' = [pc EXCEPT ![c] = "joinout"]
            /\ inPipe' = [inPipe EXCEPT ![c] = inFifo] /\ outPipe' = outPipe
         \/ /\ pc[c] \in {"openout", "joinout"}
            /\ \/ pc' = [pc EXCEPT ![c] = "banner"]
               \/ pc' = [pc EXCEPT ![c] = "load"]
            /\ inPipe' = inPipe /\ outPipe' = [outPipe EXCEPT ![c] = outFifo]
      /\ UNCHANGED <<att, segOf, attempts, des_process_created, key, inFifo, outFifo, des>>
  BY DEF OpenIn, OpenOut, Goto, shmem, names
<1>2. KeyLaunched' => KeyLaunched
  BY <1>1 DEF TypeOK, KeyLaunched
<1>3. SerialsFresh'
  BY <1>1 DEF NamesInv, SerialsFresh
<1>4. LaunchOwnsNames'
  BY <1>1 DEF TypeOK, NamesInv, LaunchOwnsNames, BeforeFork
<1>5. LiveNamed'
  BY <1>1 DEF NamesInv, LiveNamed, Live
<1>6. SegmentsHeld'
  BY <1>1 DEF TypeOK, NamesInv, SegmentsHeld, BeforeFork, KnowsCreated, HasIn, HasOut
<1>7. KeyNamesUp'
  BY <1>1, <1>2 DEF TypeOK, NamesInv, KeyNamesUp, Up, Doomed, HasIn, HasOut
<1>8. TeardownAlone'
  BY <1>1, <1>2 DEF TypeOK, NamesInv, TeardownAlone, TearingDown, Up, Doomed
<1> QED
  BY <1>3, <1>4, <1>5, <1>6, <1>7, <1>8 DEF NamesInv

\* des_process_created is already set: the step is local.
LEMMA ReadBannerNames ==
  ASSUME TypeOK, NamesInv, NEW c \in Clients, ReadBanner(c)
  PROVE  NamesInv'
<1>1. pc[c] = "banner"
  BY DEF ReadBanner, Goto
<1>2. des_process_created[segOf[c]] /\ segOf[c] \in Serials
  BY <1>1, HeldSegment DEF NamesInv, SegmentsHeld, KnowsCreated, HasIn, HasOut
<1>3. UNCHANGED des_process_created
  BY <1>2 DEF ReadBanner, TypeOK
<1> QED
  BY <1>1, <1>2, <1>3, LocalStep DEF ReadBanner, Goto, mine, names, nameVars,
     BeforeFork, HasIn, HasOut, KnowsCreated

\* "/q" dooms the DES process that the closing client writes to; behind the key
\* that is the one at the names.
LEMMA SendQuitNames ==
  ASSUME TypeOK, NamesInv, NEW c \in Clients, SendQuit(c)
  PROVE  NamesInv'
<1>1. /\ pc[c] = "csendq" /\ pc' = [pc EXCEPT ![c] = "cdetach"]
      /\ des' = [des EXCEPT ![inPipe[c]] =
                   IF @ \in {"starting", "running"} THEN "quitting" ELSE @]
      /\ UNCHANGED <<att, segOf, inPipe, outPipe, attempts,
                     des_process_created, key, inFifo, outFifo>>
  BY DEF SendQuit, Goto, mine, shmem, names
<1>2. \A g \in Serials :
        /\ des'[g] = "none" <=> des[g] = "none"
        /\ Doomed(g) => Doomed(g)'
        /\ Live(g)' => Live(g)
  BY <1>1 DEF TypeOK, Doomed, Live
<1>3. KeyLaunched' => KeyLaunched
  BY <1>1 DEF TypeOK, KeyLaunched
<1>4. SerialsFresh'
  BY <1>1, <1>2 DEF NamesInv, SerialsFresh
<1>5. LaunchOwnsNames'
  BY <1>1, <1>2, SessionAssumption DEF TypeOK, NamesInv, LaunchOwnsNames, BeforeFork, Serials
<1>6. LiveNamed'
  BY <1>1, <1>2 DEF NamesInv, LiveNamed
<1>7. SegmentsHeld'
  BY <1>1 DEF TypeOK, NamesInv, SegmentsHeld, BeforeFork, KnowsCreated, HasIn, HasOut
<1>8. Up => Up'
  BY <1>1, <1>2, SessionAssumption DEF TypeOK, Up, Serials
<1>9. KeyNamesUp'
  <2>1. ASSUME segOf[c] = key PROVE Doomed(inPipe[c])'
    <3>1. Up /\ inPipe[c] = inFifo
      BY <1>1, <2>1, KeyClients
      DEF NamesInv, KeyNamesUp, HasIn, HasOut, KnowsCreated
    <3>2. inPipe[c] \in Serials /\ des[inPipe[c]] \in {"starting", "running", "quitting", "gone"}
      BY <3>1, SessionAssumption DEF TypeOK, Up, Serials, DesStates
    <3> QED
      BY <1>1, <3>2 DEF TypeOK, Doomed
  <2>2. \A d \in Clients :
          segOf[d] = key /\ pc[d] \in {"cdetach", "crmid"} => Doomed(inPipe[d])'
    <3> SUFFICES ASSUME NEW d \in Clients, segOf[d] = key, pc[d] \in {"cdetach", "crmid"}
                 PROVE  Doomed(inPipe[d])'
      BY <1>1
    <3>1. Up /\ inPipe[d] = inFifo /\ Doomed(inPipe[d])
      BY KeyClients DEF NamesInv, KeyNamesUp, HasIn, HasOut, KnowsCreated
    <3>2. inPipe[d] \in Serials
      BY <3>1, SessionAssumption DEF TypeOK, Up, Serials
    <3> QED
      BY <1>1, <1>2, <3>1, <3>2 DEF Doomed
  <2> QED
    BY <1>1, <1>3, <1>8, <2>1, <2>2 DEF TypeOK, NamesInv, KeyNamesUp, Doomed, HasIn, HasOut
<1>10. TeardownAlone'
  <2>1. /\ inFifo # 0 /\ Doomed(inFifo) => Doomed(inFifo)'
        /\ outFifo # 0 /\ Doomed(outFifo) => Doomed(outFifo)'
    BY <1>1, <1>2, SessionAssumption DEF TypeOK, Doomed, Serials
  <2>2. \A d \in Clients : TearingDown(d)' => TearingDown(d) /\ pc'[d] = pc[d]
    BY <1>1 DEF TypeOK, TearingDown
  <2> QED
    BY <1>1, <1>3, <1>8, <2>1, <2>2 DEF NamesInv, TeardownAlone, Up
<1> QED
  BY <1>4, <1>5, <1>6, <1>7, <1>9, <1>10 DEF NamesInv

\* Where shmctl(IPC_RMID) succeeds for one client of a segment, it gives that one
\* alone the right to unlink names whose DES process has been told to quit.
LEMMA RemoveSegmentNames ==
  ASSUME TypeOK, NamesInv, NEW c \in Clients, RemovedOnce \/ RemovesKey(c),
         RemoveSegment(c)
  PROVE  NamesInv'
<1>1. /\ pc[c] = "crmid" /\ segOf' = [segOf EXCEPT ![c] = 0]
      /\ \/ key = segOf[c] /\ pc' = [pc EXCEPT ![c] = "cunlinkin"] /\ key' = 0
         \/ key # segOf[c] /\ pc' = [pc EXCEPT ![c] = "detached"] /\ key' = key
      /\ UNCHANGED <<att, inPipe, outPipe, attempts, des_process_created,
                     inFifo, outFifo, des>>
  BY DEF RemovedOnce, RemovesKey, RemoveSegment, Goto, shmem
<1>2. KeyLaunched' => KeyLaunched
  BY <1>1 DEF TypeOK, KeyLaunched
<1>3. SerialsFresh'
  BY <1>1 DEF TypeOK, NamesInv, SerialsFresh
<1>4. LaunchOwnsNames'
  BY <1>1 DEF TypeOK, NamesInv, LaunchOwnsNames, BeforeFork
<1>5. LiveNamed'
  BY <1>1 DEF NamesInv, LiveNamed, Live
<1>6. SegmentsHeld'
  BY <1>1 DEF TypeOK, NamesInv, SegmentsHeld, BeforeFork, KnowsCreated, HasIn, HasOut
<1>7. CASE key = segOf[c]
  <2>1. KeyLaunched /\ Up /\ Doomed(inFifo)
    BY <1>1, <1>7, KeyClients DEF NamesInv, KeyNamesUp, KnowsCreated, HasIn, HasOut
  <2>2. ~KeyLaunched'
    BY <1>1, <1>7, HeldSegment DEF KeyLaunched, KnowsCreated, HasIn, HasOut, Serials
  <2>3. \A d \in Clients : ~TearingDown(d)
    BY <2>1 DEF NamesInv, TeardownAlone
  <2>4. key # 0 /\ key' = 0
    BY <1>1, <1>7, <2>1 DEF KeyLaunched
  <2>5. KeyNamesUp'
    <3>1. \A d \in Clients : pc'[d] \in HasIn => segOf'[d] # 0
      BY <1>1, <1>6 DEF SegmentsHeld, KnowsCreated
    <3> QED
      BY <2>2, <2>4, <3>1 DEF KeyNamesUp, HasIn, HasOut
  <2>6. TeardownAlone'
    BY <1>1, <1>7, <2>1, <2>2, <2>3 DEF TypeOK, TeardownAlone, TearingDown, Up, Doomed
  <2> QED
    BY <1>3, <1>4, <1>5, <1>6, <2>5, <2>6 DEF NamesInv
<1>8. CASE key # segOf[c]
  <2>1. KeyNamesUp'
    BY <1>1, <1>2, <1>8 DEF TypeOK, NamesInv, KeyNamesUp, Up, Doomed, HasIn, HasOut
  <2>2. TeardownAlone'
    BY <1>1, <1>2, <1>8 DEF TypeOK, NamesInv, TeardownAlone, TearingDown, Up, Doomed
  <2> QED
    BY <1>3, <1>4, <1>5, <1>6, <2>1, <2>2 DEF NamesInv
<1> QED
  BY <1>7, <1>8

\* What an unlinking client knows: nobody is launching, nothing live is named.
LEMMA Unlinking ==
  ASSUME TypeOK, NamesInv, NEW c \in Clients, TearingDown(c)
  PROVE  /\ ~KeyLaunched
         /\ \A d \in Clients \ {c} : ~TearingDown(d)
         /\ \A d \in Clients : pc[d] # "fork"
         /\ \A d \in Clients : pc[c] = "cunlinkin" => pc[d] # "mkout"
         /\ \A g \in Serials : ~Live(g)
         /\ \A d \in Clients : segOf[d] = key => pc[d] \notin KnowsCreated
<1> USE DEF NamesInv, TeardownAlone, TearingDown
<1>1. ~KeyLaunched /\ \A d \in Clients \ {c} : ~TearingDown(d)
  OBVIOUS
<1>2. /\ pc[c] = "cunlinkin" => inFifo # 0 /\ outFifo = inFifo /\ Doomed(inFifo)
      /\ outFifo # 0 /\ Doomed(outFifo)
  BY DEF Up
<1>3. \A d \in Clients :
        /\ pc[d] = "fork" => outFifo = att[d] /\ des[att[d]] = "none"
        /\ pc[d] = "mkout" => inFifo = att[d] /\ des[att[d]] = "none"
  BY DEF LaunchOwnsNames, BeforeFork
<1>4. \A d \in Clients : segOf[d] = key => pc[d] \notin KnowsCreated
  BY <1>1, KeyClients
<1>5. \A g \in Serials : ~Live(g)
  BY <1>2 DEF LiveNamed, Live, Doomed
<1> QED
  BY <1>1, <1>2, <1>3, <1>4, <1>5 DEF Doomed

\* unlink of the first FIFO disturbs no launch and no client of the key's segment.
LEMMA UnlinkInNames ==
  ASSUME TypeOK, NamesInv, NEW c \in Clients, UnlinkIn(c)
  PROVE  NamesInv'
<1>1. /\ pc[c] = "cunlinkin" /\ pc' = [pc EXCEPT ![c] = "cunlinkout"]
      /\ inFifo' = 0
      /\ inPipe' = [inPipe EXCEPT ![c] = 0] /\ outPipe' = [outPipe EXCEPT ![c] = 0]
      /\ UNCHANGED <<att, segOf, attempts, des_process_created, key, outFifo, des>>
  BY DEF UnlinkIn, Goto, shmem
<1>2. /\ ~KeyLaunched
      /\ \A d \in Clients \ {c} : ~TearingDown(d)
      /\ \A d \in Clients : pc[d] \notin {"fork", "mkout"}
      /\ \A g \in Serials : ~Live(g)
      /\ \A d \in Clients : segOf[d] = key => pc[d] \notin KnowsCreated
  BY <1>1, Unlinking DEF TearingDown
<1>3. ~KeyLaunched'
  BY <1>1, <1>2 DEF TypeOK, KeyLaunched
<1>4. SerialsFresh'
  BY <1>1 DEF NamesInv, SerialsFresh
<1>5. LaunchOwnsNames'
  BY <1>1, <1>2 DEF TypeOK, NamesInv, LaunchOwnsNames, BeforeFork
<1>6. LiveNamed'
  BY <1>1, <1>2 DEF LiveNamed, Live
<1>7. SegmentsHeld'
  BY <1>1 DEF TypeOK, NamesInv, SegmentsHeld, BeforeFork, KnowsCreated, HasIn, HasOut
<1>8. KeyNamesUp'
  BY <1>1, <1>2, <1>3 DEF TypeOK, KeyNamesUp, KnowsCreated, HasIn, HasOut
<1>9. TeardownAlone'
  <2>1. outFifo # 0 /\ Doomed(outFifo)
    BY <1>1 DEF NamesInv, TeardownAlone, TearingDown, Up
  <2> QED
    BY <1>1, <1>2, <1>3, <2>1 DEF TypeOK, TeardownAlone, TearingDown, Doomed
<1> QED
  BY <1>4, <1>5, <1>6, <1>7, <1>8, <1>9 DEF NamesInv

\* unlink of the second FIFO disturbs no launch and no client either.
LEMMA UnlinkOutNames ==
  ASSUME TypeOK, NamesInv, NEW c \in Clients, UnlinkOut(c)
  PROVE  NamesInv'
<1>1. /\ pc[c] = "cunlinkout" /\ pc' = [pc EXCEPT ![c] = "idle"]
      /\ outFifo' = 0
      /\ UNCHANGED <<att, segOf, inPipe, outPipe, attempts,
                     des_process_created, key, inFifo, des>>
  BY DEF UnlinkOut, Goto, mine, shmem
<1>2. /\ ~KeyLaunched
      /\ \A d \in Clients \ {c} : ~TearingDown(d)
      /\ \A d \in Clients : pc[d] # "fork"
      /\ \A g \in Serials : ~Live(g)
      /\ \A d \in Clients : segOf[d] = key => pc[d] \notin KnowsCreated
  BY <1>1, Unlinking DEF TearingDown
<1>3. ~KeyLaunched'
  BY <1>1, <1>2 DEF TypeOK, KeyLaunched
<1>4. SerialsFresh'
  BY <1>1 DEF NamesInv, SerialsFresh
<1>5. LaunchOwnsNames'
  BY <1>1, <1>2 DEF TypeOK, NamesInv, LaunchOwnsNames, BeforeFork
<1>6. LiveNamed'
  BY <1>1, <1>2 DEF LiveNamed, Live
<1>7. SegmentsHeld'
  BY <1>1 DEF TypeOK, NamesInv, SegmentsHeld, BeforeFork, KnowsCreated, HasIn, HasOut
<1>8. KeyNamesUp'
  BY <1>1, <1>2, <1>3 DEF TypeOK, KeyNamesUp, KnowsCreated, HasIn, HasOut
<1>9. TeardownAlone'
  BY <1>1, <1>2 DEF TypeOK, TeardownAlone, TearingDown
<1> QED
  BY <1>4, <1>5, <1>6, <1>7, <1>8, <1>9 DEF NamesInv

\* A client that closes its descriptors and leaves, or dies, keeps no claim.
LEMMA GoneNames ==
  ASSUME TypeOK, NamesInv, NEW c \in Clients, Leave(c) \/ Die(c)
  PROVE  NamesInv'
<1>1. /\ pc' = [pc EXCEPT ![c] = "idle"] \/ pc' = [pc EXCEPT ![c] = "dead"]
      /\ segOf' = [segOf EXCEPT ![c] = 0]
      /\ inPipe' = [inPipe EXCEPT ![c] = 0] /\ outPipe' = [outPipe EXCEPT ![c] = 0]
      /\ UNCHANGED <<att, attempts, des_process_created, key, inFifo, outFifo, des>>
  BY DEF Leave, Die, Goto, shmem, names
<1>2. KeyLaunched' => KeyLaunched
  BY <1>1 DEF TypeOK, KeyLaunched
<1>3. SerialsFresh'
  BY <1>1 DEF TypeOK, NamesInv, SerialsFresh
<1>4. LaunchOwnsNames'
  BY <1>1 DEF TypeOK, NamesInv, LaunchOwnsNames, BeforeFork
<1>5. LiveNamed'
  BY <1>1 DEF NamesInv, LiveNamed, Live
<1>6. SegmentsHeld'
  BY <1>1 DEF TypeOK, NamesInv, SegmentsHeld, BeforeFork, KnowsCreated, HasIn, HasOut
<1>7. KeyNamesUp'
  BY <1>1, <1>2 DEF TypeOK, NamesInv, KeyNamesUp, Up, Doomed, HasIn, HasOut
<1>8. TeardownAlone'
  BY <1>1, <1>2 DEF TypeOK, NamesInv, TeardownAlone, TearingDown, Up, Doomed
<1> QED
  BY <1>3, <1>4, <1>5, <1>6, <1>7, <1>8 DEF NamesInv

\* The DES process starts, ends, or quits: none of it revives a doomed one.
LEMMA DesNames ==
  ASSUME TypeOK, NamesInv, NEW g \in Serials, DesStep(g)
  PROVE  NamesInv'
<1>1. /\ \E to \in {"running", "gone"} : des' = [des EXCEPT ![g] = to]
      /\ des[g] # "none" /\ (des[g] \in {"quitting", "gone"} => des'[g] = "gone")
      /\ UNCHANGED <<pc, att, segOf, inPipe, outPipe, attempts,
                     des_process_created, key, inFifo, outFifo>>
  BY DEF TypeOK, DesStep, DesReady, DesFails, DesQuits, DesEof, DesBecomes, mine, shmem, names
<1>2. /\ \A h : des'[h] = "none" <=> des[h] = "none"
      /\ \A h : Doomed(h) => Doomed(h)'
      /\ \A h \in Serials : Live(h)' => Live(h)
  BY <1>1 DEF TypeOK, Doomed, Live, DesStates
<1>3. KeyLaunched' => KeyLaunched
  BY <1>1 DEF KeyLaunched
<1>4. SerialsFresh'
  BY <1>1, <1>2 DEF NamesInv, SerialsFresh
<1>5. LaunchOwnsNames'
  BY <1>1, <1>2 DEF NamesInv, LaunchOwnsNames
<1>6. LiveNamed'
  BY <1>1, <1>2 DEF NamesInv, LiveNamed
<1>7. SegmentsHeld'
  BY <1>1 DEF NamesInv, SegmentsHeld
<1>8. Up => Up'
  BY <1>1, <1>2 DEF Up
<1>9. KeyNamesUp'
  BY <1>1, <1>2, <1>3, <1>8 DEF NamesInv, KeyNamesUp, Doomed
<1>10. TeardownAlone'
  BY <1>1, <1>2, <1>3, <1>8 DEF NamesInv, TeardownAlone, TearingDown, Doomed
<1> QED
  BY <1>4, <1>5, <1>6, <1>7, <1>9, <1>10 DEF NamesInv

\* NamesInv is inductive relative to the types: every step of connect(), close(),
\* of the environment and of DES keeps it.
LEMMA NamesStep ==
  ASSUME RemovedOnce \/ \A c \in Clients : RemovesKey(c), TypeOK, NamesInv, [Next]_vars
  PROVE  NamesInv'
<1>1. CASE UNCHANGED vars
  BY <1>1 DEF vars, mine, shmem, names, NamesInv, SerialsFresh, LaunchOwnsNames,
     LiveNamed, SegmentsHeld, KeyNamesUp, TeardownAlone, KeyLaunched, Up, Doomed,
     Live, TearingDown
<1>2. ASSUME NEW c \in Clients, ConnectStep(c) PROVE NamesInv'
  BY <1>2, LocalSteps, MakeInFifoNames, MakeOutFifoNames, ForkNames,
     SetCreatedNames, OpenNames, ReadBannerNames DEF ConnectStep
<1>3. ASSUME NEW c \in Clients, CloseStep(c) PROVE NamesInv'
  BY <1>3, LocalSteps, SendQuitNames, RemoveSegmentNames, UnlinkInNames,
     UnlinkOutNames, GoneNames DEF CloseStep
<1>4. ASSUME NEW c \in Clients, Application(c) PROVE NamesInv'
  BY <1>4, AttachNames, LocalSteps, GoneNames DEF Application, Crash, CloseDetached
<1>5. ASSUME NEW g \in Serials, DesStep(g) PROVE NamesInv'
  BY <1>5, DesNames
<1> QED
  BY <1>1, <1>2, <1>3, <1>4, <1>5 DEF Next, CallStep

\* Before the first connect() there is no segment and no FIFO: the invariant holds.
LEMMA InitHolds == Init => TypeOK /\ NamesInv
<1> SUFFICES ASSUME Init PROVE TypeOK /\ NamesInv
  OBVIOUS
<1>1. TypeOK
  BY SessionAssumption DEF Init, TypeOK, Resting, DesStates
<1>2. ~KeyLaunched
  BY DEF Init, KeyLaunched
<1>3. SerialsFresh /\ LaunchOwnsNames /\ LiveNamed /\ SegmentsHeld
  BY DEF Init, SerialsFresh, LaunchOwnsNames, LiveNamed, Live, SegmentsHeld,
     BeforeFork, KnowsCreated, HasIn, HasOut
<1>4. KeyNamesUp /\ TeardownAlone
  BY <1>2 DEF Init, KeyNamesUp, TeardownAlone, TearingDown, HasIn, HasOut
<1> QED
  BY <1>1, <1>3, <1>4 DEF NamesInv

\* The argument of the code about its well-known names holds in every reachable
\* state, where the kernel lets nobody remove a segment twice: the FIFO names lock
\* the launch of DES, and only who removed the key's segment unlinks them.
THEOREM Invariance == RemovedOnce /\ Spec => [](TypeOK /\ NamesInv)
<1> SUFFICES ASSUME RemovedOnce PROVE Spec => [](TypeOK /\ NamesInv)
  OBVIOUS
<1>1. TypeOK /\ NamesInv /\ [Next]_vars => (TypeOK /\ NamesInv)'
  BY TypeStep, NamesStep DEF NamesInv
<1> QED
  BY <1>1, InitHolds, PTL DEF Spec

LEMMA NamesGiveOneLive == ASSUME TypeOK, NamesInv PROVE OneLiveDes
  BY DEF NamesInv, LiveNamed, OneLiveDes

LEMMA NamesGiveCurrent == ASSUME TypeOK, NamesInv PROVE CurrentPipes
<1> SUFFICES ASSUME NEW c \in Clients, pc[c] = "connected", segOf[c] = key
             PROVE  inPipe[c] = inFifo /\ outPipe[c] = outFifo /\ inFifo = outFifo
  BY DEF CurrentPipes
<1>1. KeyLaunched
  BY KeyClients DEF KnowsCreated, HasIn, HasOut
<1> QED
  BY <1>1 DEF NamesInv, KeyNamesUp, Up, HasIn, HasOut

\* A name that changes led to a DES process that was told to quit or is gone.
Kept ==
  /\ inFifo # 0 /\ inFifo' # inFifo => des[inFifo] \in {"quitting", "gone"}
  /\ outFifo # 0 /\ outFifo' # outFifo => des[outFifo] \in {"quitting", "gone"}

LEMMA NamesGiveKept == ASSUME TypeOK, NamesInv, Next PROVE Kept
<1> USE DEF Kept
<1>1. ASSUME NEW c \in Clients, UnlinkIn(c) PROVE Kept
  BY <1>1 DEF UnlinkIn, Goto, NamesInv, TeardownAlone, TearingDown, Doomed
<1>2. ASSUME NEW c \in Clients, UnlinkOut(c) PROVE Kept
  BY <1>2 DEF UnlinkOut, Goto, NamesInv, TeardownAlone, TearingDown, Doomed
<1>3. ASSUME NEW c \in Clients, ConnectStep(c) PROVE Kept
  BY <1>3 DEF ConnectStep, ReadCreated, SemInit, TakeConnect, TimeoutConnect,
     RejectExec, ChooseRole, MakeInFifo, MakeOutFifo, Fork, SetCreated,
     EarlyRelease, OpenIn, OpenOut, OpenTimeout, ReadBanner, CountOne, SetExec,
     LoadCount, StoreCount, Unlock, names
<1>4. ASSUME NEW c \in Clients, CloseStep(c) PROVE Kept
  BY <1>1, <1>2, <1>4 DEF CloseStep, TakeClose, TimeoutClose, LoadCountClose,
     StoreCountClose, TestCount, ReleaseQuit, SendQuit, Detach, RemoveSegment,
     ReleaseLeave, Leave, names
<1>5. ASSUME NEW c \in Clients, Application(c) PROVE Kept
  BY <1>5 DEF Application, Attach, StartClose, Crash, CloseDetached, Die, names
<1>6. ASSUME NEW g \in Serials, DesStep(g) PROVE Kept
  BY <1>6 DEF DesStep, DesReady, DesFails, DesQuits, DesEof, DesBecomes, names
<1> QED
  BY <1>3, <1>4, <1>5, <1>6 DEF Next, CallStep

\* However connect() calls race (shared semaphores initialised twice, the mutex
\* released twice), two DES processes nobody told to quit never coexist.
THEOREM OneLaunchAtATime == RemovedOnce /\ Spec => []OneLiveDes
  BY NamesGiveOneLive, Invariance, PTL

\* A client connected through the key's segment holds the FIFO pair at the names,
\* however other clients connect, close, time out or die.
THEOREM ClientsHoldCurrentPipes == RemovedOnce /\ Spec => []CurrentPipes
  BY NamesGiveCurrent, Invariance, PTL

\* close() never unlinks the FIFOs of a live DES process nor of a launch under way.
THEOREM UnlinkOnlyDoomed == RemovedOnce /\ Spec => LiveFifosKept
<1>1. TypeOK /\ NamesInv /\ [Next]_vars => [Kept]_vars
  BY NamesGiveKept
<1>2. []TypeOK /\ []NamesInv /\ [][Next]_vars => [][Kept]_vars
  BY <1>1, PTL
<1> QED
  BY <1>2, Invariance, PTL DEF Spec, LiveFifosKept, Kept

=============================================================================
