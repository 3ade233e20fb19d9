----------------------------- MODULE DesSession -----------------------------
(***************************************************************************)
(* The life of a connection of the Unix build: how the clients of one      *)
(* working directory find or launch the single global DES process, count   *)
(* themselves in the System V shared segment, and tear everything down     *)
(* when the last one leaves (driver/connect.cc, driver/handle.cc).         *)
(*                                                                         *)
(* A client is one DBC handle.  Every access to shared state that another  *)
(* client can interleave with is a step of its own: the semaphore          *)
(* operations, the load and the store of n_clients, each mkfifo, open,     *)
(* shmctl and unlink.  An operator named after another with a suffix is a  *)
(* plausible slip in that step; the model-checking runs use them to show   *)
(* that each property notices one.                                         *)
(***************************************************************************)
EXTENDS Integers, FiniteSets

CONSTANTS
  Clients,        \* the DBC handles, of any number of processes
  Exec,           \* Exec[c]: hash of the DES executable c's data source names
  NoExec,         \* exec_hash_int of a fresh segment (0 in the code)
  MaxConnects,    \* bound: connect() calls in a behaviour
  Overlap,        \* FALSE: no connect or close starts while another is running
  Crashes,        \* TRUE: a client process may die at any point
  LaunchMayFail,  \* TRUE: fork() may fail, the child may fail to become DES,
                  \* or be slower to open its FIFOs than a client waits
  RmidAgain       \* TRUE: IPC_RMID of a segment already removed succeeds while
                  \* some process has it mapped, as Linux has it; FALSE: it is
                  \* an error, as on the BSDs and macOS

ASSUME SessionAssumption ==
  /\ MaxConnects \in Nat
  /\ {Overlap, Crashes, LaunchMayFail, RmidAgain} \subseteq BOOLEAN
  /\ \A c \in Clients : Exec[c] # NoExec

VARIABLES
  pc,        \* where each client stands in connect() or close()
  att,       \* serial number of the client's latest connect() call
  segOf,     \* segment of the client's shm_id, 0 if none
  leaks,     \* segments still mapped by failed connects of the client
  inherited, \* segments a forked child may still map, per launch
  inPipe,    \* FIFO the client writes queries to, 0 if none is open
  outPipe,   \* FIFO the client reads answers from, 0 if none is open
  reg,       \* n_clients as the client last loaded it
  attempts,  \* connect() calls so far
  sem,                  \* per segment: value of shared_memory_mutex
  n_clients,            \* per segment, as the three below
  des_process_created,
  exec_hash_int,
  key,       \* segment the System V key leads to, 0 if none
  inFifo,    \* FIFO at IN_WPIPE_NAME, 0 if there is no such file
  outFifo,   \* FIFO at OUT_RPIPE_NAME, 0 if there is no such file
  des        \* the DES process launched over each FIFO pair

mine == <<att, segOf, leaks, inherited, inPipe, outPipe, reg, attempts>>
shmem == <<sem, n_clients, des_process_created, exec_hash_int>>
names == <<key, inFifo, outFifo>>
vars == <<pc, mine, shmem, names, des>>

\* Segments, FIFO pairs and DES processes carry the number of the connect()
\* call that made them: a call makes at most one of each.
Serials == 1 .. MaxConnects

ConnectSteps == {"attached", "seminit", "wait", "locked", "mkin", "mkout",
                 "fork", "forked", "launched", "opening", "openout", "banner",
                 "countone", "setexec", "joining", "joinout", "load", "store",
                 "unlock"}
CloseSteps == {"cwait", "cload", "cstore", "ctest", "cquit", "csendq", "cdetach",
               "crmid", "cunlinkin", "cunlinkout", "cleave", "cdrop"}
Resting == {"idle", "connected", "detached", "dead"}

DesStates == {"none", "starting", "running", "quitting", "gone"}

TypeOK ==
  /\ pc \in [Clients -> ConnectSteps \cup CloseSteps \cup Resting]
  /\ att \in [Clients -> 0 .. MaxConnects]
  /\ segOf \in [Clients -> 0 .. MaxConnects]
  /\ leaks \in [Clients -> SUBSET Serials]
  /\ inherited \in [Serials -> SUBSET Serials]
  /\ inPipe \in [Clients -> 0 .. MaxConnects]
  /\ outPipe \in [Clients -> 0 .. MaxConnects]
  /\ reg \in [Clients -> Int]
  /\ attempts \in 0 .. MaxConnects
  /\ sem \in [Serials -> Nat]
  /\ n_clients \in [Serials -> Int]
  /\ des_process_created \in [Serials -> BOOLEAN]
  /\ exec_hash_int \in [Serials -> {NoExec} \cup {Exec[c] : c \in Clients}]
  /\ key \in 0 .. MaxConnects
  /\ inFifo \in 0 .. MaxConnects
  /\ outFifo \in 0 .. MaxConnects
  /\ des \in [Serials -> DesStates]

\* A segment is what shmget returns: zeroed memory, not the initialisers of
\* the struct.
Init ==
  /\ pc = [c \in Clients |-> "idle"]
  /\ att = [c \in Clients |-> 0]
  /\ segOf = [c \in Clients |-> 0]
  /\ leaks = [c \in Clients |-> {}]
  /\ inherited = [g \in Serials |-> {}]
  /\ inPipe = [c \in Clients |-> 0]
  /\ outPipe = [c \in Clients |-> 0]
  /\ reg = [c \in Clients |-> 0]
  /\ attempts = 0
  /\ sem = [s \in Serials |-> 0]
  /\ n_clients = [s \in Serials |-> 0]
  /\ des_process_created = [s \in Serials |-> FALSE]
  /\ exec_hash_int = [s \in Serials |-> NoExec]
  /\ key = 0
  /\ inFifo = 0
  /\ outFifo = 0
  /\ des = [g \in Serials |-> "none"]

-----------------------------------------------------------------------------
Goto(c, from, to) == pc[c] = from /\ pc' = [pc EXCEPT ![c] = to]

MidCall(c) == pc[c] \in ConnectSteps \cup CloseSteps
Quiet(c) == Overlap \/ \A d \in Clients \ {c} : ~MidCall(d)

TakeUnguarded(s) == sem' = [sem EXCEPT ![s] = @ - 1]

\* get_mutex / release_mutex: sem_trywait and sem_post.  sem_post checks no
\* owner, so the value may pass 1.
Take(s) == sem[s] > 0 /\ sem' = [sem EXCEPT ![s] = @ - 1]
Post(s) == sem' = [sem EXCEPT ![s] = @ + 1]
OnlySemChanges == UNCHANGED <<n_clients, des_process_created, exec_hash_int>>

\* get_mutex gives up after MUTEX_TIMEOUT_SECONDS, right after a failed
\* sem_trywait.
CannotTake(s) == ~(sem[s] > 0)

-----------------------------------------------------------------------------
(* initialize(): find or make the segment, its semaphores, take the mutex. *)

\* shmget(IPC_CREAT) and shmat.  A failed connect() leaves its mapping behind.
Attach(c) ==
  /\ attempts < MaxConnects
  /\ Quiet(c)
  /\ Goto(c, "idle", "attached")
  /\ attempts' = attempts + 1
  /\ att' = [att EXCEPT ![c] = attempts + 1]
  /\ key' = IF key = 0 THEN attempts + 1 ELSE key
  /\ leaks' = [leaks EXCEPT ![c] = @ \cup ({segOf[c]} \ {0})]
  /\ segOf' = [segOf EXCEPT ![c] = key']
  /\ UNCHANGED <<inherited, inPipe, outPipe, reg, shmem, inFifo, outFifo, des>>

Created(c) == des_process_created[segOf[c]]

\* if (!des_process_created), read without the mutex.
ReadCreated(c) ==
  /\ \/ Goto(c, "attached", "wait") /\ Created(c)
     \/ Goto(c, "attached", "seminit") /\ ~Created(c)
  /\ UNCHANGED <<mine, shmem, names, des>>

SemInit(c) ==
  /\ Goto(c, "seminit", "wait")
  /\ sem' = [sem EXCEPT ![segOf[c]] = 1]
  /\ OnlySemChanges
  /\ UNCHANGED <<mine, names, des>>

TakeConnect(c) ==
  /\ Goto(c, "wait", "locked")
  /\ Take(segOf[c])
  /\ OnlySemChanges
  /\ UNCHANGED <<mine, names, des>>

TimeoutConnectNever(c) == FALSE /\ UNCHANGED vars

TimeoutConnect(c) ==
  /\ Goto(c, "wait", "idle")
  /\ CannotTake(segOf[c])
  /\ UNCHANGED <<mine, shmem, names, des>>

-----------------------------------------------------------------------------
(* connect(), the mutex held.                                              *)

OtherExecIgnored(c) == FALSE

OtherExec(c) == exec_hash_int[segOf[c]] \notin {NoExec, Exec[c]}

RejectExec(c) ==
  /\ Goto(c, "locked", "idle")
  /\ OtherExec(c)
  /\ Post(segOf[c])
  /\ OnlySemChanges
  /\ UNCHANGED <<mine, names, des>>

ChooseRole(c) ==
  /\ \/ Goto(c, "locked", "joining") /\ Created(c)
     \/ Goto(c, "locked", "mkin") /\ ~Created(c)
  /\ ~OtherExec(c)
  /\ UNCHANGED <<mine, shmem, names, des>>

\* createPipes(): an existing file is an error, and connect() returns it
\* without releasing the mutex.
MakeInFifo(c) ==
  /\ \/ inFifo = 0 /\ Goto(c, "mkin", "mkout") /\ inFifo' = att[c]
     \/ inFifo # 0 /\ Goto(c, "mkin", "idle") /\ UNCHANGED inFifo
  /\ UNCHANGED <<mine, shmem, key, outFifo, des>>

MakeOutFifo(c) ==
  /\ \/ outFifo = 0 /\ Goto(c, "mkout", "fork") /\ outFifo' = att[c]
     \/ outFifo # 0 /\ Goto(c, "mkout", "idle") /\ UNCHANGED outFifo
  /\ UNCHANGED <<mine, shmem, key, inFifo, des>>

\* Some client has segment s mapped.
Attached(s) ==
  \E c \in Clients : s \in leaks[c] \/ (segOf[c] = s /\ pc[c] # "crmid")

\* create_DES_process(): fork().  The child has what its process had mapped, of
\* whichever clients are in one process, until it becomes DES.
Fork(c) ==
  /\ \/ /\ Goto(c, "fork", "forked")
        /\ des' = [des EXCEPT ![att[c]] = "starting"]
        /\ inherited' = [inherited EXCEPT ![att[c]] = {s \in Serials : Attached(s)}]
     \/ /\ LaunchMayFail
        /\ Goto(c, "fork", "idle")
        /\ UNCHANGED <<des, inherited>>
  /\ UNCHANGED <<att, segOf, leaks, inPipe, outPipe, reg, attempts, shmem, names>>

SetCreated(c) ==
  /\ Goto(c, "forked", "launched")
  /\ des_process_created' = [des_process_created EXCEPT ![segOf[c]] = TRUE]
  /\ UNCHANGED <<mine, sem, n_clients, exec_hash_int, names, des>>

\* The parent releases the mutex its caller connect() holds and releases again.
EarlyRelease(c) ==
  /\ Goto(c, "launched", "opening")
  /\ Post(segOf[c])
  /\ OnlySemChanges
  /\ UNCHANGED <<mine, names, des>>

\* get_DES_process_pipes(): open(O_WRONLY | O_NONBLOCK) needs the file and a
\* process that reads it; the child counts as one while it blocks in open().
HasReader ==
  inFifo # 0 /\ des[inFifo] \in {"starting", "running", "quitting"}

OpenIn(c) ==
  /\ HasReader
  /\ Goto(c, "opening", "openout") \/ Goto(c, "joining", "joinout")
  /\ inPipe' = [inPipe EXCEPT ![c] = inFifo]
  /\ UNCHANGED <<att, segOf, leaks, inherited, outPipe, reg, attempts, shmem, names, des>>

\* open(O_RDONLY | O_NONBLOCK) needs the file only.
OpenOut(c) ==
  /\ outFifo # 0
  /\ Goto(c, "openout", "banner") \/ Goto(c, "joinout", "load")
  /\ outPipe' = [outPipe EXCEPT ![c] = outFifo]
  /\ UNCHANGED <<att, segOf, leaks, inherited, inPipe, reg, attempts, shmem, names, des>>

\* Either loop gives up after MUTEX_TIMEOUT_SECONDS.  A joiner that fails here
\* keeps the mutex.
NoReaderYet ==
  ~HasReader \/ (LaunchMayFail /\ inFifo # 0 /\ des[inFifo] = "starting")

OpenTimeout(c) ==
  /\ \/ NoReaderYet /\ (Goto(c, "opening", "idle") \/ Goto(c, "joining", "idle"))
     \/ outFifo = 0 /\ (Goto(c, "openout", "idle") \/ Goto(c, "joinout", "idle"))
  /\ UNCHANGED <<mine, shmem, names, des>>

\* The banner is read without the query mutex: read() fails (EAGAIN) when
\* another reader of the FIFO emptied it after FIONREAD.
ReadBanner(c) ==
  /\ \/ /\ Goto(c, "banner", "countone")
        /\ des_process_created' = [des_process_created EXCEPT ![segOf[c]] = TRUE]
     \/ /\ \E d \in Clients \ {c} : outPipe[d] = outPipe[c]
        /\ Goto(c, "banner", "idle")
        /\ UNCHANGED des_process_created
  /\ UNCHANGED <<mine, sem, n_clients, exec_hash_int, names, des>>

CountOne(c) ==
  /\ Goto(c, "countone", "setexec")
  /\ n_clients' = [n_clients EXCEPT ![segOf[c]] = 1]
  /\ UNCHANGED <<mine, sem, des_process_created, exec_hash_int, names, des>>

SetExec(c) ==
  /\ Goto(c, "setexec", "unlock")
  /\ exec_hash_int' = [exec_hash_int EXCEPT ![segOf[c]] = Exec[c]]
  /\ UNCHANGED <<mine, sem, n_clients, des_process_created, names, des>>

\* shmem->n_clients += 1 on plain shared memory: a load and a store.
LoadCount(c) ==
  /\ Goto(c, "load", "store")
  /\ reg' = [reg EXCEPT ![c] = n_clients[segOf[c]]]
  /\ UNCHANGED <<att, segOf, leaks, inherited, inPipe, outPipe, attempts, shmem,
                 names, des>>

StoreCountLost(c) ==
  /\ Goto(c, "store", "unlock")
  /\ n_clients' = [n_clients EXCEPT ![segOf[c]] = reg[c]]
  /\ reg' = [reg EXCEPT ![c] = 0]
  /\ UNCHANGED <<att, segOf, leaks, inherited, inPipe, outPipe, attempts, sem,
                 des_process_created, exec_hash_int, names, des>>

StoreCount(c) ==
  /\ Goto(c, "store", "unlock")
  /\ n_clients' = [n_clients EXCEPT ![segOf[c]] = reg[c] + 1]
  /\ reg' = [reg EXCEPT ![c] = 0]
  /\ UNCHANGED <<att, segOf, leaks, inherited, inPipe, outPipe, attempts, sem,
                 des_process_created, exec_hash_int, names, des>>

\* The release at the end of connect(): the second one of a creator.
Unlock(c) ==
  /\ Goto(c, "unlock", "connected")
  /\ Post(segOf[c])
  /\ OnlySemChanges
  /\ UNCHANGED <<mine, names, des>>

-----------------------------------------------------------------------------
(* close()                                                                 *)

StartClose(c) ==
  /\ Quiet(c)
  /\ Goto(c, "connected", "cwait")
  /\ UNCHANGED <<mine, shmem, names, des>>

TakeClose(c) ==
  /\ Goto(c, "cwait", "cload")
  /\ Take(segOf[c])
  /\ OnlySemChanges
  /\ UNCHANGED <<mine, names, des>>

\* The error return leaves connected set; the application may try again.
TimeoutClose(c) ==
  /\ Goto(c, "cwait", "connected")
  /\ CannotTake(segOf[c])
  /\ UNCHANGED <<mine, shmem, names, des>>

LoadCountClose(c) ==
  /\ Goto(c, "cload", "cstore")
  /\ reg' = [reg EXCEPT ![c] = n_clients[segOf[c]]]
  /\ UNCHANGED <<att, segOf, leaks, inherited, inPipe, outPipe, attempts, shmem,
                 names, des>>

StoreCountClose(c) ==
  /\ Goto(c, "cstore", "ctest")
  /\ n_clients' = [n_clients EXCEPT ![segOf[c]] = reg[c] - 1]
  /\ reg' = [reg EXCEPT ![c] = reg[c] - 1]
  /\ UNCHANGED <<att, segOf, leaks, inherited, inPipe, outPipe, attempts, sem,
                 des_process_created, exec_hash_int, names, des>>

TestCountAtMostOne(c) ==
  /\ \/ Goto(c, "ctest", "cquit") /\ reg[c] <= 1
     \/ Goto(c, "ctest", "cleave") /\ reg[c] > 1
  /\ reg' = [reg EXCEPT ![c] = 0]
  /\ UNCHANGED <<att, segOf, leaks, inherited, inPipe, outPipe, attempts, shmem,
                 names, des>>

\* if (n_clients == 0): the build may test the value it stored or load again.
TestCount(c) ==
  /\ \/ Goto(c, "ctest", "cquit") /\ 0 \in {reg[c], n_clients[segOf[c]]}
     \/ Goto(c, "ctest", "cleave") /\ {reg[c], n_clients[segOf[c]]} # {0}
  /\ reg' = [reg EXCEPT ![c] = 0]
  /\ UNCHANGED <<att, segOf, leaks, inherited, inPipe, outPipe, attempts, shmem,
                 names, des>>

\* The last client gives up the mutex before it tears anything down.
ReleaseQuit(c) ==
  /\ Goto(c, "cquit", "csendq")
  /\ Post(segOf[c])
  /\ OnlySemChanges
  /\ UNCHANGED <<mine, names, des>>

SendQuitForgotten(c) ==
  /\ Goto(c, "csendq", "cdetach")
  /\ UNCHANGED <<mine, shmem, names, des>>

\* send_query_and_read("/q"), without the query mutex.  The write fails
\* silently when DES is gone: SIGPIPE has an empty handler.
SendQuit(c) ==
  /\ Goto(c, "csendq", "cdetach")
  /\ des' = [des EXCEPT ![inPipe[c]] =
               IF @ \in {"starting", "running"} THEN "quitting" ELSE @]
  /\ UNCHANGED <<mine, shmem, names>>

\* shmdt; shm_id stays.
Detach(c) ==
  /\ Goto(c, "cdetach", "crmid")
  /\ UNCHANGED <<mine, shmem, names, des>>

RemoveSegmentRegardless(c) ==
  /\ Goto(c, "crmid", "cunlinkin")
  /\ key' = IF key = segOf[c] THEN 0 ELSE key
  /\ segOf' = [segOf EXCEPT ![c] = 0]
  /\ UNCHANGED <<att, leaks, inherited, inPipe, outPipe, reg, attempts, shmem,
                 inFifo, outFifo, des>>

\* A child between fork() and exec may have segment s mapped.
ChildMaps(s) ==
  \E g \in Serials : des[g] \in {"starting", "quitting"} /\ s \in inherited[g]

\* shmctl(IPC_RMID).  The key leads nowhere from now on.  Of a segment already
\* removed it is an error, which close() returns with connected set; but Linux
\* knows a removed segment until the last mapping goes.
RemoveSegment(c) ==
  LET s == segOf[c]
  IN  /\ \/ /\ key = s \/ (RmidAgain /\ (Attached(s) \/ ChildMaps(s)))
            /\ Goto(c, "crmid", "cunlinkin")
            /\ key' = IF key = s THEN 0 ELSE key
         \/ /\ key # s /\ ~(RmidAgain /\ Attached(s))
            /\ Goto(c, "crmid", "detached")
            /\ UNCHANGED key
      /\ segOf' = [segOf EXCEPT ![c] = 0]
      /\ UNCHANGED <<att, leaks, inherited, inPipe, outPipe, reg, attempts, shmem,
                     inFifo, outFifo, des>>

\* try_close of both descriptors, then unlink of the first name.
UnlinkIn(c) ==
  /\ Goto(c, "cunlinkin", "cunlinkout")
  /\ inPipe' = [inPipe EXCEPT ![c] = 0]
  /\ outPipe' = [outPipe EXCEPT ![c] = 0]
  /\ inFifo' = 0
  /\ UNCHANGED <<att, segOf, leaks, inherited, reg, attempts, shmem, key, outFifo, des>>

UnlinkOutForgotten(c) ==
  /\ Goto(c, "cunlinkout", "idle")
  /\ UNCHANGED <<mine, shmem, names, des>>

UnlinkOut(c) ==
  /\ Goto(c, "cunlinkout", "idle")
  /\ outFifo' = 0
  /\ UNCHANGED <<mine, shmem, key, inFifo, des>>

\* Not the last one: release, then shmdt and close the descriptors.
ReleaseLeave(c) ==
  /\ Goto(c, "cleave", "cdrop")
  /\ Post(segOf[c])
  /\ OnlySemChanges
  /\ UNCHANGED <<mine, names, des>>

Leave(c) ==
  /\ Goto(c, "cdrop", "idle")
  /\ segOf' = [segOf EXCEPT ![c] = 0]
  /\ inPipe' = [inPipe EXCEPT ![c] = 0]
  /\ outPipe' = [outPipe EXCEPT ![c] = 0]
  /\ UNCHANGED <<att, leaks, inherited, reg, attempts, shmem, names, des>>

-----------------------------------------------------------------------------
(* The environment: process deaths, and the DES process.                   *)

\* The kernel detaches the segment and closes the descriptors; the semaphore
\* and n_clients stay as they are.  A process started again is another client.
Die(c) ==
  /\ pc' = [pc EXCEPT ![c] = "dead"]
  /\ segOf' = [segOf EXCEPT ![c] = 0]
  /\ leaks' = [leaks EXCEPT ![c] = {}]
  /\ inPipe' = [inPipe EXCEPT ![c] = 0]
  /\ outPipe' = [outPipe EXCEPT ![c] = 0]
  /\ reg' = [reg EXCEPT ![c] = 0]
  /\ UNCHANGED <<att, inherited, attempts, shmem, names, des>>

Crash(c) == Crashes /\ pc[c] \notin {"idle", "dead"} /\ Die(c)

\* close() again after RemoveSegment failed: the semaphore it takes first is
\* in memory no longer mapped.
CloseDetached(c) == pc[c] = "detached" /\ Die(c)

DesBecomes(g, from, to) ==
  /\ des[g] = from
  /\ des' = [des EXCEPT ![g] = to]
  /\ UNCHANGED <<pc, mine, shmem, names>>

\* The child's blocking opens return once both FIFOs have their other end.
DesReady(g) ==
  /\ \E c, d \in Clients : inPipe[c] = g /\ outPipe[d] = g
  /\ DesBecomes(g, "starting", "running")

DesFails(g) == LaunchMayFail /\ DesBecomes(g, "starting", "gone")
DesQuits(g) == DesBecomes(g, "quitting", "gone")

\* End of file on DES's standard input: DES may end.
DesEof(g) == (\A c \in Clients : inPipe[c] # g) /\ DesBecomes(g, "running", "gone")

-----------------------------------------------------------------------------
ConnectStep(c) ==
  \/ ReadCreated(c) \/ SemInit(c) \/ TakeConnect(c) \/ TimeoutConnect(c)
  \/ RejectExec(c) \/ ChooseRole(c) \/ MakeInFifo(c) \/ MakeOutFifo(c)
  \/ Fork(c) \/ SetCreated(c) \/ EarlyRelease(c)
  \/ OpenIn(c) \/ OpenOut(c) \/ OpenTimeout(c) \/ ReadBanner(c)
  \/ CountOne(c) \/ SetExec(c) \/ LoadCount(c) \/ StoreCount(c) \/ Unlock(c)

CloseStep(c) ==
  \/ TakeClose(c) \/ TimeoutClose(c) \/ LoadCountClose(c) \/ StoreCountClose(c)
  \/ TestCount(c) \/ ReleaseQuit(c) \/ SendQuit(c) \/ Detach(c)
  \/ RemoveSegment(c) \/ UnlinkIn(c) \/ UnlinkOut(c) \/ ReleaseLeave(c) \/ Leave(c)

CallStep(c) == ConnectStep(c) \/ CloseStep(c)

Application(c) ==
  Attach(c) \/ StartClose(c) \/ Crash(c) \/ CloseDetached(c)

DesStep(g) == DesReady(g) \/ DesFails(g) \/ DesQuits(g) \/ DesEof(g)

Next ==
  \/ \E c \in Clients : CallStep(c) \/ Application(c)
  \/ \E g \in Serials : DesStep(g)

Spec == Init /\ [][Next]_vars

\* A call that has begun keeps running: the thread is scheduled, the polling
\* loops end.  Nothing obliges an application to call, or a process to die.
Fairness ==
  /\ \A c \in Clients : WF_vars(CallStep(c))
  /\ \A g \in Serials : WF_vars(DesReady(g)) /\ WF_vars(DesQuits(g))

FairSpec == Spec /\ Fairness

-----------------------------------------------------------------------------
(* Properties under any interleaving.                                      *)

Live(g) == des[g] \in {"starting", "running"}

\* However many clients believe they must create DES (the semaphores may be
\* initialised twice), createPipes() lets one launch at a time through: two
\* DES processes that nobody told to quit never coexist.  This and the next two
\* need a kernel that removes a segment once only (RmidAgain FALSE).
OneLiveDes == \A g, h \in Serials : Live(g) /\ Live(h) => g = h

\* close() never unlinks the FIFOs of a DES process that has not been told to
\* quit, nor those of a launch still under way, whoever else is connecting.
LiveFifosKept ==
  [][/\ inFifo # 0 /\ inFifo' # inFifo => des[inFifo] \in {"quitting", "gone"}
     /\ outFifo # 0 /\ outFifo' # outFifo => des[outFifo] \in {"quitting", "gone"}]_vars

\* A client connected through the segment the key leads to holds both ends of
\* the FIFO pair now at the well-known names: it talks to the DES process a
\* newcomer would find, and reads the answers of the process it writes to.
CurrentPipes ==
  \A c \in Clients :
    pc[c] = "connected" /\ segOf[c] = key
      => inPipe[c] = inFifo /\ outPipe[c] = outFifo /\ inFifo = outFifo

\* connect() and close() always return: every wait has a timeout, so a mutex
\* that nobody will release again blocks no caller for ever.
CallsReturn == \A c \in Clients : MidCall(c) ~> ~MidCall(c)

-----------------------------------------------------------------------------
(* The inductive invariant behind the safety properties above.  The argument  *)
(* of the code: the two FIFO names are the lock on launching DES, and the     *)
(* right to unlink them comes from having removed the segment the key led to. *)
(* Only where RmidAgain is FALSE does one client alone get that right.        *)

Doomed(g) == des[g] \in {"quitting", "gone"}

\* Both names lead to the FIFOs of one launch, and it has got to fork().
Up == inFifo # 0 /\ outFifo = inFifo /\ des[inFifo] # "none"

\* Somebody launched DES on the segment the key leads to.
KeyLaunched ==
  /\ key # 0
  /\ \/ des_process_created[key]
     \/ \E c \in Clients : pc[c] = "forked" /\ segOf[c] = key

BeforeFork == {"attached", "seminit", "wait", "locked", "mkin", "mkout", "fork"}
HasOut == {"banner", "countone", "setexec", "load", "store", "unlock",
           "connected", "cwait", "cload", "cstore", "ctest", "cquit", "csendq",
           "cdetach", "crmid", "cleave", "cdrop"}
HasIn == HasOut \cup {"openout", "joinout"}
KnowsCreated == HasIn \cup {"launched", "opening", "joining"}
TearingDown(c) == pc[c] \in {"cunlinkin", "cunlinkout"}

\* Numbers not given out yet are unused, and no two clients have the same one.
SerialsFresh ==
  /\ key <= attempts
  /\ \A c \in Clients : att[c] <= attempts /\ segOf[c] <= attempts
  /\ \A s \in Serials :
       s > attempts => ~des_process_created[s] /\ des[s] = "none"
  /\ \A c, d \in Clients : att[c] = att[d] /\ att[c] # 0 => c = d

\* A client before fork() has launched nothing; a creator between its mkfifos
\* and fork() owns the names it has made.
LaunchOwnsNames ==
  \A c \in Clients :
    /\ pc[c] \in BeforeFork => att[c] # 0 /\ des[att[c]] = "none"
    /\ pc[c] \in {"mkout", "fork"} => inFifo = att[c]
    /\ pc[c] = "fork" => outFifo = att[c]

\* A DES process that nobody told to quit is the one at the names.
LiveNamed == \A g \in Serials : Live(g) => inFifo = g /\ outFifo = g

SegmentsHeld ==
  \A c \in Clients :
    /\ pc[c] \in BeforeFork \cup {"forked"} \cup KnowsCreated => segOf[c] # 0
    /\ pc[c] \in KnowsCreated => des_process_created[segOf[c]]

\* While the key leads to a segment with a launch, the names stay, and its
\* clients hold them open.
KeyNamesUp ==
  /\ KeyLaunched => Up
  /\ \A c \in Clients : segOf[c] = key =>
       /\ pc[c] \in HasIn => inPipe[c] = inFifo
       /\ pc[c] \in HasOut => outPipe[c] = outFifo
       /\ pc[c] \in {"cdetach", "crmid"} => Doomed(inPipe[c])

\* One client at a time unlinks, names of a DES process told to quit, and no
\* segment with a launch is behind the key meanwhile.
TeardownAlone ==
  \A c \in Clients : TearingDown(c) =>
    /\ ~KeyLaunched
    /\ \A d \in Clients : TearingDown(d) => c = d
    /\ pc[c] = "cunlinkin" => Up /\ Doomed(inFifo)
    /\ pc[c] = "cunlinkout" => outFifo # 0 /\ Doomed(outFifo)

NamesInv ==
  /\ SerialsFresh /\ LaunchOwnsNames /\ LiveNamed /\ SegmentsHeld
  /\ KeyNamesUp /\ TeardownAlone

-----------------------------------------------------------------------------
(* What the code counts on, which holds when calls do not overlap.         *)

Connected == {c \in Clients : pc[c] = "connected"}
NobodyMidCall == \A c \in Clients : ~MidCall(c)
NobodyDied == \A c \in Clients : pc[c] # "dead"

\* Between calls, while no client died uncounted, n_clients is the number of
\* connected clients.
CountExact ==
  NobodyMidCall /\ NobodyDied /\ key # 0 => n_clients[key] = Cardinality(Connected)

\* When the last client has closed and none died, nothing is left: no segment
\* behind the key, no FIFO at either name, no DES process nobody told to quit.
NothingLeft ==
  NobodyMidCall /\ NobodyDied /\ Connected = {} =>
    /\ key = 0 /\ inFifo = 0 /\ outFifo = 0
    /\ \A g \in Serials : ~Live(g)

\* While none died, clients connected to one DES process named the same
\* executable.
SameExec ==
  NobodyDied =>
    \A c, d \in Connected : inPipe[c] = inPipe[d] => Exec[c] = Exec[d]

\* DES is told to quit only when no client is connected to it: the last close()
\* never takes it away from somebody.
QuitOnlyAlone ==
  [][\A g \in Serials :
       des[g] # "quitting" /\ des'[g] = "quitting" => \A c \in Connected : inPipe[c] # g]_vars

\* Clients that died uncounted make n_clients too high, never too low: a
\* crash may keep DES alive for ever but never takes it from a connected client.
CountNeverShort ==
  NobodyMidCall =>
    \A s \in Serials : n_clients[s] >= Cardinality({c \in Connected : segOf[c] = s})

\* No close() fails halfway, with the segment detached and connected still set.
NeverDetached == \A c \in Clients : pc[c] # "detached"

=============================================================================
