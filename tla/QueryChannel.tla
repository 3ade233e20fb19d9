---------------------------- MODULE QueryChannel ----------------------------
(***************************************************************************)
(* One query after another through the two FIFOs of the global DES process *)
(* (driver/execute.cc and its callers in cursor.cc, catalog.cc, info.cc,   *)
(* options.cc): a call takes the query mutex, writes the query, polls the  *)
(* answer FIFO, guesses from what it has read whether the answer is over,  *)
(* parses it and releases the mutex.  An answer carries nothing that says  *)
(* whose it is.                                                            *)
(*                                                                         *)
(* A query is the number of its write() to DES; an answer is cut into the  *)
(* pieces DES writes without a pause.  An operator named after another     *)
(* with a suffix is a plausible slip in it, used by the checking runs.     *)
(***************************************************************************)
EXTENDS Integers, Sequences, FiniteSets

CONSTANTS
  Clients,       \* connections of one DES process, each in a process of its own
  Calls,         \* the kinds of call the applications make
  Creator,       \* client still reading DES's banner at the start, or none
  Timing,        \* what is known of DES's speed, see MayTimeOut
  Crashes,       \* TRUE: a client process may die during a call
  BufferPieces,  \* BUFFER_SIZE, in pieces
  MaxPieces,     \* bound: pieces of an answer
  MaxQueries     \* bound: queries in a behaviour

\* The ways the code has of running a query:
\*   select       DES_do_query, a statement that builds a result table
\*   command      DES_do_query, any other statement
\*   process      DES_do_query of a /process command
\*   update       DES_do_query, INSERT or DELETE
\*   results      send_query_and_get_results, send_select_count
\*   rowUpdate    the positioned deletes and updates, the row and bulk inserts
\*   rowLoop      setpos_delete_bookmark_std, setpos_update_std
\*   foreignKeys  DES_SQLForeignKeys
\*   banner       create_DES_process reading what DES prints at its start
Kinds == {"select", "command", "process", "update", "results", "rowUpdate",
          "rowLoop", "foreignKeys"}

\* Written and read with the query mutex held.
Locked == Kinds \ {"foreignKeys"}

\* Calls that release the mutex once on every path that no exception leaves.
Balanced == Locked \ {"rowLoop"}

ASSUME ChannelAssumption ==
  /\ IsFiniteSet(Clients)
  /\ Calls \subseteq Kinds
  /\ Timing \in {"burst", "slow"}
  /\ Crashes \in BOOLEAN
  /\ {BufferPieces, MaxPieces} \subseteq Nat \ {0}
  /\ MaxQueries \in Nat

VARIABLES
  pc,       \* where each client stands in its call
  kind,     \* the kind of its latest call
  query,    \* number of the query it has written, 0 if none in this call
  got,      \* pieces read so far (tapi_output)
  owe,      \* sem_post calls still to come before the call returns
  reply,    \* the query whose whole answer the last call returned, 0 if none
  sem,      \* value of query_mutex
  sent,     \* queries written so far
  inPipe,   \* queries in DES's input FIFO
  outPipe,  \* pieces in DES's output FIFO
  answer    \* the answer DES is writing

client == <<pc, kind, query, got, owe, reply>>
wire == <<sent, inPipe, outPipe, answer>>
vars == <<client, sem, wire>>

\* Piece number at of the size pieces of the answer to query of.
Pieces == [of : 0 .. MaxQueries, at : 1 .. MaxPieces, size : 1 .. MaxPieces]

TypeOK ==
  /\ pc \in [Clients -> {"idle", "wait", "send", "poll", "read", "parse",
                        "post", "release", "dead"}]
  /\ kind \in [Clients -> Kinds \cup {"banner"}]
  /\ query \in [Clients -> 0 .. MaxQueries]
  /\ got \in [Clients -> Seq(Pieces)]
  /\ owe \in [Clients -> 0 .. 2]
  /\ reply \in [Clients -> 0 .. MaxQueries]
  /\ sem \in Nat
  /\ sent \in 0 .. MaxQueries
  /\ inPipe \in Seq(1 .. MaxQueries)
  /\ outPipe \in Seq(Pieces)
  /\ answer \in [of : 0 .. MaxQueries, written : 0 .. MaxPieces, size : 1 .. MaxPieces]

\* The banner is one piece, still to be written when there is a Creator.
Init ==
  /\ pc = [c \in Clients |-> IF c = Creator THEN "poll" ELSE "idle"]
  /\ kind = [c \in Clients |-> IF c = Creator THEN "banner" ELSE "command"]
  /\ query = [c \in Clients |-> 0]
  /\ got = [c \in Clients |-> <<>>]
  /\ owe = [c \in Clients |-> 0]
  /\ reply = [c \in Clients |-> 0]
  /\ sem = 1
  /\ sent = 0
  /\ inPipe = <<>>
  /\ outPipe = <<>>
  /\ answer = [of |-> 0, written |-> IF Creator \in Clients THEN 0 ELSE 1, size |-> 1]

-----------------------------------------------------------------------------
Goto(c, from, to) == pc[c] = from /\ pc' = [pc EXCEPT ![c] = to]
Note(c, r) == reply' = [reply EXCEPT ![c] = r]

Writing == answer.written < answer.size
InFlight == inPipe # <<>> \/ Writing \/ outPipe # <<>>

\* pieces is the whole answer to query q, and nothing else.
IsAnswer(pieces, q) ==
  /\ pieces # <<>> /\ q # 0
  /\ pieces = [i \in 1 .. Len(pieces) |-> [of |-> q, at |-> i, size |-> Len(pieces)]]

Reply(pieces) == IF pieces # <<>> /\ IsAnswer(pieces, pieces[1].of) THEN pieces[1].of ELSE 0

\* Entering a call.  MaxQueries bounds the queries of a behaviour.
Begin(c) ==
  /\ sent + Cardinality({d \in Clients : pc[d] \in {"wait", "send"}}) < MaxQueries
  /\ \E k \in Calls :
       /\ kind' = [kind EXCEPT ![c] = k]
       /\ Goto(c, "idle", IF k \in Locked THEN "wait" ELSE "send")
  /\ query' = [query EXCEPT ![c] = 0]
  /\ got' = [got EXCEPT ![c] = <<>>]
  /\ Note(c, 0)
  /\ UNCHANGED <<owe, sem, wire>>

TakeMutexUnguarded(c) ==
  /\ Goto(c, "wait", IF kind[c] \in Locked THEN "send" ELSE "parse")
  /\ sem' = sem - 1
  /\ UNCHANGED <<kind, query, got, owe, reply, wire>>

\* get_query_mutex.  DES_SQLForeignKeys only takes it once it has its answer.
TakeMutex(c) ==
  /\ sem > 0
  /\ Goto(c, "wait", IF kind[c] \in Locked THEN "send" ELSE "parse")
  /\ sem' = sem - 1
  /\ UNCHANGED <<kind, query, got, owe, reply, wire>>

MutexTimeoutNever(c) == FALSE /\ UNCHANGED vars

MutexTimeout(c) ==
  /\ sem = 0
  /\ Goto(c, "wait", "idle")
  /\ UNCHANGED <<kind, query, got, owe, reply, sem, wire>>

SendTwice(c) ==
  /\ Goto(c, "send", "poll")
  /\ sent' = sent + 1
  /\ query' = [query EXCEPT ![c] = sent + 1]
  /\ inPipe' = inPipe \o <<sent + 1, sent + 1>>
  /\ UNCHANGED <<kind, got, owe, reply, sem, outPipe, answer>>

Send(c) ==
  /\ Goto(c, "send", "poll")
  /\ sent' = sent + 1
  /\ query' = [query EXCEPT ![c] = sent + 1]
  /\ inPipe' = Append(inPipe, sent + 1)
  /\ UNCHANGED <<kind, got, owe, reply, sem, outPipe, answer>>

-----------------------------------------------------------------------------
(* DES: takes the queries in order, writes an answer of some size.         *)

DesTake ==
  /\ inPipe # <<>> /\ ~Writing
  /\ \E n \in 1 .. MaxPieces : answer' = [of |-> Head(inPipe), written |-> 0, size |-> n]
  /\ inPipe' = Tail(inPipe)
  /\ UNCHANGED <<client, sem, sent, outPipe>>

DesWrite ==
  /\ Writing
  /\ outPipe' = Append(outPipe, [of |-> answer.of, at |-> answer.written + 1,
                                 size |-> answer.size])
  /\ answer' = [answer EXCEPT !.written = @ + 1]
  /\ UNCHANGED <<client, sem, sent, inPipe>>

-----------------------------------------------------------------------------
(* read_DES_output_unix                                                    *)

\* The answer DES is writing is to /process or /dbschema: it may come in parts.
MayPause ==
  \E c \in Clients : query[c] = answer.of /\ kind[c] \in {"process", "foreignKeys"}

\* FIONREAD says there is something to read.  When Timing is "burst" any other
\* answer comes without a pause: who polls finds none of it or all of it.
PollData(c) ==
  /\ outPipe # <<>>
  /\ Timing = "burst" => ~Writing \/ MayPause
  /\ Goto(c, "poll", "read")
  /\ UNCHANGED <<kind, query, got, owe, reply, sem, wire>>

\* MAX_OUTPUT_WAIT_MS without data.  Only a "slow" DES pauses that long before
\* or within an answer.
MayTimeOut == outPipe = <<>> /\ (InFlight => Timing = "slow")

\* The output is over: parse it, with the mutex held.  banner stands alone;
\* foreignKeys takes the mutex now; results releases it first.
AfterOutput(k) ==
  CASE k = "banner" -> "idle" [] k = "foreignKeys" -> "wait"
    [] k = "results" -> "release" [] OTHER -> "parse"

PollTimeout(c) ==
  /\ MayTimeOut
  /\ Goto(c, "poll", AfterOutput(kind[c]))
  /\ UNCHANGED <<kind, query, got, owe, reply, sem, wire>>

CheckStopAtOnce(k, n, text) == TRUE
CheckStopNoSentinel(k, n, text) == n < BufferPieces

\* check_stop: a /process or /dbschema output ends with its sentinel, any other
\* when read() did not fill the buffer.
CheckStop(k, n, text) ==
  IF k \in {"process", "foreignKeys"}
    THEN \E i \in 1 .. Len(text) : text[i].at = text[i].size
    ELSE n < BufferPieces

Read(c) ==
  LET n == IF Len(outPipe) < BufferPieces THEN Len(outPipe) ELSE BufferPieces
      text == got[c] \o SubSeq(outPipe, 1, n)
  IN  /\ outPipe # <<>>
      /\ outPipe' = SubSeq(outPipe, n + 1, Len(outPipe))
      /\ got' = [got EXCEPT ![c] = text]
      /\ Goto(c, "read", IF CheckStop(kind[c], n, text) THEN AfterOutput(kind[c]) ELSE "poll")
      /\ UNCHANGED <<kind, query, owe, reply, sem, sent, inPipe, answer>>

\* Releases on the way out when read() fails: send_update_and_fetch_info makes
\* one and most of its callers make another.
ReadErrorPosts(k) ==
  CASE k \in {"update", "rowUpdate"} -> 2
    [] k \in {"command", "process", "results", "rowLoop"} -> 1
    [] OTHER -> 0

\* read() fails (EAGAIN): somebody emptied the FIFO after FIONREAD.  select and
\* foreignKeys go on with an empty output.
ReadFails(c) ==
  /\ outPipe = <<>>
  /\ \/ /\ kind[c] \in {"select", "foreignKeys", "banner"}
        /\ Goto(c, "read", AfterOutput(kind[c]))
        /\ UNCHANGED owe
     \/ /\ kind[c] \notin {"select", "foreignKeys", "banner"}
        /\ Goto(c, "read", "post")
        /\ owe' = [owe EXCEPT ![c] = ReadErrorPosts(kind[c])]
  /\ got' = [got EXCEPT ![c] = <<>>]
  /\ UNCHANGED <<kind, query, reply, sem, wire>>

-----------------------------------------------------------------------------
(* Parsing the output, and leaving.                                        *)

\* An uncaught exception ends the process, and with it the call.
Die(c) ==
  /\ pc' = [pc EXCEPT ![c] = "dead"]
  /\ owe' = [owe EXCEPT ![c] = 0]
  /\ UNCHANGED <<kind, query, got, reply, sem, wire>>

\* getLines("") throws, and stoll or stoi of what is no number: an empty output
\* is fatal, a wrong one may be.
NeedsOutput == {"select", "update", "rowUpdate", "rowLoop", "foreignKeys", "results"}
MayThrow(c) == kind[c] \in NeedsOutput /\ ~IsAnswer(got[c], query[c])
MustThrow(c) == kind[c] \in NeedsOutput /\ got[c] = <<>>

ParseThrows(c) == pc[c] = "parse" /\ MayThrow(c) /\ Die(c)

ParsePassesNoPost(c) ==
  /\ ~MustThrow(c)
  /\ Goto(c, "parse", "idle")
  /\ Note(c, Reply(got[c]))
  /\ UNCHANGED <<kind, query, got, owe, sem, wire>>

ParsePasses(c) ==
  /\ ~MustThrow(c)
  /\ Goto(c, "parse", "post")
  /\ owe' = [owe EXCEPT ![c] = 1]
  /\ UNCHANGED <<kind, query, got, reply, sem, wire>>

\* The output holds $error: rowLoop returns at once, the others release.
ParseError(c) ==
  /\ got[c] # <<>>
  /\ \/ /\ kind[c] = "rowLoop"
        /\ Goto(c, "parse", "idle")
        /\ Note(c, Reply(got[c]))
        /\ UNCHANGED owe
     \/ /\ kind[c] # "rowLoop"
        /\ Goto(c, "parse", "post")
        /\ owe' = [owe EXCEPT ![c] = 1]
        /\ UNCHANGED reply
  /\ UNCHANGED <<kind, query, got, sem, wire>>

\* release_query_mutex, once or twice, then the call returns.
Post(c) ==
  /\ Goto(c, "post", IF owe[c] > 1 THEN "post" ELSE "idle")
  /\ sem' = sem + 1
  /\ owe' = [owe EXCEPT ![c] = @ - 1]
  /\ IF owe[c] > 1 THEN UNCHANGED reply ELSE Note(c, Reply(got[c]))
  /\ UNCHANGED <<kind, query, got, wire>>

\* A results call parses after its release.
ReleaseThenParse(c) ==
  /\ \/ ~MustThrow(c) /\ Goto(c, "release", "idle") /\ Note(c, Reply(got[c]))
     \/ MayThrow(c) /\ Goto(c, "release", "dead") /\ UNCHANGED reply
  /\ sem' = sem + 1
  /\ UNCHANGED <<kind, query, got, owe, wire>>

Crash(c) == Crashes /\ pc[c] \notin {"idle", "dead"} /\ Die(c)

-----------------------------------------------------------------------------
CallStep(c) ==
  \/ TakeMutex(c) \/ MutexTimeout(c) \/ Send(c)
  \/ PollData(c) \/ PollTimeout(c) \/ Read(c) \/ ReadFails(c)
  \/ ParseThrows(c) \/ ParsePasses(c) \/ ParseError(c) \/ Post(c)
  \/ ReleaseThenParse(c)

DesStep == DesTake \/ DesWrite

Next ==
  \/ \E c \in Clients : CallStep(c) \/ Begin(c) \/ Crash(c)
  \/ DesStep

Spec == Init /\ [][Next]_vars

\* A call that has begun keeps running, and DES answers in the end.
FairSpec == Spec /\ WF_vars(DesStep) /\ \A c \in Clients : WF_vars(CallStep(c))

-----------------------------------------------------------------------------
(* Properties                                                              *)

\* Between taking the query mutex and the release that gives it back.
Holding(c) ==
  \/ kind[c] \in Locked /\ pc[c] \in {"send", "poll", "read", "parse", "post", "release"}
  \/ kind[c] = "foreignKeys" /\ pc[c] \in {"parse", "post"}

\* The query mutex is a mutex: one client at a time writes a query, reads and
\* parses the answer, whatever else fails.
QueryExclusive == \A c, d \in Clients : Holding(c) /\ Holding(d) => c = d

\* What a call parses is the whole answer to the query it wrote, not a part of
\* it, not the answer to the query of somebody else.
OwnAnswer ==
  \A c \in Clients :
    pc[c] \in {"parse", "post", "release"} => IsAnswer(got[c], query[c])

\* Whoever finds the mutex free finds the channel empty: nothing on its way to
\* DES, nothing half written, nothing left to read.
ChannelClean == sem > 0 => ~InFlight

\* However slow DES is, a client that holds the mutex never reads an answer
\* to a query written after its own: only stale ones can reach it.
NeverFuture ==
  \A c \in Clients : Holding(c) =>
    \A i \in 1 .. Len(got[c]) : got[c][i].of <= query[c]

\* With nobody in a call and no process dead, the mutex is free again.
MutexReturned == (\A c \in Clients : pc[c] = "idle") => sem = 1

\* A call always returns, with an answer or with an error, or its process dies.
CallsReturn == \A c \in Clients : pc[c] # "idle" ~> pc[c] \in {"idle", "dead"}

=============================================================================
