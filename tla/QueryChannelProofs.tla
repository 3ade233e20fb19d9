------------------------ MODULE QueryChannelProofs -------------------------
(***************************************************************************)
(* Theorems about QueryChannel, for any number of connections, queries and *)
(* pieces, with a DES of any speed and processes that die, as long as all  *)
(* calls are of the kinds that hold the query mutex from before the write  *)
(* to one release (WellBehaved); its types, for every kind of call.        *)
(*                                                                         *)
(* The double release after a failing read() (ReadErrorPosts) is harmless  *)
(* because it cannot happen: a read() only fails when somebody else empties*)
(* the FIFO, and the holder of the mutex is the only reader.               *)
(***************************************************************************)
EXTENDS QueryChannel, SequenceTheorems, FiniteSetTheorems, TLAPS

WellBehaved == Calls \subseteq Balanced /\ Creator \notin Clients

\* Pieces of answers to the queries written so far.
Upto(n) == {p \in [of : Nat, at : Nat, size : Nat] : p.of <= n}

Places == {"idle", "wait", "send", "poll", "read", "parse", "post", "release", "dead"}

\* The types the argument needs, without the bounds of TypeOK: whatever is in
\* the FIFOs, in DES or in a client belongs to a query already written.
Types ==
  /\ pc \in [Clients -> Places]
  /\ kind \in [Clients -> Balanced]
  /\ query \in [Clients -> Nat]
  /\ got \in [Clients -> Seq(Upto(sent))]
  /\ owe \in [Clients -> 0 .. 2]
  /\ sem \in Nat
  /\ sent \in Nat
  /\ inPipe \in Seq(0 .. sent)
  /\ outPipe \in Seq(Upto(sent))
  /\ answer \in [of : 0 .. sent, written : Nat, size : Nat]

\* A client between taking the mutex and its release, or about to release.
Holders == {"send", "poll", "read", "parse", "post", "release"}

\* The mutex is free, or one client that will release it once has it, or it
\* died with one.
MutexInv ==
  /\ sem \in {0, 1}
  /\ sem = 1 => \A c \in Clients : pc[c] \notin Holders
  /\ \A c, d \in Clients : pc[c] \in Holders /\ pc[d] \in Holders => c = d
  /\ \A c \in Clients : pc[c] = "post" => owe[c] = 1
  /\ sem = 0 => \E c \in Clients : pc[c] \in Holders \cup {"dead"}

\* Whoever was told there is something to read still finds it.
ReadInv == \A c \in Clients : pc[c] = "read" => outPipe # <<>>

\* A call starts with nothing read, and the query of the holder is the last one.
SentInv ==
  \A c \in Clients :
    /\ pc[c] \in {"wait", "send"} => got[c] = <<>>
    /\ pc[c] \in Holders \ {"send"} => query[c] = sent

IInv == Types /\ MutexInv /\ ReadInv /\ SentInv

\* With these kinds of call alone, holding the mutex is a matter of place.
LEMMA HoldersHold ==
  ASSUME Types, NEW c \in Clients
  PROVE  Holding(c) <=> pc[c] \in Holders
  BY DEF Types, Holding, Holders, Balanced, Locked, Kinds

\* read_DES_output_unix, done: a well-behaved call still holds the mutex.
LEMMA OutputOver ==
  ASSUME NEW k \in Balanced
  PROVE  AfterOutput(k) \in {"parse", "release"}
  BY DEF AfterOutput, Balanced, Locked, Kinds

\* What was written before a query was written before a later one.
LEMMA UptoGrows ==
  ASSUME NEW m \in Nat, NEW n \in Nat, m <= n
  PROVE  /\ Seq(Upto(m)) \subseteq Seq(Upto(n))
         /\ Seq(0 .. m) \subseteq Seq(0 .. n)
<1>1. Upto(m) \subseteq Upto(n)
  BY DEF Upto
<1>2. \A S, T : S \subseteq T => Seq(S) \subseteq Seq(T)
  OBVIOUS
<1>3. 0 .. m \subseteq 0 .. n
  OBVIOUS
<1> QED
  BY <1>1, <1>2, <1>3

\* Moving the front of one sequence to the end of another.
LEMMA FrontMoves ==
  ASSUME NEW S, NEW s \in Seq(S), NEW t \in Seq(S), NEW n \in 0 .. Len(t)
  PROVE  LET text == s \o SubSeq(t, 1, n)
             rest == SubSeq(t, n + 1, Len(t))
         IN  /\ text \in Seq(S) /\ Len(text) = Len(s) + n
             /\ \A i \in 1 .. Len(text) :
                  text[i] = IF i <= Len(s) THEN s[i] ELSE t[i - Len(s)]
             /\ rest \in Seq(S) /\ Len(rest) = Len(t) - n
             /\ \A i \in 1 .. Len(rest) : rest[i] = t[n + i]
<1> DEFINE front == SubSeq(t, 1, n)
           text == s \o front
           rest == SubSeq(t, n + 1, Len(t))
<1>1. Len(t) \in Nat /\ n \in Nat /\ n <= Len(t) /\ Len(s) \in Nat
  OBVIOUS
<1>2. \A i \in 1 .. Len(t) : t[i] \in S
  OBVIOUS
<1>3. /\ front \in Seq(S) /\ Len(front) = n
      /\ \A i \in 1 .. n : front[i] = t[i]
  <2>1. \A i \in 1 .. n : t[i] \in S
    BY <1>1, <1>2
  <2> QED
    BY <1>1, <2>1, SubSeqProperties
<1>4. /\ rest \in Seq(S) /\ Len(rest) = Len(t) - n
      /\ \A i \in 1 .. Len(rest) : rest[i] = t[n + i]
  <2>1. \A i \in n + 1 .. Len(t) : t[i] \in S
    BY <1>1, <1>2
  <2>2. /\ rest \in Seq(S)
        /\ Len(rest) = IF n + 1 <= Len(t) THEN Len(t) - (n + 1) + 1 ELSE 0
        /\ \A i \in 1 .. Len(t) - (n + 1) + 1 : rest[i] = t[n + 1 + i - 1]
    BY <1>1, <2>1, SubSeqProperties
  <2> QED
    BY <1>1, <2>2
<1> HIDE DEF front
<1>5. /\ text \in Seq(S) /\ Len(text) = Len(s) + Len(front)
      /\ \A i \in 1 .. Len(s) + Len(front) :
           text[i] = IF i <= Len(s) THEN s[i] ELSE front[i - Len(s)]
  BY <1>3, ConcatProperties DEF front
<1>6. \A i \in 1 .. Len(s) + n : i > Len(s) => front[i - Len(s)] = t[i - Len(s)]
  BY <1>1, <1>3
<1> QED
  BY <1>1, <1>3, <1>4, <1>5, <1>6

\* read() moves the front of the FIFO to the end of tapi_output.
LEMMA ReadMoves ==
  ASSUME Types, NEW c \in Clients, Read(c)
  PROVE  /\ pc[c] = "read" /\ UNCHANGED <<kind, query, owe, sem, sent, inPipe, answer>>
         /\ \E to \in {"poll", "parse", "release"} : pc' = [pc EXCEPT ![c] = to]
         /\ \E text \in Seq(Upto(sent)) : got' = [got EXCEPT ![c] = text]
         /\ outPipe' \in Seq(Upto(sent))
<1> DEFINE n == IF Len(outPipe) < BufferPieces THEN Len(outPipe) ELSE BufferPieces
           taken == SubSeq(outPipe, 1, n)
           to == IF CheckStop(kind[c], n, got[c] \o taken)
                   THEN AfterOutput(kind[c]) ELSE "poll"
<1>1. n \in 0 .. Len(outPipe) /\ Len(outPipe) \in Nat
  BY ChannelAssumption DEF Types
<1>2. to \in {"poll", "parse", "release"}
  BY OutputOver DEF Types
<1>3. /\ pc[c] = "read" /\ pc' = [pc EXCEPT ![c] = to]
      /\ got' = [got EXCEPT ![c] = got[c] \o taken]
      /\ outPipe' = SubSeq(outPipe, n + 1, Len(outPipe))
      /\ UNCHANGED <<kind, query, owe, sem, sent, inPipe, answer>>
  BY DEF Read, Goto
<1> HIDE DEF to, n
<1>4. got[c] \o taken \in Seq(Upto(sent)) /\ outPipe' \in Seq(Upto(sent))
  BY <1>1, <1>3, FrontMoves DEF Types
<1> QED
  BY <1>2, <1>3, <1>4

\* read() does not fail: FIONREAD saw data, and the holder alone reads.
LEMMA NoReadFails ==
  ASSUME ReadInv, NEW c \in Clients
  PROVE  ~ReadFails(c)
  BY DEF ReadInv, ReadFails, Goto

\* A client moves on within its call, or out of it without the mutex.
LEMMA MoveKeeps ==
  ASSUME IInv, NEW c \in Clients, NEW to \in Places, NEW posts \in 0 .. 2,
         pc' = [pc EXCEPT ![c] = to], owe' = [owe EXCEPT ![c] = posts],
         UNCHANGED <<kind, query, got, sem, sent, inPipe, outPipe, answer>>,
         to \notin {"wait", "send"},
         to = "post" => posts = 1,
         to = "read" => outPipe # <<>>,
         to \in Holders => pc[c] \in Holders \ {"send"},
         pc[c] # "dead", pc[c] \in Holders => to \in Holders \cup {"dead"}
  PROVE  IInv'
<1>1. Types'
  BY DEF IInv, Types
<1>2. MutexInv'
  <2> USE DEF IInv, Types, MutexInv, Holders
  <2>1. /\ sem' \in {0, 1}
        /\ sem' = 1 => \A d \in Clients : pc'[d] \notin Holders
    OBVIOUS
  <2>2. \A d, e \in Clients : pc'[d] \in Holders /\ pc'[e] \in Holders => d = e
    OBVIOUS
  <2>3. \A d \in Clients : pc'[d] = "post" => owe'[d] = 1
    OBVIOUS
  <2>4. sem' = 0 => \E d \in Clients : pc'[d] \in Holders \cup {"dead"}
    <3> SUFFICES ASSUME sem = 0 PROVE \E d \in Clients : pc'[d] \in Holders \cup {"dead"}
      OBVIOUS
    <3>1. PICK d \in Clients : pc[d] \in Holders \cup {"dead"}
      OBVIOUS
    <3> QED
      BY <3>1
  <2> QED
    BY <2>1, <2>2, <2>3, <2>4
<1>3. ReadInv'
  BY DEF IInv, Types, ReadInv
<1>4. SentInv'
  BY DEF IInv, Types, SentInv, Holders
<1> QED
  BY <1>1, <1>2, <1>3, <1>4 DEF IInv

\* Polling, giving up on the mutex, parsing, failing and dying are such moves.
LEMMA MovesKeep ==
  ASSUME WellBehaved, IInv, NEW c \in Clients,
         \/ MutexTimeout(c) \/ PollData(c) \/ PollTimeout(c) \/ ParseThrows(c)
         \/ ParsePasses(c) \/ ParseError(c) \/ Crash(c)
  PROVE  IInv'
<1> USE DEF Goto, Note, Places, Holders, wire
<1>1. owe[c] \in 0 .. 2 /\ owe' = [owe EXCEPT ![c] = owe'[c]]
  BY DEF IInv, Types, MutexTimeout, PollData, PollTimeout, ParseThrows, ParsePasses, ParseError, Crash, Die
<1>2. owe = [owe EXCEPT ![c] = owe[c]]
  BY DEF IInv, Types
<1>3. CASE MutexTimeout(c)
  BY <1>1, <1>2, <1>3, MoveKeeps DEF MutexTimeout
<1>4. CASE PollData(c)
  BY <1>1, <1>2, <1>4, MoveKeeps DEF PollData
<1>5. CASE PollTimeout(c)
  <2>1. AfterOutput(kind[c]) \in {"parse", "release"}
    BY OutputOver DEF IInv, Types
  <2> QED
    BY <1>1, <1>2, <1>5, <2>1, MoveKeeps DEF PollTimeout
<1>6. CASE ParseThrows(c) \/ Crash(c)
  BY <1>6, MoveKeeps DEF ParseThrows, Crash, Die
<1>7. CASE ParsePasses(c)
  <2>1. /\ pc[c] = "parse" /\ pc' = [pc EXCEPT ![c] = "post"]
        /\ owe' = [owe EXCEPT ![c] = 1]
        /\ UNCHANGED <<kind, query, got, sem, sent, inPipe, outPipe, answer>>
    BY <1>7 DEF ParsePasses
  <2>2. "post" \in Places /\ 1 \in 0 .. 2
    OBVIOUS
  <2> HIDE DEF Places, wire, Note, Goto
  <2> QED
    BY <2>1, <2>2, MoveKeeps
<1>8. CASE ParseError(c)
  <2>1. kind[c] # "rowLoop"
    BY DEF IInv, Types, Balanced
  <2> QED
    BY <1>8, <2>1, MoveKeeps DEF ParseError
<1> QED
  BY <1>3, <1>4, <1>5, <1>6, <1>7, <1>8

\* A new call waits for the mutex first, with nothing read.
LEMMA BeginKeeps ==
  ASSUME WellBehaved, IInv, NEW c \in Clients, Begin(c)
  PROVE  IInv'
<1>1. /\ pc[c] = "idle" /\ pc' = [pc EXCEPT ![c] = "wait"]
      /\ kind' \in [Clients -> Balanced]
      /\ query' = [query EXCEPT ![c] = 0] /\ got' = [got EXCEPT ![c] = <<>>]
      /\ UNCHANGED <<owe, sem, sent, inPipe, outPipe, answer>>
  BY DEF IInv, Types, Begin, Goto, wire, WellBehaved, Balanced
<1>2. Types'
  BY <1>1 DEF IInv, Types, Places
<1>3. MutexInv'
  BY <1>1 DEF IInv, Types, MutexInv, Holders
<1>4. ReadInv'
  BY <1>1 DEF IInv, Types, ReadInv, MutexInv, Holders
<1>5. SentInv'
  BY <1>1 DEF IInv, Types, SentInv, MutexInv, Holders
<1> QED
  BY <1>2, <1>3, <1>4, <1>5 DEF IInv

\* sem_trywait succeeds for one client; it has the mutex alone.
LEMMA TakeMutexKeeps ==
  ASSUME WellBehaved, IInv, NEW c \in Clients, TakeMutex(c)
  PROVE  IInv'
<1>1. /\ pc[c] = "wait" /\ pc' = [pc EXCEPT ![c] = "send"]
      /\ sem > 0 /\ sem' = sem - 1
      /\ UNCHANGED <<kind, query, got, owe, sent, inPipe, outPipe, answer>>
  BY DEF IInv, Types, TakeMutex, Goto, wire, Balanced
<1>2. Types'
  BY <1>1 DEF IInv, Types, Places
<1>3. MutexInv'
  BY <1>1 DEF IInv, Types, MutexInv, Holders
<1>4. ReadInv'
  BY <1>1 DEF IInv, Types, ReadInv, MutexInv, Holders
<1>5. SentInv'
  BY <1>1 DEF IInv, Types, SentInv, MutexInv, Holders
<1> QED
  BY <1>2, <1>3, <1>4, <1>5 DEF IInv

\* The holder writes the newest query.
LEMMA SendKeeps ==
  ASSUME WellBehaved, IInv, NEW c \in Clients, Send(c)
  PROVE  IInv'
<1>1. /\ pc[c] = "send" /\ pc' = [pc EXCEPT ![c] = "poll"]
      /\ sent' = sent + 1 /\ query' = [query EXCEPT ![c] = sent + 1]
      /\ inPipe' = Append(inPipe, sent + 1)
      /\ UNCHANGED <<kind, got, owe, sem, outPipe, answer>>
  BY DEF Send, Goto
<1>2. Types'
  <2>1. /\ Seq(Upto(sent)) \subseteq Seq(Upto(sent'))
        /\ Seq(0 .. sent) \subseteq Seq(0 .. sent')
    BY <1>1, UptoGrows DEF IInv, Types
  <2>2. got' \in [Clients -> Seq(Upto(sent'))] /\ outPipe' \in Seq(Upto(sent'))
    BY <1>1, <2>1 DEF IInv, Types
  <2>3. inPipe' \in Seq(0 .. sent')
    BY <1>1, <2>1 DEF IInv, Types
  <2>4. answer' \in [of : 0 .. sent', written : Nat, size : Nat]
    BY <1>1 DEF IInv, Types
  <2> QED
    BY <1>1, <2>2, <2>3, <2>4 DEF IInv, Types, Places
<1>3. MutexInv'
  BY <1>1 DEF IInv, Types, MutexInv, Holders
<1>4. ReadInv'
  BY <1>1 DEF IInv, Types, ReadInv, MutexInv, Holders
<1>5. SentInv'
  BY <1>1 DEF IInv, Types, SentInv, MutexInv, Holders
<1> QED
  BY <1>2, <1>3, <1>4, <1>5 DEF IInv

\* read() takes from the FIFO only what the holder is entitled to.
LEMMA ReadKeeps ==
  ASSUME WellBehaved, IInv, NEW c \in Clients, Read(c)
  PROVE  IInv'
<1>1. /\ pc[c] = "read" /\ UNCHANGED <<kind, query, owe, sem, sent, inPipe, answer>>
      /\ \E to \in {"poll", "parse", "release"} : pc' = [pc EXCEPT ![c] = to]
      /\ \E text \in Seq(Upto(sent)) : got' = [got EXCEPT ![c] = text]
      /\ outPipe' \in Seq(Upto(sent))
  BY ReadMoves DEF IInv
<1>2. Types'
  <2>1. pc' \in [Clients -> Places]
    BY <1>1 DEF IInv, Types, Places
  <2>2. got' \in [Clients -> Seq(Upto(sent))]
    BY <1>1 DEF IInv, Types
  <2> QED
    BY <1>1, <2>1, <2>2 DEF IInv, Types
<1>3. MutexInv'
  BY <1>1 DEF IInv, Types, MutexInv, Holders
<1>4. ReadInv'
  BY <1>1 DEF IInv, Types, ReadInv, MutexInv, Holders
<1>5. SentInv'
  BY <1>1 DEF IInv, Types, SentInv, MutexInv, Holders
<1> QED
  BY <1>2, <1>3, <1>4, <1>5 DEF IInv

\* release_query_mutex: once, and the call is over.
LEMMA PostKeeps ==
  ASSUME WellBehaved, IInv, NEW c \in Clients, Post(c)
  PROVE  IInv'
<1>1. /\ pc[c] = "post" /\ pc' = [pc EXCEPT ![c] = "idle"]
      /\ sem' = sem + 1 /\ owe' = [owe EXCEPT ![c] = 0]
      /\ UNCHANGED <<kind, query, got, sent, inPipe, outPipe, answer>>
  <2>1. pc[c] = "post" /\ owe[c] = 1
    BY DEF IInv, MutexInv, Post, Goto
  <2> QED
    BY <2>1 DEF Post, Goto, wire
<1>2. Types'
  BY <1>1 DEF IInv, Types, Places
<1>3. MutexInv'
  BY <1>1 DEF IInv, Types, MutexInv, Holders
<1>4. ReadInv'
  BY <1>1 DEF IInv, Types, ReadInv, MutexInv, Holders
<1>5. SentInv'
  BY <1>1 DEF IInv, Types, SentInv, MutexInv, Holders
<1> QED
  BY <1>2, <1>3, <1>4, <1>5 DEF IInv

\* A results call releases once, then parses and may die of it.
LEMMA ReleaseKeeps ==
  ASSUME WellBehaved, IInv, NEW c \in Clients, ReleaseThenParse(c)
  PROVE  IInv'
<1>1. /\ pc[c] = "release"
      /\ \E to \in {"idle", "dead"} : pc' = [pc EXCEPT ![c] = to]
      /\ sem' = sem + 1
      /\ UNCHANGED <<kind, query, got, owe, sent, inPipe, outPipe, answer>>
  BY DEF ReleaseThenParse, Goto, wire
<1>2. Types'
  <2>1. pc' \in [Clients -> Places] /\ sem' \in Nat
    BY <1>1 DEF IInv, Types, Places
  <2> QED
    BY <1>1, <2>1 DEF IInv, Types
<1>3. MutexInv'
  <2>1. sem = 0 /\ \A d \in Clients : d # c => pc[d] \notin Holders
    BY <1>1 DEF IInv, Types, MutexInv, Holders
  <2> QED
    BY <1>1, <2>1 DEF IInv, Types, MutexInv, Holders
<1>4. ReadInv'
  BY <1>1 DEF IInv, Types, ReadInv, MutexInv, Holders
<1>5. SentInv'
  BY <1>1 DEF IInv, Types, SentInv, MutexInv, Holders
<1> QED
  BY <1>2, <1>3, <1>4, <1>5 DEF IInv

\* DES takes a query or writes a piece: no client moves, nothing is newer.
LEMMA DesKeeps ==
  ASSUME IInv, DesStep
  PROVE  IInv'
<1>1. UNCHANGED <<pc, kind, query, got, owe, sem, sent>>
  BY DEF DesStep, DesTake, DesWrite, client
<1>2. /\ outPipe' \in Seq(Upto(sent)) /\ (outPipe # <<>> => outPipe' # <<>>)
      /\ inPipe' \in Seq(0 .. sent)
      /\ answer' \in [of : 0 .. sent, written : Nat, size : Nat]
  <2>1. CASE DesTake
    <3>1. PICK n \in 1 .. MaxPieces : answer' = [of |-> Head(inPipe), written |-> 0, size |-> n]
      BY <2>1 DEF DesTake
    <3>2. Head(inPipe) \in 0 .. sent /\ Tail(inPipe) \in Seq(0 .. sent)
      BY <2>1, HeadTailProperties DEF DesTake, IInv, Types
    <3> QED
      BY <2>1, <3>1, <3>2, ChannelAssumption DEF DesTake, IInv, Types
  <2>2. CASE DesWrite
    <3>1. /\ answer \in [of : 0 .. sent, written : Nat, size : Nat]
          /\ sent \in Nat /\ outPipe \in Seq(Upto(sent)) /\ inPipe \in Seq(0 .. sent)
      BY DEF IInv, Types
    <3> DEFINE p == [of |-> answer.of, at |-> answer.written + 1, size |-> answer.size]
    <3>2. p \in Upto(sent)
      BY <3>1 DEF Upto
    <3>3. answer' \in [of : 0 .. sent, written : Nat, size : Nat]
      <4>1. answer' = [answer EXCEPT !.written = answer.written + 1]
        BY <2>2 DEF DesWrite
      <4> QED
        BY <3>1, <4>1
    <3>4. outPipe' = Append(outPipe, p) /\ inPipe' = inPipe
      BY <2>2 DEF DesWrite
    <3> HIDE DEF p
    <3>5. outPipe' \in Seq(Upto(sent)) /\ outPipe' # <<>>
      BY <3>1, <3>2, <3>4
    <3> QED
      BY <3>1, <3>3, <3>4, <3>5
  <2> QED
    BY <2>1, <2>2 DEF DesStep
<1>3. Types'
  BY <1>1, <1>2 DEF IInv, Types
<1>4. MutexInv'
  BY <1>1 DEF IInv, MutexInv
<1>5. ReadInv'
  BY <1>1, <1>2 DEF IInv, ReadInv
<1>6. SentInv'
  BY <1>1 DEF IInv, SentInv
<1> QED
  BY <1>3, <1>4, <1>5, <1>6 DEF IInv

\* IInv is inductive: each step of a call, of a dying client and of DES keeps it.
LEMMA StepKeeps == ASSUME WellBehaved, IInv, [Next]_vars PROVE IInv'
<1>1. CASE UNCHANGED vars
  BY <1>1 DEF vars, client, wire, IInv, Types, MutexInv, ReadInv, SentInv
<1>2. ASSUME NEW c \in Clients, CallStep(c) PROVE IInv'
  <2>1. ~ReadFails(c)
    BY NoReadFails DEF IInv
  <2> QED
    BY <1>2, <2>1, MovesKeep, TakeMutexKeeps, SendKeeps, ReadKeeps, PostKeeps,
       ReleaseKeeps DEF CallStep
<1>3. ASSUME NEW c \in Clients, Begin(c) \/ Crash(c) PROVE IInv'
  BY <1>3, BeginKeeps, MovesKeep
<1>4. CASE DesStep
  BY <1>4, DesKeeps
<1> QED
  BY <1>1, <1>2, <1>3, <1>4 DEF Next

\* With no client reading the banner, the channel starts empty and the mutex free.
LEMMA InitHolds == WellBehaved /\ Init => IInv
<1> SUFFICES ASSUME WellBehaved, Init PROVE IInv
  OBVIOUS
<1>1. Types
  BY DEF WellBehaved, Init, Types, Places, Balanced, Locked, Kinds
<1>2. MutexInv /\ ReadInv /\ SentInv
  BY DEF WellBehaved, Init, MutexInv, ReadInv, SentInv, Holders
<1> QED
  BY <1>1, <1>2 DEF IInv

\* The discipline of the query mutex: in every reachable state it is free, held
\* by one client that reads the answers and will release it once, or lost to a
\* process that died.
THEOREM Invariance == WellBehaved /\ Spec => []IInv
<1> SUFFICES ASSUME WellBehaved PROVE Spec => []IInv
  OBVIOUS
<1>1. Init => IInv
  BY InitHolds
<1>2. IInv /\ [Next]_vars => IInv'
  BY StepKeeps
<1> QED
  BY <1>1, <1>2, PTL DEF Spec

\* The query mutex excludes, whatever DES's speed and whoever dies: one client at
\* a time writes a query, reads the FIFO and parses, and no error path of a
\* well-behaved call releases it twice.
THEOREM MutexExcludes == WellBehaved /\ Spec => []QueryExclusive
<1>1. IInv => QueryExclusive
  BY HoldersHold DEF IInv, MutexInv, QueryExclusive
<1> QED
  BY <1>1, Invariance, PTL

\* However late DES answers, a client never reads an answer to a query written
\* after its own: only the stale output of calls that gave up can reach it.
THEOREM OnlyStaleAnswers == WellBehaved /\ Spec => []NeverFuture
<1>1. IInv => NeverFuture
  <2> SUFFICES ASSUME IInv, NEW c \in Clients, Holding(c), NEW i \in 1 .. Len(got[c])
               PROVE  got[c][i].of <= query[c]
    BY DEF NeverFuture
  <2>1. got[c] \in Seq(Upto(sent)) /\ pc[c] \in Holders
    BY HoldersHold DEF IInv, Types
  <2>2. pc[c] # "send"
    BY <2>1 DEF IInv, SentInv
  <2>3. query[c] = sent
    BY <2>1, <2>2 DEF IInv, SentInv
  <2>4. got[c][i] \in Upto(sent)
    BY <2>1
  <2> QED
    BY <2>3, <2>4 DEF Upto
<1> QED
  BY <1>1, Invariance, PTL

\* Once every well-behaved call has returned, with an answer, an error or $error,
\* and no process has died, the query mutex is free: no path forgets it.
THEOREM MutexComesBack == WellBehaved /\ Spec => []MutexReturned
<1>1. IInv => MutexReturned
  BY DEF IInv, MutexInv, Holders, MutexReturned
<1> QED
  BY <1>1, Invariance, PTL

-----------------------------------------------------------------------------
(* The bounds of TypeOK, for every kind of call.                           *)

\* Calls that have a query to write.
Pending ==
  {c \in Clients : pc[c] = "send" \/ (pc[c] = "wait" /\ kind[c] \in Locked)}

\* Each of them still has a number, and who is to release has something to release.
BoundInv ==
  /\ sent + Cardinality(Pending) <= MaxQueries
  /\ \A c \in Clients : pc[c] = "post" => owe[c] # 0

TypeInv == TypeOK /\ BoundInv

LEMMA PendingFinite ==
  ASSUME TypeOK
  PROVE  IsFiniteSet(Pending) /\ Cardinality(Pending) \in Nat
<1>1. Pending \subseteq Clients
  BY DEF Pending
<1> QED
  BY <1>1, ChannelAssumption, FS_Subset, FS_CardinalityType

\* A step that starts no call leaves room for the pending ones.
LEMMA BoundKept ==
  ASSUME TypeInv, sent' = sent, Pending' \subseteq Pending,
         \A c \in Clients : pc'[c] = "post" => owe'[c] # 0
  PROVE  BoundInv'
<1>1. Cardinality(Pending') <= Cardinality(Pending) /\ Cardinality(Pending') \in Nat
  BY PendingFinite, FS_Subset, FS_CardinalityType DEF TypeInv
<1>2. sent \in Nat /\ Cardinality(Pending) \in Nat /\ MaxQueries \in Nat
  BY PendingFinite, ChannelAssumption DEF TypeInv, TypeOK
<1> QED
  BY <1>1, <1>2 DEF TypeInv, BoundInv

\* Entering a call, within the bound.
LEMMA BeginTyped ==
  ASSUME TypeInv, NEW c \in Clients, Begin(c)
  PROVE  TypeInv'
<1>1. PICK k \in Calls : /\ kind' = [kind EXCEPT ![c] = k] /\ pc[c] = "idle"
                         /\ pc' = [pc EXCEPT ![c] = IF k \in Locked THEN "wait" ELSE "send"]
  BY DEF Begin, Goto
<1>2. /\ query' = [query EXCEPT ![c] = 0] /\ got' = [got EXCEPT ![c] = <<>>]
      /\ reply' = [reply EXCEPT ![c] = 0]
      /\ UNCHANGED <<owe, sem, sent, inPipe, outPipe, answer>>
  BY DEF Begin, Note, wire
<1>3. TypeOK'
  BY <1>1, <1>2, ChannelAssumption DEF TypeInv, TypeOK
<1>4. sent' + Cardinality(Pending') <= MaxQueries
  <2> DEFINE W == {d \in Clients : pc[d] \in {"wait", "send"}}
  <2>1. Pending' \subseteq W \cup {c}
    BY <1>1 DEF Pending, TypeInv, TypeOK
  <2>2. IsFiniteSet(W) /\ sent + Cardinality(W) < MaxQueries
    BY ChannelAssumption, FS_Subset DEF Begin
  <2> HIDE DEF W
  <2>3. /\ IsFiniteSet(W \cup {c}) /\ Cardinality(W) \in Nat
        /\ Cardinality(W \cup {c}) <= Cardinality(W) + 1
    <3>1. /\ IsFiniteSet(W \cup {c})
          /\ Cardinality(W \cup {c})
               = IF c \in W THEN Cardinality(W) ELSE Cardinality(W) + 1
      BY <2>2, FS_AddElement, Zenon
    <3>2. Cardinality(W) \in Nat
      BY <2>2, FS_CardinalityType, Zenon
    <3> QED
      BY <3>1, <3>2
  <2>4. Cardinality(Pending') <= Cardinality(W \cup {c}) /\ Cardinality(Pending') \in Nat
    BY <2>1, <2>3, FS_Subset, FS_CardinalityType
  <2>5. Cardinality(W \cup {c}) \in Nat
    BY <2>3, FS_CardinalityType
  <2>6. sent \in Nat /\ sent' = sent /\ MaxQueries \in Nat
    BY <1>2, ChannelAssumption DEF TypeInv, TypeOK
  <2> QED
    BY <2>2, <2>3, <2>4, <2>5, <2>6
<1>5. \A d \in Clients : pc'[d] = "post" => owe'[d] # 0
  BY <1>1, <1>2 DEF TypeInv, TypeOK, BoundInv
<1> QED
  BY <1>3, <1>4, <1>5 DEF TypeInv, BoundInv

\* The query of a pending call gets the next number.
LEMMA SendTyped ==
  ASSUME TypeInv, NEW c \in Clients, Send(c)
  PROVE  TypeInv'
<1>1. /\ pc[c] = "send" /\ pc' = [pc EXCEPT ![c] = "poll"] /\ sent' = sent + 1
      /\ query' = [query EXCEPT ![c] = sent + 1]
      /\ inPipe' = Append(inPipe, sent + 1)
      /\ UNCHANGED <<kind, got, owe, reply, sem, outPipe, answer>>
  BY DEF Send, Goto
<1>2. c \in Pending /\ Pending' = Pending \ {c}
  BY <1>1 DEF Pending, TypeInv, TypeOK
<1>3. /\ Cardinality(Pending') = Cardinality(Pending) - 1
      /\ Cardinality(Pending') \in Nat /\ Cardinality(Pending) \in Nat
  BY <1>2, PendingFinite, FS_RemoveElement, FS_CardinalityType DEF TypeInv
<1>4. sent \in Nat /\ sent + 1 \in 1 .. MaxQueries /\ sent' + Cardinality(Pending') <= MaxQueries
  BY <1>1, <1>3, ChannelAssumption DEF TypeInv, TypeOK, BoundInv
<1>5. TypeOK'
  BY <1>1, <1>4 DEF TypeInv, TypeOK
<1>6. \A d \in Clients : pc'[d] = "post" => owe'[d] # 0
  BY <1>1 DEF TypeInv, TypeOK, BoundInv
<1> QED
  BY <1>4, <1>5, <1>6 DEF TypeInv, BoundInv

\* A client reads, wherever it goes from there.
LEMMA ReadTyped ==
  ASSUME TypeInv, NEW c \in Clients, Read(c)
  PROVE  TypeInv'
<1> DEFINE n == IF Len(outPipe) < BufferPieces THEN Len(outPipe) ELSE BufferPieces
           text == got[c] \o SubSeq(outPipe, 1, n)
           rest == SubSeq(outPipe, n + 1, Len(outPipe))
           to == IF CheckStop(kind[c], n, text) THEN AfterOutput(kind[c]) ELSE "poll"
<1>1. n \in 0 .. Len(outPipe) /\ outPipe \in Seq(Pieces) /\ got[c] \in Seq(Pieces)
  BY ChannelAssumption DEF TypeInv, TypeOK
<1>2. to \in {"idle", "wait", "release", "parse", "poll"} /\ (to = "wait" => kind[c] = "foreignKeys")
  BY DEF AfterOutput
<1>3. /\ pc[c] = "read" /\ pc' = [pc EXCEPT ![c] = to]
      /\ got' = [got EXCEPT ![c] = text] /\ outPipe' = rest
      /\ UNCHANGED <<kind, query, owe, reply, sem, sent, inPipe, answer>>
  BY DEF Read, Goto
<1> HIDE DEF n, to
<1>4. text \in Seq(Pieces) /\ rest \in Seq(Pieces)
  BY <1>1, FrontMoves
<1> HIDE DEF text, rest
<1>5. TypeOK'
  BY <1>2, <1>3, <1>4 DEF TypeInv, TypeOK
<1>6. Pending' \subseteq Pending
  BY <1>2, <1>3 DEF Pending, TypeInv, TypeOK, Locked
<1>7. \A d \in Clients : pc'[d] = "post" => owe'[d] # 0
  BY <1>2, <1>3 DEF TypeInv, TypeOK, BoundInv
<1> QED
  BY <1>3, <1>5, <1>6, <1>7, BoundKept DEF TypeInv

\* The reply a call notes is the number of a query.
LEMMA ReplyTyped ==
  ASSUME NEW pieces \in Seq(Pieces), MaxQueries \in Nat
  PROVE  Reply(pieces) \in 0 .. MaxQueries
<1>1. CASE pieces # <<>>
  <2>1. pieces[1] \in Pieces
    BY <1>1
  <2> QED
    BY <2>1 DEF Reply, Pieces
<1>2. CASE pieces = <<>>
  BY <1>2 DEF Reply
<1> QED
  BY <1>1, <1>2

\* Every other step of a client.
LEMMA StepTyped ==
  ASSUME TypeInv, NEW c \in Clients, CallStep(c) \/ Crash(c), ~Send(c), ~Read(c)
  PROVE  TypeInv'
<1> USE DEF Goto, Note, wire
<1>1. /\ UNCHANGED <<kind, query, sent, inPipe, outPipe, answer>>
      /\ sem' \in Nat
  BY DEF CallStep, TakeMutex, MutexTimeout, PollData, PollTimeout, ReadFails, ParseThrows,
     ParsePasses, ParseError, Post, ReleaseThenParse, Crash, Die, TypeInv, TypeOK
<1>2. got' = got \/ got' = [got EXCEPT ![c] = <<>>]
  BY DEF CallStep, TakeMutex, MutexTimeout, PollData, PollTimeout, ReadFails, ParseThrows,
     ParsePasses, ParseError, Post, ReleaseThenParse, Crash, Die
<1>3. reply' = reply \/ reply' = [reply EXCEPT ![c] = Reply(got[c])]
  BY DEF CallStep, TakeMutex, MutexTimeout, PollData, PollTimeout, ReadFails, ParseThrows,
     ParsePasses, ParseError, Post, ReleaseThenParse, Crash, Die
<1>4. \E to \in Places, o \in 0 .. 2 :
        /\ pc' = [pc EXCEPT ![c] = to] /\ owe' = [owe EXCEPT ![c] = o]
        /\ to = "post" => o # 0
        /\ to = "send" => pc[c] = "wait" /\ kind[c] \in Locked
        /\ to = "wait" => kind[c] = "foreignKeys"
  <2>1. owe = [owe EXCEPT ![c] = owe[c]] /\ owe[c] \in 0 .. 2
    BY DEF TypeInv, TypeOK
  <2>2. CASE TakeMutex(c) \/ MutexTimeout(c) \/ PollData(c) \/ ReleaseThenParse(c)
    BY <2>1, <2>2 DEF TakeMutex, MutexTimeout, PollData, ReleaseThenParse, Places
  <2>3. CASE PollTimeout(c)
    <3>1. /\ AfterOutput(kind[c]) \in {"idle", "wait", "release", "parse"}
          /\ AfterOutput(kind[c]) = "wait" => kind[c] = "foreignKeys"
      BY DEF AfterOutput
    <3> QED
      BY <2>1, <2>3, <3>1 DEF PollTimeout, Places
  <2>4. CASE ReadFails(c)
    <3>1. /\ AfterOutput(kind[c]) \in {"idle", "wait", "release", "parse"}
          /\ AfterOutput(kind[c]) = "wait" => kind[c] = "foreignKeys"
      BY DEF AfterOutput
    <3>2. kind[c] \notin {"select", "foreignKeys", "banner"} => ReadErrorPosts(kind[c]) \in 1 .. 2
      BY DEF ReadErrorPosts, TypeInv, TypeOK, Kinds
    <3>3. CASE kind[c] \in {"select", "foreignKeys", "banner"}
      BY <2>1, <2>4, <3>1, <3>3 DEF ReadFails, Places
    <3>4. CASE kind[c] \notin {"select", "foreignKeys", "banner"}
      BY <2>4, <3>2, <3>4 DEF ReadFails, Places
    <3> QED
      BY <3>3, <3>4
  <2>5. CASE ParseThrows(c) \/ ParsePasses(c) \/ Crash(c)
    BY <2>5 DEF ParseThrows, ParsePasses, Crash, Die, Places
  <2>6. CASE ParseError(c)
    BY <2>1, <2>6 DEF ParseError, Places
  <2>7. CASE Post(c)
    <3>1. pc[c] = "post" /\ owe[c] # 0 /\ owe' = [owe EXCEPT ![c] = owe[c] - 1]
      BY <2>7 DEF Post, TypeInv, BoundInv
    <3>2. CASE owe[c] > 1
      <4>1. pc' = [pc EXCEPT ![c] = "post"] /\ "post" \in Places
        BY <2>7, <3>2 DEF Post, Places
      <4>2. owe[c] - 1 \in 0 .. 2 /\ owe[c] - 1 # 0
        BY <2>1, <3>2
      <4> QED
        BY <3>1, <4>1, <4>2
    <3>3. CASE ~(owe[c] > 1)
      <4>1. pc' = [pc EXCEPT ![c] = "idle"] /\ "idle" \in Places
        BY <2>7, <3>3 DEF Post, Places
      <4>2. owe[c] - 1 \in 0 .. 2
        BY <2>1, <3>1
      <4> QED
        BY <3>1, <4>1, <4>2
    <3> QED
      BY <3>2, <3>3
  <2> QED
    BY <2>2, <2>3, <2>4, <2>5, <2>6, <2>7 DEF CallStep
<1>5. PICK to \in Places, o \in 0 .. 2 :
        /\ pc' = [pc EXCEPT ![c] = to] /\ owe' = [owe EXCEPT ![c] = o]
        /\ to = "post" => o # 0
        /\ to = "send" => pc[c] = "wait" /\ kind[c] \in Locked
        /\ to = "wait" => kind[c] = "foreignKeys"
  BY <1>4
<1>6. TypeOK'
  <2>1. got' \in [Clients -> Seq(Pieces)]
    <3>1. got \in [Clients -> Seq(Pieces)] /\ <<>> \in Seq(Pieces)
      BY DEF TypeInv, TypeOK
    <3> QED
      BY <1>2, <3>1, Zenon
  <2>2. reply' \in [Clients -> 0 .. MaxQueries]
    <3>1. reply \in [Clients -> 0 .. MaxQueries] /\ Reply(got[c]) \in 0 .. MaxQueries
      BY ReplyTyped, ChannelAssumption DEF TypeInv, TypeOK
    <3> QED
      BY <1>3, <3>1, Zenon
  <2>3. /\ pc' \in [Clients -> {"idle", "wait", "send", "poll", "read", "parse",
                                "post", "release", "dead"}]
        /\ owe' \in [Clients -> 0 .. 2]
    BY <1>5 DEF TypeInv, TypeOK, Places
  <2> QED
    BY <1>1, <2>1, <2>2, <2>3 DEF TypeInv, TypeOK
<1>7. Pending' \subseteq Pending
  BY <1>1, <1>5 DEF Pending, TypeInv, TypeOK, Locked
<1>8. \A d \in Clients : pc'[d] = "post" => owe'[d] # 0
  BY <1>5 DEF TypeInv, TypeOK, BoundInv
<1> QED
  BY <1>1, <1>6, <1>7, <1>8, BoundKept DEF TypeInv

\* DES stays within the pieces of an answer.
LEMMA DesTyped ==
  ASSUME TypeInv, DesStep
  PROVE  TypeInv'
<1>1. UNCHANGED <<pc, kind, query, got, owe, reply, sem, sent>>
  BY DEF DesStep, DesTake, DesWrite, client
<1>2. /\ inPipe \in Seq(1 .. MaxQueries) /\ outPipe \in Seq(Pieces)
      /\ answer \in [of : 0 .. MaxQueries, written : 0 .. MaxPieces, size : 1 .. MaxPieces]
      /\ MaxQueries \in Nat /\ MaxPieces \in Nat
  BY ChannelAssumption DEF TypeInv, TypeOK
<1>3. /\ inPipe' \in Seq(1 .. MaxQueries) /\ outPipe' \in Seq(Pieces)
      /\ answer' \in [of : 0 .. MaxQueries, written : 0 .. MaxPieces, size : 1 .. MaxPieces]
  <2>1. CASE DesTake
    <3>1. PICK n \in 1 .. MaxPieces : answer' = [of |-> Head(inPipe), written |-> 0, size |-> n]
      BY <2>1 DEF DesTake
    <3>2. Head(inPipe) \in 1 .. MaxQueries /\ Tail(inPipe) \in Seq(1 .. MaxQueries)
      BY <1>2, <2>1, HeadTailProperties DEF DesTake
    <3> QED
      BY <1>2, <2>1, <3>1, <3>2 DEF DesTake
  <2>2. CASE DesWrite
    <3> DEFINE p == [of |-> answer.of, at |-> answer.written + 1, size |-> answer.size]
    <3>1. /\ answer' = [answer EXCEPT !.written = answer.written + 1]
          /\ outPipe' = Append(outPipe, p) /\ inPipe' = inPipe
          /\ answer.written < answer.size
      BY <2>2 DEF DesWrite, Writing
    <3>2. answer.written + 1 \in 1 .. MaxPieces
      BY <1>2, <3>1
    <3>3. p \in Pieces
      BY <1>2, <3>2 DEF Pieces
    <3> HIDE DEF p
    <3>4. answer' \in [of : 0 .. MaxQueries, written : 0 .. MaxPieces, size : 1 .. MaxPieces]
      <4>1. answer.written + 1 \in 0 .. MaxPieces
        BY <3>2
      <4> QED
        BY <1>2, <3>1, <4>1
    <3>5. outPipe' \in Seq(Pieces)
      BY <1>2, <3>1, <3>3
    <3> QED
      BY <1>2, <3>1, <3>4, <3>5
  <2> QED
    BY <2>1, <2>2 DEF DesStep
<1>4. TypeOK'
  BY <1>1, <1>3 DEF TypeInv, TypeOK
<1>5. Pending' = Pending
  BY <1>1 DEF Pending
<1> QED
  BY <1>1, <1>4, <1>5, BoundKept DEF TypeInv, BoundInv

\* Types and bounds hold for every kind of call, a DES of any speed, a client that
\* still reads the banner, and processes that die at any point: in particular the
\* releases a failing call still owes never run below zero.
THEOREM TypeCorrect == Spec => []TypeOK
<1>1. Init => TypeInv
  <2> SUFFICES ASSUME Init PROVE TypeInv
    OBVIOUS
  <2>1. TypeOK
    BY ChannelAssumption DEF Init, TypeOK, Kinds
  <2>2. Pending = {} /\ \A c \in Clients : pc[c] # "post"
    BY DEF Init, Pending
  <2>3. Cardinality(Pending) = 0 /\ sent = 0
    BY <2>2, FS_EmptySet DEF Init
  <2> QED
    BY <2>1, <2>2, <2>3, ChannelAssumption DEF TypeInv, BoundInv
<1>2. TypeInv /\ [Next]_vars => TypeInv'
  <2> SUFFICES ASSUME TypeInv, [Next]_vars PROVE TypeInv'
    OBVIOUS
  <2>1. CASE UNCHANGED vars
    BY <2>1 DEF vars, client, wire, TypeInv, TypeOK, BoundInv, Pending
  <2>2. ASSUME NEW c \in Clients, CallStep(c) \/ Begin(c) \/ Crash(c) PROVE TypeInv'
    BY <2>2, BeginTyped, SendTyped, ReadTyped, StepTyped
  <2>3. CASE DesStep
    BY <2>3, DesTyped
  <2> QED
    BY <2>1, <2>2, <2>3 DEF Next
<1>3. TypeInv => TypeOK
  BY DEF TypeInv
<1> QED
  BY <1>1, <1>2, <1>3, PTL DEF Spec

=============================================================================
