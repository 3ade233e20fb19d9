-------------------------- MODULE ChannelBurstProofs --------------------------
(***************************************************************************)
(* Theorems about the channel to a DES that answers in bursts: what check_ *)
(* stop and the poll guess from the bytes they see is then right.  For any *)
(* number of connections, queries and pieces and any size of the buffer,   *)
(* the holder of the query mutex reads the whole answer to its own query   *)
(* and nothing else, leaves the channel empty, and the calls implement     *)
(* QueryService.  ChannelSlow shows what a slow DES does to these claims.  *)
(***************************************************************************)
EXTENDS QueryChannelProofs, QueryRefinement

\* DES pauses for less than MAX_OUTPUT_WAIT_MS, and the calls are of the kinds
\* that hold the query mutex; processes may die.
Bursts == WellBehaved /\ Timing = "burst"

\* Nothing in the pipes, nothing half written.
Empty == inPipe = <<>> /\ ~Writing /\ outPipe = <<>>

\* Piece number i of an answer of n pieces to query q.
Piece(q, i, n) == [of |-> q, at |-> i, size |-> n]

\* What is read and then what is left are the pieces 1 to w of an answer of n pieces
\* to query q.
InOrder(read, left, q, w, n) ==
  /\ Len(read) + Len(left) = w
  /\ \A i \in 1 .. Len(read) : read[i] = Piece(q, i, n)
  /\ \A i \in 1 .. Len(left) : left[i] = Piece(q, Len(read) + i, n)

\* DES has not taken the query of the client yet.
Unanswered(c) ==
  /\ inPipe = <<query[c]>> /\ ~Writing /\ outPipe = <<>> /\ got[c] = <<>>

\* DES is writing the answer to the client's query, or has: what the client has
\* read and what it can still read are the pieces written so far, in order.
Answering(c) ==
  /\ inPipe = <<>> /\ answer.of = query[c]
  /\ 0 < answer.size /\ answer.written <= answer.size
  /\ InOrder(got[c], outPipe, query[c], answer.written, answer.size)

\* Queries have numbers of their own.  A call that has not written has none.
QueryInv ==
  /\ \A c \in Clients : query[c] <= sent
  /\ \A c, d \in Clients : query[c] = query[d] /\ query[c] # 0 => c = d
  /\ \A c \in Clients : pc[c] \in {"wait", "send"} => query[c] = 0
  /\ \A c \in Clients : pc[c] \in Holders \ {"send"} => query[c] # 0

\* What the channel is to a client: empty when it takes the mutex and once it has
\* read its answer, its query or the answer to it in between.  Only a /process
\* output is read before it is complete.
ClientWire(c) ==
  /\ pc[c] = "send" => Empty
  /\ pc[c] \in {"poll", "read"} => Unanswered(c) \/ Answering(c)
  /\ pc[c] = "read" => kind[c] = "process" \/ ~Writing
  /\ pc[c] \in {"parse", "post", "release"} => Empty /\ IsAnswer(got[c], query[c])

WireInv ==
  /\ sem = 1 => Empty
  /\ \A c \in Clients : ClientWire(c)

BurstInv == IInv /\ QueryInv /\ WireInv

\* Pieces 1 to n of an answer of n pieces are that answer.
LEMMA WholeIsAnswer ==
  ASSUME NEW S, NEW pieces \in Seq(S), NEW q, q # 0, NEW n \in Nat, n > 0, Len(pieces) = n,
         \A i \in 1 .. Len(pieces) : pieces[i] = Piece(q, i, n)
  PROVE  IsAnswer(pieces, q)
<1>1. pieces # <<>>
  OBVIOUS
<1>2. pieces = [i \in 1 .. Len(pieces) |-> pieces[i]]
  OBVIOUS
<1>3. pieces = [i \in 1 .. Len(pieces) |-> [of |-> q, at |-> i, size |-> Len(pieces)]]
  BY <1>2, Zenon DEF Piece
<1> QED
  BY <1>1, <1>3 DEF IsAnswer

\* The answer to a query says which query it answers.
LEMMA ReplyOfAnswer ==
  ASSUME NEW S, NEW pieces \in Seq(S), NEW q, IsAnswer(pieces, q)
  PROVE  Reply(pieces) = q
<1>1. pieces # <<>> /\ 1 \in 1 .. Len(pieces)
  BY DEF IsAnswer
<1>2. pieces[1] = [of |-> q, at |-> 1, size |-> Len(pieces)]
  BY <1>1 DEF IsAnswer
<1> QED
  BY <1>1, <1>2 DEF Reply

\* The queries keep their numbers: only Send gives one, only Begin takes one away.
LEMMA QueryKeeps ==
  ASSUME WellBehaved, IInv, QueryInv, [Next]_vars
  PROVE  QueryInv'
<1> USE DEF Goto, Holders, client, wire
<1>1. CASE UNCHANGED vars \/ DesStep
  <2>1. UNCHANGED <<pc, query, sent>>
    BY <1>1 DEF vars, DesStep, DesTake, DesWrite
  <2> QED
    BY <2>1 DEF QueryInv
<1>2. ASSUME NEW c \in Clients, Begin(c) PROVE QueryInv'
  <2>1. /\ query' = [query EXCEPT ![c] = 0] /\ sent' = sent
        /\ pc' = [pc EXCEPT ![c] = "wait"]
    BY <1>2 DEF Begin, WellBehaved, Balanced
  <2> QED
    BY <2>1 DEF IInv, Types, QueryInv
<1>3. ASSUME NEW c \in Clients, Send(c) PROVE QueryInv'
  <2>1. /\ query' = [query EXCEPT ![c] = sent + 1] /\ sent' = sent + 1
        /\ pc' = [pc EXCEPT ![c] = "poll"]
    BY <1>3 DEF Send
  <2>2. \A d \in Clients : query[d] \in Nat /\ query[d] <= sent /\ sent \in Nat
    BY DEF IInv, Types, QueryInv
  <2> QED
    BY <2>1, <2>2 DEF IInv, Types, QueryInv
<1>4. ASSUME NEW c \in Clients, TakeMutex(c) PROVE QueryInv'
  <2>1. pc[c] = "wait" /\ pc' = [pc EXCEPT ![c] = "send"] /\ UNCHANGED <<query, sent>>
    BY <1>4 DEF TakeMutex, IInv, Types, Balanced
  <2> QED
    BY <2>1 DEF IInv, Types, QueryInv
<1>5. ASSUME NEW c \in Clients, CallStep(c) \/ Crash(c), ~Send(c), ~TakeMutex(c)
      PROVE  QueryInv'
  <2>1. UNCHANGED <<query, sent>> /\ pc[c] \notin {"idle", "dead"}
    BY <1>5 DEF CallStep, MutexTimeout, PollData, PollTimeout, Read, ReadFails, ParseThrows,
       ParsePasses, ParseError, Post, ReleaseThenParse, Crash, Die
  <2>2. \E to \in Places \ {"wait", "send"} :
           /\ pc' = [pc EXCEPT ![c] = to]
           /\ to \in Holders => pc[c] \in Holders \ {"send"}
    <3>1. \/ MutexTimeout(c) \/ PollData(c) \/ ParseThrows(c) \/ ParsePasses(c)
          \/ Crash(c) \/ PollTimeout(c) \/ Read(c) \/ ParseError(c) \/ Post(c)
          \/ ReleaseThenParse(c)
      BY <1>5, NoReadFails DEF CallStep, IInv
    <3>2. CASE MutexTimeout(c) \/ PollData(c) \/ ParseThrows(c) \/ ParsePasses(c) \/ Crash(c)
      BY <3>2 DEF MutexTimeout, PollData, ParseThrows, ParsePasses, Crash, Die, Places
    <3>3. CASE PollTimeout(c)
      <4>1. AfterOutput(kind[c]) \in {"parse", "release"}
        BY OutputOver DEF IInv, Types
      <4> QED
        BY <3>3, <4>1 DEF PollTimeout, Places
    <3>4. CASE Read(c)
      BY <3>4, ReadMoves DEF IInv, Places
    <3>5. CASE ParseError(c) \/ Post(c) \/ ReleaseThenParse(c)
      BY <3>5 DEF ParseError, Post, ReleaseThenParse, Places
    <3> QED
      BY <3>1, <3>2, <3>3, <3>4, <3>5
  <2> QED
    BY <2>1, <2>2 DEF IInv, Types, QueryInv
<1> QED
  BY <1>1, <1>2, <1>3, <1>4, <1>5 DEF Next

\* While a client other than c holds the mutex c leaves the channel alone, and
\* while c holds it the channel is nobody else's.
LEMMA OthersKeep ==
  ASSUME IInv, WireInv, NEW c \in Clients,
         \A d \in Clients \ {c} : /\ pc'[d] = pc[d] /\ kind'[d] = kind[d]
                                  /\ query'[d] = query[d] /\ got'[d] = got[d],
         pc[c] \in Holders \/ UNCHANGED <<inPipe, outPipe, answer>>
  PROVE  \A d \in Clients \ {c} : ClientWire(d)'
<1> SUFFICES ASSUME NEW d \in Clients \ {c} PROVE ClientWire(d)'
  OBVIOUS
<1>1. CASE pc[c] \in Holders
  <2>1. pc'[d] \notin Holders
    BY <1>1 DEF IInv, MutexInv
  <2> QED
    BY <2>1 DEF ClientWire, Holders
<1>2. CASE UNCHANGED <<inPipe, outPipe, answer>>
  <2>1. ClientWire(d) /\ Empty' = Empty /\ Writing' = Writing
    BY <1>2 DEF WireInv, Empty, Writing
  <2>2. Unanswered(d)' = Unanswered(d) /\ Answering(d)' = Answering(d)
    BY <1>2, <2>1 DEF Unanswered, Answering
  <2> QED
    BY <2>1, <2>2 DEF ClientWire
<1> QED
  BY <1>1, <1>2

\* The mutex is free for the taking only when nobody is between its write and the
\* end of its parsing.
LEMMA HeldTaken ==
  ASSUME IInv, NEW c \in Clients, pc[c] \in Holders
  PROVE  sem = 0
  BY DEF IInv, MutexInv

\* A new call, one that gives up on the mutex and one that takes it find the
\* channel as it is.
LEMMA WaitersKeep ==
  ASSUME Bursts, BurstInv, NEW c \in Clients, Begin(c) \/ MutexTimeout(c) \/ TakeMutex(c)
  PROVE  WireInv'
<1>1. UNCHANGED <<inPipe, outPipe, answer>> /\ Empty' = Empty
  BY DEF Begin, MutexTimeout, TakeMutex, wire, Empty, Writing
<1>2. \A d \in Clients \ {c} : /\ pc'[d] = pc[d] /\ kind'[d] = kind[d]
                               /\ query'[d] = query[d] /\ got'[d] = got[d]
  BY DEF Begin, MutexTimeout, TakeMutex, Goto, BurstInv, IInv, Types
<1>3. \A d \in Clients \ {c} : ClientWire(d)'
  BY <1>1, <1>2, OthersKeep DEF BurstInv
<1>4. (sem' = 1 => Empty) /\ ClientWire(c)'
  <2>1. CASE Begin(c)
    <3>1. pc'[c] = "wait" /\ sem' = sem
      BY <2>1 DEF Begin, Goto, Bursts, WellBehaved, Balanced, BurstInv, IInv, Types
    <3> QED
      BY <3>1 DEF BurstInv, WireInv, ClientWire
  <2>2. CASE MutexTimeout(c)
    <3>1. pc'[c] = "idle" /\ sem' = sem
      BY <2>2 DEF MutexTimeout, Goto, BurstInv, IInv, Types
    <3> QED
      BY <3>1 DEF BurstInv, WireInv, ClientWire
  <2>3. CASE TakeMutex(c)
    <3>1. sem = 1 /\ sem' = 0 /\ pc'[c] = "send"
      BY <2>3 DEF TakeMutex, Goto, BurstInv, IInv, MutexInv, Types, Balanced
    <3> QED
      BY <1>1, <3>1 DEF BurstInv, WireInv, ClientWire
  <2> QED
    BY <2>1, <2>2, <2>3
<1> QED
  BY <1>1, <1>3, <1>4 DEF WireInv

\* The query of the holder is alone in DES's input.
LEMMA SendOpens ==
  ASSUME Bursts, BurstInv, NEW c \in Clients, Send(c)
  PROVE  WireInv'
<1>1. /\ pc[c] = "send" /\ pc' = [pc EXCEPT ![c] = "poll"]
      /\ query' = [query EXCEPT ![c] = sent + 1]
      /\ inPipe' = Append(inPipe, sent + 1)
      /\ UNCHANGED <<kind, got, sem, outPipe, answer>>
  BY DEF Send, Goto
<1>2. Empty /\ got[c] = <<>> /\ sem = 0
  BY <1>1, HeldTaken DEF BurstInv, WireInv, ClientWire, IInv, SentInv, Holders
<1>3. Unanswered(c)' /\ pc'[c] = "poll"
  <2>1. inPipe' = <<sent + 1>> /\ query'[c] = sent + 1 /\ pc'[c] = "poll"
    BY <1>1, <1>2 DEF Empty, BurstInv, IInv, Types
  <2> QED
    BY <1>1, <1>2, <2>1 DEF Empty, Unanswered, Writing
<1>4. \A d \in Clients \ {c} : ClientWire(d)'
  BY <1>1, OthersKeep DEF BurstInv, IInv, Types, Holders
<1> QED
  BY <1>1, <1>2, <1>3, <1>4 DEF WireInv, ClientWire

\* FIONREAD says there is something: part of the answer if it is to /process, all
\* of it otherwise.
LEMMA PollFinds ==
  ASSUME Bursts, BurstInv, NEW c \in Clients, PollData(c)
  PROVE  WireInv'
<1>1. /\ pc[c] = "poll" /\ pc' = [pc EXCEPT ![c] = "read"] /\ outPipe # <<>>
      /\ ~Writing \/ MayPause
      /\ UNCHANGED <<kind, query, got, sem, inPipe, outPipe, answer>>
  BY DEF PollData, Goto, wire, Bursts
<1>2. Answering(c)
  BY <1>1 DEF BurstInv, WireInv, ClientWire, Unanswered
<1>3. kind[c] = "process" \/ ~Writing
  <2>1. SUFFICES ASSUME MayPause PROVE kind[c] = "process"
    BY <1>1
  <2>2. PICK d \in Clients : query[d] = answer.of /\ kind[d] \in {"process", "foreignKeys"}
    BY <2>1 DEF MayPause
  <2>3. query[d] = query[c] /\ query[c] # 0
    BY <1>1, <1>2, <2>2 DEF Answering, BurstInv, QueryInv, Holders
  <2>4. d = c
    BY <2>3 DEF BurstInv, QueryInv
  <2> QED
    BY <2>2, <2>4 DEF BurstInv, IInv, Types, Balanced, Locked
<1>4. ClientWire(c)'
  <2>1. Answering(c)' = Answering(c) /\ Writing' = Writing /\ pc'[c] = "read"
    BY <1>1 DEF Answering, Writing, BurstInv, IInv, Types
  <2> QED
    BY <1>1, <1>2, <1>3, <2>1 DEF ClientWire
<1>5. \A d \in Clients \ {c} : ClientWire(d)'
  BY <1>1, OthersKeep DEF BurstInv, IInv, Types, Holders
<1>6. sem' = 0
  BY <1>1, HeldTaken DEF BurstInv, Holders
<1> QED
  BY <1>4, <1>5, <1>6 DEF WireInv

\* Once the whole answer is written and read, the channel is empty and what was
\* read is the answer.
LEMMA AllRead ==
  ASSUME BurstInv, NEW c \in Clients, pc[c] \in Holders \ {"send"}, Answering(c),
         outPipe = <<>>, ~Writing
  PROVE  Empty /\ IsAnswer(got[c], query[c])
<1>1. /\ answer.written \in Nat /\ answer.size \in Nat /\ answer.size > 0
      /\ answer.written = answer.size /\ Len(got[c]) \in Nat
      /\ got[c] \in Seq(Upto(sent))
  BY DEF BurstInv, IInv, Types, Answering, Writing
<1>2. Len(got[c]) = answer.size
  BY <1>1 DEF Answering, InOrder
<1>3. query[c] # 0
  BY DEF BurstInv, QueryInv
<1>4. IsAnswer(got[c], query[c])
  BY <1>1, <1>2, <1>3, WholeIsAnswer DEF Answering, InOrder
<1> QED
  BY <1>4 DEF Empty, Answering

\* No data for MAX_OUTPUT_WAIT_MS: with a DES that answers in bursts the answer is
\* over, all of it read.
LEMMA TimeoutIsEnd ==
  ASSUME Bursts, BurstInv, NEW c \in Clients, PollTimeout(c)
  PROVE  WireInv'
<1>1. /\ pc[c] = "poll" /\ pc' = [pc EXCEPT ![c] = AfterOutput(kind[c])]
      /\ ~InFlight
      /\ UNCHANGED <<kind, query, got, sem, inPipe, outPipe, answer>>
  BY DEF PollTimeout, MayTimeOut, Goto, wire, Bursts
<1>2. Answering(c) /\ outPipe = <<>> /\ ~Writing
  BY <1>1 DEF BurstInv, WireInv, ClientWire, Unanswered, InFlight
<1>3. Empty /\ IsAnswer(got[c], query[c])
  BY <1>1, <1>2, AllRead DEF Holders
<1>4. pc'[c] \in {"parse", "release"}
  BY <1>1, OutputOver DEF BurstInv, IInv, Types
<1>5. ClientWire(c)' /\ Empty'
  BY <1>1, <1>3, <1>4 DEF ClientWire, Empty, Writing
<1>6. \A d \in Clients \ {c} : ClientWire(d)'
  BY <1>1, OthersKeep DEF BurstInv, IInv, Types, Holders
<1> QED
  BY <1>5, <1>6 DEF WireInv

\* The front of what is left, moved to the end of what is read, keeps the order.
LEMMA ReadInOrder ==
  ASSUME NEW S, NEW s \in Seq(S), NEW t \in Seq(S), NEW n \in 0 .. Len(t),
         NEW q, NEW w, NEW z, InOrder(s, t, q, w, z)
  PROVE  InOrder(s \o SubSeq(t, 1, n), SubSeq(t, n + 1, Len(t)), q, w, z)
<1> DEFINE text == s \o SubSeq(t, 1, n)
           rest == SubSeq(t, n + 1, Len(t))
<1>1. /\ Len(text) = Len(s) + n
      /\ \A i \in 1 .. Len(text) : text[i] = IF i <= Len(s) THEN s[i] ELSE t[i - Len(s)]
      /\ Len(rest) = Len(t) - n
      /\ \A i \in 1 .. Len(rest) : rest[i] = t[n + i]
  BY FrontMoves
<1> HIDE DEF text, rest
<1>2. Len(s) \in Nat /\ Len(t) \in Nat /\ n \in Nat /\ n <= Len(t)
  OBVIOUS
<1>3. /\ Len(s) + Len(t) = w
      /\ \A i \in 1 .. Len(s) : s[i] = Piece(q, i, z)
      /\ \A i \in 1 .. Len(t) : t[i] = Piece(q, Len(s) + i, z)
  BY DEF InOrder
<1>4. ASSUME NEW i \in 1 .. Len(text) PROVE text[i] = Piece(q, i, z)
  <2>1. CASE i <= Len(s)
    <3>1. i \in 1 .. Len(s) /\ text[i] = s[i]
      BY <1>1, <1>2, <2>1
    <3> QED
      BY <1>3, <3>1
  <2>2. CASE i > Len(s)
    <3>1. i - Len(s) \in 1 .. Len(t) /\ Len(s) + (i - Len(s)) = i
      BY <1>1, <1>2, <2>2
    <3>2. t[i - Len(s)] = Piece(q, Len(s) + (i - Len(s)), z)
      BY <1>3, <3>1
    <3> QED
      BY <1>1, <1>2, <2>2, <3>1, <3>2
  <2> QED
    BY <1>1, <1>2, <2>1, <2>2
<1>5. ASSUME NEW i \in 1 .. Len(rest) PROVE rest[i] = Piece(q, Len(text) + i, z)
  <2>1. n + i \in 1 .. Len(t) /\ Len(s) + (n + i) = Len(text) + i
    BY <1>1, <1>2
  <2> QED
    BY <1>1, <1>3, <2>1
<1>6. Len(text) + Len(rest) = w
  BY <1>1, <1>2, <1>3
<1>7. InOrder(text, rest, q, w, z)
  BY <1>4, <1>5, <1>6 DEF InOrder
<1> QED
  BY <1>7 DEF text, rest

\* The next piece, written behind what is left, keeps the order.
LEMMA WriteInOrder ==
  ASSUME NEW S, NEW s \in Seq(S), NEW t \in Seq(S), NEW q, NEW w \in Nat, NEW z,
         InOrder(s, t, q, w, z)
  PROVE  InOrder(s, Append(t, Piece(q, w + 1, z)), q, w + 1, z)
<1> DEFINE u == Append(t, Piece(q, w + 1, z))
<1>1. /\ Len(u) = Len(t) + 1 /\ u[Len(t) + 1] = Piece(q, w + 1, z)
      /\ \A i \in 1 .. Len(t) : u[i] = t[i]
  OBVIOUS
<1> HIDE DEF u
<1>2. /\ Len(s) \in Nat /\ Len(t) \in Nat /\ Len(s) + Len(t) = w
      /\ \A i \in 1 .. Len(s) : s[i] = Piece(q, i, z)
      /\ \A i \in 1 .. Len(t) : t[i] = Piece(q, Len(s) + i, z)
  BY DEF InOrder
<1>3. ASSUME NEW i \in 1 .. Len(u) PROVE u[i] = Piece(q, Len(s) + i, z)
  <2>1. CASE i = Len(t) + 1
    <3>1. Len(s) + i = w + 1
      <4>1. Len(s) \in Nat /\ Len(t) \in Nat /\ Len(s) + Len(t) = w
        BY <1>2
      <4> QED
        BY <2>1, <4>1
    <3> QED
      BY <1>1, <2>1, <3>1
  <2>2. CASE i # Len(t) + 1
    <3>1. i \in 1 .. Len(t)
      BY <1>1, <1>2, <2>2
    <3> QED
      BY <1>1, <1>2, <3>1
  <2> QED
    BY <2>1, <2>2
<1>4. Len(s) + Len(u) = w + 1
  BY <1>1, <1>2
<1>5. InOrder(s, u, q, w + 1, z)
  BY <1>2, <1>3, <1>4 DEF InOrder
<1> QED
  BY <1>5 DEF u

\* read() appends to what the client has the pieces that follow, leaves the rest,
\* and stops at the sentinel, or with nothing left.
LEMMA ReadContinues ==
  ASSUME Bursts, BurstInv, NEW c \in Clients, Read(c)
  PROVE  /\ Answering(c) /\ Answering(c)' /\ got'[c] \in Seq(Upto(sent))
         /\ UNCHANGED <<inPipe, answer, query, kind, sem>>
         /\ pc[c] = "read" /\ outPipe' \in Seq(Upto(sent))
         /\ \/ pc'[c] = "poll"
            \/ /\ pc'[c] \in {"parse", "release"}
               /\ IF kind[c] = "process"
                    THEN \E i \in 1 .. Len(got'[c]) : got'[c][i].at = got'[c][i].size
                    ELSE outPipe' = <<>>
         /\ \A d \in Clients \ {c} : pc'[d] = pc[d] /\ got'[d] = got[d]
<1> DEFINE n == IF Len(outPipe) < BufferPieces THEN Len(outPipe) ELSE BufferPieces
           text == got[c] \o SubSeq(outPipe, 1, n)
           rest == SubSeq(outPipe, n + 1, Len(outPipe))
<1>1. /\ Len(outPipe) \in Nat /\ n \in 0 .. Len(outPipe)
      /\ outPipe \in Seq(Upto(sent)) /\ got[c] \in Seq(Upto(sent))
  BY ChannelAssumption DEF BurstInv, IInv, Types
<1>2. /\ pc[c] = "read" /\ outPipe # <<>>
      /\ outPipe' = rest
      /\ got' = [got EXCEPT ![c] = text]
      /\ pc' = [pc EXCEPT ![c] = IF CheckStop(kind[c], n, text)
                                   THEN AfterOutput(kind[c]) ELSE "poll"]
      /\ UNCHANGED <<kind, query, sem, inPipe, answer>>
  BY DEF Read, Goto
<1>3. Answering(c)
  BY <1>2 DEF BurstInv, WireInv, ClientWire, Unanswered
<1>4. kind[c] # "process" /\ CheckStop(kind[c], n, text) => n = Len(outPipe)
  BY <1>1 DEF CheckStop, BurstInv, IInv, Types, Balanced, Locked
<1>5. kind[c] = "process" =>
        (CheckStop(kind[c], n, text) <=> \E i \in 1 .. Len(text) : text[i].at = text[i].size)
  BY DEF CheckStop
<1> HIDE DEF n
<1>6. /\ text \in Seq(Upto(sent)) /\ rest \in Seq(Upto(sent))
      /\ Len(rest) = Len(outPipe) - n
  BY <1>1, FrontMoves
<1>7. InOrder(text, rest, query[c], answer.written, answer.size)
  BY <1>1, <1>3, ReadInOrder DEF Answering
<1> HIDE DEF text, rest
<1>8. got'[c] = text /\ \A d \in Clients \ {c} : pc'[d] = pc[d] /\ got'[d] = got[d]
  BY <1>2 DEF BurstInv, IInv, Types
<1>9. Answering(c)'
  BY <1>2, <1>3, <1>7, <1>8 DEF Answering
<1>10. AfterOutput(kind[c]) \in {"parse", "release"}
  BY OutputOver DEF BurstInv, IInv, Types
<1>11. pc'[c] = IF CheckStop(kind[c], n, text) THEN AfterOutput(kind[c]) ELSE "poll"
  BY <1>2 DEF BurstInv, IInv, Types
<1>12. n = Len(outPipe) => outPipe' = <<>>
  BY <1>1, <1>2, <1>6
<1> QED
  BY <1>2, <1>3, <1>4, <1>5, <1>6, <1>8, <1>9, <1>10, <1>11, <1>12

\* A read that ends the output has read the whole answer: a /process output at its
\* sentinel, any other when read() did not fill the buffer.
LEMMA ReadIsRight ==
  ASSUME Bursts, BurstInv, NEW c \in Clients, Read(c)
  PROVE  WireInv'
<1>1. /\ Answering(c) /\ Answering(c)' /\ got'[c] \in Seq(Upto(sent))
      /\ UNCHANGED <<inPipe, answer, query, kind, sem>>
      /\ pc[c] = "read" /\ outPipe' \in Seq(Upto(sent))
      /\ \/ pc'[c] = "poll"
         \/ /\ pc'[c] \in {"parse", "release"}
            /\ IF kind[c] = "process"
                 THEN \E i \in 1 .. Len(got'[c]) : got'[c][i].at = got'[c][i].size
                 ELSE outPipe' = <<>>
      /\ \A d \in Clients \ {c} : pc'[d] = pc[d] /\ got'[d] = got[d]
  BY ReadContinues
<1>2. ASSUME pc'[c] # "poll" PROVE outPipe' = <<>> /\ ~Writing'
  <2>1. /\ Len(got'[c]) \in Nat /\ Len(outPipe') \in Nat
        /\ answer.written \in Nat /\ answer.size \in Nat /\ answer.written <= answer.size
    BY <1>1 DEF Answering, BurstInv, IInv, Types
  <2>2. /\ Len(got'[c]) + Len(outPipe') = answer.written
        /\ \A i \in 1 .. Len(got'[c]) : got'[c][i] = Piece(query[c], i, answer.size)
    BY <1>1 DEF Answering, InOrder
  <2>3. CASE kind[c] = "process"
    <3>1. PICK i \in 1 .. Len(got'[c]) : got'[c][i].at = got'[c][i].size
      BY <1>1, <1>2, <2>3
    <3>2. got'[c][i] = Piece(query[c], i, answer.size)
      BY <2>2
    <3>3. i = answer.size
      BY <3>1, <3>2 DEF Piece
    <3>4. Len(outPipe') = 0 /\ answer.written = answer.size
      BY <2>1, <2>2, <3>1, <3>3
    <3> QED
      BY <1>1, <2>1, <3>4 DEF Writing
  <2>4. CASE kind[c] # "process"
    BY <1>1, <1>2, <2>4 DEF BurstInv, WireInv, ClientWire, Writing
  <2> QED
    BY <2>3, <2>4
<1>3. Types' /\ QueryInv'
  BY ReadKeeps, QueryKeeps DEF Bursts, BurstInv, IInv, Next, CallStep
<1>4. ClientWire(c)'
  <2>1. CASE pc'[c] = "poll"
    BY <1>1, <2>1 DEF ClientWire
  <2>2. CASE pc'[c] # "poll"
    <3>1. /\ Len(got'[c]) = answer.size /\ answer.size \in Nat /\ answer.size > 0
          /\ \A i \in 1 .. Len(got'[c]) : got'[c][i] = Piece(query[c], i, answer.size)
      <4>1. /\ answer.written \in Nat /\ answer.size \in Nat /\ Len(got'[c]) \in Nat
            /\ outPipe' = <<>> /\ ~(answer.written < answer.size)
        BY <1>1, <1>2, <2>2 DEF Writing, BurstInv, IInv, Types
      <4>2. /\ Len(got'[c]) + Len(outPipe') = answer.written
            /\ 0 < answer.size /\ answer.written <= answer.size
            /\ \A i \in 1 .. Len(got'[c]) : got'[c][i] = Piece(query[c], i, answer.size)
        BY <1>1 DEF Answering, InOrder
      <4>3. Len(outPipe') = 0
        BY <4>1
      <4>4. Len(got'[c]) = answer.size
        BY <4>1, <4>2, <4>3
      <4> QED
        BY <4>1, <4>2, <4>4
    <3>2. query[c] # 0
      BY <1>1 DEF BurstInv, QueryInv, Holders
    <3>3. IsAnswer(got'[c], query[c])
      BY <1>1, <3>1, <3>2, WholeIsAnswer
    <3>4. Empty' /\ IsAnswer(got[c], query[c])'
      BY <1>1, <1>2, <2>2, <3>3 DEF Empty, Answering, IsAnswer
    <3> QED
      BY <1>1, <2>2, <3>4 DEF ClientWire
  <2> QED
    BY <2>1, <2>2
<1>5. \A d \in Clients \ {c} : ClientWire(d)'
  BY <1>1, OthersKeep DEF BurstInv, Holders
<1>6. sem' = 0
  BY <1>1, HeldTaken DEF BurstInv, Holders
<1> QED
  BY <1>4, <1>5, <1>6 DEF WireInv

\* Parsing, dying and releasing leave the channel as they found it: empty, once
\* the answer has been read.
LEMMA EndingsKeep ==
  ASSUME Bursts, BurstInv, NEW c \in Clients,
         \/ ParseThrows(c) \/ ParsePasses(c) \/ ParseError(c) \/ Post(c)
         \/ ReleaseThenParse(c) \/ Crash(c)
  PROVE  WireInv'
<1>1. /\ \A d \in Clients \ {c} : pc'[d] = pc[d]
      /\ UNCHANGED <<kind, query, got, inPipe, outPipe, answer>>
      /\ \/ pc'[c] \in {"idle", "dead"}
         \/ pc[c] \in {"parse", "post"} /\ pc'[c] = "post"
      /\ pc[c] \in {"post", "release"} \/ sem' = sem
  BY DEF ParseThrows, ParsePasses, ParseError, Post, ReleaseThenParse, Crash, Die, Goto,
     wire, BurstInv, IInv, Types
<1>2. Empty' = Empty
  BY <1>1 DEF Empty, Writing
<1>3. ClientWire(c)' /\ (sem' = 1 => Empty)
  <2>1. IsAnswer(got[c], query[c])' = IsAnswer(got[c], query[c])
    BY <1>1 DEF IsAnswer
  <2> QED
    BY <1>1, <1>2, <2>1 DEF BurstInv, WireInv, ClientWire
<1>4. \A d \in Clients \ {c} : ClientWire(d)'
  BY <1>1, OthersKeep DEF BurstInv
<1> QED
  BY <1>2, <1>3, <1>4 DEF WireInv

\* DES takes the query of the holder, and writes the answer to it.
LEMMA DesServes ==
  ASSUME Bursts, BurstInv, DesStep
  PROVE  WireInv'
<1>1. UNCHANGED <<pc, kind, query, got, sem, sent>>
  BY DEF DesStep, DesTake, DesWrite, client
<1>2. ~Empty
  BY DEF DesStep, DesTake, DesWrite, Empty
<1>3. sem' # 1
  BY <1>1, <1>2 DEF BurstInv, WireInv
<1> SUFFICES ASSUME NEW c \in Clients PROVE ClientWire(c)'
  BY <1>3 DEF WireInv
<1>4. pc[c] \notin {"send", "parse", "post", "release"}
  BY <1>2 DEF BurstInv, WireInv, ClientWire
<1>5. CASE pc[c] \notin {"poll", "read"}
  BY <1>1, <1>4, <1>5 DEF ClientWire
<1>6. ASSUME pc[c] \in {"poll", "read"}, DesTake
      PROVE  Answering(c)' /\ pc[c] = "poll"
  <2>1. Unanswered(c)
    BY <1>6 DEF DesTake, BurstInv, WireInv, ClientWire, Answering
  <2>2. pc[c] = "poll"
    BY <1>6, <2>1 DEF Unanswered, BurstInv, IInv, ReadInv
  <2>3. PICK n \in 1 .. MaxPieces : answer' = [of |-> Head(inPipe), written |-> 0, size |-> n]
    BY <1>6 DEF DesTake
  <2>4. inPipe = <<query[c]>> /\ outPipe' = <<>> /\ got[c] = <<>>
    BY <1>6, <2>1 DEF Unanswered, DesTake
  <2>5. inPipe' = <<>> /\ Head(inPipe) = query[c]
    BY <1>6, <2>4 DEF DesTake
  <2>6. /\ answer'.of = query[c] /\ answer'.written = 0 /\ answer'.size = n
        /\ n \in Nat /\ n > 0
    BY <2>3, <2>5, ChannelAssumption
  <2>7. InOrder(<<>>, <<>>, query[c], 0, n)
    BY DEF InOrder
  <2> QED
    BY <1>1, <2>2, <2>4, <2>5, <2>6, <2>7 DEF Answering
<1>7. ASSUME pc[c] \in {"poll", "read"}, DesWrite
      PROVE  Answering(c)' /\ (pc[c] = "read" => kind[c] = "process")
  <2>1. Answering(c) /\ (pc[c] = "read" => kind[c] = "process")
    BY <1>7 DEF DesWrite, BurstInv, WireInv, ClientWire, Unanswered
  <2>2. /\ got[c] \in Seq(Upto(sent)) /\ outPipe \in Seq(Upto(sent))
        /\ answer \in [of : 0 .. sent, written : Nat, size : Nat]
    BY DEF BurstInv, IInv, Types
  <2>3. /\ answer' = [answer EXCEPT !.written = answer.written + 1]
        /\ outPipe' = Append(outPipe, [of |-> answer.of, at |-> answer.written + 1,
                                       size |-> answer.size])
        /\ answer.written < answer.size /\ inPipe' = inPipe
    BY <1>7 DEF DesWrite, Writing
  <2>4. /\ answer'.of = answer.of /\ answer'.written = answer.written + 1
        /\ answer'.size = answer.size
    BY <2>2, <2>3
  <2>5. outPipe' = Append(outPipe, Piece(query[c], answer.written + 1, answer.size))
    BY <2>1, <2>3 DEF Answering, Piece
  <2>6. InOrder(got[c], outPipe', query[c], answer.written + 1, answer.size)
    BY <2>1, <2>2, <2>5, WriteInOrder DEF Answering
  <2> QED
    BY <1>1, <2>1, <2>2, <2>3, <2>4, <2>6 DEF Answering
<1> QED
  BY <1>1, <1>4, <1>5, <1>6, <1>7 DEF DesStep, ClientWire

\* BurstInv is inductive.
LEMMA BurstKeeps == ASSUME Bursts, BurstInv, [Next]_vars PROVE BurstInv'
<1>1. IInv' /\ QueryInv'
  BY StepKeeps, QueryKeeps DEF Bursts, BurstInv
<1>2. ASSUME UNCHANGED vars PROVE WireInv'
  <2>1. UNCHANGED <<pc, kind, query, got, sem, inPipe, outPipe, answer>>
    BY <1>2 DEF vars, client, wire
  <2>2. Empty' = Empty /\ Writing' = Writing
    BY <2>1 DEF Empty, Writing
  <2>3. \A c \in Clients : ClientWire(c)' = ClientWire(c)
    BY <2>1, <2>2 DEF ClientWire, Unanswered, Answering
  <2> QED
    BY <2>1, <2>2, <2>3 DEF BurstInv, WireInv
<1>3. ASSUME NEW c \in Clients, CallStep(c) \/ Begin(c) \/ Crash(c) PROVE WireInv'
  <2>1. ~ReadFails(c)
    BY NoReadFails DEF BurstInv, IInv
  <2> QED
    BY <1>3, <2>1, WaitersKeep, SendOpens, PollFinds, TimeoutIsEnd, ReadIsRight, EndingsKeep
       DEF CallStep
<1>4. ASSUME DesStep PROVE WireInv'
  BY <1>4, DesServes
<1> QED
  BY <1>1, <1>2, <1>3, <1>4 DEF Next, BurstInv

\* The channel starts empty.
LEMMA BurstInit == Bursts /\ Init => BurstInv
<1> SUFFICES ASSUME Bursts, Init PROVE BurstInv
  OBVIOUS
<1>1. IInv
  BY InitHolds DEF Bursts
<1>2. /\ inPipe = <<>> /\ outPipe = <<>> /\ answer.written = 1 /\ answer.size = 1
      /\ \A c \in Clients : pc[c] = "idle" /\ query[c] = 0
      /\ sent = 0
  BY DEF Init, Bursts, WellBehaved
<1>3. QueryInv
  BY <1>2 DEF QueryInv, Holders
<1>4. WireInv
  BY <1>2 DEF WireInv, ClientWire, Empty, Writing
<1> QED
  BY <1>1, <1>3, <1>4 DEF BurstInv

\* With a DES that answers in bursts, the channel is always empty, or holds the
\* query of the one client that has the mutex or the part of the answer to it that
\* it has not read.
THEOREM BurstInvariance == Bursts /\ Spec => []BurstInv
<1> SUFFICES ASSUME Bursts PROVE Spec => []BurstInv
  OBVIOUS
<1>1. Init => BurstInv
  BY BurstInit
<1>2. BurstInv /\ [Next]_vars => BurstInv'
  BY BurstKeeps
<1> QED
  BY <1>1, <1>2, PTL DEF Spec

\* check_stop and the poll time-out are right about a DES that answers in bursts,
\* whatever the sizes of the answers and of the buffer: what a call parses is the
\* whole answer to its own query, even when other processes die in their calls.
THEOREM AnswersAreOwn == Bursts /\ Spec => []OwnAnswer
<1>1. BurstInv => OwnAnswer
  BY DEF BurstInv, WireInv, ClientWire, OwnAnswer
<1> QED
  BY <1>1, BurstInvariance, PTL

\* No call leaves anything behind for the next one: who finds the mutex free finds
\* the channel empty.
THEOREM ChannelIsClean == Bursts /\ Spec => []ChannelClean
<1>1. BurstInv => ChannelClean
  BY DEF BurstInv, WireInv, IInv, MutexInv, Empty, InFlight, ChannelClean
<1> QED
  BY <1>1, BurstInvariance, PTL

-----------------------------------------------------------------------------
(* The calls implement QueryService, as long as no process dies.           *)

NobodyDies == Bursts /\ ~Crashes

AliveInv == \A c \in Clients : pc[c] # "dead"

\* A call does not throw: it has the answer it needs.
LEMMA NoThrow ==
  ASSUME BurstInv, NEW c \in Clients, pc[c] \in {"parse", "release"}
  PROVE  ~MayThrow(c) /\ ~MustThrow(c)
<1>1. IsAnswer(got[c], query[c])
  BY DEF BurstInv, WireInv, ClientWire
<1> QED
  BY <1>1 DEF MayThrow, MustThrow, IsAnswer

\* Nobody dies of what it reads.
LEMMA AliveKeeps ==
  ASSUME NobodyDies, BurstInv, AliveInv, [Next]_vars
  PROVE  AliveInv'
<1> USE DEF Goto, AliveInv
<1>1. CASE UNCHANGED vars \/ DesStep
  BY <1>1 DEF vars, client, DesStep, DesTake, DesWrite
<1>2. ASSUME NEW c \in Clients, CallStep(c) \/ Begin(c) \/ Crash(c) PROVE AliveInv'
  <2>1. \E to \in Places \ {"dead"} : pc' = [pc EXCEPT ![c] = to]
    <3>1. ~Crash(c) /\ ~ReadFails(c) /\ ~ParseThrows(c)
      BY NoReadFails, NoThrow DEF NobodyDies, Crash, ParseThrows, BurstInv, IInv
    <3>2. CASE Begin(c) \/ TakeMutex(c) \/ MutexTimeout(c) \/ Send(c)
      BY <3>2 DEF Begin, TakeMutex, MutexTimeout, Send, Places
    <3>3. CASE PollData(c) \/ ParsePasses(c) \/ ParseError(c) \/ Post(c)
      BY <3>3 DEF PollData, ParsePasses, ParseError, Post, Places
    <3>4. CASE PollTimeout(c)
      <4>1. AfterOutput(kind[c]) \in {"parse", "release"}
        BY OutputOver DEF BurstInv, IInv, Types
      <4> QED
        BY <3>4, <4>1 DEF PollTimeout, Places
    <3>5. CASE Read(c)
      BY <3>5, ReadMoves DEF BurstInv, IInv, Places
    <3>6. CASE ReleaseThenParse(c)
      BY <3>6, NoThrow DEF ReleaseThenParse, Places
    <3> QED
      BY <1>2, <3>1, <3>2, <3>3, <3>4, <3>5, <3>6 DEF CallStep
  <2> QED
    BY <2>1 DEF BurstInv, IInv, Types
<1> QED
  BY <1>1, <1>2 DEF Next

\* The state functions of the refinement mapping.
Stages == [c \in Clients |-> Stage(c)]
Tickets == [c \in Clients |-> IF query[c] <= Executed THEN query[c] ELSE 0]

\* Where the service stands as long as a query is with its client or in the pipe,
\* and once DES has taken it.
LEMMA Standing ==
  ASSUME BurstInv, NEW c \in Clients
  PROVE  /\ Executed \in Int /\ query[c] \in Nat
         /\ pc[c] \in {"wait", "send"} => Stage(c) = "asked" /\ query[c] = 0
         /\ pc[c] = "send" => Executed = sent
         /\ pc[c] \in Holders \ {"send"} =>
              \/ /\ Executed = sent /\ query[c] = sent /\ sent > 0
                 /\ Stage(c) = "executed"
              \/ /\ Unanswered(c) /\ Executed = sent - 1 /\ query[c] = sent
                 /\ Stage(c) = "asked"
         /\ pc[c] \in {"parse", "post", "release"} => Stage(c) = "executed"
<1>1. /\ sent \in Nat /\ Len(inPipe) \in Nat /\ query[c] \in Nat /\ Executed \in Int
      /\ pc[c] \in Places
  BY DEF BurstInv, IInv, Types, Executed
<1>2. CASE pc[c] \in {"wait", "send"}
  <2>1. query[c] = 0
    BY <1>2 DEF BurstInv, QueryInv
  <2>2. pc[c] = "send" => Executed = sent
    BY <1>1 DEF BurstInv, WireInv, ClientWire, Empty, Executed
  <2> QED
    BY <1>1, <1>2, <2>1, <2>2 DEF Stage, Holders
<1>3. CASE pc[c] \in Holders \ {"send"}
  <2>1. query[c] = sent /\ sent > 0
    BY <1>1, <1>3 DEF BurstInv, QueryInv, IInv, SentInv
  <2>2. CASE pc[c] \in {"poll", "read"} /\ Unanswered(c)
    <3>1. Executed = sent - 1
      BY <1>1, <2>2 DEF Unanswered, Executed
    <3> QED
      BY <1>1, <2>1, <2>2, <3>1 DEF Stage
  <2>3. CASE ~(pc[c] \in {"poll", "read"} /\ Unanswered(c))
    <3>1. inPipe = <<>>
      BY <1>3, <2>3 DEF BurstInv, WireInv, ClientWire, Empty, Answering, Holders
    <3>2. Executed = sent
      BY <1>1, <3>1 DEF Executed
    <3> QED
      BY <1>1, <1>3, <2>1, <3>2 DEF Stage, Holders
  <2>4. pc[c] \in {"parse", "post", "release"} => ~Unanswered(c)
    BY DEF Unanswered, BurstInv, WireInv, ClientWire, Empty
  <2> QED
    BY <1>1, <1>3, <2>2, <2>3, <2>4
<1> QED
  BY <1>1, <1>2, <1>3 DEF Holders

\* Only the holder's query can be the last one, and only its stage can change when
\* DES takes it.
LEMMA OthersBehind ==
  ASSUME BurstInv, NEW c \in Clients, pc[c] \in Holders \ {"send"}, NEW d \in Clients \ {c}
  PROVE  query[d] < sent
<1>1. query[c] = sent /\ query[c] # 0 /\ sent \in Nat /\ query[d] \in Nat /\ query[d] <= sent
  BY DEF BurstInv, QueryInv, IInv, SentInv, Types
<1>2. query[d] # query[c]
  BY <1>1 DEF BurstInv, QueryInv
<1> QED
  BY <1>1, <1>2

\* DES has executed all queries but at most the last.
LEMMA ExecutedSoFar ==
  ASSUME BurstInv, AliveInv
  PROVE  /\ Executed \in Nat /\ sent \in Nat
         /\ Executed = sent \/ \E c \in Clients : Unanswered(c) /\ Executed = sent - 1
<1>1. sent \in Nat
  BY DEF BurstInv, IInv, Types
<1>2. CASE sem = 1
  BY <1>1, <1>2 DEF BurstInv, WireInv, Empty, Executed
<1>3. CASE sem = 0
  <2>1. PICK c \in Clients : pc[c] \in Holders
    BY <1>3 DEF BurstInv, IInv, MutexInv, AliveInv
  <2>2. CASE pc[c] = "send"
    BY <1>1, <2>2, Standing
  <2>3. CASE pc[c] \in Holders \ {"send"}
    <3>1. \/ Executed = sent
          \/ Unanswered(c) /\ Executed = sent - 1 /\ query[c] = sent
      BY <2>3, Standing
    <3>2. query[c] # 0
      BY <2>3 DEF BurstInv, QueryInv
    <3> QED
      BY <1>1, <3>1, <3>2
  <2> QED
    BY <2>1, <2>2, <2>3
<1> QED
  BY <1>2, <1>3 DEF BurstInv, IInv, MutexInv

\* A step that no caller can see: nothing is executed, and no call begins or ends.
LEMMA Invisible ==
  ASSUME Executed' = Executed, UNCHANGED <<query, reply>>,
         \A d \in Clients : pc'[d] \in {"idle", "dead"} <=> pc[d] \in {"idle", "dead"}
  PROVE  UNCHANGED Service!vars
<1>1. \A d \in Clients : Stage(d)' = Stage(d)
  BY DEF Stage
<1> QED
  BY <1>1 DEF Service!vars

\* The call of c alone begins or ends.
LEMMA StageMoves ==
  ASSUME NEW c \in Clients, Executed' = Executed,
         \A d \in Clients \ {c} : pc'[d] = pc[d] /\ query'[d] = query[d]
  PROVE  Stages' = [Stages EXCEPT ![c] = Stage(c)']
<1>1. \A d \in Clients \ {c} : Stage(d)' = Stage(d)
  BY DEF Stage
<1> QED
  BY <1>1 DEF Stages

\* A call begins, and asks.
LEMMA BeginAsks ==
  ASSUME Bursts, BurstInv, AliveInv, NEW c \in Clients, Begin(c)
  PROVE  Service!Ask(c)
<1>1. /\ pc[c] = "idle" /\ pc' = [pc EXCEPT ![c] = "wait"]
      /\ query' = [query EXCEPT ![c] = 0] /\ reply' = [reply EXCEPT ![c] = 0]
      /\ Executed' = Executed
  BY DEF Begin, Goto, Note, wire, Executed, Bursts, WellBehaved, Balanced
<1>2. Executed \in Nat
  BY ExecutedSoFar
<1>3. Stage(c) = "idle" /\ Stage(c)' = "asked"
  BY <1>1, <1>2 DEF Stage, BurstInv, IInv, Types
<1>4. Stages' = [Stages EXCEPT ![c] = "asked"]
  BY <1>1, <1>3, StageMoves DEF BurstInv, IInv, Types
<1>5. Tickets' = [Tickets EXCEPT ![c] = 0]
  BY <1>1, <1>2 DEF Tickets, BurstInv, IInv, Types
<1> QED
  BY <1>1, <1>3, <1>4, <1>5 DEF Service!Ask, Stages, Tickets

\* A call that gives up on the mutex is refused.
LEMMA TimeoutRefuses ==
  ASSUME Bursts, BurstInv, NEW c \in Clients, MutexTimeout(c)
  PROVE  Service!Refuse(c)
<1>1. /\ pc[c] = "wait" /\ pc' = [pc EXCEPT ![c] = "idle"]
      /\ UNCHANGED <<query, reply>> /\ Executed' = Executed
  BY DEF MutexTimeout, Goto, wire, Executed
<1>2. Stage(c) = "asked"
  BY <1>1, Standing
<1>3. Stage(c)' = "idle"
  BY <1>1 DEF Stage, BurstInv, IInv, Types
<1>4. Stages' = [Stages EXCEPT ![c] = "idle"]
  BY <1>1, <1>3, StageMoves DEF BurstInv, IInv, Types
<1>5. Tickets' = Tickets
  BY <1>1 DEF Tickets
<1> QED
  BY <1>1, <1>2, <1>4, <1>5 DEF Service!Refuse, Stages, Tickets

\* Writing the query is not yet executing it.
LEMMA SendIsSilent ==
  ASSUME Bursts, BurstInv, AliveInv, NEW c \in Clients, Send(c)
  PROVE  UNCHANGED Service!vars
<1>1. /\ pc[c] = "send" /\ pc' = [pc EXCEPT ![c] = "poll"] /\ sent' = sent + 1
      /\ query' = [query EXCEPT ![c] = sent + 1] /\ reply' = reply
      /\ inPipe' = Append(inPipe, sent + 1)
  BY DEF Send, Goto
<1>2. /\ Executed = sent /\ sent \in Nat /\ query[c] = 0 /\ Stage(c) = "asked"
      /\ inPipe = <<>>
  BY <1>1, Standing DEF BurstInv, IInv, Types, WireInv, ClientWire, Empty
<1>3. Executed' = Executed
  BY <1>1, <1>2 DEF Executed
<1>4. pc'[c] = "poll" /\ query'[c] = sent + 1
  BY <1>1 DEF BurstInv, IInv, Types
<1>5. Stage(c)' = "asked"
  BY <1>2, <1>3, <1>4 DEF Stage
<1>6. Stages' = [Stages EXCEPT ![c] = Stage(c)']
  BY <1>1, <1>3, StageMoves DEF BurstInv, IInv, Types
<1>7. Stages' = Stages
  BY <1>2, <1>5, <1>6 DEF Stages
<1>8. Tickets' = Tickets
  <2> SUFFICES ASSUME NEW d \in Clients
               PROVE  (IF query'[d] <= Executed' THEN query'[d] ELSE 0)
                        = (IF query[d] <= Executed THEN query[d] ELSE 0)
    BY DEF Tickets
  <2>1. CASE d = c
    BY <1>2, <1>3, <1>4, <2>1
  <2>2. CASE d # c
    BY <1>1, <1>3, <2>2 DEF BurstInv, IInv, Types
  <2> QED
    BY <2>1, <2>2
<1> QED
  BY <1>1, <1>3, <1>7, <1>8 DEF Service!vars, Stages, Tickets

\* Taking the mutex, polling, reading, parsing: steps of a call that has not
\* returned.
LEMMA InsideIsSilent ==
  ASSUME Bursts, BurstInv, NEW c \in Clients,
         \/ TakeMutex(c) \/ PollData(c) \/ PollTimeout(c) \/ Read(c)
         \/ ParsePasses(c) \/ ParseError(c)
  PROVE  UNCHANGED Service!vars
<1>1. UNCHANGED <<query, reply, inPipe, sent>>
  <2>1. kind[c] # "rowLoop"
    BY DEF BurstInv, IInv, Types, Balanced
  <2> QED
    BY <2>1 DEF TakeMutex, PollData, PollTimeout, Read, ParsePasses, ParseError, wire
<1>2. /\ pc[c] \notin {"idle", "dead"} /\ pc'[c] \notin {"idle", "dead"}
      /\ \A d \in Clients \ {c} : pc'[d] = pc[d]
  <2>1. \E to \in Holders : pc[c] \notin {"idle", "dead"} /\ pc' = [pc EXCEPT ![c] = to]
    <3> USE DEF Goto, Holders
    <3>1. CASE TakeMutex(c) \/ PollData(c) \/ ParsePasses(c)
      BY <3>1 DEF TakeMutex, PollData, ParsePasses, BurstInv, IInv, Types, Balanced
    <3>2. CASE PollTimeout(c)
      <4>1. AfterOutput(kind[c]) \in {"parse", "release"}
        BY OutputOver DEF BurstInv, IInv, Types
      <4> QED
        BY <3>2, <4>1 DEF PollTimeout
    <3>3. CASE Read(c)
      BY <3>3, ReadMoves DEF BurstInv, IInv
    <3>4. CASE ParseError(c)
      BY <3>4 DEF ParseError, BurstInv, IInv, Types, Balanced
    <3> QED
      BY <3>1, <3>2, <3>3, <3>4
  <2> QED
    BY <2>1 DEF BurstInv, IInv, Types, Holders
<1>3. Executed' = Executed
  BY <1>1 DEF Executed
<1> QED
  BY <1>1, <1>2, <1>3, Invisible

\* The last release ends the call, with the answer to its own query.
LEMMA EndReturns ==
  ASSUME Bursts, BurstInv, NEW c \in Clients, Post(c) \/ ReleaseThenParse(c)
  PROVE  Service!Return(c)
<1>1. pc[c] \in {"post", "release"}
  BY DEF Post, ReleaseThenParse, Goto
<1>2. /\ pc' = [pc EXCEPT ![c] = "idle"] /\ UNCHANGED <<query, sent, inPipe>>
      /\ reply' = [reply EXCEPT ![c] = Reply(got[c])]
  <2>1. CASE Post(c)
    <3>1. owe[c] = 1
      BY <2>1 DEF Post, Goto, BurstInv, IInv, MutexInv
    <3> QED
      BY <2>1, <3>1 DEF Post, Goto, Note, wire
  <2>2. CASE ReleaseThenParse(c)
    <3>1. ~MayThrow(c)
      BY <2>2, NoThrow DEF ReleaseThenParse, Goto
    <3> QED
      BY <2>2, <3>1 DEF ReleaseThenParse, Goto, Note, wire
  <2> QED
    BY <2>1, <2>2
<1>3. Executed' = Executed
  BY <1>2 DEF Executed
<1>4. Stage(c) = "executed" /\ Executed = sent /\ query[c] = sent /\ Executed \in Int
  BY <1>1, Standing DEF Holders
<1>5. Reply(got[c]) = query[c]
  BY <1>1, ReplyOfAnswer DEF BurstInv, WireInv, ClientWire, IInv, Types
<1>6. Tickets[c] = query[c] /\ Tickets' = Tickets
  BY <1>2, <1>3, <1>4 DEF Tickets
<1>7. Stage(c)' = "idle"
  BY <1>2 DEF Stage, BurstInv, IInv, Types
<1>8. Stages' = [Stages EXCEPT ![c] = "idle"]
  BY <1>2, <1>3, <1>7, StageMoves DEF BurstInv, IInv, Types
<1>9. reply' = [reply EXCEPT ![c] = Tickets[c]]
  BY <1>2, <1>5, <1>6
<1> QED
  BY <1>3, <1>4, <1>6, <1>8, <1>9 DEF Service!Return, Stages, Tickets

\* DES takes a query: the query of a call that waits for its answer.
LEMMA TakeExecutes ==
  ASSUME Bursts, BurstInv, AliveInv, DesTake
  PROVE  \E c \in Clients : Service!Execute(c)
<1>1. /\ inPipe # <<>> /\ inPipe' = Tail(inPipe) /\ UNCHANGED <<pc, query, reply, sent>>
  BY DEF DesTake, client
<1>2. PICK c \in Clients : pc[c] \in Holders /\ Unanswered(c)
  <2>1. sem = 0
    BY <1>1 DEF BurstInv, WireInv, IInv, MutexInv, Empty
  <2>2. PICK c \in Clients : pc[c] \in Holders
    BY <2>1 DEF BurstInv, IInv, MutexInv, AliveInv
  <2>3. Unanswered(c)
    BY <1>1, <2>2 DEF BurstInv, WireInv, ClientWire, Empty, Answering, Holders
  <2> QED
    BY <2>2, <2>3
<1>3. pc[c] \in {"poll", "read"}
  BY <1>1, <1>2 DEF BurstInv, WireInv, ClientWire, Empty, Holders
<1>4. /\ sent \in Nat /\ Executed = sent - 1 /\ query[c] = sent /\ sent > 0
  <2>1. inPipe = <<query[c]>> /\ Len(inPipe) = 1
    BY <1>2 DEF Unanswered
  <2>2. sent \in Nat /\ query[c] = sent /\ query[c] # 0
    BY <1>3 DEF BurstInv, IInv, SentInv, Types, QueryInv, Holders
  <2> QED
    BY <2>1, <2>2 DEF Executed
<1>5. Executed' = sent
  <2>1. inPipe' = <<>>
    BY <1>1, <1>2 DEF Unanswered
  <2> QED
    BY <1>1, <1>4, <2>1 DEF Executed
<1>6. Stage(c) = "asked" /\ Stage(c)' = "executed"
  BY <1>1, <1>3, <1>4, <1>5 DEF Stage
<1>7. \A d \in Clients \ {c} : query[d] \in Nat /\ query[d] <= Executed /\ query[d] <= Executed'
  <2> SUFFICES ASSUME NEW d \in Clients \ {c}
               PROVE query[d] \in Nat /\ query[d] <= Executed /\ query[d] <= Executed'
    OBVIOUS
  <2>1. query[d] \in Nat /\ query[d] < sent
    BY <1>3, OthersBehind DEF Holders, BurstInv, IInv, Types
  <2> QED
    BY <1>4, <1>5, <2>1
<1>8. Stages' = [Stages EXCEPT ![c] = "executed"]
  <2>1. \A d \in Clients \ {c} : Stage(d)' = Stage(d)
    BY <1>1, <1>4, <1>5, <1>7 DEF Stage
  <2> QED
    BY <1>6, <2>1 DEF Stages
<1>9. Tickets' = [Tickets EXCEPT ![c] = Executed']
  <2>1. \A d \in Clients \ {c} : query'[d] = query[d]
    BY <1>1
  <2>2. query'[c] = Executed'
    BY <1>1, <1>4, <1>5
  <2>3. \A d \in Clients \ {c} :
           (IF query'[d] <= Executed' THEN query'[d] ELSE 0)
             = (IF query[d] <= Executed THEN query[d] ELSE 0)
    BY <1>7, <2>1
  <2>4. (IF query'[c] <= Executed' THEN query'[c] ELSE 0) = Executed'
    BY <1>4, <1>5, <2>2
  <2> QED
    BY <2>3, <2>4 DEF Tickets
<1>10. Executed' = Executed + 1
  BY <1>4, <1>5
<1> QED
  BY <1>1, <1>6, <1>8, <1>9, <1>10 DEF Service!Execute, Stages, Tickets

\* Each step of the driver and of DES is a step of the service, or nothing to it.
LEMMA StepServes ==
  ASSUME NobodyDies, BurstInv, AliveInv, [Next]_vars
  PROVE  [Service!Next]_(Service!vars)
<1>1. CASE UNCHANGED vars
  BY <1>1, Invisible DEF vars, client, wire, Executed
<1>2. ASSUME NEW c \in Clients, CallStep(c) \/ Begin(c) \/ Crash(c)
      PROVE  [Service!Next]_(Service!vars)
  <2>1. ~Crash(c) /\ ~ReadFails(c) /\ ~ParseThrows(c)
    BY NoReadFails, NoThrow DEF NobodyDies, Crash, ParseThrows, BurstInv, IInv
  <2> QED
    BY <1>2, <2>1, BeginAsks, TimeoutRefuses, SendIsSilent, InsideIsSilent, EndReturns
       DEF CallStep, NobodyDies, Service!Next
<1>3. CASE DesStep
  <2>1. CASE DesTake
    BY <2>1, TakeExecutes DEF NobodyDies, Service!Next
  <2>2. CASE DesWrite
    BY <2>2, Invisible DEF DesWrite, client, Executed
  <2> QED
    BY <1>3, <2>1, <2>2 DEF DesStep
<1> QED
  BY <1>1, <1>2, <1>3 DEF Next

\* The query mutex and the channel keep their promise for any number of clients
\* and queries, as long as DES answers in bursts and no process dies: every query
\* is executed exactly once, within its call, the call returns the answer to it,
\* and a call refused the mutex is never executed.
THEOREM ServesAll == NobodyDies /\ Spec => ServesEachOnce
<1> SUFFICES ASSUME NobodyDies PROVE Spec => ServesEachOnce
  OBVIOUS
<1>1. Spec => []BurstInv
  BY BurstInvariance DEF NobodyDies
<1>2. Init => AliveInv
  BY DEF Init, AliveInv, NobodyDies, Bursts, WellBehaved
<1>3. BurstInv /\ AliveInv /\ [Next]_vars => AliveInv'
  BY AliveKeeps
<1>4. Init => Service!Init
  <2> SUFFICES ASSUME Init PROVE Service!Init
    OBVIOUS
  <2>1. Executed = 0
    <3>1. sent = 0 /\ inPipe = <<>>
      BY DEF Init
    <3>2. sent \in Int /\ Len(inPipe) \in Int /\ sent = Len(inPipe)
      BY <3>1
    <3> QED
      BY <3>2 DEF Executed
  <2>2. \A c \in Clients : Stage(c) = "idle" /\ query[c] = 0
    BY DEF Init, Stage, NobodyDies, Bursts, WellBehaved
  <2> QED
    BY <2>1, <2>2 DEF Init, Service!Init
<1>5. BurstInv /\ AliveInv /\ [Next]_vars => [Service!Next]_(Service!vars)
  BY StepServes
<1> QED
  BY <1>1, <1>2, <1>3, <1>4, <1>5, PTL DEF Spec, ServesEachOnce, Service!Spec

=============================================================================
