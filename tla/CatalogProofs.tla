--------------------------- MODULE CatalogProofs ---------------------------
(***************************************************************************)
(* Theorems about CatalogCalls, for any number of connections, databases   *)
(* and calls, whatever answers are lost or mixed and whoever dies.         *)
(***************************************************************************)
EXTENDS CatalogRefinement, TLAPS

\* The query mutex is free or held by one client, or died with one.
MutexInv ==
  /\ sem \in {0, 1}
  /\ sem = 1 => \A c \in Clients : pc[c] \notin Holders
  /\ \A c, d \in Clients : pc[c] \in Holders /\ pc[d] \in Holders => c = d

\* Unless a call was misled, DES is at home or the holder is away and knows the way.
HomeInv ==
  ~misled =>
    /\ sem = 1 => db = chosen
    /\ \A c \in Clients : pc[c] \in Holders \ Away => db = chosen
    /\ \A c \in Clients : pc[c] \in Away => previous[c] = chosen

\* No call is misled on a channel that gives every exchange its own answer.
ChannelInv == misled => AnswersMixed

\* Where SQLColumns reads a table it has switched to that table's database.
TargetInv ==
  \A c \in Clients :
    /\ pc[c] \in {"innerCurrent", "innerSwitch"} => want[c] \in Lines
    /\ pc[c] \in {"keys", "select"} /\ Wanted(c) \in Databases => db = Wanted(c)

\* A call is at a place of its kind.
KindInv ==
  \A c \in Clients :
    /\ pc[c] = "run" => call[c] = "statement"
    /\ pc[c] = "peek" => call[c] = "getCatalog"
    /\ pc[c] = "choose" => call[c] \in {"useStatement", "setCatalog"}
    /\ pc[c] = "primary" => call[c] = "primary"
    /\ pc[c] = "tables" => call[c] = "tables"
    /\ pc[c] \in Away \cup {"current"} => call[c] \in Switching

IInv == TypeOK /\ MutexInv /\ HomeInv /\ ChannelInv /\ TargetInv /\ KindInv

LEMMA InitHolds == Init => IInv
<1> SUFFICES ASSUME Init PROVE IInv
  OBVIOUS
<1>1. TypeOK
  BY CatalogAssumption DEF Init, TypeOK, Names, Lines, Outputs, Kinds
<1>2. MutexInv /\ HomeInv /\ ChannelInv /\ TargetInv /\ KindInv
  BY DEF Init, MutexInv, HomeInv, ChannelInv, TargetInv, KindInv, Holders, Away
<1> QED
  BY <1>1, <1>2 DEF IInv

LEMMA RepliesTyped ==
  ASSUME NEW r \in {"ok", "refused"}
  PROVE  Replies(r) \subseteq Outputs
  BY DEF Replies, Outputs

Places == Holders \cup {"idle", "wait", "dead"}
Outcomes == {"success", "error"}

\* A step changes where its client stands, what it got and what it will return.
LEMMA MoveTyped ==
  ASSUME TypeOK, NEW c \in Clients,
         \E to \in Places : pc' = [pc EXCEPT ![c] = to],
         \E r \in Outputs : output' = [output EXCEPT ![c] = r],
         \E r \in Outcomes : outcome' = [outcome EXCEPT ![c] = r]
  PROVE  /\ pc' \in [Clients -> Places]
         /\ output' \in [Clients -> Outputs]
         /\ outcome' \in [Clients -> Outcomes]
<1>1. pc' \in [Clients -> Places]
  BY DEF TypeOK, Places
<1>2. output' \in [Clients -> Outputs] /\ outcome' \in [Clients -> Outcomes]
  BY DEF TypeOK, Outputs, Outcomes
<1> QED
  BY <1>1, <1>2

LEMMA UseDbTyped ==
  ASSUME NEW name, db \in Databases
  PROVE  UseDb(name) \in Databases /\ UseAnswer(name) \in {"ok", "refused"}
  BY DEF UseDb, UseAnswer

\* Parsing an output goes on, or ends the process.
LEMMA ParsedPlaces == ASSUME NEW r, NEW to PROVE Parsed(r, to) \subseteq {to, "dead"}
  BY DEF Parsed

LEMMA BeginKeeps == ASSUME IInv, NEW c \in Clients, Begin(c) PROVE IInv'
<1>1. TypeOK'
  BY CatalogAssumption DEF IInv, TypeOK, Begin, Result, Names
<1>2. MutexInv'
  BY DEF IInv, TypeOK, MutexInv, Begin, Holders, Away
<1>3. HomeInv' /\ ChannelInv' /\ TargetInv'
  BY DEF IInv, TypeOK, HomeInv, ChannelInv, TargetInv, Begin, Holders, Away, Wanted
<1>4. KindInv'
  BY DEF IInv, TypeOK, KindInv, Begin, Away
<1> QED
  BY <1>1, <1>2, <1>3, <1>4 DEF IInv

LEMMA TakeMutexKeeps == ASSUME IInv, NEW c \in Clients, TakeMutex(c) PROVE IInv'
<1>5. FirstPlace(call[c]) \in {"current", "tables", "primary", "run", "peek", "choose"}
  BY DEF FirstPlace
<1>1. TypeOK'
  BY <1>5 DEF IInv, TypeOK, TakeMutex, Goto, stack, Holders, Away, MutexInv
<1>2. MutexInv'
  BY <1>5 DEF IInv, TypeOK, MutexInv, TakeMutex, Goto, Holders, Away
<1>3. HomeInv' /\ ChannelInv' /\ TargetInv'
  BY <1>5 DEF IInv, TypeOK, HomeInv, ChannelInv, TargetInv, MutexInv, TakeMutex, Goto, stack, Holders, Away, Wanted
<1>4. KindInv'
  <2>1. \A d \in Clients : d # c => pc'[d] = pc[d] /\ call'[d] = call[d]
    BY DEF IInv, TypeOK, TakeMutex, Goto, stack
  <2>2. pc'[c] = FirstPlace(call[c]) /\ call'[c] = call[c] /\ call[c] \in Kinds
    BY DEF IInv, TypeOK, TakeMutex, Goto, stack
  <2> QED
    BY <2>1, <2>2 DEF IInv, KindInv, FirstPlace, Kinds, Switching, Away
<1> QED
  BY <1>1, <1>2, <1>3, <1>4 DEF IInv

\* A step of the holder of the mutex keeps the rest of the invariant if it ends
\* at home, or away with the way back known and the right database where it reads.
LEMMA HolderKeeps ==
  ASSUME IInv, NEW c \in Clients, pc[c] \in Holders, TypeOK',
         NEW to \in Away \cup {"post", "dead"}, pc' = [pc EXCEPT ![c] = to],
         UNCHANGED <<sem, call>>,
         ChannelInv',
         to = "post" /\ ~misled' => db' = chosen',
         to \in Away => pc[c] \in Away \cup {"current"},
         to \in Away /\ ~misled' => previous'[c] = chosen',
         to \in {"innerCurrent", "innerSwitch"} => want'[c] \in Lines,
         to \in {"keys", "select"} /\ Wanted(c)' \in Databases => db' = Wanted(c)'
  PROVE  IInv'
<1>1. \A d \in Clients : d # c => pc'[d] = pc[d] /\ pc[d] \notin Holders
  BY DEF IInv, TypeOK, MutexInv
<1>2. pc'[c] = to
  BY DEF IInv, TypeOK
<1>3. sem # 1
  BY DEF IInv, MutexInv
<1>4. MutexInv'
  BY <1>1, <1>2, <1>3 DEF IInv, MutexInv
<1>5. HomeInv'
  BY <1>1, <1>2, <1>3 DEF HomeInv, Holders, Away
<1>6. TargetInv'
  BY <1>1, <1>2 DEF TargetInv, Holders, Away
<1>7. KindInv'
  BY <1>1, <1>2 DEF IInv, KindInv, Holders, Away
<1> QED
  BY <1>4, <1>5, <1>6, <1>7 DEF IInv

LEMMA HomeCallsKeep ==
  ASSUME IInv, NEW c \in Clients,
         Run(c) \/ Choose(c) \/ Peek(c) \/ Primary(c) \/ Tables(c)
  PROVE  IInv'
<1>1. /\ pc[c] \in {"run", "choose", "peek", "primary", "tables"}
      /\ \E to \in {"post", "dead"} : pc' = [pc EXCEPT ![c] = to]
      /\ UNCHANGED <<stack, sem, calls>>
  BY ParsedPlaces DEF Run, Choose, Peek, Primary, Tables, Goto
<1>2. /\ db' \in Databases /\ chosen' \in Databases /\ misled' \in BOOLEAN
      /\ ChannelInv' /\ (~misled' => db' = chosen')
  <2>1. CASE Choose(c)
    BY <1>1, <2>1, UseDbTyped DEF Choose, UseDb, IInv, TypeOK, HomeInv, ChannelInv, Holders, Away
  <2>2. CASE Run(c) \/ Peek(c) \/ Primary(c) \/ Tables(c)
    BY <1>1, <2>2 DEF Run, Peek, Primary, Tables, IInv, TypeOK, HomeInv, ChannelInv, Holders, Away
  <2> QED
    BY <2>1, <2>2
<1>3. /\ \E r \in Outputs : output' = [output EXCEPT ![c] = r]
      /\ \E r \in Outcomes : outcome' = [outcome EXCEPT ![c] = r]
  <2>1. CASE Run(c) \/ Primary(c)
    BY <2>1, RepliesTyped DEF Run, Primary, Reply, Result, Verdict, Outputs, Outcomes
  <2>2. CASE Choose(c)
    BY <2>2, RepliesTyped, UseDbTyped DEF Choose, Reply, Result, Verdict, Outcomes, IInv, TypeOK
  <2>3. CASE Peek(c) \/ Tables(c)
    BY <2>3, RepliesTyped DEF Peek, Tables, Reply, Result, Outcomes
  <2> QED
    BY <2>1, <2>2, <2>3
<1>4. lastOutput' \in [Clients -> {"plain", "error"}]
  BY DEF Run, Choose, Peek, Primary, Tables, Keep, IInv, TypeOK
<1>5. seen' \in [Clients -> SUBSET Databases]
  BY CatalogAssumption DEF Run, Choose, Peek, Primary, Tables, IInv, TypeOK
<1>6. TypeOK'
  <2>1. \E to \in Places : pc' = [pc EXCEPT ![c] = to]
    BY <1>1 DEF Places, Holders
  <2>2. /\ pc' \in [Clients -> Places] /\ output' \in [Clients -> Outputs]
        /\ outcome' \in [Clients -> Outcomes]
    BY <1>3, <2>1, MoveTyped DEF IInv
  <2> QED
    BY <1>1, <1>2, <1>4, <1>5, <2>2 DEF IInv, TypeOK, stack, Places, Outcomes
<1> QED
  BY <1>1, <1>2, <1>6, HolderKeeps DEF Holders, Away, stack

\* Only here may a call be misled.
LEMMA AskCurrentKeeps == ASSUME IInv, NEW c \in Clients, AskCurrent(c) PROVE IInv'
<1>1. /\ pc[c] = "current"
      /\ \E to \in {"switch", "post", "dead"} : pc' = [pc EXCEPT ![c] = to]
      /\ UNCHANGED <<call, want, inner, todo, seen, lastOutput, sem, db, chosen, calls>>
  BY DEF AskCurrent, Goto
<1>2. /\ \E r \in Outputs : output' = [output EXCEPT ![c] = r]
      /\ \E r \in Outcomes : outcome' = [outcome EXCEPT ![c] = r]
  BY RepliesTyped DEF AskCurrent, Reply, Result, Outcomes
<1>3. PICK line \in Lines :
        /\ previous' = [previous EXCEPT ![c] = line]
        /\ misled' = (misled \/ line # db)
        /\ line # db => AnswersMixed
  BY DEF AskCurrent, Replies, Foreign, Lines, IInv, TypeOK
<1>4. TypeOK'
  <2>1. \E to \in Places : pc' = [pc EXCEPT ![c] = to]
    BY <1>1 DEF Places, Holders, Away
  <2>2. /\ pc' \in [Clients -> Places] /\ output' \in [Clients -> Outputs]
        /\ outcome' \in [Clients -> Outcomes]
    BY <1>2, <2>1, MoveTyped DEF IInv
  <2>3. previous' \in [Clients -> Lines] /\ misled' \in BOOLEAN
    BY <1>3 DEF IInv, TypeOK
  <2> QED
    BY <1>1, <2>2, <2>3 DEF IInv, TypeOK, Places, Outcomes
<1>5. ChannelInv' /\ (~misled' => db' = chosen' /\ previous'[c] = chosen')
  BY <1>1, <1>3 DEF IInv, TypeOK, HomeInv, ChannelInv, Holders, Away
<1> QED
  BY <1>1, <1>4, <1>5, HolderKeeps DEF Holders, Away

LEMMA SwitchKeeps == ASSUME IInv, NEW c \in Clients, Switch(c) PROVE IInv'
<1>1. /\ pc[c] = "switch"
      /\ \E to \in {"back", "shows", "keys", "select"} : pc' = [pc EXCEPT ![c] = to]
  BY DEF Switch, Goto
<1>2. /\ db' = UseDb(Wanted(c)) /\ db' \in Databases
      /\ UNCHANGED <<stack, seen, lastOutput, sem, chosen, misled, calls>>
  BY UseDbTyped DEF Switch, IInv, TypeOK
<1>3. /\ \E r \in Outputs : output' = [output EXCEPT ![c] = r]
      /\ \E r \in Outcomes : outcome' = [outcome EXCEPT ![c] = r]
  BY RepliesTyped, UseDbTyped DEF Switch, Reply, Result, Outcomes, IInv, TypeOK
<1>4. TypeOK'
  <2>1. \E to \in Places : pc' = [pc EXCEPT ![c] = to]
    BY <1>1 DEF Places, Holders, Away
  <2>2. /\ pc' \in [Clients -> Places] /\ output' \in [Clients -> Outputs]
        /\ outcome' \in [Clients -> Outcomes]
    BY <1>3, <2>1, MoveTyped DEF IInv
  <2> QED
    BY <1>2, <2>2 DEF IInv, TypeOK, stack, Places, Outcomes
<1>5. /\ ChannelInv' /\ (~misled' => previous'[c] = chosen')
      /\ Wanted(c)' \in Databases => db' = Wanted(c)'
  BY <1>1, <1>2 DEF IInv, HomeInv, ChannelInv, stack, Away, UseDb, Wanted
<1> QED
  BY <1>1, <1>2, <1>4, <1>5, HolderKeeps DEF Holders, Away, stack

\* The exchanges of the result tables: each leads away, or to the end.
LEMMA BuildMoves ==
  ASSUME IInv, NEW c \in Clients, NEW from \in Away, NEW to \in Away,
         NEW r \in Outputs, Build(c, from, to, r)
  PROVE  /\ pc[c] = from
         /\ \E place \in {to, "check", "dead"} : pc' = [pc EXCEPT ![c] = place]
         /\ output' = [output EXCEPT ![c] = r]
  BY ParsedPlaces DEF Build, Goto, Reply

LEMMA TableExchangeKeeps ==
  ASSUME IInv, NEW c \in Clients, pc[c] \in Away, NEW to \in Away \cup {"dead"},
         pc' = [pc EXCEPT ![c] = to],
         \E r \in Outputs : output' = [output EXCEPT ![c] = r],
         UNCHANGED <<call, previous, outcome, lastOutput, sem, chosen, misled, calls>>,
         want' \in [Clients -> Names], inner' \in [Clients -> Lines],
         todo' \in [Clients -> SUBSET Lines], seen' \in [Clients -> SUBSET Databases],
         db' \in Databases,
         to \in {"innerCurrent", "innerSwitch"} => want'[c] \in Lines,
         to \in {"keys", "select"} /\ Wanted(c)' \in Databases => db' = Wanted(c)'
  PROVE  IInv'
<1>1. pc' \in [Clients -> Places]
  BY DEF IInv, TypeOK, Places, Holders
<1>2. output' \in [Clients -> Outputs]
  BY DEF IInv, TypeOK, Outputs
<1>3. TypeOK'
  BY <1>1, <1>2 DEF IInv, TypeOK, Places
<1>4. ChannelInv' /\ (~misled' => previous'[c] = chosen')
  BY DEF IInv, HomeInv, ChannelInv
<1> QED
  BY <1>3, <1>4, HolderKeeps DEF Holders, Away

LEMMA ShowsKeeps == ASSUME IInv, NEW c \in Clients, Shows(c) PROVE IInv'
<1>1. PICK r \in Outputs :
        /\ Build(c, "shows", "schema", r)
        /\ \E D \in Listed(want[c], r) : todo' = [todo EXCEPT ![c] = D]
  BY RepliesTyped DEF Shows
<1>2. /\ pc[c] = "shows" /\ \E r2 \in Outputs : output' = [output EXCEPT ![c] = r2]
      /\ \E to \in {"schema", "check", "dead"} : pc' = [pc EXCEPT ![c] = to]
  BY <1>1, BuildMoves DEF Away
<1>3. todo' \in [Clients -> SUBSET Lines]
  <2>1. Listed(want[c], r) \subseteq SUBSET Lines
    BY DEF Listed, Matching, Lines
  <2> QED
    BY <1>1, <2>1 DEF IInv, TypeOK
<1> QED
  BY <1>2, <1>3, TableExchangeKeeps DEF Shows, Away, IInv, TypeOK

LEMMA SchemaKeeps == ASSUME IInv, NEW c \in Clients, Schema(c) PROVE IInv'
<1>1. UNCHANGED <<call, previous, inner, outcome, seen, lastOutput, sem, db, chosen, misled, calls>>
  BY DEF Schema
<1>2. CASE todo[c] = {} /\ Goto(c, "schema", "check") /\ UNCHANGED <<want, todo, output>>
  <2>1. output = [output EXCEPT ![c] = output[c]] /\ output[c] \in Outputs
    BY DEF IInv, TypeOK
  <2>2. \E r \in Outputs : output' = [output EXCEPT ![c] = r]
    BY <1>2, <2>1
  <2> QED
    BY <1>1, <1>2, <2>2, TableExchangeKeeps DEF Goto, Away, IInv, TypeOK
<1>3. CASE \E d \in todo[c] : \E r \in Replies(UseAnswer(d)) :
             /\ \/ /\ Build(c, "schema", "innerCurrent", r)
                   /\ want' = [want EXCEPT ![c] = d]
                \/ Build(c, "schema", "schema", r) /\ UNCHANGED want
             /\ todo' = [todo EXCEPT ![c] = @ \ {d}]
  <2>1. PICK d \in Lines, r \in Outputs :
             /\ \/ /\ Build(c, "schema", "innerCurrent", r)
                   /\ want' = [want EXCEPT ![c] = d]
                \/ Build(c, "schema", "schema", r) /\ UNCHANGED want
             /\ todo' = [todo EXCEPT ![c] = @ \ {d}]
    BY <1>3, RepliesTyped, UseDbTyped DEF IInv, TypeOK
  <2>3. todo' \in [Clients -> SUBSET Lines]
    BY <2>1 DEF IInv, TypeOK
  <2>4. CASE Build(c, "schema", "schema", r) /\ UNCHANGED want
    <3>1. /\ pc[c] = "schema" /\ output' = [output EXCEPT ![c] = r]
          /\ \E to \in {"schema", "check", "dead"} : pc' = [pc EXCEPT ![c] = to]
      BY <2>4, BuildMoves DEF Away
    <3> QED
      BY <1>1, <2>3, <2>4, <3>1, TableExchangeKeeps DEF Away, IInv, TypeOK
  <2>5. CASE Build(c, "schema", "innerCurrent", r) /\ want' = [want EXCEPT ![c] = d]
    <3>1. /\ pc[c] = "schema" /\ output' = [output EXCEPT ![c] = r]
          /\ \E to \in {"innerCurrent", "check", "dead"} : pc' = [pc EXCEPT ![c] = to]
      BY <2>5, BuildMoves DEF Away
    <3>2. want' \in [Clients -> Names] /\ want'[c] \in Lines
      BY <2>5 DEF IInv, TypeOK, Names, Lines
    <3> QED
      BY <1>1, <2>3, <3>1, <3>2, TableExchangeKeeps DEF Away, IInv, TypeOK
  <2> QED
    BY <2>1, <2>4, <2>5
<1> QED
  BY <1>2, <1>3 DEF Schema

LEMMA InnerCurrentKeeps == ASSUME IInv, NEW c \in Clients, InnerCurrent(c) PROVE IInv'
<1>1. PICK r \in Outputs :
        /\ Build(c, "innerCurrent", "innerSwitch", r)
        /\ \E line \in IF Foreign(r) THEN Lines ELSE {db} : inner' = [inner EXCEPT ![c] = line]
  BY RepliesTyped DEF InnerCurrent
<1>2. /\ pc[c] = "innerCurrent" /\ \E r2 \in Outputs : output' = [output EXCEPT ![c] = r2]
      /\ \E to \in {"innerSwitch", "check", "dead"} : pc' = [pc EXCEPT ![c] = to]
  BY <1>1, BuildMoves DEF Away
<1>3. inner' \in [Clients -> Lines]
  BY <1>1 DEF IInv, TypeOK, Lines
<1>4. want[c] \in Lines
  BY <1>2 DEF IInv, TargetInv
<1> QED
  BY <1>2, <1>3, <1>4, TableExchangeKeeps DEF InnerCurrent, Away, IInv, TypeOK

LEMMA InnerSwitchKeeps == ASSUME IInv, NEW c \in Clients, InnerSwitch(c) PROVE IInv'
<1>1. /\ pc[c] = "innerSwitch"
      /\ \E to \in {"select", "check"} : pc' = [pc EXCEPT ![c] = to]
  BY DEF InnerSwitch, Goto
<1>2. \E r \in Outputs : output' = [output EXCEPT ![c] = r]
  BY RepliesTyped, UseDbTyped DEF InnerSwitch, Reply, IInv, TypeOK
<1>3. want[c] \in Lines /\ db' = UseDb(want[c]) /\ db' \in Databases
  BY <1>1, UseDbTyped DEF IInv, TypeOK, TargetInv, InnerSwitch
<1>4. Wanted(c)' = want[c] /\ (Wanted(c)' \in Databases => db' = Wanted(c)')
  BY <1>3, CatalogAssumption DEF InnerSwitch, Lines, UseDb, Wanted, stack
<1> QED
  BY <1>1, <1>2, <1>3, <1>4, TableExchangeKeeps DEF InnerSwitch, stack, Away, IInv, TypeOK

LEMMA KeysKeep == ASSUME IInv, NEW c \in Clients, Keys(c) PROVE IInv'
<1>1. PICK r \in Outputs : Build(c, "keys", "select", r)
  BY RepliesTyped DEF Keys, Outputs
<1>2. /\ pc[c] = "keys" /\ \E r2 \in Outputs : output' = [output EXCEPT ![c] = r2]
      /\ \E to \in {"select", "check", "dead"} : pc' = [pc EXCEPT ![c] = to]
  BY <1>1, BuildMoves DEF Away
<1>3. Wanted(c)' \in Databases => db' = Wanted(c)'
  BY <1>2 DEF IInv, TargetInv, Keys, stack, Wanted
<1> QED
  BY <1>2, <1>3, TableExchangeKeeps DEF Keys, stack, Away, IInv, TypeOK

LEMMA SelectKeeps == ASSUME IInv, NEW c \in Clients, Select(c) PROVE IInv'
<1>1. /\ pc[c] = "select"
      /\ \E to \in {"innerBack", "check", "dead"} : pc' = [pc EXCEPT ![c] = to]
  BY ParsedPlaces DEF Select, Build, Goto
<1>2. \E r \in Outputs : output' = [output EXCEPT ![c] = r]
  BY RepliesTyped DEF Select, Build, Reply, Outputs
<1>3. seen' \in [Clients -> SUBSET Databases]
  BY DEF Select, IInv, TypeOK
<1>4. UNCHANGED <<stack, outcome, lastOutput, sem, db, chosen, misled, calls>>
  BY DEF Select
<1>5. UNCHANGED <<call, want, previous, inner, todo>>
  BY <1>4 DEF stack
<1> QED
  BY <1>1, <1>2, <1>3, <1>4, <1>5, TableExchangeKeeps DEF Away, IInv, TypeOK

LEMMA InnerBackKeeps == ASSUME IInv, NEW c \in Clients, InnerBack(c) PROVE IInv'
<1>1. /\ pc[c] = "innerBack"
      /\ \E to \in {"schema", "check", "dead"} : pc' = [pc EXCEPT ![c] = to]
      /\ UNCHANGED <<call, want, previous, inner, todo, outcome, seen, lastOutput, sem, chosen,
                     misled, calls>>
  <2>1. Parsed(output[c], "schema") \subseteq {"schema", "dead"}
    BY ParsedPlaces
  <2> QED
    BY <2>1 DEF InnerBack, Goto, stack
<1>2. \E r \in Outputs : output' = [output EXCEPT ![c] = r]
  BY RepliesTyped, UseDbTyped DEF InnerBack, Reply, IInv, TypeOK
<1>3. db' \in Databases
  BY UseDbTyped DEF InnerBack, IInv, TypeOK
<1> QED
  BY <1>1, <1>2, <1>3, TableExchangeKeeps DEF Away, IInv, TypeOK

LEMMA CheckKeeps == ASSUME IInv, NEW c \in Clients, Check(c) PROVE IInv'
<1>1. /\ pc[c] = "check" /\ pc' = [pc EXCEPT ![c] = "back"]
      /\ UNCHANGED <<call, want, previous, output, seen, lastOutput, sem, db, chosen, misled, calls>>
  BY DEF Check, Goto
<1>2. \E r \in Outcomes : outcome' = [outcome EXCEPT ![c] = r]
  BY DEF Check, Result, Outcomes
<1>3. pc' \in [Clients -> Places] /\ outcome' \in [Clients -> Outcomes]
  BY <1>1, <1>2 DEF IInv, TypeOK, Places, Holders, Away, Outcomes
<1>4. inner' \in [Clients -> Lines] /\ todo' \in [Clients -> SUBSET Lines]
  BY CatalogAssumption DEF Check, IInv, TypeOK, Lines
<1>5. TypeOK'
  BY <1>1, <1>3, <1>4 DEF IInv, TypeOK, Places, Outcomes
<1>6. ChannelInv' /\ (~misled' => previous'[c] = chosen')
  BY <1>1 DEF IInv, HomeInv, ChannelInv, Away
<1> QED
  BY <1>1, <1>5, <1>6, HolderKeeps DEF Holders, Away

LEMMA BackKeeps == ASSUME IInv, NEW c \in Clients, Back(c) PROVE IInv'
<1>1. /\ pc[c] = "back" /\ pc' = [pc EXCEPT ![c] = "post"] /\ db' = UseDb(previous[c])
      /\ UNCHANGED <<stack, seen, lastOutput, sem, chosen, misled, calls>>
  BY DEF Back, Goto
<1>2. /\ \E r \in Outputs : output' = [output EXCEPT ![c] = r]
      /\ \E r \in Outcomes : outcome' = [outcome EXCEPT ![c] = r]
  BY RepliesTyped, UseDbTyped DEF Back, Reply, Result, Outcomes, IInv, TypeOK
<1>3. /\ pc' \in [Clients -> Places] /\ output' \in [Clients -> Outputs]
      /\ outcome' \in [Clients -> Outcomes]
  BY <1>1, <1>2, MoveTyped DEF IInv, Places, Holders
<1>4. TypeOK'
  BY <1>1, <1>3, UseDbTyped DEF IInv, TypeOK, stack, Places, Outcomes
<1>5. ChannelInv' /\ (~misled' => db' = chosen')
  BY <1>1 DEF IInv, TypeOK, HomeInv, ChannelInv, UseDb, Away
<1> QED
  BY <1>1, <1>4, <1>5, HolderKeeps DEF Holders, Away, stack

\* The locals forgotten, everything has its type.
LEMMA ForgetTyped ==
  ASSUME TypeOK, NEW c \in Clients, Forget(c), UNCHANGED <<seen, lastOutput, db, chosen, misled, calls>>,
         outcome' \in [Clients -> Outcomes], sem' \in Nat,
         NEW to \in Places, pc' = [pc EXCEPT ![c] = to]
  PROVE  TypeOK'
<1>1. pc' \in [Clients -> Places]
  BY DEF TypeOK, Places
<1>2. /\ call' \in [Clients -> Kinds] /\ want' \in [Clients -> Names]
      /\ output' \in [Clients -> Outputs]
  BY DEF Forget, Reply, TypeOK, Kinds, Names, Outputs
<1>3. /\ previous' \in [Clients -> Lines] /\ inner' \in [Clients -> Lines]
      /\ todo' \in [Clients -> SUBSET Lines]
  BY CatalogAssumption DEF Forget, TypeOK, Lines
<1> QED
  BY <1>1, <1>2, <1>3 DEF TypeOK, Places, Outcomes

\* A client that leaves its call, giving the mutex back, without it, or dying.
LEMMA PostKeeps == ASSUME IInv, NEW c \in Clients, Post(c) PROVE IInv'
<1>1. /\ pc[c] = "post" /\ \E to \in {"idle", "dead"} : pc' = [pc EXCEPT ![c] = to]
      /\ sem' = sem + 1 /\ Forget(c)
      /\ UNCHANGED <<outcome, seen, lastOutput, db, chosen, misled, calls>>
  BY DEF Post, Goto
<1>2. sem = 0 /\ (~misled => db = chosen) /\ \A d \in Clients : d # c => pc[d] \notin Holders
  BY <1>1 DEF IInv, MutexInv, HomeInv, Holders, Away
<1>3. \A d \in Clients : pc'[d] \notin Holders
  BY <1>1, <1>2 DEF IInv, TypeOK, Holders, Away
<1>4. TypeOK'
  <2>1. outcome' \in [Clients -> Outcomes] /\ sem' \in Nat /\ TypeOK
    BY <1>1, <1>2 DEF IInv, TypeOK, Outcomes
  <2> QED
    BY <1>1, <2>1, ForgetTyped DEF Places
<1>5. MutexInv' /\ HomeInv' /\ ChannelInv' /\ TargetInv'
  BY <1>1, <1>2, <1>3 DEF IInv, MutexInv, HomeInv, ChannelInv, TargetInv, Holders, Away
<1>6. KindInv'
  BY <1>3 DEF KindInv, Holders
<1> QED
  BY <1>4, <1>5, <1>6 DEF IInv

LEMMA OthersLeave ==
  ASSUME IInv, NEW c \in Clients, MutexTimeout(c) \/ Crash(c)
  PROVE  IInv'
<1>1. /\ \E to \in {"idle", "dead"} : pc' = [pc EXCEPT ![c] = to]
      /\ Forget(c) /\ UNCHANGED <<seen, lastOutput, sem, db, chosen, misled, calls>>
  BY DEF MutexTimeout, Crash, Goto
<1>2. outcome' \in [Clients -> Outcomes]
  BY DEF MutexTimeout, Crash, Result, IInv, TypeOK, Outcomes
<1>3. TypeOK'
  BY <1>1, <1>2, ForgetTyped DEF IInv, TypeOK, Places, Outcomes
<1>4. \A d \in Clients :
        /\ pc'[d] \in Holders => d # c /\ pc'[d] = pc[d]
        /\ d # c => want'[d] = want[d] /\ previous'[d] = previous[d] /\ call'[d] = call[d]
  BY <1>1 DEF IInv, TypeOK, Forget, Holders, Away
<1>5. UNCHANGED <<sem, db, chosen, misled>>
  BY <1>1
<1>6. MutexInv' /\ ChannelInv'
  BY <1>4, <1>5 DEF IInv, MutexInv, ChannelInv
<1>7. HomeInv'
  <2>1. ~misled => \A d \in Clients : pc'[d] \in Holders \ Away => db' = chosen'
    BY <1>4, <1>5 DEF IInv, HomeInv
  <2>2. ~misled => \A d \in Clients : pc'[d] \in Away => previous'[d] = chosen'
    BY <1>4, <1>5 DEF IInv, HomeInv, Holders
  <2> QED
    BY <1>5, <2>1, <2>2 DEF IInv, HomeInv
<1>8. TargetInv'
  BY <1>4, <1>5 DEF IInv, TargetInv, Holders, Away, Wanted
<1>9. KindInv'
  BY <1>4 DEF IInv, KindInv, Holders
<1> QED
  BY <1>3, <1>6, <1>7, <1>8, <1>9 DEF IInv

LEMMA StepKeeps == ASSUME IInv, [Next]_vars PROVE IInv'
<1>1. CASE UNCHANGED vars
  BY <1>1 DEF vars, stack, IInv, TypeOK, MutexInv, HomeInv, ChannelInv, TargetInv,
     KindInv, Wanted
<1>2. ASSUME NEW c \in Clients, CallStep(c) PROVE IInv'
  BY <1>2, TakeMutexKeeps, OthersLeave, HomeCallsKeep, AskCurrentKeeps, SwitchKeeps,
     ShowsKeeps, SchemaKeeps, InnerCurrentKeeps, InnerSwitchKeeps, KeysKeep, SelectKeeps,
     InnerBackKeeps, CheckKeeps, BackKeeps, PostKeeps DEF CallStep
<1>3. ASSUME NEW c \in Clients, Begin(c) \/ Crash(c) PROVE IInv'
  BY <1>3, BeginKeeps, OthersLeave
<1> QED
  BY <1>1, <1>2, <1>3 DEF Next

\* The discipline of the switching calls: nobody else is anywhere, and unless a
\* call has taken another answer for /current_db's since the applications last
\* chose, the holder of the query mutex is at home or knows where to go back to.
THEOREM Invariance == Spec => []IInv
<1>1. Init => IInv
  BY InitHolds
<1>2. IInv /\ [Next]_vars => IInv'
  BY StepKeeps
<1> QED
  BY <1>1, <1>2, PTL DEF Spec

\* Every state variable of the catalog calls keeps its type.
THEOREM TypeCorrect == Spec => []TypeOK
<1>1. IInv => TypeOK
  BY DEF IInv
<1> QED
  BY <1>1, Invariance, PTL

\* Whenever the query mutex is free, DES is in the database the applications last
\* chose, unless a call took another answer for /current_db's since: every path of
\* every catalog call undoes its switch before its release, whatever becomes of any
\* other answer, for any number of connections and databases.
THEOREM SwitchUndone == Spec => []DatabaseKept
<1>1. IInv => DatabaseKept
  BY DEF IInv, MutexInv, HomeInv, DatabaseKept
<1> QED
  BY <1>1, Invariance, PTL

\* On a channel that gives every exchange its own answer there is no exception:
\* DES is always back where the applications want it.
THEOREM AlwaysReverted == ~AnswersMixed => (Spec => []ChangeReverted)
<1> SUFFICES ASSUME ~AnswersMixed PROVE Spec => []ChangeReverted
  OBVIOUS
<1>1. IInv => ChangeReverted
  BY DEF IInv, MutexInv, HomeInv, ChannelInv, ChangeReverted
<1> QED
  BY <1>1, Invariance, PTL

\* With the same exception, no statement ever runs in a database a catalog call
\* switched to, even one that died there.
THEOREM StatementsStayHome == Spec => []StatementsAtHome
<1>1. IInv => StatementsAtHome
  BY DEF IInv, HomeInv, StatementsAtHome, Holders, Away
<1> QED
  BY <1>1, Invariance, PTL

\* A catalog call reads the tables of the database it reports them for.
THEOREM ReadsWhereItSays == Spec => []RightDatabase
<1>1. IInv => RightDatabase
  BY DEF IInv, TargetInv, RightDatabase
<1> QED
  BY <1>1, Invariance, PTL

-----------------------------------------------------------------------------
(* The refinement.                                                         *)

Stages == [c \in Clients |-> Stage(c)]

\* The mapping follows the client that moves.
LEMMA StageFollows ==
  ASSUME TypeOK, NEW c \in Clients, \E to : pc' = [pc EXCEPT ![c] = to],
         \E k : call' = [call EXCEPT ![c] = k]
  PROVE  Stages' = [Stages EXCEPT ![c] = Stage(c)']
<1>1. \A d \in Clients : d # c => pc'[d] = pc[d] /\ call'[d] = call[d]
  BY DEF TypeOK
<1>2. \A d \in Clients : d # c => Stage(d)' = Stage(d)
  BY <1>1 DEF Stage
<1> QED
  BY <1>2 DEF Stages

\* A call goes on, or its process dies of what it read.
LEMMA MovesOn ==
  ASSUME IInv, NEW c \in Clients, pc[c] \notin {"idle", "dead"},
         \E to \in Places \ {"idle"} : pc' = [pc EXCEPT ![c] = to], UNCHANGED call
  PROVE  /\ Stages' = [Stages EXCEPT ![c] = Stage(c)']
         /\ Stage(c)' \in {Stage(c), "idle"}
<1>1. \E k : call' = [call EXCEPT ![c] = k]
  <2>1. call' = [call EXCEPT ![c] = call[c]]
    BY DEF IInv, TypeOK
  <2> QED
    BY <2>1
<1>2. Stages' = [Stages EXCEPT ![c] = Stage(c)']
  BY <1>1, StageFollows DEF IInv
<1> QED
  BY <1>2 DEF Stage

LEMMA StepsMap == ASSUME IInv, [Next]_vars PROVE [Service!Next]_(Service!vars)
<1>1. CASE UNCHANGED vars
  <2>1. UNCHANGED Stages
    BY <1>1 DEF vars, stack, Stages, Stage
  <2> QED
    BY <1>1, <2>1 DEF vars, Service!vars, Stages
<1>2. ASSUME NEW c \in Clients, Begin(c) PROVE Service!Ask(c)
  <2>1. \E to : pc' = [pc EXCEPT ![c] = to]
    <3>1. pc = [pc EXCEPT ![c] = pc[c]]
      BY DEF IInv, TypeOK
    <3> QED
      BY <1>2, <3>1 DEF Begin
  <2>2. \E k : call' = [call EXCEPT ![c] = k]
    <3>1. call = [call EXCEPT ![c] = call[c]]
      BY DEF IInv, TypeOK
    <3> QED
      BY <1>2, <3>1 DEF Begin
  <2>3. Stages' = [Stages EXCEPT ![c] = Stage(c)']
    BY <2>1, <2>2, StageFollows DEF IInv
  <2>4. Stages[c] = "idle" /\ Stage(c)' \in {"idle", "home", "abroad"}
    BY <1>2 DEF Begin, Stages, Stage
  <2> QED
    BY <1>2, <2>3, <2>4 DEF Service!Ask, Begin, Stages
<1>3. ASSUME NEW c \in Clients, MutexTimeout(c) \/ Post(c) \/ Crash(c) PROVE Service!Leave(c)
  <2>1. /\ \E to \in {"idle", "dead"} : pc' = [pc EXCEPT ![c] = to]
        /\ \E k : call' = [call EXCEPT ![c] = k]
        /\ UNCHANGED <<seen, chosen, misled>>
    BY <1>3 DEF MutexTimeout, Post, Crash, Goto, Forget
  <2>2. Stage(c)' = "idle"
    BY <2>1 DEF IInv, TypeOK, Stage
  <2>3. Stages' = [Stages EXCEPT ![c] = Stage(c)']
    BY <2>1, StageFollows DEF IInv
  <2> QED
    BY <2>1, <2>2, <2>3 DEF Service!Leave, Stages
<1>4. ASSUME NEW c \in Clients,
             \/ TakeMutex(c) \/ (AskCurrent(c) /\ misled' = misled) \/ Switch(c)
             \/ Shows(c) \/ Schema(c) \/ InnerCurrent(c) \/ InnerSwitch(c) \/ Keys(c)
             \/ InnerBack(c) \/ Check(c) \/ Back(c)
      PROVE  Service!Leave(c) \/ UNCHANGED Service!vars
  <2> DEFINE Moves == /\ pc[c] \notin {"idle", "dead"}
                      /\ \E to \in Places \ {"idle"} : pc' = [pc EXCEPT ![c] = to]
  <2>1. Moves
    <3>1. CASE TakeMutex(c)
      <4>1. FirstPlace(call[c]) \in Places \ {"idle"}
        BY DEF FirstPlace, Places, Holders
      <4> QED
        BY <3>1, <4>1 DEF TakeMutex, Goto
    <3>2. CASE AskCurrent(c)
      BY <3>2 DEF AskCurrent, Goto, Places, Holders, Away
    <3>3. CASE Switch(c)
      BY <3>3 DEF Switch, Goto, Places, Holders, Away
    <3>4. CASE Shows(c)
      <4>1. PICK r \in Outputs : Build(c, "shows", "schema", r)
        BY <3>4, RepliesTyped DEF Shows
      <4> QED
        BY <4>1, BuildMoves DEF Places, Holders, Away
    <3>5. CASE Schema(c)
      BY <3>5, ParsedPlaces DEF Schema, Build, Goto, Places, Holders, Away
    <3>6. CASE InnerCurrent(c) \/ Keys(c)
      BY <3>6, ParsedPlaces DEF InnerCurrent, Keys, Build, Goto, Places, Holders, Away
    <3>7. CASE InnerSwitch(c)
      BY <3>7 DEF InnerSwitch, Goto, Places, Holders, Away
    <3>8. CASE InnerBack(c)
      <4>1. Parsed(output[c], "schema") \subseteq {"schema", "dead"}
        BY ParsedPlaces
      <4> QED
        BY <3>8, <4>1 DEF InnerBack, Goto, Places, Holders, Away
    <3>9. CASE Check(c) \/ Back(c)
      BY <3>9 DEF Check, Back, Goto, Places, Holders, Away
    <3> QED
      BY <1>4, <3>1, <3>2, <3>3, <3>4, <3>5, <3>6, <3>7, <3>8, <3>9
  <2>2. UNCHANGED <<call, seen, chosen, misled>>
    BY <1>4 DEF TakeMutex, AskCurrent, Switch, Shows, Schema, InnerCurrent, InnerSwitch,
       Keys, InnerBack, Check, Back, stack
  <2>3. /\ Stages' = [Stages EXCEPT ![c] = Stage(c)']
        /\ Stage(c)' \in {Stages[c], "idle"}
    BY <2>1, <2>2, MovesOn DEF Stages
  <2>4. CASE Stage(c)' = Stages[c]
    <3>1. Stages' = Stages
      BY <2>3, <2>4 DEF Stages
    <3> QED
      BY <2>2, <3>1 DEF Service!vars, Stages
  <2>5. CASE Stage(c)' = "idle"
    BY <2>2, <2>3, <2>5 DEF Service!Leave, Stages
  <2> QED
    BY <2>3, <2>4, <2>5
<1>5. ASSUME NEW c \in Clients, Run(c) \/ Peek(c) PROVE Service!Look(c)
  <2>1. /\ pc[c] \in {"run", "peek"} /\ UNCHANGED <<call, chosen, misled>>
        /\ \E to \in Places \ {"idle"} : pc' = [pc EXCEPT ![c] = to]
    BY <1>5, ParsedPlaces DEF Run, Peek, Goto, Places, Holders, Away, stack
  <2>2. \E D \in {{}} \cup {{d} : d \in Service!Visible} : seen' = [seen EXCEPT ![c] = D]
    <3>1. db \in Service!Visible
      BY <2>1 DEF Service!Visible, IInv, TypeOK, HomeInv, Holders, Away
    <3>2. \E D \in {{}, {db}} : seen' = [seen EXCEPT ![c] = D]
      BY <1>5 DEF Run, Peek
    <3> QED
      BY <3>1, <3>2
  <2>3. /\ Stages' = [Stages EXCEPT ![c] = Stage(c)']
        /\ Stage(c)' \in {Stages[c], "idle"}
    BY <2>1, MovesOn DEF Stages
  <2>4. Stages[c] = "home"
    BY <2>1 DEF Stages, Stage, IInv, KindInv, Switching, Away
  <2> QED
    BY <2>1, <2>2, <2>3, <2>4 DEF Service!Look, Service!See, Stages
<1>6. ASSUME NEW c \in Clients, Choose(c) PROVE Service!Choose(c) \/ UNCHANGED Service!vars
  <2>1. /\ pc[c] = "choose" /\ pc' = [pc EXCEPT ![c] = "post"]
        /\ UNCHANGED <<call, seen>>
    BY <1>6 DEF Choose, Goto, stack
  <2>2. Stages' = [Stages EXCEPT ![c] = Stage(c)']
    BY <2>1, MovesOn DEF Places, Holders
  <2>3. Stages[c] = "home" /\ Stage(c)' = "home"
    BY <2>1 DEF Stages, Stage, IInv, TypeOK, KindInv, Switching, Away
  <2>4. Stages' = Stages
    BY <2>2, <2>3 DEF Stages
  <2>5. CASE want[c] \in Databases
    <3>1. chosen' \in Databases /\ misled' = FALSE
      BY <1>6, <2>5 DEF Choose
    <3> QED
      BY <2>1, <2>3, <2>4, <3>1 DEF Service!Choose, Stages
  <2>6. CASE want[c] \notin Databases
    <3>1. UNCHANGED <<chosen, misled>>
      BY <1>6, <2>6 DEF Choose, IInv, TypeOK
    <3> QED
      BY <2>1, <2>4, <3>1 DEF Service!vars, Stages
  <2> QED
    BY <2>5, <2>6
<1>8. ASSUME NEW c \in Clients, AskCurrent(c), misled' # misled PROVE Service!Lose(c)
  <2>1. /\ pc[c] = "current" /\ pc' = [pc EXCEPT ![c] = "switch"]
        /\ UNCHANGED <<call, seen, chosen>>
        /\ misled' = TRUE /\ AnswersMixed
    BY <1>8 DEF AskCurrent, Goto, Replies, Foreign, IInv, TypeOK
  <2>2. Stages' = [Stages EXCEPT ![c] = Stage(c)']
    BY <2>1, MovesOn DEF Places, Holders, Away
  <2>3. Stages[c] = "abroad" /\ Stage(c)' = "abroad"
    BY <2>1 DEF Stages, Stage, IInv, TypeOK, KindInv, Away
  <2>4. Stages' = Stages
    BY <2>2, <2>3 DEF Stages
  <2> QED
    BY <2>1, <2>3, <2>4 DEF Service!Lose, Stages
<1>7. ASSUME NEW c \in Clients, Primary(c) \/ Tables(c) \/ Select(c) PROVE Service!Browse(c)
  <2>1. /\ pc[c] \in {"primary", "tables", "select"} /\ UNCHANGED <<call, chosen, misled>>
        /\ \E to \in Places \ {"idle"} : pc' = [pc EXCEPT ![c] = to]
    BY <1>7, ParsedPlaces DEF Primary, Tables, Select, Build, Goto, Places, Holders, Away, stack
  <2>2. \E D \in SUBSET Databases : seen' = [seen EXCEPT ![c] = D]
    BY <1>7, CatalogAssumption DEF Primary, Tables, Select, IInv, TypeOK
  <2>3. /\ Stages' = [Stages EXCEPT ![c] = Stage(c)']
        /\ Stage(c)' \in {Stages[c], "idle"}
    BY <2>1, MovesOn DEF Stages
  <2>4. Stages[c] = "abroad"
    BY <2>1 DEF Stages, Stage, IInv, KindInv, Switching, Away
  <2> QED
    BY <2>1, <2>2, <2>3, <2>4 DEF Service!Browse, Service!See, Stages
<1> QED
  <2> DEFINE Mapped == Service!Next \/ UNCHANGED Service!vars
  <2>1. ASSUME NEW c \in Clients, AskCurrent(c) PROVE Mapped
    BY <1>4, <1>8, <2>1 DEF Service!Next
  <2>2. ASSUME NEW c \in Clients,
               \/ TakeMutex(c) \/ Switch(c) \/ Shows(c) \/ Schema(c) \/ InnerCurrent(c)
               \/ InnerSwitch(c) \/ Keys(c) \/ InnerBack(c) \/ Check(c) \/ Back(c)
        PROVE  Mapped
    <3>1. Service!Leave(c) \/ UNCHANGED Service!vars
      BY <1>4, <2>2
    <3> QED
      BY <3>1 DEF Service!Next
  <2>3. ASSUME NEW c \in Clients, MutexTimeout(c) \/ Post(c) \/ Crash(c) PROVE Mapped
    BY <1>3, <2>3 DEF Service!Next
  <2>4. ASSUME NEW c \in Clients, Run(c) \/ Peek(c) PROVE Mapped
    BY <1>5, <2>4 DEF Service!Next
  <2>5. ASSUME NEW c \in Clients, Choose(c) PROVE Mapped
    BY <1>6, <2>5 DEF Service!Next
  <2>6. ASSUME NEW c \in Clients, Primary(c) \/ Tables(c) \/ Select(c) PROVE Mapped
    BY <1>7, <2>6 DEF Service!Next
  <2>7. ASSUME NEW c \in Clients, Begin(c) PROVE Mapped
    BY <1>2, <2>7 DEF Service!Next
  <2> HIDE DEF Mapped
  <2>8. Next => Mapped
    BY <2>1, <2>2, <2>3, <2>4, <2>5, <2>6, <2>7 DEF Next, CallStep
  <2> QED
    BY <1>1, <2>8 DEF Mapped

\* The driver keeps its promise about the database all connections share, for any
\* number of them: on a channel that gives every exchange its own answer, catalog
\* calls that switch DES back and forth implement calls that only look; on any
\* other, calls that at worst lose the database until one is chosen again.
THEOREM KeepsPromise == Spec => SeesChosen
<1>1. Init => Service!Init
  BY DEF Init, Service!Init, Stage
<1>2. IInv /\ [Next]_vars => [Service!Next]_(Service!vars)
  BY StepsMap
<1> QED
  BY <1>1, <1>2, Invariance, PTL DEF Spec, SeesChosen, Service!Spec

=============================================================================
