--------------------------- MODULE StatementProofs ---------------------------
(***************************************************************************)
(* Theorems about StatementExecution, for any number of parameters,        *)
(* parameter sets and calls.                                               *)
(***************************************************************************)
EXTENDS StatementExecution, FiniteSetTheorems, TLAPS

Running == pc \in {"sets", "end"}

\* What an execution has gathered and sent is its own.
TextInv ==
  Running =>
    /\ \A p \in buffer : p.exec = calls
    /\ \A q \in sent : \A p \in q.text : p.exec = calls

\* A state that promises a result promises the prepared statement's.
ResultInv ==
  /\ Running \/ state \in {"preExecuted", "executed"} => result \in {0, prepared}
  /\ Running \/ state # "unknown" => kind # "none"

\* Out of ST_DUMMY_PREPARED, texts show whether all parameters are bound; stand-ins
\* are put in by the execution that ends that state, unless it needs data.
BoundInv == Running /\ dummyState # "prepared" => \A p \in buffer : p.bound = AllBound
DummyInv ==
  /\ dummyState = "unknown" => dummyRuns = {}
  /\ dummyState = "prepared" /\ (pc = "idle" \/ params = 0 \/ HasDae) => dummyRuns = {}
  /\ dummyState = "prepared" /\ Running => dummyRuns \subseteq {calls}
  /\ \A d, e \in dummyRuns : d = e

\* What the loop has come to, and where it marked its last failure.
Told(r) ==
  /\ Inserted(r)
  /\ OwnQuery(r) => \E q \in sent : q.set = r /\ Good(q.verdict) /\ q.verdict = status[r]
PlaceInv ==
  Running =>
    /\ row <= size + 1
    /\ \A p \in buffer : p.set < row
    /\ \A q \in sent : q.set < row
    /\ lastError < row \/ (pc = "end" /\ lastError = row /\ row <= size)
StatusInv ==
  Running /\ params > 0 =>
    /\ \A r \in 1 .. row - 1 :
         /\ status[r] \in {"success", "info", "unavailable", "unused"}
         /\ Good(status[r]) <=> Told(r)
         /\ status[r] = "unavailable" => r <= lastError
    /\ lastError # 0 /\ lastError < row => status[lastError] = "unavailable"
    /\ pc = "end" /\ row <= size =>
         /\ lastError = row
         /\ \A r \in row + 1 .. size : status[r] = "unused"

\* The flags by which the call's result is chosen.
FlagInv ==
  Running =>
    /\ allFailed <=> size > 1 /\ \A q \in sent : q.verdict # "success"
    /\ lastError # 0 => someFailed
    /\ size = 1 /\ lastError # 0 => rc = "error"

IInv ==
  /\ TypeOK
  /\ TextInv /\ OwnExecution
  /\ ResultInv /\ NeverOthersResult
  /\ BoundInv /\ DummyInv
  /\ PlaceInv /\ StatusInv /\ FlagInv
  /\ StatusesTrue /\ ReturnTrue

-----------------------------------------------------------------------------
(* What the steps have in common. *)

Between == Prepare \/ Bind \/ ResetParams \/ Close \/ ExecuteNothing \/ Ask
Begins == Execute \/ Describe

\* A call that is not an execution touches no history of one.
LEMMA BetweenFacts ==
  ASSUME Between
  PROVE  /\ pc = "idle" /\ pc' \in {"idle", "down"}
         /\ call' \in {"other", "ask"}
         /\ sent' = sent
  BY DEF Between, Prepare, Bind, ResetParams, Close, ExecuteNothing, Ask, Called,
     locals, handle

\* An execution starts from nothing.
LEMMA BeginFacts ==
  ASSUME Begins
  PROVE  /\ pc = "idle" /\ pc' = "sets"
         /\ call' \in {"execute", "describe"}
         /\ buffer' = {} /\ sent' = {} /\ result' = 0
         /\ row' = 1 /\ lastError' = 0 /\ someFailed' = FALSE
         /\ size' \in Sets /\ allFailed' = (size' > 1)
         /\ UNCHANGED <<kind, params, prepared, dummyRuns>>
         /\ kind # "none"
  BY DEF Begins, Execute, Describe, Start, FreeBuffers, Called, Returning

LEMMA InitHolds == Init => IInv
<1> SUFFICES ASSUME Init PROVE IInv
  OBVIOUS
<1>1. TypeOK
  <2>1. /\ apd \in [Params -> {"absent", "unbound", "dummy", "real", "dae"}]
        /\ status \in [Sets -> Codes \cup {"unset", "unused", "unavailable"}]
    BY DEF Init
  <2>2. size \in Sets /\ row \in 1 .. MaxSets + 1 /\ lastError \in 0 .. MaxSets
    BY StatementAssumption DEF Init, Sets
  <2>3. params \in 0 .. MaxParams
    BY StatementAssumption DEF Init
  <2>4. /\ buffer \in SUBSET Pieces /\ dummyRuns \in SUBSET Nat
        /\ sent \in SUBSET [set : Sets, text : SUBSET Pieces, verdict : Codes]
    BY DEF Init
  <2> QED
    BY <2>1, <2>2, <2>3, <2>4 DEF Init, TypeOK, Codes
<1>2. ~Running /\ ~Finished /\ sent = {}
  BY DEF Init, Running, Finished
<1>3. TextInv /\ OwnExecution /\ ResultInv /\ NeverOthersResult
  BY <1>2 DEF Init, TextInv, OwnExecution, ResultInv, NeverOthersResult
<1>4. BoundInv /\ DummyInv
  BY <1>2 DEF Init, BoundInv, DummyInv
<1>5. PlaceInv /\ StatusInv /\ FlagInv /\ StatusesTrue /\ ReturnTrue
  BY <1>2 DEF PlaceInv, StatusInv, FlagInv, StatusesTrue, ReturnTrue
<1> QED
  BY <1>1, <1>3, <1>4, <1>5 DEF IInv

-----------------------------------------------------------------------------
(* Types. *)

LEMMA PieceTyped ==
  ASSUME TypeOK, row \in Sets, NEW w \in BOOLEAN
  PROVE  Piece(w) \in Pieces
  BY DEF TypeOK, Piece, Pieces, AllBound

LEMMA TurnTyped ==
  ASSUME TypeOK, Turn
  PROVE  row \in Sets /\ row + 1 \in 1 .. MaxSets + 1
  BY StatementAssumption DEF TypeOK, Turn, Sets

LEMMA ReportTyped ==
  ASSUME TypeOK, row \in Sets, NEW code \in Codes, Report(row, code)
  PROVE  /\ status' \in [Sets -> Codes \cup {"unset", "unused", "unavailable"}]
         /\ lastError' \in 0 .. MaxSets
<1>1. Mapped(code) \in Codes \cup {"unavailable"}
  BY DEF Mapped, Codes, Fails
<1> QED
  BY <1>1, StatementAssumption DEF TypeOK, Report, Sets

LEMMA TypeStep == ASSUME TypeOK, [Next]_vars PROVE TypeOK'
<1>1. CASE Prepare
  BY <1>1 DEF TypeOK, Prepare, Called, MarkPrepared, locals, Codes, Kinds
<1>2. CASE Bind \/ ResetParams \/ Close \/ ExecuteNothing
  <2>1. CASE Bind
    BY <2>1 DEF TypeOK, Bind, Called, locals, Codes
  <2>2. CASE ResetParams
    BY <2>2 DEF TypeOK, ResetParams, Called, locals, Codes
  <2>3. CASE Close
    BY <2>3 DEF TypeOK, Close, Called, locals, Codes
  <2>4. CASE ExecuteNothing
    BY <2>4 DEF TypeOK, ExecuteNothing, Called, handle, locals, Codes
  <2> QED
    BY <1>2, <2>1, <2>2, <2>3, <2>4
<1>3. CASE Begins
  <2>1. DummyParams \/ UNCHANGED <<dummyState, apd>>
    BY <1>3 DEF Begins, Execute, Describe
  <2>2. /\ dummyState' \in {"unknown", "prepared", "executed"}
        /\ apd' \in [Params -> {"absent", "unbound", "dummy", "real", "dae"}]
    BY <2>1 DEF TypeOK, DummyParams
  <2>3. size' \in Sets /\ row' \in 1 .. MaxSets + 1 /\ lastError' \in 0 .. MaxSets
    BY <1>3, BeginFacts, StatementAssumption
  <2>4. /\ calls' \in Nat /\ ret' = "success" /\ rc' = "success"
        /\ state' = state /\ status' = status
    BY <1>3 DEF TypeOK, Begins, Execute, Describe, Called, Start
  <2>5. allFailed' \in BOOLEAN /\ someFailed' \in BOOLEAN
    BY <1>3, BeginFacts
  <2>6. /\ buffer' \in SUBSET Pieces
        /\ sent' \in SUBSET [set : Sets, text : SUBSET Pieces, verdict : Codes]
    BY <1>3, BeginFacts
  <2>7. /\ pc' = "sets" /\ call' \in {"execute", "describe"} /\ result' = 0
        /\ UNCHANGED <<kind, params, prepared, dummyRuns>>
    BY <1>3, BeginFacts
  <2> QED
    BY <2>2, <2>3, <2>4, <2>5, <2>6, <2>7 DEF TypeOK, Codes
<1>4. CASE Ask
  <2>1. /\ dummyState' \in {"unknown", "prepared", "executed"}
        /\ apd' \in [Params -> {"absent", "unbound", "dummy", "real", "dae"}]
    BY <1>4 DEF TypeOK, DummyParams, Ask
  <2> QED
    BY <1>4, <2>1 DEF TypeOK, Ask, Called, locals, Codes
<1>5. CASE IgnoreSet
  BY <1>5, TurnTyped DEF TypeOK, IgnoreSet, Advance, NextSet, handle
<1>6. CASE NeedData \/ FollowNull \/ SendBreaks \/ SetsDone
  <2>1. CASE NeedData \/ FollowNull \/ SetsDone
    BY <2>1 DEF TypeOK, NeedData, FollowNull, SetsDone, handle, locals
  <2>2. CASE SendBreaks
    <3>1. buffer' \in SUBSET Pieces
      BY <2>2, PieceTyped, TurnTyped DEF TypeOK, SendBreaks, Inserts
    <3> QED
      BY <2>2, <3>1 DEF TypeOK, SendBreaks, handle, locals
  <2> QED
    BY <1>6, <2>1, <2>2
<1>7. CASE DaeArray
  <2>1. row \in Sets
    BY <1>7, TurnTyped DEF DaeArray
  <2> QED
    BY <1>7, <2>1, StatementAssumption DEF TypeOK, DaeArray, handle, Codes, Sets
<1>8. CASE SetNotInserted
  <2>1. row \in Sets /\ row + 1 \in 1 .. MaxSets + 1
    BY <1>8, TurnTyped DEF SetNotInserted
  <2>2. buffer' \in SUBSET Pieces
    BY <1>8, <2>1, PieceTyped DEF TypeOK, SetNotInserted
  <2>3. /\ status' \in [Sets -> Codes \cup {"unset", "unused", "unavailable"}]
        /\ lastError' \in 0 .. MaxSets
    BY <1>8, <2>1, ReportTyped DEF SetNotInserted, Codes
  <2>4. /\ rc' \in Codes /\ row' \in 1 .. MaxSets + 1 /\ someFailed' \in BOOLEAN
        /\ UNCHANGED <<pc, call, ret, calls, handle, size, allFailed, sent, dummyRuns>>
    BY <1>8, <2>1 DEF SetNotInserted, Advance, NextSet, Codes
  <2> QED
    BY <2>2, <2>3, <2>4 DEF TypeOK, handle
<1>9. CASE GatherSet
  <2>1. row \in Sets /\ row + 1 \in 1 .. MaxSets + 1
    BY <1>9, TurnTyped DEF GatherSet, Inserts
  <2>2. buffer' \in SUBSET Pieces
    BY <1>9, <2>1, PieceTyped DEF TypeOK, GatherSet, Inserts
  <2>3. /\ status' \in [Sets -> Codes \cup {"unset", "unused", "unavailable"}]
        /\ lastError' \in 0 .. MaxSets
    BY <1>9, <2>1, ReportTyped DEF GatherSet, Codes
  <2> QED
    BY <1>9, <2>1, <2>2, <2>3 DEF TypeOK, GatherSet, Advance, NextSet, handle, Codes
<1>10. CASE SendSet
  <2>1. row \in Sets /\ row + 1 \in 1 .. MaxSets + 1
    BY <1>10, TurnTyped DEF SendSet
  <2>2. buffer' \in SUBSET Pieces
    BY <1>10, <2>1, PieceTyped DEF TypeOK, SendSet, Inserts
  <2>3. Text \in SUBSET Pieces
    BY <2>1, <2>2, PieceTyped DEF Text
  <2>4. /\ rc' \in Codes
        /\ sent' \in SUBSET [set : Sets, text : SUBSET Pieces, verdict : Codes]
        /\ dummyRuns' \in SUBSET Nat
        /\ state' \in {"unknown", "prepared", "preExecuted", "executed"}
        /\ result' \in Nat
    <3>1. CASE NotSent
      BY <3>1 DEF TypeOK, NotSent, Codes
    <3>2. CASE Answered
      BY <3>2, <2>1, <2>3 DEF TypeOK, Answered
    <3> QED
      BY <1>10, <3>1, <3>2 DEF SendSet
  <2>5. /\ status' \in [Sets -> Codes \cup {"unset", "unused", "unavailable"}]
        /\ lastError' \in 0 .. MaxSets
    BY <1>10, <2>1, <2>4, ReportTyped DEF TypeOK, SendSet, Judged
  <2>6. allFailed' \in BOOLEAN /\ someFailed' \in BOOLEAN
    BY <1>10 DEF SendSet, Judged, TypeOK
  <2> QED
    BY <1>10, <2>1, <2>2, <2>4, <2>5, <2>6 DEF TypeOK, SendSet, Advance, NextSet
<1>11. CASE End
  <2>1. Verdict \in Codes \cup {"thrown"}
    BY DEF TypeOK, Verdict, Codes
  <2>2. dummyState' \in {"unknown", "prepared", "executed"}
    BY <1>11 DEF TypeOK, End, DummyAfter
  <2>3. status' \in [Sets -> Codes \cup {"unset", "unused", "unavailable"}]
    BY <1>11 DEF TypeOK, End, Codes
  <2> QED
    BY <1>11, <2>1, <2>2, <2>3 DEF TypeOK, End
<1>12. CASE UNCHANGED vars
  BY <1>12 DEF TypeOK, vars, handle, locals
<1> QED
  BY <1>1, <1>2, <1>3, <1>4, <1>5, <1>6, <1>7, <1>8, <1>9, <1>10, <1>11, <1>12
  DEF Next, LoopStep, Begins

-----------------------------------------------------------------------------
(* Texts and results. *)

Quiet == IgnoreSet \/ NeedData \/ DaeArray \/ SetNotInserted \/ FollowNull \/ GatherSet
           \/ SendBreaks \/ SetsDone

\* What no step of the loop changes, and what only SendSet and End do.
LEMMA LoopFacts ==
  ASSUME LoopStep
  PROVE  /\ Running
         /\ UNCHANGED <<call, calls, kind, params, prepared, apd, size>>
         /\ ~SendSet => UNCHANGED <<sent, dummyRuns, result>>
         /\ ~SendSet /\ ~End => UNCHANGED state
         /\ ~End => UNCHANGED dummyState
  BY DEF LoopStep, Running, Turn, IgnoreSet, NeedData, DaeArray, SetNotInserted,
     FollowNull, GatherSet, Inserts, SendSet, SendBreaks, SetsDone, End, Advance, handle,
     locals

\* The loop adds to the buffer pieces of the set it has come to.
LEMMA BufferFacts ==
  ASSUME LoopStep, NEW p \in buffer', p \notin buffer
  PROVE  /\ pc = "sets" /\ params > 0
         /\ p.exec = calls /\ p.set = row /\ p.bound = AllBound
         /\ p.whole => Inserts /\ (GatherSet \/ SendSet \/ SendBreaks)
<1>1. \E w \in BOOLEAN : p = Piece(w) /\ (w => Inserts)
  <2>1. CASE SetNotInserted
    BY <2>1 DEF SetNotInserted
  <2>2. CASE Inserts
    BY <2>2 DEF Inserts
  <2>3. CASE ~SetNotInserted /\ ~Inserts
    <3>1. UNCHANGED buffer
      BY <2>3 DEF LoopStep, IgnoreSet, NeedData, DaeArray, FollowNull, GatherSet, SendSet,
         SendBreaks, SetsDone, End
    <3> QED
      BY <3>1
  <2> QED
    BY <2>1, <2>2, <2>3
<1>2. GatherSet \/ SendSet \/ SendBreaks \/ SetNotInserted
  BY DEF LoopStep, IgnoreSet, NeedData, DaeArray, FollowNull, SetsDone, End
<1>3. pc = "sets" /\ params > 0
  BY <1>2 DEF GatherSet, SendSet, SendBreaks, SetNotInserted, Turn, Inserts
<1>4. p.exec = calls /\ p.set = row /\ p.bound = AllBound
  BY <1>1 DEF Piece
<1>5. ASSUME p.whole PROVE Inserts /\ (GatherSet \/ SendSet \/ SendBreaks)
  <2>1. Inserts
    BY <1>1, <1>5 DEF Piece
  <2>2. ~SetNotInserted
    <3>1. SUFFICES ASSUME SetNotInserted PROVE FALSE
      OBVIOUS
    <3>2. PICK i \in 1 .. params : p = Piece(FALSE)
      BY <3>1 DEF SetNotInserted
    <3> QED
      BY <3>2, <1>5 DEF Piece
  <2> QED
    BY <1>2, <2>1, <2>2
<1> QED
  BY <1>3, <1>4, <1>5

\* The text a step sends is what is in the buffer, or a query without parameters.
LEMMA SentFacts ==
  ASSUME LoopStep, NEW q \in sent', q \notin sent
  PROVE  /\ SendSet /\ q.set = row /\ q.text = Text
         /\ q.verdict = rc' /\ sent' = sent \cup {q}
<1>1. SendSet
  BY LoopFacts
<1>2. Answered
  BY <1>1 DEF SendSet, NotSent
<1> QED
  BY <1>1, <1>2 DEF Answered

LEMMA TextStep == ASSUME IInv, [Next]_vars PROVE TextInv' /\ OwnExecution'
<1>1. CASE Between
  BY <1>1, BetweenFacts DEF IInv, TextInv, OwnExecution, Running
<1>2. CASE Begins
  BY <1>2, BeginFacts DEF TextInv, OwnExecution
<1>3. CASE LoopStep
  <2>1. calls' = calls /\ Running
    BY <1>3, LoopFacts
  <2>2. \A p \in buffer' : p.exec = calls
    BY <1>3, <2>1, BufferFacts DEF IInv, TextInv
  <2>3. \A p \in Text : p.exec = calls
    BY <2>2 DEF Text, Piece
  <2>4. \A q \in sent' : \A p \in q.text : p.exec = calls
    BY <1>3, <2>1, <2>3, SentFacts DEF IInv, TextInv
  <2> QED
    BY <2>1, <2>2, <2>4 DEF TextInv, OwnExecution
<1>4. CASE UNCHANGED vars
  BY <1>4 DEF IInv, TextInv, OwnExecution, Running, vars
<1> QED
  BY <1>1, <1>2, <1>3, <1>4 DEF Next, Between, Begins

LEMMA ResultStep == ASSUME IInv, [Next]_vars PROVE ResultInv' /\ NeverOthersResult'
<1>1. CASE Prepare \/ Bind \/ ResetParams \/ Close \/ ExecuteNothing
  BY <1>1 DEF IInv, TypeOK, ResultInv, NeverOthersResult, Running, Kinds, Prepare, MarkPrepared,
     Bind, ResetParams, Close, ExecuteNothing, Called, handle
<1>2. CASE Ask
  <2>1. /\ kind' = kind /\ state' = state /\ result' = result /\ prepared' = prepared
        /\ pc' = "idle" /\ (ret' = "success" => state # "unknown")
        /\ state = "prepared" => kind \notin Returning
    BY <1>2 DEF Ask, Called
  <2>2. ret' = "success" /\ state = "prepared" => kind = "insert"
    BY <2>1 DEF IInv, TypeOK, ResultInv, Kinds, Returning
  <2> QED
    BY <2>1, <2>2 DEF IInv, TypeOK, ResultInv, NeverOthersResult, Running
<1>3. CASE Begins
  BY <1>3, BeginFacts DEF ResultInv, NeverOthersResult, Running
<1>4. CASE LoopStep
  <2>1. Running /\ UNCHANGED <<kind, prepared>>
    BY <1>4, LoopFacts
  <2>2. result' \in {0, prepared}
    <3>1. CASE SendSet
      BY <3>1, <2>1 DEF IInv, ResultInv, SendSet, NotSent, Answered
    <3>2. CASE ~SendSet
      BY <3>2, <2>1, <1>4, LoopFacts DEF IInv, ResultInv
    <3> QED
      BY <3>1, <3>2
  <2> QED
    BY <2>1, <2>2 DEF IInv, ResultInv, NeverOthersResult
<1>5. CASE UNCHANGED vars
  BY <1>5 DEF IInv, ResultInv, NeverOthersResult, Running, vars, handle
<1> QED
  BY <1>1, <1>2, <1>3, <1>4, <1>5 DEF Next, Begins

-----------------------------------------------------------------------------
(* Stand-ins for parameters. *)

\* Whether parameters are bound does not change in the loop.
LEMMA BindingKept ==
  ASSUME LoopStep PROVE AllBound' = AllBound /\ HasDae' = HasDae
  BY LoopFacts DEF AllBound, HasDae

\* Out of ST_DUMMY_PREPARED, what is inserted is bound.
LEMMA InsertsBound ==
  ASSUME TypeOK, Inserts, dummyState # "prepared" PROVE AllBound
  BY DEF Inserts, AllUsable, Usable, Refused, AllBound

LEMMA BoundStep == ASSUME IInv, [Next]_vars PROVE BoundInv'
<1>1. CASE Between
  BY <1>1, BetweenFacts DEF BoundInv, Running
<1>2. CASE Begins
  BY <1>2, BeginFacts DEF BoundInv
<1>3. CASE LoopStep
  <2>1. CASE End
    BY <2>1 DEF End, BoundInv, Running
  <2>2. CASE ~End
    <3>1. Running /\ UNCHANGED dummyState
      BY <1>3, <2>2, LoopFacts
    <3> QED
      BY <1>3, <3>1, BufferFacts, BindingKept DEF IInv, BoundInv
  <2> QED
    BY <2>1, <2>2
<1>4. CASE UNCHANGED vars
  BY <1>4 DEF IInv, BoundInv, Running, AllBound, vars, handle
<1> QED
  BY <1>1, <1>2, <1>3, <1>4 DEF Next, Between, Begins

\* An execution sends stand-ins only in ST_DUMMY_PREPARED, and with nothing to be
\* asked for at execution.
LEMMA StandInsFacts ==
  ASSUME IInv, SendSet
  PROVE  /\ dummyRuns \subseteq dummyRuns' /\ dummyRuns' \subseteq dummyRuns \cup {calls}
         /\ dummyRuns' # dummyRuns => dummyState = "prepared" /\ params > 0 /\ ~HasDae
<1>1. /\ dummyRuns \subseteq dummyRuns' /\ dummyRuns' \subseteq dummyRuns \cup {calls}
      /\ dummyRuns' # dummyRuns => SendsDummies
  BY DEF SendSet, NotSent, Answered
<1>2. ASSUME SendsDummies PROVE dummyState = "prepared" /\ params > 0 /\ ~HasDae
  <2>1. params > 0
    <3>1. SUFFICES ASSUME ~(params > 0) PROVE AllBound
      BY <1>2 DEF SendsDummies, Text, Piece
    <3> QED
      BY <3>1 DEF IInv, TypeOK, AllBound, Params
  <2>2. Inserts /\ ~HasDae
    BY <2>1 DEF SendSet, Inserts
  <2>3. dummyState = "prepared"
    <3>1. SUFFICES ASSUME dummyState # "prepared" PROVE FALSE
      OBVIOUS
    <3>2. AllBound
      BY <2>2, <3>1, InsertsBound DEF IInv
    <3>3. \A p \in buffer : p.bound = AllBound
      BY <3>1 DEF IInv, BoundInv, Running, SendSet, Turn
    <3>4. \A p \in buffer' : p.bound = AllBound
      BY <3>3, BufferFacts DEF LoopStep
    <3> QED
      BY <1>2, <2>1, <3>2, <3>4, Zenon DEF SendsDummies, Text
  <2> QED
    BY <2>1, <2>2, <2>3
<1> QED
  BY <1>1, <1>2

LEMMA DummyStep == ASSUME IInv, [Next]_vars PROVE DummyInv'
<1>1. CASE Prepare
  BY <1>1 DEF IInv, DummyInv, Prepare, Called, Running
<1>2. CASE Bind \/ ResetParams \/ ExecuteNothing
  BY <1>2 DEF IInv, DummyInv, Bind, ResetParams, ExecuteNothing, Called, Running, handle
<1>3. CASE Close
  BY <1>3 DEF DummyInv, Close
<1>4. CASE Begins \/ Ask
  <2>1. pc = "idle" /\ dummyRuns' = dummyRuns
    BY <1>4, BeginFacts DEF Ask, Called
  <2>2. DummyParams \/ UNCHANGED dummyState
    BY <1>4 DEF Begins, Ask, Execute, Describe
  <2>3. dummyState' = dummyState \/ (dummyState = "unknown" /\ dummyState' = "prepared")
    BY <2>2 DEF DummyParams, NeedsDummies
  <2>4. dummyState' \in {"unknown", "prepared"} => dummyRuns' = {}
    BY <2>1, <2>3 DEF IInv, DummyInv
  <2> QED
    BY <2>1, <2>4 DEF IInv, DummyInv
<1>5. CASE LoopStep
  <2>1. Running /\ UNCHANGED <<calls, params>> /\ HasDae' = HasDae
    BY <1>5, LoopFacts, BindingKept
  <2>2. CASE End
    <3>1. dummyState' # "prepared" /\ UNCHANGED dummyRuns
      BY <2>2 DEF End, DummyAfter
    <3>2. dummyState' = "unknown" => dummyState = "unknown"
      BY <2>2 DEF End, DummyAfter
    <3> QED
      BY <3>1, <3>2 DEF IInv, DummyInv
  <2>3. CASE SendSet
    <3>1. dummyState' = dummyState /\ pc' = "sets"
      BY <2>3 DEF SendSet, Turn, Advance
    <3>2. /\ dummyRuns' # dummyRuns => dummyState = "prepared" /\ params > 0 /\ ~HasDae
          /\ dummyRuns' \subseteq dummyRuns \cup {calls}
      BY <2>3, StandInsFacts
    <3>3. dummyState = "prepared" => dummyRuns \subseteq {calls}
      BY <2>1 DEF IInv, DummyInv
    <3> QED
      BY <2>1, <3>1, <3>2, <3>3 DEF IInv, DummyInv
  <2>4. CASE ~End /\ ~SendSet
    <3>1. UNCHANGED <<dummyState, dummyRuns>>
      BY <1>5, <2>4, LoopFacts
    <3>2. pc' = "idle" => NeedData
      BY <1>5, <2>4, <2>1 DEF LoopStep, Running, IgnoreSet, DaeArray, SetNotInserted,
         FollowNull, GatherSet, Inserts, SendBreaks, SetsDone, Advance, Turn
    <3>3. pc' = "idle" => HasDae
      BY <3>2 DEF NeedData
    <3> QED
      BY <2>1, <3>1, <3>3 DEF IInv, DummyInv
  <2> QED
    BY <2>2, <2>3, <2>4
<1>6. CASE UNCHANGED vars
  BY <1>6 DEF IInv, DummyInv, Running, HasDae, vars, handle
<1> QED
  BY <1>1, <1>2, <1>3, <1>4, <1>5, <1>6 DEF Next, Begins

-----------------------------------------------------------------------------
(* Statuses. *)

\* The steps that finish the set row, and the others.
Passes == IgnoreSet \/ SetNotInserted \/ GatherSet \/ SendSet

LEMMA PassFacts ==
  ASSUME TypeOK, Passes
  PROVE  /\ pc = "sets" /\ pc' = "sets" /\ row' = row + 1 /\ row <= size
         /\ row \in Sets /\ size \in Sets
         /\ lastError' \in {row, lastError}
         /\ \A r \in Sets : r # row => status'[r] = status[r]
         /\ params = 0 => status' = status
<1>1. Turn /\ Advance
  BY DEF Passes, IgnoreSet, SetNotInserted, GatherSet, Inserts, SendSet
<1>2. row \in Sets
  BY <1>1, TurnTyped
<1>3. /\ lastError' \in {row, lastError}
      /\ \A r \in Sets : r # row => status'[r] = status[r]
      /\ params = 0 => status' = status
  <2>1. CASE IgnoreSet
    BY <2>1, <1>2 DEF TypeOK, IgnoreSet
  <2>2. CASE SetNotInserted \/ GatherSet
    <3>1. params > 0 /\ \E code \in Codes : Report(row, code)
      BY <2>2 DEF SetNotInserted, GatherSet, Inserts, Codes
    <3> QED
      BY <3>1, <1>2 DEF TypeOK, Report
  <2>3. CASE SendSet
    BY <2>3, <1>2 DEF TypeOK, SendSet, Judged, Report
  <2> QED
    BY <2>1, <2>2, <2>3 DEF Passes
<1> QED
  BY <1>1, <1>2, <1>3 DEF Turn, Advance, NextSet, TypeOK

LEMMA OtherFacts ==
  ASSUME LoopStep, ~Passes
  PROVE  NeedData \/ FollowNull \/ SendBreaks \/ DaeArray \/ SetsDone \/ End
  BY DEF LoopStep, Passes

LEMMA Numbers ==
  ASSUME TypeOK
  PROVE  /\ row \in Nat /\ size \in Nat /\ lastError \in Nat /\ row >= 1 /\ size >= 1
         /\ \A q \in sent : q.set \in Nat
         /\ \A p \in buffer : p.set \in Nat
  BY StatementAssumption DEF TypeOK, Sets, Pieces

LEMMA PlaceStep == ASSUME IInv, [Next]_vars PROVE PlaceInv'
<1>1. CASE Between
  BY <1>1, BetweenFacts DEF PlaceInv, Running
<1>2. CASE Begins
  BY <1>2, BeginFacts, StatementAssumption DEF PlaceInv, Sets
<1>3. CASE LoopStep
  <2>1. TypeOK /\ PlaceInv /\ Running
    BY <1>3, LoopFacts DEF IInv
  <2>2. CASE Passes
    <3>1. /\ pc = "sets" /\ row' = row + 1 /\ row <= size /\ size' = size
          /\ lastError' \in {row, lastError}
      BY <1>3, <2>1, <2>2, PassFacts, LoopFacts
    <3>2. \A p \in buffer' : p.set < row'
      BY <1>3, <2>1, <3>1, BufferFacts, Numbers DEF PlaceInv
    <3>3. \A q \in sent' : q.set < row'
      BY <1>3, <2>1, <3>1, SentFacts, Numbers DEF PlaceInv
    <3> QED
      BY <2>1, <3>1, <3>2, <3>3, Numbers DEF PlaceInv
  <2>3. CASE NeedData \/ FollowNull \/ SendBreaks \/ End
    BY <2>3 DEF NeedData, FollowNull, SendBreaks, End, PlaceInv, Running
  <2>4. CASE DaeArray
    BY <2>1, <2>4 DEF DaeArray, Turn, PlaceInv, handle
  <2>5. CASE SetsDone
    BY <2>1, <2>5, Numbers DEF SetsDone, PlaceInv, locals
  <2> QED
    BY <1>3, <2>2, <2>3, <2>4, <2>5, OtherFacts
<1>4. CASE UNCHANGED vars
  BY <1>4 DEF IInv, PlaceInv, Running, vars, locals
<1> QED
  BY <1>1, <1>2, <1>3, <1>4 DEF Next, Between, Begins

\* A step does not change what is told of the sets before row.
LEMMA ToldKept ==
  ASSUME IInv, LoopStep, NEW r \in Sets, r # row, status'[r] = status[r]
  PROVE  Told(r)' <=> Told(r)
<1>1. Inserted(r)' <=> Inserted(r)
  <2>1. buffer \subseteq buffer'
    BY DEF LoopStep, IgnoreSet, NeedData, DaeArray, SetNotInserted, FollowNull, GatherSet,
       Inserts, SendSet, SendBreaks, SetsDone, End
  <2> QED
    BY <2>1, BufferFacts DEF Inserted
<1>2. OwnQuery(r)' <=> OwnQuery(r)
  BY LoopFacts DEF OwnQuery
<1>3. sent \subseteq sent'
  BY LoopFacts DEF SendSet, NotSent, Answered
<1>4. \A q \in sent' : q.set = r => q \in sent
  BY SentFacts
<1> QED
  BY <1>1, <1>2, <1>3, <1>4 DEF Told

\* The set a step finishes is told of rightly.
LEMMA ToldNow ==
  ASSUME IInv, Passes, params > 0, NEW r \in Sets, r = row
  PROVE  /\ status'[r] \in {"success", "info", "unavailable", "unused"}
         /\ Good(status'[r]) <=> Told(r)'
         /\ status'[r] = "unavailable" => lastError' = r
         /\ lastError' = r => status'[r] = "unavailable"
<1>1. lastError # r /\ LoopStep
  BY PassFacts, Numbers DEF IInv, PlaceInv, Running, Passes, LoopStep
<1>2. \A p \in buffer : p.set # r
  BY PassFacts, Numbers DEF IInv, PlaceInv, Running
<1>3. \A q \in sent : q.set # r
  BY PassFacts, Numbers DEF IInv, PlaceInv, Running
<1>4. CASE IgnoreSet
  <2>1. status'[r] = "unused" /\ lastError' = lastError /\ buffer' = buffer
    BY <1>1, <1>4 DEF IInv, TypeOK, IgnoreSet
  <2> QED
    BY <1>1, <1>2, <2>1 DEF Told, Inserted, Good
<1>5. CASE SetNotInserted
  <2>1. status'[r] = "unavailable" /\ lastError' = r
    BY <1>1, <1>5 DEF IInv, TypeOK, SetNotInserted, Report, Mapped, Fails
  <2>2. \A p \in buffer' : p \notin buffer => ~p.whole
    BY <1>5 DEF SetNotInserted, Piece
  <2> QED
    BY <1>2, <2>1, <2>2 DEF Told, Inserted, Good
<1>6. CASE GatherSet
  <2>1. PICK code \in {"success", "info"} : Report(r, code)
    BY <1>6 DEF GatherSet
  <2>2. status'[r] = code /\ lastError' = lastError
    BY <1>1, <2>1 DEF IInv, TypeOK, Report, Mapped, Fails
  <2>3. ~OwnQuery(r)'
    BY <1>1, <1>6, LoopFacts DEF OwnQuery, GatherSet, Gathers, LastRow
  <2>4. Piece(TRUE) \in buffer' /\ Piece(TRUE).set = r /\ Piece(TRUE).whole
    BY <1>6 DEF GatherSet, Inserts, Piece
  <2> QED
    BY <1>1, <2>2, <2>3, <2>4 DEF Told, Inserted, Good
<1>7. CASE SendSet
  <2>1. Report(r, rc') /\ Inserts
    BY <1>7 DEF SendSet, Judged, IInv, TypeOK
  <2>2. rc' \in Codes
    BY <1>7 DEF SendSet, NotSent, Answered, Codes
  <2>3. /\ status'[r] = IF rc' = "error" THEN "unavailable" ELSE rc'
        /\ lastError' = IF rc' = "error" THEN r ELSE lastError
    BY <1>1, <2>1 DEF IInv, TypeOK, Report, Mapped, Fails
  <2>4. Piece(TRUE) \in buffer' /\ Piece(TRUE).set = r /\ Piece(TRUE).whole
    BY <2>1 DEF Inserts, Piece
  <2>5. CASE rc' = "error"
    <3>1. \A q \in sent' : q.set = r => q.verdict = "error"
      BY <1>1, <1>3, <2>5, SentFacts
    <3>2. OwnQuery(r)'
      BY <1>1, <1>7, LoopFacts DEF OwnQuery, SendSet, Gathers, LastRow
    <3> QED
      BY <2>3, <2>5, <3>1, <3>2 DEF Told, Good
  <2>6. CASE rc' # "error"
    <3>1. \E q \in sent' : q.set = r /\ q.verdict = rc'
      <4>1. PICK code \in Codes :
              rc' = code /\ sent' = sent \cup {[set |-> row, text |-> Text, verdict |-> code]}
        BY <1>7, <2>6 DEF SendSet, NotSent, Answered
      <4> DEFINE q == [set |-> row, text |-> Text, verdict |-> code]
      <4>2. q \in sent' /\ q.set = r /\ q.verdict = rc'
        BY <4>1
      <4> QED
        BY <4>2
    <3> QED
      BY <1>1, <2>2, <2>3, <2>4, <2>6, <3>1 DEF Told, Inserted, Good, Codes
  <2> QED
    BY <2>5, <2>6
<1> QED
  BY <1>4, <1>5, <1>6, <1>7 DEF Passes

LEMMA StatusStep == ASSUME IInv, [Next]_vars PROVE StatusInv'
<1>1. CASE Between
  BY <1>1, BetweenFacts DEF StatusInv, Running
<1>2. CASE Begins
  BY <1>2, BeginFacts DEF StatusInv
<1>3. CASE LoopStep
  <2> SUFFICES ASSUME Running', params' > 0 PROVE StatusInv'
    BY DEF StatusInv
  <2>1. TypeOK /\ PlaceInv /\ Running /\ StatusInv /\ params' = params /\ size' = size
    BY <1>3, LoopFacts DEF IInv
  <2>2. CASE Passes
    <3>1. /\ pc' = "sets" /\ row' = row + 1 /\ row <= size /\ row \in Sets
          /\ size \in Sets /\ lastError' \in {row, lastError} /\ lastError < row
          /\ \A r \in Sets : r # row => status'[r] = status[r]
      BY <2>1, <2>2, PassFacts, Numbers DEF PlaceInv
    <3>2. \A r \in 1 .. row - 1 : r \in Sets /\ r # row
      BY <3>1, StatementAssumption DEF Sets
    <3>3. ASSUME NEW r \in 1 .. row' - 1
          PROVE  /\ status'[r] \in {"success", "info", "unavailable", "unused"}
                 /\ Good(status'[r]) <=> Told(r)'
                 /\ status'[r] = "unavailable" => r <= lastError'
      <4>1. CASE r = row
        <5>1. /\ status'[r] \in {"success", "info", "unavailable", "unused"}
              /\ Good(status'[r]) <=> Told(r)'
              /\ status'[r] = "unavailable" => lastError' = r
          BY <2>1, <2>2, <3>1, <4>1, ToldNow
        <5> QED
          BY <2>1, <3>1, <4>1, <5>1, Numbers
      <4>2. CASE r # row
        <5>1. r \in 1 .. row - 1
          BY <3>1, <3>3, <4>2, Numbers, <2>1
        <5>2. r \in Sets /\ status'[r] = status[r]
          BY <3>1, <3>2, <5>1
        <5>3. Told(r)' <=> Told(r)
          BY <1>3, <4>2, <5>2, ToldKept
        <5>4. /\ status[r] \in {"success", "info", "unavailable", "unused"}
              /\ Good(status[r]) <=> Told(r)
              /\ status[r] = "unavailable" => r <= lastError
          BY <2>1, <5>1 DEF StatusInv
        <5>5. lastError <= lastError'
          BY <2>1, <3>1, Numbers
        <5> QED
          BY <2>1, <3>1, <5>1, <5>2, <5>3, <5>4, <5>5, Numbers
      <4> QED
        BY <4>1, <4>2
    <3>4. ASSUME lastError' # 0 PROVE status'[lastError'] = "unavailable"
      <4>1. CASE lastError' = row
        BY <2>1, <2>2, <3>1, <4>1, ToldNow
      <4>2. CASE lastError' = lastError
        <5>1. status[lastError] = "unavailable" /\ lastError \in 1 .. row - 1
          BY <2>1, <3>1, <3>4, <4>2, Numbers DEF StatusInv
        <5> QED
          BY <3>1, <3>2, <4>2, <5>1
      <4> QED
        BY <3>1, <4>1, <4>2
    <3> QED
      BY <3>1, <3>3, <3>4 DEF StatusInv
  <2>3. CASE NeedData \/ FollowNull \/ SendBreaks \/ End
    BY <2>3 DEF NeedData, FollowNull, SendBreaks, End, Running
  <2>4. CASE DaeArray
    <3>1. /\ row' = row /\ lastError' = row /\ row <= size /\ row \in Sets /\ pc = "sets"
          /\ buffer' = buffer /\ sent' = sent
          /\ \A r \in Sets : status'[r] = IF r > row /\ r <= size THEN "unused" ELSE status[r]
      BY <2>1, <2>4, TurnTyped DEF DaeArray, Turn, handle
    <3>2. \A r \in 1 .. row - 1 : r \in Sets /\ r # row /\ r < row
      BY <3>1, StatementAssumption DEF Sets
    <3>3. ASSUME NEW r \in 1 .. row' - 1
          PROVE  /\ status'[r] \in {"success", "info", "unavailable", "unused"}
                 /\ Good(status'[r]) <=> Told(r)'
                 /\ status'[r] = "unavailable" => r <= lastError'
      <4>1. r \in Sets /\ r # row /\ r < row /\ status'[r] = status[r]
        BY <2>1, <3>1, <3>2, <3>3, Numbers
      <4>2. Told(r)' <=> Told(r)
        BY <1>3, <4>1, ToldKept
      <4> QED
        BY <2>1, <3>1, <3>3, <4>1, <4>2, Numbers DEF StatusInv
    <3>4. \A r \in row + 1 .. size : status'[r] = "unused"
      <4> SUFFICES ASSUME NEW r \in row + 1 .. size PROVE status'[r] = "unused"
        OBVIOUS
      <4>1. r \in Sets /\ r > row /\ r <= size
        BY <2>1, <3>1, StatementAssumption DEF Sets, TypeOK
      <4> QED
        BY <3>1, <4>1
    <3> QED
      BY <2>1, <3>1, <3>3, <3>4, Numbers DEF StatusInv
  <2>5. CASE SetsDone
    <3>1. /\ row' = row /\ lastError' = lastError /\ row > size
          /\ buffer' = buffer /\ sent' = sent /\ status' = status /\ kind' = kind
      BY <2>5 DEF SetsDone, locals, handle
    <3>2. \A r : Told(r)' <=> Told(r)
      BY <2>1, <3>1 DEF Told, Inserted, OwnQuery
    <3> QED
      BY <2>1, <3>1, <3>2, Numbers DEF StatusInv
  <2> QED
    BY <1>3, <2>2, <2>3, <2>4, <2>5, OtherFacts
<1>4. CASE UNCHANGED vars
  BY <1>4 DEF IInv, StatusInv, Running, Told, Inserted, OwnQuery, vars, handle, locals
<1> QED
  BY <1>1, <1>2, <1>3, <1>4 DEF Next, Between, Begins

-----------------------------------------------------------------------------
(* The result of a call. *)

LEMMA FlagStep == ASSUME IInv, [Next]_vars PROVE FlagInv'
<1>1. CASE Between
  BY <1>1, BetweenFacts DEF FlagInv, Running
<1>2. CASE Begins
  BY <1>2, BeginFacts DEF FlagInv
<1>3. CASE LoopStep
  <2>1. TypeOK /\ PlaceInv /\ FlagInv /\ Running /\ size' = size
    BY <1>3, LoopFacts DEF IInv
  <2>2. CASE Passes
    <3>1. size = 1 => lastError = 0
      BY <2>1, <2>2, PassFacts, Numbers DEF PlaceInv
    <3>2. CASE IgnoreSet
      BY <2>1, <3>1, <3>2 DEF IgnoreSet, FlagInv
    <3>3. CASE SetNotInserted
      BY <2>1, <3>3 DEF SetNotInserted, FlagInv
    <3>4. CASE GatherSet
      <4>1. lastError' = lastError /\ allFailed' = allFailed /\ sent' = sent
        BY <3>4 DEF GatherSet, Report, Fails
      <4>2. someFailed => someFailed'
        BY <3>4 DEF GatherSet
      <4> QED
        BY <2>1, <3>1, <4>1, <4>2 DEF FlagInv
    <3>5. CASE SendSet
      <4>1. allFailed' <=> allFailed /\ rc' # "success"
        BY <3>5 DEF SendSet, Judged
      <4>2. (\A q \in sent' : q.verdict # "success")
              <=> (\A q \in sent : q.verdict # "success") /\ rc' # "success"
        <5>1. CASE NotSent
          BY <5>1 DEF NotSent
        <5>2. CASE Answered
          <6>1. PICK code \in Codes :
                  rc' = code /\ sent' = sent \cup {[set |-> row, text |-> Text, verdict |-> code]}
            BY <5>2 DEF Answered
          <6>2. \A q : q \in sent' <=> q \in sent \/ q = [set |-> row, text |-> Text, verdict |-> code]
            BY <6>1
          <6>3. [set |-> row, text |-> Text, verdict |-> code].verdict = rc'
            BY <6>1
          <6> QED
            BY <6>2, <6>3
        <5> QED
          BY <3>5, <5>1, <5>2 DEF SendSet
      <4>3. lastError' # 0 => lastError # 0 \/ rc' = "error"
        BY <3>5 DEF SendSet, Judged, Report, Fails
      <4>4. (someFailed \/ rc' # "success") => someFailed'
        BY <3>5 DEF SendSet
      <4>5. allFailed' <=> size > 1 /\ \A q \in sent' : q.verdict # "success"
        BY <2>1, <4>1, <4>2 DEF FlagInv
      <4> QED
        BY <2>1, <3>1, <4>3, <4>4, <4>5 DEF FlagInv
    <3> QED
      BY <2>2, <3>2, <3>3, <3>4, <3>5 DEF Passes
  <2>3. CASE NeedData \/ FollowNull \/ SendBreaks \/ End
    BY <2>3 DEF NeedData, FollowNull, SendBreaks, End, FlagInv, Running
  <2>4. CASE DaeArray
    BY <2>1, <2>4 DEF DaeArray, FlagInv
  <2>5. CASE SetsDone
    BY <2>1, <2>5 DEF SetsDone, FlagInv, locals
  <2> QED
    BY <1>3, <2>2, <2>3, <2>4, <2>5, OtherFacts
<1>4. CASE UNCHANGED vars
  BY <1>4 DEF IInv, FlagInv, Running, vars, locals
<1> QED
  BY <1>1, <1>2, <1>3, <1>4 DEF Next, Between, Begins

\* A loop's result appears with End.
LEMMA OnlyEndFinishes ==
  ASSUME IInv, Next, Finished' PROVE End
<1>1. ~Between /\ ~Begins
  BY BetweenFacts, BeginFacts DEF Finished
<1>2. LoopStep
  BY <1>1 DEF Next, Between, Begins
<1> QED
  BY <1>2 DEF LoopStep, IgnoreSet, NeedData, DaeArray, SetNotInserted, FollowNull,
     GatherSet, Inserts, SendSet, SendBreaks, SetsDone, Turn, Advance, Finished

LEMMA StatusesStep == ASSUME IInv, [Next]_vars PROVE StatusesTrue'
<1>1. CASE UNCHANGED vars
  BY <1>1 DEF IInv, StatusesTrue, Finished, Inserted, OwnQuery, vars, handle, locals
<1>2. CASE End /\ params > 0
  <2>1. /\ TypeOK /\ PlaceInv /\ StatusInv /\ Running /\ pc = "end"
        /\ UNCHANGED <<kind, params, size, buffer, sent, lastError>>
        /\ status' = [r \in Sets |-> IF r = lastError THEN "error" ELSE status[r]]
    BY <1>2 DEF IInv, End, Running
  <2>2. \A r \in 1 .. size : r \in Sets /\ r \in Nat
    BY <2>1, StatementAssumption DEF TypeOK, Sets
  <2>3. ASSUME NEW r \in 1 .. size
        PROVE  /\ r < row => /\ status[r] \in {"success", "info", "unavailable", "unused"}
                             /\ Good(status[r]) <=> Told(r)
                             /\ status[r] = "unavailable" => r <= lastError
               /\ r > row => status[r] = "unused" /\ lastError = row
               /\ r = row => lastError = row
               /\ r >= row => ~Inserted(r)
    <3>1. r < row => r \in 1 .. row - 1
      BY <2>1, Numbers
    <3>2. r >= row => row <= size
      BY <2>1, Numbers
    <3>3. r > row => r \in row + 1 .. size
      BY <2>1, Numbers
    <3>4. r >= row => ~Inserted(r)
      BY <2>1, Numbers DEF PlaceInv, Inserted
    <3>5. r < row => /\ status[r] \in {"success", "info", "unavailable", "unused"}
                     /\ Good(status[r]) <=> Told(r)
                     /\ status[r] = "unavailable" => r <= lastError
      BY <1>2, <2>1, <3>1 DEF StatusInv
    <3>6. r >= row => lastError = row
      BY <1>2, <2>1, <3>2 DEF StatusInv
    <3>7. r > row => status[r] = "unused"
      BY <1>2, <2>1, <2>2, <3>2, <3>3, Numbers DEF StatusInv
    <3> QED
      BY <2>1, <2>2, <3>4, <3>5, <3>6, <3>7, Numbers
  <2>4. lastError # 0 => lastError \in 1 .. size
    BY <2>1, Numbers DEF PlaceInv
  <2>5. lastError # 0 => ~Told(lastError)
    <3>1. CASE lastError < row
      BY <1>2, <2>1, <2>3, <2>4, <3>1 DEF StatusInv, Good
    <3>2. CASE ~(lastError < row)
      BY <2>1, <2>3, <2>4, <3>2, Numbers DEF Told
    <3> QED
      BY <3>1, <3>2
  <2>6. ASSUME NEW r \in 1 .. size
        PROVE  /\ Good(status'[r]) <=> Told(r)'
               /\ status'[r] = "unavailable" => \E t \in r + 1 .. size : status'[t] = "error"
               /\ status'[r] = "error" =>
                    \A t \in r + 1 .. size : status'[t] \notin {"error", "unavailable"}
    <3>1. status'[r] = IF r = lastError THEN "error" ELSE status[r]
      BY <2>1, <2>2
    <3>2. Good(status'[r]) <=> Told(r)'
      <4>1. CASE r = lastError
        <5>1. ~Told(r)
          BY <2>2, <2>5, <4>1
        <5>2. ~Told(r)'
          BY <2>1, <3>1, <4>1, <5>1 DEF Told, Inserted, OwnQuery, Good
        <5> QED
          BY <3>1, <4>1, <5>2 DEF Good
      <4>2. CASE r # lastError
        <5>1. Told(r)' <=> Told(r)
          BY <2>1, <3>1, <4>2 DEF Told, Inserted, OwnQuery
        <5>2. Good(status[r]) <=> Told(r)
          BY <2>1, <2>2, <2>3, <4>2, Numbers DEF Told, Good
        <5> QED
          BY <3>1, <4>2, <5>1, <5>2
      <4> QED
        BY <4>1, <4>2
    <3>3. ASSUME status'[r] = "unavailable"
          PROVE  \E t \in r + 1 .. size : status'[t] = "error"
      <4>1. r # lastError /\ status[r] = "unavailable"
        BY <3>1, <3>3
      <4>2. r < lastError
        BY <2>1, <2>2, <2>3, <4>1, Numbers
      <4>3. lastError \in r + 1 .. size
        BY <2>1, <2>2, <2>4, <4>2, Numbers
      <4>4. status'[lastError] = "error"
        BY <2>1, <2>2, <2>4, <4>2, Numbers
      <4> QED
        BY <4>3, <4>4
    <3>4. ASSUME status'[r] = "error", NEW t \in r + 1 .. size
          PROVE  status'[t] \notin {"error", "unavailable"}
      <4>1. t \in 1 .. size /\ t > r /\ t \in Nat
        BY <2>1, <2>2, Numbers
      <4>2. r = lastError
        BY <2>1, <2>2, <2>3, <3>1, <3>4, Numbers
      <4>3. status'[t] = status[t]
        BY <2>1, <2>2, <4>1, <4>2
      <4> QED
        BY <2>1, <2>2, <2>3, <4>1, <4>2, <4>3, Numbers
    <3> QED
      BY <3>2, <3>3, <3>4
  <2> QED
    BY <2>1, <2>6 DEF StatusesTrue, Told
<1>3. CASE End /\ ~(params > 0)
  BY <1>3 DEF End, StatusesTrue
<1>4. CASE Next /\ ~End
  BY <1>4, OnlyEndFinishes DEF StatusesTrue
<1> QED
  BY <1>1, <1>2, <1>3, <1>4

LEMMA ReturnStep == ASSUME IInv, [Next]_vars PROVE ReturnTrue'
<1>1. CASE UNCHANGED vars
  BY <1>1 DEF IInv, ReturnTrue, Finished, vars, handle, locals
<1>2. CASE End
  <2>1. /\ TypeOK /\ PlaceInv /\ StatusInv /\ FlagInv /\ Running /\ pc = "end"
        /\ UNCHANGED <<kind, params, size, sent, lastError>>
        /\ status' = [r \in Sets |-> IF r = lastError THEN "error" ELSE status[r]]
        /\ ret' = Verdict
    BY <1>2 DEF IInv, End, Running
  <2>2. ASSUME size > 1
        PROVE  /\ (\A q \in sent' : q.verdict = "error") => ret' = "thrown"
               /\ (\E q \in sent' : q.verdict = "success") => ret' # "thrown"
    <3>1. ret' = "thrown" <=> allFailed
      BY <2>1, <2>2 DEF Verdict, TypeOK, Codes
    <3> QED
      BY <2>1, <2>2, <3>1 DEF FlagInv
  <2>3. ASSUME ret' = "success", params > 0, NEW r \in 1 .. size
        PROVE  status'[r] \notin {"error", "unavailable"}
    <3>1. lastError = 0
      <4>1. CASE size > 1
        BY <2>1, <2>3, <4>1 DEF Verdict, FlagInv
      <4>2. CASE ~(size > 1)
        BY <2>1, <2>3, <4>2, Numbers DEF Verdict, FlagInv
      <4> QED
        BY <4>1, <4>2
    <3>2. r \in Sets /\ r \in Nat /\ r # 0
      BY <2>1, <2>3, StatementAssumption DEF TypeOK, Sets
    <3>3. status'[r] = status[r]
      BY <2>1, <3>1, <3>2
    <3>4. row > size
      BY <2>1, <2>3, <3>1, <3>2, Numbers DEF StatusInv
    <3>5. r \in 1 .. row - 1
      BY <2>1, <2>3, <3>4, Numbers
    <3> QED
      BY <2>1, <2>3, <3>1, <3>2, <3>3, <3>5 DEF StatusInv
  <2> QED
    BY <2>1, <2>2, <2>3 DEF ReturnTrue
<1>3. CASE Next /\ ~End
  BY <1>3, OnlyEndFinishes DEF ReturnTrue
<1> QED
  BY <1>1, <1>2, <1>3

-----------------------------------------------------------------------------
(* The theorems. *)

\* What the code keeps of statuses, results and positions through an execution, in
\* every reachable state.
THEOREM Invariance == Spec => []IInv
<1>1. ASSUME IInv, [Next]_vars PROVE IInv'
  BY <1>1, TypeStep, TextStep, ResultStep, BoundStep, DummyStep, PlaceStep, StatusStep,
     FlagStep, StatusesStep, ReturnStep DEF IInv
<1> QED
  BY <1>1, InitHolds, PTL DEF Spec

\* Every variable of a statement keeps its type, the loop's place and the set that
\* lastError points to among them: execute.cc:1385-1531.
THEOREM TypeCorrect == Spec => []TypeOK
  BY Invariance, PTL DEF IInv

\* Whatever ends an execution early, the next one's queries are made of its own
\* values alone: the buffer of execute.cc:528 is emptied in time.
THEOREM OwnText == Spec => []OwnExecution
  BY Invariance, PTL DEF IInv

\* The statuses of execute.cc:1276-1531 are true of each set, for arrays of any size,
\* and the last failure has the one status with diagnostics.
THEOREM TrueStatuses == Spec => []StatusesTrue
  BY Invariance, PTL DEF IInv

\* The result of DES_SQLExecute agrees with the statuses, and it throws when DES
\* refused every set of a batch and not when it said $success to one
\* (execute.cc:1537-1546); batches answered with information are left open.
THEOREM TrueReturn == Spec => []ReturnTrue
  BY Invariance, PTL DEF IInv

\* What check_result (results.cc:923-957) answers from is the prepared statement's,
\* but for one that returns no rows and has only been prepared.
THEOREM NoOthersResult == Spec => []NeverOthersResult
  BY Invariance, PTL DEF IInv

\* However statements are prepared, described and executed in between, the stand-ins
\* of do_dummy_parambind are sent by one execution at most until the handle is closed.
THEOREM StandInsOnce == Spec => []DummySentOnce
<1>1. DummyInv => DummySentOnce
  <2> SUFFICES ASSUME DummyInv PROVE DummySentOnce
    OBVIOUS
  <2>1. CASE dummyRuns = {}
    BY <2>1, FS_EmptySet DEF DummySentOnce
  <2>2. CASE dummyRuns # {}
    <3>1. PICK e : dummyRuns = {e}
      BY <2>2 DEF DummyInv
    <3>2. Cardinality({e}) = 1
      BY FS_Singleton, Zenon
    <3> QED
      BY <3>1, <3>2 DEF DummySentOnce
  <2> QED
    BY <2>1, <2>2
<1> QED
  BY <1>1, Invariance, PTL DEF IInv

=============================================================================
