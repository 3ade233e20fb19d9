----------------------------- MODULE RowsProofs -----------------------------
(***************************************************************************)
(* Theorems about PositionedRows, for any number of statements, values,    *)
(* rows and writes, with exchanges refused or lost anywhere.               *)
(***************************************************************************)
EXTENDS PositionedRows, FiniteSetTheorems, TLAPS

\* A fetch that fails for its single row leaves end_of_set as it was.  With
\* rowsets of several rows that is the last row of the result.
OnlyLastFails == Bad = {} \/ ArraySize > 1

\* A rowset lies in the result, and end_of_set is its end wherever the next
\* fetch can enter the list there.
SpanInv(c, n) ==
  /\ c.current_row + c.rows_found_in_set <= n
  /\ c.current_row = -1 => c.rows_found_in_set = 0 /\ c.fetch = "nodata"
  /\ c.fetch = "none" => c.current_row = 0 /\ c.rows_found_in_set = 0
  /\ c.fetch = "nodata" => c.rows_found_in_set = 0 /\ c.current_row \in {-1, n}
  /\ c.fetch = "error" => c.rows_found_in_set > 0 /\ c.current_row + c.rows_found_in_set = n
  /\ c.fetch = "ok" => /\ c.rows_found_in_set > 0
                       /\ c.end_of_set = c.current_row + c.rows_found_in_set
                       /\ c.data_cursor \in 0 .. (n - 1)

ShownInv(c) ==
  /\ c.fetch # "nodata" => c.rows_found_in_set = Len(c.shown)
  /\ \A i \in 1 .. c.rows_found_in_set : c.shown[i] = c.current_row + i

CursorType(c, n) ==
  /\ c \in Cursors
  /\ c.current_row \in -1 .. n /\ c.cursor_row \in -1 .. n
  /\ c.data_cursor \in Stale .. n /\ c.end_of_set \in Stale .. n

CursorInv(c, n) == CursorType(c, n) /\ SpanInv(c, n) /\ ShownInv(c)

\* A positioned operation is in the rowset of a fetch that went well.
WriteAt(s) ==
  /\ pc[s] \in {"delete", "update"} =>
       /\ stmt[s].fetch = "ok"
       /\ rows[s].pos \in 1 .. rows[s].end
       /\ rows[s].end <= stmt[s].rows_found_in_set
  /\ pc[s] = "delete" => "delete" \in Writes[s] /\ counted[s] \in Values
  /\ pc[s] = "update" => "update" \in Writes[s]
  /\ pc[s] = "add" => rows[s].pos <= rows[s].end
  /\ pc[s] = "closed" => stmt[s] = Fresh

WriteInv == \A s \in Statements : WriteAt(s)

\* What was counted is still what the table has, unless somebody wrote.
CountInv ==
  \A s \in Statements : pc[s] = "delete" /\ ~overtaken[s] => table[counted[s]] <= 1

Typed ==
  /\ table \in [Values -> Nat] /\ selects \in 0 .. MaxSelects
  /\ pc \in [Statements -> {"closed", "idle", "delete", "update", "add"}]
  /\ result \in [Statements -> Seq(Values)]
  /\ stmt \in [Statements -> Cursors]
  /\ rows \in [Statements -> [pos : Nat, end : Nat]]
  /\ counted \in [Statements -> Values \cup {NoValue}]
  /\ overtaken \in [Statements -> BOOLEAN]

IInv ==
  /\ Typed
  /\ \A s \in Statements : CursorInv(stmt[s], Len(result[s]))
  /\ WriteInv
  /\ CountInv

LEMMA CursorRecord ==
  ASSUME NEW row \in Int, NEW found \in 0 .. ArraySize, NEW last \in Int,
         NEW node \in Int, NEW end \in Int, NEW shown \in Seq(Int),
         NEW how \in {"none", "ok", "error", "nodata"}
  PROVE  [current_row |-> row, rows_found_in_set |-> found, cursor_row |-> last,
          data_cursor |-> node, end_of_set |-> end, shown |-> shown,
          fetch |-> how] \in Cursors
  BY DEF Cursors

LEMMA FreshHolds ==
  ASSUME NEW n \in Nat
  PROVE  CursorInv(Fresh, n)
  BY RowsAssumption DEF CursorInv, CursorType, SpanInv, ShownInv, Fresh, Stale, Cursors

LEMMA InitHolds == Init => IInv
<1> SUFFICES ASSUME Init PROVE IInv
  OBVIOUS
<1>1. Fresh \in Cursors
  BY FreshHolds DEF CursorInv, CursorType
<1>2. Typed
  BY <1>1, RowsAssumption DEF Init, Typed, Nowhere
<1>3. \A s \in Statements : CursorInv(stmt[s], Len(result[s]))
  BY FreshHolds DEF Init
<1> QED
  BY <1>2, <1>3 DEF Init, IInv, WriteInv, WriteAt, CountInv

-----------------------------------------------------------------------------
(* What a fetch and a move leave of the cursors. *)

LEMMA TargetTyped ==
  ASSUME NEW n \in Nat, NEW c, CursorType(c, n), NEW kind \in MoveKinds, NEW irow \in Int
  PROVE  Target(c, n, kind, irow) \in Int
<1>1. c.current_row \in Int /\ c.rows_found_in_set \in Int /\ ArraySize \in Int
  BY RowsAssumption DEF CursorType, Cursors
<1> QED
  BY <1>1 DEF Target, MoveKinds

LEMMA BeforeFirstHolds ==
  ASSUME NEW n \in Nat, NEW c, CursorInv(c, n)
  PROVE  CursorInv(BeforeFirst(c), n)
<1> DEFINE d == BeforeFirst(c)
<1>1. c \in Cursors /\ c.cursor_row \in -1 .. n /\ c.end_of_set \in Stale .. n
  BY DEF CursorInv, CursorType
<1>2. <<>> \in Seq(Int) /\ 0 \in 0 .. ArraySize
  BY RowsAssumption
<1>3. d \in Cursors
  BY <1>1, <1>2 DEF BeforeFirst, Cursors
<1>4. /\ d.current_row = -1 /\ d.rows_found_in_set = 0 /\ d.data_cursor = 0
      /\ d.fetch = "nodata"
      /\ d.cursor_row = c.cursor_row /\ d.end_of_set = c.end_of_set
  BY <1>1 DEF BeforeFirst, Cursors
<1> HIDE DEF d
<1>5. CursorType(d, n)
  BY <1>1, <1>3, <1>4 DEF CursorType, Stale
<1>6. SpanInv(d, n) /\ ShownInv(d)
  BY <1>4 DEF SpanInv, ShownInv
<1> QED
  BY <1>5, <1>6 DEF CursorInv, d

\* The list is entered at the row the rowset starts with, unless nothing is left.
LEMMA SeekRight ==
  ASSUME NEW n \in Nat, NEW c, CursorInv(c, n), NEW r \in 0 .. n
  PROVE  Seek(c, r) \in Stale .. n /\ (r < n => Seek(c, r) = r)
  BY RowsAssumption DEF CursorInv, CursorType, SpanInv, Seek, Cursors, Stale

\* What a fetch of the rows from r on finds.
Found(q, r) == Smaller(Len(q) - r, ArraySize)

LEMMA FoundTyped ==
  ASSUME NEW q \in Seq(Values), NEW r \in 0 .. Len(q)
  PROVE  /\ Len(q) \in Nat
         /\ Found(q, r) \in 0 .. ArraySize /\ r + Found(q, r) <= Len(q)
         /\ Found(q, r) = 0 <=> r = Len(q)
         /\ Found(q, r) = 1 /\ ArraySize > 1 => r + 1 = Len(q)
<1>1. Len(q) \in Nat /\ ArraySize \in Nat \ {0}
  BY RowsAssumption
<1> QED
  BY <1>1 DEF Found, Smaller

\* Where a fetch leaves the cursors c of the result q: d, at row r.
RowsetFrom(d, c, q, r) ==
  /\ d.current_row = r
  /\ d.rows_found_in_set = Found(q, r)
  /\ d.cursor_row = c.cursor_row
  /\ d.shown = [i \in 1 .. Found(q, r) |-> r + i]
  /\ r = Len(q) => /\ d.data_cursor = Seek(c, r) /\ d.end_of_set = c.end_of_set
                   /\ d.fetch = "nodata"
  /\ r < Len(q) => \/ /\ d.fetch = "ok"
                      /\ d.data_cursor = r
                      /\ d.end_of_set = r + Found(q, r)
                   \/ /\ d.fetch = "error" /\ r + Found(q, r) = Len(q)
                      /\ d.data_cursor = r + Found(q, r)
                      /\ d.end_of_set = c.end_of_set

LEMMA RowsetFields ==
  ASSUME OnlyLastFails, NEW q \in Seq(Values), NEW c, CursorInv(c, Len(q)),
         NEW r \in 0 .. Len(q)
  PROVE  RowsetFrom(Rowset(c, q, r), c, q, r)
<1> DEFINE d == Rowset(c, q, r)
<1> SUFFICES RowsetFrom(d, c, q, r)
  OBVIOUS
<1> DEFINE n == Len(q)
           start == Seek(c, r)
           found == Smaller(Smaller(n - r, ArraySize), n - start)
           failed == found = 1 /\ start \in 0 .. (n - 1) /\ q[start + 1] \in Bad
<1>1. n \in Nat /\ ArraySize \in Nat
  BY RowsAssumption
<1>2. start \in Stale .. n /\ (r < n => start = r)
  BY <1>1, SeekRight
<1>3. found = Found(q, r) /\ found \in Nat
  BY <1>1, <1>2 DEF Found, Smaller, Stale
<1>4. failed => r + found = n /\ r < n
  <2> SUFFICES ASSUME failed PROVE r + found = n /\ r < n
    OBVIOUS
  <2>1. ArraySize > 1
    BY DEF OnlyLastFails
  <2>2. Found(q, r) = 1
    BY <1>3
  <2> QED
    BY <1>1, <1>3, <2>1, <2>2, FoundTyped
<1>5. /\ d.current_row = r
      /\ d.rows_found_in_set = found
      /\ d.cursor_row = c.cursor_row
      /\ d.data_cursor = IF failed THEN start + found ELSE start
      /\ d.end_of_set = IF failed \/ r = n THEN c.end_of_set ELSE start + found
      /\ d.shown = [i \in 1 .. found |-> start + i]
      /\ d.fetch = IF failed THEN "error" ELSE IF found = 0 THEN "nodata" ELSE "ok"
  BY DEF Rowset
<1> HIDE DEF d
<1>6. d.shown = [i \in 1 .. found |-> r + i]
  <2>1. CASE r < n
    BY <2>1, <1>2, <1>5
  <2>2. CASE r = n
    <3>1. 1 .. found = {}
      BY <2>2, <1>1, <1>3 DEF Found, Smaller
    <3> QED
      BY <3>1, <1>5
  <2> QED
    BY <2>1, <2>2, <1>1
<1> HIDE DEF found, failed, start
<1>7. found = 0 <=> r = n
  BY <1>1, <1>3, FoundTyped
<1>8. CASE failed
  BY <1>1, <1>3, <1>4, <1>5, <1>6, <1>8 DEF RowsetFrom
<1>9. CASE ~failed
  <2>1. CASE r = n
    BY <2>1, <1>1, <1>3, <1>5, <1>6, <1>7, <1>9 DEF start, RowsetFrom
  <2>2. CASE r < n
    BY <2>2, <1>1, <1>2, <1>3, <1>5, <1>6, <1>7, <1>9 DEF RowsetFrom
  <2> QED
    BY <2>1, <2>2, <1>1
<1> QED
  BY <1>8, <1>9

LEMMA RowsetHolds ==
  ASSUME OnlyLastFails, NEW q \in Seq(Values), NEW c, CursorInv(c, Len(q)),
         NEW r \in 0 .. Len(q)
  PROVE  CursorInv(Rowset(c, q, r), Len(q))
<1> DEFINE d == Rowset(c, q, r)
           n == Len(q)
           found == Found(q, r)
<1>1. /\ n \in Nat /\ found \in 0 .. ArraySize /\ r + found <= n
      /\ found = 0 <=> r = n
  BY FoundTyped
<1>2. c.cursor_row \in -1 .. n /\ c.end_of_set \in Stale .. n
  BY DEF CursorInv, CursorType
<1>3. Seek(c, r) \in Stale .. n
  BY <1>1, SeekRight
<1>4. d = [current_row |-> d.current_row, rows_found_in_set |-> d.rows_found_in_set,
           cursor_row |-> d.cursor_row, data_cursor |-> d.data_cursor,
           end_of_set |-> d.end_of_set, shown |-> d.shown, fetch |-> d.fetch]
  BY DEF Rowset
<1>5. /\ d.current_row = r /\ d.rows_found_in_set = found
      /\ d.cursor_row = c.cursor_row
      /\ d.shown = [i \in 1 .. found |-> r + i]
      /\ r = n => /\ d.data_cursor = Seek(c, r) /\ d.end_of_set = c.end_of_set
                  /\ d.fetch = "nodata"
      /\ r < n => \/ /\ d.fetch = "ok" /\ d.data_cursor = r
                     /\ d.end_of_set = r + found
                  \/ /\ d.fetch = "error" /\ r + found = n
                     /\ d.data_cursor = r + found
                     /\ d.end_of_set = c.end_of_set
  BY RowsetFields DEF RowsetFrom
<1> HIDE DEF d, n, found
<1>6. d.shown \in Seq(Int) /\ Len(d.shown) = found
  <2>1. \A i \in 1 .. found : r + i \in Int
    BY <1>1
  <2> QED
    BY <1>1, <1>5, <2>1
<1>7. /\ d.data_cursor \in Stale .. n /\ d.end_of_set \in Stale .. n
      /\ d.fetch \in {"ok", "error", "nodata"}
  BY <1>1, <1>2, <1>3, <1>5 DEF Stale
<1>8. CursorType(d, n)
  <2>1. d \in Cursors
    <3>1. /\ d.current_row \in Int /\ d.rows_found_in_set \in 0 .. ArraySize
          /\ d.cursor_row \in Int /\ d.data_cursor \in Int /\ d.end_of_set \in Int
      BY <1>1, <1>2, <1>5, <1>7 DEF Stale
    <3>2. d.fetch \in {"none", "ok", "error", "nodata"}
      BY <1>7
    <3>3. [current_row |-> d.current_row, rows_found_in_set |-> d.rows_found_in_set,
           cursor_row |-> d.cursor_row, data_cursor |-> d.data_cursor,
           end_of_set |-> d.end_of_set, shown |-> d.shown, fetch |-> d.fetch] \in Cursors
      BY <3>1, <3>2, <1>6, CursorRecord
    <3> QED
      BY <3>3, <1>4, Zenon
  <2> QED
    BY <2>1, <1>1, <1>2, <1>5, <1>7 DEF CursorType
<1>9. SpanInv(d, n)
  BY <1>1, <1>5 DEF SpanInv
<1>10. ShownInv(d)
  BY <1>1, <1>5, <1>6 DEF ShownInv
<1> QED
  BY <1>8, <1>9, <1>10 DEF CursorInv, d, n

\* Whatever it is asked for, a fetch leaves the cursors in order.
LEMMA FetchedHolds ==
  ASSUME OnlyLastFails, NEW q \in Seq(Values), NEW c, CursorInv(c, Len(q)),
         NEW kind \in MoveKinds, NEW irow \in Int
  PROVE  CursorInv(Fetched(c, q, kind, irow), Len(q))
<1> DEFINE r == Target(c, Len(q), kind, irow)
<1>1. Len(q) \in Nat /\ CursorType(c, Len(q))
  BY DEF CursorInv
<1>2. r \in Int
  BY <1>1, TargetTyped
<1>3. CASE r < 0
  BY <1>1, <1>3, BeforeFirstHolds DEF Fetched
<1>4. CASE r >= 0
  <2>1. Smaller(r, Len(q)) \in 0 .. Len(q)
    BY <1>1, <1>2, <1>4 DEF Smaller
  <2>2. Fetched(c, q, kind, irow) = Rowset(c, q, Smaller(r, Len(q)))
    BY <1>2, <1>4 DEF Fetched
  <2> QED
    BY <2>1, <2>2, RowsetHolds
<1> QED
  BY <1>2, <1>3, <1>4

\* Going to a row of the rowset takes data_cursor into the result.
LEMMA GoToHolds ==
  ASSUME NEW n \in Nat, NEW c, CursorInv(c, n), c.fetch = "ok",
         NEW irow \in 0 .. c.rows_found_in_set, NEW p, p = RowPos(c, irow)
  PROVE  LET d == GoTo(c, p)
         IN  /\ CursorInv(d, n)
             /\ p \in 0 .. (n - 1)
             /\ d.cursor_row = p /\ d.data_cursor = p
             /\ d.fetch = "ok"
             /\ d.current_row = c.current_row
             /\ d.rows_found_in_set = c.rows_found_in_set
<1> DEFINE d == GoTo(c, p)
           e == [c EXCEPT !.cursor_row = p]
<1>1. p \in 0 .. (n - 1) /\ p \in Int
  BY DEF CursorInv, CursorType, SpanInv, RowPos, Cursors
<1>2. c \in Cursors
  BY DEF CursorInv, CursorType
<1>3. /\ e \in Cursors
      /\ e.cursor_row = p
      /\ e.current_row = c.current_row /\ e.rows_found_in_set = c.rows_found_in_set
      /\ e.end_of_set = c.end_of_set /\ e.shown = c.shown /\ e.fetch = c.fetch
  BY <1>1, <1>2 DEF Cursors
<1>4. d = [e EXCEPT !.data_cursor = p]
  BY DEF GoTo
<1> HIDE DEF e, d
<1>5. /\ d \in Cursors
      /\ d.cursor_row = p /\ d.data_cursor = p
      /\ d.current_row = c.current_row /\ d.rows_found_in_set = c.rows_found_in_set
      /\ d.end_of_set = c.end_of_set /\ d.shown = c.shown /\ d.fetch = c.fetch
  BY <1>1, <1>3, <1>4 DEF Cursors
<1>6. CursorInv(d, n)
  BY <1>5, <1>1 DEF CursorInv, CursorType, SpanInv, ShownInv, Stale
<1> QED
  BY <1>1, <1>5, <1>6 DEF d

LEMMA MoveHolds ==
  ASSUME NEW n \in Nat, NEW c, CursorInv(c, n), c.fetch = "ok",
         NEW irow \in 0 .. c.rows_found_in_set
  PROVE  LET d == MoveTo(c, irow)
         IN  /\ CursorInv(d, n)
             /\ d.data_cursor \in 0 .. (n - 1)
             /\ d.cursor_row = RowPos(c, irow)
             /\ c.cursor_row # d.cursor_row => d.data_cursor = d.cursor_row
             /\ c.cursor_row = d.cursor_row => d.data_cursor = c.data_cursor
             /\ d.fetch = "ok"
             /\ d.current_row = c.current_row
             /\ d.rows_found_in_set = c.rows_found_in_set
<1>1. CASE c.cursor_row = RowPos(c, irow)
  BY <1>1 DEF MoveTo, CursorInv, SpanInv
<1>2. CASE c.cursor_row # RowPos(c, irow)
  BY <1>2, GoToHolds DEF MoveTo
<1> QED
  BY <1>1, <1>2

-----------------------------------------------------------------------------
(* Every step keeps the invariant. *)

\* A step touches one statement's own state; the table and overtaken concern all.
LEMMA Frame ==
  ASSUME IInv, NEW s \in Statements, Typed', CountInv',
         \A t \in Statements \ {s} :
           /\ pc'[t] = pc[t] /\ result'[t] = result[t] /\ stmt'[t] = stmt[t]
           /\ rows'[t] = rows[t] /\ counted'[t] = counted[t],
         CursorInv(stmt'[s], Len(result'[s])),
         WriteAt(s)'
  PROVE  IInv'
<1>1. ASSUME NEW t \in Statements PROVE CursorInv(stmt'[t], Len(result'[t])) /\ WriteAt(t)'
  BY <1>1 DEF IInv, WriteInv, WriteAt
<1> QED
  BY <1>1 DEF IInv, WriteInv

\* What the statement at hand has in a state of the invariant.
LEMMA Here ==
  ASSUME IInv, NEW s \in Statements
  PROVE  /\ result[s] \in Seq(Values) /\ Len(result[s]) \in Nat
         /\ stmt[s] \in Cursors /\ CursorInv(stmt[s], Len(result[s]))
         /\ WriteAt(s)
  BY DEF IInv, Typed, WriteInv

LEMMA EndsTyped ==
  ASSUME IInv, NEW s \in Statements
  PROVE  rows[s].end \in Nat /\ stmt[s].rows_found_in_set \in Nat
<1>1. rows[s] \in [pos : Nat, end : Nat] /\ stmt[s] \in Cursors
  BY DEF IInv, Typed
<1>2. stmt[s].rows_found_in_set \in 0 .. ArraySize
  BY <1>1 DEF Cursors
<1> QED
  BY <1>1, <1>2, RowsAssumption

LEMMA WhereTyped ==
  ASSUME NEW q \in Seq(Values), NEW c, c.data_cursor \in 0 .. (Len(q) - 1)
  PROVE  Where(c, q) \in Values
  BY DEF Where

LEMMA UpdatedTyped ==
  ASSUME table \in [Values -> Nat], NEW v \in Values, NEW new \in Values
  PROVE  Updated(v, new) \in [Values -> Nat]
  BY DEF Updated

\* A write of s leaves what the others counted marked as overtaken.
LEMMA CountOvertaken ==
  ASSUME IInv, NEW s \in Statements, Overtakes(s), pc'[s] # "delete",
         \A t \in Statements \ {s} : pc'[t] = pc[t]
  PROVE  CountInv'
  BY DEF CountInv, Overtakes

LEMMA CountKept ==
  ASSUME IInv, NEW s \in Statements, UNCHANGED <<table, overtaken>>, pc'[s] # "delete",
         \A t \in Statements \ {s} : pc'[t] = pc[t] /\ counted'[t] = counted[t]
  PROVE  CountInv'
  BY DEF IInv, CountInv

LEMMA OvertakesTyped ==
  ASSUME IInv, NEW s \in Statements, Overtakes(s)
  PROVE  overtaken' \in [Statements -> BOOLEAN]
  BY DEF IInv, Typed, Overtakes

LEMMA FetchStep ==
  ASSUME OnlyLastFails, IInv, NEW s \in Statements, Fetch(s) \/ Refresh(s)
  PROVE  IInv'
<1>1. PICK kind \in MoveKinds, irow \in Int :
        stmt' = [stmt EXCEPT ![s] = Fetched(stmt[s], result[s], kind, irow)]
  <2>1. CASE Fetch(s)
    BY <2>1, RowsAssumption DEF Fetch
  <2>2. CASE Refresh(s)
    <3>1. PICK i \in 0 .. Len(result[s]) :
            stmt' = [stmt EXCEPT ![s] = Fetched(stmt[s], result[s], "relative", i - 1)]
      BY <2>2 DEF Refresh
    <3>2. i - 1 \in Int /\ "relative" \in MoveKinds
      BY Here DEF MoveKinds
    <3> QED
      BY <3>1, <3>2
  <2> QED
    BY <2>1, <2>2
<1> DEFINE d == Fetched(stmt[s], result[s], kind, irow)
<1>2. CursorInv(d, Len(result[s])) /\ d \in Cursors
  BY Here, FetchedHolds DEF CursorInv, CursorType
<1>3. /\ UNCHANGED <<table, pc, result, rows, counted, overtaken, selects>>
      /\ pc[s] = "idle"
  BY DEF Fetch, Refresh, Addressable
<1> HIDE DEF d
<1>4. stmt' = [stmt EXCEPT ![s] = d]
  BY <1>1 DEF d
<1>5. Typed'
  BY <1>2, <1>3, <1>4 DEF IInv, Typed
<1>6. stmt'[s] = d /\ \A t \in Statements \ {s} : stmt'[t] = stmt[t]
  BY <1>4 DEF IInv, Typed
<1>7. CountInv'
  BY <1>3, CountKept
<1>8. WriteAt(s)'
  BY <1>3 DEF WriteAt
<1> QED
  BY <1>2, <1>3, <1>5, <1>6, <1>7, <1>8, Frame

LEMMA PositionStep ==
  ASSUME IInv, NEW s \in Statements, Position(s)
  PROVE  IInv'
<1>1. PICK irow \in Irows(s) \ {0} :
        stmt' = [stmt EXCEPT ![s] = GoTo(stmt[s], RowPos(stmt[s], irow))]
  BY DEF Position
<1> DEFINE d == GoTo(stmt[s], RowPos(stmt[s], irow))
<1>2. /\ UNCHANGED <<table, pc, result, rows, counted, overtaken, selects>>
      /\ pc[s] = "idle" /\ stmt[s].fetch = "ok"
  BY DEF Position, Addressable
<1>3. CursorInv(d, Len(result[s])) /\ d \in Cursors
  BY <1>2, Here, GoToHolds DEF CursorInv, CursorType, Irows
<1> HIDE DEF d
<1>4. stmt' = [stmt EXCEPT ![s] = d]
  BY <1>1 DEF d
<1>5. Typed'
  BY <1>2, <1>3, <1>4 DEF IInv, Typed
<1>6. stmt'[s] = d /\ \A t \in Statements \ {s} : stmt'[t] = stmt[t]
  BY <1>4 DEF IInv, Typed
<1>7. CountInv' /\ WriteAt(s)'
  BY <1>2, CountKept DEF WriteAt
<1> QED
  BY <1>2, <1>3, <1>5, <1>6, <1>7, Frame

\* A positioned operation moves within the rowset, and names a row by its values.
LEMMA MoveStep ==
  ASSUME IInv, NEW s \in Statements, stmt[s].fetch = "ok",
         NEW irow \in 0 .. stmt[s].rows_found_in_set,
         stmt' = [stmt EXCEPT ![s] = MoveTo(stmt[s], irow)]
  PROVE  /\ stmt' \in [Statements -> Cursors]
         /\ CursorInv(stmt'[s], Len(result[s]))
         /\ stmt'[s].fetch = "ok"
         /\ stmt'[s].rows_found_in_set = stmt[s].rows_found_in_set
         /\ Where(MoveTo(stmt[s], irow), result[s]) \in Values
         /\ \A t \in Statements \ {s} : stmt'[t] = stmt[t]
<1> DEFINE d == MoveTo(stmt[s], irow)
<1>1. /\ CursorInv(d, Len(result[s])) /\ d \in Cursors
      /\ d.fetch = "ok" /\ d.rows_found_in_set = stmt[s].rows_found_in_set
      /\ d.data_cursor \in 0 .. (Len(result[s]) - 1)
  BY Here, MoveHolds DEF CursorInv, CursorType
<1>2. Where(d, result[s]) \in Values
  BY <1>1, Here, WhereTyped
<1> HIDE DEF d
<1>3. stmt' = [stmt EXCEPT ![s] = d]
  BY DEF d
<1>4. stmt \in [Statements -> Cursors]
  BY DEF IInv, Typed
<1> QED
  BY <1>1, <1>2, <1>3, <1>4 DEF d

LEMMA EndedTyped ==
  ASSUME IInv, NEW s \in Statements, Ended(s)
  PROVE  /\ pc' \in [Statements -> {"closed", "idle", "delete", "update", "add"}]
         /\ rows' \in [Statements -> [pos : Nat, end : Nat]]
         /\ counted' \in [Statements -> Values \cup {NoValue}]
         /\ pc'[s] = "idle"
         /\ \A t \in Statements \ {s} :
              pc'[t] = pc[t] /\ rows'[t] = rows[t] /\ counted'[t] = counted[t]
<1>1. Nowhere \in [pos : Nat, end : Nat]
  BY DEF Nowhere
<1> QED
  BY <1>1 DEF IInv, Typed, Ended

\* After a row the operation is at the next one, still in the rowset, or over.
LEMMA NextRowHolds ==
  ASSUME IInv, NEW s \in Statements, NextRow(s), pc[s] \in {"delete", "update"}
  PROVE  /\ pc' \in [Statements -> {"closed", "idle", "delete", "update", "add"}]
         /\ rows' \in [Statements -> [pos : Nat, end : Nat]]
         /\ counted' \in [Statements -> Values \cup {NoValue}]
         /\ \A t \in Statements \ {s} :
              pc'[t] = pc[t] /\ rows'[t] = rows[t] /\ counted'[t] = counted[t]
         /\ \/ pc'[s] = "idle"
            \/ /\ pc'[s] = pc[s] /\ counted'[s] = counted[s]
               /\ rows'[s].pos \in 1 .. rows'[s].end /\ rows'[s].end = rows[s].end
<1>1. CASE Ended(s)
  BY <1>1, EndedTyped
<1>2. CASE /\ rows[s].pos < rows[s].end
           /\ rows' = [rows EXCEPT ![s].pos = @ + 1]
           /\ UNCHANGED <<pc, counted>>
  <2>1. rows \in [Statements -> [pos : Nat, end : Nat]]
    BY DEF IInv, Typed
  <2>2. rows[s].pos \in 1 .. rows[s].end
    BY Here DEF WriteAt
  <2>3. /\ rows' \in [Statements -> [pos : Nat, end : Nat]]
        /\ rows'[s].pos = rows[s].pos + 1 /\ rows'[s].end = rows[s].end
        /\ \A t \in Statements \ {s} : rows'[t] = rows[t]
    BY <1>2, <2>1
  <2> QED
    BY <1>2, <2>1, <2>2, <2>3 DEF IInv, Typed
<1> QED
  BY <1>1, <1>2 DEF NextRow

LEMMA SpanTyped ==
  ASSUME IInv, NEW s \in Statements, stmt[s].fetch = "ok",
         NEW irow \in 0 .. stmt[s].rows_found_in_set
  PROVE  /\ Span(s, irow) \in [pos : Nat, end : Nat]
         /\ Span(s, irow).pos \in 1 .. Span(s, irow).end
         /\ Span(s, irow).end <= stmt[s].rows_found_in_set
<1>1. stmt[s].rows_found_in_set \in Nat \ {0}
  BY Here, RowsAssumption DEF CursorInv, CursorType, SpanInv, Cursors
<1> QED
  BY <1>1 DEF Span

LEMMA CountRowsStep ==
  ASSUME IInv, NEW s \in Statements, CountRows(s)
  PROVE  IInv'
<1>1. /\ pc[s] = "idle" /\ stmt[s].fetch = "ok" /\ "delete" \in Writes[s]
      /\ UNCHANGED <<table, result, overtaken, selects>>
  BY DEF CountRows, Addressable
<1>2. PICK irow \in 0 .. stmt[s].rows_found_in_set :
        LET c == MoveTo(stmt[s], irow)
            v == Where(c, result[s])
        IN  /\ stmt' = [stmt EXCEPT ![s] = c]
            /\ \/ /\ Proceeds(table[v])
                  /\ pc' = [pc EXCEPT ![s] = "delete"]
                  /\ rows' = [rows EXCEPT ![s] = Span(s, irow)]
                  /\ counted' = [counted EXCEPT ![s] = v]
               \/ /\ ~Proceeds(table[v]) \/ Faults
                  /\ UNCHANGED <<pc, rows, counted>>
  BY DEF CountRows, Irows
<1> DEFINE v == Where(MoveTo(stmt[s], irow), result[s])
<1>3. /\ stmt' \in [Statements -> Cursors]
      /\ CursorInv(stmt'[s], Len(result[s]))
      /\ stmt'[s].fetch = "ok"
      /\ stmt'[s].rows_found_in_set = stmt[s].rows_found_in_set
      /\ v \in Values
      /\ \A t \in Statements \ {s} : stmt'[t] = stmt[t]
  BY <1>1, <1>2, MoveStep
<1>4. \/ /\ Proceeds(table[v])
         /\ pc' = [pc EXCEPT ![s] = "delete"]
         /\ rows' = [rows EXCEPT ![s] = Span(s, irow)]
         /\ counted' = [counted EXCEPT ![s] = v]
      \/ UNCHANGED <<pc, rows, counted>>
  BY <1>2
<1> HIDE DEF v
<1>5. CASE UNCHANGED <<pc, rows, counted>>
  <2>1. Typed' /\ WriteAt(s)' /\ CountInv'
    BY <1>1, <1>3, <1>5, CountKept DEF IInv, Typed, WriteAt
  <2> QED
    BY <1>1, <1>3, <1>5, <2>1, Frame
<1>6. CASE /\ Proceeds(table[v])
           /\ pc' = [pc EXCEPT ![s] = "delete"]
           /\ rows' = [rows EXCEPT ![s] = Span(s, irow)]
           /\ counted' = [counted EXCEPT ![s] = v]
  <2>1. /\ Span(s, irow) \in [pos : Nat, end : Nat]
        /\ Span(s, irow).pos \in 1 .. Span(s, irow).end
        /\ Span(s, irow).end <= stmt[s].rows_found_in_set
    BY <1>1, SpanTyped
  <2> DEFINE span == Span(s, irow)
  <2> HIDE DEF span
  <2>2. rows' = [rows EXCEPT ![s] = span]
    BY <1>6 DEF span
  <2>3. Typed'
    BY <1>1, <1>3, <1>6, <2>1, <2>2 DEF IInv, Typed, span
  <2>4. /\ rows'[s] = span /\ pc'[s] = "delete" /\ counted'[s] = v
        /\ \A t \in Statements \ {s} :
             pc'[t] = pc[t] /\ rows'[t] = rows[t] /\ counted'[t] = counted[t]
    BY <1>6, <2>2 DEF IInv, Typed
  <2>5. WriteAt(s)'
    BY <1>1, <1>3, <2>1, <2>4 DEF WriteAt, span
  <2>6. CountInv'
    <3>1. table[v] <= 1
      BY <1>6 DEF Proceeds
    <3> QED
      BY <3>1, <1>1, <2>4 DEF IInv, CountInv
  <2> QED
    BY <1>1, <1>3, <2>3, <2>4, <2>5, <2>6, Frame
<1> QED
  BY <1>4, <1>5, <1>6

LEMMA DeleteRowStep ==
  ASSUME IInv, NEW s \in Statements, DeleteRow(s)
  PROVE  IInv'
<1> DEFINE c == MoveTo(stmt[s], rows[s].pos)
           v == Where(c, result[s])
<1>1. /\ pc[s] = "delete" /\ NextRow(s)
      /\ stmt' = [stmt EXCEPT ![s] = c] /\ table' = [table EXCEPT ![v] = 0]
      /\ overtaken' = [t \in Statements |->
                         IF t = s THEN overtaken[s] /\ pc'[s] = "delete"
                         ELSE overtaken[t] \/ pc[t] = "delete"]
      /\ UNCHANGED <<result, selects>>
  BY DEF DeleteRow
<1>2. /\ stmt[s].fetch = "ok" /\ rows[s].pos \in 0 .. stmt[s].rows_found_in_set
      /\ rows[s].end <= stmt[s].rows_found_in_set /\ "delete" \in Writes[s]
      /\ counted[s] \in Values
  <2>1. rows[s].end \in Nat /\ stmt[s].rows_found_in_set \in Nat
    BY EndsTyped
  <2> QED
    BY <1>1, <2>1, Here DEF WriteAt
<1>3. /\ stmt' \in [Statements -> Cursors]
      /\ CursorInv(stmt'[s], Len(result[s]))
      /\ stmt'[s].fetch = "ok"
      /\ stmt'[s].rows_found_in_set = stmt[s].rows_found_in_set
      /\ v \in Values
      /\ \A t \in Statements \ {s} : stmt'[t] = stmt[t]
  BY <1>1, <1>2, MoveStep
<1> HIDE DEF c, v
<1>4. /\ pc' \in [Statements -> {"closed", "idle", "delete", "update", "add"}]
      /\ rows' \in [Statements -> [pos : Nat, end : Nat]]
      /\ counted' \in [Statements -> Values \cup {NoValue}]
      /\ \A t \in Statements \ {s} :
           pc'[t] = pc[t] /\ rows'[t] = rows[t] /\ counted'[t] = counted[t]
      /\ \/ pc'[s] = "idle"
         \/ /\ pc'[s] = pc[s] /\ counted'[s] = counted[s]
            /\ rows'[s].pos \in 1 .. rows'[s].end /\ rows'[s].end = rows[s].end
  BY <1>1, NextRowHolds
<1>5. Typed'
  <2>1. overtaken' \in [Statements -> BOOLEAN]
    <3>1. overtaken \in [Statements -> BOOLEAN]
      BY DEF IInv, Typed
    <3>2. ASSUME NEW t \in Statements
          PROVE  (IF t = s THEN overtaken[s] /\ pc'[s] = "delete"
                  ELSE overtaken[t] \/ pc[t] = "delete") \in BOOLEAN
      OBVIOUS
    <3> QED
      BY <1>1, <3>2
  <2>2. table' \in [Values -> Nat]
    BY <1>1, <1>3 DEF IInv, Typed
  <2> QED
    BY <1>1, <1>3, <1>4, <2>1, <2>2 DEF IInv, Typed
<1>6. WriteAt(s)'
  BY <1>1, <1>2, <1>3, <1>4 DEF WriteAt
<1>7. CountInv'
  <2> SUFFICES ASSUME NEW t \in Statements, pc'[t] = "delete", ~overtaken'[t]
               PROVE  table'[counted'[t]] <= 1
    BY DEF CountInv
  <2>1. t = s /\ ~overtaken[s]
    BY <1>1, <1>4
  <2>2. counted'[s] = counted[s] /\ table[counted[s]] <= 1
    BY <1>1, <1>4, <2>1 DEF IInv, CountInv
  <2>3. table'[counted[s]] = 0 \/ table'[counted[s]] = table[counted[s]]
    BY <1>1, <1>2, <1>3 DEF IInv, Typed
  <2> QED
    BY <2>1, <2>2, <2>3
<1> QED
  BY <1>1, <1>3, <1>4, <1>5, <1>6, <1>7, Frame

LEMMA StartStep ==
  ASSUME IInv, NEW s \in Statements, StartUpdate(s) \/ StartAdd(s)
  PROVE  IInv'
<1>1. PICK span \in [pos : Nat, end : Nat], kind \in {"update", "add"} :
        /\ rows' = [rows EXCEPT ![s] = span] /\ pc' = [pc EXCEPT ![s] = kind]
        /\ span.pos \in 1 .. span.end
        /\ kind = "update" => /\ span.end <= stmt[s].rows_found_in_set
                              /\ stmt[s].fetch = "ok" /\ "update" \in Writes[s]
  <2>1. CASE StartUpdate(s)
    <3>1. PICK irow \in 0 .. stmt[s].rows_found_in_set :
            rows' = [rows EXCEPT ![s] = Span(s, irow)]
      BY <2>1 DEF StartUpdate, Irows
    <3>2. stmt[s].fetch = "ok" /\ "update" \in Writes[s] /\ pc' = [pc EXCEPT ![s] = "update"]
      BY <2>1 DEF StartUpdate, Addressable
    <3> QED
      BY <3>1, <3>2, SpanTyped
  <2>2. CASE StartAdd(s)
    <3>1. PICK n \in {1, ArraySize} : rows' = [rows EXCEPT ![s] = [pos |-> 1, end |-> n]]
      BY <2>2 DEF StartAdd
    <3>2. n \in Nat \ {0}
      BY <3>1, RowsAssumption
    <3> DEFINE span == [pos |-> 1, end |-> n]
    <3>3. span \in [pos : Nat, end : Nat] /\ span.pos \in 1 .. span.end
      BY <3>2
    <3>4. pc' = [pc EXCEPT ![s] = "add"]
      BY <2>2 DEF StartAdd
    <3> QED
      BY <3>1, <3>3, <3>4
  <2> QED
    BY <2>1, <2>2
<1>2. UNCHANGED <<table, result, stmt, counted, overtaken, selects>>
  BY DEF StartUpdate, StartAdd
<1>3. Typed'
  BY <1>1, <1>2 DEF IInv, Typed
<1>4. /\ pc'[s] = kind /\ rows'[s] = span
      /\ \A t \in Statements \ {s} : pc'[t] = pc[t] /\ rows'[t] = rows[t]
  BY <1>1 DEF IInv, Typed
<1>5. CountInv'
  BY <1>2, <1>4, CountKept
<1>6. span.pos <= span.end
  BY <1>1
<1>7. WriteAt(s)'
  BY <1>1, <1>2, <1>4, <1>6 DEF WriteAt
<1>8. CursorInv(stmt'[s], Len(result'[s]))
  BY <1>2, Here
<1> QED
  BY <1>2, <1>3, <1>4, <1>5, <1>7, <1>8, Frame

LEMMA UpdateRowStep ==
  ASSUME IInv, NEW s \in Statements, UpdateRow(s)
  PROVE  IInv'
<1> DEFINE c == MoveTo(stmt[s], rows[s].pos)
           v == Where(c, result[s])
<1>1. /\ pc[s] = "update" /\ NextRow(s) /\ Overtakes(s)
      /\ stmt' = [stmt EXCEPT ![s] = c] /\ \E new \in Values : table' = Updated(v, new)
      /\ UNCHANGED <<result, selects>>
  BY DEF UpdateRow
<1>2. /\ stmt[s].fetch = "ok" /\ rows[s].pos \in 0 .. stmt[s].rows_found_in_set
      /\ rows[s].end <= stmt[s].rows_found_in_set /\ "update" \in Writes[s]
  <2>1. rows[s].end \in Nat /\ stmt[s].rows_found_in_set \in Nat
    BY EndsTyped
  <2> QED
    BY <1>1, <2>1, Here DEF WriteAt
<1>3. /\ stmt' \in [Statements -> Cursors]
      /\ CursorInv(stmt'[s], Len(result[s]))
      /\ stmt'[s].fetch = "ok"
      /\ stmt'[s].rows_found_in_set = stmt[s].rows_found_in_set
      /\ v \in Values
      /\ \A t \in Statements \ {s} : stmt'[t] = stmt[t]
  BY <1>1, <1>2, MoveStep
<1> HIDE DEF c, v
<1>4. /\ pc' \in [Statements -> {"closed", "idle", "delete", "update", "add"}]
      /\ rows' \in [Statements -> [pos : Nat, end : Nat]]
      /\ counted' \in [Statements -> Values \cup {NoValue}]
      /\ \A t \in Statements \ {s} :
           pc'[t] = pc[t] /\ rows'[t] = rows[t] /\ counted'[t] = counted[t]
      /\ \/ pc'[s] = "idle"
         \/ /\ pc'[s] = pc[s] /\ counted'[s] = counted[s]
            /\ rows'[s].pos \in 1 .. rows'[s].end /\ rows'[s].end = rows[s].end
  BY <1>1, NextRowHolds
<1>5. Typed'
  <2>1. table \in [Values -> Nat]
    BY DEF IInv, Typed
  <2>2. table' \in [Values -> Nat]
    BY <2>1, <1>1, <1>3, UpdatedTyped
  <2> QED
    BY <1>1, <1>3, <1>4, <2>2, OvertakesTyped DEF IInv, Typed
<1>6. WriteAt(s)'
  BY <1>1, <1>2, <1>3, <1>4 DEF WriteAt
<1>7. CountInv'
  BY <1>1, <1>4, CountOvertaken
<1> QED
  BY <1>1, <1>3, <1>4, <1>5, <1>6, <1>7, Frame

LEMMA SkipRowStep ==
  ASSUME IInv, NEW s \in Statements, SkipRow(s)
  PROVE  IInv'
<1>1. /\ pc[s] = "update" /\ NextRow(s)
      /\ UNCHANGED <<table, result, stmt, overtaken, selects>>
  BY DEF SkipRow
<1>2. /\ pc' \in [Statements -> {"closed", "idle", "delete", "update", "add"}]
      /\ rows' \in [Statements -> [pos : Nat, end : Nat]]
      /\ counted' \in [Statements -> Values \cup {NoValue}]
      /\ \A t \in Statements \ {s} :
           pc'[t] = pc[t] /\ rows'[t] = rows[t] /\ counted'[t] = counted[t]
      /\ \/ pc'[s] = "idle"
         \/ /\ pc'[s] = pc[s] /\ counted'[s] = counted[s]
            /\ rows'[s].pos \in 1 .. rows'[s].end /\ rows'[s].end = rows[s].end
  BY <1>1, NextRowHolds
<1>3. Typed' /\ CountInv'
  BY <1>1, <1>2, CountKept DEF IInv, Typed
<1>4. WriteAt(s)' /\ CursorInv(stmt'[s], Len(result'[s]))
  BY <1>1, <1>2, Here DEF WriteAt
<1> QED
  BY <1>1, <1>2, <1>3, <1>4, Frame

LEMMA CurrentOfStep ==
  ASSUME IInv, NEW s \in Statements, CurrentOf(s)
  PROVE  IInv'
<1> DEFINE c == MoveTo(stmt[s], 1)
           v == Where(c, result[s])
<1>1. /\ pc[s] = "idle" /\ stmt[s].fetch = "ok" /\ Overtakes(s)
      /\ stmt' = [stmt EXCEPT ![s] = c]
      /\ \/ table' = [table EXCEPT ![v] = 0]
         \/ \E new \in Values : table' = Updated(v, new)
         \/ UNCHANGED table
      /\ UNCHANGED <<pc, result, rows, counted, selects>>
  BY DEF CurrentOf, Addressable
<1>2. 1 \in 0 .. stmt[s].rows_found_in_set
  BY <1>1, Here, RowsAssumption DEF CursorInv, CursorType, SpanInv, Cursors
<1>3. /\ stmt' \in [Statements -> Cursors]
      /\ CursorInv(stmt'[s], Len(result[s]))
      /\ v \in Values
      /\ \A t \in Statements \ {s} : stmt'[t] = stmt[t]
  BY <1>1, <1>2, MoveStep
<1> HIDE DEF c, v
<1>4. Typed'
  <2>1. table \in [Values -> Nat]
    BY DEF IInv, Typed
  <2>2. table' \in [Values -> Nat]
    <3>1. [table EXCEPT ![v] = 0] \in [Values -> Nat]
      BY <2>1
    <3>2. \A new \in Values : Updated(v, new) \in [Values -> Nat]
      BY <2>1, <1>3, UpdatedTyped
    <3> QED
      BY <2>1, <1>1, <3>1, <3>2
  <2> QED
    BY <1>1, <1>3, <2>2, OvertakesTyped DEF IInv, Typed
<1>5. WriteAt(s)' /\ CountInv'
  BY <1>1, CountOvertaken DEF WriteAt
<1> QED
  BY <1>1, <1>3, <1>4, <1>5, Frame

LEMMA InsertRowsStep ==
  ASSUME IInv, NEW s \in Statements, InsertRows(s)
  PROVE  IInv'
<1>1. PICK n \in 1 .. (rows[s].end - rows[s].pos + 1) :
        /\ \E new \in [1 .. n -> Values] :
             table' = [v \in Values |-> table[v] + Cardinality({i \in 1 .. n : new[i] = v})]
        /\ \/ /\ rows[s].pos + n <= rows[s].end
              /\ rows' = [rows EXCEPT ![s].pos = @ + n]
              /\ UNCHANGED <<pc, counted>>
           \/ Ended(s)
  BY DEF InsertRows
<1>2. pc[s] = "add" /\ Overtakes(s) /\ UNCHANGED <<result, stmt, selects>>
  BY DEF InsertRows
<1>3. rows \in [Statements -> [pos : Nat, end : Nat]] /\ n \in Nat
  BY <1>1 DEF IInv, Typed
<1>4. table' \in [Values -> Nat]
  <2>1. PICK new \in [1 .. n -> Values] :
          table' = [v \in Values |-> table[v] + Cardinality({i \in 1 .. n : new[i] = v})]
    BY <1>1
  <2>2. ASSUME NEW v \in Values
        PROVE  table[v] + Cardinality({i \in 1 .. n : new[i] = v}) \in Nat
    <3>1. IsFiniteSet(1 .. n)
      BY <1>3, FS_Interval
    <3>2. IsFiniteSet({i \in 1 .. n : new[i] = v})
      BY <3>1, FS_Subset
    <3>3. Cardinality({i \in 1 .. n : new[i] = v}) \in Nat
      BY <3>2, FS_CardinalityType
    <3> QED
      BY <3>3, <2>2 DEF IInv, Typed
  <2> QED
    BY <2>1, <2>2
<1>5. /\ pc' \in [Statements -> {"closed", "idle", "delete", "update", "add"}]
      /\ rows' \in [Statements -> [pos : Nat, end : Nat]]
      /\ counted' \in [Statements -> Values \cup {NoValue}]
      /\ \A t \in Statements \ {s} :
           pc'[t] = pc[t] /\ rows'[t] = rows[t] /\ counted'[t] = counted[t]
      /\ \/ pc'[s] = "idle"
         \/ pc'[s] = "add" /\ rows'[s].pos <= rows'[s].end
  <2>1. CASE Ended(s)
    BY <2>1, EndedTyped
  <2>2. CASE /\ rows[s].pos + n <= rows[s].end
             /\ rows' = [rows EXCEPT ![s].pos = @ + n]
             /\ UNCHANGED <<pc, counted>>
    <3>1. /\ rows' \in [Statements -> [pos : Nat, end : Nat]]
          /\ rows'[s].pos = rows[s].pos + n /\ rows'[s].end = rows[s].end
          /\ \A t \in Statements \ {s} : rows'[t] = rows[t]
      BY <1>3, <2>2
    <3> QED
      BY <1>2, <2>2, <3>1 DEF IInv, Typed
  <2> QED
    BY <1>1, <2>1, <2>2
<1>6. Typed'
  BY <1>2, <1>4, <1>5, OvertakesTyped DEF IInv, Typed
<1>7. CountInv'
  BY <1>2, <1>5, CountOvertaken
<1>8. WriteAt(s)' /\ CursorInv(stmt'[s], Len(result'[s]))
  BY <1>2, <1>5, Here DEF WriteAt
<1> QED
  BY <1>2, <1>5, <1>6, <1>7, <1>8, Frame

LEMMA RefusedStep ==
  ASSUME IInv, NEW s \in Statements, Refused(s)
  PROVE  IInv'
<1>1. /\ pc[s] \in {"delete", "update", "add"} /\ Ended(s)
      /\ overtaken' = [overtaken EXCEPT ![s] = FALSE]
      /\ UNCHANGED <<table, result, selects>>
  BY DEF Refused
<1>2. /\ stmt' \in [Statements -> Cursors]
      /\ CursorInv(stmt'[s], Len(result[s]))
      /\ \A t \in Statements \ {s} : stmt'[t] = stmt[t]
  <2>1. CASE pc[s] = "add"
    <3>1. stmt' = [stmt EXCEPT ![s] = stmt[s]]
      BY <2>1 DEF Refused
    <3> QED
      BY <3>1, Here DEF IInv, Typed
  <2>2. CASE pc[s] # "add"
    <3>1. stmt' = [stmt EXCEPT ![s] = MoveTo(stmt[s], rows[s].pos)]
      BY <2>2 DEF Refused
    <3>2. rows[s].end \in Nat /\ stmt[s].rows_found_in_set \in Nat
      BY EndsTyped
    <3>3. stmt[s].fetch = "ok" /\ rows[s].pos \in 0 .. stmt[s].rows_found_in_set
      BY <1>1, <2>2, <3>2, Here DEF WriteAt
    <3> QED
      BY <3>1, <3>3, MoveStep
  <2> QED
    BY <2>1, <2>2
<1>3. /\ pc' \in [Statements -> {"closed", "idle", "delete", "update", "add"}]
      /\ rows' \in [Statements -> [pos : Nat, end : Nat]]
      /\ counted' \in [Statements -> Values \cup {NoValue}]
      /\ pc'[s] = "idle"
      /\ \A t \in Statements \ {s} :
           pc'[t] = pc[t] /\ rows'[t] = rows[t] /\ counted'[t] = counted[t]
  BY <1>1, EndedTyped
<1>4. Typed'
  BY <1>1, <1>2, <1>3 DEF IInv, Typed
<1>5. CountInv'
  BY <1>1, <1>3 DEF IInv, Typed, CountInv
<1>6. WriteAt(s)'
  BY <1>3 DEF WriteAt
<1> QED
  BY <1>1, <1>2, <1>3, <1>4, <1>5, <1>6, Frame

LEMMA ExecuteStep ==
  ASSUME IInv, NEW s \in Statements, Execute(s)
  PROVE  IInv'
<1>1. PICK q \in Arrangements : result' = [result EXCEPT ![s] = q]
  BY DEF Execute
<1>2. /\ pc[s] = "closed" /\ selects < MaxSelects /\ selects' = selects + 1
      /\ pc' = [pc EXCEPT ![s] = "idle"]
      /\ UNCHANGED <<table, stmt, rows, counted, overtaken>>
  BY DEF Execute
<1>3. q \in Seq(Values) /\ Len(q) \in Nat
  BY DEF Arrangements, BoundedSeq, SeqOf
<1>4. Typed'
  BY <1>1, <1>2, <1>3, RowsAssumption DEF IInv, Typed
<1>5. /\ result'[s] = q /\ pc'[s] = "idle"
      /\ \A t \in Statements \ {s} : result'[t] = result[t] /\ pc'[t] = pc[t]
  BY <1>1, <1>2 DEF IInv, Typed
<1>6. CursorInv(stmt'[s], Len(result'[s]))
  BY <1>2, <1>3, <1>5, Here, FreshHolds DEF WriteAt
<1>7. CountInv' /\ WriteAt(s)'
  BY <1>2, <1>5, CountKept DEF WriteAt
<1> QED
  BY <1>2, <1>4, <1>5, <1>6, <1>7, Frame

LEMMA CloseStep ==
  ASSUME IInv, NEW s \in Statements, Close(s)
  PROVE  IInv'
<1>1. /\ pc' = [pc EXCEPT ![s] = "closed"]
      /\ result' = [result EXCEPT ![s] = <<>>]
      /\ stmt' = [stmt EXCEPT ![s] = Fresh]
      /\ UNCHANGED <<table, rows, counted, overtaken, selects>>
  BY DEF Close
<1>2. Fresh \in Cursors /\ CursorInv(Fresh, 0)
  BY FreshHolds DEF CursorInv, CursorType
<1>3. Typed'
  BY <1>1, <1>2 DEF IInv, Typed
<1>4. /\ result'[s] = <<>> /\ pc'[s] = "closed" /\ stmt'[s] = Fresh
      /\ \A t \in Statements \ {s} :
           result'[t] = result[t] /\ pc'[t] = pc[t] /\ stmt'[t] = stmt[t]
  BY <1>1 DEF IInv, Typed
<1>5. CountInv' /\ WriteAt(s)'
  BY <1>1, <1>4, CountKept DEF WriteAt
<1> QED
  BY <1>1, <1>2, <1>3, <1>4, <1>5, Frame

\* The statements of an application that ended are as new; the others stay.
LEMMA FetchUncaughtStep ==
  ASSUME IInv, NEW s \in Statements, FetchUncaught(s)
  PROVE  IInv'
<1>1. PICK lost \in SUBSET Statements :
        /\ pc' = [t \in Statements |-> IF t \in lost THEN "closed" ELSE pc[t]]
        /\ result' = [t \in Statements |-> IF t \in lost THEN <<>> ELSE result[t]]
        /\ stmt' = [t \in Statements |-> IF t \in lost THEN Fresh ELSE stmt[t]]
        /\ rows' = [t \in Statements |-> IF t \in lost THEN Nowhere ELSE rows[t]]
        /\ counted' = [t \in Statements |-> IF t \in lost THEN NoValue ELSE counted[t]]
        /\ overtaken' = [t \in Statements |-> t \notin lost /\ overtaken[t]]
  BY DEF FetchUncaught
<1>2. UNCHANGED <<table, selects>>
  BY DEF FetchUncaught
<1>3. Fresh \in Cursors /\ CursorInv(Fresh, 0) /\ Nowhere \in [pos : Nat, end : Nat]
  BY FreshHolds DEF CursorInv, CursorType, Nowhere
<1>4. Typed'
  BY <1>1, <1>2, <1>3 DEF IInv, Typed
<1>5. ASSUME NEW t \in Statements
      PROVE  /\ CursorInv(stmt'[t], Len(result'[t]))
             /\ WriteAt(t)'
             /\ pc'[t] = "delete" /\ ~overtaken'[t] => table'[counted'[t]] <= 1
  <2>1. CASE t \in lost
    BY <1>1, <1>3, <2>1 DEF WriteAt
  <2>2. CASE t \notin lost
    <3>1. /\ pc'[t] = pc[t] /\ result'[t] = result[t] /\ stmt'[t] = stmt[t]
          /\ rows'[t] = rows[t] /\ counted'[t] = counted[t]
          /\ overtaken'[t] = overtaken[t]
      BY <1>1, <2>2 DEF IInv, Typed
    <3> QED
      BY <1>2, <3>1 DEF IInv, WriteInv, WriteAt, CountInv
  <2> QED
    BY <2>1, <2>2
<1> QED
  BY <1>4, <1>5 DEF IInv, WriteInv, CountInv

LEMMA StepHolds ==
  ASSUME OnlyLastFails, IInv, [Next]_vars
  PROVE  IInv'
<1>1. CASE UNCHANGED vars
  BY <1>1 DEF vars, IInv, Typed, WriteInv, WriteAt, CountInv
<1>2. CASE Next
  BY <1>2, FetchStep, FetchUncaughtStep, PositionStep, CountRowsStep, DeleteRowStep, StartStep, UpdateRowStep,
     SkipRowStep, CurrentOfStep, InsertRowsStep, RefusedStep, ExecuteStep, CloseStep
  DEF Next
<1> QED
  BY <1>1, <1>2

-----------------------------------------------------------------------------
(* Theorems *)

LEMMA Invariant == OnlyLastFails /\ Spec => []IInv
<1> SUFFICES ASSUME OnlyLastFails PROVE Spec => []IInv
  OBVIOUS
<1>1. IInv /\ [Next]_vars => IInv'
  BY StepHolds
<1> QED
  BY <1>1, InitHolds, PTL DEF Spec

\* The cursors of a statement never leave its result, whatever is fetched and
\* written, if a fetch fails for the last row only.
THEOREM TypeCorrect == OnlyLastFails /\ Spec => []TypeOK
<1>1. IInv => TypeOK
  BY DEF IInv, Typed, TypeOK, CursorInv, CursorType
<1> QED
  BY <1>1, Invariant, PTL

\* Every rowset shows the rows from current_row on, though compute_cur_row
\* enters the list where the previous fetch left it.
THEOREM RowsetsTrue == OnlyLastFails /\ Spec => []RowsetTrue
<1>1. IInv => RowsetTrue
  BY DEF IInv, CursorInv, ShownInv, RowsetTrue
<1> QED
  BY <1>1, Invariant, PTL

\* execute_delete_algorithm never takes two copies of the row it counted, of
\* however many statements, unless another wrote in between.
THEOREM NoTwoCopies == OnlyLastFails /\ Spec => OneCopyOnly
<1> DEFINE Once == \A s \in Statements :
             DeleteRow(s) /\ ~overtaken[s] => table[counted[s]] <= table'[counted[s]] + 1
<1> SUFFICES ASSUME OnlyLastFails PROVE Spec => [][Once]_vars
  BY DEF OneCopyOnly
<1>1. ASSUME IInv, [Next]_vars PROVE Once
  <2>1. IInv'
    BY <1>1, StepHolds
  <2> SUFFICES ASSUME NEW s \in Statements, DeleteRow(s), ~overtaken[s]
               PROVE  table[counted[s]] <= table'[counted[s]] + 1
    OBVIOUS
  <2>2. counted[s] \in Values /\ table[counted[s]] <= 1
    BY <1>1 DEF DeleteRow, IInv, WriteInv, WriteAt, CountInv
  <2>3. table[counted[s]] \in Nat /\ table'[counted[s]] \in Nat
    BY <1>1, <2>1, <2>2 DEF IInv, Typed
  <2> QED
    BY <2>2, <2>3
<1> QED
  BY <1>1, Invariant, PTL DEF Spec

-----------------------------------------------------------------------------
(* Positioned writes of statements that only move forwards. *)

\* The README shows what happens to the others.
WritersGoForward ==
  \A s \in Statements :
    Writes[s] \cap {"delete", "update", "currentOf"} # {} => Moves[s] \subseteq {"next"}

\* SQLSetPos has not been further than the rowset, and data_cursor is where it
\* went if it went into the rowset.
AtCursor(c) ==
  /\ c.current_row >= 0
  /\ c.cursor_row < c.current_row + c.rows_found_in_set
  /\ c.fetch = "ok" /\ c.cursor_row >= c.current_row => c.data_cursor = c.cursor_row

ForwardInv == \A s \in Statements : Moves[s] \subseteq {"next"} => AtCursor(stmt[s])

LEMMA RowsetAt ==
  ASSUME OnlyLastFails, NEW q \in Seq(Values), NEW c, CursorInv(c, Len(q)),
         NEW r \in 0 .. Len(q), c.cursor_row < r
  PROVE  AtCursor(Rowset(c, q, r))
<1> DEFINE d == Rowset(c, q, r)
<1>1. d.current_row = r /\ d.rows_found_in_set = Found(q, r) /\ d.cursor_row = c.cursor_row
  <2>1. RowsetFrom(d, c, q, r)
    BY RowsetFields
  <2> HIDE DEF d
  <2> QED
    BY <2>1 DEF RowsetFrom
<1>2. Found(q, r) \in Nat /\ Len(q) \in Nat
  BY FoundTyped, RowsAssumption
<1>3. c.cursor_row \in Int
  BY DEF CursorInv, CursorType, Cursors
<1> HIDE DEF d
<1>4. AtCursor(d)
  BY <1>1, <1>2, <1>3 DEF AtCursor
<1> QED
  BY <1>4 DEF d

LEMMA NextHolds ==
  ASSUME OnlyLastFails, NEW q \in Seq(Values), NEW c, CursorInv(c, Len(q)), AtCursor(c),
         NEW irow
  PROVE  AtCursor(Fetched(c, q, "next", irow))
<1> DEFINE r == c.current_row + c.rows_found_in_set
           d == Fetched(c, q, "next", irow)
<1>1. /\ Len(q) \in Nat /\ c.current_row \in Int /\ c.cursor_row \in Int
      /\ c.rows_found_in_set \in Nat /\ r <= Len(q)
  BY RowsAssumption DEF CursorInv, CursorType, SpanInv, Cursors
<1>2. r \in 0 .. Len(q)
  BY <1>1 DEF AtCursor
<1>3. Target(c, Len(q), "next", irow) = r
  BY <1>1 DEF Target, AtCursor
<1>4. d = Rowset(c, q, r)
  BY <1>1, <1>2, <1>3 DEF Fetched, Smaller
<1>5. c.cursor_row < r
  BY DEF AtCursor
<1> HIDE DEF r
<1> QED
  BY <1>2, <1>4, <1>5, RowsetAt

LEMMA MoveAt ==
  ASSUME NEW n \in Nat, NEW c, CursorInv(c, n), c.fetch = "ok", AtCursor(c),
         NEW irow \in 0 .. c.rows_found_in_set
  PROVE  /\ AtCursor(GoTo(c, RowPos(c, irow))) /\ AtCursor(MoveTo(c, irow))
         /\ MoveTo(c, irow).data_cursor = RowPos(c, irow)
<1>1. /\ c.current_row \in Nat /\ c.rows_found_in_set \in Nat \ {0}
      /\ c.cursor_row \in Int
  BY RowsAssumption DEF CursorInv, CursorType, SpanInv, Cursors, AtCursor
<1>2. RowPos(c, irow) \in c.current_row .. (c.current_row + c.rows_found_in_set - 1)
  BY <1>1 DEF RowPos
<1> DEFINE g == GoTo(c, RowPos(c, irow))
<1>3. /\ g.cursor_row = RowPos(c, irow) /\ g.data_cursor = RowPos(c, irow)
      /\ g.fetch = "ok" /\ g.current_row = c.current_row
      /\ g.rows_found_in_set = c.rows_found_in_set
  BY GoToHolds
<1> HIDE DEF g
<1>4. AtCursor(g)
  BY <1>1, <1>2, <1>3 DEF AtCursor
<1>5. CASE c.cursor_row = RowPos(c, irow)
  BY <1>1, <1>2, <1>4, <1>5 DEF MoveTo, AtCursor, g
<1>6. CASE c.cursor_row # RowPos(c, irow)
  BY <1>3, <1>4, <1>6 DEF MoveTo, g
<1> QED
  BY <1>5, <1>6

\* What a step does to the cursors of a statement.
LEMMA CursorSteps ==
  ASSUME IInv, [Next]_vars, NEW s \in Statements
  PROVE  \/ stmt'[s] \in {stmt[s], Fresh}
         \/ \E kind \in Moves[s], irow \in Int :
              stmt'[s] = Fetched(stmt[s], result[s], kind, irow)
         \/ /\ stmt[s].fetch = "ok"
            /\ \E irow \in 0 .. stmt[s].rows_found_in_set :
                 stmt'[s] \in {GoTo(stmt[s], RowPos(stmt[s], irow)), MoveTo(stmt[s], irow)}
<1> DEFINE Goal ==
         \/ stmt'[s] \in {stmt[s], Fresh}
         \/ \E kind \in Moves[s], irow \in Int :
              stmt'[s] = Fetched(stmt[s], result[s], kind, irow)
         \/ /\ stmt[s].fetch = "ok"
            /\ \E irow \in 0 .. stmt[s].rows_found_in_set :
                 stmt'[s] \in {GoTo(stmt[s], RowPos(stmt[s], irow)), MoveTo(stmt[s], irow)}
<1>0. stmt \in [Statements -> Cursors]
  BY DEF IInv, Typed
<1>1. CASE UNCHANGED stmt
  BY <1>1
<1>2. ASSUME NEW t \in Statements, Fetch(t) PROVE Goal
  BY <1>0, <1>2, RowsAssumption DEF Fetch
<1>3. ASSUME NEW t \in Statements, Refresh(t) PROVE Goal
  <2>1. PICK i \in 0 .. Len(result[t]) :
          stmt' = [stmt EXCEPT ![t] = Fetched(stmt[t], result[t], "relative", i - 1)]
    BY <1>3 DEF Refresh
  <2>2. i - 1 \in Int /\ "relative" \in Moves[t]
    BY <1>3, Here DEF Refresh
  <2> QED
    BY <1>0, <2>1, <2>2
<1>4. ASSUME NEW t \in Statements, Position(t) PROVE Goal
  BY <1>0, <1>4 DEF Position, Addressable, Irows
<1>5. ASSUME NEW t \in Statements, stmt[t].fetch = "ok",
             \E irow \in 0 .. stmt[t].rows_found_in_set :
               stmt' = [stmt EXCEPT ![t] = MoveTo(stmt[t], irow)]
      PROVE  Goal
  BY <1>0, <1>5
<1>6. ASSUME NEW t \in Statements, CountRows(t) PROVE Goal
  BY <1>5, <1>6 DEF CountRows, Addressable, Irows
<1>7. ASSUME NEW t \in Statements, pc[t] \in {"delete", "update"},
             stmt' = [stmt EXCEPT ![t] = MoveTo(stmt[t], rows[t].pos)]
      PROVE  Goal
  <2>1. rows[t].end \in Nat /\ stmt[t].rows_found_in_set \in Nat
    BY EndsTyped
  <2>2. stmt[t].fetch = "ok" /\ rows[t].pos \in 0 .. stmt[t].rows_found_in_set
    BY <1>7, <2>1, Here DEF WriteAt
  <2> QED
    BY <1>5, <1>7, <2>2
<1>8. ASSUME NEW t \in Statements, DeleteRow(t) \/ UpdateRow(t) PROVE Goal
  BY <1>7, <1>8 DEF DeleteRow, UpdateRow
<1>9. ASSUME NEW t \in Statements, CurrentOf(t) PROVE Goal
  <2>1. 1 \in 0 .. stmt[t].rows_found_in_set /\ stmt[t].fetch = "ok"
    BY <1>9, Here, RowsAssumption
    DEF CurrentOf, Addressable, CursorInv, CursorType, SpanInv, Cursors
  <2> QED
    BY <1>5, <1>9, <2>1 DEF CurrentOf
<1>10. ASSUME NEW t \in Statements, Refused(t) PROVE Goal
  <2>1. CASE pc[t] = "add"
    <3>1. stmt' = [stmt EXCEPT ![t] = stmt[t]]
      BY <1>10, <2>1 DEF Refused
    <3> QED
      BY <1>0, <3>1
  <2>2. CASE pc[t] # "add"
    BY <1>7, <1>10, <2>2 DEF Refused
  <2> QED
    BY <2>1, <2>2
<1>11. ASSUME NEW t \in Statements, Close(t) PROVE Goal
  BY <1>0, <1>11 DEF Close
<1>12. ASSUME NEW t \in Statements, FetchUncaught(t) PROVE Goal
  BY <1>12 DEF FetchUncaught
<1>13. ASSUME NEW t \in Statements,
              Execute(t) \/ StartUpdate(t) \/ SkipRow(t) \/ StartAdd(t) \/ InsertRows(t)
       PROVE  UNCHANGED stmt
  BY <1>13 DEF Execute, StartUpdate, SkipRow, StartAdd, InsertRows
<1>14. CASE UNCHANGED vars
  BY <1>1, <1>14 DEF vars
<1>15. CASE Next
  BY <1>1, <1>2, <1>3, <1>4, <1>6, <1>8, <1>9, <1>10, <1>11, <1>13, <1>15, <1>12 DEF Next
<1> QED
  BY <1>14, <1>15

LEMMA ForwardStep ==
  ASSUME OnlyLastFails, IInv, ForwardInv, [Next]_vars
  PROVE  ForwardInv'
<1> SUFFICES ASSUME NEW s \in Statements, Moves[s] \subseteq {"next"}
             PROVE  AtCursor(stmt'[s])
  BY DEF ForwardInv
<1>1. AtCursor(stmt[s])
  BY DEF ForwardInv
<1>2. AtCursor(Fresh)
  BY DEF AtCursor, Fresh
<1>3. ASSUME NEW irow \in Int PROVE AtCursor(Fetched(stmt[s], result[s], "next", irow))
  BY <1>1, Here, NextHolds
<1>4. ASSUME stmt[s].fetch = "ok", NEW irow \in 0 .. stmt[s].rows_found_in_set
      PROVE  AtCursor(GoTo(stmt[s], RowPos(stmt[s], irow))) /\ AtCursor(MoveTo(stmt[s], irow))
  BY <1>1, <1>4, Here, MoveAt
<1> QED
  BY <1>1, <1>2, <1>3, <1>4, CursorSteps

\* A positioned write reads its WHERE clause at the row it addresses.
LEMMA WhereRight ==
  ASSUME IInv, ForwardInv, NEW s \in Statements, stmt[s].fetch = "ok",
         Moves[s] \subseteq {"next"}, NEW irow \in 1 .. stmt[s].rows_found_in_set
  PROVE  /\ Where(MoveTo(stmt[s], irow), result[s]) = result[s][stmt[s].current_row + irow]
         /\ Where(MoveTo(stmt[s], irow), result[s]) \in Values
<1>1. MoveTo(stmt[s], irow).data_cursor = stmt[s].current_row + irow - 1
  BY Here, MoveAt DEF ForwardInv, RowPos
<1>2. MoveTo(stmt[s], irow).data_cursor \in 0 .. (Len(result[s]) - 1)
  BY Here, MoveHolds
<1>3. stmt[s].current_row \in Int
  BY Here DEF Cursors
<1>4. Where(MoveTo(stmt[s], irow), result[s]) = result[s][stmt[s].current_row + irow]
  <2>1. MoveTo(stmt[s], irow).data_cursor + 1 = stmt[s].current_row + irow
    BY <1>1, <1>3
  <2> QED
    BY <2>1 DEF Where
<1>5. Where(MoveTo(stmt[s], irow), result[s]) \in Values
  BY <1>2, Here, WhereTyped
<1> QED
  BY <1>4, <1>5

\* A write that names the values of a row takes no other row away.
LEMMA WriteAtRow ==
  ASSUME table \in [Values -> Nat], NEW s, NEW r, NEW v \in Values,
         v = result[s][stmt[s].current_row + r],
         \/ table' = [table EXCEPT ![v] = 0]
         \/ \E new \in Values : table' = Updated(v, new)
         \/ UNCHANGED table
  PROVE  AtRow(s, r)
<1> SUFFICES ASSUME NEW x \in Values, table'[x] < table[x] PROVE x = v
  BY DEF AtRow
<1>1. CASE table' = [table EXCEPT ![v] = 0]
  BY <1>1
<1>2. ASSUME NEW new \in Values, table' = Updated(v, new) PROVE x = v
  <2>1. CASE v = new
    BY <1>2, <2>1 DEF Updated
  <2>2. CASE v # new
    <3>1. table' = [table EXCEPT ![v] = 0, ![new] = @ + table[v]]
      BY <1>2, <2>2 DEF Updated
    <3>2. ASSUME x # v PROVE ~(table'[x] < table[x])
      BY <2>2, <3>1, <3>2
    <3> QED
      BY <3>2
  <2> QED
    BY <2>1, <2>2
<1>3. CASE UNCHANGED table
  BY <1>3
<1> QED
  BY <1>1, <1>2, <1>3

\* Statements that only fetch forwards write to the row they address, whatever
\* they fetched, positioned and wrote before.
THEOREM WritesWhereItSays == OnlyLastFails /\ WritersGoForward /\ Spec => RightRow
<1> DEFINE Right == \A s \in Statements :
             /\ DeleteRow(s) \/ UpdateRow(s) => AtRow(s, rows[s].pos)
             /\ CurrentOf(s) => AtRow(s, 1)
<1> SUFFICES ASSUME OnlyLastFails, WritersGoForward PROVE Spec => [][Right]_vars
  BY DEF RightRow
<1>1. Init => ForwardInv
  BY DEF Init, ForwardInv, AtCursor, Fresh
<1>2. IInv /\ ForwardInv /\ [Next]_vars => ForwardInv'
  BY ForwardStep
<1>3. ASSUME IInv, ForwardInv PROVE Right
  <2> TAKE s \in Statements
  <2>1. table \in [Values -> Nat]
    BY <1>3 DEF IInv, Typed
  <2>2. ASSUME DeleteRow(s) \/ UpdateRow(s) PROVE AtRow(s, rows[s].pos)
    <3>1. /\ stmt[s].fetch = "ok" /\ Moves[s] \subseteq {"next"}
          /\ rows[s].pos \in 1 .. stmt[s].rows_found_in_set
      <4>1. rows[s].end \in Nat /\ stmt[s].rows_found_in_set \in Nat
        BY <1>3, RowsAssumption DEF IInv, Typed, Cursors
      <4>2. pc[s] \in {"delete", "update"}
        BY <2>2 DEF DeleteRow, UpdateRow
      <4>3. WriteAt(s)
        BY <1>3, Here
      <4>4. /\ stmt[s].fetch = "ok" /\ rows[s].pos \in 1 .. rows[s].end
            /\ rows[s].end <= stmt[s].rows_found_in_set
            /\ Writes[s] \cap {"delete", "update", "currentOf"} # {}
        BY <4>2, <4>3 DEF WriteAt
      <4>5. Moves[s] \subseteq {"next"}
        BY <4>4, Zenon DEF WritersGoForward
      <4>6. rows[s].pos \in 1 .. stmt[s].rows_found_in_set
        BY <4>1, <4>4
      <4> QED
        BY <4>4, <4>5, <4>6
    <3> DEFINE v == Where(MoveTo(stmt[s], rows[s].pos), result[s])
    <3>2. v = result[s][stmt[s].current_row + rows[s].pos] /\ v \in Values
      BY <1>3, <3>1, WhereRight
    <3>3. table' = [table EXCEPT ![v] = 0] \/ \E new \in Values : table' = Updated(v, new)
      BY <2>2 DEF DeleteRow, UpdateRow
    <3> QED
      BY <2>1, <3>2, <3>3, WriteAtRow
  <2>3. ASSUME CurrentOf(s) PROVE AtRow(s, 1)
    <3>1. /\ stmt[s].fetch = "ok" /\ Moves[s] \subseteq {"next"}
          /\ 1 \in 1 .. stmt[s].rows_found_in_set
      <4>1. stmt[s].fetch = "ok" /\ "currentOf" \in Writes[s]
        BY <2>3 DEF CurrentOf, Addressable
      <4>2. Moves[s] \subseteq {"next"}
        BY <4>1, Zenon DEF WritersGoForward
      <4>3. 1 \in 1 .. stmt[s].rows_found_in_set
        BY <1>3, <4>1, Here, RowsAssumption DEF CursorInv, CursorType, SpanInv, Cursors
      <4> QED
        BY <4>1, <4>2, <4>3
    <3> DEFINE v == Where(MoveTo(stmt[s], 1), result[s])
    <3>2. v = result[s][stmt[s].current_row + 1] /\ v \in Values
      BY <1>3, <3>1, WhereRight
    <3>3. \/ table' = [table EXCEPT ![v] = 0]
          \/ \E new \in Values : table' = Updated(v, new)
          \/ UNCHANGED table
      BY <2>3 DEF CurrentOf
    <3> QED
      BY <2>1, <3>2, <3>3, WriteAtRow
  <2> QED
    BY <2>2, <2>3
<1>4. Spec => []ForwardInv
  BY <1>1, <1>2, Invariant, PTL DEF Spec
<1> QED
  BY <1>3, <1>4, Invariant, PTL DEF Spec
=============================================================================
