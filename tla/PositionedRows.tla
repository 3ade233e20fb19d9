--------------------------- MODULE PositionedRows ---------------------------
(***************************************************************************)
(* Rowsets and positioned writes (driver/my_prepared_stmt.cc, results.cc,  *)
(* cursor.cc).  A statement keeps the rows of its SELECT as a linked list, *)
(* fetches them in rowsets and moves three cursors over them: current_row  *)
(* (where the rowset starts), data_cursor (the node a fetch or a WHERE     *)
(* clause reads) and cursor_row (where SQLSetPos last took data_cursor).   *)
(* DES has no cursors, so a positioned UPDATE or DELETE names its row by   *)
(* the values of all its columns, in exchanges between which the other     *)
(* statements may write to the table.                                      *)
(*                                                                         *)
(* An exchange is one step; QueryChannel shows what the query mutex and    *)
(* the pipes do during it.  Cursors are static or forward-only, the kinds  *)
(* SQLSetStmtAttr accepts, with cached rows; bookmark operations of        *)
(* SQLBulkOperations, row statuses and data at execution are left out.     *)
(* A suffixed operator is a plausible slip, used by the checking runs.     *)
(***************************************************************************)
EXTENDS Integers, FiniteSetsExt, SequencesExt

CONSTANTS
  Statements,  \* statement handles, of one or several clients
  Values,      \* what a row may hold, all its columns together
  Bad,         \* the values that do not convert to the bound C types
  NoValue,     \* none of them
  ArraySize,   \* SQL_ATTR_ROW_ARRAY_SIZE
  Stored,      \* how many rows of each value the table has at first
  Moves,       \* the kinds of fetch each statement uses
  Offsets,     \* their FetchOffset
  Writes,      \* the positioned operations each statement uses
  Faults,      \* TRUE: an exchange may be refused or its answer lost
  MaxRows,     \* bound: rows of the table
  MaxSelects   \* bound: SELECTs in a behaviour

MoveKinds == {"next", "prior", "first", "last", "absolute", "relative", "bookmark"}
WriteKinds == {"delete", "update", "currentOf", "add"}

ASSUME RowsAssumption ==
  /\ Bad \subseteq Values /\ NoValue \notin Values
  /\ ArraySize \in Nat \ {0}
  /\ Stored \in [Values -> Nat]
  /\ Moves \in [Statements -> SUBSET MoveKinds]
  /\ Offsets \subseteq Int
  /\ Writes \in [Statements -> SUBSET WriteKinds]
  /\ Faults \in BOOLEAN
  /\ MaxRows \in Nat /\ MaxSelects \in Nat

VARIABLES
  table,     \* DES's table: how many rows of each value
  pc,        \* where each statement stands
  result,    \* the rows of its SELECT, as they were when it ran
  stmt,      \* its cursors
  rows,      \* rowset_pos and rowset_end of the positioned operation it is in
  counted,   \* the row execute_delete_algorithm counted
  overtaken, \* history: another statement wrote since it counted
  selects    \* SELECTs so far

vars == <<table, pc, result, stmt, rows, counted, overtaken, selects>>

\* data_cursor and end_of_set count nodes from 0; the end of the list is the
\* number of rows.  Stale is a pointer that is not into this result.
Stale == -1
Fresh == [current_row |-> 0, rows_found_in_set |-> 0, cursor_row |-> -1,
          data_cursor |-> 0, end_of_set |-> Stale, shown |-> <<>>, fetch |-> "none"]
Nowhere == [pos |-> 0, end |-> 0]

Init ==
  /\ table = Stored
  /\ pc = [s \in Statements |-> "closed"]
  /\ result = [s \in Statements |-> <<>>]
  /\ stmt = [s \in Statements |-> Fresh]
  /\ rows = [s \in Statements |-> Nowhere]
  /\ counted = [s \in Statements |-> NoValue]
  /\ overtaken = [s \in Statements |-> FALSE]
  /\ selects = 0

-----------------------------------------------------------------------------
(* Fetching. *)

Smaller(m, n) == IF m < n THEN m ELSE n

\* compute_cur_row: the row, from 0, where the rowset of n rows is to start.
Target(c, n, kind, irow) ==
  CASE kind = "next"  -> IF c.current_row < 0 THEN 0 ELSE c.current_row + c.rows_found_in_set
    [] kind = "prior" -> IF c.current_row <= 0 THEN -1 ELSE c.current_row - ArraySize
    [] kind = "first" -> 0
    [] kind = "last"  -> n - ArraySize
    [] kind = "absolute" -> IF irow >= 0 THEN irow - 1
                            ELSE IF n + irow < 0 /\ -irow <= ArraySize THEN 0 ELSE n + irow
    [] kind = "relative" -> IF /\ c.current_row > 0 /\ c.current_row + irow < 0
                               /\ -irow <= ArraySize
                            THEN 0 ELSE c.current_row + irow
    [] kind = "bookmark" -> IF irow < 0 /\ -irow <= ArraySize THEN 0 ELSE irow

\* Before the first row compute_cur_row throws: nothing is fetched.
BeforeFirst(c) ==
  [current_row |-> -1, rows_found_in_set |-> 0, cursor_row |-> c.cursor_row,
   data_cursor |-> 0, end_of_set |-> c.end_of_set, shown |-> <<>>, fetch |-> "nodata"]

\* Right after the previous rowset, the list is entered where that one ended.
Seek(c, r) == IF r # 0 /\ r = c.current_row + c.rows_found_in_set THEN c.end_of_set ELSE r

\* A slip: the end of the rowset is not kept for the next fetch.
RowsetEndLost(c, q, r) ==
  LET start == Seek(c, r)
      found == Smaller(Len(q) - r, ArraySize)
  IN  [current_row |-> r,
       rows_found_in_set |-> found,
       cursor_row |-> c.cursor_row,
       data_cursor |-> start,
       end_of_set |-> c.end_of_set,
       shown |-> [i \in 1 .. found |-> start + i],
       fetch |-> IF found = 0 THEN "nodata" ELSE "ok"]

\* DES_SQLExtendedFetch, of the rows from r on.  The call fails only when its
\* single row does; then the list is not rewound.  shown: which rows of the
\* result, from 1, the application's buffers hold.
Rowset(c, q, r) ==
  LET start == Seek(c, r)
      found == Smaller(Smaller(Len(q) - r, ArraySize), Len(q) - start)
      failed == found = 1 /\ start \in 0 .. (Len(q) - 1) /\ q[start + 1] \in Bad
  IN  [current_row |-> r,
       rows_found_in_set |-> found,
       cursor_row |-> c.cursor_row,
       data_cursor |-> IF failed THEN start + found ELSE start,
       end_of_set |-> IF failed \/ r = Len(q) THEN c.end_of_set ELSE start + found,
       shown |-> [i \in 1 .. found |-> start + i],
       fetch |-> IF failed THEN "error" ELSE IF found = 0 THEN "nodata" ELSE "ok"]

FetchedBeyond(c, q, kind, irow) ==
  LET r == Target(c, Len(q), kind, irow)
  IN  IF r < 0 THEN BeforeFirst(c) ELSE Rowset(c, q, r)

Fetched(c, q, kind, irow) ==
  LET r == Target(c, Len(q), kind, irow)
  IN  IF r < 0 THEN BeforeFirst(c) ELSE Rowset(c, q, Smaller(r, Len(q)))

\* SQLFetch, SQLFetchScroll, SQLExtendedFetch.
Fetch(s) ==
  /\ pc[s] = "idle"
  /\ \E kind \in Moves[s], irow \in Offsets :
       /\ Target(stmt[s], Len(result[s]), kind, irow) >= 0
       /\ stmt' = [stmt EXCEPT ![s] = Fetched(stmt[s], result[s], kind, irow)]
  /\ UNCHANGED <<table, pc, result, rows, counted, overtaken, selects>>

\* Of what compute_cur_row throws SQLSetPos makes a return code; nothing above a
\* fetch catches it, and the application ends, whatever its statements were at.
\* The table stays, and an application started again has new handles.
FetchUncaught(s) ==
  /\ pc[s] = "idle"
  /\ \E kind \in Moves[s], irow \in Offsets :
       Target(stmt[s], Len(result[s]), kind, irow) < 0
  /\ \E lost \in SUBSET Statements :
       /\ s \in lost
       /\ pc' = [t \in Statements |-> IF t \in lost THEN "closed" ELSE pc[t]]
       /\ result' = [t \in Statements |-> IF t \in lost THEN <<>> ELSE result[t]]
       /\ stmt' = [t \in Statements |-> IF t \in lost THEN Fresh ELSE stmt[t]]
       /\ rows' = [t \in Statements |-> IF t \in lost THEN Nowhere ELSE rows[t]]
       /\ counted' = [t \in Statements |-> IF t \in lost THEN NoValue ELSE counted[t]]
       /\ overtaken' = [t \in Statements |-> t \notin lost /\ overtaken[t]]
  /\ UNCHANGED <<table, selects>>

-----------------------------------------------------------------------------
(* SQLSetPos.  An application addresses the rows a successful fetch gave it. *)

Addressable(s) == pc[s] = "idle" /\ stmt[s].fetch = "ok"
Irows(s) == 0 .. stmt[s].rows_found_in_set

\* set_current_cursor_data: goes there unless SQLSetPos last went there.
RowPos(c, irow) == IF irow = 0 THEN c.current_row ELSE c.current_row + irow - 1
GoTo(c, row) == [c EXCEPT !.cursor_row = row, !.data_cursor = row]
MoveTo(c, irow) ==
  IF c.cursor_row = RowPos(c, irow) THEN c ELSE GoTo(c, RowPos(c, irow))

\* append_all_fields_std: the row of data_cursor, in the WHERE clause.
Where(c, q) == q[c.data_cursor + 1]

\* A slip: fetch_row has gone on to the next node, and stays there.
PositionGoneOn(s) ==
  /\ Addressable(s)
  /\ \E irow \in Irows(s) \ {0} :
       LET p == RowPos(stmt[s], irow)
           next == Smaller(p + 1, Len(result[s]) - 1)
       IN  stmt' = [stmt EXCEPT ![s].cursor_row = p, ![s].data_cursor = next]
  /\ UNCHANGED <<table, pc, result, rows, counted, overtaken, selects>>

\* SQL_POSITION reads the row for SQLGetData and seeks back to it.
Position(s) ==
  /\ Addressable(s)
  /\ \E irow \in Irows(s) \ {0} :
       stmt' = [stmt EXCEPT ![s] = GoTo(stmt[s], RowPos(stmt[s], irow))]
  /\ UNCHANGED <<table, pc, result, rows, counted, overtaken, selects>>

\* SQL_REFRESH fetches again, from row irow of the rowset.
Refresh(s) ==
  /\ Addressable(s) /\ "relative" \in Moves[s]
  /\ \E irow \in 0 .. Len(result[s]) :
       stmt' = [stmt EXCEPT ![s] = Fetched(stmt[s], result[s], "relative", irow - 1)]
  /\ UNCHANGED <<table, pc, result, rows, counted, overtaken, selects>>

\* What a write of s to the table means to the others.
Overtakes(s) ==
  overtaken' = [t \in Statements |-> overtaken[t] \/ (t # s /\ pc[t] = "delete")]

Span(s, irow) == IF irow = 0 THEN [pos |-> 1, end |-> stmt[s].rows_found_in_set]
                 ELSE [pos |-> irow, end |-> irow]

\* execute_delete_algorithm: its first exchange counts the rows like this one.
\* SQL_SUCCEEDED(num_duplicates) holds of 0 and 1 alone: with more, or when the
\* exchange fails, it returns, and SQLSetPos reports success all the same.
ProceedsAlways(n) == n >= 0
Proceeds(n) == n \in {0, 1}

CountRows(s) ==
  /\ Addressable(s) /\ "delete" \in Writes[s]
  /\ \E irow \in Irows(s) :
       LET c == MoveTo(stmt[s], irow)
           v == Where(c, result[s])
       IN  /\ stmt' = [stmt EXCEPT ![s] = c]
           /\ \/ /\ Proceeds(table[v])
                 /\ pc' = [pc EXCEPT ![s] = "delete"]
                 /\ rows' = [rows EXCEPT ![s] = Span(s, irow)]
                 /\ counted' = [counted EXCEPT ![s] = v]
              \/ /\ ~Proceeds(table[v]) \/ Faults
                 /\ UNCHANGED <<pc, rows, counted>>
  /\ UNCHANGED <<table, result, overtaken, selects>>

Ended(s) ==
  /\ pc' = [pc EXCEPT ![s] = "idle"]
  /\ rows' = [rows EXCEPT ![s] = Nowhere]
  /\ counted' = [counted EXCEPT ![s] = NoValue]

\* After a row: the next one, or the end, also when an answer is lost.
NextRow(s) ==
  \/ /\ rows[s].pos < rows[s].end
     /\ rows' = [rows EXCEPT ![s].pos = @ + 1]
     /\ UNCHANGED <<pc, counted>>
  \/ /\ rows[s].pos = rows[s].end \/ Faults
     /\ Ended(s)

\* DES deletes every row that has the values of this one.
DeleteRow(s) ==
  /\ pc[s] = "delete"
  /\ LET c == MoveTo(stmt[s], rows[s].pos)
     IN  /\ stmt' = [stmt EXCEPT ![s] = c]
         /\ table' = [table EXCEPT ![Where(c, result[s])] = 0]
  /\ NextRow(s)
  /\ overtaken' = [t \in Statements |->
                     IF t = s THEN overtaken[s] /\ pc'[s] = "delete"
                     ELSE overtaken[t] \/ pc[t] = "delete"]
  /\ UNCHANGED <<result, selects>>

StartUpdate(s) ==
  /\ Addressable(s) /\ "update" \in Writes[s]
  /\ \E irow \in Irows(s) : rows' = [rows EXCEPT ![s] = Span(s, irow)]
  /\ pc' = [pc EXCEPT ![s] = "update"]
  /\ UNCHANGED <<table, result, stmt, counted, overtaken, selects>>

Updated(v, new) ==
  IF v = new THEN table
  ELSE [table EXCEPT ![v] = 0, ![new] = @ + table[v]]

\* setpos_update_std: SET takes the application's buffers, new is what is there.
UpdateRow(s) ==
  /\ pc[s] = "update"
  /\ LET c == MoveTo(stmt[s], rows[s].pos)
     IN  /\ stmt' = [stmt EXCEPT ![s] = c]
         /\ \E new \in Values : table' = Updated(Where(c, result[s]), new)
  /\ NextRow(s)
  /\ Overtakes(s)
  /\ UNCHANGED <<result, selects>>

\* A row of which the application ignores all columns is skipped, if others follow.
SkipRow(s) ==
  /\ pc[s] = "update"
  /\ NextRow(s)
  /\ UNCHANGED <<table, result, stmt, overtaken, selects>>

\* DELETE or UPDATE ... WHERE CURRENT OF this statement's cursor: always row 1.
CurrentOf(s) ==
  /\ Addressable(s) /\ "currentOf" \in Writes[s]
  /\ LET c == MoveTo(stmt[s], 1)
         v == Where(c, result[s])
     IN  /\ stmt' = [stmt EXCEPT ![s] = c]
         /\ \/ table' = [table EXCEPT ![v] = 0]
            \/ \E new \in Values : table' = Updated(v, new)
            \/ Faults /\ UNCHANGED table
  /\ Overtakes(s)
  /\ UNCHANGED <<pc, result, rows, counted, selects>>

\* SQL_ADD: one row, or with irow 0 every row of the application's buffers.
StartAdd(s) ==
  /\ pc[s] = "idle" /\ "add" \in Writes[s]
  /\ \E n \in {1, ArraySize} : rows' = [rows EXCEPT ![s] = [pos |-> 1, end |-> n]]
  /\ pc' = [pc EXCEPT ![s] = "add"]
  /\ UNCHANGED <<table, result, stmt, counted, overtaken, selects>>

HowMany(t) == MapThenSumSet(LAMBDA v : t[v], Values)

\* batch_insert_std: as many rows as its buffer holds go in one INSERT.
InsertRows(s) ==
  /\ pc[s] = "add"
  /\ \E n \in 1 .. (rows[s].end - rows[s].pos + 1) :
       /\ HowMany(table) + n <= MaxRows
       /\ \E new \in [1 .. n -> Values] :
            table' = [v \in Values |-> table[v] + Cardinality({i \in 1 .. n : new[i] = v})]
       /\ \/ /\ rows[s].pos + n <= rows[s].end
             /\ rows' = [rows EXCEPT ![s].pos = @ + n]
             /\ UNCHANGED <<pc, counted>>
          \/ /\ rows[s].pos + n > rows[s].end \/ Faults
             /\ Ended(s)
  /\ Overtakes(s)
  /\ UNCHANGED <<result, stmt, selects>>

\* An exchange that DES refuses, or never gets, ends the operation halfway.
\* The WHERE clause was built by then, or could not be: a column of floats.
Refused(s) ==
  /\ Faults /\ pc[s] \in {"delete", "update", "add"}
  /\ stmt' = [stmt EXCEPT ![s] = IF pc[s] = "add" THEN @ ELSE MoveTo(@, rows[s].pos)]
  /\ Ended(s)
  /\ overtaken' = [overtaken EXCEPT ![s] = FALSE]
  /\ UNCHANGED <<table, result, selects>>

-----------------------------------------------------------------------------
(* The SELECT, whose rows come in the order DES likes, and its end. *)

Arrangements ==
  {q \in BoundedSeq(Values, MaxRows) :
     \A v \in Values : Cardinality({i \in DOMAIN q : q[i] = v}) = table[v]}

Execute(s) ==
  /\ pc[s] = "closed" /\ selects < MaxSelects
  /\ selects' = selects + 1
  /\ pc' = [pc EXCEPT ![s] = "idle"]
  /\ \E q \in Arrangements : result' = [result EXCEPT ![s] = q]
  /\ UNCHANGED <<table, stmt, rows, counted, overtaken>>

\* SQLFreeStmt(SQL_CLOSE), or the reset before the next execution.
Close(s) ==
  /\ pc[s] = "idle"
  /\ pc' = [pc EXCEPT ![s] = "closed"]
  /\ result' = [result EXCEPT ![s] = <<>>]
  /\ stmt' = [stmt EXCEPT ![s] = Fresh]
  /\ UNCHANGED <<table, rows, counted, overtaken, selects>>

Next ==
  \E s \in Statements :
    \/ Execute(s) \/ Close(s) \/ Fetch(s) \/ FetchUncaught(s)
    \/ Position(s) \/ Refresh(s)
    \/ CountRows(s) \/ DeleteRow(s)
    \/ StartUpdate(s) \/ UpdateRow(s) \/ SkipRow(s)
    \/ CurrentOf(s)
    \/ StartAdd(s) \/ InsertRows(s)
    \/ Refused(s)

Spec == Init /\ [][Next]_vars

-----------------------------------------------------------------------------
(* Properties *)

Cursors == [current_row : Int, rows_found_in_set : 0 .. ArraySize, cursor_row : Int,
            data_cursor : Int, end_of_set : Int, shown : Seq(Int),
            fetch : {"none", "ok", "error", "nodata"}]

TypeOK ==
  /\ table \in [Values -> Nat] /\ selects \in 0 .. MaxSelects
  /\ pc \in [Statements -> {"closed", "idle", "delete", "update", "add"}]
  /\ result \in [Statements -> Seq(Values)]
  /\ stmt \in [Statements -> Cursors]
  /\ \A s \in Statements :
       /\ stmt[s].current_row \in -1 .. Len(result[s])
       /\ stmt[s].cursor_row \in -1 .. Len(result[s])
       /\ stmt[s].data_cursor \in Stale .. Len(result[s])
       /\ stmt[s].end_of_set \in Stale .. Len(result[s])
  /\ rows \in [Statements -> [pos : Nat, end : Nat]]
  /\ counted \in [Statements -> Values \cup {NoValue}]
  /\ overtaken \in [Statements -> BOOLEAN]

(* What the application's buffers hold is the rows of the result from      *)
(* current_row on, none twice and none left out, though a fetch enters the *)
(* list where the previous one left it and positioned operations move      *)
(* data_cursor in between (compute_cur_row, DES_SQLExtendedFetch).         *)
RowsetTrue ==
  \A s \in Statements :
    /\ stmt[s].fetch # "nodata" => stmt[s].rows_found_in_set = Len(stmt[s].shown)
    /\ \A i \in 1 .. stmt[s].rows_found_in_set : stmt[s].shown[i] = stmt[s].current_row + i

(* A positioned write that addresses a row of the rowset changes no rows   *)
(* but those that hold its values (set_current_cursor_data).               *)
AtRow(s, r) ==
  \A v \in Values : table'[v] < table[v] => v = result[s][stmt[s].current_row + r]

RightRow ==
  [][\A s \in Statements :
       /\ DeleteRow(s) \/ UpdateRow(s) => AtRow(s, rows[s].pos)
       /\ CurrentOf(s) => AtRow(s, 1)]_vars

(* Of the row a positioned delete counted (the first, when it is to delete *)
(* the rowset) it takes one copy at most, unless another statement wrote   *)
(* between the two exchanges: duplicates survive (execute_delete_algorithm).*)
OneCopyOnly ==
  [][\A s \in Statements :
       DeleteRow(s) /\ ~overtaken[s] => table[counted[s]] <= table'[counted[s]] + 1]_vars
=============================================================================
