------------------------- MODULE StatementExecution -------------------------
(***************************************************************************)
(* The life of one statement handle (driver/execute.cc, my_stmt.cc,        *)
(* prepare.cc, results.cc, handle.cc): preparing, binding parameters,      *)
(* asking for the columns of the result, which executes a query with       *)
(* stand-ins for the parameters nobody bound, and executing over an array  *)
(* of parameter sets, one turn of DES_SQLExecute's loop to a step.         *)
(*                                                                         *)
(* A text is the set of the pieces insert_params put in it, one for each   *)
(* parameter set.  The parameter status array is always bound.  No handler *)
(* of the driver catches what DES_SQLExecute throws: it ends the process.  *)
(* A suffixed operator is a plausible slip, used by the checking runs.     *)
(***************************************************************************)
EXTENDS Naturals, FiniteSets

CONSTANTS
  MaxParams, \* bound: parameter markers of a statement
  MaxSets,   \* bound: parameter sets, SQL_ATTR_PARAMSET_SIZE
  MaxCalls   \* bound: calls in a behaviour

ASSUME StatementAssumption ==
  MaxParams \in Nat /\ MaxSets \in Nat \ {0} /\ MaxCalls \in Nat

Params == 1 .. MaxParams
Sets == 1 .. MaxSets

\* "insert" stands for every statement that returns no rows.
Kinds == {"select", "call", "insert"}
Returning == {"select", "call"}

VARIABLES
  pc,         \* "idle", in the loop ("sets"), at its end ("end"), or "down"
  call,       \* the latest call: it executes, describes, only asks, or is another
  ret,        \* what it returned
  calls,      \* calls so far; also the number of the execution under way
  kind,       \* the statement prepared, "none" before
  params,     \* param_count: its markers
  prepared,   \* history: the call that prepared it
  state,      \* DES_STATE of the handle
  dummyState, \* dummy_state
  apd,        \* the application parameter descriptor's records
  buffer,     \* tempbuf: the text built so far
  result,     \* the call that prepared the statement the result is of, 0 for none
  size,       \* array_size of the execution
  row,        \* the parameter set it has come to
  rc,         \* the loop's rc
  allFailed,  \* all_parameters_failed
  someFailed, \* one_of_params_not_succeded
  lastError,  \* the set lastError points to, 0 for none
  status,     \* the parameter status array
  sent,       \* history: the queries DES got in the latest execution
  dummyRuns   \* history: the executions since the last close that sent stand-ins

handle == <<kind, params, prepared, state, dummyState, apd, result>>
locals == <<size, row, rc, allFailed, someFailed, lastError, status>>
vars == <<pc, call, ret, calls, handle, buffer, locals, sent, dummyRuns>>

Codes == {"success", "info", "error"}
Pieces == [exec : Nat, set : Sets, whole : BOOLEAN, bound : BOOLEAN]

TypeOK ==
  /\ pc \in {"idle", "sets", "end", "down"}
  /\ call \in {"execute", "describe", "ask", "other"}
  /\ ret \in Codes \cup {"needData", "thrown", "broken"}
  /\ calls \in Nat
  /\ kind \in Kinds \cup {"none"}
  /\ params \in 0 .. MaxParams
  /\ prepared \in Nat
  /\ state \in {"unknown", "prepared", "preExecuted", "executed"}
  /\ dummyState \in {"unknown", "prepared", "executed"}
  /\ apd \in [Params -> {"absent", "unbound", "dummy", "real", "dae"}]
  /\ buffer \in SUBSET Pieces
  /\ result \in Nat
  /\ size \in Sets
  /\ row \in 1 .. MaxSets + 1
  /\ rc \in Codes
  /\ allFailed \in BOOLEAN /\ someFailed \in BOOLEAN
  /\ lastError \in 0 .. MaxSets
  /\ status \in [Sets -> Codes \cup {"unset", "unused", "unavailable"}]
  /\ sent \in SUBSET [set : Sets, text : SUBSET Pieces, verdict : Codes]
  /\ dummyRuns \in SUBSET Nat

Init ==
  /\ pc = "idle" /\ call = "other" /\ ret = "success" /\ calls = 0
  /\ kind = "none" /\ params = 0 /\ prepared = 0
  /\ state = "unknown" /\ dummyState = "unknown"
  /\ apd = [i \in Params |-> "absent"]
  /\ buffer = {} /\ result = 0
  /\ size = 1 /\ row = 1 /\ rc = "success"
  /\ allFailed = FALSE /\ someFailed = FALSE /\ lastError = 0
  /\ status = [r \in Sets |-> "unset"]
  /\ sent = {} /\ dummyRuns = {}

-----------------------------------------------------------------------------
(* The calls on an idle handle. *)

Called(c, r) ==
  /\ pc = "idle" /\ calls < MaxCalls
  /\ calls' = calls + 1
  /\ call' = c /\ ret' = r

MarkPreparedOnce == state' = IF state = "unknown" THEN "prepared" ELSE state
MarkPrepared == state' = "prepared"

\* prepare(): records for the markers; result, buffer and dummy_state stay.
Prepare ==
  /\ Called("other", "success")
  /\ \E k \in Kinds, n \in 0 .. MaxParams :
       /\ kind' = k /\ params' = n
       /\ apd' = [i \in Params |->
                    IF i <= n /\ apd[i] = "absent" THEN "unbound" ELSE apd[i]]
  /\ prepared' = calls + 1
  /\ MarkPrepared
  /\ UNCHANGED <<pc, dummyState, result, buffer, locals, sent, dummyRuns>>

\* SQLBindParameter, to a value or to data at execution.
Bind ==
  /\ Called("other", "success")
  /\ \E i \in Params, to \in {"real", "dae"} :
       apd' = [j \in Params |->
                 IF j = i THEN to
                 ELSE IF j < i /\ apd[j] = "absent" THEN "unbound" ELSE apd[j]]
  /\ UNCHANGED <<pc, kind, params, prepared, state, dummyState, result, buffer,
                 locals, sent, dummyRuns>>

\* SQLFreeStmt(SQL_RESET_PARAMS)
ResetParams ==
  /\ Called("other", "success")
  /\ apd' = [i \in Params |-> "absent"]
  /\ buffer' = {}
  /\ UNCHANGED <<pc, kind, params, prepared, state, dummyState, result, locals,
                 sent, dummyRuns>>

\* SQLFreeStmt(SQL_CLOSE): the query stays prepared, though state forgets it.
Close ==
  /\ Called("other", "success")
  /\ state' = "unknown" /\ dummyState' = "unknown"
  /\ result' = 0 /\ buffer' = {}
  /\ dummyRuns' = {}
  /\ UNCHANGED <<pc, kind, params, prepared, apd, locals, sent>>

\* DES_SQLExecute up to its loop.
FreeBuffersButText == result' = 0 /\ UNCHANGED buffer
FreeBuffers == buffer' = {} /\ result' = 0
Start ==
  /\ FreeBuffers
  /\ \E n \in Sets :
       /\ size' = n
       /\ allFailed' = (n > 1)
  /\ row' = 1 /\ rc' = "success"
  /\ someFailed' = FALSE /\ lastError' = 0
  /\ sent' = {}
  /\ pc' = "sets"
  /\ UNCHANGED <<kind, params, prepared, status, dummyRuns>>

\* SQLExecute
Execute ==
  /\ Called("execute", "success")
  /\ kind # "none"
  /\ Start
  /\ UNCHANGED <<state, dummyState, apd>>

\* SQLExecute with nothing prepared throws.
ExecuteNothing ==
  /\ Called("ask", "thrown")
  /\ kind = "none"
  /\ pc' = "down"
  /\ UNCHANGED <<handle, buffer, locals, sent, dummyRuns>>

\* do_dummy_parambind: 'NULL' stands for each parameter not bound for real.
NeedsDummies == params > 0 /\ dummyState = "unknown"
DummyParams ==
  IF NeedsDummies
    THEN /\ dummyState' = "prepared"
         /\ apd' = [i \in Params |-> IF i <= params /\ apd[i] \in {"absent", "unbound"}
                                       THEN "dummy" ELSE apd[i]]
    ELSE UNCHANGED <<dummyState, apd>>

\* SQLNumResultCols, SQLDescribeCol and SQLColAttribute where check_result has
\* to execute the statement.
Describe ==
  /\ Called("describe", "success")
  /\ state = "prepared" /\ kind \in Returning
  /\ DummyParams
  /\ Start
  /\ UNCHANGED state

\* ... and where it need not, or refuses to.
Ask ==
  /\ Called("ask", IF state = "unknown" THEN "error" ELSE "success")
  /\ ~(state = "prepared" /\ kind \in Returning)
  /\ DummyParams
  /\ UNCHANGED <<pc, kind, params, prepared, state, result, buffer, locals, sent,
                 dummyRuns>>

-----------------------------------------------------------------------------
(* One turn of the loop of DES_SQLExecute: the set row. *)

TurnPastLast == pc = "sets" /\ row <= size + 1
Turn == pc = "sets" /\ row <= size
LastRow == row = size
Fails(code) == code = "error"

\* map_error_to_param_status
Mapped(code) == IF Fails(code) THEN "unavailable" ELSE code
ReportFirst(r, code) ==
  /\ status' = [status EXCEPT ![r] = Mapped(code)]
  /\ lastError' = IF Fails(code) /\ lastError = 0 THEN r ELSE lastError
Report(r, code) ==
  /\ status' = [status EXCEPT ![r] = Mapped(code)]
  /\ lastError' = IF Fails(code) THEN r ELSE lastError

NextSet == row' = row + 1
Advance == NextSet /\ UNCHANGED <<pc, call, ret, calls>>

\* SQL_PARAM_IGNORE
IgnoreSet ==
  /\ Turn /\ params > 0
  /\ status' = [status EXCEPT ![row] = "unused"]
  /\ Advance
  /\ UNCHANGED <<handle, buffer, size, rc, allFailed, someFailed, lastError, sent,
                 dummyRuns>>

\* Data at execution, which SQLParamData then does not support.
HasDae == \E i \in Params : apd[i] = "dae"
NeedData ==
  /\ Turn /\ params > 0 /\ HasDae
  /\ size = 1
  /\ pc' = "idle" /\ ret' = "needData"
  /\ UNCHANGED <<call, calls, handle, buffer, locals, sent, dummyRuns>>
DaeArray ==
  /\ Turn /\ params > 0 /\ HasDae
  /\ size > 1
  /\ rc' = "error" /\ lastError' = row /\ someFailed' = TRUE
  /\ status' = [r \in Sets |-> IF r > row /\ r <= size THEN "unused" ELSE status[r]]
  /\ pc' = "end"
  /\ UNCHANGED <<call, ret, calls, handle, buffer, size, row, allFailed, sent,
                 dummyRuns>>

\* insert_params.  Only in ST_DUMMY_PREPARED does it take a parameter that was
\* not really bound; a record nobody filled in then fails to convert, and one
\* removed by SQL_RESET_PARAMS is followed though it is NULL.
Refused(i) == dummyState # "prepared" /\ apd[i] # "real"
Usable(i) == ~Refused(i) /\ apd[i] \in {"real", "dummy"}
Reached(i) == \A j \in Params : j < i => Usable(j)
AllUsable == \A i \in Params : i <= params => Usable(i)
AllBound == \A i \in Params : i <= params => apd[i] = "real"
Piece(whole) == [exec |-> calls, set |-> row, whole |-> whole, bound |-> AllBound]

\* The first bad parameter leaves what went before it in the text.
SetNotInserted ==
  /\ Turn /\ params > 0 /\ ~HasDae
  /\ \E i \in 1 .. params :
       /\ Reached(i)
       /\ Usable(i) => apd[i] = "real"
       /\ apd[i] = "absent" => Refused(i)
       /\ buffer' = buffer \cup
                      (IF i = 1 /\ Refused(i) THEN {} ELSE {Piece(FALSE)})
  /\ rc' = "error"
  /\ Report(row, "error")
  /\ someFailed' = TRUE
  /\ Advance
  /\ UNCHANGED <<handle, size, allFailed, sent, dummyRuns>>
FollowNull ==
  /\ Turn /\ params > 0 /\ ~HasDae
  /\ \E i \in 1 .. params : Reached(i) /\ apd[i] = "absent" /\ ~Refused(i)
  /\ pc' = "down" /\ ret' = "broken"
  /\ UNCHANGED <<call, calls, handle, buffer, locals, sent, dummyRuns>>

Inserts ==
  /\ Turn /\ params > 0 /\ ~HasDae
  /\ AllUsable
  /\ buffer' = buffer \cup {Piece(TRUE)}

\* The sets of a select before its last: their texts wait for the last one's.
Gathers == kind = "select" /\ ~LastRow
GatherSet ==
  /\ Gathers
  /\ Inserts
  /\ \E code \in {"success", "info"} :
       /\ rc' = code
       /\ Report(row, code)
       /\ someFailed' = (someFailed \/ code = "info")
  /\ Advance
  /\ UNCHANGED <<handle, size, allFailed, sent, dummyRuns>>

\* DES_do_query: the query mutex cannot be had, or DES answers.  A select with
\* no columns, which leaves no result, one whose rows say $success, and an answer
\* to an insert that could not be read succeed; rows and counts are information.
Text == IF params > 0 THEN buffer' ELSE {Piece(TRUE)}
SendsDummies == \E p \in Text : ~p.bound
NotSent ==
  /\ rc' = "error"
  /\ UNCHANGED <<sent, dummyRuns, state, result>>
Answered ==
  \E code \in Codes :
    /\ rc' = code
    /\ sent' = sent \cup {[set |-> row, text |-> Text, verdict |-> code]}
    /\ dummyRuns' = IF SendsDummies THEN dummyRuns \cup {calls} ELSE dummyRuns
    /\ state' = "executed"
    /\ result' \in IF kind = "select" /\ code = "success" THEN {0, prepared} ELSE {prepared}
Judged ==
  /\ IF params > 0 THEN Report(row, rc') ELSE UNCHANGED <<status, lastError>>
  /\ allFailed' = (allFailed /\ rc' # "success")

\* What insert_params returns for a set that goes to DES at once.
InsertCode(code) == params = 0 => code = "success"
SendSet ==
  /\ Turn /\ ~Gathers
  /\ IF params > 0 THEN Inserts ELSE UNCHANGED buffer
  /\ NotSent \/ Answered
  /\ Judged
  /\ \E code \in {"success", "info"} :
       /\ InsertCode(code)
       /\ someFailed' = (someFailed \/ code = "info" \/ rc' # "success")
  /\ Advance
  /\ UNCHANGED <<kind, params, prepared, dummyState, apd, size>>

\* stoll and getLines throw on an answer that did not come in time.
SendBreaks ==
  /\ Turn /\ ~Gathers /\ kind \in {"select", "insert"}
  /\ IF params > 0 THEN Inserts ELSE UNCHANGED buffer
  /\ pc' = "down" /\ ret' = "broken"
  /\ UNCHANGED <<call, calls, handle, locals, sent, dummyRuns>>

SetsDone ==
  /\ pc = "sets" /\ row > size
  /\ pc' = "end"
  /\ UNCHANGED <<call, ret, calls, handle, buffer, locals, sent, dummyRuns>>

\* Behind the loop; check_result marks what it executed with success.
VerdictOfLast == IF size > 1 /\ allFailed THEN "thrown" ELSE rc
Verdict ==
  IF size > 1 /\ allFailed THEN "thrown"
  ELSE IF size > 1 /\ someFailed THEN "info" ELSE rc
DummyKept == dummyState
DummyAfter == IF dummyState = "prepared" THEN "executed" ELSE dummyState
End ==
  /\ pc = "end"
  /\ status' = [r \in Sets |-> IF r = lastError THEN "error" ELSE status[r]]
  /\ dummyState' = DummyAfter
  /\ ret' = Verdict
  /\ pc' = IF Verdict = "thrown" THEN "down" ELSE "idle"
  /\ state' = IF call = "describe" /\ Verdict = "success" THEN "preExecuted" ELSE state
  /\ UNCHANGED <<call, calls, kind, params, prepared, apd, buffer, result, size, row,
                 rc, allFailed, someFailed, lastError, sent, dummyRuns>>

LoopStep == IgnoreSet \/ NeedData \/ DaeArray \/ SetNotInserted \/ FollowNull
              \/ GatherSet \/ SendSet \/ SendBreaks \/ SetsDone \/ End
Next == Prepare \/ Bind \/ ResetParams \/ Close \/ Execute \/ ExecuteNothing
          \/ Describe \/ Ask \/ LoopStep

Spec == Init /\ [][Next]_vars

-----------------------------------------------------------------------------
(* Properties. *)

\* A loop ran to its end in the latest call.
Finished ==
  /\ pc \in {"idle", "down"} /\ call \in {"execute", "describe"}
  /\ ret \notin {"needData", "broken"}
Good(code) == code \in {"success", "info"}

\* A query is made of the values of one execution: what an earlier one, or a
\* call between, left in the handle's text buffer never reaches DES, however the
\* earlier one ended.
OwnExecution == \A q \in sent : \A p, o \in q.text : p.exec = o.exec

\* The statuses tell the truth about each set: one is good only if its values
\* were put in a text and, where the set has a query of its own, that DES did not
\* refuse it; and the one status with diagnostics is the last failure's.
OwnQuery(r) == kind # "select" \/ r = size
Inserted(r) == \E p \in buffer : p.set = r /\ p.whole
StatusesTrue ==
  Finished /\ params > 0 =>
    \A r \in 1 .. size :
      /\ Good(status[r]) <=>
           /\ Inserted(r)
           /\ OwnQuery(r) =>
                \E q \in sent : q.set = r /\ Good(q.verdict) /\ q.verdict = status[r]
      /\ status[r] = "unavailable" => \E t \in r + 1 .. size : status[t] = "error"
      /\ status[r] = "error" =>
           \A t \in r + 1 .. size : status[t] \notin {"error", "unavailable"}

\* The call's own result agrees with them: success hides no failed set, the call
\* throws when DES refused every query of several sets and when none was sent, and
\* never when it said $success to one.  Batches DES answered with information only
\* are the matter of OnlyFailuresThrow.
ReturnTrue ==
  Finished =>
    /\ ret = "success" /\ params > 0 =>
         \A r \in 1 .. size : status[r] \notin {"error", "unavailable"}
    /\ size > 1 /\ (\A q \in sent : q.verdict = "error") => ret = "thrown"
    /\ size > 1 /\ (\E q \in sent : q.verdict = "success") => ret # "thrown"

\* A batch throws "if all parameters failed"; when DES accepted some set, be it with
\* information, the whole operation returns that.
OnlyFailuresThrow ==
  Finished /\ ret = "thrown" => \A q \in sent : q.verdict = "error"

\* Between two closes of the handle at most one execution sends stand-ins for
\* parameters, although the call that made them does not take them back.
DummySentOnce == Cardinality(dummyRuns) <= 1

\* Asked about the prepared statement, the driver never answers with the result of
\* one that was prepared on the handle before it, unless the statement returns no
\* rows and has not been executed: check_result then looks no further than state.
NeverOthersResult ==
  pc = "idle" /\ call \in {"describe", "ask"} /\ ret = "success"
    => result \in {0, prepared} \/ (kind = "insert" /\ state = "prepared")

\* SQLNumResultCols and its like tell of the result set of the prepared statement;
\* where it has none, there is none to tell of.
NothingOfOthers ==
  pc = "idle" /\ call \in {"describe", "ask"} /\ ret = "success" => result \in {0, prepared}

\* The application's own executions send the values it bound.  The comments of
\* do_dummy_parambind have the stand-ins removed "once everything is done".
OnlyBoundSent == call = "execute" => \A q \in sent : \A p \in q.text : p.bound
=============================================================================
