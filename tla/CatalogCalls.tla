---------------------------- MODULE CatalogCalls ----------------------------
(***************************************************************************)
(* The calls that depend on DES's current database (driver/catalog.cc with *)
(* the result tables of results.cc, options.cc, info.cc, execute.cc).  DES *)
(* has one current database for all its connections.  SQLColumns,          *)
(* SQLStatistics and SQLSpecialColumns switch it to the one they are asked *)
(* about and switch it back, in several exchanges under the query mutex;   *)
(* statements and the SQL_ATTR_CURRENT_CATALOG attribute use or set it.    *)
(*                                                                         *)
(* An exchange (send_query_and_read) is one step: the query is executed,   *)
(* and the call reads its answer, none, or another query's.  QueryChannel  *)
(* shows when that is so; DES executes queries in the order they are sent, *)
(* so an answer that comes too late changes what is read, never what the   *)
(* next query finds.                                                       *)
(* A suffixed operator is a plausible slip, used by the checking runs.     *)
(***************************************************************************)
EXTENDS Naturals, FiniteSets

CONSTANTS
  Clients,     \* connections of one DES process, one statement handle each
  Databases,   \* the databases open in DES
  Des,         \* its default database, "$des"
  Unknown,     \* a name that is none of them, a search pattern for instance
  NoName,       \* the empty catalog name
  Calls,        \* the kinds of call the applications make
  AnswersMixed, \* TRUE: SQLForeignKeys, which exchanges unlocked, or a late DES may
                \* take an answer, or put another one in its place
  Crashes,      \* TRUE: a client process may die during a call
  MaxCalls      \* bound: calls in a behaviour

\* statement and useStatement are DES_do_query with a select and a /use_db.
Switching == {"columns", "statistics", "special"}
Kinds == Switching \cup {"tables", "primary", "statement", "useStatement",
                         "setCatalog", "getCatalog"}

ASSUME CatalogAssumption ==
  /\ Des \in Databases
  /\ Unknown \notin Databases
  /\ NoName \notin Databases \cup {Unknown}
  /\ Calls \subseteq Kinds
  /\ AnswersMixed \in BOOLEAN /\ Crashes \in BOOLEAN
  /\ MaxCalls \in Nat

VARIABLES
  pc,         \* where each client stands in its call
  call,       \* the kind of its latest call
  want,       \* the catalog it names; in SQLColumns's loop, the database visited
  outcome,    \* what it returned, or will
  output,     \* how its latest exchange went
  previous,   \* previous_db of the catalog function, the first line it read
  inner,      \* previous_db of build_table_SQLColumns
  todo,       \* the databases the result table has still to visit
  seen,       \* the databases shown to it by answers to its own queries
  lastOutput, \* whether last_output of the statement handle has an error message
  sem,        \* value of query_mutex
  db,         \* DES's current database
  chosen,     \* history: the database the applications last chose
  misled,     \* history: since then a call took another answer for /current_db's
  calls       \* calls so far

stack == <<call, want, previous, inner, todo>>
vars == <<pc, stack, outcome, output, seen, lastOutput, sem, db, chosen, misled, calls>>

Names == Databases \cup {Unknown, NoName}

\* What a line of another query's answer may name.
Lines == Databases \cup {Unknown}

\* With the mutex: first the calls of one exchange, then the switching ones.
Away == {"switch", "shows", "schema", "innerCurrent", "innerSwitch", "keys",
         "select", "innerBack", "check", "back"}
Holders == {"current", "run", "choose", "peek", "primary", "tables", "post"} \cup Away

\* How an exchange may go, for the call that reads its output.
Outputs == {"ok", "refused", "lost", "empty", "foreign", "foreignError"}

TypeOK ==
  /\ pc \in [Clients -> Holders \cup {"idle", "wait", "dead"}]
  /\ call \in [Clients -> Kinds]
  /\ want \in [Clients -> Names]
  /\ outcome \in [Clients -> {"success", "error"}]
  /\ output \in [Clients -> Outputs]
  /\ previous \in [Clients -> Lines]
  /\ inner \in [Clients -> Lines]
  /\ todo \in [Clients -> SUBSET Lines]
  /\ seen \in [Clients -> SUBSET Databases]
  /\ lastOutput \in [Clients -> {"plain", "error"}]
  /\ sem \in Nat
  /\ db \in Databases
  /\ chosen \in Databases
  /\ misled \in BOOLEAN
  /\ calls \in Nat

Init ==
  /\ pc = [c \in Clients |-> "idle"]
  /\ call = [c \in Clients |-> "statement"]
  /\ want = [c \in Clients |-> NoName]
  /\ outcome = [c \in Clients |-> "success"]
  /\ output = [c \in Clients |-> "ok"]
  /\ previous = [c \in Clients |-> Des]
  /\ inner = [c \in Clients |-> Des]
  /\ todo = [c \in Clients |-> {}]
  /\ seen = [c \in Clients |-> {}]
  /\ lastOutput = [c \in Clients |-> "plain"]
  /\ sem = 1
  /\ db = Des
  /\ chosen = Des
  /\ misled = FALSE
  /\ calls = 0

-----------------------------------------------------------------------------
Goto(c, from, to) == pc[c] = from /\ pc' = [pc EXCEPT ![c] = to]
Result(c, r) == outcome' = [outcome EXCEPT ![c] = r]
Reply(c, r) == output' = [output EXCEPT ![c] = r]

\* What may come of an exchange DES answers with r.  A read() that finds the
\* answer gone fails ("lost"), one that never sees it gives an empty output, and
\* one that finds another query's takes that: an error message, or anything else.
Replies(r) ==
  {r} \cup (IF AnswersMixed THEN {"lost", "empty", "foreign", "foreignError"} ELSE {})

Foreign(r) == r \in {"foreign", "foreignError"}

UseDbUnknown(name) == name

\* /use_db name: "Database already in use" is as good as success.
UseDb(name) == IF name \in Databases THEN name ELSE db
UseAnswer(name) == IF name \in Databases THEN "ok" ELSE "refused"

\* filter_candidates of /show_dbs: the sets of databases a name may stand for.
Matching(name) ==
  CASE name = NoName -> {Databases} [] name \in Databases -> {{name}}
    [] OTHER -> SUBSET Databases

\* Of the databases shown by an answer to /show_dbs, those that match.
Listed(name, r) == IF Foreign(r) THEN SUBSET Lines ELSE Matching(name)

\* check_and_set_errors, and a failed send_query_and_read.
Fails(r) == r \in {"refused", "lost", "foreignError"}
Verdict(r) == IF Fails(r) THEN "error" ELSE "success"

Keep(c, text) ==
  lastOutput' = [lastOutput EXCEPT ![c] = IF Fails(text) THEN "error" ELSE "plain"]

\* The locals of a call end with it.
Forget(c) ==
  /\ call' = [call EXCEPT ![c] = "statement"]
  /\ want' = [want EXCEPT ![c] = NoName]
  /\ previous' = [previous EXCEPT ![c] = Des]
  /\ inner' = [inner EXCEPT ![c] = Des]
  /\ todo' = [todo EXCEPT ![c] = {}]
  /\ Reply(c, "ok")

\* Entering a call.  SQLSpecialColumns and SQLPrimaryKeys refuse any catalog but
\* $des at once; statement and getCatalog name none.
Begin(c) ==
  /\ pc[c] = "idle" /\ calls < MaxCalls
  /\ \E k \in Calls, name \in Names :
       /\ k \in {"statement", "getCatalog"} => name = NoName
       /\ IF k \in {"special", "primary"} /\ name \notin {Des, NoName}
            THEN Result(c, "error") /\ UNCHANGED <<pc, call, want>>
            ELSE /\ Result(c, "success")
                 /\ pc' = [pc EXCEPT ![c] = "wait"]
                 /\ call' = [call EXCEPT ![c] = k]
                 /\ want' = [want EXCEPT ![c] = name]
  /\ calls' = calls + 1
  /\ seen' = [seen EXCEPT ![c] = {}]
  /\ UNCHANGED <<output, previous, inner, todo, lastOutput, sem, db, chosen, misled>>

\* get_query_mutex, and where each call goes from there.
FirstPlace(k) ==
  CASE k \in Switching -> "current" [] k = "tables" -> "tables"
    [] k = "primary" -> "primary" [] k = "statement" -> "run"
    [] k = "getCatalog" -> "peek" [] OTHER -> "choose"

TakeMutexUnguarded(c) ==
  /\ Goto(c, "wait", FirstPlace(call[c]))
  /\ sem' = IF sem > 0 THEN sem - 1 ELSE 0
  /\ UNCHANGED <<stack, outcome, output, seen, lastOutput, db, chosen, misled, calls>>

TakeMutex(c) ==
  /\ sem > 0
  /\ Goto(c, "wait", FirstPlace(call[c]))
  /\ sem' = sem - 1
  /\ UNCHANGED <<stack, outcome, output, seen, lastOutput, db, chosen, misled, calls>>

MutexTimeout(c) ==
  /\ sem = 0
  /\ Goto(c, "wait", "idle")
  /\ Result(c, "error")
  /\ Forget(c)
  /\ UNCHANGED <<seen, lastOutput, sem, db, chosen, misled, calls>>

-----------------------------------------------------------------------------
(* Calls of one exchange.  getLines("") throws and the process dies; so it *)
(* may of parsing the lines of an answer to something else.                *)

\* Where a call goes that parses its output.
Parsed(r, to) == IF r = "empty" THEN {"dead"} ELSE IF Foreign(r) THEN {to, "dead"} ELSE {to}

\* DES_do_query of a select: what read_DES_output reported is overwritten by the
\* result of build_results, which parses the output.
Run(c) ==
  \E r \in Replies("ok") \cup {"refused"} :
    LET text == IF r = "lost" THEN "empty" ELSE r IN
    /\ \E to \in Parsed(text, "post") : Goto(c, "run", to)
    /\ Keep(c, text)
    /\ seen' = [seen EXCEPT ![c] = IF r = "ok" THEN {db} ELSE {}]
    /\ Result(c, Verdict(text))
    /\ Reply(c, r)
    /\ UNCHANGED <<stack, sem, db, chosen, misled, calls>>

\* SetConnectAttr of SQL_ATTR_CURRENT_CATALOG, and a /use_db statement.
Choose(c) ==
  \E r \in Replies(UseAnswer(want[c])) :
    LET text == IF call[c] = "useStatement" /\ r = "lost" THEN "empty" ELSE r IN
    /\ Goto(c, "choose", "post")
    /\ db' = UseDb(want[c])
    /\ chosen' = IF want[c] \in Databases THEN want[c] ELSE chosen
    /\ misled' = (misled /\ want[c] \notin Databases)
    /\ IF call[c] = "useStatement" THEN Keep(c, text) ELSE UNCHANGED lastOutput
    /\ Result(c, Verdict(text))
    /\ Reply(c, r)
    /\ UNCHANGED <<stack, seen, sem, calls>>

\* /current_db of GetConnectAttr and SQLGetInfo; parsed after the release, and
\* never checked.
Peek(c) ==
  \E r \in Replies("ok") :
    /\ Goto(c, "peek", "post")
    /\ seen' = [seen EXCEPT ![c] = IF r = "ok" THEN {db} ELSE {}]
    /\ Result(c, IF r = "lost" THEN "error" ELSE "success")
    /\ Reply(c, r)
    /\ UNCHANGED <<stack, lastOutput, sem, db, chosen, misled, calls>>

\* DES_SQLPrimaryKeys: /dbschema $des:table.
Primary(c) ==
  \E r \in Replies("ok") \cup {"refused"} :
    /\ \E to \in Parsed(r, "post") : Goto(c, "primary", to)
    /\ seen' = [seen EXCEPT ![c] = IF r = "ok" THEN {Des} ELSE {}]
    /\ IF Fails(r) THEN UNCHANGED lastOutput ELSE Keep(c, r)
    /\ Result(c, Verdict(r))
    /\ Reply(c, r)
    /\ UNCHANGED <<stack, sem, db, chosen, misled, calls>>

\* DES_SQLTables: /show_dbs and a /dbschema for each database that matches; what
\* the result table met and what build_results says is overwritten.
Tables(c) ==
  \E r \in Replies("ok") : \E D \in Listed(want[c], r) : \E S \in SUBSET (D \cap Databases) :
    /\ \E to \in Parsed(r, "post") : Goto(c, "tables", to)
    /\ r = "ok" => S = D
    /\ seen' = [seen EXCEPT ![c] = S]
    /\ Result(c, "success")
    /\ Reply(c, r)
    /\ UNCHANGED <<stack, lastOutput, sem, db, chosen, misled, calls>>

-----------------------------------------------------------------------------
(* SQLColumns, SQLStatistics, SQLSpecialColumns.                           *)

\* The database a switching call switches to.
Wanted(c) == IF want[c] = NoName THEN Des ELSE want[c]

\* previous_db is the first line of what was read, which nothing checks.
AskCurrent(c) ==
  \E r \in Replies("ok") : \E line \in IF Foreign(r) THEN Lines ELSE {db} :
    /\ Goto(c, "current", CASE r = "lost" -> "post" [] r = "empty" -> "dead" [] OTHER -> "switch")
    /\ previous' = [previous EXCEPT ![c] = line]
    /\ misled' = (misled \/ line # db)
    /\ Result(c, IF r = "lost" THEN "error" ELSE "success")
    /\ Reply(c, r)
    /\ UNCHANGED <<call, want, inner, todo, seen, lastOutput, sem, db, chosen, calls>>

\* SQLSpecialColumns looks at a failed read only.
SwitchFails(c, r) == IF call[c] = "special" THEN r = "lost" ELSE Fails(r)

SwitchNoRevert(c) ==
  \E r \in Replies(UseAnswer(Wanted(c))) :
    /\ Goto(c, "switch", IF SwitchFails(c, r) THEN "post"
                         ELSE CASE call[c] = "columns" -> "shows"
                                [] call[c] = "special" -> "keys"
                                [] OTHER -> "select")
    /\ db' = UseDb(Wanted(c))
    /\ Result(c, IF SwitchFails(c, r) THEN "error" ELSE "success")
    /\ Reply(c, r)
    /\ UNCHANGED <<stack, seen, lastOutput, sem, chosen, misled, calls>>

Switch(c) ==
  \E r \in Replies(UseAnswer(Wanted(c))) :
    /\ Goto(c, "switch", IF SwitchFails(c, r) THEN "back"
                         ELSE CASE call[c] = "columns" -> "shows"
                                [] call[c] = "special" -> "keys"
                                [] OTHER -> "select")
    /\ db' = UseDb(Wanted(c))
    /\ Result(c, IF SwitchFails(c, r) THEN "error" ELSE "success")
    /\ Reply(c, r)
    /\ UNCHANGED <<stack, seen, lastOutput, sem, chosen, misled, calls>>

\* An exchange of the result table: a failed read ends the table, silently.
Build(c, from, to, r) ==
  /\ \E place \in IF r = "lost" THEN {"check"} ELSE Parsed(r, to) : Goto(c, from, place)
  /\ Reply(c, r)

\* /show_dbs, then those that match the catalog name.
Shows(c) ==
  /\ \E r \in Replies("ok") :
       /\ Build(c, "shows", "schema", r)
       /\ \E D \in Listed(want[c], r) : todo' = [todo EXCEPT ![c] = D]
  /\ UNCHANGED <<call, want, previous, inner, outcome, seen, lastOutput, sem, db, chosen, misled, calls>>

\* /dbschema of the next database, which has a table that matches or none.
Schema(c) ==
  \/ /\ todo[c] = {}
     /\ Goto(c, "schema", "check")
     /\ UNCHANGED <<todo, output>>
     /\ UNCHANGED <<call, want, previous, inner, outcome, seen, lastOutput, sem, db, chosen, misled, calls>>
  \/ \E d \in todo[c] : \E r \in Replies(UseAnswer(d)) :
       /\ \/ /\ r # "refused"
             /\ Build(c, "schema", "innerCurrent", r)
             /\ want' = [want EXCEPT ![c] = d]
          \/ Build(c, "schema", "schema", r) /\ UNCHANGED want
       /\ todo' = [todo EXCEPT ![c] = @ \ {d}]
       /\ UNCHANGED <<call, previous, inner, outcome, seen, lastOutput, sem, db, chosen, misled, calls>>

InnerCurrent(c) ==
  /\ \E r \in Replies("ok") :
       /\ Build(c, "innerCurrent", "innerSwitch", r)
       /\ \E line \in IF Foreign(r) THEN Lines ELSE {db} : inner' = [inner EXCEPT ![c] = line]
  /\ UNCHANGED <<call, want, previous, todo, outcome, seen, lastOutput, sem, db, chosen, misled, calls>>

InnerSwitchForgotten(c) ==
  /\ \E r \in Replies(UseAnswer(want[c])) :
       /\ Goto(c, "innerSwitch", IF r = "lost" THEN "check" ELSE "select")
       /\ Reply(c, r)
  /\ UNCHANGED <<db, stack, outcome, seen, lastOutput, sem, chosen, misled, calls>>

\* Only a failed read is looked at.
InnerSwitch(c) ==
  /\ \E r \in Replies(UseAnswer(want[c])) :
       /\ Goto(c, "innerSwitch", IF r = "lost" THEN "check" ELSE "select")
       /\ Reply(c, r)
  /\ db' = UseDb(want[c])
  /\ UNCHANGED <<stack, outcome, seen, lastOutput, sem, chosen, misled, calls>>

\* SQLSpecialColumns: /dbschema of the table.
Keys(c) ==
  /\ \E r \in Replies("ok") \cup {"refused"} : Build(c, "keys", "select", r)
  /\ UNCHANGED <<stack, outcome, seen, lastOutput, sem, db, chosen, misled, calls>>

\* select * from the table; SQLColumns switches back before it parses.
Select(c) ==
  \E r \in Replies("ok") \cup {"refused"} :
    /\ IF call[c] = "columns"
         THEN Goto(c, "select", IF r = "lost" THEN "check" ELSE "innerBack") /\ Reply(c, r)
         ELSE Build(c, "select", "check", r)
    /\ seen' = [seen EXCEPT ![c] = IF r = "ok" THEN @ \cup {db} ELSE @]
    /\ UNCHANGED <<stack, outcome, lastOutput, sem, db, chosen, misled, calls>>

InnerBack(c) ==
  \E r \in Replies(UseAnswer(inner[c])) :
    /\ \E to \in IF r = "lost" THEN {"check"} ELSE Parsed(output[c], "schema") :
         Goto(c, "innerBack", to)
    /\ db' = UseDb(inner[c])
    /\ Reply(c, r)
    /\ UNCHANGED <<stack, outcome, seen, lastOutput, sem, chosen, misled, calls>>

CheckSkipsBack(c) ==
  /\ Goto(c, "check", IF lastOutput[c] = "error" THEN "post" ELSE "back")
  /\ Result(c, IF lastOutput[c] = "error" THEN "error" ELSE "success")
  /\ inner' = [inner EXCEPT ![c] = Des]
  /\ todo' = [todo EXCEPT ![c] = {}]
  /\ UNCHANGED <<call, want, previous, output, seen, lastOutput, sem, db, chosen, misled, calls>>

\* The table is built, its locals gone.  build_results: check_and_set_errors of
\* last_output, whoever wrote it.
Check(c) ==
  /\ Goto(c, "check", "back")
  /\ Result(c, IF lastOutput[c] = "error" THEN "error" ELSE "success")
  /\ inner' = [inner EXCEPT ![c] = Des]
  /\ todo' = [todo EXCEPT ![c] = {}]
  /\ UNCHANGED <<call, want, previous, output, seen, lastOutput, sem, db, chosen, misled, calls>>

BackToDefault(c) ==
  \E r \in Replies("ok") :
    /\ Goto(c, "back", "post")
    /\ db' = Des
    /\ Result(c, IF r = "lost" THEN "error" ELSE outcome[c])
    /\ Reply(c, r)
    /\ UNCHANGED <<stack, seen, lastOutput, sem, chosen, misled, calls>>

\* /use_db previous_db.  What DES says to it is not looked at; a failed read counts
\* when nothing failed before.
Back(c) ==
  \E r \in Replies(UseAnswer(previous[c])) :
    /\ Goto(c, "back", "post")
    /\ db' = UseDb(previous[c])
    /\ Result(c, IF r = "lost" THEN "error" ELSE outcome[c])
    /\ Reply(c, r)
    /\ UNCHANGED <<stack, seen, lastOutput, sem, chosen, misled, calls>>

\* release_query_mutex.  An empty /current_db answer is parsed after it, if it was
\* not asked for SQL_ATTR_CONNECTION_DEAD.
Post(c) ==
  /\ \/ Goto(c, "post", "idle")
     \/ call[c] = "getCatalog" /\ output[c] = "empty" /\ Goto(c, "post", "dead")
  /\ sem' = sem + 1
  /\ Forget(c)
  /\ UNCHANGED <<outcome, seen, lastOutput, db, chosen, misled, calls>>

Crash(c) ==
  /\ Crashes /\ pc[c] \notin {"idle", "dead"}
  /\ pc' = [pc EXCEPT ![c] = "dead"]
  /\ Forget(c)
  /\ UNCHANGED <<outcome, seen, lastOutput, sem, db, chosen, misled, calls>>

-----------------------------------------------------------------------------
CallStep(c) ==
  \/ TakeMutex(c) \/ MutexTimeout(c) \/ Run(c) \/ Choose(c) \/ Peek(c) \/ Primary(c)
  \/ Tables(c) \/ AskCurrent(c) \/ Switch(c) \/ Shows(c) \/ Schema(c) \/ InnerCurrent(c)
  \/ InnerSwitch(c) \/ Keys(c) \/ Select(c) \/ InnerBack(c) \/ Check(c) \/ Back(c) \/ Post(c)

Next == \E c \in Clients : CallStep(c) \/ Begin(c) \/ Crash(c)

Spec == Init /\ [][Next]_vars

-----------------------------------------------------------------------------
(* Properties                                                              *)

\* Whoever finds the query mutex free finds DES in the database an application
\* last chose: every path of a catalog call undoes its switch before the release,
\* whatever becomes of any answer but one.  That one is /current_db's, from which a
\* catalog call learns where to return to.
DatabaseKept == sem > 0 /\ ~misled => db = chosen

\* A statement runs in that database, never in one a catalog call of another
\* connection has switched to, even when that connection died in the middle.
StatementsAtHome ==
  \A c \in Clients : pc[c] \in {"run", "peek"} /\ ~misled => db = chosen

\* catalog.cc says of its last /use_db that it reverts the database change: with
\* the mutex free, whatever answers were mixed, DES would be where an application
\* put it.
ChangeReverted == sem > 0 => db = chosen

\* A catalog call reads its tables in the database it reports them for.
RightDatabase ==
  \A c \in Clients : pc[c] = "select" /\ Wanted(c) \in Databases => db = Wanted(c)

\* A switching call whose exchanges all went well returns no error.
OnlyOwnErrors ==
  \A c \in Clients : pc[c] = "back" /\ outcome[c] = "error" => Fails(output[c])

=============================================================================
