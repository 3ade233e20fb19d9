# DESODBC: a verification development in TLA+

DESODBC is the ODBC driver of the Datalog Educational System (DES). DES is an
interactive program with one console; the driver starts it as a child process,
writes queries to its standard input and reads answers from its standard output.
All connections to one DES working directory, of whatever processes of the
machine, share *one* DES process. What is hard in this driver, and what this
development is about, is that sharing: who starts DES, who stops it, how queries of
several clients travel through one pair of pipes, what the clients see of the one
current database, and what a driver without server-side cursors writes when it is
asked to change "the row I am on".

Paths below are relative to `src/`. Line numbers are of the commit the models were
written from.

## 1. Inventory

| Part | Code | State | Operations | Modelled |
|---|---|---|---|---|
| Connection lifecycle (Unix) | `driver/connect.cc`, `driver/handle.cc` | System V segment (`n_clients`, `des_process_created`, `exec_hash_int`, two semaphores), the key it is found by, two FIFO names, the DES process, the descriptors of a `DBC` | `connect`, `close` | `DesSession` |
| Query channel (Unix) | `driver/execute.cc`, its callers in `cursor.cc`, `catalog.cc`, `options.cc`, `info.cc` | `query_mutex`, the bytes in both FIFOs, what DES is doing | `DES_do_query`, `send_query_and_get_results`, `send_select_count`, positioned updates, bulk inserts, `DES_SQLForeignKeys`, reading the banner | `QueryChannel` |
| Catalog functions and current database | `driver/catalog.cc`, `results.cc`, `options.cc`, `info.cc`, `execute.cc` | DES's current database, shared by all clients; `last_output` of a statement | `SQLColumns`, `SQLStatistics`, `SQLSpecialColumns`, `SQLTables`, `SQLPrimaryKeys`, the current catalog attribute, `/use_db` statements | `CatalogCalls` |
| Handle sharing (Windows) | `driver/connect.cc:478-730`, `1090-1310`, `driver/handle.cc:160-222` | client table, three events, two mutexes, a shared record of handles | `connect`, `get_DES_process_pipes`, `sharePipes`, `close` | `HandleSharing` |
| Positioned updates, deletes, bulk inserts | `driver/cursor.cc`, `execute.cc` | rows of the table, cursors of a statement | `SQLSetPos`, `SQLBulkOperations(SQL_ADD)`, `WHERE CURRENT OF`, the duplicates algorithm | `PositionedRows` |
| Statement execution | `driver/execute.cc`, `my_stmt.cc`, `prepare.cc`, `results.cc`, `handle.cc` | `state` and `dummy_state` of a statement, parameter records, text buffer, parameter statuses, result | prepare, bind, `SQLExecute` over parameter sets, `SQLNumResultCols` and its like, `SQLFreeStmt` | `StatementExecution` |
| Fetching | `driver/results.cc`, `my_prepared_stmt.cc`, `my_stmt.cc` | `current_row`, `data_cursor`, `end_of_set`, rowset | `SQLFetch`, `SQLFetchScroll`, `SQLExtendedFetch`, `SQL_REFRESH` | `PositionedRows` |
| Result tables | `driver/results.cc` | columns and rows | building a table from TAPI output | as "throws on a foreign output" |
| Handles and descriptors | `driver/handle.cc`, `desc.cc` | lists of handles | allocate, free, copy | no, see 6 |
| Diagnostics, options, information, transactions | `driver/error.cc`, `options.cc`, `info.cc`, `transact.cc` | attributes and records of one handle | get, set | not modelled: data of one caller |
| Conversions, query parsing | `driver/utility.cc`, `parse.cc`, `ansi.cc`, `unicode.cc` | none | pure functions over text | not modelled |
| Installer, setup dialogs | `util`, `installer`, `setupgui` | configuration files | dialogs | not modelled |
| MySQL runtime | `mysql_strings`, `mysql_sys`, `include` | | | vendored |
| DES | external | | | as its clients see it, in every module |

How the parts interact. `SQLConnect` reaches `DBC::connect`, which finds or makes
the segment, takes the *shared-memory mutex* and either launches DES over two new
FIFOs or opens those of the running one. Every later call that needs DES goes
through `DBC::send_query_and_read`, normally between `get_query_mutex` and
`release_query_mutex`. `SQLDisconnect` reaches `DBC::close`, which counts the
client out; who brings the count to 0 sends `/q`, removes the segment and unlinks
the FIFOs. The two mutexes are POSIX semaphores *inside* the segment: a `sem_post`
asks nobody whether he holds it.

The catalog functions run several exchanges under one `get_query_mutex`. Above them
a statement keeps the rows of its `SELECT` on the client side; a fetch moves over
that list and asks DES nothing, while a positioned write builds a `WHERE` clause of
all the columns of the row and is one or more exchanges per row. On Windows, pipes
are handles of one process: a client that did not launch DES has a thread of another
client duplicate them into its process.

Behaviours that are hard:

* *Concurrency.* The creator of DES releases the shared-memory mutex in the middle
  of `connect` and again at the end; the last client releases it before it tears
  down; semaphores are initialised by whoever reads `des_process_created` as false,
  outside any lock; `DES_SQLForeignKeys` takes the query mutex after its exchange.
* *Failure.* Error returns of `connect` keep the mutex and the mapping; a client may
  die anywhere; `fork` may fail; parsing throws through C frames with the query
  mutex held.
* *Windows.* The events that carry a petition for handles are manual-reset and shared
  by all; a petitioner that waits too long removes from the client table somebody who
  may be alive; mutexes nest, and are abandoned to the next taker by who dies.
* *Parameter sets.* One execution is a loop over sets that fail each in its own way; the
  statuses and the result are put together from four flags. Asking for the columns
  executes the statement with stand-ins that only an execution takes back.
* *State that outlives its use.* `previous_db` is restored over an exchange that may
  fail; `last_output` belongs to an earlier call; `cursor_row` says where
  `data_cursor` was before the last fetch; a count of duplicates is one exchange old
  when the delete is sent.
* *Ordering and time.* An answer carries nothing that says whose it is; the end of
  an answer is guessed from the length of a `read` or from 10 s without data; mutex
  waits end after a timeout.

What makes each part correct:

* Lifecycle: one DES process at a time; nobody unlinks the FIFOs of one in use; a
  client holds the pipes a newcomer would find; the count is the number of clients;
  the last one leaves nothing behind and takes DES from nobody; executables are not
  mixed; calls return.
* Channel: one writer and reader at a time; the answer a call parses is the whole
  answer to its query; a query is executed once, and not at all when the call was
  refused; the mutex comes back; calls return.
* Current database: only a call that is asked to changes it, on every path; a catalog
  call reads in the database it reports for; a call reports only errors of its own.
* Handle sharing: a newcomer gets two handles, of its own process, of the one DES;
  the client table is never overrun; who quits DES is alone.
* Execution: DES gets the values of one execution, those the application bound; the
  statuses tell what became of each set and the result agrees with them; a description
  is the prepared statement's.
* Rows: a rowset is the rows from `current_row` on; a positioned write changes the row
  it names, one copy of it when it deletes.

`PROJECT.json` lists the hazards one by one, each at its line.

## 2. Modules

| Module | What it is |
|---|---|
| `DesSession` | `connect()` and `close()` of any number of clients against the segment, the semaphores, the FIFO names and DES |
| `MCDesSession` | instances of it for TLC |
| `DesSessionProofs` | theorems about it: its types, and the names whoever connects or closes at once |
| `SessionTurnsProofs` | theorems about it where calls do not overlap: the count, the last client, what is left |
| `QueryChannel` | queries and answers of the clients of one running DES process |
| `QueryService` | what the channel promises its callers |
| `QueryRefinement` | the mapping from the channel to the service |
| `MCQueryChannel` | instances of both for TLC |
| `QueryChannelProofs` | theorems about the channel: its types, the mutex, with a DES of any speed |
| `ChannelBurstProofs` | theorems about the channel to a DES that answers in bursts: whole answers, and the refinement of the service |
| `CatalogCalls` | the calls that ask, switch or rely on DES's current database |
| `DatabaseService` | what they promise: catalog calls only look |
| `CatalogRefinement` | the mapping from the calls to the service |
| `MCCatalogCalls` | instances of both for TLC |
| `CatalogProofs` | theorems about them, the refinement among them |
| `HandleSharing` | `connect()`, `close()` and the sharing threads of the Windows build |
| `MCHandleSharing` | instances of it for TLC |
| `SharingProofs` | theorems about it |
| `PositionedRows` | fetches, positioned writes and inserts of several statements on one table |
| `MCPositionedRows` | instances of it for TLC |
| `RowsProofs` | theorems about it |
| `StatementExecution` | one statement: prepared, bound, described, executed over parameter sets |
| `MCStatementExecution` | instances of it for TLC |
| `StatementProofs` | theorems about it |

An exchange of a query for an answer is many steps in `QueryChannel` and one step in
`CatalogCalls` and `PositionedRows`. `QueryService` says when that is right: the query
runs once and its caller gets the answer. Where the channel does not keep the promise,
the modules above it have the consequence as a fault of the exchange: an answer that is
lost, empty or another query's (`AnswersMixed`), one that is refused or lost (`Faults`).

### DesSession

A client is one `DBC` handle, `pc` its place in `connect()` or `close()`. Each access
to something another client can touch is one action: `TakeConnect` and `Unlock` are
`sem_trywait` and `sem_post`, `LoadCount` and `StoreCount` the two halves of
`n_clients += 1`, `MakeInFifo` an `mkfifo`, `UnlinkOut` an `unlink`. Runs of
statements that touch only the handle are folded into the action before them.

Segments, FIFO pairs and DES processes are numbered by the `connect()` call that
made them (`att`), since a call makes at most one of each; `key`, `inFifo` and
`outFifo` say what the System V key and the two file names lead to *now*, so a
client can hold a FIFO whose name is gone, or find a name someone else made.
`sem`, `n_clients`, `des_process_created` and `exec_hash_int` are indexed by
segment: a client of a removed segment still works on the old one.

Details that matter and are kept: a fresh segment is zeroed memory, so the mutex is
unusable until `SemInit`; `SemInit` may run twice; `EarlyRelease` and `Unlock` are
two posts of one wait; every error return of `connect()` leaves what the code leaves
(mutex, FIFOs, mapping: `leaks`); `O_NONBLOCK` opens need the name and, for writing,
a reader; `OpenTimeout`, `TimeoutConnect` and `TimeoutClose` happen only after the
attempt failed; `TestCount` may see its own store or the memory again.

Which kernel. `RemoveSegment` is `shmctl(IPC_RMID)`. The driver is built for Linux and
macOS. On macOS and the BSDs a removed segment cannot be removed again: the call
fails. Linux keeps a removed segment's identifier valid until the last mapping goes,
and a second `IPC_RMID` succeeds meanwhile. `RmidAgain` is TRUE for the latter. The
mappings that count are those of clients (`Attached`), including the ones failed
connects left, and of a child between `fork` and `exec` (`ChildMaps`). macOS also
has named semaphores in place of those in the segment; the model has the
ones of the segment throughout, and nothing proved of the names uses a semaphore.

Environment. `Crash` may kill a client at any place (its mappings and descriptors
go, its count and its semaphore stay); it is final, a restarted process being
another client. DES may fail to start, quits when told to, and may end at end of
file. A child that fails to become DES goes on as a copy of the application
(`connect.cc:399-434`); the model ends it there.

### QueryChannel

One running DES process; a query is the number of its `write`, an answer is cut into
the pieces DES writes at a stretch, each piece knowing whose it is, although no
client can see that. `Kinds` are the ways the code has of running a query; they
differ in when they take the mutex, what their parser needs, and how often each
error path releases. The actions follow `get_query_mutex`, `send_query_and_read`,
`read_DES_output_unix` (`PollData` is FIONREAD, `Read` the `read` after it, as another
reader can come between), `check_stop`, the parser and `release_query_mutex`.

`Timing` says what is known of DES: "burst", it pauses within an answer to `/process`
or `/dbschema` only and answers before the driver gives up; "slow", it may pause
anywhere for longer than `MAX_OUTPUT_WAIT_MS`. `Reply` is what the call returned,
for the refinement.

`QueryService` is the contract: a call is asked, its query is executed by DES exactly
once, and it returns the answer to that query, or it is refused and never executed.
`QueryRefinement` maps the moment DES takes a query from its input to `Execute`.

### CatalogCalls

A client is a connection with one statement handle; `pc` is its place in the call.
`TakeMutex` and `Post` are `get_query_mutex` and `release_query_mutex`, each action in
between is one `send_query_and_read` with the branch the code takes on its outcome:
an answer, an `$error` ("refused"), a failed read ("lost"), an output that stays
empty, on which `getLines` throws and the process dies, or the answer to another query
("foreign", "foreignError" when that has an `$error`), of which the parsers make anything or throw
(`Parsed`, `Listed`). `Run`, `Choose`, `Peek`,
`Primary` and `Tables` are the calls of one exchange. `AskCurrent`, `Switch`, ...,
`Check`, `Back` are `DES_SQLColumns`, `DES_SQLStatistics` and `DES_SQLSpecialColumns`:
`previous` is their `previous_db`, `Shows` to `InnerBack` the loop of
`build_table_SQLColumns`, which asks for the current database again, switches to that
of each table and back, with a `previous_db` of its own (`inner`). `Check` is
`build_results`, which judges by `last_output`.

`db` is DES's database and `chosen` a history variable: the one an application last
asked for. `previous` is the first line of whatever the call read after `/current_db`:
of another query's answer, any name, of a database or of none (`Lines`), and the
`/use_db` that is to restore it then goes there, or is refused and ignored. `misled` is
the history of that: since the last choice a call took another name for the current database's.

`AnswersMixed` says whether answers go astray. `SQLForeignKeys` exchanges unlocked and
takes or leaves answers; a DES slower than `MAX_OUTPUT_WAIT_MS` leaves its answer to the
next call. The query itself is executed in any case, before the next one.

`DatabaseService` has the database the applications see: catalog calls only look.
With `Reliable` FALSE it may lose the database (`Lose`), and then shows any one until
the next choice. `CatalogRefinement` maps `Reliable` to `~AnswersMixed` and `lost` to
`misled`: the calls that switch underneath implement it.

### HandleSharing

A client is a process with one `DBC`, `pc` its place in `connect()`,
`get_DES_process_pipes()` or `close()`, `sharer` that of its `share_pipes_thread`. What
only the holder of the shared-memory mutex reads and writes (the client table,
`des_process_created`) changes with the action that takes or gives up the mutex; the
record of the petition and the events, which the sharing threads use without it,
change step by step: `SetRequest`, `Await`, `Collect`, `Reset` on one side,
`WakeToShare`, `OpenPetitioner`, `DuplicateOut`, `DuplicateIn`, `SignalSent` on the other.

A Windows mutex is its owner, how often it was taken, and whether it was abandoned:
`ReleaseMutex` by who does not own it fails (`Released`), who takes an abandoned one
owns it though `get_mutex` reports an error, and `connect()` and
`get_DES_process_pipes()` take the same one twice. A handle is a number of one process
(`process`) for a pipe of one DES process (`des`); duplicating fails for a handle that
is not the sharer's own and for a process that is gone. `AwaitTimeout` is the wait for
`handle_sent_event` running out after `EVENT_TIMEOUT`; the petitionee is then removed from the table,
alive or not, and another one asked (`Retry`). `Slow` lets that happen although the
petitionee would answer. Objects go with the last process that has them open.

### PositionedRows

A statement has the rows of its `SELECT` (`result`) and the cursors of `stmt`:
`current_row` and `rows_found_in_set` are the rowset, `data_cursor` the list node a
fetch or a `WHERE` clause reads, `end_of_set` where the next rowset enters the list,
`cursor_row` where `SQLSetPos` last took `data_cursor`. `Target` is `compute_cur_row` for
every kind of fetch, `Rowset` is `DES_SQLExtendedFetch`, `Seek` the entry into the list,
`MoveTo` is `set_current_cursor_data`. `shown` is which rows the application's buffers
hold.

The table is a bag of values: a row is all its columns together, since that is what the
`WHERE` clause compares, and DES deletes or updates every row with those values.
`CountRows` and `DeleteRow` are the two exchanges of `execute_delete_algorithm`, with the
test of a row count by `SQL_SUCCEEDED` (`Proceeds`): the later loop that puts duplicates
back is never reached. `StartUpdate`, `UpdateRow` and `SkipRow` are
`setpos_update_std`, `InsertRows` is `batch_insert_std`, `CurrentOf` the `WHERE CURRENT OF`
statements, `Refused` an exchange that ends an operation halfway. The `SELECT`s have no
parameters. `compute_cur_row` throws when the rowset would start before the first row
(`my_prepared_stmt.cc:218-222`): `SQLSetPos` makes a return code of it (`Refresh`, with
`BeforeFirst`), the fetch functions do not catch it, and the application ends with
its statements (`FetchUncaught`). An application addresses only rows a successful fetch
gave it (`Addressable`): the code takes whatever `SQLSetPos` after a failed fetch names, too.

### StatementExecution

One statement handle of one thread: what is hard here is the order of calls and the
failure of one set among several. `Prepare`, `Bind`, `ResetParams` and `Close` are calls on
an idle handle; `Execute` is `DES_SQLExecute` up to its loop; `Describe` and `Ask` are
`SQLNumResultCols` and its like, which put stand-ins in the records of unbound parameters
(`DummyParams`), and execute the statement if it returns rows and was not executed yet.
Each further step is one turn of the loop, named for how it ends: the set is ignored
(`IgnoreSet`), needs data (`NeedData`, `DaeArray`), does not get into a text
(`SetNotInserted`), is gathered for the one query of a `SELECT` (`GatherSet`), or sends a
query (`SendSet`), where DES answers anything or the query mutex is not had. `SendBreaks`
is the parser that throws, `FollowNull` a record that `SQL_RESET_PARAMS` removed after the
stand-ins were made; both end the process. `End` is what stands behind the loop.

A text is the set of the pieces put in it, a piece saying which execution and set it is
of, whether it is whole and whether all parameters were bound: what the properties
tell apart. `sent` and `dummyRuns` are histories. `Kinds` has "select" for what is
gathered with `UNION ALL`, "call" for other statements that return rows, "insert" for the
rest. `SQLExecDirect` is `Prepare` and `Execute` with nothing between, and so among the
behaviours.

The model has what the code does also where a reader may not expect it: `Close` forgets
that a statement is prepared, which can still be executed; a `SELECT` whose last set is
ignored or fails is never sent; a statement without markers is executed as often as the
array has sets; an answer without `$success`, such as the count of inserted rows, is
"information", so a batch of inserts ends in `throw pStmt->error` (`execute.cc:1540`),
which nothing in the driver catches (`OnlyFailuresThrow` below); a prepared `INSERT` is described by the
result of the statement before it (`NothingOfOthers`); each set's query begins with the texts of the
sets before it, since `insert_params` never empties the buffer (`execute.cc:498-528`).

## 3. Runs

All instances set `CHECK_DEADLOCK FALSE`: the number of `connect()` calls, queries,
calls or `SELECT`s is bounded, and when they are used up, or everybody is connected and idle, the system
really may stop. Counts are distinct states.

| Run | Instance | Shows |
|---|---|---|
| `SessionConcurrent` | 3 clients, 3 connects, overlapping, a segment removed once only; 1.3 M states | types, `NamesInv`, `OneLiveDes`, `CurrentPipes`, `LiveFifosKept` |
| `SessionReturns` | 2 clients, 2 connects, overlapping, crashes, launches that fail, Linux; 34 k | `CallsReturn` under `FairSpec` |
| `SessionSequential` | 3 clients of 2 executables, 4 connects, no overlap, crashes, Linux; 233 k | `CountExact`, `NothingLeft`, `SameExec`, `CountNeverShort`, `NeverDetached`, `QuitOnlyAlone` |
| `ChannelBurst` | 3 clients, 4 queries, answers of up to 3 pieces, buffer of 2; 393 k | `OwnAnswer`, `ChannelClean`, `ServesEachOnce` |
| `ChannelSlow` | 3 clients, 3 queries, slow DES, crashes; 1.2 M | types, `QueryExclusive`, `NeverFuture`, `MutexReturned` |
| `ChannelReturns` | 2 clients, all eight kinds of call, banner, slow DES, crashes; 701 k | `CallsReturn` under `FairSpec` |
| `CatalogKept` | 2 clients, 2 databases and a name that is none, every kind of call, 2 calls, answers lost, empty and mixed, crashes; 543 k | types, `DatabaseKept`, `StatementsAtHome`, `RightDatabase`, `SeesChosen` |
| `CatalogStale` | the same with 3 calls, every answer its own, no crashes | `OnlyOwnErrors` violated |
| `SharingBounded` | 3 clients, 4 connects, a table of 2, failing launches, late sharers, crashes; 521 k | types, `HandlesWhole`, `TableBounded`, `SameDes`, `QuitOnlyAlone` |
| `RowsForward` | a statement that scrolls and inserts, one that reads forwards and writes; rowsets of 2, up to 3 rows, a duplicate, a value that does not convert, refused exchanges; 430 k | types, `RowsetTrue`, `RightRow`, `OneCopyOnly` |
| `StatementSets` | a statement of up to 2 parameters, arrays of up to 3 sets, 5 calls; 3.1 M | types, `OwnExecution`, `StatusesTrue`, `ReturnTrue`, `DummySentOnce`, `NeverOthersResult` |
| `StatementUnbound` | 1 parameter, 1 set, 4 calls | `OnlyBoundSent` violated |

Why the bounds are enough.

* Sessions: three clients are a creator, a joiner and one that closes or waits; with
  three the second `SemInit`, the double release, a close during a launch and a launch
  during a teardown all occur. Fewer connects than clients plus one would hide a
  reconnect after a teardown, hence 4 in the sequential run, where the state space
  allows it; the theorems of section 5 lift the bounds for the overlapping case.
* Channel: two pieces of buffer and three of answer give an answer shorter than the
  buffer, as long as it and longer; four queries give every client one and one two.
* Catalog: two clients are one away from home and one that runs into it; three calls
  are a choice of database, a call that switches and a call that finds out. With answers
  mixed, in `CatalogKept`, there are two, a choice and a switch or a switch and a call
  that finds out, which is what keeps the instance small enough to be searched whole. Two
  databases and a name that is none are the answers `/use_db` has. All invariants and the
  refinement are proved for any number.
* Sharing: a launcher, a joiner and a third that meets a full table of 2 entries, a
  fourth connect after one of them left; crashes at every step. `TableBounded` and
  `QuitOnlyAlone` are proved for any number. With a table of 3 and no faults, where a
  third client joins and shares, a search of 14 M states to depth 76 (not complete, and
  not among the runs) met no violation of the four properties.
* Rows: 3 rows with rowsets of 2 give a full rowset, a short one and an empty one, an
  absolute and a relative target on either side of both ends (offsets -2 to 3); a value
  stored twice is the least that makes a delete take too much; a second `SELECT` sees
  what the writes left. The properties are proved for any number.
* Statements: 3 sets have one before, at and after a failure, and two failures of which
  the later gets the diagnostics; 2 parameters are one that is inserted before one that
  is not; 5 calls are prepare, bind, describe or execute, one between, and an execution
  that meets what the first left. The properties are proved for any number.

`SessionSequential` assumes that no `connect()` or `close()` begins while another is
running (`Overlap` FALSE). The properties it checks are what the code counts on;
the known disagreements below show that they do not survive overlapping calls.
In `RowsForward` the statement that writes at rows fetches forwards; the known
disagreements show why.

### What the violations say

* `CatalogStale`: `build_results` ends with `check_and_set_errors(last_output)`
  (`execute.cc:388`), but `SQLColumns`, `SQLStatistics` and `SQLSpecialColumns` never write
  `last_output`, nor does the `FREE_STMT_RESET` they begin with clear it. On a handle
  whose previous statement ended in `$error` they fail with that error, although each
  of their exchanges went well.
* `StatementUnbound`: `do_dummy_parambind` leaves the handle in `ST_DUMMY_PREPARED`
  (`results.cc:987`), in which `insert_params` accepts parameters nobody bound
  (`execute.cc:485-491`); its comment has the stand-ins removed "once everything is done",
  but nothing removes them. An `INSERT` whose columns were asked for before its
  parameters were bound is not executed by the question, so its execution, instead of
  failing with 07001, inserts `NULL`s. The guard of `results.cc:1005`
  (`state != A || state != B`) is always true. `DummySentOnce` shows how far it goes: the
  first execution takes the handle out of that state.

### Other known disagreements

Eleven more places where the code does something else than its comments say. They are
not among the runs of `PROJECT.json`; each is reproduced by the instance given, with the
named property as the only one (`Crashes` FALSE, `LaunchMayFail` FALSE, `Overlap` TRUE and
`RmidAgain` TRUE; for the channel `BufferPieces` 2 and `Timing` "burst"; for the rows
`Stored` OneTwin, `Offsets` NearOffsets, `ArraySize` 2, `MaxRows` 3, `MaxSelects` 2; for
catalog calls the rest of `CatalogKept.cfg`).

* `OneLiveDes` (`handle.cc:256`), clients c1 and c2, `SameExecOf`, `MaxConnects` 5: success
  of `IPC_RMID` is taken for the right to unlink the FIFOs. Two clients of one segment,
  both counted out to 0, both get it on Linux when the segment is still mapped; the
  later one unlinks the FIFOs of the next launch, and another launch finds the names
  free. `connect.cc:180-184` promises an exclusive instance of DES.
* `QuitOnlyAlone` (`handle.cc:231`), the same with `MaxConnects` 2: the last client gives up
  the mutex before it quits DES; who joins in between is connected to a process about to
  quit. The test of `SQLDisconnect` (`test/desodbc_tests.c:700-724`) never overlaps the two.
* `SameExec` (`connect.cc:1221`), `MixedExecOf`, `MaxConnects` 2: the creator records its
  executable after its early release; a client of another executable joins, against the
  error of `connect.cc:1196`.
* `MutexReturned` (`cursor.cc:1050`), `Calls` {"rowLoop"}, `MaxPieces` 1, `MaxQueries` 2, no
  `Creator`: `setpos_update_std` and `setpos_delete_bookmark_std` return on an error of DES
  without releasing the query mutex; from then on every call times out.
* `OwnAnswer` (`connect.cc:453`), `Calls` {"select"}, `Creator` c1: the banner is read
  without the query mutex, while a client that joined may already be reading.
* `OwnAnswer` (`catalog.cc:968`), `Calls` {"select", "foreignKeys"}, no `Creator`:
  `DES_SQLForeignKeys` exchanges query and answer before it takes the mutex.
* `PipesGiven` (`connect.cc:534`), `HandleSharing` with 3 clients, `MaxConnects` 3,
  `MAX_CLIENTS` 3, `Faults` and `Slow` FALSE: nothing resets `handle_sent_event`. The first
  petition of a session waits for it; each later one finds it signaled, takes the handles
  out of the record before the sharer put them there, empties the record, and `connect()`
  reports success for a client without pipes, against `connect.cc:481-485`.
  `send_query_and_read` asks again, with the same race.
* `RightRow` (`cursor.cc:205`), `Statements` {scroller}, `Moves` BothMoves, `Writes` BothWrites,
  `Bad` {}, `Faults` FALSE: after `SQLSetPos` to row k of the result and a fetch whose rowset
  contains k again, `SQLSetPos` to it believes `data_cursor` to be there; the fetch has left
  it at the first row of the rowset, and that row is deleted instead, against
  `cursor.cc:198-202`.
* `ChangeReverted` (`catalog.cc:421`), `CatalogCalls` with `AnswersMixed` TRUE, `MaxCalls` 1:
  `SQLColumns` and its like take the first line of whatever comes back
  after `/current_db` for the database to return to (`catalog.cc:367-374`). If that is
  the answer of another query, the `/use_db` "trying to revert the database change"
  (`catalog.cc:398`) goes to a database that answer names, or is refused, which nobody looks at
  (`catalog.cc:396, 416, 421`). The mutex is released, and every connection works in a
  database nobody chose, until one chooses again. `DatabaseKept` and `AlwaysReverted` show that this is the
  only answer with that effect. Answers go astray as `OwnAnswer` above shows, and with a
  slow DES (`execute.cc:182`).
* `OnlyFailuresThrow` (`execute.cc:1504`), `MaxParams` 1, `MaxSets` 2, `MaxCalls` 3:
  `all_parameters_failed` is cleared by a query that returned exactly
  `SQL_SUCCESS` (`execute.cc:1504-1508`), which only an answer with `$success`, or none, does
  (`utility.cc:3031-3044`). Rows and counts are `SQL_SUCCESS_WITH_INFO`, so an array DES accepted
  throws, against `execute.cc:1318` ("if all parameters failed") and `execute.cc:1502-1503`
  ("we return SQL_SUCCESS_WITH_INFO as the whole operation result"). `ReturnTrue`
  is what is left: it says nothing of arrays answered with information only.
* `NothingOfOthers` (`results.cc:949`), `MaxParams` 1, `MaxSets` 1, `MaxCalls` 4:
  `prepare` keeps the result of the statement before it, and
  `check_result` has nothing to do for one that returns no rows (`results.cc:949-950`): after
  an executed `SELECT`, `SQLNumResultCols` of a prepared `INSERT` returns the columns of the
  `SELECT` (`results.cc:1014`), against "returns the number of columns in a result set"
  (`results.cc:993`). `NeverOthersResult` shows that it is the only such case.

## 4. Fairness

Safety runs use `Spec`, with no fairness. The liveness runs assume of a call that has
begun that its thread keeps being scheduled (weak fairness of `CallStep(c)`), and of
DES that a child whose FIFOs are both open becomes DES, that one told to quit quits
(`DesSession`), and that it goes on answering (`QueryChannel`). Nothing is assumed of
applications (`Attach`, `StartClose`, `Begin`), of crashes or of failures. Timeouts
need no fairness of their own: they are steps of the call, enabled when the attempt
has failed. This is what the code gives: each waiting loop sleeps, tries and gives up
after a fixed time. It is not fairness of the mutex: a client may time out each time.

## 5. Proofs

All theorems are checked by TLAPS for every value of the constants: any number of
clients, connects, queries and pieces, databases, rows, rowset sizes and parameter sets, with crashes,
failing launches, lost and mixed answers and late sharers included. What a theorem assumes
beyond the `ASSUME` of its module is said in its statement, and below.

### DesSessionProofs

`TypeCorrect` holds on any kernel. It needs `SegmentsHeld`: who is past `shmat` has a
segment, and who is past the launch or the join has one with `des_process_created`.

The rest assumes `RemovedOnce`, that is `~RmidAgain`; the first of the known
disagreements shows that without it they are false. `NamesInv` is the inductive
invariant. It does not speak of the mutex, which protects nothing here: it may be
initialised and released twice. What protects the launch is `mkfifo`, which fails on an
existing name:

* a creator between its `mkfifo` and `fork` owns the names (`LaunchOwnsNames`), and a
  live DES process is the one at both names (`LiveNamed`), so a second launch
  cannot get through `createPipes`;
* while the key leads to a segment with a launch, both names are up, and the
  clients of that segment hold them (`KeyNamesUp`); who is about to remove that
  segment has sent `/q` to the process at the names;
* removing the segment the key leads to makes its remover the only client
  between `shmctl` and the second `unlink`, and until the names are gone no new
  segment can carry a launch (`TeardownAlone`);
* numbers not given out are unused (`SerialsFresh`).

None of these is inductive alone: `LiveNamed` needs that nobody unlinks a live name
(`TeardownAlone`), which needs that the DES process of the key's segment was doomed
before the removal (`KeyNamesUp`), which needs the owner's names undisturbed
(`LaunchOwnsNames`). `OneLaunchAtATime`, `ClientsHoldCurrentPipes` and `UnlinkOnlyDoomed`
follow in a few lines.

### SessionTurnsProofs

Assumption `TakingTurns` (`~Overlap`): no `connect()` or `close()` begins while another one
runs. Clients may die anywhere, launches fail, and the kernel be any. The known
disagreements show that each theorem here is false when calls overlap (on Linux, for those about the
names). `TurnsInv` has five parts:

* `OneCall`: one client is in a call;
* `AtKey`: it and everyone connected have the segment the key leads to attached, until the segment is
  removed by the one that tears it down. So a segment is removed by who is at the key
  (`RemovesKey`), which is all the preservation of `NamesInv` wanted of `RemovedOnce`: the names
  are safe on Linux too (`TurnsLaunchOnce`, `TurnsHoldCurrent`, `TurnsUnlinkDoomed`);
* `Registers`: nobody writes `n_clients` between a client's load and its store or test;
* `CountHeld`: `n_clients` of a segment is at least the number of the clients it has
  counted, and exactly that until somebody dies. It is an induction over the set of
  counted clients: the store adds one client or takes one away, a death takes one away
  and leaves the count;
* `NobodyCounted`: it is 0 while DES is being launched and once a client has found
  itself the last.

From it `CountCoversConnected`, `CountIsConnected`, `QuitsAlone` and `ClosesWhole`. A process death
leaves the count too high for ever: DES then outlives its last client, but is never
taken from anyone.

`TidyInv` assumes moreover `LaunchesSucceed`: `fork()` succeeds and the child becomes DES and
opens its FIFOs before the creator gives up. An error path of `connect()` leaves FIFOs, a mapping or
the mutex behind, and a joiner may come before the creator that failed has written
`exec_hash_int`; then `NothingLeft` and `SameExec` say nothing of the state left. With it, descriptors
are closed (`PipesClosed`), a child waits at its own FIFOs (`ChildWaits`), `exec_hash_int` is that of
everyone who joined (`ExecKnown`), a creator starts from no names and a free mutex
(`FreshStart`), and a name or a segment that exists is in somebody's hands (`KeyUsed`); the last
two until somebody dies. `ExecIsShared` and `LeavesNothing` follow.

### QueryChannelProofs

`TypeCorrect` holds of every kind of call, a creator that is still reading the banner, a DES of
any speed and clients that die. What makes it more than types is `owe` in `0 .. 2`: the release
after a failed `read` is counted twice, so the argument follows which releases each
place still has before it (`Pending`), and that what is in the FIFOs, in DES and in the clients
are pieces of queries written so far, within the bounds (`BoundInv`).

The rest assumes `WellBehaved`: all calls are of the `Balanced` kinds and no creator is still
reading the banner; the known disagreements show why each exclusion is there. The
invariant `IInv` says that the semaphore is 1 with no holder, or 0 with one, or 0 with
none left because a holder died; that a holder past FIONREAD finds data; and that
nothing on the wire belongs to a query not yet sent. The point of the argument is that
the only reader of the FIFO is the holder, so `read` after FIONREAD never fails, so the
error path on which `send_update_and_fetch_info` and its caller both release is never
taken by a well-behaved call. From it: `MutexExcludes`, `OnlyStaleAnswers`,
`MutexComesBack`. They hold for a DES of any speed.

### ChannelBurstProofs

Assumption `Bursts`: `WellBehaved`, and `Timing = "burst"`. `ChannelSlow` has the other
timing, in which an answer may be left half read. Nothing on the wire says whose an answer
is or where it ends; the invariant (`BurstInv`) says that the driver's guesses are right
nevertheless. The wire belongs to the holder of
the mutex: it is empty before the query is written and after the answer was read
(`Empty`); in between it is the query (`Unanswered`), or what the client has read followed by what
is left in the FIFO are the pieces DES has written so far of the answer to this query, in order
(`Answering`, `InOrder`). A call other than `/process` finds data only when DES has written the
whole answer, so a `read` that did not fill the buffer got the rest of it, and when a `read` filled
it the poll times out only with nothing left. `/process` may be read in parts, while DES is
still writing: it ends at the piece that closes the answer, which `InOrder` says is the last
of this answer and not of another.
`AnswersAreOwn` and `ChannelIsClean` follow; they hold when clients die, too, since who dies with
the mutex takes it along.

`ServesAll` is the refinement of `QueryService`, under `NobodyDies` (`Bursts` and no crashes): a
call that dies in the middle is neither answered nor refused, which the service does
not have. The initial states map to initial states, and there is a lemma for each action: the write is
a stutter, DES's taking of the query from its input is `Execute`, the return of the call is the answer or the
refusal.

### CatalogProofs

No assumption beyond the types of the constants: `SwitchUndone` (`DatabaseKept`),
`StatementsStayHome`, `ReadsWhereItSays` (`RightDatabase`) and `TypeCorrect`, and the
refinement `KeepsPromise`. The first two except, as their properties do, what follows an
answer mistaken for that of `/current_db` (`misled`); `AlwaysReverted` assumes `~AnswersMixed`
and has no exception (`ChannelInv`: nobody is misled then).
That the database is restored is not inductive: it needs
`HomeInv`, that unless misled a client between the switch and its way back holds in `previous[c]` the
database the applications chose, and this needs `MutexInv`, that nobody else is there
to choose another. `TargetInv` carries the database of a table from the switch to the
`select` that reads it. The restoring exchange may lose its answer or get another, but its query is
executed, which is why no error path breaks it; a client that dies away from home
takes the mutex along (`sem` stays 0), so nobody ever sees the database it left. The
refinement has one step per action; `StatementsAtHome` and `KindInv` give the only
interesting one, that a statement sees `chosen`.

### SharingProofs

Every property of `SharingBounded`, with no assumption: `TypeCorrect`, `TableFits`
(`TableBounded`), `LastQuits` (`QuitOnlyAlone`), `DesIsShared` (`SameDes`) and `WaitedIsWhole`
(`HandlesWhole`). A petitioner whose wait times out takes its petitionee off the table,
though it may be alive and connected: the table by which `close()` decides to quit DES
is not the set of connected clients. What saves it is the event that is never reset.
Once a sharer has answered one petition, no petition waits, so none times out; before
that nobody has joined by petition, so the only client on the table was alone
(`SentInv`), and the petition that took it off found nobody else to ask and fails
(`NewInv`, where an entering client either got its pipes after the event was signaled or
launched DES itself). So everyone alive and connected is on the table unless it is
alone (`ListedInv`), and whoever sees the table empty is (`QuitInv`). `HoldInv` is the
other half: a newcomer keeps the mutex from its check of the table's size to its entry,
because it took it twice before a petition releases it once. The lemmas at the head of
the module are about the table: where a client stands in it, and what
`remove_client_from_shmem` leaves.

That nothing resets the event (`PipesGiven` above) is thus what the theorem rests on: to reset the event would
make connected clients disappear from the table, and `QuitOnlyAlone` would need a new
argument.

`DesIsShared` needs `DesInv`, that the handles of everyone alive and connected, and those in the
record, are for the DES process launched last: a launch finds nobody alive
and connected (`NewInv`) and the record empty, since only `Quit` and the end of the shared
memory make `created` false, and both empty it.

`WaitedIsWhole` is about the one race of the protocol that is won. Before the event is
signaled (`FirstInv`), one sharing thread at most is at work, that of `handle_petitionee`, and what it
has duplicated is for the newcomer that asks, if there is one: the newcomer holds the mutex, so
nobody else enters, leaves or asks, and who is connected asks only after the event. A
petitionee that was given up on may still be at work for a petitioner that is gone, but
then the table is empty for good and no petition gets as far as asking. Once the event
is signaled (`PatientInv`) the thread that did it has reset the request, so no thread is at work until
who waited has read the record.

### RowsProofs

`OnlyLastFails` (`Bad = {}` or `ArraySize > 1`) is assumed by all: with rowsets of one row a
row that does not convert makes the fetch fail in the middle of the list, with
`end_of_set` stale, and the next fetch returns a wrong row. `TypeCorrect`, `RowsetsTrue`
and `NoTwoCopies` then hold for any mix of operations. Their invariant says that a
rowset lies in the result and that `end_of_set` is its end wherever a later fetch may
enter there (`SpanInv`): after an error the rowset is the last one, so the next target
is the end of the list and the list is not entered. `CountInv` is that what was counted
is at most one copy until another statement writes.

`WritesWhereItSays` (`RightRow`) needs moreover `WritersGoForward`: a statement that writes
at rows only uses `SQL_FETCH_NEXT`. Then `cursor_row` is never beyond the
rowset, and where it points into it `data_cursor` is there (`ForwardInv`), so `MoveTo`
either moves or need not. The instance of `RightRow` among the known disagreements shows
that the premise is needed.

### StatementProofs

No assumption beyond the types of the constants: every property of `StatementSets`, for
any number of parameters, sets and calls. The invariant has a part for each:

* `TextInv`: in the loop, the buffer and what was sent are of this execution; `Start`
  empties both, whatever a call that needed data or threw left there.
* `ResultInv`: a result in the handle is the prepared statement's while an execution runs
  or `state` promises one; `Prepare` keeps the old result but not the promise.
* `DummyInv` with `BoundInv`: out of `ST_DUMMY_PREPARED` what is inserted is bound, because
  every record is asked for `real_param_done`; in it, only the execution under way has
  sent stand-ins, and none has if it needs data. `End` leaves that state and only `Close`
  leads back, so one execution is all.
* `PlaceInv` with `StatusInv`: what is said of the sets before `row` is true (`Told`) and no
  step touches it again (`ToldKept`); the step that passes `row` makes it true of `row`
  (`ToldNow`); `lastError` is the last failed one, or the set of `DaeArray`, behind which all
  are unused.
* `FlagInv`: `allFailed` is that no query of several had `$success`, and a failed set has
  left its mark in `someFailed` or, with one set, in `rc`. `ReturnTrue` needs both.

### Only model-checked

* Liveness: `CallsReturn`, of `DesSession` and of `QueryChannel`. Liveness under fairness, and the
  `ENABLED` in it, are beyond the prover.
* The violations, of course.

Every invariant, action property and refinement of the passing runs is a theorem.

## 6. Not modelled, and why

* macOS's named semaphores.
* Two connections to *different* DES processes in one application share the globals
  `buffer` and `bytes_read` under two mutexes; the channel has one DES process.
* Death of DES while a query is under way: `DesSession` has deaths of DES, the channel
  does not.
* What `buffer[bytes_read] = '\0'` does when the buffer is full, and the unterminated
  banner: writes outside an object that no state of the model tells apart.
* Queries of a Windows client that is left without pipes: `get_DES_process_pipes` is
  called again in a loop that ignores errors; the model has the call, not the loop's
  use of the query mutex. The spinning of the sharing threads on an event nobody resets
  is a matter of the scheduler.
* `SQLBulkOperations` by bookmark and `fetch_bookmark`; row statuses; data at execution;
  following a NULL node in `SQLSetPos(0)` of an empty rowset.
* Of statement execution: `SQLParamData` and `SQLPutData`, which only report that they are
  not supported; `SQL_UNBIND`, the count of processed sets, a missing status array; catalog
  calls on the same handle (`CatalogCalls` has their exchanges); what a `WHERE CURRENT OF`
  after a `SELECT` with parameters finds in the text buffer (`cursor.cc:352`).
* `Handles and descriptors`, diagnostics, options: lists and records of one caller.
* Rows and columns of the tables catalog functions build, and everything else that is
  text: TAPI syntax, types, conversions, patterns.

By far most lines of the repository are vendored tables and libraries of MySQL
(`mysql_strings` alone has collation tables of several hundred thousand lines); the
driver proper is some 20 files, of which the map covers what shares state. The share of
all lines it covers is small for that reason.

## 7. Plan

Done: `DesSession`, `QueryChannel`, `CatalogCalls`, `HandleSharing`, `PositionedRows`,
`StatementExecution`, and proofs of all their properties but liveness. Left, in order of
weight:

1. Weaker hypotheses: `SameExec` with launches that fail but leave no segment; `ServesEachOnce`
   with clients that die, once `QueryService` has a call that is given up.
2. The violated properties' positive halves: `OnlyOwnErrors` of `CatalogCalls` where no
   statement of the handle was refused before, `OnlyBoundSent` of `StatementExecution` where
   columns are asked for only after binding.
3. Bookmark operations and row statuses in `PositionedRows`.
4. `Handles`: which handles a free, a disconnect or the exit handler invalidates.
