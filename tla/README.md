# GameDemoLearn: verification project

TLA+ models of the server framework in this repository (`Src/Common`) and of
the HTTP server built on it (`Src/Servers/HttpServer`), checked with TLC on
small instances and proved with TLAPS for all values of their constants: every
safety property of a passing run has a proof. What the code does against its own
comments, messages and purpose is stated too, as properties that TLC finds
violated (section 3). Paths below are relative to the repository.

## 1. The system

One process, three kinds of threads:

- the **network thread** runs `_netIoCtx`: the accept loop and, for every
  session, the coroutines `ReadLoop` and `WriteLoop`;
- the **logic thread** (the one that called `IServer::Start`) runs
  `_logicIoCtx`: a timer rearms itself every millisecond and calls
  `IServer::Update`, which lets each session handle one packet, then
  `AsyncCallbackProcessor::ProcessReadyCallbacks`. Read handlers, HTTP handlers,
  query callbacks and posted tasks all run here;
- one **worker thread per asynchronous database connection** runs that
  connection's `io_context`.

A request goes: socket → `ReadLoop` → `_readBufferQueue` → tick →
`CoReadHandler` → `HttpRequest::Parse` → `HttpRouter::Route` → handler →
`HttpResponse::GetPayload` → `SendMsg` → `_writeBufferQueue` → timer wake-up →
`WriteLoop` → socket. `/user1` also goes: `DatabaseWorkerPool::AsyncQuery` →
worker thread → future → tick → callback, which writes to the response object.

### Inventory

| component | state | operations | talks to | hard behaviour | what makes it correct |
|---|---|---|---|---|---|
| `ISession`, `HttpSession` (`Net/Session.*`, `HttpSession.*`) | `_closed`, two queues, `_timer`, socket, two coroutine frames | `StartSession`, `ReadLoop`, `WriteLoop`, `SendMsg`, `CloseSession`, `Update`, `CoReadHandler` | both threads, `IServer`, socket | lock-free `_closed`, a timer used as a condition, destruction by the tick | packets keep their order, one shutdown, no write after close, everything ends, no use after destruction |
| `MessageBuffer` (`Net/Buffer.h`) | storage, read and write index | write, read, grow, tidy, shrink, move | sessions | unsigned differences, relocation | a first-in first-out queue of bytes |
| `ProducerConsumerQueue` (`Util`) | deque, mutex, condition, `_shutdown` | `Push`, `Pop`, `WaitAndPop` ×2, `Clear` | sessions | lost and spurious wake-ups, shutdown with sleepers | order, one owner per pointer, no wake-up lost, `Clear` is final |
| asynchronous queries (`DatabaseWorkerPool`, `MySqlConnection`, `QueryCallback`, `AsyncCallbackProcessor`) | `_asyncTaskCount`, posted tasks, futures, `_callbacks` | `AsyncQuery`, the worker, `ProcessReadyCallbacks` | logic and worker threads | counters changed unguarded, results during a tick | each query answered and its callback called once |
| HTTP exchange (`HttpServer`, `HttpSession`, `Net/Http`) | `_req`, `_rep`, router, callbacks holding `&resp` | parse, route, five handlers, payload | sessions, database | writes to a response that was already sent or is gone, dangling views | answers in order, their own content alone, right length |
| `IServer` (`Net/Server.*`, `main.cpp`) | `_sessions`, mutex, two `io_context`s, `_netThread` | `Start`, `Update`, `AcceptLoop`, `AddNewSession`, destructor | everything | signal, exception in a tick, join | no session lost from the list, closed ones removed, clients taken, an end after an exception |
| connection and pool (`Database`) | handle, `_stmts`, `_bReconnecting`, `_bPrepareError`, mutex | `Open`, `Close`, `PrepareStatements`, `HandleMySqlErrcode`, `Execute`, `Query`, `Sync*` | database, both threads | lost server, retries, half-open pool | the program serves with a complete pool or not at all; a statement takes effect at most once |
| results and fields (`QueryResult`, `Field`) | row buffer, positions | constructor, `NextRow`, `Fetch`, conversions | callers | row layout, empty results, mixed signs | cells do not overlap; a getter tells what is there or asserts |
| prepared statements | binds, arrays of the last result | `SetParameter`, `BindParameters`, `ClearParameters`, destructor | connection, result sets | failures between two results | arrays freed once; the server gets the number meant |
| log (`Util/Log.cpp`) | current file and size | `sink_it_`, `rotate_` | all threads | rotation | old files survive |
| `Coroutine/Task.hpp`, `IOContextPool`, small utilities, `DemoServer`, AngelScript, Proto | - | - | - | - | unused by the program, stateless or empty |

`PROJECT.json` lists every component with what is modelled of it, and every
hazard at its line with the properties that watch it; a hazard without one says
why.

## 2. Modules

| module | models | form |
|---|---|---|
| `Session` | one session with both its coroutines, the tick, the handler, the peer and the destruction | detailed |
| `PacketPipeline` | what a session promises | abstract; `Session` implements it |
| `MessageBuffer` | `Net::MessageBuffer` as operators from buffer to buffer | detailed |
| `ByteFifo` | a queue of bytes | abstract; `MessageBuffer` implements it |
| `ProducerConsumerQueue` | the queue with its sleepers | detailed |
| `AsyncQuery` | pool choice, posting, worker, counter, future, tick | detailed |
| `QueryService` | ask, answer, deliver once | abstract; `AsyncQuery` implements it |
| `HttpExchange` | packet to payload on the logic thread | composes `QueryService` |
| `Server` | accept loop, tick, session list and mutex, SIGTERM, destruction | detailed |
| `DatabaseWorkerPool` | the pool's connections from `main` on, and calls on them through losses of the server | detailed |
| `AtMostOnce` | what a call on a connection promises | abstract; `DatabaseWorkerPool` implements it |
| `PreparedQuery` | one statement's queries and their result sets | detailed |
| `Field` | conversions of integers between program and database | operators |
| `MC...` | the constants of the instances TLC checks | |
| `SessionProofs`, `MessageBufferProofs`, `ProducerConsumerQueueProofs`, `AsyncQueryProofs`, `HttpExchangeProofs`, `ServerProofs`, `DatabaseWorkerPoolProofs`, `PreparedQueryProofs` | theorems | TLAPS |

The composition is by promise: `Session` uses its two queues as sequences with
one step per locked call, which is what `ProducerConsumerQueue` shows of `Push`
and `Pop`; `HttpExchange` uses the database as `QueryService`, which
`AsyncQuery` implements, and takes packets and gives payloads in the order that
`PacketPipeline` keeps. The database's answer in `AsyncQuery` (`Answer`, with
one of three results) is a call of `DatabaseWorkerPool`, and its result set the
one of `PreparedQuery`. A session is a client with the two steps in `Server`
(`CloseSession`, `TickSession`) that the list depends on; the rest is `Session`.

### Session

A packet is what one `async_read_some` returned; its number is its place in the
stream, and an answer carries the number of its packet. `rpc` and `wpc` are the
program counters of the coroutines. `net` says whose turn the network thread
is: a coroutine keeps it from one suspension to the next, so `PopWrite`,
`CheckClosed` and `StartWrite` of one round are separate steps that the other
coroutine cannot come between, while the logic thread can come between any two.
The logic thread interleaves at each access to shared state: `Tick` → `PopRead`
→ `PushWrite` → `CancelOne` → `ReadClosed` → `Erase`. `CancelOne` has an effect
only while the wait is pending, as `cancel_one` has. `SpawnModes` covers the two
ways asio may start a coroutine spawned on the running executor. A step of a
coroutine after `Erase` is a `Stray...` action, which sets `stray` and ends it.

### MessageBuffer

The buffer is the record of its three members, each member function an
operator, each action a public call with an argument. `MakeSpace` grows the
storage when too little is writable and moves the readable bytes to the front
otherwise; but no caller gets it to move any. `EnsureWritableBytes` calls it only
when too little is writable, and `EnsureFreeSpace` asks for one and a half times
the storage, which is writable only in storage of at most one byte with nothing
written. What was consumed is given back when the last byte is read, and by
`Shrink`: a buffer that is never read to its end grows (`FreeSpaceIsTidied`).

### ProducerConsumerQueue

Every call holds the mutex throughout and is one step, except that a thread in
`WaitAndPop` gives it up while `asleep`; `Resume` is a woken thread that has the
mutex again. The two overloads differ in the predicate they wait for (the
reference one waits for an *empty* queue, as the code does), `WakeSpuriously` is
what condition variables may do.

### AsyncQuery

`++_asyncTaskCount` on the logic thread and `--_asyncTaskCount` on the worker
are each a read and a write, so that updates get lost and the count may wrap at
`SizeT`. `GetFreeAsyncConnection` reads the counts one by one before it chooses
the largest: its heap is a max-heap. `BeginTick`, `Invoke`, `Keep`, `EndTick`
are `ProcessReadyCallbacks`; a future may turn ready between any two of them.

### HttpExchange

All of it is the logic thread, so a handler is one step (no handler suspends).
`Handle` pops and parses; a packet that fails to parse is routed by what `_req`
held before: nothing, or freed memory, which may read as any route. `GetPayload`
is the accumulation the code does: `_head`, `_headers` and `_content` keep what
they have. Content is a sequence of pieces, each with the packet it was made
for, and its length their number. A handler that throws is answered by `Route`
with 503 (`HandlerThrows`).

A session is made in a place of memory where no other is (`Accept`), maybe where
one was that is gone. `RunPost` and `Callback` hold a reference to a response,
that is, to a place: they write to the response that is there now (`Reached`),
which is their own session's while it is open, and may be another's afterwards.
When it is gone they may also write to memory that is nobody's, unnoticed, or
that is something else's, which ends the model with `fate = "wild"`, as after it
anything may happen; a failing `Assert` ends it with `"aborted"`. Running out of
memory outside the `try` of `Route` is left out.

### Server

`logic` and `net` are the places of the two threads; the list is read and
written in the steps the code has: the timer that expires or has expired while
the tick ran, the test of `empty()` without the mutex, the lock, one step per session of `remove_if`, the erase that unlocks, and on the
other side waiting for the mutex and appending. `Throws` is any exception that
leaves a session's `Update` or a query callback. `accepting` turns false on an
accept that fails and on a peer that is gone when the constructor of `ISession`
asks for its address. `~HttpServer` destroys `_router` and
`_queryCallbackProcessor` (`DestroyMembers`) and then is an `IServer`
(`DestroyBase`), which joins the network thread (`Join`). All the while that
thread may be in `OnScoketAccepted`, which is two steps, the session and the copy
of `_router` into it (`SetRouter`). `crashed` is the use of a router that is
destroyed or being destroyed, which may also go unnoticed, or the call of a
virtual function that is pure by then.

### DatabaseWorkerPool

A connection is a record of its handle (the number of the connect that gave it,
0 for the null pointer), whether the server still has its session, and the
handle each statement was prepared on; a reconnect gives a connection a new handle
and leaves it the statements of the old one. `main` opens, prepares and serves in
steps; each of `Open`, `PrepareStatement` and `HandleMySqlErrcode` may fail in
every way the code tells apart. Where the code dereferences a null pointer,
throws out of a destructor or aborts, the process is `"dead"`; where `Close` joins
a thread that has a work guard, `main` is at `"joining"` and stays there. A call
is `Begin`, then an answer (`Succeed`, `Refused`, `Unusable`) or `Lost`, with the
statement run or not, then `Reopen`. The synchronous calls of the logic thread
all use the first synchronous connection.

### PreparedQuery and Field

`Ask` binds and executes, `BindResult` is the constructor up to its loop,
`FetchRow` one round of it, with the library's writes at the pointers the loop
moves; a byte of `mem` is a triple that says which cell and which of its bytes
it holds. The arrays of lengths and null flags are numbered and their deletions
counted. `Field` has the conversions as C++ defines them (wrap to the target,
promotion and common type of the comparison) for any widths up to 64. What the
database holds is the constant `Rows`, the rows it answers for each number it may
be asked. The model stops where something was freed twice.

## 3. What the runs check

| run | instance | shows |
|---|---|---|
| `session` | 3 packets, both spawn modes, fair | order while open, one shutdown, no write on a closed session, the tick never closes, `PacketPipeline` implemented; a peer that leaves gets its session erased and both coroutines ended, what is read is handled, a woken writer drains its queue |
| `session_wakeup` (violation) | fair | an answer pushed between the writer's failed `Pop` and its `async_wait` waits for ever: the `cancel_one` came before the wait |
| `session_lifetime` (violation) | inline spawn | the tick destroys a session whose coroutine is suspended in it |
| `server` | 3 clients, fair | no session lost from the list or in it twice, closed sessions removed, clients taken unless an accept failed or every tick outlasts its timer; after an exception and SIGTERM an end or a crash |
| `buffer` | storage up to 6 bytes, pieces of up to 3 | indices in range, `ByteFifo` implemented |
| `queue` | 3 threads, both overloads, 4 pushes | order, ownership, no sleeper forgotten (value overload), nothing after `Clear` |
| `queue_shutdown` (violation) | value overload, fair | a sleeper is not released by `Clear` |
| `async` | 2 connections, 3 queries, `SizeT` 8 | no callback lost or doubled, overtaking only among ready answers, `QueryService` implemented with its liveness |
| `database` | 2 connections of each kind, 2 statements and a text, 2 losses, fair | `main` serves with a complete pool or not at all, a statement outlives the call that uses it, `AtMostOnce` implemented with its liveness |
| `database_reconnect` (violation) | as above | after a successful reconnect the statements are those of the closed handle |
| `rows` | 3 queries, 6 columns, 4 rows, widths 2, 3 (`int`) and 4 | cells keep their bytes, arrays freed once and getters true, with the exceptions below |
| `http` | 2 sessions, 2 places, 3 packets | answers in order; content of another session only where memory was reused; the last part of an immediate answer is the handler's own or ends with its error's page; lengths match |

Each of these violations is a finding in `PROJECT.json`, with the line it
contradicts.

**More counterexamples.** The following are false as well. They are not runs of
`PROJECT.json`, but each has a configuration with the instance of its module's
run, and `tlc -config <cfg> <module>` ends with the trace that is told here.

| property | configuration, module | what the code does |
|---|---|---|
| `OneResponsePerPayload` | `MCHttpPayload.cfg`, `MCHttpExchange` | `GetPayload` appends to `_head` and never clears it (`HttpResponse.cpp:27`): the second answer of a session repeats the first, and `_headers` keeps every `Content-Length`. "获取要发送的Http响应内容" (`:20`) says it is the response to be sent |
| `NothingLeftOver` | `MCHttpLeftOver.cfg`, `MCHttpExchange` | `_content` is never cleared, and an error sets the status alone: 404, 500 and 503 have their page behind the content of an earlier answer (`HttpResponse.cpp:77`) |
| `NoForeignContent` | `MCHttpForeign.cfg`, `MCHttpExchange` | `/task` is answered, the session erased and another one made in its memory; the lambda writes to that one's response through `&resp` (`HttpServer.cpp:131`; the callback of `/user1`, `:50`, likewise) |
| `FailedIsNotRouted` | `MCHttpStale.cfg`, `MCHttpExchange` | `CoReadHandler` drops the result of `Parse` (`HttpSession.cpp:41`): after "Parse http request failed" (`HttpParser.cpp:45`) the packet goes where the views into an earlier, freed one lead |
| `Sound` | `MCRowsArrays.cfg`, `MCPreparedQuery` | the arrays of an earlier result are deleted, the new one cannot be stored, and the statement deletes them again (`QueryResult.cpp:276-299`) |
| `FindsItsRows` | `MCRowsUnsigned.cfg`, `MCPreparedQuery` | `is_unsigned` is taken of a reference type and always false (`MySqlPreparedStatement.cpp:82`): an unsigned parameter with its top bit set arrives as a negative number |
| `NumbersAreWhole` | `MCRowsSigns.cfg`, `MCPreparedQuery` | a getter of the other sign than the column's lets a number pass that its type cannot hold (`Field.cpp:238`), which `Field.cpp:153` calls a wrong call |
| `FreeSpaceIsTidied` | `MCBufferTidy.cfg`, `MCMessageBuffer` | `EnsureFreeSpace` (`Buffer.h:126`) grows the storage and leaves the consumed bytes in front, where `:121` says "自动整理内存，并扩展容量" (tidy and extend) and `:327` "前缀空余过多，调整" (too much free in front, adjust) |
| `ServerExits` | `MCServerExit.cfg`, `MCServer` | after the exception that `Server.cpp:77` reports with "服务器异常退出" (the server exits), `~IServer` waits for a network thread that only SIGTERM stops |

Some properties hold with an exception the code needs, which they name; what is
excepted is in most cases a property of its own, which the code violates:

- `ArraysFreedOnce` leaves out what follows a result that could not be stored:
  the constructor deletes the statement's arrays first, and after a failure the
  statement still points at them (`QueryResult.cpp:276-299`), so that they are
  freed again (`Sound`; above).
- `GettersTell` leaves out a signed column read as unsigned and the reverse: the
  test for a truncated value (`Field.cpp:238`) compares after conversion, so that
  -1 in an `int` column is 4294967295 to `GetUInt32`, and the largest `BIGINT
  UNSIGNED` is -1 to every signed getter (`NumbersAreWhole`; above).
  A number getter on a text column returns 0 and does not assert, whatever the
  text is (`Field.cpp:229-232`); the property says so, and no doc says otherwise.
- `ForeignOnlyByReuse` says what the dangling `&resp` (`HttpServer.cpp:50, 131`)
  may do and what nothing else does; that content never crosses sessions is
  false (`NoForeignContent`; above).
- `AtOnceTells` speaks of the last part of an answer. After 200 it is the
  handler's content alone; after 404, 500 and 503 only its end is about this
  packet (`NothingLeftOver`; above). Before it, the payload has all
  earlier responses (`OneResponsePerPayload`; above).
- `ClientsAreTaken` ends with the first accept that fails, for whichever client,
  and asks that again and again a tick ends before the timer it armed.
- `AtMostOnce` holds because no call is ever repeated: `HandleMySqlErrcode`
  takes the success of `Open` for failure (`MySqlConnection.cpp:389`) and returns
  false also when it has reconnected, and the statements stay those of the closed
  handle (`StatementsAreCurrent`, run `database_reconnect`), so that every later
  call with one of them fails.
- `NeverHalfOpen` holds because `main` never gets past `PrepareStatements`
  otherwise: it dies on a null handle or waits in `Close` for ever.
- In `http` a query that matches no row ends the process at the assertion in
  `Fetch` (`fate = "aborted"`): such a query is a success with no rows.

**Bounds.** Three packets let one be written, one queued and one read at once,
which is every place but one of the path filled, and the proofs remove the
bound. Six bytes of storage from an initial two cover growing, resetting,
shrinking and moving from in any order. Three threads and four pushes let
two threads sleep or be woken while a third takes and more is pushed. Two asynchronous
connections are what `main.cpp` opens; three queries put two behind each other
on one connection and a third on the other, and let a count lose an update and
wrap below zero (`SizeT` only has to be larger than the number of queries). For
`http`, a packet that leaves something in a response, one that finds it and one
on another session, which is beside the first, or after it in its memory or
elsewhere. Three clients of `server` are one kept, one removed and one
appended at the same tick. Two losses in `database` let the reopened connection
be lost again; four connections and two statements are what `main.cpp` opens and
`LoginDatabase.h` has, with one statement for asynchronous connections alone to
keep both kinds of `Types`. In `rows` a third query is the first that could free
what the second left, four rows put a null before, between and behind values of
a column, and the widths are one below, one equal to and one above that of `int`.

**Fairness.** `Session` and `AsyncQuery` assume weak fairness of each thread:
the io_contexts run every handler that is ready, the tick's timer is rearmed
before anything else in `Update`, and the workers' contexts have work guards.
The socket takes or refuses a write sooner or later, the database answers sooner
or later; the peer owes nothing. In the queue a woken thread gets the mutex
sooner or later; nothing else there is fair. `DatabaseWorkerPool` assumes that a
thread goes on with its call, connects and answers taking finite time. `Server`
assumes that both contexts run what is ready, and of the mutex on the network
thread weak fairness, and strong fairness only while the logic thread sleeps:
`std::mutex` is not fair, and the tick may take it again and again before a
waiting thread is awake, but in a sleep nobody competes for it, and of infinitely
many sleeps of up to a millisecond some are long enough. The code does not
guarantee such sleeps: the timer is armed when `Update` begins (`Server.cpp:89`),
so that after a tick of a millisecond or more, as with the three seconds of
`/user1` (`HttpServer.cpp:79`), the next follows at once. Where that is so from
some time on, a client may starve; hence the premise `TicksAreShort` of
`ClientsAreTaken`. `HttpExchange` and `PreparedQuery` have safety properties
only.

**Stopping.** `CHECK_DEADLOCK FALSE` is set where the system may rest: no more
queries are asked (`async`), the process has ended or waits for ever by design of
the code (the runs of `http`, `database` and `server`), or the statement is
destroyed (those of `rows`).

## 4. What is proved

For every number of packets, bytes, threads, pushes, clients, sessions, queries,
connections, statements and losses, every set of columns and rows and all widths
of the integer types:

- `SessionProofs`: `TypeCorrect`, `NothingLost`, `SingleShutdown`,
  `NoLateWrite`, `TickClosesNothing`, and `Refinement` of `PacketPipeline`, all
  from `Invariance`. The invariant is `TypeOK /\ Turns /\ Closing /\ Flow`.
  `NothingLostWhileOpen` is not inductive: that a write is never started on a
  closed session needs to know who can close while the writer has the network
  thread (`Turns`), that only a coroutine on its way out does (`Closing`), and
  the order must survive the close until the writer drops its packet (`Flow`).
- `MessageBufferProofs`: `TypeCorrect` and `FirstInFirstOut` (the
  refinement of `ByteFifo`), from a lemma per member function on what it does to
  the readable bytes.
- `ProducerConsumerQueueProofs`: `TypeCorrect`, `Fifo`, `SingleOwner`,
  `NoWakeUpLost`, `ClearIsFinal`, from `TypeOK /\ Flow /\ OneOwner /\
  NoSleeperForgotten`. `Flow` is `FirstInFirstOut` value by value, with nothing
  deleted before `Clear`, which is what makes owners distinct. A `Push` adds a
  value and a woken thread, a woken thread that takes leaves with a value, and a
  thread falls asleep only on an empty queue.

- `DatabaseWorkerPoolProofs`: `TypeCorrect`, `PoolComplete`, `StatementsStay` and
  `AtMostOncePerCall` (`AtMostOnce` without its fairness), from `TypeOK /\ Calls
  /\ Counted /\ Opening /\ Prepared`. That `main` serves with a complete pool
  needs `Prepared`, which says it of the connections behind `at` while they are
  being prepared. That nothing runs twice needs `Calls`: a call has had no effect
  until it is lost, and it is lost only with its session. `Counted` and `Opening`
  bound the handles: a connect but the first of a connection follows a loss.

- `ServerProofs`: `TypeCorrect` and `NoneLost`, from `TypeOK /\ Listed /\
  Scanning`. `NoSessionLost` says of the list what it says
  outside the erase; while `remove_if` runs, `Scanning` adds that each session it
  has not dropped is in what it keeps or in what it has still to look at, and in
  one of them only, so that the erase puts nothing back twice.
- `AsyncQueryProofs`: `TypeCorrect`, `CallbacksAreKept`, `NoneOvertakesUnready`
  and `ServesSafely` (`QueryService` without its fairness), from `TypeOK /\
  Asking /\ Working /\ InTurn /\ Places`. A query is with the worker of its
  connection exactly until it is answered (`Working`), hence answers of one
  connection come in the order asked (`InTurn`), and its callback is in exactly
  one of the four lists a tick moves it through (`Places`). The counters appear
  only in `TypeOK`: whatever value a lost update leaves them with, they choose a
  connection and nothing else.
- `HttpExchangeProofs`: `TypeCorrect`, `AnsweredInOrder`, `ForeignByReuseOnly`,
  `AtOnceTruth`, `TrueLength`, from `TypeOK /\ Referred /\ Made /\ Apart /\
  Waiting /\ Kept /\ Said /\ InOrder`. What was sent is right because what a
  response still holds is: `Kept` says that every piece in it, of earlier packets
  too, is `Near` its session, made for it or for one that was erased where it is,
  and that its length is that of its pieces. A reference leads to no other open
  session because no two are in one place (`Apart`), and a session that is made
  finds no packet of its own (`Made`).
- `PreparedQueryProofs`: `TypeCorrect`, `BytesAreKept`, `FreedOnce`,
  `GettersAreTrue`, from `TypeOK /\ Answered /\ Asks /\ Empty /\
  InPlace /\ CellsKeepTheirBytes /\ Owned /\ Quiet /\ GettersTell`. Because a
  column's pointer moves only past its cells that are not null, columns get out of
  step; `InPlace` says that each points at one of its own slots past all of its
  cells, and `SlotsApart` that the slots of different rows or columns have no byte
  in common. `Owned` says that of the arrays exactly the pair the statement points
  at is not freed. For the getters, the type in which two of the same sign are
  compared holds the values of both (`CommonHolds`), so that a value that passes
  the test is not truncated (`AcceptedIsTrue`).

`Pow2` and `Offset` are defined by recursion. The induction theorems of the
library cannot be instantiated, but that every set of naturals that is not empty
has a least element can be (`Least`): a least counterexample gives `Steps`
(induction over an interval, for a set), and `Steps` gives `Recursion` (a function
defined by recursion exists), `Bounded` and `Largest` (finitely many numbers have
a largest, which is the longest text of a column).

The assumptions are those the modules state for their constants (a set of
threads is finite, sizes are naturals, an integer type has at most 64 bits, the
rows have the types of the columns, and the like); every passing run evaluates
them.

Only model-checked: liveness, which with `ENABLED` is out of the prover's reach
(`LeavingCleansUp`, `ReadsAreHandled`, `WakeUpDrains`, `ClosedIsRemoved`,
`ClientsAreTaken`, `EndsWhenTold`, and the fairness parts of `ImplementsService` and
`ImplementsAtMostOnce`), and the violations.

## 5. Plan

1. `Session`, `MessageBuffer`, `ProducerConsumerQueue`, `AsyncQuery`,
   `HttpExchange`, `Server`, `DatabaseWorkerPool`, `PreparedQuery`: modelled and
   proved.
2. To prove next: properties of the composition, such as the order of the payloads
   that follows from `PacketPipeline` and `AnswersInOrder` together.

### Not modelled

- `picohttpparser` and `3rdParty` (vendored), generated code, the tests.
- Text of the log, names, tables, time: no behaviour the properties tell apart.
- `rotate_` in `Util/Log.cpp`: it renames by names that hold the current time,
  so that no earlier file is ever found, and calls spdlog for the rest; no
  document says what a rotation should keep.
- Text queries' result sets (`QueryResultSet::NextRow` returns false whenever
  there is a result, `QueryResult.cpp:216`), dates, decimals and floating point:
  no handler uses them.
- `AsyncExecute`, chained `Then`, `Ping` and the transaction calls: nothing calls
  them. `Coroutine/Task.hpp` is used by tests alone, `IOContextPool` by nothing;
  the AngelScript binder and `DemoServer` are placeholders.
