------------------------------ MODULE AsyncQuery ------------------------------
(* The asynchronous query path: DatabaseWorkerPool::AsyncQuery picks a       *)
(* connection, IMySqlConnection::AsyncQuery posts a task to its worker       *)
(* thread and returns a future, and AsyncCallbackProcessor calls the         *)
(* callback from the logic thread's tick once the future is ready.           *)
(* A query is the number of its request; each has one Then.                  *)
EXTENDS Naturals, Sequences, Functions

CONSTANTS
  Conn,         \* the connections opened for asynchronous use
  MaxQueries,   \* bound on the queries asked
  SizeT         \* the modulus of size_t

ASSUME ConnAssumption == Conn # {}
ASSUME BoundAssumption == MaxQueries \in Nat /\ SizeT \in Nat \ {0}

Queries == 1 .. MaxQueries

VARIABLES
  count,       \* _asyncTaskCount, which both threads change unguarded
  tasks,       \* the tasks posted to the connection's io_context
  at,          \* where its worker thread is
  current,     \* the queries it runs: none or one
  taken,       \* the count it is about to store, less one
  future,      \* what the shared state of each query's future holds
  lat,         \* where the logic thread is
  seen,        \* the counts GetFreeAsyncConnection has read
  ltaken,      \* the count it is about to store, plus one
  server,      \* the connection chosen for each query, in the order asked
  callbacks,   \* AsyncCallbackProcessor::_callbacks
  batch,       \* updateCallbacks: what the tick has still to look at
  kept,        \* updateCallbacks: what it has looked at and keeps
  delivered    \* the queries whose callback ran, in that order

workerVars == <<tasks, at, current, taken>>
tickVars   == <<callbacks, batch, kept, delivered>>
logicVars  == <<lat, seen, ltaken, server, tickVars>>
vars == <<count, workerVars, future, logicVars>>

asked == Len(server)

(* What IMySqlConnection::Query returns: rows, a result set without any, or  *)
(* nullptr when the query failed.                                            *)
Results == {"rows", "empty", "null"}

(* InvokeIfReady: the future is ready. *)
Ready(q) == future[q] \in Results

Init ==
  /\ count = [c \in Conn |-> 0]
  /\ tasks = [c \in Conn |-> <<>>] /\ at = [c \in Conn |-> "idle"]
  /\ current = [c \in Conn |-> {}] /\ taken = [c \in Conn |-> 0]
  /\ future = [q \in Queries |-> "none"]
  /\ lat = "free" /\ seen = <<>> /\ ltaken = 0 /\ server = <<>>
  /\ callbacks = <<>> /\ batch = <<>> /\ kept = <<>> /\ delivered = <<>>

-----------------------------------------------------------------------------
(* The logic thread: a request handler asks.                                 *)

(* GetFreeAsyncConnection compares the counts, reading one after the other;  *)
ReadCount(c) ==
  /\ \/ lat = "free" /\ asked < MaxQueries
     \/ lat = "heap" /\ c \notin DOMAIN seen
  /\ seen' = [d \in DOMAIN seen \union {c} |-> IF d = c THEN count[c] ELSE seen[d]]
  /\ lat' = "heap"
  /\ UNCHANGED <<count, workerVars, future, ltaken, server, tickVars>>

(* the heap has the largest in front. *)
GetFreeAsyncConnection(c) ==
  /\ lat = "heap" /\ DOMAIN seen = Conn
  /\ \A d \in Conn: seen[d] <= seen[c]
  /\ server' = Append(server, c)
  /\ seen' = <<>> /\ lat' = "load"
  /\ UNCHANGED <<count, workerVars, future, ltaken, tickVars>>

(* ++_asyncTaskCount reads, *)
LoadCount ==
  /\ lat = "load"
  /\ ltaken' = count[server[asked]]
  /\ lat' = "store"
  /\ UNCHANGED <<count, workerVars, future, seen, server, tickVars>>

(* and writes; the task is posted and the callback registered. *)
Post ==
  /\ lat = "store"
  /\ count' = [count EXCEPT ![server[asked]] = (ltaken + 1) % SizeT]
  /\ tasks' = [tasks EXCEPT ![server[asked]] = Append(@, asked)]
  /\ future' = [future EXCEPT ![asked] = "pending"]
  /\ callbacks' = Append(callbacks, asked)
  /\ lat' = "free"
  /\ UNCHANGED <<at, current, taken, seen, ltaken, server, batch, kept, delivered>>

-----------------------------------------------------------------------------
(* The worker thread of connection c.                                        *)

Go(c, from, to) == at[c] = from /\ at' = [at EXCEPT ![c] = to]

(* Mutant: the last task posted is run first. *)
RunNewest(c) ==
  /\ Go(c, "idle", "query") /\ tasks[c] # <<>>
  /\ current' = [current EXCEPT ![c] = {tasks[c][Len(tasks[c])]}]
  /\ tasks' = [tasks EXCEPT ![c] = SubSeq(@, 1, Len(@) - 1)]
  /\ UNCHANGED <<count, taken, future, logicVars>>

(* The io_context runs the oldest task; it sends the query. *)
Run(c) ==
  /\ Go(c, "idle", "query") /\ tasks[c] # <<>>
  /\ current' = [current EXCEPT ![c] = {Head(tasks[c])}]
  /\ tasks' = [tasks EXCEPT ![c] = Tail(@)]
  /\ UNCHANGED <<count, taken, future, logicVars>>

(* The query is back; --_asyncTaskCount reads, *)
Load(c) ==
  /\ Go(c, "query", "store")
  /\ taken' = [taken EXCEPT ![c] = count[c]]
  /\ UNCHANGED <<count, tasks, current, future, logicVars>>

(* and writes; *)
Store(c) ==
  /\ Go(c, "store", "answer")
  /\ count' = [count EXCEPT ![c] = (taken[c] + SizeT - 1) % SizeT]
  /\ UNCHANGED <<tasks, current, taken, future, logicVars>>

(* Mutant: a query that failed never fulfils its promise. *)
AnswerSuccessOnly(c) ==
  /\ Go(c, "answer", "idle")
  /\ current' = [current EXCEPT ![c] = {}]
  /\ \E result \in Results:
       future' = [q \in Queries |->
                    IF q \in current[c] /\ result # "null" THEN result ELSE future[q]]
  /\ UNCHANGED <<count, tasks, taken, logicVars>>

(* the result fulfils the promise. *)
Answer(c) ==
  /\ Go(c, "answer", "idle")
  /\ current' = [current EXCEPT ![c] = {}]
  /\ \E result \in Results:
       future' = [q \in Queries |-> IF q \in current[c] THEN result ELSE future[q]]
  /\ UNCHANGED <<count, tasks, taken, logicVars>>

Worker(c) == Run(c) \/ Load(c) \/ Store(c) \/ Answer(c)

-----------------------------------------------------------------------------
(* The logic thread's tick: ProcessReadyCallbacks.                           *)

Untouched == UNCHANGED <<count, workerVars, future, seen, ltaken, server>>

BeginTick ==
  /\ lat = "free" /\ callbacks # <<>>
  /\ batch' = callbacks /\ callbacks' = <<>>
  /\ lat' = "scan"
  /\ UNCHANGED <<kept, delivered>> /\ Untouched

(* InvokeIfReady calls the callback, and its entry is removed. *)
Invoke ==
  /\ lat = "scan" /\ batch # <<>> /\ Ready(Head(batch))
  /\ delivered' = Append(delivered, Head(batch))
  /\ batch' = Tail(batch)
  /\ UNCHANGED <<lat, callbacks, kept>> /\ Untouched

(* It is not ready, and stays. *)
Keep ==
  /\ lat = "scan" /\ batch # <<>> /\ ~Ready(Head(batch))
  /\ kept' = Append(kept, Head(batch))
  /\ batch' = Tail(batch)
  /\ UNCHANGED <<lat, callbacks, delivered>> /\ Untouched

(* Mutant: what is put back is not taken out of the old list. *)
EndTickCopies ==
  /\ lat = "scan" /\ batch = <<>>
  /\ callbacks' = callbacks \o kept /\ kept' = kept
  /\ lat' = "free"
  /\ UNCHANGED <<batch, delivered>> /\ Untouched

(* Mutant: what was not ready is not put back. *)
EndTickForgets ==
  /\ lat = "scan" /\ batch = <<>>
  /\ kept' = <<>>
  /\ lat' = "free"
  /\ UNCHANGED <<batch, callbacks, delivered>> /\ Untouched

EndTick ==
  /\ lat = "scan" /\ batch = <<>>
  /\ callbacks' = callbacks \o kept /\ kept' = <<>>
  /\ lat' = "free"
  /\ UNCHANGED <<batch, delivered>> /\ Untouched

Tick == BeginTick \/ Invoke \/ Keep \/ EndTick

-----------------------------------------------------------------------------
Next ==
  \/ \E c \in Conn: ReadCount(c) \/ GetFreeAsyncConnection(c) \/ Worker(c)
  \/ LoadCount \/ Post \/ Tick

Spec == Init /\ [][Next]_vars

(* A handler that has begun to ask runs on; a client need not ask. *)
AskGoesOn ==
  \/ \E c \in Conn: lat = "heap" /\ (ReadCount(c) \/ GetFreeAsyncConnection(c))
  \/ LoadCount \/ Post

(* The logic thread's timer rearms itself and the workers' io_contexts have  *)
(* work guards; the database answers each query sooner or later.             *)
FairSpec ==
  /\ Spec
  /\ WF_vars(AskGoesOn) /\ WF_vars(Tick)
  /\ \A c \in Conn: WF_vars(Worker(c))

-----------------------------------------------------------------------------
(* The types; a worker that is not idle runs one query; between ticks the    *)
(* tick's lists are empty.                                                   *)
TypeOK ==
  /\ count \in [Conn -> 0 .. SizeT - 1] /\ taken \in [Conn -> 0 .. SizeT - 1]
  /\ tasks \in [Conn -> Seq(Queries)] /\ current \in [Conn -> SUBSET Queries]
  /\ at \in [Conn -> {"idle", "query", "store", "answer"}]
  /\ \A c \in Conn: at[c] = "idle" <=> current[c] = {}
  /\ future \in [Queries -> {"none", "pending"} \union Results]
  /\ lat \in {"free", "heap", "load", "store", "scan"} /\ ltaken \in 0 .. SizeT - 1
  /\ DOMAIN seen \subseteq Conn /\ \A c \in DOMAIN seen: seen[c] \in 0 .. SizeT - 1
  /\ server \in Seq(Conn) /\ asked <= MaxQueries
  /\ callbacks \in Seq(Queries) /\ batch \in Seq(Queries)
  /\ kept \in Seq(Queries) /\ delivered \in Seq(Queries)
  /\ lat # "scan" => batch = <<>> /\ kept = <<>>

(* The queries whose task is posted and whose callback is registered. *)
Posted == {q \in Queries: future[q] # "none"}

(* A registered callback is in one place, once: called already, kept by the  *)
(* tick, still to be looked at, or waiting for the next tick.                *)
NoCallbackLost ==
  LET all == delivered \o kept \o batch \o callbacks
  IN  /\ IsInjective(all)
      /\ {all[i]: i \in 1 .. Len(all)} = Posted

(* A worker answers in the order asked.  A callback overtakes that of an     *)
(* earlier query to the same connection only when the tick looked at the     *)
(* earlier one too soon: its answer is there, for the next tick.             *)
Called(q) == \E i \in 1 .. Len(delivered): delivered[i] = q
OvertakenIsReady ==
  \A q, r \in Posted:
    q < r /\ server[q] = server[r] /\ Called(r) => Ready(q)

(* Whatever the counts come to, whoever works when, each query is answered   *)
(* and its callback called once, after the answer and before long.           *)
Service == INSTANCE QueryService
  WITH asked     <- IF lat \in {"load", "store"} THEN asked - 1 ELSE asked,
       answered  <- {q \in Queries: Ready(q)},
       delivered <- {q \in Queries: Called(q)}

ImplementsService == Service!Spec
=============================================================================
