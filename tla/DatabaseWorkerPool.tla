-------------------------- MODULE DatabaseWorkerPool --------------------------
(* The connections of the pool: how main opens and prepares them, what a     *)
(* call does on one, and what becomes of it when the server is lost. Each    *)
(* asynchronous connection runs calls on its own thread; the logic thread's  *)
(* synchronous calls all land on the first synchronous connection, whatever  *)
(* GetFreeConnectionAndLock's TryLock returns.                               *)
(* A connection handle is the number of the connect that gave it, 0 when the *)
(* pointer is null; a prepared statement is the handle it was prepared on.   *)
(* _bReconnecting only chooses log lines and whether _stmts is resized to    *)
(* the size it has.                                                          *)
EXTENDS Naturals

CONSTANTS
  NAsync, NSync,   \* how many connections of each kind main asks for
  Statements,      \* LoginDatabaseSqlID
  AsyncOnly,       \* the statements for asynchronous connections alone
  Text,            \* a query given as text
  MaxLosses        \* bound on how often a connection is lost

ASSUME PoolAssumption ==
  /\ NAsync \in Nat /\ NSync \in Nat \ {0} /\ MaxLosses \in Nat
  /\ AsyncOnly \subseteq Statements /\ Text \notin Statements

N           == NAsync + NSync
Connections == 1 .. N
Callable    == 1 .. NAsync + 1

VARIABLES
  main,     \* what the main thread is at; the process is gone when "dead"
  at,       \* the connection Open or PrepareStatements has come to
  conn,     \* each connection: handle, connects made, server session, _stmts
  call,     \* each connection's call: where it is, its statement and result
  losses    \* how many server sessions were lost

vars == <<main, at, conn, call, losses>>

Types(s) == IF s \in AsyncOnly THEN 1 .. NAsync ELSE Connections

NewConnection == [handle |-> 0, made |-> 0, live |-> FALSE,
                  stmts |-> [s \in Statements |-> 0]]

Init ==
  /\ main = "opening" /\ at = 1 /\ losses = 0
  /\ conn = [c \in Connections |-> NewConnection]
  /\ call = [c \in Connections |-> [pc |-> "idle", stmt |-> Text, ran |-> 0, ok |-> FALSE]]

Die == main' = "dead" /\ UNCHANGED <<at, conn, call, losses>>

-----------------------------------------------------------------------------
(* Open connects; when that fails the handle is null, and so is what         *)
(* mysql_errno is asked about: Open returns its 0 for success, or, out of    *)
(* memory, another number.                                                   *)
Connected(r) == [r EXCEPT !.handle = r.made + 1, !.made = r.made + 1, !.live = TRUE]
Unconnected(r) == [r EXCEPT !.handle = 0, !.live = FALSE]

(* OpenConnections, asynchronous first, keeps what seems to be open, and     *)
OpenConnection ==
  /\ main = "opening" /\ at \in Connections
  /\ \E r \in {Connected(conn[at]), Unconnected(conn[at])} : conn' = [conn EXCEPT ![at] = r]
  /\ at' = at + 1
  /\ UNCHANGED <<main, call, losses>>

(* destroys the connection and those before it when Open's number is not 0:  *)
(* Close asks a thread that was never started whether it can be joined.      *)
OpenFails == main = "opening" /\ at \in Connections /\ Die

StartWorkerThreads ==
  /\ main = "opening" /\ at > N
  /\ main' = "preparing" /\ at' = 1
  /\ UNCHANGED <<conn, call, losses>>

(* PrepareStatement for every statement of the connection's kind, *)
PrepareStatements ==
  /\ main = "preparing" /\ at \in Connections
  /\ conn[at].handle # 0 /\ conn[at].live
  /\ conn' = [conn EXCEPT ![at].stmts =
                [s \in Statements |-> IF at \in Types(s) THEN conn[at].handle ELSE 0]]
  /\ at' = at + 1
  /\ UNCHANGED <<main, call, losses>>

(* which dereferences a null handle. *)
PrepareOnNull == main = "preparing" /\ at \in Connections /\ conn[at].handle = 0 /\ Die

(* Mutant: the work guard is reset, as the line commented out in Close did,  *)
(* and the worker pointer is tested: Close returns, and so does main.        *)
CloseReturns ==
  /\ main' = "serving"
  /\ conn' = [c \in Connections |-> NewConnection]
  /\ UNCHANGED <<at, call, losses>>

(* Close destroys the asynchronous connections first: it joins a worker      *)
(* whose io_context never runs out of work. A synchronous one has no worker. *)
Close ==
  /\ main' = IF NAsync > 0 THEN "joining" ELSE "dead"
  /\ UNCHANGED <<at, conn, call, losses>>

PrepareFails ==
  /\ main = "preparing" /\ at \in Connections
  /\ conn[at].handle # 0
  /\ Close

(* main looks at the result of neither. *)
Serve ==
  /\ main = "preparing" /\ at > N
  /\ main' = "serving"
  /\ UNCHANGED <<at, conn, call, losses>>

(* The pool is a global object: at exit the synchronous connections go       *)
(* first, and have no worker thread to ask.                                  *)
Exit == main = "serving" /\ Die

-----------------------------------------------------------------------------
(* A call: Query or Execute, with a prepared statement or with text.         *)

Ask(c, s) ==
  /\ main = "serving" /\ call[c].pc = "idle"
  /\ call' = [call EXCEPT ![c] = [pc |-> "asked", stmt |-> s, ran |-> 0, ok |-> FALSE]]
  /\ UNCHANGED <<main, at, conn, losses>>

Return(c, n, success) ==
  call' = [call EXCEPT ![c] = [@ EXCEPT !.pc = "idle", !.ran = n, !.ok = success]]

(* Without a handle the call fails, without the statement the process does. *)
Begin(c) ==
  /\ main = "serving" /\ call[c].pc = "asked"
  /\ LET s == call[c].stmt IN
     \/ conn[c].handle = 0 /\ Return(c, 0, FALSE) /\ UNCHANGED <<main, at, conn, losses>>
     \/ conn[c].handle # 0 /\ s # Text /\ conn[c].stmts[s] = 0 /\ Die
     \/ /\ conn[c].handle # 0 /\ (s # Text => conn[c].stmts[s] # 0)
        /\ call' = [call EXCEPT ![c].pc = "sent"]
        /\ UNCHANGED <<main, at, conn, losses>>

(* The client library refuses a statement prepared on a handle since closed, *)
(* and the handle the connection has now knows of no error.                  *)
Current(c) == call[c].stmt # Text => conn[c].stmts[call[c].stmt] = conn[c].handle

(* The server runs it. *)
Succeed(c) ==
  /\ main = "serving" /\ call[c].pc = "sent" /\ Current(c) /\ conn[c].live
  /\ Return(c, call[c].ran + 1, TRUE)
  /\ UNCHANGED <<main, at, conn, losses>>

(* Mutant: an error that nothing handles is tried again. *)
UnhandledRetries(c) == call' = [call EXCEPT ![c].pc = "asked"]

(* HandleMySqlErrcode on what neither ends the process nor reconnects. *)
Unhandled(c) == Return(c, call[c].ran, FALSE)

Refused(c) ==
  /\ main = "serving" /\ call[c].pc = "sent"
  /\ Current(c) => conn[c].live
  /\ Unhandled(c)
  /\ UNCHANGED <<main, at, conn, losses>>

(* An unknown table or field, or a syntax error. *)
Unusable(c) ==
  /\ main = "serving" /\ call[c].pc = "sent" /\ Current(c) /\ conn[c].live
  /\ Die

(* The session ended before the call, or the server runs the statement and   *)
(* its answer is lost with the session.                                      *)
Lost(c) ==
  /\ main = "serving" /\ call[c].pc = "sent" /\ Current(c)
  /\ \/ ~conn[c].live /\ UNCHANGED <<conn, losses>> /\ call' = [call EXCEPT ![c].pc = "lost"]
     \/ /\ conn[c].live /\ losses < MaxLosses
        /\ losses' = losses + 1
        /\ conn' = [conn EXCEPT ![c].live = FALSE]
        /\ call' = [call EXCEPT ![c].pc = "lost", ![c].ran = @ + 1]
  /\ UNCHANGED <<main, at>>

(* Mutant: the test of Open's result is put right, and the call repeated. *)
ReopenRetries(c) ==
  /\ main = "serving" /\ call[c].pc = "lost"
  /\ LET h == conn[c].made + 1 IN
       conn' = [conn EXCEPT ![c] = [Connected(@) EXCEPT
                  !.stmts = [s \in Statements |-> IF c \in Types(s) THEN h ELSE 0]]]
  /\ call' = [call EXCEPT ![c].pc = "asked"]
  /\ UNCHANGED <<main, at, losses>>

(* Mutant: the statements are prepared again and the call fails all the same. *)
ReopenPrepares(c) ==
  /\ main = "serving" /\ call[c].pc = "lost"
  /\ LET h == conn[c].made + 1 IN
       conn' = [conn EXCEPT ![c] = [Connected(@) EXCEPT
                  !.stmts = [s \in Statements |-> IF c \in Types(s) THEN h ELSE 0]]]
  /\ Unhandled(c)
  /\ UNCHANGED <<main, at, losses>>

(* HandleMySqlErrcode closes the handle and opens another. When Open returns *)
(* 0, whether it connected or not, the next round is given _bPrepareError    *)
(* for its error code, which nothing handles.                                *)
Reopen(c) ==
  /\ main = "serving" /\ call[c].pc = "lost"
  /\ \E r \in {Connected(conn[c]), Unconnected(conn[c])} : conn' = [conn EXCEPT ![c] = r]
  /\ Unhandled(c)
  /\ UNCHANGED <<main, at, losses>>

(* When Open returns another number, statements are prepared on no handle. *)
ReopenFails(c) == main = "serving" /\ call[c].pc = "lost" /\ Die

(* The server goes away, or drops one session. *)
Drop(c) ==
  /\ main # "dead" /\ conn[c].live /\ losses < MaxLosses
  /\ losses' = losses + 1
  /\ conn' = [conn EXCEPT ![c].live = FALSE]
  /\ UNCHANGED <<main, at, call>>

-----------------------------------------------------------------------------
Main == OpenConnection \/ OpenFails \/ StartWorkerThreads \/ PrepareStatements
          \/ PrepareOnNull \/ PrepareFails \/ Serve

Run(c) == Begin(c) \/ Succeed(c) \/ Refused(c) \/ Unusable(c) \/ Lost(c)
            \/ Reopen(c) \/ ReopenFails(c)

Next ==
  \/ Main \/ Exit
  \/ \E c \in Callable : Run(c) \/ \E s \in Statements \union {Text} : Ask(c, s)
  \/ \E c \in Connections : Drop(c)

Spec == Init /\ [][Next]_vars

(* A thread goes on with its call; connecting and the database's answer take *)
(* a finite time.                                                            *)
FairSpec == Spec /\ \A c \in Callable : WF_vars(Run(c))
-----------------------------------------------------------------------------
TypeOK ==
  /\ main \in {"opening", "preparing", "serving", "joining", "dead"}
  /\ at \in 1 .. N + 1 /\ losses \in 0 .. MaxLosses
  /\ conn \in [Connections -> [handle : 0 .. MaxLosses + 1, made : 0 .. MaxLosses + 1,
                               live : BOOLEAN, stmts : [Statements -> 0 .. MaxLosses + 1]]]
  /\ call \in [Connections -> [pc : {"idle", "asked", "sent", "lost"}, ran : {0, 1},
                               stmt : Statements \union {Text}, ok : BOOLEAN]]

(* Open and PrepareStatements may fail and main ignores it, and Open may     *)
(* claim success with a null handle; all the same main only comes to serve   *)
(* when every connection was connected and has the statements of its kind:   *)
(* on every other path the process ends or main waits for ever.              *)
NeverHalfOpen ==
  main = "serving" =>
    \A s \in Statements : \A c \in Types(s) : conn[c].made > 0 /\ conn[c].stmts[s] # 0

(* A statement is looked up when its call begins and used after              *)
(* HandleMySqlErrcode has reconnected (ClearParameters): it must still be    *)
(* the object in _stmts.                                                     *)
StatementOutlivesCall ==
  [][\A c \in Callable : call[c].pc \in {"sent", "lost"} => conn'[c].stmts = conn[c].stmts]_vars

(* When the server was lost and HandleMySqlErrcode has connected again, the  *)
(* connection's statements are those of the new handle. It does not hold:    *)
(* they are prepared again only when Open has failed.                        *)
StatementsAreCurrent ==
  main = "serving" =>
    \A s \in Statements : \A c \in Types(s) :
      conn[c].handle # 0 => conn[c].stmts[s] = conn[c].handle

(* However often the server is lost, a call's statement takes effect at most *)
(* once, exactly once when it succeeds, and the call returns.                *)
Promise == INSTANCE AtMostOnce WITH
  Connections <- Callable,
  busy <- [c \in Callable |-> call[c].pc # "idle"],
  ran  <- [c \in Callable |-> call[c].ran],
  ok   <- [c \in Callable |-> call[c].ok],
  up   <- main # "dead"

ImplementsAtMostOnce == Promise!FairSpec
=============================================================================
