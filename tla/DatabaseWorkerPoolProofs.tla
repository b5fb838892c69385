----------------------- MODULE DatabaseWorkerPoolProofs -----------------------
(* Theorems about DatabaseWorkerPool, for every number of connections,       *)
(* statements and losses.                                                    *)
EXTENDS DatabaseWorkerPool, TLAPS

(* A call runs only once main serves; it has had no effect until it is lost  *)
(* or returns, and it is lost only with the session.                         *)
Calls ==
  \A c \in Connections :
    /\ call[c].pc # "idle" => main \in {"serving", "dead"}
    /\ call[c].pc \in {"asked", "sent"} => call[c].ran = 0
    /\ call[c].pc = "lost" => ~conn[c].live

(* Every connect but the first of a connection follows a loss, and handles   *)
(* and statements are those of connects that were made.                      *)
Counted ==
  \A c \in Connections :
    /\ conn[c].handle <= conn[c].made
    /\ conn[c].live => conn[c].made <= losses + 1
    /\ ~conn[c].live => conn[c].made <= losses
    /\ \A s \in Statements : conn[c].stmts[s] <= conn[c].made

(* Open has not come to the connections from at on. *)
Opening ==
  main = "opening" => \A c \in Connections : at <= c => conn[c].made = 0 /\ ~conn[c].live

(* PrepareStatements has prepared those before at, and stays with what it    *)
(* prepared.                                                                 *)
Prepared ==
  \A s \in Statements : \A c \in Types(s) :
    (main = "preparing" /\ c < at) \/ main = "serving"
      => conn[c].stmts[s] # 0

IInv == TypeOK /\ Calls /\ Counted /\ Opening /\ Prepared

USE PoolAssumption

Handles == 0 .. MaxLosses + 1

ConnectionType == [handle : Handles, made : Handles, live : BOOLEAN,
                   stmts : [Statements -> Handles]]

CallType == [pc : {"idle", "asked", "sent", "lost"}, ran : {0, 1},
             stmt : Statements \union {Text}, ok : BOOLEAN]

LEMMA Numbers ==
  /\ N \in Nat \ {0} /\ Connections \subseteq 1 .. N /\ Callable \subseteq Connections
  /\ \A s : Types(s) \subseteq Connections
  /\ Handles \subseteq Nat /\ 0 \in Handles
  BY DEF N, Connections, Callable, Types, Handles

(* What a connect gives, with a handle and without.                          *)
LEMMA ConnectGives ==
  ASSUME NEW r \in ConnectionType, r.made + 1 \in Handles
  PROVE  /\ Connected(r) \in ConnectionType
         /\ Connected(r).handle = r.made + 1 /\ Connected(r).made = r.made + 1
         /\ Connected(r).live /\ Connected(r).stmts = r.stmts
  BY DEF ConnectionType, Connected

LEMMA NoConnectGives ==
  ASSUME NEW r \in ConnectionType
  PROVE  /\ Unconnected(r) \in ConnectionType
         /\ Unconnected(r).handle = 0 /\ Unconnected(r).made = r.made
         /\ ~Unconnected(r).live /\ Unconnected(r).stmts = r.stmts
  BY Numbers DEF ConnectionType, Unconnected

THEOREM InitEstablishes == Init => IInv
PROOF
<1> SUFFICES ASSUME Init PROVE IInv
  OBVIOUS
<1>1. TypeOK
  BY Numbers DEF Init, TypeOK, NewConnection, Handles
<1>2. Calls /\ Counted /\ Opening /\ Prepared
  BY Numbers DEF Init, NewConnection, Calls, Counted, Opening, Prepared
<1>3. QED
  BY <1>1, <1>2 DEF IInv

(* A step that changes only the main thread's place, to one that says        *)
(* nothing more of the connections.                                          *)
LEMMA Leaves ==
  ASSUME IInv, main' \in {"joining", "dead"}, UNCHANGED <<at, conn, call, losses>>,
         main' = "joining" => \A c \in Connections : call[c].pc = "idle"
  PROVE  IInv'
  BY DEF IInv, TypeOK, Calls, Counted, Opening, Prepared, Types

(* A step that changes one connection and at most counts a loss: what the    *)
(* new record must satisfy.                                                  *)
Fits(r, n) ==
  /\ r \in ConnectionType
  /\ r.handle <= r.made
  /\ r.live => r.made <= n + 1
  /\ ~r.live => r.made <= n
  /\ \A s \in Statements : r.stmts[s] <= r.made

LEMMA CountedKept ==
  ASSUME IInv, NEW c \in Connections, NEW r, Fits(r, losses'),
         losses' \in Nat, losses <= losses',
         conn' = [conn EXCEPT ![c] = r]
  PROVE  conn' \in [Connections -> ConnectionType] /\ Counted'
PROOF
<1>1. conn \in [Connections -> ConnectionType] /\ losses \in Nat
  BY DEF IInv, TypeOK, ConnectionType, Handles
<1>2. conn' \in [Connections -> ConnectionType]
  BY <1>1 DEF Fits
<1>3. ASSUME NEW d \in Connections
      PROVE  /\ conn'[d].handle <= conn'[d].made
             /\ conn'[d].live => conn'[d].made <= losses' + 1
             /\ ~conn'[d].live => conn'[d].made <= losses'
             /\ \A s \in Statements : conn'[d].stmts[s] <= conn'[d].made
  <2>1. CASE d = c
    BY <1>1, <2>1 DEF Fits
  <2>2. CASE d # c
    <3>1. conn'[d] = conn[d] /\ conn[d].made \in Nat
      BY <1>1, <2>2 DEF ConnectionType, Handles
    <3>2. QED
      BY <1>1, <3>1 DEF IInv, Counted
  <2>3. QED
    BY <2>1, <2>2
<1>4. QED
  BY <1>2, <1>3 DEF Counted

(* A step of one connection and its call, with the statements left alone.    *)
LEMMA Steps ==
  ASSUME IInv, NEW c \in Connections, NEW r, NEW k \in CallType,
         UNCHANGED <<main, at>>, losses' \in 0 .. MaxLosses, losses <= losses',
         Fits(r, losses'), r.stmts = conn[c].stmts,
         conn' = [conn EXCEPT ![c] = r], call' = [call EXCEPT ![c] = k],
         main = "opening" => r.made = conn[c].made /\ (r.live => conn[c].live),
         k.pc # "idle" => main \in {"serving", "dead"},
         k.pc \in {"asked", "sent"} => k.ran = 0,
         k.pc = "lost" => ~r.live
  PROVE  IInv'
PROOF
<1> losses' \in Nat
  OBVIOUS
<1>1. conn' \in [Connections -> ConnectionType] /\ Counted'
  BY CountedKept
<1>2. /\ conn \in [Connections -> ConnectionType] /\ call \in [Connections -> CallType]
      /\ call' \in [Connections -> CallType]
  BY DEF IInv, TypeOK, ConnectionType, CallType, Handles
<1>3. TypeOK'
  BY <1>1, <1>2 DEF IInv, TypeOK, ConnectionType, CallType, Handles
<1>4. /\ \A d \in Connections : d # c => conn'[d] = conn[d] /\ call'[d] = call[d]
      /\ conn'[c] = r /\ call'[c] = k
  BY <1>2
<1>5. Calls'
  BY <1>4 DEF IInv, Calls
<1>6. Opening'
  BY <1>4 DEF IInv, Opening
<1>7. Prepared'
  <2>1. \A d \in Connections : conn'[d].stmts = conn[d].stmts
    BY <1>4
  <2>2. QED
    BY <2>1, Numbers DEF IInv, Prepared, Types
<1>8. QED
  BY <1>1, <1>3, <1>5, <1>6, <1>7 DEF IInv

(* What a step finds, without a change, fits.                                *)
LEMMA Unchanged ==
  ASSUME IInv, NEW c \in Connections
  PROVE  /\ conn \in [Connections -> ConnectionType] /\ call \in [Connections -> CallType]
         /\ conn = [conn EXCEPT ![c] = conn[c]] /\ call = [call EXCEPT ![c] = call[c]]
         /\ losses \in 0 .. MaxLosses
         /\ Fits(conn[c], losses)
PROOF
<1>1. /\ conn \in [Connections -> ConnectionType] /\ call \in [Connections -> CallType]
      /\ losses \in 0 .. MaxLosses
  BY DEF IInv, TypeOK, ConnectionType, CallType, Handles
<1>2. QED
  BY <1>1 DEF IInv, Counted, Fits

(* A step of a call that leaves the connection alone.                        *)
LEMMA CallMoves ==
  ASSUME IInv, NEW c \in Connections, NEW k \in CallType,
         UNCHANGED <<main, at, conn, losses>>, main = "serving",
         call' = [call EXCEPT ![c] = k],
         k.pc \in {"asked", "sent"} => k.ran = 0,
         k.pc = "lost" => ~conn[c].live
  PROVE  IInv'
PROOF
<1> DEFINE r == conn[c]
<1>1. Fits(r, losses') /\ losses' \in 0 .. MaxLosses /\ losses <= losses'
  BY Unchanged
<1>2. conn' = [conn EXCEPT ![c] = r] /\ r.stmts = conn[c].stmts
  BY Unchanged
<1>3. main # "opening"
  OBVIOUS
<1>4. k.pc = "lost" => ~r.live
  OBVIOUS
<1> HIDE DEF r
<1>5. QED
  BY <1>1, <1>2, <1>3, <1>4, Steps

LEMMA OpenConnectionKeeps ==
  ASSUME IInv, OpenConnection
  PROVE  IInv'
PROOF
<1>1. PICK r \in {Connected(conn[at]), Unconnected(conn[at])} : conn' = [conn EXCEPT ![at] = r]
  BY DEF OpenConnection
<1>2. /\ main = "opening" /\ at \in Connections /\ at' = at + 1
      /\ UNCHANGED <<main, call, losses>>
  BY DEF OpenConnection
<1>3. /\ conn \in [Connections -> ConnectionType] /\ losses \in 0 .. MaxLosses
      /\ Fits(conn[at], losses)
  BY <1>2, Unchanged
<1>4. conn[at].made = 0
  BY <1>2 DEF IInv, Opening, Connections
<1>5. r.stmts = conn[at].stmts /\ Fits(r, losses)
  <2>1. conn[at] \in ConnectionType /\ conn[at].made + 1 \in Handles
    BY <1>2, <1>3, <1>4 DEF Handles
  <2>2. CASE r = Connected(conn[at])
    BY <1>3, <1>4, <2>1, <2>2, ConnectGives DEF Fits, ConnectionType, Handles
  <2>3. CASE r = Unconnected(conn[at])
    BY <1>3, <1>4, <2>1, <2>3, NoConnectGives DEF Fits, ConnectionType, Handles
  <2>4. QED
    BY <1>1, <2>2, <2>3
<1>6. conn' \in [Connections -> ConnectionType] /\ Counted'
  <2>1. losses' \in Nat /\ losses <= losses' /\ Fits(r, losses')
    BY <1>2, <1>3, <1>5
  <2>2. QED
    BY <1>1, <1>2, <2>1, CountedKept
<1>7. TypeOK'
  <2>1. at' \in 1 .. N + 1
    BY <1>2, Numbers DEF Connections
  <2>2. TypeOK
    BY DEF IInv
  <2>3. QED
    BY <1>2, <1>6, <2>1, <2>2 DEF TypeOK, ConnectionType, Handles
<1>8. Calls'
  <2>1. \A c \in Connections : call[c].pc = "idle"
    BY <1>2 DEF IInv, Calls
  <2>2. QED
    BY <1>2, <2>1 DEF Calls
<1>9. Opening'
  <2>1. \A c \in Connections : at' <= c => at <= c /\ conn'[c] = conn[c]
    BY <1>1, <1>2, <1>3 DEF Connections, N
  <2>2. QED
    BY <1>2, <2>1 DEF IInv, Opening
<1>10. Prepared'
  BY <1>2 DEF Prepared
<1>11. QED
  BY <1>6, <1>7, <1>8, <1>9, <1>10 DEF IInv

LEMMA PrepareStatementsKeeps ==
  ASSUME IInv, PrepareStatements
  PROVE  IInv'
PROOF
<1> DEFINE t == [s \in Statements |-> IF at \in Types(s) THEN conn[at].handle ELSE 0]
           r == [conn[at] EXCEPT !.stmts = t]
<1>1. /\ main = "preparing" /\ at \in Connections /\ at' = at + 1
      /\ conn[at].handle # 0 /\ conn' = [conn EXCEPT ![at] = r]
      /\ UNCHANGED <<main, call, losses>>
  BY DEF PrepareStatements
<1>2. /\ conn \in [Connections -> ConnectionType] /\ losses \in 0 .. MaxLosses
      /\ Fits(conn[at], losses)
  BY <1>1, Unchanged
<1>3. conn[at] \in ConnectionType
  BY <1>1, <1>2
<1>4. /\ t \in [Statements -> Handles]
      /\ \A s \in Statements : t[s] <= conn[at].made
      /\ \A s \in Statements : at \in Types(s) => t[s] # 0
  BY <1>1, <1>2, <1>3 DEF Fits, ConnectionType, Handles
<1> HIDE DEF t
<1>5. /\ r \in ConnectionType /\ r.handle = conn[at].handle
      /\ r.made = conn[at].made /\ r.live = conn[at].live /\ r.stmts = t
  BY <1>3, <1>4 DEF ConnectionType
<1>6. Fits(r, losses)
  BY <1>2, <1>4, <1>5 DEF Fits
<1> HIDE DEF r
<1>7. conn' \in [Connections -> ConnectionType] /\ Counted'
  <2>1. losses' \in Nat /\ losses <= losses' /\ Fits(r, losses')
    BY <1>1, <1>2, <1>6
  <2>2. QED
    BY <1>1, <2>1, CountedKept
<1>8. TypeOK'
  <2>1. at' \in 1 .. N + 1
    BY <1>1, Numbers DEF Connections
  <2>2. TypeOK
    BY DEF IInv
  <2>3. QED
    BY <1>1, <1>7, <2>1, <2>2 DEF TypeOK, ConnectionType, Handles
<1>9. /\ conn'[at] = r
      /\ \A c \in Connections : c # at => conn'[c] = conn[c]
  BY <1>1, <1>2
<1>10. Calls'
  <2>1. \A c \in Connections : call[c].pc = "idle"
    BY <1>1 DEF IInv, Calls
  <2>2. QED
    BY <1>1, <2>1 DEF Calls
<1>11. Opening'
  BY <1>1 DEF Opening
<1>12. Prepared'
  <2> SUFFICES ASSUME NEW s \in Statements, NEW c \in Types(s), c < at + 1
               PROVE  conn'[c].stmts[s] # 0
    BY <1>1 DEF Prepared, Types
  <2>1. c \in Connections /\ at \in Nat /\ c \in Nat
    BY <1>1, Numbers DEF N, Connections
  <2>2. CASE c = at
    BY <1>4, <1>5, <1>9, <2>2
  <2>3. CASE c # at
    BY <1>1, <1>9, <2>1, <2>3 DEF IInv, Prepared
  <2>4. QED
    BY <2>2, <2>3
<1>13. QED
  BY <1>7, <1>8, <1>10, <1>11, <1>12 DEF IInv

LEMMA StartWorkerThreadsKeeps ==
  ASSUME IInv, StartWorkerThreads
  PROVE  IInv'
PROOF
<1>1. /\ main = "opening" /\ main' = "preparing" /\ at' = 1
      /\ UNCHANGED <<conn, call, losses>>
  BY DEF StartWorkerThreads
<1>2. TypeOK'
  BY <1>1, Numbers DEF IInv, TypeOK
<1>3. Calls'
  BY <1>1 DEF IInv, Calls
<1>4. Counted' /\ Opening'
  BY <1>1 DEF IInv, Counted, Opening
<1>5. Prepared'
  BY <1>1, Numbers DEF Prepared, Types
<1>6. QED
  BY <1>2, <1>3, <1>4, <1>5 DEF IInv

LEMMA ServeKeeps ==
  ASSUME IInv, Serve
  PROVE  IInv'
PROOF
<1>1. /\ main = "preparing" /\ main' = "serving" /\ at > N
      /\ UNCHANGED <<at, conn, call, losses>>
  BY DEF Serve
<1>2. TypeOK'
  BY <1>1 DEF IInv, TypeOK
<1>3. Calls' /\ Counted' /\ Opening'
  BY <1>1 DEF IInv, Calls, Counted, Opening
<1>4. Prepared'
  <2> SUFFICES ASSUME NEW s \in Statements, NEW c \in Types(s)
               PROVE  conn[c].stmts[s] # 0
    BY <1>1 DEF Prepared, Types
  <2>1. c \in Connections /\ N \in Nat /\ at \in Nat
    BY Numbers DEF IInv, TypeOK
  <2>2. c < at
    BY <1>1, <2>1 DEF Connections
  <2>3. QED
    BY <1>1, <2>2 DEF IInv, Prepared
<1>5. QED
  BY <1>2, <1>3, <1>4 DEF IInv

(* Every way the process ends.                                               *)
LEMMA DieKeeps ==
  ASSUME IInv, Die
  PROVE  IInv'
  BY Leaves DEF Die

LEMMA PrepareFailsKeeps ==
  ASSUME IInv, PrepareFails
  PROVE  IInv'
PROOF
<1>1. main = "preparing" /\ main' \in {"joining", "dead"} /\ UNCHANGED <<at, conn, call, losses>>
  BY DEF PrepareFails, Close
<1>2. \A c \in Connections : call[c].pc = "idle"
  BY <1>1 DEF IInv, Calls
<1>3. QED
  BY <1>1, <1>2, Leaves

LEMMA MainKeeps ==
  ASSUME IInv, Main \/ Exit
  PROVE  IInv'
  BY OpenConnectionKeeps, PrepareStatementsKeeps, StartWorkerThreadsKeeps, ServeKeeps,
     DieKeeps, PrepareFailsKeeps DEF Main, Exit, OpenFails, PrepareOnNull

(* What a call returns.                                                      *)
LEMMA Returned ==
  ASSUME IInv, NEW c \in Connections, NEW n \in {0, 1}, NEW success \in BOOLEAN,
         Return(c, n, success)
  PROVE  \E k \in CallType : /\ call' = [call EXCEPT ![c] = k]
                            /\ k.pc = "idle" /\ k.ran = n /\ k.ok = success
PROOF
<1> DEFINE k == [call[c] EXCEPT !.pc = "idle", !.ran = n, !.ok = success]
<1>1. call[c] \in CallType
  BY Unchanged
<1>2. k \in CallType /\ k.pc = "idle" /\ k.ran = n /\ k.ok = success
  BY <1>1 DEF CallType
<1>3. call' = [call EXCEPT ![c] = k]
  BY DEF Return
<1> HIDE DEF k
<1>4. QED
  BY <1>2, <1>3

LEMMA ReturnKeeps ==
  ASSUME IInv, NEW c \in Connections, NEW n \in {0, 1}, NEW success \in BOOLEAN,
         main = "serving", UNCHANGED <<main, at, conn, losses>>, Return(c, n, success)
  PROVE  IInv'
PROOF
<1>1. PICK k \in CallType : call' = [call EXCEPT ![c] = k] /\ k.pc = "idle"
  BY Returned
<1>2. QED
  BY <1>1, CallMoves

LEMMA AskKeeps ==
  ASSUME IInv, NEW c \in Callable, NEW s \in Statements \union {Text}, Ask(c, s)
  PROVE  IInv'
PROOF
<1> DEFINE k == [pc |-> "asked", stmt |-> s, ran |-> 0, ok |-> FALSE]
<1>1. /\ k \in CallType /\ k.pc = "asked" /\ k.ran = 0
      /\ main = "serving" /\ call' = [call EXCEPT ![c] = k]
      /\ UNCHANGED <<main, at, conn, losses>>
  BY DEF Ask, CallType
<1> HIDE DEF k
<1>2. QED
  BY <1>1, Numbers, CallMoves

(* Only the place of a call changes.                                         *)
LEMMA Placed ==
  ASSUME IInv, NEW c \in Connections, NEW p \in {"idle", "asked", "sent", "lost"},
         call' = [call EXCEPT ![c].pc = p]
  PROVE  \E k \in CallType : /\ call' = [call EXCEPT ![c] = k]
                            /\ k.pc = p /\ k.ran = call[c].ran /\ k.ok = call[c].ok
PROOF
<1> DEFINE k == [call[c] EXCEPT !.pc = p]
<1>1. call[c] \in CallType
  BY Unchanged
<1>2. k \in CallType /\ k.pc = p /\ k.ran = call[c].ran /\ k.ok = call[c].ok
  BY <1>1 DEF CallType
<1>3. call' = [call EXCEPT ![c] = k]
  OBVIOUS
<1> HIDE DEF k
<1>4. QED
  BY <1>2, <1>3

LEMMA BeginKeeps ==
  ASSUME IInv, NEW c \in Callable, Begin(c)
  PROVE  IInv'
PROOF
<1>1. c \in Connections /\ main = "serving" /\ call[c].pc = "asked" /\ call[c].ran = 0
  BY Numbers DEF IInv, Calls, Begin
<1>2. CASE Return(c, 0, FALSE) /\ UNCHANGED <<main, at, conn, losses>>
  BY <1>1, <1>2, ReturnKeeps
<1>3. CASE Die
  BY <1>3, DieKeeps
<1>4. CASE call' = [call EXCEPT ![c].pc = "sent"] /\ UNCHANGED <<main, at, conn, losses>>
  <2>1. PICK k \in CallType : /\ call' = [call EXCEPT ![c] = k]
                             /\ k.pc = "sent" /\ k.ran = call[c].ran
    BY <1>1, <1>4, Placed
  <2>2. k.ran = 0 /\ k.pc # "lost"
    BY <1>1, <2>1
  <2>3. QED
    BY <1>1, <1>4, <2>1, <2>2, CallMoves
<1>5. QED
  BY <1>2, <1>3, <1>4 DEF Begin

LEMMA SucceedKeeps ==
  ASSUME IInv, NEW c \in Callable, Succeed(c)
  PROVE  IInv'
PROOF
<1> DEFINE n == call[c].ran + 1
<1>1. c \in Connections /\ main = "serving" /\ call[c].ran = 0
      /\ UNCHANGED <<main, at, conn, losses>>
  BY Numbers DEF IInv, Calls, Succeed
<1>2. Return(c, n, TRUE)
  BY Zenon DEF Succeed
<1>3. n \in {0, 1}
  BY <1>1
<1> HIDE DEF n
<1>4. QED
  BY <1>1, <1>2, <1>3, ReturnKeeps

LEMMA RefusedKeeps ==
  ASSUME IInv, NEW c \in Callable, Refused(c)
  PROVE  IInv'
PROOF
<1>1. c \in Connections /\ main = "serving" /\ call[c].ran \in {0, 1}
      /\ Return(c, call[c].ran, FALSE) /\ UNCHANGED <<main, at, conn, losses>>
  BY Numbers, Unchanged DEF CallType, Refused, Unhandled
<1>2. QED
  BY <1>1, ReturnKeeps

(* A session ends.                                                           *)
LEMMA SessionEnds ==
  ASSUME IInv, NEW c \in Connections, conn[c].live, losses < MaxLosses,
         losses' = losses + 1, conn' = [conn EXCEPT ![c].live = FALSE]
  PROVE  /\ losses' \in 0 .. MaxLosses /\ losses <= losses'
         /\ \E r : /\ conn' = [conn EXCEPT ![c] = r] /\ Fits(r, losses')
                  /\ r.stmts = conn[c].stmts /\ r.made = conn[c].made /\ ~r.live
PROOF
<1> DEFINE r == [conn[c] EXCEPT !.live = FALSE]
<1>1. /\ conn[c] \in ConnectionType /\ losses \in 0 .. MaxLosses
      /\ Fits(conn[c], losses)
  BY Unchanged
<1>2. /\ r \in ConnectionType /\ r.handle = conn[c].handle
      /\ r.made = conn[c].made /\ ~r.live /\ r.stmts = conn[c].stmts
  BY <1>1 DEF ConnectionType
<1>3. conn' = [conn EXCEPT ![c] = r]
  OBVIOUS
<1> HIDE DEF r
<1>4. Fits(r, losses') /\ losses' \in 0 .. MaxLosses /\ losses <= losses'
  BY <1>1, <1>2 DEF Fits, ConnectionType, Handles
<1>5. QED
  BY <1>2, <1>3, <1>4

LEMMA DropKeeps ==
  ASSUME IInv, NEW c \in Connections, Drop(c)
  PROVE  IInv'
PROOF
<1> DEFINE k == call[c]
<1>1. /\ conn[c].live /\ losses < MaxLosses /\ losses' = losses + 1
      /\ UNCHANGED <<main, at, call>> /\ conn' = [conn EXCEPT ![c].live = FALSE]
  BY DEF Drop
<1>2. k \in CallType /\ call' = [call EXCEPT ![c] = k]
  BY <1>1, Unchanged
<1>3. losses' \in 0 .. MaxLosses /\ losses <= losses'
  BY <1>1, SessionEnds
<1>4. PICK r : /\ conn' = [conn EXCEPT ![c] = r] /\ Fits(r, losses')
               /\ r.stmts = conn[c].stmts /\ r.made = conn[c].made /\ ~r.live
  BY <1>1, SessionEnds
<1>5. /\ k.pc # "idle" => main \in {"serving", "dead"}
      /\ k.pc \in {"asked", "sent"} => k.ran = 0
  BY DEF IInv, Calls
<1> HIDE DEF k
<1>6. QED
  BY <1>1, <1>2, <1>3, <1>4, <1>5, Steps

LEMMA LostKeeps ==
  ASSUME IInv, NEW c \in Callable, Lost(c)
  PROVE  IInv'
PROOF
<1>1. /\ c \in Connections /\ main = "serving" /\ call[c].pc = "sent" /\ call[c].ran = 0
      /\ UNCHANGED <<main, at>>
  BY Numbers DEF IInv, Calls, Lost
<1>2. CASE ~conn[c].live /\ UNCHANGED <<conn, losses>> /\ call' = [call EXCEPT ![c].pc = "lost"]
  <2>1. PICK k \in CallType : call' = [call EXCEPT ![c] = k] /\ k.pc = "lost"
    BY <1>1, <1>2, Placed
  <2>2. QED
    BY <1>1, <1>2, <2>1, CallMoves
<1>3. CASE /\ conn[c].live /\ losses < MaxLosses /\ losses' = losses + 1
           /\ conn' = [conn EXCEPT ![c].live = FALSE]
           /\ call' = [call EXCEPT ![c].pc = "lost", ![c].ran = @ + 1]
  <2> DEFINE n == call[c].ran + 1
             k == [call[c] EXCEPT !.pc = "lost", !.ran = n]
  <2>1. k \in CallType /\ k.pc = "lost"
    <3>1. n \in {0, 1} /\ call[c] \in CallType
      BY <1>1, Unchanged
    <3> HIDE DEF n
    <3>2. QED
      BY <3>1 DEF CallType
  <2>2. call' = [call EXCEPT ![c] = k]
    BY <1>1, <1>3, Unchanged
  <2> HIDE DEF k
  <2>3. losses' \in 0 .. MaxLosses /\ losses <= losses'
    BY <1>1, <1>3, SessionEnds
  <2>4. PICK r : /\ conn' = [conn EXCEPT ![c] = r] /\ Fits(r, losses')
                 /\ r.stmts = conn[c].stmts /\ r.made = conn[c].made /\ ~r.live
    BY <1>1, <1>3, SessionEnds
  <2>5. QED
    BY <1>1, <2>1, <2>2, <2>3, <2>4, Steps
<1>4. QED
  BY <1>2, <1>3 DEF Lost

LEMMA ReopenKeeps ==
  ASSUME IInv, NEW c \in Callable, Reopen(c)
  PROVE  IInv'
PROOF
<1>1. PICK r \in {Connected(conn[c]), Unconnected(conn[c])} : conn' = [conn EXCEPT ![c] = r]
  BY DEF Reopen
<1>2. /\ c \in Connections /\ main = "serving" /\ ~conn[c].live
      /\ UNCHANGED <<main, at, losses>> /\ Return(c, call[c].ran, FALSE)
  BY Numbers DEF IInv, Calls, Reopen, Unhandled
<1>3. /\ conn[c] \in ConnectionType /\ losses \in 0 .. MaxLosses /\ Fits(conn[c], losses)
      /\ call[c].ran \in {0, 1}
  BY <1>2, Unchanged DEF CallType
<1>4. r.stmts = conn[c].stmts /\ Fits(r, losses)
  <2>1. conn[c].made + 1 \in Handles /\ conn[c].made <= losses
    BY <1>2, <1>3 DEF Fits, ConnectionType, Handles
  <2>2. CASE r = Connected(conn[c])
    BY <1>3, <2>1, <2>2, ConnectGives DEF Fits, ConnectionType, Handles
  <2>3. CASE r = Unconnected(conn[c])
    BY <1>3, <2>1, <2>3, NoConnectGives DEF Fits, ConnectionType, Handles
  <2>4. QED
    BY <1>1, <2>2, <2>3
<1>5. PICK k \in CallType : call' = [call EXCEPT ![c] = k] /\ k.pc = "idle"
  BY <1>2, <1>3, Returned
<1>6. losses' \in 0 .. MaxLosses /\ losses <= losses' /\ Fits(r, losses')
  BY <1>2, <1>3, <1>4
<1>7. main # "opening" /\ k.pc \notin {"asked", "sent", "lost"}
  BY <1>2, <1>5
<1>8. QED
  BY <1>1, <1>2, <1>4, <1>5, <1>6, <1>7, Steps

LEMMA RunKeeps ==
  ASSUME IInv, NEW c \in Callable, Run(c)
  PROVE  IInv'
  BY BeginKeeps, SucceedKeeps, RefusedKeeps, LostKeeps, ReopenKeeps, DieKeeps
     DEF Run, Unusable, ReopenFails

THEOREM NextPreserves == IInv /\ [Next]_vars => IInv'
PROOF
<1> SUFFICES ASSUME IInv, [Next]_vars PROVE IInv'
  OBVIOUS
<1>1. CASE Main \/ Exit
  BY <1>1, MainKeeps
<1>2. ASSUME NEW c \in Callable, Run(c)
      PROVE  IInv'
  BY <1>2, RunKeeps
<1>3. ASSUME NEW c \in Callable, NEW s \in Statements \union {Text}, Ask(c, s)
      PROVE  IInv'
  BY <1>3, AskKeeps
<1>4. ASSUME NEW c \in Connections, Drop(c)
      PROVE  IInv'
  BY <1>4, DropKeeps
<1>5. CASE UNCHANGED vars
  BY <1>5 DEF vars, IInv, TypeOK, Calls, Counted, Opening, Prepared, Types
<1>6. QED
  BY <1>1, <1>2, <1>3, <1>4, <1>5 DEF Next

THEOREM Invariance == Spec => []IInv
PROOF
<1>1. QED
  BY InitEstablishes, NextPreserves, PTL DEF Spec

(* The types hold for any number of connections and losses: in particular no *)
(* call's statement takes effect twice, and connects only follow losses.     *)
THEOREM TypeCorrect == Spec => []TypeOK
PROOF
<1>1. IInv => TypeOK
  BY DEF IInv
<1>2. QED
  BY <1>1, Invariance, PTL

(* main serves only when every connection was connected and prepared, though *)
(* Open may claim success with a null handle and main ignores what it and    *)
(* PrepareStatements return.                                                 *)
THEOREM PoolComplete == Spec => []NeverHalfOpen
PROOF
<1>1. ASSUME IInv PROVE NeverHalfOpen
  <2> SUFFICES ASSUME main = "serving", NEW s \in Statements, NEW c \in Types(s)
               PROVE  conn[c].made > 0 /\ conn[c].stmts[s] # 0
    BY DEF NeverHalfOpen
  <2>1. c \in Connections /\ conn[c] \in ConnectionType
    BY <1>1, Numbers, Unchanged
  <2>2. conn[c].stmts[s] # 0
    BY <1>1 DEF IInv, Prepared
  <2>3. conn[c].stmts[s] <= conn[c].made
    BY <1>1, <2>1 DEF IInv, Counted
  <2>4. QED
    BY <2>1, <2>2, <2>3 DEF ConnectionType, Handles
<1>2. QED
  BY <1>1, Invariance, PTL

(* What the promise sees of the calls.                                       *)
Busy == [c \in Callable |-> call[c].pc # "idle"]
Ran  == [c \in Callable |-> call[c].ran]
Ok   == [c \in Callable |-> call[c].ok]

(* A call's record seen by the promise.                                      *)
LEMMA Seen ==
  ASSUME IInv, NEW c \in Callable, NEW k \in CallType, call' = [call EXCEPT ![c] = k]
  PROVE  /\ Ran' = [Ran EXCEPT ![c] = k.ran]
         /\ Ok' = [Ok EXCEPT ![c] = k.ok]
         /\ k.pc = "idle" => Busy' = [Busy EXCEPT ![c] = FALSE]
         /\ k.pc # "idle" => Busy' = [Busy EXCEPT ![c] = TRUE]
PROOF
<1>1. c \in Connections /\ Callable \subseteq Connections
  BY Numbers
<1>2. call'[c] = k /\ \A d \in Callable : d # c => call'[d] = call[d]
  BY <1>1, Unchanged
<1>3. Ran' = [Ran EXCEPT ![c] = k.ran]
  <2>1. Ran' = [d \in Callable |-> IF d = c THEN k.ran ELSE Ran[d]]
    BY <1>2 DEF Ran
  <2>2. Ran = [d \in Callable |-> Ran[d]]
    BY DEF Ran
  <2>3. QED
    BY <2>1, <2>2
<1>4. Ok' = [Ok EXCEPT ![c] = k.ok]
  <2>1. Ok' = [d \in Callable |-> IF d = c THEN k.ok ELSE Ok[d]]
    BY <1>2 DEF Ok
  <2>2. Ok = [d \in Callable |-> Ok[d]]
    BY DEF Ok
  <2>3. QED
    BY <2>1, <2>2
<1>5. ASSUME k.pc = "idle" PROVE Busy' = [Busy EXCEPT ![c] = FALSE]
  BY <1>2, <1>5 DEF Busy
<1>6. ASSUME k.pc # "idle" PROVE Busy' = [Busy EXCEPT ![c] = TRUE]
  BY <1>2, <1>6 DEF Busy
<1>7. QED
  BY <1>3, <1>4, <1>5, <1>6

(* The promise's steps, in terms of what it sees.                            *)
LEMMA PromisedAsk ==
  ASSUME NEW c \in Callable, main = "serving", main' = "serving", ~Busy[c],
         Busy' = [Busy EXCEPT ![c] = TRUE],
         Ran' = [Ran EXCEPT ![c] = 0], Ok' = [Ok EXCEPT ![c] = FALSE]
  PROVE  Promise!Next
  BY DEF Promise!Next, Promise!Ask, Busy, Ran, Ok

LEMMA PromisedEffect ==
  ASSUME NEW c \in Callable, main = "serving", main' = "serving", Busy[c], Ran[c] = 0,
         Ran' = [Ran EXCEPT ![c] = 1], UNCHANGED <<Busy, Ok>>
  PROVE  Promise!Next
  BY DEF Promise!Next, Promise!TakeEffect, Busy, Ran, Ok

LEMMA PromisedReturn ==
  ASSUME NEW c \in Callable, main = "serving", main' = "serving", Busy[c],
         Busy' = [Busy EXCEPT ![c] = FALSE],
         NEW n \in {Ran[c], 1}, NEW success \in BOOLEAN, success => n = 1,
         Ran' = [Ran EXCEPT ![c] = n], Ok' = [Ok EXCEPT ![c] = success]
  PROVE  Promise!Next
  BY DEF Promise!Next, Promise!Return, Busy, Ran, Ok

LEMMA PromisedDeath ==
  ASSUME main # "dead", main' = "dead", call' = call
  PROVE  Promise!Next
  BY DEF Promise!Next, Promise!Die

LEMMA PromisedStutter ==
  ASSUME main' = "dead" <=> main = "dead", UNCHANGED <<Busy, Ran, Ok>>
  PROVE  UNCHANGED Promise!vars
  BY DEF Promise!vars, Busy, Ran, Ok

(* A call returns.                                                           *)
LEMMA ReturnPromised ==
  ASSUME IInv, NEW c \in Callable, call[c].pc # "idle",
         main = "serving", main' = main,
         NEW n \in {call[c].ran, 1}, NEW success \in BOOLEAN, success => n = 1,
         Return(c, n, success)
  PROVE  Promise!Next
PROOF
<1>1. c \in Connections /\ n \in {0, 1} /\ Busy[c] /\ n \in {Ran[c], 1}
  BY Numbers, Unchanged DEF CallType, Busy, Ran
<1>2. PICK k \in CallType : /\ call' = [call EXCEPT ![c] = k]
                           /\ k.pc = "idle" /\ k.ran = n /\ k.ok = success
  BY <1>1, Returned
<1>3. /\ Busy' = [Busy EXCEPT ![c] = FALSE]
      /\ Ran' = [Ran EXCEPT ![c] = n] /\ Ok' = [Ok EXCEPT ![c] = success]
  BY <1>2, Seen
<1>4. QED
  BY <1>1, <1>3, PromisedReturn

(* Only the place of a call changes, and it does not return.                 *)
LEMMA PlacedPromised ==
  ASSUME IInv, NEW c \in Callable, call[c].pc # "idle", main' = main,
         NEW p \in {"asked", "sent", "lost"}, call' = [call EXCEPT ![c].pc = p]
  PROVE  UNCHANGED Promise!vars
PROOF
<1>1. c \in Connections /\ Callable \subseteq Connections /\ p \in {"idle", "asked", "sent", "lost"}
  BY Numbers
<1>2. PICK k \in CallType : /\ call' = [call EXCEPT ![c] = k]
                           /\ k.pc = p /\ k.ran = call[c].ran /\ k.ok = call[c].ok
  BY <1>1, Placed
<1>3. \A d \in Callable : /\ (call'[d].pc # "idle") = (call[d].pc # "idle")
                          /\ call'[d].ran = call[d].ran /\ call'[d].ok = call[d].ok
  BY <1>1, <1>2, Unchanged
<1>4. UNCHANGED <<Busy, Ran, Ok>>
  BY <1>3 DEF Busy, Ran, Ok
<1>5. QED
  BY <1>4, PromisedStutter

LEMMA MainPromised ==
  ASSUME IInv, Main \/ Exit
  PROVE  Promise!Next \/ UNCHANGED Promise!vars
PROOF
<1>1. main # "dead" /\ call' = call
  BY DEF Main, Exit, Die, OpenConnection, OpenFails, StartWorkerThreads, PrepareStatements,
         PrepareOnNull, PrepareFails, Close, Serve
<1>2. CASE main' = "dead"
  BY <1>1, <1>2, PromisedDeath
<1>3. CASE main' # "dead"
  BY <1>1, <1>3, PromisedStutter DEF Busy, Ran, Ok
<1>4. QED
  BY <1>2, <1>3

LEMMA AskPromised ==
  ASSUME IInv, NEW c \in Callable, NEW s \in Statements \union {Text}, Ask(c, s)
  PROVE  Promise!Next
PROOF
<1> DEFINE no == FALSE
           k == [pc |-> "asked", stmt |-> s, ran |-> 0, ok |-> no]
<1>1. /\ k \in CallType /\ k.pc = "asked" /\ k.ran = 0 /\ k.ok = no
      /\ main = "serving" /\ main' = main /\ call' = [call EXCEPT ![c] = k]
  BY DEF Ask, CallType
<1>2. ~Busy[c]
  BY DEF Ask, Busy
<1> HIDE DEF k, no
<1>3. /\ Busy' = [Busy EXCEPT ![c] = TRUE]
      /\ Ran' = [Ran EXCEPT ![c] = 0] /\ Ok' = [Ok EXCEPT ![c] = no]
  BY <1>1, Seen
<1>4. Ok' = [Ok EXCEPT ![c] = FALSE]
  BY <1>3 DEF no
<1>5. QED
  BY <1>1, <1>2, <1>3, <1>4, PromisedAsk

LEMMA LostPromised ==
  ASSUME IInv, NEW c \in Callable, Lost(c)
  PROVE  Promise!Next \/ UNCHANGED Promise!vars
PROOF
<1>1. /\ c \in Connections /\ main = "serving" /\ call[c].pc = "sent" /\ call[c].ran = 0
      /\ main' = main
  BY Numbers DEF IInv, Calls, Lost
<1>2. CASE call' = [call EXCEPT ![c].pc = "lost"]
  BY <1>1, <1>2, PlacedPromised
<1>3. CASE call' = [call EXCEPT ![c].pc = "lost", ![c].ran = @ + 1]
  <2>1. /\ call'[c].pc = "lost" /\ call'[c].ran = 1 /\ call'[c].ok = call[c].ok
        /\ \A d \in Callable : d # c => call'[d] = call[d]
    BY <1>1, <1>3, Numbers, Unchanged DEF CallType
  <2>2. Busy' = Busy /\ Ok' = Ok
    BY <1>1, <2>1 DEF Busy, Ok
  <2>3. Ran' = [d \in Callable |-> IF d = c THEN 1 ELSE Ran[d]]
    BY <2>1 DEF Ran
  <2>4. Ran = [d \in Callable |-> Ran[d]] /\ Ran[c] = 0 /\ Busy[c]
    BY <1>1 DEF Ran, Busy
  <2>5. Ran' = [Ran EXCEPT ![c] = 1]
    BY <2>3, <2>4
  <2>6. QED
    BY <1>1, <2>2, <2>4, <2>5, PromisedEffect
<1>4. QED
  BY <1>2, <1>3 DEF Lost

LEMMA RunPromised ==
  ASSUME IInv, NEW c \in Callable, Run(c)
  PROVE  Promise!Next \/ UNCHANGED Promise!vars
PROOF
<1>1. c \in Connections /\ main = "serving" /\ call[c] \in CallType
  BY Numbers, Unchanged DEF Run, Begin, Succeed, Refused, Unusable, Lost, Reopen, ReopenFails
<1>2. CASE Die
  BY <1>1, <1>2, PromisedDeath DEF Die
<1>3. CASE Begin(c) /\ ~Die
  <2>1. call[c].pc = "asked" /\ call[c].ran = 0 /\ main' = main
    BY <1>1, <1>3 DEF IInv, Calls, Begin
  <2>2. CASE Return(c, 0, FALSE)
    BY <1>1, <2>1, <2>2, ReturnPromised
  <2>3. CASE call' = [call EXCEPT ![c].pc = "sent"]
    BY <2>1, <2>3, PlacedPromised
  <2>4. QED
    BY <1>3, <2>2, <2>3 DEF Begin
<1>4. CASE Succeed(c)
  <2> DEFINE n == call[c].ran + 1
  <2>1. call[c].pc = "sent" /\ call[c].ran = 0 /\ main' = main
    BY <1>1, <1>4 DEF IInv, Calls, Succeed
  <2>2. Return(c, n, TRUE)
    BY <1>4, Zenon DEF Succeed
  <2>3. n = 1
    BY <2>1
  <2> HIDE DEF n
  <2>4. QED
    BY <1>1, <2>1, <2>2, <2>3, ReturnPromised
<1>5. CASE Refused(c) \/ Reopen(c)
  <2>1. call[c].pc # "idle" /\ main' = main /\ Return(c, call[c].ran, FALSE)
    BY <1>5 DEF Refused, Reopen, Unhandled
  <2>2. QED
    BY <1>1, <2>1, ReturnPromised
<1>6. CASE Lost(c)
  BY <1>6, LostPromised
<1>7. QED
  BY <1>2, <1>3, <1>4, <1>5, <1>6 DEF Run, Unusable, ReopenFails

(* A call's statement takes effect at most once however often the server is  *)
(* lost and the handle reopened, and a call that succeeds has taken effect:  *)
(* the safety part of ImplementsAtMostOnce, for any number of connections.   *)
THEOREM AtMostOncePerCall == Spec => Promise!Spec
PROOF
<1>1. Init => Promise!Init
  <2> SUFFICES ASSUME Init PROVE Promise!Init
    OBVIOUS
  <2>1. main # "dead" /\ \A c \in Callable : call[c].pc = "idle" /\ call[c].ran = 0 /\ call[c].ok = FALSE
    BY Numbers DEF Init
  <2>2. QED
    BY <2>1 DEF Promise!Init
<1>2. IInv /\ [Next]_vars => [Promise!Next]_(Promise!vars)
  <2> SUFFICES ASSUME IInv, [Next]_vars
               PROVE  Promise!Next \/ UNCHANGED Promise!vars
    OBVIOUS
  <2>1. CASE Main \/ Exit
    BY <2>1, MainPromised
  <2>2. ASSUME NEW c \in Callable, Run(c)
        PROVE  Promise!Next \/ UNCHANGED Promise!vars
    BY <2>2, RunPromised
  <2>3. ASSUME NEW c \in Callable, NEW s \in Statements \union {Text}, Ask(c, s)
        PROVE  Promise!Next \/ UNCHANGED Promise!vars
    BY <2>3, AskPromised
  <2>4. ASSUME NEW c \in Connections, Drop(c)
        PROVE  Promise!Next \/ UNCHANGED Promise!vars
    BY <2>4, PromisedStutter DEF Drop, Busy, Ran, Ok
  <2>5. CASE UNCHANGED vars
    BY <2>5, PromisedStutter DEF vars, Busy, Ran, Ok
  <2>6. QED
    BY <2>1, <2>2, <2>3, <2>4, <2>5 DEF Next
<1>3. QED
  BY <1>1, <1>2, Invariance, PTL DEF Spec, Promise!Spec

(* No step changes _stmts under a call that looked its statement up, the     *)
(* steps of HandleMySqlErrcode among them.                                   *)
THEOREM StatementsStay == Spec => StatementOutlivesCall
PROOF
<1> DEFINE Stay == \A c \in Callable : call[c].pc \in {"sent", "lost"} => conn'[c].stmts = conn[c].stmts
<1>1. IInv /\ [Next]_vars => [Stay]_vars
  <2> SUFFICES ASSUME IInv, Next, NEW c \in Callable, call[c].pc \in {"sent", "lost"}
               PROVE  conn'[c].stmts = conn[c].stmts
    OBVIOUS
  <2>1. /\ c \in Connections /\ main \in {"serving", "dead"}
        /\ conn \in [Connections -> ConnectionType]
    BY Numbers, Unchanged DEF IInv, Calls
  <2>2. CASE Main \/ Exit
    BY <2>1, <2>2 DEF Main, Exit, Die, OpenConnection, OpenFails, StartWorkerThreads,
                      PrepareStatements, PrepareOnNull, PrepareFails, Serve
  <2>3. ASSUME NEW d \in Callable, Run(d)
        PROVE  conn'[c].stmts = conn[c].stmts
    <3>1. CASE Reopen(d)
      <4>1. PICK r \in {Connected(conn[d]), Unconnected(conn[d])} : conn' = [conn EXCEPT ![d] = r]
        BY <3>1 DEF Reopen
      <4>2. d \in Connections /\ conn[d] \in ConnectionType
        BY <2>1, Numbers
      <4>3. r.stmts = conn[d].stmts
        BY <4>1, <4>2 DEF Connected, Unconnected, ConnectionType
      <4>4. QED
        BY <2>1, <4>1, <4>2, <4>3
    <3>2. CASE Lost(d)
      BY <2>1, <3>2, Numbers DEF Lost, ConnectionType
    <3>3. CASE ~Reopen(d) /\ ~Lost(d)
      BY <2>3, <3>3 DEF Run, Begin, Succeed, Refused, Unusable, ReopenFails, Die
    <3>4. QED
      BY <3>1, <3>2, <3>3
  <2>4. ASSUME NEW d \in Callable, NEW s \in Statements \union {Text}, Ask(d, s)
        PROVE  conn'[c].stmts = conn[c].stmts
    BY <2>4 DEF Ask
  <2>5. ASSUME NEW d \in Connections, Drop(d)
        PROVE  conn'[c].stmts = conn[c].stmts
    BY <2>1, <2>5 DEF Drop, ConnectionType
  <2>6. QED
    BY <2>2, <2>3, <2>4, <2>5 DEF Next
<1>2. QED
  BY <1>1, Invariance, PTL DEF Spec, StatementOutlivesCall
===============================================================================
