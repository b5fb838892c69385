--------------------------- MODULE AsyncQueryProofs ---------------------------
(* Theorems about AsyncQuery, for every set of connections, number of        *)
(* queries and size of the counters.                                         *)
EXTENDS AsyncQuery, SequenceTheorems, TLAPS

(* What is in a list, and that it is there once.                             *)
In(q, s) == \E i \in 1 .. Len(s) : s[i] = q
Once(s) == \A i, j \in 1 .. Len(s) : s[i] = s[j] => i = j

(* The queries asked so far are posted, but for the one being asked.         *)
Asked == IF lat \in {"load", "store"} THEN asked - 1 ELSE asked
Asking ==
  /\ \A q \in Queries : future[q] # "none" <=> q <= Asked
  /\ lat = "heap" => asked < MaxQueries
  /\ lat \in {"load", "store"} => asked > 0

(* A query without an answer is at its connection: run by the worker or      *)
(* behind what the worker runs, and tasks are in the order of asking.        *)
AtWork(q, c) == q \in current[c] \/ In(q, tasks[c])
Working ==
  /\ \A c \in Conn : \A q \in Queries :
       AtWork(q, c) <=> q <= Asked /\ server[q] = c /\ ~Ready(q)
  /\ \A c \in Conn : \A q, r \in current[c] : q = r
  /\ \A c \in Conn : \A q \in current[c] : \A i \in 1 .. Len(tasks[c]) : q < tasks[c][i]
  /\ \A c \in Conn : \A i, j \in 1 .. Len(tasks[c]) : i < j => tasks[c][i] < tasks[c][j]

(* Answers come in the order asked, connection by connection.                *)
InTurn ==
  \A q, r \in Queries :
    q < r /\ r <= Asked /\ server[q] = server[r] /\ Ready(r) => Ready(q)

(* A callback is in one of the four lists, once; those called were ready.    *)
Places ==
  /\ Once(delivered) /\ Once(kept) /\ Once(batch) /\ Once(callbacks)
  /\ \A q \in Queries :
       /\ ~(In(q, delivered) /\ In(q, kept)) /\ ~(In(q, delivered) /\ In(q, batch))
       /\ ~(In(q, delivered) /\ In(q, callbacks)) /\ ~(In(q, kept) /\ In(q, batch))
       /\ ~(In(q, kept) /\ In(q, callbacks)) /\ ~(In(q, batch) /\ In(q, callbacks))
       /\ In(q, delivered) \/ In(q, kept) \/ In(q, batch) \/ In(q, callbacks) <=> q <= Asked
       /\ In(q, delivered) => Ready(q)

IInv == TypeOK /\ Asking /\ Working /\ InTurn /\ Places

USE BoundAssumption

(* Adding what is not there, taking the first, and the empty list.           *)
LEMMA Added ==
  ASSUME NEW s \in Seq(Queries), NEW c \in Queries
  PROVE  /\ Append(s, c) \in Seq(Queries)
         /\ \A d : In(d, Append(s, c)) <=> In(d, s) \/ d = c
         /\ Once(s) /\ ~In(c, s) => Once(Append(s, c))
PROOF
<1> DEFINE t == Append(s, c)
<1>1. /\ t \in Seq(Queries) /\ Len(s) \in Nat /\ Len(t) = Len(s) + 1
      /\ \A i \in 1 .. Len(s) : t[i] = s[i]
      /\ t[Len(s) + 1] = c
  BY AppendProperties, LenProperties
<1> HIDE DEF t
<1>2. ASSUME NEW d, In(d, t) PROVE In(d, s) \/ d = c
  BY <1>1, <1>2 DEF In
<1>3. ASSUME NEW d, In(d, s) \/ d = c PROVE In(d, t)
  <2>1. CASE In(d, s)
    <3>1. PICK i \in 1 .. Len(s) : s[i] = d
      BY <2>1 DEF In
    <3>2. i \in 1 .. Len(t) /\ t[i] = d
      BY <1>1, <3>1
    <3>3. QED
      BY <3>2 DEF In
  <2>2. CASE d = c
    <3>1. Len(s) + 1 \in 1 .. Len(t)
      BY <1>1
    <3>2. QED
      BY <1>1, <2>2, <3>1 DEF In
  <2>3. QED
    BY <1>3, <2>1, <2>2
<1>4. ASSUME Once(s), ~In(c, s) PROVE Once(t)
  BY <1>1, <1>4 DEF Once, In
<1>5. QED
  BY <1>1, <1>2, <1>3, <1>4 DEF t

LEMMA Taken ==
  ASSUME NEW s \in Seq(Queries), s # <<>>
  PROVE  /\ Head(s) \in Queries /\ Tail(s) \in Seq(Queries)
         /\ \A d : In(d, s) <=> In(d, Tail(s)) \/ d = Head(s)
         /\ Once(s) => Once(Tail(s)) /\ ~In(Head(s), Tail(s))
PROOF
<1> DEFINE t == Tail(s)
<1>1. /\ Head(s) \in Queries /\ t \in Seq(Queries) /\ Len(s) \in Nat \ {0}
      /\ Len(t) = Len(s) - 1 /\ Head(s) = s[1]
      /\ \A i \in 1 .. Len(t) : t[i] = s[i + 1]
  BY HeadTailProperties, EmptySeq
<1> HIDE DEF t
<1>2. ASSUME NEW d, In(d, s) PROVE In(d, t) \/ d = Head(s)
  <2>1. PICK i \in 1 .. Len(s) : s[i] = d
    BY <1>2 DEF In
  <2>2. i = 1 \/ (i - 1 \in 1 .. Len(t) /\ t[i - 1] = d)
    BY <1>1, <2>1
  <2>3. QED
    BY <1>1, <2>1, <2>2 DEF In
<1>3. ASSUME NEW d, In(d, t) \/ d = Head(s) PROVE In(d, s)
  <2>1. CASE In(d, t)
    <3>1. PICK i \in 1 .. Len(t) : t[i] = d
      BY <2>1 DEF In
    <3>2. i + 1 \in 1 .. Len(s) /\ s[i + 1] = d
      BY <1>1, <3>1
    <3>3. QED
      BY <3>2 DEF In
  <2>2. CASE d = Head(s)
    BY <1>1, <2>2 DEF In
  <2>3. QED
    BY <1>3, <2>1, <2>2
<1>4. ASSUME Once(s) PROVE Once(t) /\ ~In(Head(s), t)
  BY <1>1, <1>4 DEF Once, In
<1>5. QED
  BY <1>1, <1>2, <1>3, <1>4 DEF t

LEMMA None == <<>> \in Seq(Queries) /\ Once(<<>>) /\ \A d : ~In(d, <<>>)
  BY EmptySeq DEF Once, In

(* Two lists with nothing in common, one behind the other.                   *)
LEMMA Joined ==
  ASSUME NEW s \in Seq(Queries), NEW t \in Seq(Queries)
  PROVE  /\ s \o t \in Seq(Queries)
         /\ \A q : In(q, s \o t) <=> In(q, s) \/ In(q, t)
         /\ Once(s) /\ Once(t) /\ (\A q \in Queries : ~(In(q, s) /\ In(q, t))) => Once(s \o t)
PROOF
<1> DEFINE u == s \o t
<1>1. /\ u \in Seq(Queries) /\ Len(s) \in Nat /\ Len(t) \in Nat /\ Len(u) = Len(s) + Len(t)
      /\ \A i \in 1 .. Len(s) : s[i] \in Queries
      /\ \A i \in 1 .. Len(t) : t[i] \in Queries
  BY ConcatProperties, LenProperties, ElementOfSeq
<1>2. /\ \A i \in 1 .. Len(s) : i \in 1 .. Len(u) /\ u[i] = s[i]
      /\ \A i \in 1 .. Len(t) : i + Len(s) \in 1 .. Len(u) /\ u[i + Len(s)] = t[i]
      /\ \A i \in 1 .. Len(u) : i <= Len(s) => i \in 1 .. Len(s) /\ u[i] = s[i]
      /\ \A i \in 1 .. Len(u) :
           ~(i <= Len(s)) => i - Len(s) \in 1 .. Len(t) /\ u[i] = t[i - Len(s)]
  BY <1>1, ConcatProperties
<1> HIDE DEF u
<1>3. ASSUME NEW q, In(q, u) PROVE In(q, s) \/ In(q, t)
  <2>1. PICK i \in 1 .. Len(u) : u[i] = q
    BY <1>3 DEF In
  <2>2. CASE i <= Len(s)
    BY <1>2, <2>1, <2>2 DEF In
  <2>3. CASE ~(i <= Len(s))
    BY <1>2, <2>1, <2>3 DEF In
  <2>4. QED
    BY <2>2, <2>3
<1>4. ASSUME NEW q, In(q, s) PROVE In(q, u)
  BY <1>2, <1>4 DEF In
<1>5. ASSUME NEW q, In(q, t) PROVE In(q, u)
  BY <1>2, <1>5 DEF In
<1>6. ASSUME Once(s), Once(t), \A q \in Queries : ~(In(q, s) /\ In(q, t))
      PROVE  Once(u)
  <2> SUFFICES ASSUME NEW i \in 1 .. Len(u), NEW j \in 1 .. Len(u), u[i] = u[j]
               PROVE  i = j
    BY DEF Once
  <2>1. CASE i <= Len(s) /\ j <= Len(s)
    BY <1>2, <1>6, <2>1 DEF Once
  <2>2. CASE ~(i <= Len(s)) /\ ~(j <= Len(s))
    <3>1. i - Len(s) \in 1 .. Len(t) /\ j - Len(s) \in 1 .. Len(t)
          /\ t[i - Len(s)] = t[j - Len(s)]
      BY <1>2, <2>2
    <3>2. i - Len(s) = j - Len(s)
      BY <1>6, <3>1 DEF Once
    <3>3. QED
      BY <1>1, <3>2
  <2>3. ASSUME NEW k \in 1 .. Len(u), NEW l \in 1 .. Len(u), u[k] = u[l],
               k <= Len(s), ~(l <= Len(s))
        PROVE  FALSE
    <3>1. s[k] = t[l - Len(s)] /\ k \in 1 .. Len(s) /\ l - Len(s) \in 1 .. Len(t)
      BY <1>2, <2>3
    <3>2. s[k] \in Queries /\ In(s[k], s) /\ In(s[k], t)
      BY <1>1, <3>1 DEF In
    <3>3. QED
      BY <1>6, <3>2
  <2>4. QED
    BY <2>1, <2>2, <2>3
<1>7. QED
  BY <1>1, <1>3, <1>4, <1>5, <1>6 DEF u

(* The counts stay below SizeT.                                              *)
LEMMA Wraps == \A n \in Nat : n % SizeT \in 0 .. SizeT - 1
  OBVIOUS

THEOREM InitEstablishes == Init => IInv
PROOF
<1> SUFFICES ASSUME Init PROVE IInv
  OBVIOUS
<1>1. DOMAIN seen = {} /\ asked = 0 /\ server \in Seq(Conn)
  BY EmptySeq DEF Init, asked
<1>2. TypeOK
  <2>1. \A c \in Conn : current[c] = {} /\ at[c] = "idle"
    BY DEF Init
  <2>2. /\ tasks \in [Conn -> Seq(Queries)] /\ callbacks \in Seq(Queries)
        /\ batch \in Seq(Queries) /\ kept \in Seq(Queries) /\ delivered \in Seq(Queries)
    BY None DEF Init
  <2>3. QED
    BY <1>1, <2>1, <2>2 DEF Init, TypeOK
<1>3. \A q \in Queries : ~(q <= Asked)
  BY <1>1 DEF Init, Asked, Queries
<1>4. Asking
  BY <1>1, <1>3 DEF Init, Asking
<1>5. Working
  BY <1>3, None DEF Init, Working, AtWork
<1>6. InTurn
  BY <1>3 DEF InTurn
<1>7. Places
  BY <1>3, None DEF Init, Places
<1>8. QED
  BY <1>2, <1>4, <1>5, <1>6, <1>7 DEF IInv

LEMMA Numbers ==
  ASSUME IInv
  PROVE  /\ asked \in 0 .. MaxQueries /\ Asked \in 0 .. MaxQueries /\ Asked <= asked
         /\ \A q \in 1 .. asked : server[q] \in Conn
         /\ \A q \in Queries : q <= Asked => server[q] \in Conn
PROOF
<1>1. server \in Seq(Conn) /\ asked <= MaxQueries
  BY DEF IInv, TypeOK
<1>2. asked \in Nat /\ \A q \in 1 .. asked : server[q] \in Conn
  BY <1>1, LenProperties, ElementOfSeq DEF asked
<1>3. Asked \in 0 .. MaxQueries /\ Asked <= asked
  BY <1>1, <1>2 DEF IInv, Asking, Asked
<1>4. QED
  BY <1>1, <1>2, <1>3 DEF Queries

(* What changes neither the queries nor where they are.                      *)
LEMMA WorkUntouched ==
  ASSUME IInv, UNCHANGED <<tasks, current, future>>, Asked' = Asked,
         \A q \in Queries : q <= Asked => server'[q] = server[q]
  PROVE  Working' /\ InTurn'
PROOF
<1>1. \A q \in Queries : Ready(q)' <=> Ready(q)
  BY DEF Ready
<1>2. \A c \in Conn : \A q \in Queries : AtWork(q, c)' <=> AtWork(q, c)
  BY DEF AtWork, In
<1>3. Working'
  BY <1>1, <1>2 DEF IInv, Working
<1>4. InTurn'
  <2> SUFFICES ASSUME NEW q \in Queries, NEW r \in Queries,
                      q < r, r <= Asked, server'[q] = server'[r], Ready(r)
               PROVE  Ready(q)
    BY <1>1 DEF InTurn
  <2>1. q <= Asked
    BY Numbers DEF Queries
  <2>2. QED
    BY <2>1 DEF IInv, InTurn
<1>5. QED
  BY <1>3, <1>4

LEMMA PlacesUntouched ==
  ASSUME IInv, UNCHANGED <<tickVars, future>>, Asked' = Asked
  PROVE  Places'
  BY DEF IInv, Places, tickVars, Ready

LEMMA ReadCountKeeps ==
  ASSUME IInv, NEW c \in Conn, ReadCount(c)
  PROVE  IInv'
PROOF
<1>1. /\ lat \in {"free", "heap"} /\ lat' = "heap" /\ (lat = "free" => asked < MaxQueries)
      /\ seen' = [d \in DOMAIN seen \union {c} |-> IF d = c THEN count[c] ELSE seen[d]]
      /\ UNCHANGED <<count, workerVars, future, ltaken, server, tickVars>>
  BY DEF ReadCount
<1>2. Asked' = Asked /\ asked' = asked
  BY <1>1 DEF Asked, asked
<1>3. TypeOK'
  BY <1>1, <1>2 DEF IInv, TypeOK, workerVars, tickVars
<1>4. Asking'
  BY <1>1, <1>2 DEF IInv, Asking
<1>5. Working' /\ InTurn'
  BY <1>1, <1>2, WorkUntouched DEF workerVars
<1>6. Places'
  BY <1>1, <1>2, PlacesUntouched
<1>7. QED
  BY <1>3, <1>4, <1>5, <1>6 DEF IInv

LEMMA GetFreeAsyncConnectionKeeps ==
  ASSUME IInv, NEW c \in Conn, GetFreeAsyncConnection(c)
  PROVE  IInv'
PROOF
<1>1. /\ lat = "heap" /\ lat' = "load" /\ server' = Append(server, c) /\ seen' = <<>>
      /\ UNCHANGED <<count, workerVars, future, ltaken, tickVars>>
  BY DEF GetFreeAsyncConnection
<1>2. server \in Seq(Conn) /\ asked < MaxQueries /\ asked \in Nat
  BY <1>1, Numbers DEF IInv, TypeOK, Asking
<1>3. /\ server' \in Seq(Conn) /\ asked' = asked + 1
      /\ \A q \in 1 .. asked : server'[q] = server[q]
  BY <1>1, <1>2, AppendProperties DEF asked
<1>4. Asked' = Asked /\ Asked = asked
  BY <1>1, <1>2, <1>3 DEF Asked
<1>5. DOMAIN seen' = {}
  BY <1>1
<1>6. TypeOK'
  <2>1. asked' <= MaxQueries /\ \A d \in DOMAIN seen' : seen'[d] \in 0 .. SizeT - 1
    BY <1>2, <1>3, <1>5
  <2>2. DOMAIN seen' \subseteq Conn /\ server' \in Seq(Conn)
    BY <1>3, <1>5
  <2>3. TypeOK
    BY DEF IInv
  <2>4. QED
    BY <1>1, <2>1, <2>2, <2>3 DEF TypeOK, workerVars, tickVars
<1>7. Asking'
  BY <1>1, <1>2, <1>3, <1>4 DEF IInv, Asking
<1>8. Working' /\ InTurn'
  <2>1. \A q \in Queries : q <= Asked => server'[q] = server[q]
    BY <1>2, <1>3, <1>4 DEF Queries
  <2>2. QED
    BY <1>1, <1>4, <2>1, WorkUntouched DEF workerVars
<1>9. Places'
  BY <1>1, <1>4, PlacesUntouched
<1>10. QED
  BY <1>6, <1>7, <1>8, <1>9 DEF IInv

LEMMA LoadCountKeeps ==
  ASSUME IInv, LoadCount
  PROVE  IInv'
PROOF
<1>1. /\ lat = "load" /\ lat' = "store" /\ ltaken' = count[server[asked]]
      /\ UNCHANGED <<count, workerVars, future, seen, server, tickVars>>
  BY DEF LoadCount
<1>2. Asked' = Asked /\ asked' = asked
  BY <1>1 DEF Asked, asked
<1>3. server[asked] \in Conn
  BY <1>1, Numbers DEF IInv, Asking
<1>4. TypeOK'
  BY <1>1, <1>2, <1>3 DEF IInv, TypeOK, workerVars, tickVars
<1>5. Asking'
  BY <1>1, <1>2 DEF IInv, Asking
<1>6. Working' /\ InTurn'
  BY <1>1, <1>2, WorkUntouched DEF workerVars
<1>7. Places'
  BY <1>1, <1>2, PlacesUntouched
<1>8. QED
  BY <1>4, <1>5, <1>6, <1>7 DEF IInv

(* Post makes the query asked last a task and a callback.                    *)
LEMMA PostKeeps ==
  ASSUME IInv, Post
  PROVE  IInv'
PROOF
<1> DEFINE c == server[asked]
<1>1. /\ lat = "store" /\ lat' = "free"
      /\ count' = [count EXCEPT ![c] = (ltaken + 1) % SizeT]
      /\ tasks' = [tasks EXCEPT ![c] = Append(tasks[c], asked)]
      /\ future' = [future EXCEPT ![asked] = "pending"]
      /\ callbacks' = Append(callbacks, asked)
      /\ UNCHANGED <<at, current, taken, seen, ltaken, server, batch, kept, delivered>>
  BY DEF Post
<1>2. /\ asked \in Queries /\ asked > 0 /\ c \in Conn /\ asked' = asked
      /\ Asked = asked - 1 /\ Asked' = asked /\ future[asked] = "none"
  <2>1. asked \in Queries /\ asked > 0 /\ Asked = asked - 1
    BY <1>1, Numbers DEF IInv, Asking, Asked, Queries
  <2>2. asked' = asked /\ Asked' = asked /\ c \in Conn
    BY <1>1, <2>1, Numbers DEF asked, Asked, Queries
  <2>3. QED
    BY <2>1, <2>2 DEF IInv, Asking, Queries
<1> HIDE DEF c
<1>3. /\ tasks \in [Conn -> Seq(Queries)] /\ future \in [Queries -> {"none", "pending"} \union Results]
      /\ count \in [Conn -> 0 .. SizeT - 1] /\ ltaken \in 0 .. SizeT - 1
      /\ callbacks \in Seq(Queries)
  BY DEF IInv, TypeOK
<1>4. /\ tasks'[c] = Append(tasks[c], asked) /\ tasks'[c] \in Seq(Queries)
      /\ \A d \in Conn : d # c => tasks'[d] = tasks[d]
      /\ \A q : In(q, tasks'[c]) <=> In(q, tasks[c]) \/ q = asked
  BY <1>1, <1>2, <1>3, Added
<1>5. future'[asked] = "pending" /\ \A q \in Queries : q # asked => future'[q] = future[q]
  BY <1>1, <1>2, <1>3
<1>6. TypeOK'
  <2>1. count' \in [Conn -> 0 .. SizeT - 1]
    <3>1. ltaken + 1 \in Nat
      BY <1>3
    <3>2. (ltaken + 1) % SizeT \in 0 .. SizeT - 1
      BY <3>1, Wraps
    <3>3. QED
      BY <1>1, <1>3, <3>2
  <2>2. tasks' \in [Conn -> Seq(Queries)]
    BY <1>1, <1>3, <1>4
  <2>3. future' \in [Queries -> {"none", "pending"} \union Results]
    BY <1>1, <1>3
  <2>4. callbacks' \in Seq(Queries)
    BY <1>1, <1>2, <1>3, Added
  <2>5. batch' = <<>> /\ kept' = <<>>
    BY <1>1 DEF IInv, TypeOK
  <2>6. QED
    BY <1>1, <1>2, <2>1, <2>2, <2>3, <2>4, <2>5 DEF IInv, TypeOK
<1>7. Asking'
  BY <1>1, <1>2, <1>5 DEF IInv, Asking, Queries
<1>8. \A q \in Queries : /\ q <= Asked' <=> q <= Asked \/ q = asked
                         /\ Ready(q)' <=> Ready(q) /\ q # asked
                         /\ q = asked => ~(q <= Asked) /\ ~Ready(q)
                         /\ q <= Asked => q < asked
  BY <1>2, <1>5 DEF Ready, Results, Queries
<1>9. Working'
  <2>1. \A d \in Conn : \A q \in Queries : AtWork(q, d)' <=> AtWork(q, d) \/ (d = c /\ q = asked)
    BY <1>1, <1>4 DEF AtWork
  <2>2. \A d \in Conn : \A q \in Queries :
          AtWork(q, d)' <=> q <= Asked' /\ server'[q] = d /\ ~Ready(q)'
    BY <1>1, <1>2, <1>8, <2>1 DEF IInv, Working, c
  <2>3. /\ Len(tasks[c]) \in Nat /\ Len(tasks'[c]) = Len(tasks[c]) + 1
        /\ \A i \in 1 .. Len(tasks[c]) : tasks'[c][i] = tasks[c][i] /\ tasks[c][i] \in Queries
        /\ tasks'[c][Len(tasks[c]) + 1] = asked
    BY <1>2, <1>3, <1>4, AppendProperties, LenProperties, ElementOfSeq
  <2>4. \A i \in 1 .. Len(tasks[c]) : tasks[c][i] < asked
    BY <1>2, <1>8, <2>3 DEF IInv, Working, AtWork, In
  <2>5. \A q \in current[c] : q < asked
    BY <1>2, <1>8 DEF IInv, TypeOK, Working, AtWork
  <2>6. \A d \in Conn : \A q \in current[d] : \A i \in 1 .. Len(tasks'[d]) : q < tasks'[d][i]
    <3> SUFFICES ASSUME NEW d \in Conn, NEW q \in current[d], NEW i \in 1 .. Len(tasks'[d])
                 PROVE  q < tasks'[d][i]
      OBVIOUS
    <3>1. CASE d # c
      BY <1>4, <3>1 DEF IInv, Working
    <3>2. CASE d = c /\ i = Len(tasks[c]) + 1
      BY <2>3, <2>5, <3>2
    <3>3. CASE d = c /\ i # Len(tasks[c]) + 1
      <4>1. i \in 1 .. Len(tasks[c])
        BY <2>3, <3>3
      <4>2. QED
        BY <2>3, <3>3, <4>1 DEF IInv, Working
    <3>4. QED
      BY <3>1, <3>2, <3>3
  <2>7. \A d \in Conn : \A i, j \in 1 .. Len(tasks'[d]) : i < j => tasks'[d][i] < tasks'[d][j]
    <3> SUFFICES ASSUME NEW d \in Conn, NEW i \in 1 .. Len(tasks'[d]),
                        NEW j \in 1 .. Len(tasks'[d]), i < j
                 PROVE  tasks'[d][i] < tasks'[d][j]
      OBVIOUS
    <3>1. CASE d # c
      BY <1>4, <3>1 DEF IInv, Working
    <3>2. CASE d = c
      <4>1. i \in 1 .. Len(tasks[c])
        BY <2>3, <3>2
      <4>2. CASE j = Len(tasks[c]) + 1
        BY <2>3, <2>4, <3>2, <4>1, <4>2
      <4>3. CASE j # Len(tasks[c]) + 1
        <5>1. j \in 1 .. Len(tasks[c])
          BY <2>3, <3>2, <4>3
        <5>2. QED
          BY <2>3, <3>2, <4>1, <5>1 DEF IInv, Working
      <4>4. QED
        BY <4>2, <4>3
    <3>3. QED
      BY <3>1, <3>2
  <2>8. \A d \in Conn : \A q, r \in current'[d] : q = r
    BY <1>1 DEF IInv, Working
  <2>9. QED
    BY <1>1, <2>2, <2>6, <2>7, <2>8 DEF Working
<1>10. InTurn'
  <2> SUFFICES ASSUME NEW q \in Queries, NEW r \in Queries,
                      q < r, r <= Asked', server[q] = server[r], Ready(r)'
               PROVE  Ready(q)'
    BY <1>1 DEF InTurn
  <2>1. r <= Asked /\ Ready(r) /\ q # asked
    BY <1>2, <1>8 DEF Queries
  <2>2. Ready(q)
    BY <2>1 DEF IInv, InTurn
  <2>3. QED
    BY <1>8, <2>1, <2>2
<1>11. Places'
  <2>1. \A q \in Queries : ~(q <= Asked) =>
          ~In(q, delivered) /\ ~In(q, kept) /\ ~In(q, batch) /\ ~In(q, callbacks)
    BY DEF IInv, Places
  <2>2. ~In(asked, callbacks) /\ ~In(asked, delivered) /\ ~In(asked, kept) /\ ~In(asked, batch)
    BY <1>2, <1>8, <2>1
  <2>3. Once(callbacks') /\ \A q : In(q, callbacks') <=> In(q, callbacks) \/ q = asked
    BY <1>1, <1>2, <1>3, <2>2, Added DEF IInv, Places
  <2>4. Once(delivered') /\ Once(kept') /\ Once(batch')
    BY <1>1 DEF IInv, Places
  <2>5. QED
    BY <1>1, <1>8, <2>2, <2>3, <2>4 DEF IInv, Places
<1>12. QED
  BY <1>6, <1>7, <1>9, <1>10, <1>11 DEF IInv

(* The worker's own steps leave the rest alone.                              *)
LEMMA WorkerLeaves ==
  ASSUME IInv, NEW c \in Conn, Worker(c)
  PROVE  UNCHANGED logicVars /\ asked' = asked /\ Asked' = Asked
  BY DEF Worker, Run, Load, Store, Answer, logicVars, tickVars, asked, Asked

LEMMA LoadStoreKeeps ==
  ASSUME IInv, NEW c \in Conn, Load(c) \/ Store(c)
  PROVE  IInv'
PROOF
<1>1. UNCHANGED <<logicVars, tasks, current, future>> /\ asked' = asked /\ Asked' = Asked
  BY DEF Load, Store, asked, Asked, logicVars, tickVars
<1>2. /\ at[c] \in {"query", "store"}
      /\ \E to \in {"store", "answer"} : at' = [at EXCEPT ![c] = to]
  BY DEF Load, Store, Go
<1>3. count' \in [Conn -> 0 .. SizeT - 1] /\ taken' \in [Conn -> 0 .. SizeT - 1]
  <2>1. CASE Load(c)
    BY <2>1 DEF Load, IInv, TypeOK
  <2>2. CASE Store(c)
    <3>1. taken[c] + SizeT - 1 \in Nat
      BY DEF IInv, TypeOK
    <3>2. (taken[c] + SizeT - 1) % SizeT \in 0 .. SizeT - 1
      BY <3>1, Wraps
    <3>3. QED
      BY <2>2, <3>2 DEF Store, IInv, TypeOK
  <2>3. QED
    BY <2>1, <2>2
<1>4. TypeOK'
  <2>1. /\ at' \in [Conn -> {"idle", "query", "store", "answer"}]
        /\ \A d \in Conn : at'[d] = "idle" <=> at[d] = "idle"
    BY <1>2 DEF IInv, TypeOK
  <2>2. \A d \in Conn : at'[d] = "idle" <=> current'[d] = {}
    BY <1>1, <2>1 DEF IInv, TypeOK
  <2>3. QED
    BY <1>1, <1>3, <2>1, <2>2 DEF IInv, TypeOK, logicVars, tickVars
<1>5. Asking'
  BY <1>1 DEF IInv, Asking, logicVars
<1>6. Working' /\ InTurn'
  BY <1>1, WorkUntouched DEF logicVars
<1>7. Places'
  BY <1>1, PlacesUntouched DEF logicVars
<1>8. QED
  BY <1>4, <1>5, <1>6, <1>7 DEF IInv

LEMMA RunKeeps ==
  ASSUME IInv, NEW c \in Conn, Run(c)
  PROVE  IInv'
PROOF
<1> DEFINE q0 == Head(tasks[c])
<1>1. /\ at[c] = "idle" /\ at' = [at EXCEPT ![c] = "query"] /\ tasks[c] # <<>>
      /\ current' = [current EXCEPT ![c] = {q0}]
      /\ tasks' = [tasks EXCEPT ![c] = Tail(tasks[c])]
      /\ UNCHANGED <<count, taken, future, logicVars>>
      /\ asked' = asked /\ Asked' = Asked
  BY DEF Run, Go, logicVars, asked, Asked
<1>2. /\ tasks \in [Conn -> Seq(Queries)] /\ tasks[c] \in Seq(Queries)
      /\ current \in [Conn -> SUBSET Queries] /\ current[c] = {}
      /\ at \in [Conn -> {"idle", "query", "store", "answer"}]
  BY <1>1 DEF IInv, TypeOK
<1>3. /\ q0 \in Queries /\ Tail(tasks[c]) \in Seq(Queries) /\ q0 = tasks[c][1]
      /\ Len(tasks[c]) \in Nat \ {0} /\ Len(Tail(tasks[c])) = Len(tasks[c]) - 1
      /\ \A i \in 1 .. Len(Tail(tasks[c])) : Tail(tasks[c])[i] = tasks[c][i + 1]
      /\ \A q : In(q, tasks[c]) <=> In(q, Tail(tasks[c])) \/ q = q0
  BY <1>1, <1>2, Taken, HeadTailProperties, EmptySeq
<1> HIDE DEF q0
<1>4. /\ tasks'[c] = Tail(tasks[c]) /\ current'[c] = {q0} /\ at'[c] = "query"
      /\ \A d \in Conn : d # c => tasks'[d] = tasks[d] /\ current'[d] = current[d] /\ at'[d] = at[d]
  BY <1>1, <1>2
<1>5. TypeOK'
  <2>1. /\ tasks' \in [Conn -> Seq(Queries)] /\ current' \in [Conn -> SUBSET Queries]
        /\ at' \in [Conn -> {"idle", "query", "store", "answer"}]
    BY <1>1, <1>2, <1>3
  <2>2. \A d \in Conn : at'[d] = "idle" <=> current'[d] = {}
    BY <1>4 DEF IInv, TypeOK
  <2>3. QED
    BY <1>1, <2>1, <2>2 DEF IInv, TypeOK, logicVars, tickVars
<1>6. Asking'
  BY <1>1 DEF IInv, Asking, logicVars
<1>7. \A q \in Queries : Ready(q)' <=> Ready(q)
  BY <1>1 DEF Ready
<1>8. Working'
  <2>1. \A d \in Conn : \A q \in Queries : AtWork(q, d)' <=> AtWork(q, d)
    <3> SUFFICES ASSUME NEW d \in Conn, NEW q \in Queries
                 PROVE  q \in current'[d] \/ In(q, tasks'[d]) <=> q \in current[d] \/ In(q, tasks[d])
      BY DEF AtWork, In
    <3>1. CASE d # c
      BY <1>4, <3>1
    <3>2. CASE d = c
      <4>1. current'[d] = {q0} /\ tasks'[d] = Tail(tasks[c]) /\ current[d] = {}
        BY <1>2, <1>4, <3>2
      <4>2. QED
        BY <1>3, <3>2, <4>1
    <3>3. QED
      BY <3>1, <3>2
  <2>2. \A d \in Conn : \A q \in Queries :
          AtWork(q, d)' <=> q <= Asked' /\ server'[q] = d /\ ~Ready(q)'
    BY <1>1, <1>7, <2>1 DEF IInv, Working, logicVars
  <2>3. \A d \in Conn : \A q, r \in current'[d] : q = r
    BY <1>4 DEF IInv, Working
  <2>4. \A d \in Conn : \A q \in current'[d] : \A i \in 1 .. Len(tasks'[d]) : q < tasks'[d][i]
    <3> SUFFICES ASSUME NEW d \in Conn, NEW q \in current'[d], NEW i \in 1 .. Len(tasks'[d])
                 PROVE  q < tasks'[d][i]
      OBVIOUS
    <3>1. CASE d # c
      <4>1. q \in current[d] /\ i \in 1 .. Len(tasks[d]) /\ tasks'[d][i] = tasks[d][i]
        BY <1>4, <3>1
      <4>2. Working
        BY DEF IInv
      <4>3. QED
        BY <1>2, <4>1, <4>2 DEF Working
    <3>2. CASE d = c
      <4>1. i \in 1 .. Len(Tail(tasks[c])) /\ tasks'[d][i] = tasks[c][i + 1] /\ q = tasks[c][1]
        <5>1. tasks'[d] = Tail(tasks[c]) /\ q = q0
          BY <1>4, <3>2
        <5>2. QED
          BY <1>3, <5>1
      <4>2. 1 \in 1 .. Len(tasks[c]) /\ i + 1 \in 1 .. Len(tasks[c]) /\ 1 < i + 1
        BY <1>3, <4>1
      <4>3. tasks[c][1] < tasks[c][i + 1]
        BY <4>2 DEF IInv, Working
      <4>4. QED
        BY <4>1, <4>3
    <3>3. QED
      BY <3>1, <3>2
  <2>5. \A d \in Conn : \A i, j \in 1 .. Len(tasks'[d]) : i < j => tasks'[d][i] < tasks'[d][j]
    <3> SUFFICES ASSUME NEW d \in Conn, NEW i \in 1 .. Len(tasks'[d]),
                        NEW j \in 1 .. Len(tasks'[d]), i < j
                 PROVE  tasks'[d][i] < tasks'[d][j]
      OBVIOUS
    <3>1. CASE d # c
      BY <1>4, <3>1 DEF IInv, Working
    <3>2. CASE d = c
      <4>1. /\ i \in 1 .. Len(Tail(tasks[c])) /\ j \in 1 .. Len(Tail(tasks[c]))
            /\ tasks'[d][i] = tasks[c][i + 1] /\ tasks'[d][j] = tasks[c][j + 1]
        <5>1. tasks'[d] = Tail(tasks[c])
          BY <1>4, <3>2
        <5>2. QED
          BY <1>3, <5>1
      <4>2. i + 1 \in 1 .. Len(tasks[c]) /\ j + 1 \in 1 .. Len(tasks[c]) /\ i + 1 < j + 1
        BY <1>3, <4>1
      <4>3. tasks[c][i + 1] < tasks[c][j + 1]
        BY <4>2 DEF IInv, Working
      <4>4. QED
        BY <4>1, <4>3
    <3>3. QED
      BY <3>1, <3>2
  <2>6. QED
    BY <2>2, <2>3, <2>4, <2>5 DEF Working
<1>9. InTurn'
  BY <1>1, <1>7 DEF IInv, InTurn, logicVars
<1>10. Places'
  BY <1>1, PlacesUntouched DEF logicVars
<1>11. QED
  BY <1>5, <1>6, <1>8, <1>9, <1>10 DEF IInv

(* The answer is that of the oldest query of the connection without one.     *)
LEMMA AnswerOf ==
  ASSUME IInv, NEW c \in Conn, Answer(c)
  PROVE  \E q0 \in Queries, result \in Results :
           /\ current[c] = {q0} /\ q0 <= Asked /\ server[q0] = c /\ ~Ready(q0)
           /\ future' = [future EXCEPT ![q0] = result]
           /\ \A q \in Queries : q < q0 /\ server[q] = c => Ready(q)
PROOF
<1>1. /\ current \in [Conn -> SUBSET Queries] /\ current[c] # {} /\ tasks \in [Conn -> Seq(Queries)]
      /\ future \in [Queries -> {"none", "pending"} \union Results]
  BY DEF IInv, TypeOK, Answer, Go
<1>2. PICK q0 \in Queries : current[c] = {q0}
  <2>1. \A q, r \in current[c] : q = r
    BY DEF IInv, Working
  <2>2. QED
    BY <1>1, <2>1
<1>3. q0 <= Asked /\ server[q0] = c /\ ~Ready(q0)
  <2>1. AtWork(q0, c)
    BY <1>2 DEF AtWork
  <2>2. \A q \in Queries : AtWork(q, c) => q <= Asked /\ server[q] = c /\ ~Ready(q)
    BY DEF IInv, Working
  <2>3. QED
    BY <2>1, <2>2
<1>4. PICK result \in Results :
        future' = [q \in Queries |-> IF q \in current[c] THEN result ELSE future[q]]
  BY DEF Answer
<1>5. future' = [future EXCEPT ![q0] = result]
  BY <1>1, <1>2, <1>4
<1>6. ASSUME NEW q \in Queries, q < q0, server[q] = c PROVE Ready(q)
  <2> SUFFICES ASSUME ~Ready(q) PROVE FALSE
    OBVIOUS
  <2>1. q <= Asked
    BY <1>3, <1>6, Numbers DEF Queries
  <2>2. AtWork(q, c)
    BY <1>6, <2>1 DEF IInv, Working
  <2>3. CASE q \in current[c]
    BY <1>2, <1>6, <2>3 DEF Queries
  <2>4. CASE In(q, tasks[c])
    <3>1. q0 < q
      BY <1>2, <2>4 DEF In, IInv, Working
    <3>2. QED
      BY <1>6, <3>1 DEF Queries
  <2>5. QED
    BY <2>2, <2>3, <2>4 DEF AtWork
<1>7. QED
  BY <1>2, <1>3, <1>5, <1>6

LEMMA AnswerKeeps ==
  ASSUME IInv, NEW c \in Conn, Answer(c)
  PROVE  IInv'
PROOF
<1>1. PICK q0 \in Queries, result \in Results :
           /\ current[c] = {q0} /\ q0 <= Asked /\ server[q0] = c /\ ~Ready(q0)
           /\ future' = [future EXCEPT ![q0] = result]
           /\ \A q \in Queries : q < q0 /\ server[q] = c => Ready(q)
  BY AnswerOf
<1>2. /\ at' = [at EXCEPT ![c] = "idle"] /\ current' = [current EXCEPT ![c] = {}]
      /\ UNCHANGED <<count, tasks, taken, logicVars>> /\ asked' = asked /\ Asked' = Asked
  BY DEF Answer, Go, logicVars, asked, Asked
<1>3. /\ current \in [Conn -> SUBSET Queries]
      /\ at \in [Conn -> {"idle", "query", "store", "answer"}]
      /\ future \in [Queries -> {"none", "pending"} \union Results]
  BY DEF IInv, TypeOK
<1>4. /\ current'[c] = {} /\ at'[c] = "idle"
      /\ \A d \in Conn : d # c => current'[d] = current[d] /\ at'[d] = at[d]
  BY <1>2, <1>3
<1>5. \A q \in Queries : Ready(q)' <=> Ready(q) \/ q = q0
  BY <1>1, <1>3 DEF Ready
<1>6. TypeOK'
  <2>1. /\ current' \in [Conn -> SUBSET Queries]
        /\ at' \in [Conn -> {"idle", "query", "store", "answer"}]
        /\ future' \in [Queries -> {"none", "pending"} \union Results]
    BY <1>1, <1>2, <1>3
  <2>2. \A d \in Conn : at'[d] = "idle" <=> current'[d] = {}
    BY <1>4 DEF IInv, TypeOK
  <2>3. QED
    BY <1>2, <2>1, <2>2 DEF IInv, TypeOK, logicVars, tickVars
<1>7. Asking'
  <2>1. future[q0] # "none"
    BY <1>1 DEF IInv, Asking
  <2>2. \A q \in Queries : future'[q] # "none" <=> future[q] # "none"
    BY <1>1, <1>3, <2>1 DEF Results
  <2>3. QED
    BY <1>2, <2>2 DEF IInv, Asking, logicVars
<1>8. Working'
  <2>1. ~In(q0, tasks[c])
    <3> SUFFICES ASSUME In(q0, tasks[c]) PROVE FALSE
      OBVIOUS
    <3>1. PICK i \in 1 .. Len(tasks[c]) : tasks[c][i] = q0
      BY DEF In
    <3>2. q0 \in current[c]
      BY <1>1
    <3>3. q0 < tasks[c][i]
      BY <3>2 DEF IInv, Working
    <3>4. QED
      BY <3>1, <3>3 DEF Queries
  <2>2. \A d \in Conn : d # c => ~AtWork(q0, d)
    BY <1>1 DEF IInv, Working
  <2>3. \A d \in Conn : \A q \in Queries : AtWork(q, d)' <=> AtWork(q, d) /\ q # q0
    BY <1>1, <1>2, <1>4, <2>1, <2>2 DEF AtWork
  <2>4. \A d \in Conn : \A q \in Queries :
          AtWork(q, d)' <=> q <= Asked' /\ server'[q] = d /\ ~Ready(q)'
    BY <1>1, <1>2, <1>5, <2>3 DEF IInv, Working, logicVars
  <2>5. /\ \A d \in Conn : \A q, r \in current'[d] : q = r
        /\ \A d \in Conn : \A q \in current'[d] : \A i \in 1 .. Len(tasks'[d]) : q < tasks'[d][i]
    BY <1>2, <1>4 DEF IInv, Working
  <2>6. \A d \in Conn : \A i, j \in 1 .. Len(tasks'[d]) : i < j => tasks'[d][i] < tasks'[d][j]
    BY <1>2 DEF IInv, Working
  <2>7. QED
    BY <2>4, <2>5, <2>6 DEF Working
<1>9. InTurn'
  BY <1>1, <1>2, <1>5 DEF IInv, InTurn, logicVars
<1>10. Places'
  BY <1>2, <1>5 DEF IInv, Places, logicVars, tickVars
<1>11. QED
  BY <1>6, <1>7, <1>8, <1>9, <1>10 DEF IInv
(* The tick moves callbacks from one list to another.                        *)
LEMMA TickLeaves ==
  ASSUME IInv, Tick
  PROVE  /\ UNCHANGED <<count, workerVars, future, seen, ltaken, server>>
         /\ asked' = asked /\ Asked' = Asked /\ lat \in {"free", "scan"} /\ lat' \in {"free", "scan"}
         /\ Asking' /\ Working' /\ InTurn'
         /\ callbacks \in Seq(Queries) /\ batch \in Seq(Queries)
         /\ kept \in Seq(Queries) /\ delivered \in Seq(Queries)
PROOF
<1>1. /\ UNCHANGED <<count, workerVars, future, seen, ltaken, server>>
      /\ lat \in {"free", "scan"} /\ lat' \in {"free", "scan"}
  BY DEF Tick, BeginTick, Invoke, Keep, EndTick, Untouched
<1>2. asked' = asked /\ Asked' = Asked
  BY <1>1 DEF asked, Asked
<1>3. Asking'
  BY <1>1, <1>2 DEF IInv, Asking
<1>4. Working' /\ InTurn'
  BY <1>1, <1>2, WorkUntouched DEF workerVars
<1>5. QED
  BY <1>1, <1>2, <1>3, <1>4 DEF IInv, TypeOK

(* The tick's part of the types.                                             *)
LEMMA TickTypes ==
  ASSUME IInv, Tick,
         callbacks' \in Seq(Queries), batch' \in Seq(Queries),
         kept' \in Seq(Queries), delivered' \in Seq(Queries),
         lat' # "scan" => batch' = <<>> /\ kept' = <<>>
  PROVE  TypeOK'
  BY TickLeaves DEF IInv, TypeOK, workerVars

LEMMA BeginTickKeeps ==
  ASSUME IInv, BeginTick
  PROVE  IInv'
PROOF
<1>1. /\ batch' = callbacks /\ callbacks' = <<>> /\ UNCHANGED <<kept, delivered>>
      /\ UNCHANGED future /\ lat = "free" /\ lat' = "scan" /\ Tick
  BY DEF BeginTick, Untouched, Tick
<1>2. TypeOK'
  BY <1>1, TickLeaves, TickTypes, None
<1>3. batch = <<>> /\ kept = <<>>
  BY <1>1 DEF IInv, TypeOK
<1>4. \A q \in Queries : Ready(q)' <=> Ready(q)
  BY <1>1 DEF Ready
<1>5. Asked' = Asked
  BY <1>1, TickLeaves
<1>6. Places'
  BY <1>1, <1>3, <1>4, <1>5, None DEF IInv, Places
<1>7. QED
  BY <1>1, <1>2, <1>6, TickLeaves DEF IInv

LEMMA InvokeKeeps ==
  ASSUME IInv, Invoke
  PROVE  IInv'
PROOF
<1> DEFINE q0 == Head(batch)
           rest == Tail(batch)
<1>1. /\ lat = "scan" /\ batch # <<>> /\ Ready(q0)
      /\ delivered' = Append(delivered, q0) /\ batch' = rest
      /\ UNCHANGED <<lat, callbacks, kept, future>> /\ Tick
  BY DEF Invoke, Untouched, Tick
<1>2. /\ q0 \in Queries /\ rest \in Seq(Queries)
      /\ \A q : In(q, batch) <=> In(q, rest) \/ q = q0
      /\ Once(batch) => Once(rest) /\ ~In(q0, rest)
  BY <1>1, Taken, TickLeaves
<1> HIDE DEF q0, rest
<1>3. Once(rest) /\ ~In(q0, rest) /\ In(q0, batch)
      /\ ~In(q0, delivered) /\ ~In(q0, kept) /\ ~In(q0, callbacks)
  BY <1>2 DEF IInv, Places
<1>4. /\ delivered' \in Seq(Queries) /\ Once(delivered')
      /\ \A q : In(q, delivered') <=> In(q, delivered) \/ q = q0
  BY <1>1, <1>2, <1>3, Added, TickLeaves DEF IInv, Places
<1>5. TypeOK'
  BY <1>1, <1>2, <1>4, TickLeaves, TickTypes
<1>6. \A q \in Queries : Ready(q)' <=> Ready(q)
  BY <1>1 DEF Ready
<1>7. Asked' = Asked
  BY <1>1, TickLeaves
<1>8. Places'
  BY <1>1, <1>2, <1>3, <1>4, <1>6, <1>7 DEF IInv, Places
<1>9. QED
  BY <1>1, <1>5, <1>8, TickLeaves DEF IInv

LEMMA KeepKeeps ==
  ASSUME IInv, Keep
  PROVE  IInv'
PROOF
<1> DEFINE q0 == Head(batch)
           rest == Tail(batch)
<1>1. /\ lat = "scan" /\ batch # <<>>
      /\ kept' = Append(kept, q0) /\ batch' = rest
      /\ UNCHANGED <<lat, callbacks, delivered, future>> /\ Tick
  BY DEF Keep, Untouched, Tick
<1>2. /\ q0 \in Queries /\ rest \in Seq(Queries)
      /\ \A q : In(q, batch) <=> In(q, rest) \/ q = q0
      /\ Once(batch) => Once(rest) /\ ~In(q0, rest)
  BY <1>1, Taken, TickLeaves
<1> HIDE DEF q0, rest
<1>3. Once(rest) /\ ~In(q0, rest) /\ In(q0, batch)
      /\ ~In(q0, delivered) /\ ~In(q0, kept) /\ ~In(q0, callbacks)
  BY <1>2 DEF IInv, Places
<1>4. /\ kept' \in Seq(Queries) /\ Once(kept')
      /\ \A q : In(q, kept') <=> In(q, kept) \/ q = q0
  BY <1>1, <1>2, <1>3, Added, TickLeaves DEF IInv, Places
<1>5. TypeOK'
  BY <1>1, <1>2, <1>4, TickLeaves, TickTypes
<1>6. \A q \in Queries : Ready(q)' <=> Ready(q)
  BY <1>1 DEF Ready
<1>7. Asked' = Asked
  BY <1>1, TickLeaves
<1>8. Places'
  BY <1>1, <1>2, <1>3, <1>4, <1>6, <1>7 DEF IInv, Places
<1>9. QED
  BY <1>1, <1>5, <1>8, TickLeaves DEF IInv

LEMMA EndTickKeeps ==
  ASSUME IInv, EndTick
  PROVE  IInv'
PROOF
<1>1. /\ batch = <<>> /\ callbacks' = callbacks \o kept /\ kept' = <<>>
      /\ UNCHANGED <<batch, delivered, future>> /\ Tick
  BY DEF EndTick, Untouched, Tick
<1>2. /\ callbacks' \in Seq(Queries) /\ Once(callbacks')
      /\ \A q : In(q, callbacks') <=> In(q, callbacks) \/ In(q, kept)
  <2>1. /\ callbacks \in Seq(Queries) /\ kept \in Seq(Queries)
        /\ \A q \in Queries : ~(In(q, callbacks) /\ In(q, kept))
        /\ Once(callbacks) /\ Once(kept)
    BY <1>1, TickLeaves DEF IInv, Places
  <2>2. QED
    BY <1>1, <2>1, Joined
<1>3. TypeOK'
  BY <1>1, <1>2, TickLeaves, TickTypes, None
<1>4. \A q \in Queries : Ready(q)' <=> Ready(q)
  BY <1>1 DEF Ready
<1>5. Asked' = Asked
  BY <1>1, TickLeaves
<1>6. Places'
  BY <1>1, <1>2, <1>4, <1>5, None DEF IInv, Places
<1>7. QED
  BY <1>1, <1>3, <1>6, TickLeaves DEF IInv

THEOREM NextPreserves == IInv /\ [Next]_vars => IInv'
PROOF
<1> SUFFICES ASSUME IInv, [Next]_vars PROVE IInv'
  OBVIOUS
<1>1. ASSUME NEW c \in Conn, ReadCount(c) PROVE IInv'
  BY <1>1, ReadCountKeeps
<1>2. ASSUME NEW c \in Conn, GetFreeAsyncConnection(c) PROVE IInv'
  BY <1>2, GetFreeAsyncConnectionKeeps
<1>3. CASE LoadCount
  BY <1>3, LoadCountKeeps
<1>4. CASE Post
  BY <1>4, PostKeeps
<1>5. ASSUME NEW c \in Conn, Worker(c) PROVE IInv'
  BY <1>5, RunKeeps, LoadStoreKeeps, AnswerKeeps DEF Worker
<1>6. CASE Tick
  BY <1>6, BeginTickKeeps, InvokeKeeps, KeepKeeps, EndTickKeeps DEF Tick
<1>7. CASE UNCHANGED vars
  <2>1. /\ UNCHANGED <<count, workerVars, tasks, current, future, logicVars, tickVars, server>>
        /\ asked' = asked /\ Asked' = Asked
    BY <1>7 DEF vars, workerVars, logicVars, asked, Asked
  <2>2. TypeOK'
    BY <2>1 DEF IInv, TypeOK, workerVars, logicVars, tickVars
  <2>3. Asking'
    BY <2>1 DEF IInv, Asking, logicVars
  <2>4. QED
    BY <2>1, <2>2, <2>3, WorkUntouched, PlacesUntouched DEF IInv
<1>8. QED
  BY <1>1, <1>2, <1>3, <1>4, <1>5, <1>6, <1>7 DEF Next

THEOREM Invariance == Spec => []IInv
  BY InitEstablishes, NextPreserves, PTL DEF Spec

(* The types, and that a worker that is not idle runs one query.             *)
THEOREM TypeCorrect == Spec => []TypeOK
<1>1. IInv => TypeOK
  BY DEF IInv
<1>2. QED
  BY <1>1, Invariance, PTL

(* Every registered callback is in one of the four lists, once, and the      *)
(* lists hold no other: ProcessReadyCallbacks loses and doubles none.        *)
LEMMA PlacesSuffice == IInv => NoCallbackLost
PROOF
<1> SUFFICES ASSUME IInv PROVE NoCallbackLost
  OBVIOUS
<1> DEFINE two == delivered \o kept
           three == two \o batch
           all == three \o callbacks
<1>1. /\ delivered \in Seq(Queries) /\ kept \in Seq(Queries)
      /\ batch \in Seq(Queries) /\ callbacks \in Seq(Queries)
  BY DEF IInv, TypeOK
<1>2. /\ two \in Seq(Queries) /\ Once(two)
      /\ \A q : In(q, two) <=> In(q, delivered) \/ In(q, kept)
  BY <1>1, Joined DEF IInv, Places
<1> HIDE DEF two
<1>3. /\ three \in Seq(Queries) /\ Once(three)
      /\ \A q : In(q, three) <=> In(q, two) \/ In(q, batch)
  BY <1>1, <1>2, Joined DEF IInv, Places
<1> HIDE DEF three
<1>4. /\ all \in Seq(Queries) /\ Once(all)
      /\ \A q : In(q, all) <=> In(q, three) \/ In(q, callbacks)
  BY <1>1, <1>2, <1>3, Joined DEF IInv, Places
<1>5. all = delivered \o kept \o batch \o callbacks
  BY DEF two, three
<1> HIDE DEF all
<1>6. \A q \in Queries : In(q, all) <=> q \in Posted
  BY <1>2, <1>3, <1>4 DEF IInv, Places, Asking, Posted
<1>7. DOMAIN all = 1 .. Len(all) /\ \A i \in 1 .. Len(all) : all[i] \in Queries
  BY <1>4, LenProperties, ElementOfSeq
<1>8. IsInjective(all)
  BY <1>4, <1>7 DEF IsInjective, Once
<1>9. {all[i] : i \in 1 .. Len(all)} = Posted
  <2>1. ASSUME NEW i \in 1 .. Len(all) PROVE all[i] \in Posted
    BY <1>6, <1>7 DEF In
  <2>2. ASSUME NEW q \in Posted PROVE \E i \in 1 .. Len(all) : all[i] = q
    BY <1>6 DEF In, Posted
  <2>3. QED
    BY <2>1, <2>2
<1>10. QED
  BY <1>5, <1>8, <1>9 DEF NoCallbackLost

THEOREM CallbacksAreKept == Spec => []NoCallbackLost
  BY PlacesSuffice, Invariance, PTL

(* A callback that ran had its answer, and answers come in the order asked:  *)
(* so has the earlier query of the same connection.                          *)
LEMMA InTurnSuffices == IInv => OvertakenIsReady
PROOF
<1> SUFFICES ASSUME IInv, NEW q \in Posted, NEW r \in Posted,
                    q < r, server[q] = server[r], Called(r)
             PROVE  Ready(q)
  BY DEF OvertakenIsReady
<1>1. q \in Queries /\ r \in Queries /\ r <= Asked
  BY DEF Posted, IInv, Asking
<1>2. Ready(r)
  BY <1>1 DEF IInv, Places, Called, In
<1>3. QED
  BY <1>1, <1>2 DEF IInv, InTurn

THEOREM NoneOvertakesUnready == Spec => []OvertakenIsReady
  BY InTurnSuffices, Invariance, PTL

(* The callbacks called and the answers given, as the service counts them.   *)
LEMMA Mapped ==
  /\ \A q : Called(q) <=> In(q, delivered)
  /\ (IF lat \in {"load", "store"} THEN asked - 1 ELSE asked) = Asked
  BY DEF Called, In, Asked

(* A step that changes none of what the service counts.                      *)
LEMMA ServiceStutters ==
  ASSUME UNCHANGED <<future, delivered>>, Asked' = Asked
  PROVE  UNCHANGED Service!vars
  BY Mapped DEF Service!vars, Ready, Called, Asked

LEMMA ServiceInit == Init => Service!Init
PROOF
<1> SUFFICES ASSUME Init PROVE Service!Init
  OBVIOUS
<1>1. asked = 0 /\ lat = "free"
  BY EmptySeq DEF Init, asked
<1>2. \A q \in Queries : ~Ready(q)
  BY DEF Init, Ready, Results
<1>3. \A q \in Queries : ~Called(q)
  BY Mapped, None DEF Init
<1>4. QED
  BY <1>1, <1>2, <1>3 DEF Service!Init

LEMMA ServiceStep == IInv /\ [Next]_vars => [Service!Next]_(Service!vars)
PROOF
<1> SUFFICES ASSUME IInv, [Next]_vars PROVE Service!Next \/ UNCHANGED Service!vars
  BY DEF Service!Next
<1>1. ASSUME NEW c \in Conn, ReadCount(c) \/ GetFreeAsyncConnection(c)
      PROVE  UNCHANGED Service!vars
  <2>1. UNCHANGED <<future, delivered>>
    BY <1>1 DEF ReadCount, GetFreeAsyncConnection, tickVars
  <2>2. Asked' = Asked
    <3>1. CASE ReadCount(c)
      BY <3>1 DEF ReadCount, Asked, asked
    <3>2. CASE GetFreeAsyncConnection(c)
      <4>1. lat = "heap" /\ lat' = "load" /\ asked' = asked + 1 /\ asked \in Nat
        BY <3>2, Numbers, AppendProperties DEF GetFreeAsyncConnection, asked, IInv, TypeOK
      <4>2. QED
        BY <4>1 DEF Asked
    <3>3. QED
      BY <1>1, <3>1, <3>2
  <2>3. QED
    BY <2>1, <2>2, ServiceStutters
<1>2. CASE LoadCount
  <2>1. UNCHANGED <<future, delivered>> /\ Asked' = Asked
    BY <1>2 DEF LoadCount, tickVars, Asked, asked
  <2>2. QED
    BY <2>1, ServiceStutters
<1>3. CASE Post
  <2>1. /\ lat = "store" /\ lat' = "free" /\ asked \in 1 .. MaxQueries /\ asked' = asked
        /\ future' = [future EXCEPT ![asked] = "pending"] /\ delivered' = delivered
        /\ future[asked] = "none" /\ future \in [Queries -> {"none", "pending"} \union Results]
    <3>1. /\ lat = "store" /\ lat' = "free" /\ asked' = asked
          /\ future' = [future EXCEPT ![asked] = "pending"] /\ delivered' = delivered
      BY <1>3 DEF Post, asked
    <3>2. asked \in 1 .. MaxQueries
      BY <3>1, Numbers DEF IInv, Asking
    <3>3. Asked = asked - 1
      BY <3>1 DEF Asked
    <3>4. future[asked] = "none"
      BY <3>2, <3>3 DEF IInv, Asking, Queries
    <3>5. future \in [Queries -> {"none", "pending"} \union Results]
      BY DEF IInv, TypeOK
    <3>6. QED
      BY <3>1, <3>2, <3>4, <3>5
  <2>2. \A q \in Queries : Ready(q)' <=> Ready(q)
    BY <2>1 DEF Ready, Results, Queries
  <2>3. \A q \in Queries : Called(q)' <=> Called(q)
    BY <2>1 DEF Called
  <2>4. Service!Ask
    BY <2>1, <2>2, <2>3 DEF Service!Ask
  <2>5. QED
    BY <2>4 DEF Service!Next
<1>4. ASSUME NEW c \in Conn, Run(c) \/ Load(c) \/ Store(c)
      PROVE  UNCHANGED Service!vars
  <2>1. UNCHANGED <<future, delivered>> /\ Asked' = Asked
    BY <1>4 DEF Run, Load, Store, logicVars, tickVars, Asked, asked
  <2>2. QED
    BY <2>1, ServiceStutters
<1>5. ASSUME NEW c \in Conn, Answer(c)
      PROVE  Service!Next
  <2>1. PICK q0 \in Queries, result \in Results :
           /\ q0 <= Asked /\ ~Ready(q0)
           /\ future' = [future EXCEPT ![q0] = result]
    BY <1>5, AnswerOf
  <2>2. UNCHANGED <<lat, server, delivered>> /\ asked' = asked
    BY <1>5 DEF Answer, logicVars, tickVars, asked
  <2>3. \A q \in Queries : Ready(q)' <=> Ready(q) \/ q = q0
    BY <2>1 DEF Ready, IInv, TypeOK
  <2>4. \A q \in Queries : Called(q)' <=> Called(q)
    BY <2>2 DEF Called
  <2>5. q0 \in 1 .. (IF lat \in {"load", "store"} THEN asked - 1 ELSE asked)
    BY <2>1, Mapped, Numbers DEF Queries
  <2>6. Service!Answer(q0)
    BY <2>1, <2>2, <2>3, <2>4, <2>5 DEF Service!Answer
  <2>7. QED
    BY <2>6 DEF Service!Next, Queries
<1>6. CASE Invoke
  <2> DEFINE q0 == Head(batch)
  <2>1. /\ batch # <<>> /\ batch \in Seq(Queries) /\ delivered \in Seq(Queries) /\ Ready(q0)
        /\ delivered' = Append(delivered, q0) /\ UNCHANGED <<lat, server, future>> /\ asked' = asked
    BY <1>6 DEF Invoke, Untouched, IInv, TypeOK, asked
  <2>2. q0 \in Queries /\ In(q0, batch)
    BY <2>1, Taken
  <2> HIDE DEF q0
  <2>3. \A q : In(q, delivered') <=> In(q, delivered) \/ q = q0
    BY <2>1, <2>2, Added
  <2>4. \A q \in Queries : Called(q)' <=> Called(q) \/ q = q0
    BY <2>3 DEF Called, In
  <2>5. ~Called(q0)
    BY <2>2, Mapped DEF IInv, Places
  <2>6. \A q \in Queries : Ready(q)' <=> Ready(q)
    BY <2>1 DEF Ready
  <2>7. Service!Deliver(q0)
    BY <2>1, <2>2, <2>4, <2>5, <2>6 DEF Service!Deliver
  <2>8. QED
    BY <2>2, <2>7 DEF Service!Next, Queries
<1>7. CASE BeginTick \/ Keep \/ EndTick
  <2>1. UNCHANGED <<future, delivered>> /\ Asked' = Asked
    BY <1>7, TickLeaves DEF BeginTick, Keep, EndTick, Tick, Untouched
  <2>2. QED
    BY <2>1, ServiceStutters
<1>8. CASE UNCHANGED vars
  <2>1. UNCHANGED <<future, delivered>> /\ Asked' = Asked
    BY <1>8 DEF vars, logicVars, tickVars, Asked, asked
  <2>2. QED
    BY <2>1, ServiceStutters
<1>9. QED
  BY <1>1, <1>2, <1>3, <1>4, <1>5, <1>6, <1>7, <1>8 DEF Next, Worker, Tick

(* Every step of the path is one of the service, or none of its concern: a   *)
(* query is answered once, and its callback called once, after the answer.   *)
(* What the service promises to do at last is for the checker.               *)
THEOREM ServesSafely == Spec => Service!Init /\ [][Service!Next]_(Service!vars)
  BY ServiceInit, ServiceStep, Invariance, PTL DEF Spec
===============================================================================
