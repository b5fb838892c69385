----------------------------- MODULE ServerProofs -----------------------------
(* Theorems about Server, for every set of clients.                          *)
EXTENDS Server, SequenceTheorems, TLAPS

(* What is in a list, and that it is there once.                             *)
In(c, s) == \E i \in 1 .. Len(s) : s[i] = c
Once(s) == \A i, j \in 1 .. Len(s) : s[i] = s[j] => i = j

(* The list has the clients whose session was added and not yet erased, each *)
(* once, whatever the tick is at: Throws leaves the list as it is.           *)
Listed ==
  /\ Once(list)
  /\ \A c \in Clients : client[c] = "listed" <=> In(c, list)

(* remove_if has each of the list once, in what it keeps or still has to     *)
(* look at, but for sessions that are closed.                                *)
Scanning ==
  logic = "scan" =>
    /\ Once(kept) /\ Once(rest)
    /\ \A c \in Clients : ~(In(c, kept) /\ In(c, rest))
    /\ \A c \in Clients : In(c, kept) \/ In(c, rest) => In(c, list)
    /\ \A c \in Clients : In(c, list) /\ c \notin closed => In(c, kept) \/ In(c, rest)

IInv == TypeOK /\ Listed /\ Scanning

(* Adding what is not there, taking the first, and the empty list.           *)
LEMMA Added ==
  ASSUME NEW s \in Seq(Clients), NEW c \in Clients
  PROVE  /\ Append(s, c) \in Seq(Clients)
         /\ \A d : In(d, Append(s, c)) <=> In(d, s) \/ d = c
         /\ Once(s) /\ ~In(c, s) => Once(Append(s, c))
PROOF
<1> DEFINE t == Append(s, c)
<1>1. /\ t \in Seq(Clients) /\ Len(s) \in Nat /\ Len(t) = Len(s) + 1
      /\ \A i \in 1 .. Len(s) : t[i] = s[i]
      /\ t[Len(s) + 1] = c
  BY AppendProperties, LenProperties
<1> HIDE DEF t
<1>2. ASSUME NEW d, In(d, t) PROVE In(d, s) \/ d = c
  BY <1>1, <1>2 DEF In
<1>3. ASSUME NEW d, In(d, s) \/ d = c PROVE In(d, t)
  <2>1. CASE In(d, s)
    <3>1. PICK i \in 1 .. Len(s) : s[i] = d
      BY <2>1 DEF In
    <3>2. i \in 1 .. Len(t) /\ t[i] = d
      BY <1>1, <3>1
    <3>3. QED
      BY <3>2 DEF In
  <2>2. CASE d = c
    <3>1. Len(s) + 1 \in 1 .. Len(t)
      BY <1>1
    <3>2. QED
      BY <1>1, <2>2, <3>1 DEF In
  <2>3. QED
    BY <1>3, <2>1, <2>2
<1>4. ASSUME Once(s), ~In(c, s) PROVE Once(t)
  BY <1>1, <1>4 DEF Once, In
<1>5. QED
  BY <1>1, <1>2, <1>3, <1>4 DEF t

LEMMA Taken ==
  ASSUME NEW s \in Seq(Clients), s # <<>>
  PROVE  /\ Head(s) \in Clients /\ Tail(s) \in Seq(Clients)
         /\ \A d : In(d, s) <=> In(d, Tail(s)) \/ d = Head(s)
         /\ Once(s) => Once(Tail(s)) /\ ~In(Head(s), Tail(s))
PROOF
<1> DEFINE t == Tail(s)
<1>1. /\ Head(s) \in Clients /\ t \in Seq(Clients) /\ Len(s) \in Nat \ {0}
      /\ Len(t) = Len(s) - 1 /\ Head(s) = s[1]
      /\ \A i \in 1 .. Len(t) : t[i] = s[i + 1]
  BY HeadTailProperties, EmptySeq
<1> HIDE DEF t
<1>2. ASSUME NEW d, In(d, s) PROVE In(d, t) \/ d = Head(s)
  <2>1. PICK i \in 1 .. Len(s) : s[i] = d
    BY <1>2 DEF In
  <2>2. i = 1 \/ (i - 1 \in 1 .. Len(t) /\ t[i - 1] = d)
    BY <1>1, <2>1
  <2>3. QED
    BY <1>1, <2>1, <2>2 DEF In
<1>3. ASSUME NEW d, In(d, t) \/ d = Head(s) PROVE In(d, s)
  <2>1. CASE In(d, t)
    <3>1. PICK i \in 1 .. Len(t) : t[i] = d
      BY <2>1 DEF In
    <3>2. i + 1 \in 1 .. Len(s) /\ s[i + 1] = d
      BY <1>1, <3>1
    <3>3. QED
      BY <3>2 DEF In
  <2>2. CASE d = Head(s)
    BY <1>1, <2>2 DEF In
  <2>3. QED
    BY <1>3, <2>1, <2>2
<1>4. ASSUME Once(s) PROVE Once(t) /\ ~In(Head(s), t)
  <2>1. Once(t)
    BY <1>1, <1>4 DEF Once
  <2>2. ASSUME NEW i \in 1 .. Len(t), t[i] = Head(s) PROVE FALSE
    <3>1. 1 \in 1 .. Len(s) /\ i + 1 \in 1 .. Len(s) /\ s[i + 1] = s[1] /\ i + 1 # 1
      BY <1>1, <2>2
    <3>2. QED
      BY <1>4, <3>1 DEF Once
  <2>3. QED
    BY <2>1, <2>2 DEF In
<1>5. QED
  BY <1>1, <1>2, <1>3, <1>4 DEF t

LEMMA None == <<>> \in Seq(Clients) /\ Once(<<>>) /\ \A d : ~In(d, <<>>)
  BY EmptySeq DEF Once, In

(* Two lists with nothing in common, one behind the other.                   *)
LEMMA Joined ==
  ASSUME NEW s \in Seq(Clients), NEW t \in Seq(Clients), Once(s), Once(t),
         \A c \in Clients : ~(In(c, s) /\ In(c, t))
  PROVE  /\ IsInjective(s \o t)
         /\ \A c \in Clients : In(c, s) \/ In(c, t) => c \in Range(s \o t)
PROOF
<1> DEFINE u == s \o t
<1>1. /\ Len(s) \in Nat /\ Len(t) \in Nat /\ DOMAIN u = 1 .. Len(s) + Len(t)
      /\ \A i \in 1 .. Len(s) : s[i] \in Clients
      /\ \A i \in 1 .. Len(t) : t[i] \in Clients
  BY ConcatProperties, LenProperties, ElementOfSeq
<1>2. \A i \in 1 .. Len(s) + Len(t) : u[i] = IF i <= Len(s) THEN s[i] ELSE t[i - Len(s)]
  BY ConcatProperties
<1> HIDE DEF u
<1>3. ASSUME NEW i \in DOMAIN u, NEW j \in DOMAIN u, u[i] = u[j]
      PROVE  i = j
  <2>1. CASE i <= Len(s) /\ j <= Len(s)
    BY <1>1, <1>2, <1>3, <2>1 DEF Once
  <2>2. CASE ~(i <= Len(s)) /\ ~(j <= Len(s))
    <3>1. i - Len(s) \in 1 .. Len(t) /\ j - Len(s) \in 1 .. Len(t)
      BY <1>1, <2>2
    <3>2. t[i - Len(s)] = t[j - Len(s)]
      BY <1>1, <1>2, <1>3, <2>2
    <3>3. i - Len(s) = j - Len(s)
      BY <3>1, <3>2 DEF Once
    <3>4. QED
      BY <1>1, <3>3
  <2>3. ASSUME NEW k \in DOMAIN u, NEW l \in DOMAIN u, u[k] = u[l],
               k <= Len(s), ~(l <= Len(s))
        PROVE  FALSE
    <3>1. k \in 1 .. Len(s) /\ l - Len(s) \in 1 .. Len(t)
      BY <1>1, <2>3
    <3>2. s[k] = t[l - Len(s)] /\ s[k] \in Clients
      BY <1>1, <1>2, <2>3, <3>1
    <3>3. QED
      BY <3>1, <3>2 DEF In
  <2>4. QED
    BY <1>3, <2>1, <2>2, <2>3
<1>4. ASSUME NEW c \in Clients, In(c, s) \/ In(c, t)
      PROVE  c \in Range(u)
  <2>1. CASE In(c, s)
    <3>1. PICK i \in 1 .. Len(s) : s[i] = c
      BY <2>1 DEF In
    <3>2. i \in DOMAIN u /\ u[i] = c
      BY <1>1, <1>2, <3>1
    <3>3. QED
      BY <3>2 DEF Range
  <2>2. CASE In(c, t)
    <3>1. PICK i \in 1 .. Len(t) : t[i] = c
      BY <2>2 DEF In
    <3>2. i + Len(s) \in DOMAIN u /\ u[i + Len(s)] = c
      BY <1>1, <1>2, <3>1
    <3>3. QED
      BY <3>2 DEF Range
  <2>3. QED
    BY <1>4, <2>1, <2>2
<1>5. QED
  BY <1>3, <1>4 DEF IsInjective, u

THEOREM InitEstablishes == Init => IInv
PROOF
<1> SUFFICES ASSUME Init PROVE IInv
  OBVIOUS
<1>1. TypeOK
  BY None DEF Init, TypeOK
<1>2. Listed /\ Scanning
  BY None DEF Init, Listed, Scanning
<1>3. QED
  BY <1>1, <1>2 DEF IInv

(* A step that leaves the sessions alone, as far as the list goes.           *)
LEMMA ListUntouched ==
  ASSUME IInv, UNCHANGED <<kept, rest, client, closed, list>>, logic' = "scan" => logic = "scan"
  PROVE  Listed' /\ Scanning'
  BY DEF IInv, Listed, Scanning

LEMMA SetRouterKeeps ==
  ASSUME IInv, SetRouter
  PROVE  IInv'
PROOF
<1>1. /\ net = "routing" /\ net' = "adding" /\ crashed' \in BOOLEAN
      /\ UNCHANGED <<logicVars, accepting, signal, mutex, client, closed, list>>
  BY DEF SetRouter
<1>2. Listed' /\ Scanning'
  BY <1>1, ListUntouched DEF logicVars
<1>3. TypeOK'
  BY <1>1 DEF IInv, TypeOK, logicVars
<1>4. QED
  BY <1>2, <1>3 DEF IInv

LEMMA NetworkKeeps ==
  ASSUME IInv, HandleSignal \/ Terminate \/ LockList \/ (\E c \in Clients : AcceptFails(c))
  PROVE  IInv'
PROOF
<1>1. UNCHANGED <<logicVars, client, closed, list, crashed>>
  BY DEF HandleSignal, Terminate, LockList, AcceptFails, netVars
<1>2. Listed' /\ Scanning'
  BY <1>1, ListUntouched DEF logicVars
<1>3. TypeOK'
  <2>1. CASE LockList
    <3>1. /\ mutex = "free" /\ mutex' = "net" /\ net' = "append"
          /\ UNCHANGED <<logicVars, accepting, signal>>
      BY <2>1 DEF LockList
    <3>2. QED
      BY <1>1, <3>1 DEF IInv, TypeOK, logicVars
  <2>2. CASE ~LockList
    <3>1. /\ UNCHANGED mutex /\ net' \in {net, "ended"}
          /\ accepting' \in BOOLEAN /\ signal' \in {"none", "sent", "handled"}
      BY <2>2 DEF IInv, TypeOK, HandleSignal, Terminate, AcceptFails, netVars
    <3>2. QED
      BY <1>1, <3>1 DEF IInv, TypeOK, logicVars
  <2>3. QED
    BY <2>1, <2>2
<1>4. QED
  BY <1>2, <1>3 DEF IInv

LEMMA TickKeeps ==
  ASSUME IInv,
         \/ Expire \/ Update \/ CheckEmpty \/ ProcessReadyCallbacks
         \/ BindFails \/ DestroyMembers \/ DestroyBase \/ Join
  PROVE  IInv'
PROOF
<1>1. /\ UNCHANGED <<threw, kept, rest, net, accepting, signal, mutex, client, closed, list, crashed>>
      /\ logic' # "scan"
  BY DEF Expire, Update, CheckEmpty, ProcessReadyCallbacks, BindFails, DestroyMembers,
         DestroyBase, Join, LogicGoes, netVars, SeesEmpty
<1>2. Listed' /\ Scanning'
  BY <1>1, ListUntouched
<1>3. /\ armed' \in BOOLEAN
      /\ logic' \in {"sleep", "wait", "check", "lock", "callbacks", "destroying", "joining", "gone"}
  BY DEF IInv, TypeOK, Expire, Update, Rearm, CheckEmpty, ProcessReadyCallbacks, BindFails,
         DestroyMembers, DestroyBase, Join, LogicGoes, SeesEmpty
<1>4. TypeOK'
  BY <1>1, <1>3 DEF IInv, TypeOK
<1>5. QED
  BY <1>2, <1>4 DEF IInv

LEMMA StartKeeps ==
  ASSUME IInv, Start \/ Throws
  PROVE  IInv'
PROOF
<1>1. UNCHANGED <<kept, rest, client, closed, list>> /\ logic' # "scan"
  BY DEF Start, Throws, LogicGoes, netVars
<1>2. Listed' /\ Scanning'
  BY <1>1, ListUntouched
<1>3. TypeOK'
  <2>1. CASE Start
    BY <1>1, <2>1 DEF IInv, TypeOK, Start, LogicGoes
  <2>2. CASE Throws
    BY <1>1, <2>2 DEF IInv, TypeOK, Throws, netVars
  <2>3. QED
    BY <2>1, <2>2
<1>4. QED
  BY <1>2, <1>3 DEF IInv

(* A client moves that is in no list, before and after.                      *)
LEMMA ClientMoves ==
  ASSUME IInv, NEW c \in Clients, Knock(c) \/ Accept(c) \/ PeerGone(c)
  PROVE  IInv'
PROOF
<1>1. UNCHANGED <<logicVars, signal, mutex, closed, list>>
  BY DEF Knock, Accept, PeerGone, netVars
<1>2. PICK k \in {"away", "knocking", "made", "gone"} :
        client' = [client EXCEPT ![c] = k] /\ client[c] # "listed"
  <2>1. CASE client' = client /\ client[c] = "knocking"
    BY <2>1 DEF IInv, TypeOK
  <2>2. CASE client' # client \/ client[c] # "knocking"
    BY <2>2 DEF Knock, Accept, PeerGone, Accepts
  <2>3. QED
    BY <2>1, <2>2
<1>3. /\ client' \in [Clients -> {"away", "knocking", "made", "listed", "gone"}]
      /\ \A d \in Clients : client'[d] = "listed" <=> client[d] = "listed"
  BY <1>2 DEF IInv, TypeOK
<1>4. Listed' /\ Scanning'
  BY <1>1, <1>3 DEF IInv, Listed, Scanning, logicVars
<1>5. TypeOK'
  <2>1. /\ net' \in {net, "routing"} /\ (net' # net => net = "run")
        /\ accepting' \in BOOLEAN /\ crashed' \in BOOLEAN
    BY DEF IInv, TypeOK, Knock, Accept, PeerGone, Accepts, netVars
  <2>2. QED
    BY <1>1, <1>3, <2>1 DEF IInv, TypeOK, logicVars
<1>6. QED
  BY <1>4, <1>5 DEF IInv

LEMMA CloseSessionKeeps ==
  ASSUME IInv, NEW c \in Clients, CloseSession(c)
  PROVE  IInv'
  BY DEF IInv, TypeOK, Listed, Scanning, CloseSession, logicVars, netVars

LEMMA AddNewSessionKeeps ==
  ASSUME IInv, NEW c \in Clients, AddNewSession(c)
  PROVE  IInv'
PROOF
<1>1. /\ net = "append" /\ net' = "run" /\ mutex' = "free" /\ client[c] = "made"
      /\ client' = [client EXCEPT ![c] = "listed"] /\ list' = Append(list, c)
      /\ UNCHANGED <<logicVars, accepting, signal, closed, crashed>>
  BY DEF AddNewSession
<1>2. logic # "scan" /\ list \in Seq(Clients) /\ ~In(c, list) /\ Once(list)
  BY <1>1 DEF IInv, TypeOK, Listed
<1>3. list' \in Seq(Clients) /\ Once(list') /\ \A d : In(d, list') <=> In(d, list) \/ d = c
  BY <1>1, <1>2, Added
<1>4. TypeOK'
  BY <1>1, <1>2, <1>3 DEF IInv, TypeOK, logicVars
<1>5. \A d \in Clients : client'[d] = "listed" <=> client[d] = "listed" \/ d = c
  BY <1>1 DEF IInv, TypeOK
<1>6. Listed'
  BY <1>3, <1>5 DEF IInv, Listed
<1>7. Scanning'
  BY <1>1, <1>2 DEF IInv, Scanning, logicVars
<1>8. QED
  BY <1>4, <1>6, <1>7 DEF IInv

LEMMA LockKeeps ==
  ASSUME IInv, Lock
  PROVE  IInv'
PROOF
<1>1. /\ logic = "lock" /\ logic' = "scan" /\ mutex = "free" /\ mutex' = "logic"
      /\ rest' = list /\ kept' = <<>>
      /\ UNCHANGED <<armed, threw, netVars, client, closed, list, crashed>>
  BY DEF Lock, LogicGoes
<1>2. TypeOK'
  BY <1>1, None DEF IInv, TypeOK, netVars
<1>3. Listed'
  BY <1>1 DEF IInv, Listed, netVars
<1>4. Scanning'
  BY <1>1, None DEF IInv, Listed, Scanning
<1>5. QED
  BY <1>2, <1>3, <1>4 DEF IInv

LEMMA TickSessionKeeps ==
  ASSUME IInv, TickSession
  PROVE  IInv'
PROOF
<1> DEFINE c == Head(rest)
<1>1. /\ logic = "scan" /\ logic' = "scan" /\ rest # <<>> /\ rest' = Tail(rest)
      /\ kept' = IF c \in closed THEN kept ELSE Append(kept, c)
      /\ UNCHANGED <<armed, threw, netVars, mutex, client, closed, list, crashed>>
  BY DEF TickSession, LogicGoes
<1>2. kept \in Seq(Clients) /\ rest \in Seq(Clients)
  BY DEF IInv, TypeOK
<1>3. /\ c \in Clients /\ rest' \in Seq(Clients) /\ Once(rest') /\ ~In(c, rest')
      /\ \A d : In(d, rest) <=> In(d, rest') \/ d = c
  BY <1>1, <1>2, Taken DEF IInv, Scanning
<1> HIDE DEF c
<1>4. /\ kept' \in Seq(Clients) /\ Once(kept')
      /\ \A d : In(d, kept') <=> In(d, kept) \/ (d = c /\ c \notin closed)
  <2>1. CASE c \in closed
    BY <1>1, <1>2, <2>1 DEF IInv, Scanning
  <2>2. CASE c \notin closed
    <3>1. Once(kept) /\ ~In(c, kept)
      BY <1>1, <1>3 DEF IInv, Scanning
    <3>2. kept' = Append(kept, c)
      BY <1>1, <2>2
    <3>3. QED
      BY <1>2, <1>3, <2>2, <3>1, <3>2, Added
  <2>3. QED
    BY <2>1, <2>2
<1>5. TypeOK' /\ Listed'
  BY <1>1, <1>3, <1>4 DEF IInv, TypeOK, Listed, netVars
<1>6. Scanning'
  BY <1>1, <1>3, <1>4 DEF IInv, Scanning
<1>7. QED
  BY <1>5, <1>6 DEF IInv

LEMMA EraseClosedKeeps ==
  ASSUME IInv, EraseClosed
  PROVE  IInv'
PROOF
<1>1. /\ logic = "scan" /\ logic' = "callbacks" /\ rest = <<>> /\ mutex' = "free"
      /\ list' = kept /\ kept' = <<>>
      /\ UNCHANGED <<armed, threw, rest, netVars, closed, crashed>>
  BY DEF EraseClosed, LogicGoes
<1>2. list \in Seq(Clients) /\ kept \in Seq(Clients)
  BY DEF IInv, TypeOK
<1>3. DOMAIN list = 1 .. Len(list) /\ DOMAIN kept = 1 .. Len(kept)
  BY <1>2, LenProperties
<1>4. client' = [c \in Clients |-> IF In(c, list) /\ ~In(c, kept) THEN "gone" ELSE client[c]]
  BY <1>3 DEF EraseClosed, In
<1>5. TypeOK'
  <2>1. client' \in [Clients -> {"away", "knocking", "made", "listed", "gone"}]
    BY <1>4 DEF IInv, TypeOK
  <2>2. QED
    BY <1>1, <1>2, <2>1, None DEF IInv, TypeOK, netVars
<1>6. Listed'
  <2>1. \A c \in Clients : In(c, kept) => In(c, list)
    BY <1>1 DEF IInv, Scanning
  <2>2. \A c \in Clients : client'[c] = "listed" <=> In(c, kept)
    BY <1>4, <2>1 DEF IInv, Listed
  <2>3. Once(kept)
    BY <1>1 DEF IInv, Scanning
  <2>4. QED
    BY <1>1, <2>2, <2>3 DEF Listed
<1>7. Scanning'
  BY <1>1 DEF IInv, Scanning, netVars
<1>8. QED
  BY <1>5, <1>6, <1>7 DEF IInv

THEOREM NextPreserves == IInv /\ [Next]_vars => IInv'
PROOF
<1> SUFFICES ASSUME IInv, [Next]_vars PROVE IInv'
  OBVIOUS
<1>1. CASE UNCHANGED vars
  BY <1>1 DEF vars, logicVars, netVars, IInv, TypeOK, Listed, Scanning
<1>2. CASE Next
  BY <1>2, NetworkKeeps, TickKeeps, StartKeeps, ClientMoves, CloseSessionKeeps,
     SetRouterKeeps, AddNewSessionKeeps, LockKeeps, TickSessionKeeps, EraseClosedKeeps
     DEF Next, Main, Tick, Serving
<1>3. QED
  BY <1>1, <1>2

THEOREM Invariance == Spec => []IInv
PROOF
<1>1. QED
  BY InitEstablishes, NextPreserves, PTL DEF Spec

(* The types, and that the tick and AddNewSession hold the mutex while they  *)
(* are at the list, for any number of clients.                               *)
THEOREM TypeCorrect == Spec => []TypeOK
PROOF
<1>1. IInv => TypeOK
  BY DEF IInv
<1>2. QED
  BY <1>1, Invariance, PTL

(* A session that was added is in _sessions, or in what remove_if has of it, *)
(* once, until it is closed.                                                 *)
THEOREM NoneLost == Spec => []NoSessionLost
PROOF
<1>1. ASSUME IInv PROVE NoSessionLost
  <2>1. list \in Seq(Clients) /\ kept \in Seq(Clients) /\ rest \in Seq(Clients)
    BY <1>1 DEF IInv, TypeOK
  <2>2. CASE logic = "scan"
    <3>1. /\ IsInjective(kept \o rest)
          /\ \A c \in Clients : In(c, kept) \/ In(c, rest) => c \in Range(kept \o rest)
      BY <1>1, <2>1, <2>2, Joined DEF IInv, Scanning
    <3>2. \A c \in Clients : client[c] = "listed" /\ c \notin closed => In(c, kept) \/ In(c, rest)
      BY <1>1, <2>2 DEF IInv, Listed, Scanning
    <3>3. QED
      BY <2>2, <3>1, <3>2 DEF NoSessionLost, InUse
  <2>3. CASE logic # "scan"
    <3>1. DOMAIN list = 1 .. Len(list)
      BY <2>1, LenProperties
    <3>2. IsInjective(list)
      BY <1>1, <3>1 DEF IInv, Listed, Once, IsInjective
    <3>3. \A c \in Clients : client[c] = "listed" => c \in Range(list)
      BY <1>1, <3>1 DEF IInv, Listed, In, Range
    <3>4. QED
      BY <2>3, <3>2, <3>3 DEF NoSessionLost, InUse
  <2>4. QED
    BY <2>2, <2>3
<1>2. QED
  BY <1>1, Invariance, PTL
===============================================================================
