-------------------------------- MODULE Server --------------------------------
(* IServer and HttpServer from main's point of view: the network thread that *)
(* accepts, the logic thread that ticks, the list of sessions between them   *)
(* under _mutex, SIGTERM, and the destruction of the server. A session is    *)
(* the client it belongs to; what it does otherwise is in Session.           *)
EXTENDS Naturals, Sequences, Functions

CONSTANT Clients

VARIABLES
  logic,      \* where the logic thread, which is main's, is
  armed,      \* _updateTimer has a wait pending
  threw,      \* an exception has left Update
  net,        \* where the network thread is
  accepting,  \* AcceptLoop has not returned
  signal,     \* SIGTERM: "none", "sent" or "handled"
  mutex,      \* who holds _mutex
  client,     \* each client: "away", "knocking", "made", "listed" or "gone"
  closed,     \* the sessions that are closed
  list,       \* _sessions
  kept,       \* what remove_if has looked at and keeps
  rest,       \* what it has still to look at
  crashed     \* a destroyed member or a pure virtual function was used

logicVars == <<logic, armed, threw, kept, rest>>
netVars   == <<net, accepting, signal>>
vars == <<logicVars, netVars, mutex, client, closed, list, crashed>>

Init ==
  /\ logic = "new" /\ armed = FALSE /\ threw = FALSE
  /\ net = "none" /\ accepting = FALSE /\ signal = "none" /\ mutex = "free"
  /\ client = [c \in Clients |-> "away"] /\ closed = {}
  /\ list = <<>> /\ kept = <<>> /\ rest = <<>> /\ crashed = FALSE

-----------------------------------------------------------------------------
(* The network thread. *)

(* A client connects, and stays in the acceptor's backlog until it is taken. *)
Knock(c) ==
  /\ client[c] = "away"
  /\ client' = [client EXCEPT ![c] = "knocking"]
  /\ UNCHANGED <<logicVars, netVars, mutex, closed, list, crashed>>

Accepts(c) == net = "run" /\ accepting /\ client[c] = "knocking"

(* AcceptLoop: OnScoketAccepted is a virtual function of an object that main *)
(* may be destroying. It makes the session,                                  *)
Accept(c) ==
  /\ Accepts(c)
  /\ IF logic = "joining"
     THEN crashed' = TRUE /\ UNCHANGED <<net, client>>
     ELSE /\ net' = "routing" /\ client' = [client EXCEPT ![c] = "made"]
          /\ UNCHANGED crashed
  /\ UNCHANGED <<logicVars, accepting, signal, mutex, closed, list>>

(* and copies _router into it, which main may have destroyed by then or      *)
(* meanwhile: the copy may crash or go on.                                   *)
SetRouter ==
  /\ net = "routing"
  /\ net' = "adding"
  /\ crashed' \in IF logic \in {"destroying", "joining"} THEN BOOLEAN ELSE {FALSE}
  /\ UNCHANGED <<logicVars, accepting, signal, mutex, client, closed, list>>

(* It returns on an error code; *)
AcceptFails(c) ==
  /\ Accepts(c)
  /\ accepting' = FALSE
  /\ UNCHANGED <<logicVars, net, signal, mutex, client, closed, list, crashed>>

(* remote_endpoint throws in the session's constructor when the peer is gone *)
(* already, which ends the detached coroutine without a word.                *)
PeerGone(c) ==
  /\ Accepts(c) /\ logic # "joining"
  /\ accepting' = FALSE
  /\ client' = [client EXCEPT ![c] = "gone"]
  /\ UNCHANGED <<logicVars, net, signal, mutex, closed, list, crashed>>

(* Mutant: AddNewSession does without the mutex. *)
LockNothing ==
  /\ net = "adding"
  /\ net' = "append"
  /\ UNCHANGED <<logicVars, accepting, signal, mutex, client, closed, list, crashed>>

(* AddNewSession waits for the mutex, *)
LockList ==
  /\ net = "adding" /\ mutex = "free"
  /\ mutex' = "net" /\ net' = "append"
  /\ UNCHANGED <<logicVars, accepting, signal, client, closed, list, crashed>>

(* and appends. *)
AddNewSession(c) ==
  /\ net = "append" /\ client[c] = "made"
  /\ list' = Append(list, c)
  /\ client' = [client EXCEPT ![c] = "listed"]
  /\ mutex' = "free" /\ net' = "run"
  /\ UNCHANGED <<logicVars, accepting, signal, closed, crashed>>

(* A coroutine of the session closes it. *)
CloseSession(c) ==
  /\ net = "run" /\ client[c] = "listed" /\ c \notin closed
  /\ closed' = closed \union {c}
  /\ UNCHANGED <<logicVars, netVars, mutex, client, list, crashed>>

Terminate ==
  /\ signal = "none" /\ net # "none"
  /\ signal' = "sent"
  /\ UNCHANGED <<logicVars, net, accepting, mutex, client, closed, list, crashed>>

(* Mutant: AcceptLoop waits for the signal, and has returned. *)
HandleSignalWhileAccepting ==
  /\ net = "run" /\ signal = "sent" /\ accepting
  /\ signal' = "handled" /\ net' = "ended"
  /\ UNCHANGED <<logicVars, accepting, mutex, client, closed, list, crashed>>

(* The handler of SIGTERM stops _netIoCtx, and its thread ends. *)
HandleSignal ==
  /\ net = "run" /\ signal = "sent"
  /\ signal' = "handled" /\ net' = "ended"
  /\ UNCHANGED <<logicVars, accepting, mutex, client, closed, list, crashed>>

Serving ==
  \/ SetRouter
  \/ \E c \in Clients : Accept(c) \/ AcceptFails(c) \/ PeerGone(c) \/ AddNewSession(c)

-----------------------------------------------------------------------------
(* The logic thread. *)

LogicGoes(from, to) == logic = from /\ logic' = to

(* Start creates the network thread and arms the timer; before that, the     *)
(* constructor throws when the address is taken, and main returns.           *)
Start ==
  /\ LogicGoes("new", "sleep") /\ armed' = TRUE
  /\ net' = "run" /\ accepting' = TRUE
  /\ UNCHANGED <<threw, kept, rest, signal, mutex, client, closed, list, crashed>>

BindFails ==
  /\ LogicGoes("new", "gone")
  /\ UNCHANGED <<armed, threw, kept, rest, netVars, mutex, client, closed, list, crashed>>

(* Mutant: Update returns early before it rearms the timer. *)
RearmUnlessEmpty == armed' = (list # <<>>)

Rearm == armed' = TRUE

(* The millisecond is over. *)
Expire ==
  /\ LogicGoes("sleep", "wait")
  /\ UNCHANGED <<armed, threw, kept, rest, netVars, mutex, client, closed, list, crashed>>

(* Update rearms first, *)
Update ==
  /\ LogicGoes("wait", "check") /\ armed
  /\ Rearm
  /\ UNCHANGED <<threw, kept, rest, netVars, mutex, client, closed, list, crashed>>

(* reads _sessions.empty() without the mutex: while a session is appended it *)
(* may see anything;                                                         *)
SeesEmpty == IF mutex = "net" THEN BOOLEAN ELSE {list = <<>>}

CheckEmpty ==
  /\ \E empty \in SeesEmpty : LogicGoes("check", IF empty THEN "callbacks" ELSE "lock")
  /\ UNCHANGED <<armed, threw, kept, rest, netVars, mutex, client, closed, list, crashed>>

(* Mutant: the tick does without the mutex. *)
LockNobody ==
  /\ LogicGoes("lock", "scan")
  /\ rest' = list /\ kept' = <<>>
  /\ UNCHANGED <<armed, threw, netVars, mutex, client, closed, list, crashed>>

Lock ==
  /\ LogicGoes("lock", "scan") /\ mutex = "free"
  /\ mutex' = "logic" /\ rest' = list /\ kept' = <<>>
  /\ UNCHANGED <<armed, threw, netVars, client, closed, list, crashed>>

(* under the mutex remove_if ticks each session and keeps those that are     *)
(* open,                                                                     *)
TickSession ==
  /\ LogicGoes("scan", "scan") /\ rest # <<>>
  /\ kept' = IF Head(rest) \in closed THEN kept ELSE Append(kept, Head(rest))
  /\ rest' = Tail(rest)
  /\ UNCHANGED <<armed, threw, netVars, mutex, client, closed, list, crashed>>

EraseClosed ==
  /\ LogicGoes("scan", "callbacks") /\ rest = <<>>
  /\ list' = kept /\ kept' = <<>>
  /\ client' = [c \in Clients |->
                  IF (\E i \in DOMAIN list : list[i] = c) /\ ~(\E i \in DOMAIN kept : kept[i] = c)
                  THEN "gone" ELSE client[c]]
  /\ mutex' = "free"
  /\ UNCHANGED <<armed, threw, rest, netVars, closed, crashed>>

(* and HttpServer::Update goes on to the query callbacks. The timer was set  *)
(* when the tick began: unless it took less than a millisecond the next one  *)
(* follows at once.                                                          *)
ProcessReadyCallbacks ==
  /\ LogicGoes("callbacks", "sleep") \/ LogicGoes("callbacks", "wait")
  /\ UNCHANGED <<armed, threw, kept, rest, netVars, mutex, client, closed, list, crashed>>

(* Mutant: the mutex is locked and unlocked by hand, and so stays locked. *)
ThrowsLocked ==
  /\ logic \in {"scan", "callbacks"}
  /\ logic' = "ended" /\ threw' = TRUE
  /\ UNCHANGED <<armed, kept, rest, netVars, mutex, client, closed, list, crashed>>

(* An exception in a session's Update or a callback ends Start; the guard    *)
(* unlocks the mutex on its way.                                             *)
Throws ==
  /\ logic \in {"scan", "callbacks"}
  /\ logic' = "ended" /\ threw' = TRUE
  /\ mutex' = IF mutex = "logic" THEN "free" ELSE mutex
  /\ UNCHANGED <<armed, kept, rest, netVars, client, closed, list, crashed>>

(* main leaves the block: ~HttpServer destroys its members, *)
DestroyMembers ==
  /\ LogicGoes("ended", "destroying")
  /\ UNCHANGED <<armed, threw, kept, rest, netVars, mutex, client, closed, list, crashed>>

(* and the object is an IServer, whose virtual functions are pure. *)
DestroyBase ==
  /\ LogicGoes("destroying", "joining")
  /\ UNCHANGED <<armed, threw, kept, rest, netVars, mutex, client, closed, list, crashed>>

(* ~IServer joins the network thread, which nobody has stopped, and destroys *)
(* the rest.                                                                 *)
Join ==
  /\ LogicGoes("joining", "gone") /\ net = "ended"
  /\ UNCHANGED <<armed, threw, kept, rest, netVars, mutex, client, closed, list, crashed>>

Tick == Expire \/ Update \/ CheckEmpty \/ Lock \/ TickSession \/ EraseClosed
          \/ ProcessReadyCallbacks

Main == Tick \/ DestroyMembers \/ DestroyBase \/ Join

-----------------------------------------------------------------------------
Next ==
  /\ ~crashed
  /\ \/ Start \/ BindFails \/ Main \/ Throws
     \/ Serving \/ LockList \/ HandleSignal \/ Terminate
     \/ \E c \in Clients : Knock(c) \/ CloseSession(c)

Spec == Init /\ [][Next]_vars

Runs(A) == ~crashed /\ A

(* Both io_contexts run what is ready. std::mutex is not fair: the tick may  *)
(* take it again and again before the network thread wakes. Only in the      *)
(* sleep between two ticks nobody competes, and of infinitely many sleeps    *)
(* some are long enough for the network thread to get it.                    *)
FairSpec ==
  /\ Spec
  /\ WF_vars(Runs(Main)) /\ WF_vars(Runs(Serving)) /\ WF_vars(Runs(LockList))
  /\ WF_vars(Runs(HandleSignal))
  /\ SF_vars(Runs(LockList /\ logic = "sleep"))
-----------------------------------------------------------------------------
TypeOK ==
  /\ logic \in {"new", "sleep", "wait", "check", "lock", "scan", "callbacks",
                "ended", "destroying", "joining", "gone"}
  /\ net \in {"none", "run", "routing", "adding", "append", "ended"}
  /\ signal \in {"none", "sent", "handled"} /\ mutex \in {"free", "logic", "net"}
  /\ armed \in BOOLEAN /\ threw \in BOOLEAN /\ accepting \in BOOLEAN /\ crashed \in BOOLEAN
  /\ client \in [Clients -> {"away", "knocking", "made", "listed", "gone"}]
  /\ closed \subseteq Clients
  /\ list \in Seq(Clients) /\ kept \in Seq(Clients) /\ rest \in Seq(Clients)
  /\ logic = "scan" => mutex = "logic"
  /\ net = "append" => mutex = "net"

(* A session that was added is in the list once until it is closed: neither  *)
(* an append beside the tick nor the removal of its neighbours loses it or   *)
(* has it ticked twice.                                                      *)
InUse == IF logic = "scan" THEN kept \o rest ELSE list
NoSessionLost ==
  /\ IsInjective(InUse)
  /\ \A c \in Clients : client[c] = "listed" /\ c \notin closed => c \in Range(InUse)

(* A session that is closed is removed before long, however many others are  *)
(* closed at the same tick.                                                  *)
ClosedIsRemoved ==
  \A c \in Clients : c \in closed ~> client[c] = "gone" \/ threw \/ crashed

(* A client that connects gets a session, although the handlers run under    *)
(* the mutex its session needs - unless an accept has failed, for whichever  *)
(* client, or the network was stopped, and if again and again a tick ends    *)
(* before its timer does: when all ticks take longer, clients may starve.    *)
TicksAreShort == []<>(logic = "sleep" \/ threw)

ClientsAreTaken ==
  TicksAreShort =>
    \A c \in Clients :
      client[c] = "knocking" /\ net # "none"
        ~> client[c] \in {"listed", "gone"} \/ ~accepting \/ net = "ended" \/ crashed

(* When an exception has ended the logic thread and SIGTERM comes, before or *)
(* after, the process ends, or crashes on what it has destroyed: it waits no *)
(* more, for a mutex that was held or for a thread that nobody stops,        *)
(* whatever the network thread was about.                                    *)
EndsWhenTold == threw /\ signal # "none" ~> logic = "gone" \/ crashed

(* "The server exits on an exception" (Server.cpp:77). It does not hold:     *)
(* ~IServer waits for a network thread that only SIGTERM stops, and which    *)
(* goes on to use what ~HttpServer has destroyed.                            *)
ServerExits == threw ~> logic = "gone"
=============================================================================
