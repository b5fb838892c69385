----------------------------- MODULE HttpExchange -----------------------------
(* From a packet to its answer, on the logic thread: HttpSession parses the  *)
(* packet, the router calls a handler of HttpServer, and the payload of the  *)
(* session's one HttpResponse is sent.  That response object outlives the    *)
(* answer: callbacks of queries and posted tasks hold references to it, and  *)
(* use them when the session is gone and its memory another session's.       *)
(* The transport is that of PacketPipeline, the database QueryService.       *)
EXTENDS Naturals, Sequences

CONSTANTS
  Sessions,     \* the sessions that may be accepted, each once
  Places,       \* where in memory a session may be made
  Nowhere,      \* the place of a session that was never made
  MaxPackets    \* bound on the packets that arrive, on all of them

ASSUME PacketsAssumption == MaxPackets \in Nat
ASSUME PlacesAssumption == Nowhere \notin Places

VARIABLES
  open,        \* the sessions in IServer::_sessions
  place,       \* where each session is, or was
  packets,     \* every packet that arrived, with its session
  inbox,       \* per session, the packets in _readBufferQueue
  parsed,      \* the sessions whose _req has views into an earlier packet
  resp,        \* per session, its HttpResponse _rep
  sent,        \* per session, what was given to SendMsg
  posts,       \* the lambdas of /task in the logic io_context
  asker,       \* the packet for which each query was asked
  asked, answered, delivered,    \* of the database
  fate         \* the process runs, aborted, or wrote to a dead object

Db == INSTANCE QueryService WITH MaxQueries <- MaxPackets

dbVars == <<asked, answered, delivered>>
vars == <<open, place, packets, inbox, parsed, resp, sent, posts, asker, dbVars, fate>>

Ids == 1 .. MaxPackets
Home(id) == packets[id].to

(* "/other" stands for what has no handler, "bad" for a packet that is not   *)
(* the beginning of a request.                                               *)
Routes == {"/", "/user1", "/user2", "/task", "/other"}
Kinds == Routes \union {"bad"}

-----------------------------------------------------------------------------
(* HttpResponse.  Content is a sequence of pieces, each made for a packet;   *)
(* its length is their number.  _headers keeps every Content-Length.         *)

NewResponse == [status |-> 0, content |-> <<>>, lengths |-> <<>>, head |-> <<>>]

Piece(id, what) == [by |-> id, what |-> what]

SetStatusCode(r, status) == [r EXCEPT !.status = status]

(* Mutant: the content is added to. *)
SetContentAppends(r, id, what) == [r EXCEPT !.content = Append(@, Piece(id, what))]

SetContent(r, id, what) == [r EXCEPT !.content = <<Piece(id, what)>>]

(* What a handler, a callback or a task does that has something to say. *)
Say(r, id, what) == SetStatusCode(SetContent(r, id, what), 200)

(* BuildResponseHead: from 404 on the page of the error is added. *)
BodyOf(r, id) ==
  IF r.status >= 404 THEN Append(r.content, Piece(id, "error")) ELSE r.content

(* Mutant: the length is taken before the page of the error is added. *)
GetPayloadMeasuresFirst(r, id) ==
  LET lengths == Append(r.lengths, Len(r.content))
  IN  [r EXCEPT !.content = BodyOf(r, id),
                !.lengths = lengths,
                !.head = Append(@, [status |-> r.status, lengths |-> lengths,
                                    body |-> BodyOf(r, id)])]

(* The response after GetPayload; the payload is the whole of its head.  No  *)
(* member is ever cleared.                                                   *)
GetPayload(r, id) ==
  LET lengths == Append(r.lengths, Len(BodyOf(r, id)))
  IN  [r EXCEPT !.content = BodyOf(r, id),
                !.lengths = lengths,
                !.head = Append(@, [status |-> r.status, lengths |-> lengths,
                                    body |-> BodyOf(r, id)])]

-----------------------------------------------------------------------------
Init ==
  /\ open = {} /\ place = [s \in Sessions |-> Nowhere]
  /\ packets = <<>> /\ parsed = {}
  /\ inbox = [s \in Sessions |-> <<>>] /\ sent = [s \in Sessions |-> <<>>]
  /\ resp = [s \in Sessions |-> NewResponse]
  /\ posts = <<>> /\ asker = <<>> /\ fate = "runs"
  /\ Db!Init

(* OnScoketAccepted makes a session where no other is. *)
Accept(s) ==
  /\ place[s] = Nowhere
  /\ \E p \in Places \ {place[t] : t \in open} : place' = [place EXCEPT ![s] = p]
  /\ open' = open \union {s}
  /\ UNCHANGED <<packets, inbox, parsed, resp, sent, posts, asker, dbVars, fate>>

(* ReadLoop pushes a packet. *)
Receive(s, kind) ==
  /\ s \in open /\ Len(packets) < MaxPackets
  /\ packets' = Append(packets, [to |-> s, kind |-> kind])
  /\ inbox' = [inbox EXCEPT ![s] = Append(@, Len(packets) + 1)]
  /\ UNCHANGED <<open, place, parsed, resp, sent, posts, asker, dbVars, fate>>

(* Mutant: the queue survives the session. *)
EraseKeepsQueue(s) ==
  /\ s \in open
  /\ open' = open \ {s}
  /\ UNCHANGED <<place, packets, inbox, parsed, resp, sent, posts, asker, dbVars, fate>>

(* The tick erases a session that was closed. *)
Erase(s) ==
  /\ s \in open
  /\ open' = open \ {s}
  /\ inbox' = [inbox EXCEPT ![s] = <<>>]
  /\ UNCHANGED <<place, packets, parsed, resp, sent, posts, asker, dbVars, fate>>

-----------------------------------------------------------------------------
(* CoReadHandler.                                                            *)

(* Where Route may go.  A packet that fails to parse leaves the method and   *)
(* the path alone: empty ones, or views into the memory of an earlier packet *)
(* that was freed, which may hold anything.                                  *)
Targets(s, kind) ==
  CASE kind # "bad" -> {kind}
    [] kind = "bad" /\ s \in parsed -> Routes
    [] OTHER -> {"/other"}

Handle(s, route) ==
  /\ s \in open /\ inbox[s] # <<>>
  /\ route \in Targets(s, packets[Head(inbox[s])].kind)
  /\ parsed' = IF packets[Head(inbox[s])].kind = "bad" THEN parsed ELSE parsed \union {s}
  /\ inbox' = [inbox EXCEPT ![s] = Tail(@)]

(* The handler left the response at r. *)
Respond(s, route, r) ==
  LET id == Head(inbox[s])
  IN  /\ resp' = [resp EXCEPT ![s] = GetPayload(r, id)]
      /\ sent' = [sent EXCEPT ![s] = Append(@,
                   [for |-> id, route |-> route, payload |-> resp'[s].head])]

Hello(s) ==
  /\ Handle(s, "/")
  /\ Respond(s, "/", Say(resp[s], Head(inbox[s]), "hello"))
  /\ UNCHANGED <<open, place, packets, posts, asker, dbVars, fate>>

(* Mutant: nothing is sent before the query is answered. *)
User1Silent(s) ==
  /\ Handle(s, "/user1")
  /\ Db!Ask
  /\ asker' = Append(asker, Head(inbox[s]))
  /\ UNCHANGED <<open, place, packets, resp, sent, posts, fate>>

(* The response is sent as it is. *)
User1(s) ==
  /\ Handle(s, "/user1")
  /\ Db!Ask
  /\ asker' = Append(asker, Head(inbox[s]))
  /\ Respond(s, "/user1", resp[s])
  /\ UNCHANGED <<open, place, packets, posts, fate>>

(* The handler waits for the result; Fetch asserts that there is a row. *)
User2(s) ==
  /\ Handle(s, "/user2")
  /\ \/ /\ \/ Respond(s, "/user2", SetStatusCode(resp[s], 500))
           \/ Respond(s, "/user2", Say(resp[s], Head(inbox[s]), "row"))
        /\ UNCHANGED fate
     \/ /\ fate' = "aborted"
        /\ UNCHANGED <<resp, sent>>
  /\ UNCHANGED <<open, place, packets, posts, asker, dbVars>>

Task(s) ==
  /\ Handle(s, "/task")
  /\ posts' = Append(posts, Head(inbox[s]))
  /\ Respond(s, "/task", resp[s])
  /\ UNCHANGED <<open, place, packets, asker, dbVars, fate>>

NotFound(s) ==
  /\ Handle(s, "/other")
  /\ Respond(s, "/other", SetStatusCode(resp[s], 404))
  /\ UNCHANGED <<open, place, packets, posts, asker, dbVars, fate>>

(* Route answers for a handler that throws: before it has done anything, or  *)
(* in /user2 when the content is set, in /user1 when the query is under way. *)
HandlerThrows(s, route) ==
  /\ Handle(s, route) /\ route # "/other"
  /\ \/ Respond(s, route, SetStatusCode(resp[s], 503))
     \/ /\ route = "/user2"
        /\ Respond(s, route, SetStatusCode(SetContent(resp[s], Head(inbox[s]), "row"), 503))
  /\ \/ UNCHANGED <<asker, dbVars>>
     \/ route = "/user1" /\ Db!Ask /\ asker' = Append(asker, Head(inbox[s]))
  /\ UNCHANGED <<open, place, packets, posts, fate>>

-----------------------------------------------------------------------------
(* What was begun by a handler and ends later.                               *)

(* Where the reference to the response of id's session leads: to that        *)
(* session, or to the one that was made in its memory.                       *)
Reached(id) == {s \in open : place[s] = place[Home(id)]}

(* The reference is used, and gives the response it leads to a new value. If *)
(* the session is gone, memory that is nobody's, or not a session's, may be  *)
(* written to, unnoticed or not.                                             *)
WriteBack(id, new) ==
  \/ /\ resp' = [s \in Sessions |-> IF s \in Reached(id) THEN new[s] ELSE resp[s]]
     /\ UNCHANGED fate
  \/ /\ Home(id) \notin open
     /\ fate' = "wild"
     /\ UNCHANGED resp

Saying(id, what) == [s \in Sessions |-> Say(resp[s], id, what)]
Failing          == [s \in Sessions |-> SetStatusCode(resp[s], 500)]

(* The lambda of /task. *)
RunPost ==
  /\ posts # <<>>
  /\ WriteBack(Head(posts), Saying(Head(posts), "task"))
  /\ posts' = Tail(posts)
  /\ UNCHANGED <<open, place, packets, inbox, parsed, sent, asker, dbVars>>

(* Mutant: it is the response of the last asker. *)
CallbackOfLast(q) ==
  /\ Db!Deliver(q)
  /\ WriteBack(asker[Len(asker)], Saying(asker[q], "row"))
  /\ UNCHANGED <<open, place, packets, inbox, parsed, sent, posts, asker>>

(* The callback of /user1: nullptr, a row, or the assertion in Fetch. *)
Callback(q) ==
  /\ Db!Deliver(q)
  /\ \/ WriteBack(asker[q], Failing)
     \/ WriteBack(asker[q], Saying(asker[q], "row"))
     \/ fate' = "aborted" /\ UNCHANGED resp
  /\ UNCHANGED <<open, place, packets, inbox, parsed, sent, posts, asker>>

DbAnswer(q) ==
  /\ Db!Answer(q)
  /\ UNCHANGED <<open, place, packets, inbox, parsed, resp, sent, posts, asker, fate>>

-----------------------------------------------------------------------------
Next ==
  /\ fate = "runs"
  /\ \/ \E s \in Sessions:
          \/ \E kind \in Kinds: Receive(s, kind)
          \/ Accept(s) \/ Erase(s)
          \/ Hello(s) \/ User1(s) \/ User2(s) \/ Task(s) \/ NotFound(s)
          \/ \E route \in Routes: HandlerThrows(s, route)
     \/ RunPost
     \/ \E q \in Ids: DbAnswer(q) \/ Callback(q)

Spec == Init /\ [][Next]_vars

-----------------------------------------------------------------------------
Pieces == [by: Ids, what: {"hello", "row", "task", "error"}]
Statuses == {0, 200, 404, 500, 503}
Parts == [status: Statuses, lengths: Seq(Nat), body: Seq(Pieces)]
Answers == [for: Ids, route: Routes, payload: Seq(Parts)]

(* The types; a session that is gone has no queue, and each query its asker. *)
TypeOK ==
  /\ open \subseteq Sessions /\ parsed \subseteq Sessions
  /\ place \in [Sessions -> Places \union {Nowhere}]
  /\ packets \in Seq([to: Sessions, kind: Kinds]) /\ Len(packets) <= MaxPackets
  /\ inbox \in [Sessions -> Seq(Ids)]
  /\ resp \in [Sessions -> [status: Statuses, content: Seq(Pieces),
                            lengths: Seq(Nat), head: Seq(Parts)]]
  /\ sent \in [Sessions -> Seq(Answers)]
  /\ posts \in Seq(Ids) /\ asker \in Seq(Ids)
  /\ asked = Len(asker) /\ answered \subseteq 1 .. asked /\ delivered \subseteq answered
  /\ fate \in {"runs", "aborted", "wild"}
  /\ \A s \in Sessions \ open: inbox[s] = <<>>

(* While the process runs, the packets of an open session are answered each  *)
(* once and in the order they came, whatever is still to be called back.     *)
AnswersInOrder ==
  \A s \in open:
    LET ids == [i \in 1 .. Len(sent[s]) |-> sent[s][i].for] \o inbox[s]
    IN  fate = "runs" =>
          /\ {ids[i]: i \in 1 .. Len(ids)} = {id \in 1 .. Len(packets): Home(id) = s}
          /\ \A i, j \in 1 .. Len(ids): i < j => ids[i] < ids[j]

(* The contents a session has in its response and its answers.               *)
Last(seq) == seq[Len(seq)]
Contents(s) ==
  {resp[s].content} \union
  UNION {{sent[s][i].payload[p].body : p \in 1 .. Len(sent[s][i].payload)} :
           i \in 1 .. Len(sent[s])}

(* What was made for one session's request gets into the response or an      *)
(* answer of another only if the first was erased and the second was made in *)
(* its memory: callbacks and tasks find their own session while it is there. *)
ForeignOnlyByReuse ==
  \A s \in Sessions: \A body \in Contents(s): \A j \in 1 .. Len(body):
    LET t == Home(body[j].by)
    IN  t # s => t \notin open /\ place[t] = place[s]

(* Where a handler answers at once, or nobody does, the last part of what is *)
(* sent tells the truth about this packet: its content alone after 200; and  *)
(* after 404, 500 or 503 the page of its error comes last, but may follow    *)
(* whatever the response object still held.                                  *)
AtOnceTells ==
  \A s \in Sessions: \A i \in 1 .. Len(sent[s]):
    LET ans   == sent[s][i]
        part  == Last(ans.payload)
        Only(what)   == part.status = 200 /\ part.body = <<Piece(ans.for, what)>>
        Fails(codes) == part.status \in codes /\ part.body # <<>>
                          /\ Last(part.body) = Piece(ans.for, "error")
    IN  /\ ans.route = "/"      => Only("hello") \/ Fails({503})
        /\ ans.route = "/user2" => Only("row") \/ Fails({500, 503})
        /\ ans.route = "/other" => Fails({404})

(* The first answer of a session has one Content-Length, and the last one of *)
(* every answer is that of the body behind it, error page included.          *)
LengthIsOfBody ==
  \A s \in Sessions:
    LET head == resp[s].head
    IN  /\ head # <<>> => Len(head[1].lengths) = 1
        /\ \A p \in 1 .. Len(head): Last(head[p].lengths) = Len(head[p].body)

-----------------------------------------------------------------------------
(* What does not hold.                                                       *)

(* "The content of the HTTP response to be sent" (HttpResponse.cpp:20): what *)
(* SendMsg is given is one response.  The code sends those before it again.  *)
OneResponsePerPayload ==
  \A s \in Sessions: \A i \in 1 .. Len(sent[s]): Len(sent[s][i].payload) = 1

(* The newest part of it is made for the packet that is answered: nothing is *)
(* left over from earlier packets, nor said by their callbacks and tasks.    *)
NothingLeftOver ==
  \A s \in Sessions: \A i \in 1 .. Len(sent[s]):
    LET body == Last(sent[s][i].payload).body
    IN  \A j \in 1 .. Len(body): body[j].by = sent[s][i].for

(* It is made for the session's own packets, whenever callbacks and tasks    *)
(* write.                                                                    *)
NoForeignContent ==
  \A s \in Sessions: \A body \in Contents(s): \A j \in 1 .. Len(body): Home(body[j].by) = s

(* "Parse http request failed" (HttpParser.cpp:45): a packet that is no      *)
(* request is not given to the handler of one.                               *)
FailedIsNotRouted ==
  \A s \in Sessions: \A i \in 1 .. Len(sent[s]):
    packets[sent[s][i].for].kind = "bad" => sent[s][i].route = "/other"
=============================================================================
