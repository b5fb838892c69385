-------------------------- MODULE HttpExchangeProofs --------------------------
(* Theorems about HttpExchange, for every set of sessions and of places and  *)
(* every number of packets.                                                  *)
EXTENDS HttpExchange, SequenceTheorems, TLAPS

(* The packets of a session.                                                 *)
Mine(s) == {id \in 1 .. Len(packets) : Home(id) = s}

(* Those, and the ones of erased sessions that were where it is.             *)
Near(s) == {id \in 1 .. Len(packets) :
              Home(id) = s \/ (Home(id) \notin open /\ place[Home(id)] = place[s])}

(* What was made for packets of M only.                                      *)
Of(body, M) == \A j \in 1 .. Len(body) : body[j].by \in M

(* A response whose pieces are all of M and whose lengths are true.          *)
Responses == [status : Statuses, content : Seq(Pieces), lengths : Seq(Nat), head : Seq(Parts)]
Good(r, M) ==
  /\ Of(r.content, M)
  /\ \A p \in 1 .. Len(r.head) : Of(r.head[p].body, M)
  /\ r.head = <<>> => r.lengths = <<>>
  /\ r.head # <<>> => Len(r.head[1].lengths) = 1
  /\ \A p \in 1 .. Len(r.head) : Last(r.head[p].lengths) = Len(r.head[p].body)

(* The last part of an answer is what AtOnceTells says it is.                *)
Truthful(ans) ==
  LET part   == Last(ans.payload)
      Only(what)   == part.status = 200 /\ part.body = <<Piece(ans.for, what)>>
      Fails(codes) == part.status \in codes /\ part.body # <<>>
                        /\ Last(part.body) = Piece(ans.for, "error")
  IN  /\ ans.route = "/"      => Only("hello") \/ Fails({503})
      /\ ans.route = "/user2" => Only("row") \/ Fails({500, 503})
      /\ ans.route = "/other" => Fails({404})

(* A truthful answer to a packet of M, with content of N.                    *)
Told(ans, M, N) ==
  /\ ans.for \in M /\ Truthful(ans)
  /\ \A p \in 1 .. Len(ans.payload) : Of(ans.payload[p].body, N)

(* Every packet of M is answered or waits, and the waiting ones are younger. *)
Ordered(out, in, M) ==
  /\ \A id \in M : \/ \E i \in 1 .. Len(out) : out[i].for = id
                   \/ \E i \in 1 .. Len(in) : in[i] = id
  /\ \A i, j \in 1 .. Len(out) : i < j => out[i].for < out[j].for
  /\ \A i, j \in 1 .. Len(in) : i < j => in[i] < in[j]
  /\ \A i \in 1 .. Len(out), j \in 1 .. Len(in) : out[i].for < in[j]

(* The packets that posted tasks and queries refer to have arrived.          *)
Referred ==
  /\ \A i \in 1 .. Len(posts) : posts[i] \in 1 .. Len(packets)
  /\ \A i \in 1 .. Len(asker) : asker[i] \in 1 .. Len(packets)

Waiting == \A s \in Sessions : \A i \in 1 .. Len(inbox[s]) : inbox[s][i] \in Mine(s)
Kept    == \A s \in Sessions : Good(resp[s], Near(s))
Said    == \A s \in Sessions : \A i \in 1 .. Len(sent[s]) : Told(sent[s][i], Mine(s), Near(s))
InOrder == fate = "runs" => \A s \in open : Ordered(sent[s], inbox[s], Mine(s))

(* A session that is there or got a packet was made; no two are in one place.*)
Made  == /\ \A s \in open : place[s] # Nowhere
         /\ \A id \in 1 .. Len(packets) : place[Home(id)] # Nowhere
Apart == \A s, t \in open : place[s] = place[t] => s = t

IInv == TypeOK /\ Referred /\ Made /\ Apart /\ Waiting /\ Kept /\ Said /\ InOrder

USE PacketsAssumption

-------------------------------------------------------------------------------
(* Sequences: one more at the end, and one less at the front.                *)
LEMMA Added ==
  ASSUME NEW S, NEW s \in Seq(S), NEW x \in S
  PROVE  /\ Append(s, x) \in Seq(S) /\ Len(s) \in Nat /\ Len(Append(s, x)) = Len(s) + 1
         /\ \A i \in 1 .. Len(s) : i \in 1 .. Len(Append(s, x)) /\ Append(s, x)[i] = s[i]
         /\ Len(s) + 1 \in 1 .. Len(Append(s, x)) /\ Append(s, x)[Len(s) + 1] = x
         /\ \A i \in 1 .. Len(Append(s, x)) : i \in 1 .. Len(s) \/ i = Len(s) + 1
  BY AppendProperties, LenProperties

LEMMA Taken ==
  ASSUME NEW S, NEW s \in Seq(S), s # <<>>
  PROVE  /\ Tail(s) \in Seq(S) /\ Head(s) \in S /\ Head(s) = s[1]
         /\ Len(s) \in Nat /\ Len(Tail(s)) \in Nat /\ Len(s) = Len(Tail(s)) + 1
         /\ 1 \in 1 .. Len(s)
         /\ \A i \in 1 .. Len(Tail(s)) : i + 1 \in 1 .. Len(s) /\ Tail(s)[i] = s[i + 1]
         /\ \A i \in 1 .. Len(s) : i # 1 => i - 1 \in 1 .. Len(Tail(s)) /\ Tail(s)[i - 1] = s[i]
PROOF
<1>1. /\ Tail(s) \in Seq(S) /\ Head(s) \in S /\ Head(s) = s[1] /\ Len(s) \in Nat \ {0}
      /\ Len(Tail(s)) = Len(s) - 1 /\ \A i \in 1 .. Len(Tail(s)) : Tail(s)[i] = s[i + 1]
  BY HeadTailProperties, EmptySeq
<1>2. \A i \in 1 .. Len(s) : i # 1 => i - 1 \in 1 .. Len(Tail(s)) /\ (i - 1) + 1 = i
  BY <1>1
<1>3. QED
  BY <1>1, <1>2

-------------------------------------------------------------------------------
(* What the operations of HttpResponse make of a response.                   *)
LEMMA Piecewise ==
  ASSUME NEW id \in Ids, NEW what \in {"hello", "row", "task", "error"}
  PROVE  Piece(id, what) \in Pieces /\ Piece(id, what).by = id
  BY DEF Piece, Pieces

LEMMA StatusSet ==
  ASSUME NEW r \in Responses, NEW status \in Statuses
  PROVE  /\ SetStatusCode(r, status) \in Responses /\ SetStatusCode(r, status).status = status
         /\ SetStatusCode(r, status).content = r.content
         /\ SetStatusCode(r, status).lengths = r.lengths
         /\ SetStatusCode(r, status).head = r.head
  BY DEF SetStatusCode, Responses

LEMMA ContentMade ==
  ASSUME NEW r \in Responses, NEW id \in Ids, NEW what \in {"hello", "row", "task", "error"}
  PROVE  /\ SetContent(r, id, what) \in Responses
         /\ SetContent(r, id, what).content = <<Piece(id, what)>>
         /\ SetContent(r, id, what).lengths = r.lengths /\ SetContent(r, id, what).head = r.head
PROOF
<1>1. <<Piece(id, what)>> \in Seq(Pieces)
  BY Piecewise
<1> DEFINE c == <<Piece(id, what)>>
<1>2. c \in Seq(Pieces)
  BY <1>1
<1>3. SetContent(r, id, what) = [r EXCEPT !.content = c]
  BY DEF SetContent
<1> HIDE DEF c
<1>4. /\ SetContent(r, id, what) \in Responses /\ SetContent(r, id, what).content = c
      /\ SetContent(r, id, what).lengths = r.lengths /\ SetContent(r, id, what).head = r.head
  BY <1>2, <1>3 DEF Responses
<1>5. QED
  BY <1>4 DEF c

LEMMA SayTyped ==
  ASSUME NEW r \in Responses, NEW id \in Ids, NEW what \in {"hello", "row", "task", "error"}
  PROVE  Say(r, id, what) \in Responses
PROOF
<1> DEFINE q == SetContent(r, id, what)
<1>1. q \in Responses
  BY ContentMade
<1>2. Say(r, id, what) = SetStatusCode(q, 200) /\ 200 \in Statuses
  BY DEF Say, Statuses
<1> HIDE DEF q
<1>3. QED
  BY <1>1, <1>2, StatusSet

LEMMA SayTold ==
  ASSUME NEW r \in Responses, NEW id \in Ids, NEW what \in {"hello", "row", "task", "error"}
  PROVE  Say(r, id, what).status = 200 /\ Say(r, id, what).content = <<Piece(id, what)>>
PROOF
<1> DEFINE q == SetContent(r, id, what)
           c == <<Piece(id, what)>>
<1>1. q \in Responses /\ q.content = c
  BY ContentMade
<1>2. Say(r, id, what) = SetStatusCode(q, 200) /\ 200 \in Statuses
  BY DEF Say, Statuses
<1> HIDE DEF q, c
<1>3. Say(r, id, what).status = 200 /\ Say(r, id, what).content = c
  BY <1>1, <1>2, StatusSet
<1>4. QED
  BY <1>3 DEF c

LEMMA BodyMade ==
  ASSUME NEW r \in Responses, NEW id \in Ids
  PROVE  BodyOf(r, id) \in Seq(Pieces)
PROOF
<1>1. r.content \in Seq(Pieces) /\ Piece(id, "error") \in Pieces
  BY Piecewise DEF Responses
<1>2. Append(r.content, Piece(id, "error")) \in Seq(Pieces)
  BY <1>1, Added
<1>3. QED
  BY <1>1, <1>2 DEF BodyOf

PartOf(r, id) == [status |-> r.status, lengths |-> Append(r.lengths, Len(BodyOf(r, id))),
                  body |-> BodyOf(r, id)]

LEMMA PayloadGot ==
  ASSUME NEW r \in Responses, NEW id \in Ids
  PROVE  /\ GetPayload(r, id) \in Responses
         /\ GetPayload(r, id).status = r.status
         /\ GetPayload(r, id).content = BodyOf(r, id)
         /\ GetPayload(r, id).lengths = Append(r.lengths, Len(BodyOf(r, id)))
         /\ GetPayload(r, id).head = Append(r.head, PartOf(r, id))
         /\ PartOf(r, id) \in Parts
PROOF
<1> DEFINE body == BodyOf(r, id)
           lengths == Append(r.lengths, Len(body))
           part == [status |-> r.status, lengths |-> lengths, body |-> body]
           head == Append(r.head, part)
<1>1. body \in Seq(Pieces) /\ Len(body) \in Nat
  BY BodyMade, LenProperties
<1>2. lengths \in Seq(Nat)
  BY <1>1, Added DEF Responses
<1>3. GetPayload(r, id) = [r EXCEPT !.content = body, !.lengths = lengths, !.head = head]
  BY DEF GetPayload
<1> HIDE DEF body, lengths
<1>4. part \in Parts
  BY <1>1, <1>2 DEF Parts, Responses
<1>5. PartOf(r, id) = part
  BY DEF PartOf, body, lengths
<1> HIDE DEF part
<1>6. head \in Seq(Parts)
  BY <1>4, Added DEF Responses
<1>7. head = Append(r.head, PartOf(r, id))
  BY <1>5
<1> HIDE DEF head
<1>8. /\ GetPayload(r, id) \in Responses
      /\ GetPayload(r, id).status = r.status /\ GetPayload(r, id).content = body
      /\ GetPayload(r, id).lengths = lengths /\ GetPayload(r, id).head = head
  BY <1>1, <1>2, <1>3, <1>6 DEF Responses
<1>9. QED
  BY <1>4, <1>5, <1>7, <1>8 DEF body, lengths

(* None of them brings in what is not of M, or a wrong length.               *)
LEMMA OfAdded ==
  ASSUME NEW body \in Seq(Pieces), NEW piece \in Pieces, NEW M, Of(body, M), piece.by \in M
  PROVE  Of(Append(body, piece), M)
PROOF
<1> SUFFICES ASSUME NEW j \in 1 .. Len(Append(body, piece))
             PROVE  Append(body, piece)[j].by \in M
  BY DEF Of
<1>1. CASE j \in 1 .. Len(body)
  <2>1. Append(body, piece)[j] = body[j]
    BY <1>1, Added
  <2>2. QED
    BY <1>1, <2>1 DEF Of
<1>2. CASE j = Len(body) + 1
  BY <1>2, Added
<1>3. QED
  BY <1>1, <1>2, Added

LEMMA StatusGood ==
  ASSUME NEW r \in Responses, NEW status \in Statuses, NEW M, Good(r, M)
  PROVE  Good(SetStatusCode(r, status), M)
  BY StatusSet DEF Good

LEMMA ContentGood ==
  ASSUME NEW r \in Responses, NEW id \in Ids, NEW what \in {"hello", "row", "task", "error"},
         NEW M, Good(r, M), id \in M
  PROVE  Good(SetContent(r, id, what), M)
PROOF
<1> DEFINE q == SetContent(r, id, what)
<1>1. Of(<<Piece(id, what)>>, M)
  BY Piecewise DEF Of
<1>2. q.content = <<Piece(id, what)>> /\ q.lengths = r.lengths /\ q.head = r.head
  <2> HIDE DEF q
  <2>1. q = SetContent(r, id, what)
    BY DEF q
  <2>2. QED
    BY <2>1, ContentMade, SMTT(30)
<1> HIDE DEF q
<1>3. Of(q.content, M)
  BY <1>1, <1>2
<1>4. Good(q, M)
  BY <1>2, <1>3 DEF Good
<1>5. QED
  BY <1>4 DEF q

LEMMA SaidGood ==
  ASSUME NEW r \in Responses, NEW id \in Ids, NEW what \in {"hello", "row", "task", "error"},
         NEW M, Good(r, M), id \in M
  PROVE  Good(Say(r, id, what), M)
PROOF
<1> DEFINE q == SetContent(r, id, what)
<1>1. q \in Responses
  BY ContentMade
<1>2. Good(q, M)
  BY ContentGood
<1>3. Say(r, id, what) = SetStatusCode(q, 200) /\ 200 \in Statuses
  BY DEF Say, Statuses
<1> HIDE DEF q
<1>4. QED
  BY <1>1, <1>2, <1>3, StatusGood

LEMMA BodyGood ==
  ASSUME NEW r \in Responses, NEW id \in Ids, NEW M, Good(r, M), id \in M
  PROVE  Of(BodyOf(r, id), M)
PROOF
<1>1. r.content \in Seq(Pieces) /\ Of(r.content, M)
  BY DEF Responses, Good
<1>2. Of(Append(r.content, Piece(id, "error")), M)
  BY <1>1, Piecewise, OfAdded
<1>3. QED
  BY <1>1, <1>2 DEF BodyOf

LEMMA PayloadGood ==
  ASSUME NEW r \in Responses, NEW id \in Ids, NEW M, Good(r, M), id \in M
  PROVE  Good(GetPayload(r, id), M)
PROOF
<1> DEFINE part == PartOf(r, id)
           body == BodyOf(r, id)
           lengths == Append(r.lengths, Len(body))
           head == Append(r.head, part)
           g == GetPayload(r, id)
<1>1. /\ part \in Parts /\ r.head \in Seq(Parts) /\ r.lengths \in Seq(Nat)
      /\ g.content = body /\ g.lengths = lengths /\ g.head = head
      /\ Len(body) \in Nat /\ Of(body, M)
  BY PayloadGot, BodyMade, BodyGood, LenProperties DEF Responses
<1>2. part.lengths = lengths /\ part.body = body
  BY DEF PartOf
<1> HIDE DEF body, g
<1>3. /\ Len(head) = Len(r.head) + 1 /\ Len(r.head) \in Nat /\ head[Len(r.head) + 1] = part
      /\ \A p \in 1 .. Len(r.head) : head[p] = r.head[p]
      /\ \A p \in 1 .. Len(head) : p \in 1 .. Len(r.head) \/ p = Len(r.head) + 1
  BY <1>1, Added
<1>4. /\ Len(r.lengths) \in Nat /\ Len(lengths) = Len(r.lengths) + 1
      /\ Last(lengths) = Len(body)
  BY <1>1, Added DEF Last
<1> HIDE DEF part, lengths, head
<1>5. \A p \in 1 .. Len(head) : Of(head[p].body, M) /\ Last(head[p].lengths) = Len(head[p].body)
  <2> SUFFICES ASSUME NEW p \in 1 .. Len(head)
               PROVE  Of(head[p].body, M) /\ Last(head[p].lengths) = Len(head[p].body)
    OBVIOUS
  <2>1. CASE p \in 1 .. Len(r.head)
    BY <1>3, <2>1 DEF Good
  <2>2. CASE p = Len(r.head) + 1
    BY <1>1, <1>2, <1>3, <1>4, <2>2
  <2>3. QED
    BY <1>3, <2>1, <2>2
<1>6. head # <<>> /\ Len(head[1].lengths) = 1
  <2>1. head # <<>>
    BY <1>3, EmptySeq
  <2>2. CASE r.head = <<>>
    <3>1. Len(r.head) = 0 /\ Len(r.lengths) = 0
      BY <2>2, EmptySeq DEF Good
    <3>2. head[1] = part /\ Len(lengths) = 1
      BY <1>3, <1>4, <3>1
    <3>3. QED
      BY <1>2, <2>1, <3>2
  <2>3. CASE r.head # <<>>
    <3>1. 1 \in 1 .. Len(r.head)
      BY <1>1, <2>3, Taken
    <3>2. QED
      BY <1>3, <2>1, <2>3, <3>1 DEF Good
  <2>4. QED
    BY <2>2, <2>3
<1>7. QED
  BY <1>1, <1>5, <1>6 DEF Good, g

(* More packets arrive, sessions are erased: what was of M is of N.          *)
LEMMA GoodGrows ==
  ASSUME NEW r, NEW M, NEW N, M \subseteq N, Good(r, M)
  PROVE  Good(r, N)
  BY DEF Good, Of

LEMMA ToldGrows ==
  ASSUME NEW ans, NEW M, NEW N, NEW P, NEW Q, M \subseteq P, N \subseteq Q, Told(ans, M, N)
  PROVE  Told(ans, P, Q)
  BY DEF Told, Of

-------------------------------------------------------------------------------
(* A packet that is younger than all of M arrives.                           *)
LEMMA OrderedArrival ==
  ASSUME NEW out \in Seq(Answers), NEW in \in Seq(Ids), NEW M \in SUBSET Ids, NEW id \in Ids,
         Ordered(out, in, M), \A m \in M : m < id,
         \A i \in 1 .. Len(out) : out[i].for \in M, \A i \in 1 .. Len(in) : in[i] \in M
  PROVE  Ordered(out, Append(in, id), M \union {id})
PROOF
<1> DEFINE new == Append(in, id)
<1>1. /\ Len(in) \in Nat /\ Len(new) = Len(in) + 1 /\ new[Len(in) + 1] = id
      /\ \A i \in 1 .. Len(in) : i \in 1 .. Len(new) /\ new[i] = in[i]
      /\ Len(in) + 1 \in 1 .. Len(new)
      /\ \A i \in 1 .. Len(new) : i \in 1 .. Len(in) \/ i = Len(in) + 1
  BY Added
<1> HIDE DEF new
<1>2. ASSUME NEW m \in M \union {id}
      PROVE  (\E i \in 1 .. Len(out) : out[i].for = m) \/ (\E i \in 1 .. Len(new) : new[i] = m)
  <2>1. CASE m = id
    BY <1>1, <2>1
  <2>2. CASE m \in M
    BY <1>1, <2>2 DEF Ordered
  <2>3. QED
    BY <2>1, <2>2
<1>3. ASSUME NEW i \in 1 .. Len(new), NEW j \in 1 .. Len(new), i < j
      PROVE  new[i] < new[j]
  <2>1. i \in 1 .. Len(in)
    BY <1>1, <1>3
  <2>2. CASE j \in 1 .. Len(in)
    BY <1>1, <1>3, <2>1, <2>2 DEF Ordered
  <2>3. CASE j = Len(in) + 1
    BY <1>1, <2>1, <2>3
  <2>4. QED
    BY <1>1, <2>2, <2>3
<1>4. ASSUME NEW i \in 1 .. Len(out), NEW j \in 1 .. Len(new)
      PROVE  out[i].for < new[j]
  <2>1. CASE j \in 1 .. Len(in)
    BY <1>1, <2>1 DEF Ordered
  <2>2. CASE j = Len(in) + 1
    BY <1>1, <2>2
  <2>3. QED
    BY <1>1, <2>1, <2>2
<1>5. QED
  BY <1>2, <1>3, <1>4 DEF Ordered, new

(* The oldest that waits is answered.                                        *)
LEMMA OrderedAnswer ==
  ASSUME NEW out \in Seq(Answers), NEW in \in Seq(Ids), NEW M \in SUBSET Ids, NEW ans \in Answers,
         Ordered(out, in, M), in # <<>>, ans.for = Head(in)
  PROVE  Ordered(Append(out, ans), Tail(in), M)
PROOF
<1> DEFINE new == Append(out, ans)
           rest == Tail(in)
<1>1. /\ Len(out) \in Nat /\ Len(new) = Len(out) + 1 /\ new[Len(out) + 1] = ans
      /\ \A i \in 1 .. Len(out) : i \in 1 .. Len(new) /\ new[i] = out[i]
      /\ Len(out) + 1 \in 1 .. Len(new)
      /\ \A i \in 1 .. Len(new) : i \in 1 .. Len(out) \/ i = Len(out) + 1
  BY Added
<1>2. /\ Len(rest) \in Nat /\ 1 \in 1 .. Len(in) /\ in[1] = ans.for
      /\ \A i \in 1 .. Len(rest) : i + 1 \in 1 .. Len(in) /\ rest[i] = in[i + 1]
      /\ \A i \in 1 .. Len(in) : i # 1 => i - 1 \in 1 .. Len(rest) /\ rest[i - 1] = in[i]
  BY Taken
<1> HIDE DEF new, rest
<1>3. ASSUME NEW m \in M
      PROVE  (\E i \in 1 .. Len(new) : new[i].for = m) \/ (\E i \in 1 .. Len(rest) : rest[i] = m)
  <2>1. CASE \E i \in 1 .. Len(out) : out[i].for = m
    BY <1>1, <2>1
  <2>2. CASE \E i \in 1 .. Len(in) : in[i] = m
    <3>1. PICK i \in 1 .. Len(in) : in[i] = m
      BY <2>2
    <3>2. CASE i = 1
      BY <1>1, <1>2, <3>1, <3>2
    <3>3. CASE i # 1
      BY <1>2, <3>1, <3>3
    <3>4. QED
      BY <3>2, <3>3
  <2>3. QED
    BY <2>1, <2>2 DEF Ordered
<1>4. ASSUME NEW i \in 1 .. Len(new), NEW j \in 1 .. Len(new), i < j
      PROVE  new[i].for < new[j].for
  <2>1. i \in 1 .. Len(out)
    BY <1>1, <1>4
  <2>2. CASE j \in 1 .. Len(out)
    BY <1>1, <1>4, <2>1, <2>2 DEF Ordered
  <2>3. CASE j = Len(out) + 1
    <3>1. out[i].for < in[1]
      BY <1>2, <2>1 DEF Ordered
    <3>2. QED
      BY <1>1, <1>2, <2>1, <2>3, <3>1
  <2>4. QED
    BY <1>1, <2>2, <2>3
<1>5. ASSUME NEW i \in 1 .. Len(rest), NEW j \in 1 .. Len(rest), i < j
      PROVE  rest[i] < rest[j]
  <2>1. in[i + 1] < in[j + 1]
    <3>1. i + 1 \in 1 .. Len(in) /\ j + 1 \in 1 .. Len(in) /\ i + 1 < j + 1
      BY <1>2, <1>5
    <3>2. QED
      BY <3>1 DEF Ordered
  <2>2. QED
    BY <1>2, <2>1
<1>6. ASSUME NEW i \in 1 .. Len(new), NEW j \in 1 .. Len(rest)
      PROVE  new[i].for < rest[j]
  <2>1. j + 1 \in 1 .. Len(in) /\ rest[j] = in[j + 1] /\ 1 < j + 1
    BY <1>2
  <2>2. CASE i \in 1 .. Len(out)
    BY <1>1, <2>1, <2>2 DEF Ordered
  <2>3. CASE i = Len(out) + 1
    <3>1. in[1] < in[j + 1]
      BY <1>2, <2>1 DEF Ordered
    <3>2. QED
      BY <1>1, <1>2, <2>1, <2>3, <3>1
  <2>4. QED
    BY <1>1, <2>2, <2>3
<1>7. QED
  BY <1>3, <1>4, <1>5, <1>6 DEF Ordered, new, rest

-------------------------------------------------------------------------------
THEOREM InitEstablishes == Init => IInv
PROOF
<1> SUFFICES ASSUME Init PROVE IInv
  OBVIOUS
<1>1. packets = <<>> /\ posts = <<>> /\ asker = <<>> /\ Len(<<>>) = 0 /\ \A S : <<>> \in Seq(S)
  BY EmptySeq DEF Init
<1>2. \A s \in Sessions : inbox[s] = <<>> /\ sent[s] = <<>> /\ resp[s] = NewResponse
  BY DEF Init
<1>3. NewResponse \in Responses /\ \A M : Good(NewResponse, M)
  <2> DEFINE none == <<>>
  <2>1. none \in Seq(Pieces) /\ none \in Seq(Nat) /\ none \in Seq(Parts) /\ Len(none) = 0
    BY EmptySeq
  <2>2. NewResponse = [status |-> 0, content |-> none, lengths |-> none, head |-> none]
    BY DEF NewResponse
  <2> HIDE DEF none
  <2>3. NewResponse \in Responses
    BY <2>1, <2>2 DEF Responses, Statuses
  <2>4. Of(none, {}) /\ \A M : Of(none, M)
    BY <2>1 DEF Of
  <2>5. NewResponse.content = none /\ NewResponse.head = none /\ NewResponse.lengths = none
    BY <2>2
  <2>6. none = <<>>
    BY DEF none
  <2>7. QED
    BY <2>1, <2>3, <2>4, <2>5, <2>6 DEF Good
<1>4. TypeOK
  <2>1. resp \in [Sessions -> Responses]
    BY <1>3 DEF Init
  <2>2. inbox \in [Sessions -> Seq(Ids)] /\ sent \in [Sessions -> Seq(Answers)]
    BY <1>1 DEF Init
  <2>3. asked = Len(asker) /\ answered \subseteq 1 .. asked /\ delivered \subseteq answered
    BY <1>1 DEF Init, Db!Init
  <2>4. Len(packets) <= MaxPackets
    BY <1>1
  <2>5. QED
    BY <1>1, <1>2, <2>1, <2>2, <2>3, <2>4 DEF Init, TypeOK, Responses
<1>5. Referred /\ Waiting /\ Kept /\ Said /\ Made /\ Apart
  BY <1>1, <1>2, <1>3 DEF Referred, Waiting, Kept, Said, Made, Apart, Init
<1>6. InOrder
  <2>1. \A s \in Sessions : Mine(s) = {}
    BY <1>1 DEF Mine
  <2>2. ASSUME NEW s \in Sessions PROVE Ordered(sent[s], inbox[s], Mine(s))
    <3>1. Len(sent[s]) = 0 /\ Len(inbox[s]) = 0
      BY <1>1, <1>2
    <3>2. QED
      BY <2>1, <3>1 DEF Ordered
  <2>3. QED
    BY <2>2 DEF InOrder, Init
<1>7. QED
  BY <1>4, <1>5, <1>6 DEF IInv

(* The types, as the proofs use them.                                        *)
LEMMA Typed ==
  ASSUME IInv
  PROVE  /\ inbox \in [Sessions -> Seq(Ids)] /\ resp \in [Sessions -> Responses]
         /\ sent \in [Sessions -> Seq(Answers)] /\ open \subseteq Sessions
         /\ packets \in Seq([to : Sessions, kind : Kinds])
         /\ Len(packets) \in Nat /\ Len(packets) <= MaxPackets
         /\ \A s : Mine(s) \in SUBSET Ids /\ Mine(s) \subseteq Near(s)
         /\ \A id \in 1 .. Len(packets) : id \in Ids /\ Home(id) \in Sessions /\ id \in Mine(Home(id))
PROOF
<1>1. /\ inbox \in [Sessions -> Seq(Ids)] /\ resp \in [Sessions -> Responses]
      /\ sent \in [Sessions -> Seq(Answers)] /\ open \subseteq Sessions
      /\ packets \in Seq([to : Sessions, kind : Kinds]) /\ Len(packets) <= MaxPackets
  BY DEF IInv, TypeOK, Responses
<1>2. Len(packets) \in Nat /\ \A id \in 1 .. Len(packets) : packets[id] \in [to : Sessions, kind : Kinds]
  BY <1>1, LenProperties, ElementOfSeq
<1>3. \A id \in 1 .. Len(packets) : id \in Ids
  BY <1>1, <1>2 DEF Ids
<1>4. QED
  BY <1>1, <1>2, <1>3 DEF Home, Mine, Near

(* Where nothing is made, erased or read, the sets of packets are the same.  *)
LEMMA SameNear ==
  ASSUME UNCHANGED <<open, place, packets>>
  PROVE  /\ \A t : Mine(t)' = Mine(t) /\ Near(t)' = Near(t)
         /\ Made => Made' /\ (Apart => Apart')
  BY DEF Mine, Near, Home, Made, Apart

LEMMA ReceiveKeeps ==
  ASSUME IInv, NEW s \in Sessions, NEW kind \in Kinds, Receive(s, kind)
  PROVE  IInv'
PROOF
<1> DEFINE p == [to |-> s, kind |-> kind]
           id == Len(packets) + 1
<1>1. /\ s \in open /\ Len(packets) < MaxPackets /\ packets' = Append(packets, p)
      /\ inbox' = [inbox EXCEPT ![s] = Append(inbox[s], id)]
      /\ UNCHANGED <<open, place, parsed, resp, sent, posts, asker, dbVars, fate>>
  BY DEF Receive
<1>2. /\ packets' \in Seq([to : Sessions, kind : Kinds]) /\ Len(packets') = Len(packets) + 1
      /\ Len(packets) \in Nat /\ p.to = s
      /\ \A i \in 1 .. Len(packets) : packets'[i] = packets[i]
      /\ packets'[Len(packets) + 1] = p
  <2>1. p \in [to : Sessions, kind : Kinds]
    OBVIOUS
  <2> HIDE DEF p
  <2>2. QED
    BY <1>1, <2>1, Typed, Added DEF p
<1> HIDE DEF p
<1>3. id \in Ids /\ id = Len(packets') /\ Len(packets') <= MaxPackets
  BY <1>1, <1>2 DEF Ids
<1>4. \A t \in Sessions : Mine(t)' = IF t = s THEN Mine(t) \union {id} ELSE Mine(t)
  <2>1. \A i \in 1 .. Len(packets) : Home(i)' = Home(i)
    BY <1>2 DEF Home
  <2>2. \A i : i = id => Home(i)' = s
    BY <1>2 DEF Home
  <2>3. \A i : i \in 1 .. Len(packets') <=> i \in 1 .. Len(packets) \/ i = id
    BY <1>2
  <2>4. ASSUME NEW t, NEW i
        PROVE  i \in Mine(t)' <=> i \in Mine(t) \/ (t = s /\ i = id)
    <3>1. /\ i \in Mine(t)' <=> i \in 1 .. Len(packets') /\ Home(i)' = t
          /\ i \in Mine(t) <=> i \in 1 .. Len(packets) /\ Home(i) = t
      BY DEF Mine
    <3>2. i = id => i \notin 1 .. Len(packets)
      BY <1>2
    <3>3. CASE i \in 1 .. Len(packets)
      BY <2>1, <2>3, <3>1, <3>2, <3>3
    <3>4. CASE i = id
      BY <2>2, <2>3, <3>1, <3>2, <3>4
    <3>5. CASE i \notin 1 .. Len(packets) /\ i # id
      BY <2>3, <3>1, <3>5
    <3>6. QED
      BY <3>3, <3>4, <3>5
  <2>5. ASSUME NEW t PROVE Mine(t)' = IF t = s THEN Mine(t) \union {id} ELSE Mine(t)
    <3>1. CASE t = s
      BY <2>4, <3>1
    <3>2. CASE t # s
      <4>1. Mine(t)' \subseteq Mine(t) /\ Mine(t) \subseteq Mine(t)'
        BY <2>4, <3>2
      <4>2. QED
        BY <3>2, <4>1
    <3>3. QED
      BY <3>1, <3>2
  <2>6. QED
    BY <2>5
<1>5. /\ inbox' \in [Sessions -> Seq(Ids)] /\ inbox'[s] = Append(inbox[s], id)
      /\ inbox[s] \in Seq(Ids) /\ \A t \in Sessions : t # s => inbox'[t] = inbox[t]
  BY <1>1, <1>3, Typed, Added
<1> HIDE DEF id
<1>6. TypeOK'
  BY <1>1, <1>2, <1>3, <1>5 DEF IInv, TypeOK, dbVars
<1>7. Referred'
  BY <1>1, <1>2 DEF IInv, Referred
<1>8. Waiting'
  <2> SUFFICES ASSUME NEW t \in Sessions, NEW i \in 1 .. Len(inbox'[t])
               PROVE  inbox'[t][i] \in Mine(t)'
    BY DEF Waiting
  <2>1. CASE t # s
    BY <1>4, <1>5, <2>1 DEF IInv, Waiting
  <2>2. CASE t = s /\ i \in 1 .. Len(inbox[s])
    <3>1. inbox'[t][i] = inbox[s][i]
      BY <1>3, <1>5, <2>2, Added
    <3>2. QED
      BY <1>4, <2>2, <3>1 DEF IInv, Waiting
  <2>3. CASE t = s /\ i = Len(inbox[s]) + 1
    <3>1. Append(inbox[s], id)[i] = id
      BY <1>3, <1>5, <2>3, Added
    <3>2. id \in Mine(t)'
      BY <1>4, <2>3
    <3>3. QED
      BY <1>5, <2>3, <3>1, <3>2
  <2>4. QED
    BY <1>3, <1>5, <2>1, <2>2, <2>3, Added
<1>9. \A t \in Sessions : Mine(t) \subseteq Mine(t)' /\ Near(t) \subseteq Near(t)'
  <2>1. \A i \in 1 .. Len(packets) : i \in 1 .. Len(packets') /\ Home(i)' = Home(i)
    BY <1>2 DEF Home
  <2>2. \A t \in Sessions : Near(t) \subseteq Near(t)'
    BY <1>1, <2>1 DEF Near
  <2>3. QED
    BY <1>4, <2>2
<1>10. Kept'
  BY <1>1, <1>9, GoodGrows DEF IInv, Kept
<1>11. Said'
  BY <1>1, <1>9, ToldGrows DEF IInv, Said
<1>14. Made' /\ Apart'
  <2>1. \A i \in 1 .. Len(packets') :
          \/ i \in 1 .. Len(packets) /\ Home(i)' = Home(i)
          \/ Home(i)' = s
    BY <1>2 DEF Home
  <2>2. QED
    BY <1>1, <2>1 DEF IInv, Made, Apart
<1>12. InOrder'
  <2> SUFFICES ASSUME fate = "runs", NEW t \in open PROVE Ordered(sent[t], inbox'[t], Mine(t)')
    BY <1>1 DEF InOrder
  <2>1. t \in Sessions /\ Ordered(sent[t], inbox[t], Mine(t))
    BY Typed DEF IInv, InOrder
  <2>2. CASE t # s
    BY <1>4, <1>5, <2>1, <2>2
  <2>3. CASE t = s
    <3>1. /\ \A i \in 1 .. Len(sent[s]) : sent[s][i].for \in Mine(s)
          /\ \A i \in 1 .. Len(inbox[s]) : inbox[s][i] \in Mine(s)
      BY DEF IInv, Said, Waiting, Told
    <3>2. \A m \in Mine(s) : m < id
      BY <1>2 DEF Mine, id
    <3>3. sent[s] \in Seq(Answers) /\ Mine(s) \in SUBSET Ids
      BY Typed
    <3>4. Ordered(sent[s], Append(inbox[s], id), Mine(s) \union {id})
      BY <1>3, <1>5, <2>1, <2>3, <3>1, <3>2, <3>3, OrderedArrival
    <3>5. QED
      BY <1>4, <1>5, <2>3, <3>4
  <2>4. QED
    BY <2>2, <2>3
<1>13. QED
  BY <1>6, <1>7, <1>8, <1>10, <1>11, <1>12, <1>14 DEF IInv

LEMMA EraseKeeps ==
  ASSUME IInv, NEW s \in Sessions, Erase(s)
  PROVE  IInv'
PROOF
<1>1. /\ open' = open \ {s} /\ inbox' = [inbox EXCEPT ![s] = <<>>]
      /\ UNCHANGED <<place, packets, parsed, resp, sent, posts, asker, dbVars, fate>>
  BY DEF Erase
<1>2. /\ inbox' \in [Sessions -> Seq(Ids)] /\ inbox'[s] = <<>>
      /\ \A t \in Sessions : t # s => inbox'[t] = inbox[t]
  BY <1>1, Typed, EmptySeq
<1>3. \A t : Mine(t)' = Mine(t)
  BY <1>1 DEF Mine, Home
<1>4. TypeOK'
  BY <1>1, <1>2 DEF IInv, TypeOK, dbVars
<1>5. Waiting'
  BY <1>2, <1>3, EmptySeq DEF IInv, Waiting
<1>6. \A t : Near(t) \subseteq Near(t)'
  BY <1>1 DEF Near, Home
<1>7. Kept'
  BY <1>1, <1>6, GoodGrows DEF IInv, Kept
<1>8. Said'
  BY <1>1, <1>3, <1>6, ToldGrows DEF IInv, Said
<1>9. Referred' /\ Made' /\ Apart'
  BY <1>1 DEF IInv, Referred, Made, Apart, Home
<1>10. InOrder'
  BY <1>1, <1>2, <1>3, Typed DEF IInv, InOrder
<1>11. QED
  BY <1>4, <1>5, <1>7, <1>8, <1>9, <1>10 DEF IInv

(* A session that is made has received nothing, and where it is made nobody  *)
(* is any more.                                                              *)
LEMMA AcceptKeeps ==
  ASSUME IInv, NEW s \in Sessions, Accept(s)
  PROVE  IInv'
PROOF
<1>1. PICK p \in Places \ {place[t] : t \in open} : place' = [place EXCEPT ![s] = p]
  BY DEF Accept
<1>2. /\ place[s] = Nowhere /\ open' = open \union {s}
      /\ UNCHANGED <<packets, inbox, parsed, resp, sent, posts, asker, dbVars, fate>>
  BY DEF Accept
<1>3. /\ place \in [Sessions -> Places \union {Nowhere}] /\ open \subseteq Sessions
      /\ \A t \in open : place[t] # Nowhere
      /\ \A id \in 1 .. Len(packets) : Home(id) \in Sessions /\ place[Home(id)] # Nowhere
  BY Typed DEF IInv, TypeOK, Made
<1>4. /\ place' \in [Sessions -> Places \union {Nowhere}] /\ place'[s] = p
      /\ \A t \in Sessions : t # s => place'[t] = place[t]
      /\ p # Nowhere /\ \A t \in open : place[t] # p
      /\ s \notin open /\ \A id \in 1 .. Len(packets) : Home(id) # s /\ Home(id)' = Home(id)
  BY <1>1, <1>2, <1>3, PlacesAssumption DEF Home
<1>5. \A t \in Sessions : Mine(t)' = Mine(t) /\ Near(t) \subseteq Near(t)'
  <2>1. \A t \in Sessions : Mine(t)' = Mine(t)
    BY <1>2 DEF Mine, Home
  <2>2. Near(s) = {}
    BY <1>2, <1>3, <1>4 DEF Near
  <2>3. ASSUME NEW t \in Sessions, t # s, NEW id \in Near(t) PROVE id \in Near(t)'
    <3>1. id \in 1 .. Len(packets) /\ Home(id)' = Home(id) /\ Home(id) # s /\ Home(id) \in Sessions
      BY <1>3, <1>4, <2>3 DEF Near
    <3>2. place'[t] = place[t] /\ place'[Home(id)] = place[Home(id)]
      BY <1>4, <2>3, <3>1
    <3>3. Home(id) = t \/ (Home(id) \notin open /\ place[Home(id)] = place[t])
      BY <2>3 DEF Near
    <3>4. id \in 1 .. Len(packets')
      BY <1>2, <3>1
    <3>5. Home(id)' = t \/ (Home(id)' \notin open' /\ place'[Home(id)'] = place'[t])
      BY <1>2, <3>1, <3>2, <3>3
    <3>6. QED
      BY <3>4, <3>5 DEF Near
  <2>4. QED
    BY <2>1, <2>2, <2>3
<1>6. TypeOK'
  BY <1>2, <1>3, <1>4 DEF IInv, TypeOK, dbVars
<1>7. Kept'
  BY <1>2, <1>5, GoodGrows DEF IInv, Kept
<1>8. Said'
  BY <1>2, <1>5, ToldGrows DEF IInv, Said
<1>9. Waiting' /\ Referred'
  BY <1>2, <1>5 DEF IInv, Waiting, Referred
<1>10. Made'
  <2>1. \A t \in open' : place'[t] # Nowhere
    BY <1>2, <1>3, <1>4
  <2>2. \A id \in 1 .. Len(packets') : place'[Home(id)'] # Nowhere
    BY <1>2, <1>3, <1>4
  <2>3. QED
    BY <2>1, <2>2 DEF Made
<1>11. Apart'
  <2> SUFFICES ASSUME NEW t \in open', NEW u \in open', place'[t] = place'[u] PROVE t = u
    BY DEF Apart
  <2>1. CASE t # s /\ u # s
    BY <1>2, <1>3, <1>4, <2>1 DEF IInv, Apart
  <2>2. CASE t = s \/ u = s
    BY <1>2, <1>3, <1>4, <2>2
  <2>3. QED
    BY <2>1, <2>2
<1>12. InOrder'
  <2> SUFFICES ASSUME fate = "runs", NEW t \in open' PROVE Ordered(sent[t], inbox[t], Mine(t))
    BY <1>2, <1>3, <1>5 DEF InOrder
  <2>1. CASE t \in open
    BY <2>1 DEF IInv, InOrder
  <2>2. CASE t = s
    <3>1. inbox[s] = <<>> /\ Mine(s) = {}
      BY <1>4 DEF IInv, TypeOK, Mine
    <3>2. sent[s] \in Seq(Answers) /\ \A i \in 1 .. Len(sent[s]) : sent[s][i].for \in Mine(s)
      BY Typed DEF IInv, Said, Told
    <3>3. Len(sent[s]) \in Nat /\ \A i \in 1 .. Len(sent[s]) : FALSE
      BY <3>1, <3>2, LenProperties
    <3>4. Len(inbox[s]) = 0
      BY <3>1, EmptySeq
    <3>5. QED
      BY <2>2, <3>1, <3>3, <3>4 DEF Ordered
  <2>3. QED
    BY <1>2, <2>1, <2>2
<1>13. QED
  BY <1>6, <1>7, <1>8, <1>9, <1>10, <1>11, <1>12 DEF IInv

-------------------------------------------------------------------------------
(* The packet is taken from the queue.                                       *)
LEMMA Handling ==
  ASSUME IInv, NEW s \in Sessions, NEW route \in Routes, Handle(s, route),
         UNCHANGED <<open, place, packets>>
  PROVE  /\ s \in open /\ inbox[s] # <<>> /\ inbox[s] \in Seq(Ids)
         /\ Head(inbox[s]) \in Ids /\ Head(inbox[s]) \in Mine(s)
         /\ Head(inbox[s]) \in 1 .. Len(packets)
         /\ inbox' \in [Sessions -> Seq(Ids)] /\ inbox'[s] = Tail(inbox[s])
         /\ \A t \in Sessions : t # s => inbox'[t] = inbox[t]
         /\ \A t : Mine(t)' = Mine(t) /\ Near(t)' = Near(t)
         /\ Head(inbox[s]) \in Near(s) /\ Made' /\ Apart'
         /\ parsed' \subseteq Sessions /\ Waiting'
         /\ \A t \in Sessions \ open' : inbox'[t] = <<>>
PROOF
<1>1. /\ s \in open /\ inbox[s] # <<>> /\ inbox' = [inbox EXCEPT ![s] = Tail(inbox[s])]
      /\ parsed' \subseteq parsed \union {s}
  BY DEF Handle
<1>2. inbox[s] \in Seq(Ids)
  BY Typed
<1>3. /\ Head(inbox[s]) \in Ids /\ Tail(inbox[s]) \in Seq(Ids)
      /\ 1 \in 1 .. Len(inbox[s]) /\ Head(inbox[s]) = inbox[s][1]
      /\ \A i \in 1 .. Len(Tail(inbox[s])) :
           i + 1 \in 1 .. Len(inbox[s]) /\ Tail(inbox[s])[i] = inbox[s][i + 1]
  BY <1>1, <1>2, Taken
<1>4. /\ inbox' \in [Sessions -> Seq(Ids)] /\ inbox'[s] = Tail(inbox[s])
      /\ \A t \in Sessions : t # s => inbox'[t] = inbox[t]
  BY <1>1, <1>3, Typed
<1>5. Head(inbox[s]) \in Mine(s) /\ Head(inbox[s]) \in 1 .. Len(packets)
  BY <1>3 DEF IInv, Waiting, Mine
<1>6. \A t : Mine(t)' = Mine(t) /\ Near(t)' = Near(t) /\ Mine(t) \subseteq Near(t)
  BY SameNear, Typed
<1>10. Made' /\ Apart'
  BY SameNear DEF IInv
<1>7. Waiting'
  <2> SUFFICES ASSUME NEW t \in Sessions, NEW i \in 1 .. Len(inbox'[t])
               PROVE  inbox'[t][i] \in Mine(t)
    BY <1>6 DEF Waiting
  <2>1. CASE t # s
    BY <1>4, <2>1 DEF IInv, Waiting
  <2>2. CASE t = s
    <3>1. i + 1 \in 1 .. Len(inbox[s]) /\ inbox'[t][i] = inbox[s][i + 1]
      BY <1>3, <1>4, <2>2
    <3>2. QED
      BY <2>2, <3>1 DEF IInv, Waiting
  <2>3. QED
    BY <2>1, <2>2
<1>8. parsed' \subseteq Sessions /\ \A t \in Sessions \ open' : inbox'[t] = <<>>
  BY <1>1, <1>4 DEF IInv, TypeOK
<1>9. QED
  BY <1>1, <1>2, <1>3, <1>4, <1>5, <1>6, <1>7, <1>8, <1>10

(* It is answered with the payload of the response r.                        *)
LEMMA Answering ==
  ASSUME IInv, fate = "runs", NEW s \in Sessions, NEW route \in Routes, NEW r \in Responses,
         Handle(s, route), Respond(s, route, r), UNCHANGED <<open, place, packets>>,
         Good(r, Near(s)),
         route = "/" => \/ r.status = 200 /\ r.content = <<Piece(Head(inbox[s]), "hello")>>
                        \/ r.status = 503,
         route = "/user2" => \/ r.status = 200 /\ r.content = <<Piece(Head(inbox[s]), "row")>>
                             \/ r.status \in {500, 503},
         route = "/other" => r.status = 404
  PROVE  /\ resp' \in [Sessions -> Responses] /\ sent' \in [Sessions -> Seq(Answers)]
         /\ Kept' /\ Said' /\ InOrder'
PROOF
<1> DEFINE id == Head(inbox[s])
           g == GetPayload(r, id)
           part == PartOf(r, id)
           ans == [for |-> id, route |-> route, payload |-> g.head]
<1>1. /\ id \in Ids /\ id \in Mine(s) /\ id \in Near(s) /\ s \in open
      /\ inbox[s] # <<>> /\ inbox[s] \in Seq(Ids) /\ inbox'[s] = Tail(inbox[s])
      /\ \A t \in Sessions : t # s => inbox'[t] = inbox[t]
      /\ \A t : Mine(t)' = Mine(t) /\ Near(t)' = Near(t)
  BY Handling
<1>2. resp' = [resp EXCEPT ![s] = g]
  BY DEF Respond
<1>3. /\ g \in Responses /\ Good(g, Near(s)) /\ g.head = Append(r.head, part)
      /\ part \in Parts /\ r.head \in Seq(Parts) /\ g.head \in Seq(Parts)
  <2>1. g \in Responses /\ g.head = Append(r.head, part) /\ part \in Parts
    BY <1>1, PayloadGot
  <2>2. Good(g, Near(s))
    BY <1>1, PayloadGood
  <2> HIDE DEF g, part
  <2>3. r.head \in Seq(Parts) /\ g.head \in Seq(Parts)
    BY <2>1 DEF Responses
  <2>4. QED
    BY <2>1, <2>2, <2>3
<1>4. /\ resp' \in [Sessions -> Responses] /\ resp'[s] = g
      /\ \A t \in Sessions : t # s => resp'[t] = resp[t]
  BY <1>2, <1>3, Typed
<1>5. sent' = [sent EXCEPT ![s] = Append(sent[s], ans)]
  BY <1>4 DEF Respond
<1>6. Last(g.head) = part
  BY <1>3, Added DEF Last
<1>7. part.status = r.status /\ part.body = BodyOf(r, id)
  BY DEF PartOf
<1> HIDE DEF id, g, part
<1>16. /\ r.status = 200 => BodyOf(r, id) = r.content
       /\ r.status \in {404, 500, 503} =>
            BodyOf(r, id) # <<>> /\ Last(BodyOf(r, id)) = Piece(id, "error")
  <2> DEFINE body == Append(r.content, Piece(id, "error"))
  <2>1. r.content \in Seq(Pieces) /\ Piece(id, "error") \in Pieces
    BY <1>1, Piecewise DEF Responses
  <2>2. body # <<>> /\ Last(body) = Piece(id, "error")
    BY <2>1, Added, EmptySeq DEF Last
  <2>3. /\ r.status = 200 => BodyOf(r, id) = r.content
        /\ r.status \in {404, 500, 503} => BodyOf(r, id) = body
    BY DEF BodyOf
  <2> HIDE DEF body
  <2>4. QED
    BY <2>2, <2>3
<1>8. ans \in Answers /\ ans.for = id /\ ans.route = route /\ ans.payload = g.head
  BY <1>1, <1>3 DEF Answers
<1> HIDE DEF ans
<1>9. Told(ans, Mine(s), Near(s))
  <2>1. Truthful(ans)
    <3>1. Last(ans.payload) = part /\ ans.for = id /\ ans.route = route
      BY <1>6, <1>8
    <3>2. /\ route = "/" => (r.status = 200 /\ r.content = <<Piece(id, "hello")>>) \/ r.status = 503
          /\ route = "/user2" =>
               (r.status = 200 /\ r.content = <<Piece(id, "row")>>) \/ r.status \in {500, 503}
          /\ route = "/other" => r.status = 404
      BY DEF id
    <3>3. QED
      BY <1>7, <1>16, <3>1, <3>2 DEF Truthful
  <2>2. QED
    BY <1>1, <1>3, <1>8, <2>1 DEF Told, Good
<1>10. sent[s] \in Seq(Answers)
  BY Typed
<1>11. /\ sent' \in [Sessions -> Seq(Answers)] /\ sent'[s] = Append(sent[s], ans)
       /\ \A t \in Sessions : t # s => sent'[t] = sent[t]
  BY <1>5, <1>8, <1>10, Added, Typed
<1>12. Kept'
  BY <1>1, <1>3, <1>4 DEF IInv, Kept
<1>13. Said'
  <2> SUFFICES ASSUME NEW t \in Sessions, NEW i \in 1 .. Len(sent'[t])
               PROVE  Told(sent'[t][i], Mine(t), Near(t))
    BY <1>1 DEF Said
  <2>1. CASE t # s
    <3>1. sent'[t] = sent[t] /\ i \in 1 .. Len(sent[t])
      BY <1>11, <2>1
    <3>2. Said
      BY DEF IInv
    <3>3. QED
      BY <3>1, <3>2 DEF Said
  <2>2. CASE t = s /\ i \in 1 .. Len(sent[s])
    <3>1. sent'[t] = Append(sent[s], ans) /\ Append(sent[s], ans)[i] = sent[s][i]
      <4>1. Append(sent[s], ans)[i] = sent[s][i]
        BY <1>8, <1>10, <2>2, Added
      <4>2. QED
        BY <1>11, <2>2, <4>1
    <3>2. Said
      BY DEF IInv
    <3>3. QED
      BY <2>2, <3>1, <3>2 DEF Said
  <2>3. CASE t = s /\ i = Len(sent[s]) + 1
    <3>1. Append(sent[s], ans)[i] = ans
      BY <1>8, <1>10, <2>3, Added
    <3>2. QED
      BY <1>9, <1>11, <2>3, <3>1
  <2>4. QED
    BY <1>8, <1>10, <1>11, <2>1, <2>2, <2>3, Added
<1>14. InOrder'
  <2> SUFFICES ASSUME NEW t \in open PROVE Ordered(sent'[t], inbox'[t], Mine(t))
    BY <1>1 DEF InOrder
  <2>1. t \in Sessions /\ Ordered(sent[t], inbox[t], Mine(t))
    BY Typed DEF IInv, InOrder
  <2>2. CASE t # s
    BY <1>1, <1>11, <2>1, <2>2
  <2>3. CASE t = s
    <3>1. Mine(s) \in SUBSET Ids /\ ans.for = Head(inbox[s])
      BY <1>8, Typed DEF id
    <3>2. Ordered(Append(sent[s], ans), Tail(inbox[s]), Mine(s))
      BY <1>1, <1>8, <1>10, <2>1, <2>3, <3>1, OrderedAnswer
    <3>3. sent'[t] = Append(sent[s], ans) /\ inbox'[t] = Tail(inbox[s])
      BY <1>1, <1>11, <2>3
    <3>4. QED
      BY <2>3, <3>2, <3>3
  <2>4. QED
    BY <2>2, <2>3
<1>15. QED
  BY <1>4, <1>11, <1>12, <1>13, <1>14

(* What was not touched while packets were taken or answered.                *)
LEMMA HelloKeeps ==
  ASSUME IInv, fate = "runs", NEW s \in Sessions, Hello(s)
  PROVE  IInv'
PROOF
<1> DEFINE id == Head(inbox[s])
           r  == Say(resp[s], id, "hello")
<1>1. /\ Handle(s, "/") /\ Respond(s, "/", r)
      /\ UNCHANGED <<open, place, packets, posts, asker, dbVars, fate>> /\ "/" \in Routes
  BY DEF Hello, Routes
<1>2. id \in Ids /\ id \in Near(s) /\ resp[s] \in Responses /\ Good(resp[s], Near(s))
  <2>1. s \in open /\ id \in Ids /\ id \in Near(s)
    BY <1>1, Handling
  <2>2. resp[s] \in Responses /\ Good(resp[s], Near(s))
    BY Typed DEF IInv, Kept
  <2>3. QED
    BY <2>1, <2>2
<1> HIDE DEF id
<1>3. r \in Responses /\ r.status = 200 /\ r.content = <<Piece(id, "hello")>> /\ Good(r, Near(s))
  <2>1. r \in Responses /\ r.status = 200 /\ r.content = <<Piece(id, "hello")>>
    <3>1. r \in Responses
      BY <1>2, SayTyped
    <3>2. r.status = 200 /\ r.content = <<Piece(id, "hello")>>
      BY <1>2, SayTold
    <3>3. QED
      BY <3>1, <3>2
  <2>2. Good(r, Near(s))
    BY <1>2, SaidGood
  <2>3. QED
    BY <2>1, <2>2
<1> HIDE DEF r
<1>4. /\ resp' \in [Sessions -> Responses] /\ sent' \in [Sessions -> Seq(Answers)]
      /\ Kept' /\ Said' /\ InOrder'
  BY <1>1, <1>3, Answering DEF id
<1>5. TypeOK' /\ Waiting' /\ Made' /\ Apart'
  BY <1>1, <1>4, Handling DEF IInv, TypeOK, dbVars, Responses
<1>6. Referred'
  BY <1>1 DEF IInv, Referred
<1>7. QED
  BY <1>4, <1>5, <1>6 DEF IInv

LEMMA NotFoundKeeps ==
  ASSUME IInv, fate = "runs", NEW s \in Sessions, NotFound(s)
  PROVE  IInv'
PROOF
<1> DEFINE r == SetStatusCode(resp[s], 404)
<1>1. /\ Handle(s, "/other") /\ Respond(s, "/other", r)
      /\ UNCHANGED <<open, place, packets, posts, asker, dbVars, fate>> /\ "/other" \in Routes
  BY DEF NotFound, Routes
<1>2. resp[s] \in Responses /\ Good(resp[s], Near(s)) /\ 404 \in Statuses
  BY Typed DEF IInv, Kept, Statuses
<1>3. r \in Responses /\ Good(r, Near(s)) /\ r.status = 404
  BY <1>2, StatusSet, StatusGood
<1> HIDE DEF r
<1>4. /\ resp' \in [Sessions -> Responses] /\ sent' \in [Sessions -> Seq(Answers)]
      /\ Kept' /\ Said' /\ InOrder'
  BY <1>1, <1>3, Answering
<1>5. TypeOK' /\ Waiting' /\ Made' /\ Apart'
  BY <1>1, <1>4, Handling DEF IInv, TypeOK, dbVars, Responses
<1>6. Referred'
  BY <1>1 DEF IInv, Referred
<1>7. QED
  BY <1>4, <1>5, <1>6 DEF IInv

(* A list of packets that have arrived, with one more.                       *)
LEMMA ArrivedAdded ==
  ASSUME NEW list \in Seq(Ids), NEW id \in Ids, id \in 1 .. Len(packets),
         \A i \in 1 .. Len(list) : list[i] \in 1 .. Len(packets)
  PROVE  /\ Append(list, id) \in Seq(Ids) /\ Len(Append(list, id)) = Len(list) + 1 /\ Len(list) \in Nat
         /\ \A i \in 1 .. Len(Append(list, id)) : Append(list, id)[i] \in 1 .. Len(packets)
PROOF
<1> SUFFICES ASSUME NEW i \in 1 .. Len(Append(list, id))
             PROVE  Append(list, id)[i] \in 1 .. Len(packets)
  BY Added
<1>1. CASE i \in 1 .. Len(list)
  BY <1>1, Added
<1>2. CASE i = Len(list) + 1
  BY <1>2, Added
<1>3. QED
  BY <1>1, <1>2, Added

LEMMA TaskKeeps ==
  ASSUME IInv, fate = "runs", NEW s \in Sessions, Task(s)
  PROVE  IInv'
PROOF
<1> DEFINE id == Head(inbox[s])
<1>1. /\ Handle(s, "/task") /\ Respond(s, "/task", resp[s]) /\ posts' = Append(posts, id)
      /\ UNCHANGED <<open, place, packets, asker, dbVars, fate>> /\ "/task" \in Routes
  BY DEF Task, Routes
<1>2. resp[s] \in Responses /\ Good(resp[s], Near(s))
  BY Typed DEF IInv, Kept
<1>3. /\ resp' \in [Sessions -> Responses] /\ sent' \in [Sessions -> Seq(Answers)]
      /\ Kept' /\ Said' /\ InOrder'
  BY <1>1, <1>2, Answering
<1>4. id \in Ids /\ id \in 1 .. Len(packets) /\ posts \in Seq(Ids)
  BY <1>1, Handling DEF IInv, TypeOK
<1> HIDE DEF id
<1>5. posts' \in Seq(Ids) /\ \A i \in 1 .. Len(posts') : posts'[i] \in 1 .. Len(packets)
  BY <1>1, <1>4, ArrivedAdded DEF IInv, Referred
<1>6. TypeOK' /\ Waiting' /\ Made' /\ Apart'
  BY <1>1, <1>3, <1>5, Handling DEF IInv, TypeOK, dbVars, Responses
<1>7. Referred'
  BY <1>1, <1>5 DEF IInv, Referred
<1>8. QED
  BY <1>3, <1>6, <1>7 DEF IInv

LEMMA User1Keeps ==
  ASSUME IInv, fate = "runs", NEW s \in Sessions, User1(s)
  PROVE  IInv'
PROOF
<1> DEFINE id == Head(inbox[s])
<1>1. /\ Handle(s, "/user1") /\ Respond(s, "/user1", resp[s]) /\ asker' = Append(asker, id)
      /\ asked' = asked + 1 /\ UNCHANGED <<answered, delivered>>
      /\ UNCHANGED <<open, place, packets, posts, fate>> /\ "/user1" \in Routes
  BY DEF User1, Routes, Db!Ask
<1>2. resp[s] \in Responses /\ Good(resp[s], Near(s))
  BY Typed DEF IInv, Kept
<1>3. /\ resp' \in [Sessions -> Responses] /\ sent' \in [Sessions -> Seq(Answers)]
      /\ Kept' /\ Said' /\ InOrder'
  BY <1>1, <1>2, Answering
<1>4. id \in Ids /\ id \in 1 .. Len(packets) /\ asker \in Seq(Ids)
  BY <1>1, Handling DEF IInv, TypeOK
<1> HIDE DEF id
<1>5. /\ asker' \in Seq(Ids) /\ \A i \in 1 .. Len(asker') : asker'[i] \in 1 .. Len(packets)
      /\ Len(asker') = Len(asker) + 1 /\ Len(asker) \in Nat
  BY <1>1, <1>4, ArrivedAdded DEF IInv, Referred
<1>6. asked' = Len(asker') /\ answered' \subseteq 1 .. asked' /\ delivered' \subseteq answered'
  BY <1>1, <1>5 DEF IInv, TypeOK
<1>7. TypeOK' /\ Waiting' /\ Made' /\ Apart'
  BY <1>1, <1>3, <1>5, <1>6, Handling DEF IInv, TypeOK, Responses
<1>8. Referred'
  BY <1>1, <1>5 DEF IInv, Referred
<1>9. QED
  BY <1>3, <1>7, <1>8 DEF IInv

LEMMA User2Keeps ==
  ASSUME IInv, fate = "runs", NEW s \in Sessions, User2(s)
  PROVE  IInv'
PROOF
<1> DEFINE id == Head(inbox[s])
           failed == SetStatusCode(resp[s], 500)
           row == Say(resp[s], id, "row")
<1>1. /\ Handle(s, "/user2") /\ "/user2" \in Routes
      /\ UNCHANGED <<open, place, packets, posts, asker, dbVars>>
      /\ \/ Respond(s, "/user2", failed) /\ UNCHANGED fate
         \/ Respond(s, "/user2", row) /\ UNCHANGED fate
         \/ fate' = "aborted" /\ UNCHANGED <<resp, sent>>
  BY DEF User2, Routes
<1>2. /\ id \in Ids /\ id \in Near(s) /\ resp[s] \in Responses /\ Good(resp[s], Near(s))
      /\ 500 \in Statuses
  BY <1>1, Handling, Typed DEF IInv, Kept, Statuses
<1> HIDE DEF id
<1>3. /\ failed \in Responses /\ failed.status = 500 /\ Good(failed, Near(s))
      /\ row \in Responses /\ row.status = 200 /\ row.content = <<Piece(id, "row")>>
      /\ Good(row, Near(s))
  <2>1. failed \in Responses /\ failed.status = 500 /\ Good(failed, Near(s))
    BY <1>2, StatusSet, StatusGood
  <2>2. row \in Responses /\ row.status = 200 /\ row.content = <<Piece(id, "row")>>
    <3>1. row \in Responses
      BY <1>2, SayTyped
    <3>2. row.status = 200 /\ row.content = <<Piece(id, "row")>>
      BY <1>2, SayTold
    <3>3. QED
      BY <3>1, <3>2
  <2>3. Good(row, Near(s))
    BY <1>2, SaidGood
  <2>4. QED
    BY <2>1, <2>2, <2>3
<1> HIDE DEF failed, row
<1>4. /\ resp' \in [Sessions -> Responses] /\ sent' \in [Sessions -> Seq(Answers)]
      /\ Kept' /\ Said' /\ InOrder' /\ fate' \in {"runs", "aborted"}
  <2>1. CASE Respond(s, "/user2", failed) /\ UNCHANGED fate
    BY <1>1, <1>3, <2>1, Answering
  <2>2. CASE Respond(s, "/user2", row) /\ UNCHANGED fate
    BY <1>1, <1>3, <2>2, Answering DEF id
  <2>3. CASE fate' = "aborted" /\ UNCHANGED <<resp, sent>>
    <3>1. \A t : Mine(t)' = Mine(t) /\ Near(t)' = Near(t)
      BY <1>1, Handling
    <3>2. QED
      BY <2>3, <3>1, Typed DEF IInv, Kept, Said, InOrder
  <2>4. QED
    BY <1>1, <2>1, <2>2, <2>3
<1>5. TypeOK' /\ Waiting' /\ Made' /\ Apart'
  BY <1>1, <1>4, Handling DEF IInv, TypeOK, dbVars, Responses
<1>6. Referred'
  BY <1>1 DEF IInv, Referred
<1>7. QED
  BY <1>4, <1>5, <1>6 DEF IInv

(* A handler that throws is answered with 503 by Route, whatever it had said *)
(* and asked before.                                                         *)
LEMMA HandlerThrowsKeeps ==
  ASSUME IInv, fate = "runs", NEW s \in Sessions, NEW route \in Routes, HandlerThrows(s, route)
  PROVE  IInv'
PROOF
<1> DEFINE id == Head(inbox[s])
           said == SetContent(resp[s], id, "row")
           r == SetStatusCode(resp[s], 503)
           q == SetStatusCode(said, 503)
<1>1. /\ Handle(s, route) /\ route # "/other"
      /\ Respond(s, route, r) \/ Respond(s, route, q)
      /\ UNCHANGED <<open, place, packets, posts, fate>>
  BY DEF HandlerThrows
<1>2. /\ id \in Ids /\ id \in Near(s) /\ resp[s] \in Responses /\ Good(resp[s], Near(s))
      /\ id \in 1 .. Len(packets) /\ 503 \in Statuses
  BY <1>1, Handling, Typed DEF IInv, Kept, Statuses
<1>3. \/ UNCHANGED <<asker, dbVars>>
      \/ asked' = asked + 1 /\ UNCHANGED <<answered, delivered>> /\ asker' = Append(asker, id)
  BY DEF HandlerThrows, Db!Ask
<1> HIDE DEF id
<1>4. said \in Responses /\ Good(said, Near(s))
  BY <1>2, ContentMade, ContentGood
<1> HIDE DEF said
<1>5. /\ r \in Responses /\ r.status = 503 /\ Good(r, Near(s))
      /\ q \in Responses /\ q.status = 503 /\ Good(q, Near(s))
  BY <1>2, <1>4, StatusSet, StatusGood
<1> HIDE DEF r, q
<1>6. /\ resp' \in [Sessions -> Responses] /\ sent' \in [Sessions -> Seq(Answers)]
      /\ Kept' /\ Said' /\ InOrder'
  <2>1. CASE Respond(s, route, r)
    BY <1>1, <1>5, <2>1, Answering
  <2>2. CASE Respond(s, route, q)
    BY <1>1, <1>5, <2>2, Answering
  <2>3. QED
    BY <1>1, <2>1, <2>2
<1>7. /\ asker' \in Seq(Ids) /\ \A i \in 1 .. Len(asker') : asker'[i] \in 1 .. Len(packets)
      /\ asked' = Len(asker') /\ answered' \subseteq 1 .. asked' /\ delivered' \subseteq answered'
  <2>1. /\ asker \in Seq(Ids) /\ asked = Len(asker)
        /\ answered \subseteq 1 .. asked /\ delivered \subseteq answered
        /\ \A i \in 1 .. Len(asker) : asker[i] \in 1 .. Len(packets)
    BY DEF IInv, TypeOK, Referred
  <2>2. CASE UNCHANGED <<asker, dbVars>>
    BY <2>1, <2>2 DEF dbVars
  <2>3. CASE /\ asked' = asked + 1 /\ UNCHANGED <<answered, delivered>>
             /\ asker' = Append(asker, id)
    BY <1>2, <2>1, <2>3, ArrivedAdded
  <2>4. QED
    BY <1>3, <2>2, <2>3
<1>8. TypeOK' /\ Waiting' /\ Made' /\ Apart'
  BY <1>1, <1>6, <1>7, Handling DEF IInv, TypeOK, Responses
<1>9. Referred'
  BY <1>1, <1>7 DEF IInv, Referred
<1>10. QED
  BY <1>6, <1>8, <1>9 DEF IInv

-------------------------------------------------------------------------------
(* A task or a callback writes to the response that its reference leads to:  *)
(* that of its own session while it is there, of one in its place afterwards.*)
LEMMA Writing ==
  ASSUME IInv, NEW id \in 1 .. Len(packets), NEW new \in [Sessions -> Responses],
         WriteBack(id, new), fate = "runs",
         \A s \in Reached(id) : id \in Near(s) => Good(new[s], Near(s)),
         UNCHANGED <<open, place, packets, inbox, sent>>
  PROVE  /\ resp' \in [Sessions -> Responses] /\ fate' \in {"runs", "wild"}
         /\ Waiting' /\ Kept' /\ Said' /\ InOrder' /\ Made' /\ Apart'
PROOF
<1>1. \A t : Mine(t)' = Mine(t) /\ Near(t)' = Near(t)
  BY SameNear
<1>2. Waiting' /\ Said' /\ Made' /\ Apart'
  BY <1>1, SameNear DEF IInv, Waiting, Said
<1>3. InOrder'
  BY <1>1 DEF WriteBack, IInv, InOrder
<1>4. ASSUME NEW s \in Reached(id) PROVE s \in Sessions /\ id \in Near(s)
  <2>1. s \in open /\ place[s] = place[Home(id)] /\ s \in Sessions
    BY Typed DEF Reached
  <2>2. Home(id) \in open => Home(id) = s
    BY <2>1 DEF IInv, Apart
  <2>3. QED
    BY <2>1, <2>2 DEF Near
<1>5. resp' \in [Sessions -> Responses] /\ fate' \in {"runs", "wild"} /\ Kept'
  <2>1. resp \in [Sessions -> Responses]
    BY Typed
  <2>2. CASE /\ resp' = [s \in Sessions |-> IF s \in Reached(id) THEN new[s] ELSE resp[s]]
             /\ UNCHANGED fate
    <3>1. resp' \in [Sessions -> Responses] /\ fate' = "runs"
      BY <2>1, <2>2
    <3>2. ASSUME NEW s \in Sessions PROVE Good(resp'[s], Near(s))
      <4>1. CASE s \in Reached(id)
        BY <1>4, <2>2, <4>1
      <4>2. CASE s \notin Reached(id)
        BY <2>2, <4>2 DEF IInv, Kept
      <4>3. QED
        BY <4>1, <4>2
    <3>3. QED
      BY <1>1, <3>1, <3>2 DEF Kept
  <2>3. CASE fate' = "wild" /\ UNCHANGED resp
    BY <1>1, <2>1, <2>3 DEF IInv, Kept
  <2>4. QED
    BY <2>2, <2>3 DEF WriteBack
<1>6. QED
  BY <1>2, <1>3, <1>5

LEMMA SayingGood ==
  ASSUME IInv, NEW id \in 1 .. Len(packets), NEW what \in {"row", "task"}
  PROVE  /\ Saying(id, what) \in [Sessions -> Responses]
         /\ \A s \in Reached(id) : id \in Near(s) => Good(Saying(id, what)[s], Near(s))
PROOF
<1>1. id \in Ids /\ open \subseteq Sessions /\ resp \in [Sessions -> Responses]
  BY Typed
<1>2. \A s \in Sessions : Saying(id, what)[s] = Say(resp[s], id, what)
  BY DEF Saying
<1>3. ASSUME NEW s \in Sessions PROVE Say(resp[s], id, what) \in Responses
  <2>1. resp[s] \in Responses
    BY <1>1
  <2>2. QED
    BY <1>1, <2>1, SayTyped
<1>4. ASSUME NEW s \in Sessions, id \in Near(s) PROVE Good(Say(resp[s], id, what), Near(s))
  <2>1. resp[s] \in Responses /\ Good(resp[s], Near(s))
    BY <1>1 DEF IInv, Kept
  <2>2. QED
    BY <1>1, <1>4, <2>1, SaidGood
<1>5. QED
  BY <1>1, <1>2, <1>3, <1>4 DEF Saying, Reached

LEMMA FailingGood ==
  ASSUME IInv
  PROVE  /\ Failing \in [Sessions -> Responses]
         /\ \A s \in Sessions : Good(Failing[s], Near(s))
PROOF
<1>1. resp \in [Sessions -> Responses] /\ 500 \in Statuses
  BY Typed DEF Statuses
<1>2. \A s \in Sessions : Failing[s] = SetStatusCode(resp[s], 500)
  BY DEF Failing
<1>3. \A s \in Sessions : SetStatusCode(resp[s], 500) \in Responses
  BY <1>1, StatusSet
<1>4. ASSUME NEW s \in Sessions PROVE Good(SetStatusCode(resp[s], 500), Near(s))
  <2>1. resp[s] \in Responses /\ Good(resp[s], Near(s))
    BY <1>1 DEF IInv, Kept
  <2>2. QED
    BY <1>1, <2>1, StatusGood
<1>5. QED
  BY <1>2, <1>3, <1>4 DEF Failing

LEMMA RunPostKeeps ==
  ASSUME IInv, fate = "runs", RunPost
  PROVE  IInv'
PROOF
<1> DEFINE id == Head(posts)
<1>1. /\ posts # <<>> /\ WriteBack(id, Saying(id, "task")) /\ posts' = Tail(posts)
      /\ posts \in Seq(Ids)
      /\ UNCHANGED <<open, place, packets, inbox, parsed, sent, asker, dbVars>>
  BY DEF RunPost, IInv, TypeOK
<1>2. /\ posts' \in Seq(Ids) /\ 1 \in 1 .. Len(posts) /\ id = posts[1]
      /\ \A i \in 1 .. Len(posts') : i + 1 \in 1 .. Len(posts) /\ posts'[i] = posts[i + 1]
  BY <1>1, Taken
<1>3. id \in 1 .. Len(packets) /\ \A i \in 1 .. Len(posts') : posts'[i] \in 1 .. Len(packets)
  BY <1>2 DEF IInv, Referred
<1> HIDE DEF id
<1>4. /\ resp' \in [Sessions -> Responses] /\ fate' \in {"runs", "wild"}
      /\ Waiting' /\ Kept' /\ Said' /\ InOrder' /\ Made' /\ Apart'
  BY <1>1, <1>3, SayingGood, Writing
<1>5. TypeOK'
  BY <1>1, <1>2, <1>4 DEF IInv, TypeOK, dbVars, Responses
<1>6. Referred'
  BY <1>1, <1>3 DEF IInv, Referred
<1>7. QED
  BY <1>4, <1>5, <1>6 DEF IInv

LEMMA CallbackKeeps ==
  ASSUME IInv, fate = "runs", NEW q \in Ids, Callback(q)
  PROVE  IInv'
PROOF
<1> DEFINE id == asker[q]
<1>1. /\ q \in answered /\ delivered' = delivered \union {q} /\ UNCHANGED <<asked, answered>>
      /\ UNCHANGED <<open, place, packets, inbox, parsed, sent, posts, asker>>
      /\ \/ WriteBack(id, Failing) \/ WriteBack(id, Saying(id, "row"))
         \/ fate' = "aborted" /\ UNCHANGED resp
  BY DEF Callback, Db!Deliver
<1>2. id \in 1 .. Len(packets)
  BY <1>1 DEF IInv, TypeOK, Referred
<1> HIDE DEF id
<1>3. /\ resp' \in [Sessions -> Responses] /\ fate' \in {"runs", "wild", "aborted"}
      /\ Waiting' /\ Kept' /\ Said' /\ InOrder' /\ Made' /\ Apart'
  <2>1. CASE WriteBack(id, Failing)
    <3>1. Reached(id) \subseteq Sessions
      BY Typed DEF Reached
    <3>2. \A s \in Reached(id) : Good(Failing[s], Near(s))
      BY <3>1, FailingGood
    <3>3. QED
      BY <1>1, <1>2, <2>1, <3>2, FailingGood, Writing
  <2>2. CASE WriteBack(id, Saying(id, "row"))
    BY <1>1, <1>2, <2>2, SayingGood, Writing
  <2>3. CASE fate' = "aborted" /\ UNCHANGED resp
    <3>1. (\A t : Mine(t)' = Mine(t) /\ Near(t)' = Near(t)) /\ Made' /\ Apart'
      BY <1>1, SameNear DEF IInv
    <3>2. QED
      BY <1>1, <2>3, <3>1, Typed DEF IInv, Waiting, Kept, Said, InOrder
  <2>4. QED
    BY <1>1, <2>1, <2>2, <2>3
<1>4. TypeOK'
  BY <1>1, <1>3 DEF IInv, TypeOK, Responses
<1>5. Referred'
  BY <1>1 DEF IInv, Referred
<1>6. QED
  BY <1>3, <1>4, <1>5 DEF IInv

(* What the exchange does not see.                                           *)
LEMMA ExchangeUntouched ==
  ASSUME IInv, UNCHANGED <<open, place, packets, inbox, parsed, resp, sent, posts, asker, fate>>,
         asked' = asked, answered' \subseteq 1 .. asked, delivered' \subseteq answered'
  PROVE  IInv'
PROOF
<1>1. (\A t : Mine(t)' = Mine(t) /\ Near(t)' = Near(t)) /\ Made' /\ Apart'
  BY SameNear DEF IInv
<1>2. TypeOK' /\ Referred'
  BY DEF IInv, TypeOK, Referred
<1>3. QED
  BY <1>1, <1>2 DEF IInv, Waiting, Kept, Said, InOrder

THEOREM NextPreserves == IInv /\ [Next]_vars => IInv'
PROOF
<1> SUFFICES ASSUME IInv, [Next]_vars PROVE IInv'
  OBVIOUS
<1>1. ASSUME Next PROVE IInv'
  <2>1. fate = "runs"
    BY <1>1 DEF Next
  <2>2. ASSUME NEW s \in Sessions, NEW kind \in Kinds, Receive(s, kind) PROVE IInv'
    BY <2>2, ReceiveKeeps
  <2>3. ASSUME NEW s \in Sessions, Accept(s) \/ Erase(s) PROVE IInv'
    BY <2>3, AcceptKeeps, EraseKeeps
  <2>4. ASSUME NEW s \in Sessions,
               Hello(s) \/ User1(s) \/ User2(s) \/ Task(s) \/ NotFound(s)
        PROVE  IInv'
    BY <2>1, <2>4, HelloKeeps, User1Keeps, User2Keeps, TaskKeeps, NotFoundKeeps
  <2>5. CASE RunPost
    BY <2>1, <2>5, RunPostKeeps
  <2>6. ASSUME NEW q \in Ids, DbAnswer(q) PROVE IInv'
    <3>1. /\ UNCHANGED <<open, place, packets, inbox, parsed, resp, sent, posts, asker, fate>>
          /\ asked' = asked /\ answered' = answered \union {q} /\ q \in 1 .. asked
          /\ delivered' = delivered
      BY <2>6 DEF DbAnswer, Db!Answer
    <3>2. answered' \subseteq 1 .. asked /\ delivered' \subseteq answered'
      BY <3>1 DEF IInv, TypeOK
    <3>3. QED
      BY <3>1, <3>2, ExchangeUntouched
  <2>7. ASSUME NEW q \in Ids, Callback(q) PROVE IInv'
    BY <2>1, <2>7, CallbackKeeps
  <2>8. ASSUME NEW s \in Sessions, NEW route \in Routes, HandlerThrows(s, route) PROVE IInv'
    BY <2>1, <2>8, HandlerThrowsKeeps
  <2>9. QED
    BY <1>1, <2>2, <2>3, <2>4, <2>5, <2>6, <2>7, <2>8 DEF Next
<1>2. CASE UNCHANGED vars
  <2>1. answered' \subseteq 1 .. asked /\ delivered' \subseteq answered'
    BY <1>2 DEF vars, dbVars, IInv, TypeOK
  <2>2. QED
    BY <1>2, <2>1, ExchangeUntouched DEF vars, dbVars
<1>3. QED
  BY <1>1, <1>2

THEOREM Invariance == Spec => []IInv
  BY InitEstablishes, NextPreserves, PTL DEF Spec

(* The types, and that a session that is gone has no queue.                  *)
THEOREM TypeCorrect == Spec => []TypeOK
<1>1. IInv => TypeOK
  BY DEF IInv
<1>2. QED
  BY <1>1, Invariance, PTL

(* Each packet of an open session is answered once, in the order they came:  *)
(* CoReadHandler takes one, and what it calls sends once.                    *)
LEMMA OrderSuffices == IInv => AnswersInOrder
PROOF
<1> SUFFICES ASSUME IInv, fate = "runs", NEW s \in open
             PROVE  LET ids == [i \in 1 .. Len(sent[s]) |-> sent[s][i].for] \o inbox[s]
                    IN  /\ {ids[i]: i \in 1 .. Len(ids)} = {id \in 1 .. Len(packets): Home(id) = s}
                        /\ \A i, j \in 1 .. Len(ids): i < j => ids[i] < ids[j]
  BY DEF AnswersInOrder
<1> DEFINE out == sent[s]
           in  == inbox[s]
           done == [i \in 1 .. Len(out) |-> out[i].for]
           ids == done \o in
<1>1. /\ s \in Sessions /\ in \in Seq(Ids) /\ out \in Seq(Answers)
      /\ Ordered(out, in, Mine(s)) /\ Mine(s) \in SUBSET Ids
      /\ \A i \in 1 .. Len(in) : in[i] \in Mine(s)
      /\ \A i \in 1 .. Len(out) : out[i].for \in Mine(s)
  BY Typed DEF IInv, InOrder, Waiting, Said, Told
<1>2. Len(out) \in Nat /\ Len(in) \in Nat
  BY <1>1, LenProperties
<1>3. done \in Seq(Ids) /\ Len(done) = Len(out)
  <2>1. \A i \in 1 .. Len(out) : out[i].for \in Ids
    BY <1>1
  <2>2. QED
    BY <1>2, <2>1
<1>4. \A i \in 1 .. Len(out) : done[i] = out[i].for
  OBVIOUS
<1> HIDE DEF done, out, in
<1>5. /\ Len(ids) = Len(out) + Len(in)
      /\ \A i \in 1 .. Len(out) : i \in 1 .. Len(ids) /\ ids[i] = out[i].for
      /\ \A i \in 1 .. Len(in) : i + Len(out) \in 1 .. Len(ids) /\ ids[i + Len(out)] = in[i]
      /\ \A i \in 1 .. Len(ids) :
           \/ i <= Len(out) /\ i \in 1 .. Len(out) /\ ids[i] = out[i].for
           \/ i > Len(out) /\ i - Len(out) \in 1 .. Len(in) /\ ids[i] = in[i - Len(out)]
  BY <1>1, <1>2, <1>3, <1>4, ConcatProperties
<1> HIDE DEF ids
<1>6. {ids[i] : i \in 1 .. Len(ids)} = Mine(s)
  <2>1. \A i \in 1 .. Len(ids) : ids[i] \in Mine(s)
    BY <1>1, <1>5
  <2>2. ASSUME NEW id \in Mine(s) PROVE \E i \in 1 .. Len(ids) : ids[i] = id
    <3>1. CASE \E i \in 1 .. Len(out) : out[i].for = id
      BY <1>5, <3>1
    <3>2. CASE \E i \in 1 .. Len(in) : in[i] = id
      BY <1>5, <3>2
    <3>3. QED
      BY <1>1, <3>1, <3>2 DEF Ordered
  <2>3. QED
    BY <2>1, <2>2
<1>7. ASSUME NEW i \in 1 .. Len(ids), NEW j \in 1 .. Len(ids), i < j
      PROVE  ids[i] < ids[j]
  <2>1. CASE i \in 1 .. Len(out) /\ j \in 1 .. Len(out)
    BY <1>1, <1>5, <1>7, <2>1 DEF Ordered
  <2>2. CASE i \in 1 .. Len(out) /\ j - Len(out) \in 1 .. Len(in) /\ ids[j] = in[j - Len(out)]
    BY <1>1, <1>5, <2>2 DEF Ordered
  <2>3. CASE /\ i - Len(out) \in 1 .. Len(in) /\ j - Len(out) \in 1 .. Len(in)
             /\ ids[i] = in[i - Len(out)] /\ ids[j] = in[j - Len(out)]
    <3>1. i - Len(out) < j - Len(out)
      BY <1>2, <1>7
    <3>2. QED
      BY <1>1, <2>3, <3>1 DEF Ordered
  <2>4. QED
    BY <1>2, <1>5, <1>7, <2>1, <2>2, <2>3
<1>8. QED
  BY <1>6, <1>7 DEF ids, done, out, in, Mine

THEOREM AnsweredInOrder == Spec => []AnswersInOrder
  BY OrderSuffices, Invariance, PTL

(* What was made for a session's request gets to another only when the first *)
(* was erased and the other is where it was: a callback or a task that finds *)
(* its own session there writes to no other, as no two are in one place.     *)
THEOREM ForeignByReuseOnly == Spec => []ForeignOnlyByReuse
<1>1. ASSUME IInv PROVE ForeignOnlyByReuse
  <2> SUFFICES ASSUME NEW s \in Sessions, NEW body \in Contents(s), NEW j \in 1 .. Len(body)
               PROVE  body[j].by \in Near(s)
    BY DEF ForeignOnlyByReuse, Near
  <2>1. CASE body = resp[s].content
    BY <1>1, <2>1 DEF IInv, Kept, Good, Of
  <2>2. CASE \E i \in 1 .. Len(sent[s]) : \E p \in 1 .. Len(sent[s][i].payload) :
               body = sent[s][i].payload[p].body
    BY <1>1, <2>2 DEF IInv, Said, Told, Of
  <2>3. QED
    BY <2>1, <2>2 DEF Contents
<1>2. QED
  BY <1>1, Invariance, PTL

(* Whatever callbacks and tasks wrote before, the last part of an answer that*)
(* is given at once is the handler's content, or ends with its error's page. *)
THEOREM AtOnceTruth == Spec => []AtOnceTells
<1>1. ASSUME IInv PROVE AtOnceTells
  <2>1. \A s \in Sessions : \A i \in 1 .. Len(sent[s]) : Truthful(sent[s][i])
    BY <1>1 DEF IInv, Said, Told
  <2>2. QED
    BY <2>1 DEF Truthful, AtOnceTells
<1>2. QED
  BY <1>1, Invariance, PTL

(* The length is taken of the body that follows it, error page included.     *)
THEOREM TrueLength == Spec => []LengthIsOfBody
<1>1. IInv => LengthIsOfBody
  BY DEF IInv, Kept, Good, LengthIsOfBody
<1>2. QED
  BY <1>1, Invariance, PTL
===============================================================================
