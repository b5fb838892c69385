----------------------------- MODULE QueryService -----------------------------
(* What the asynchronous database interface promises: a query that was asked *)
(* is answered by the database, and its callback is called once, later.      *)
EXTENDS Naturals

CONSTANT MaxQueries

VARIABLES
  asked,      \* how many queries were asked
  answered,   \* those the database has answered
  delivered   \* those whose callback was called

vars == <<asked, answered, delivered>>

Init == asked = 0 /\ answered = {} /\ delivered = {}

Ask ==
  /\ asked < MaxQueries
  /\ asked' = asked + 1
  /\ UNCHANGED <<answered, delivered>>

Answer(q) ==
  /\ q \in 1 .. asked \ answered
  /\ answered' = answered \union {q}
  /\ UNCHANGED <<asked, delivered>>

Deliver(q) ==
  /\ q \in answered \ delivered
  /\ delivered' = delivered \union {q}
  /\ UNCHANGED <<asked, answered>>

Next == Ask \/ \E q \in 1 .. MaxQueries: Answer(q) \/ Deliver(q)

Spec ==
  /\ Init /\ [][Next]_vars
  /\ \A q \in 1 .. MaxQueries: WF_vars(Answer(q)) /\ WF_vars(Deliver(q))
=============================================================================
