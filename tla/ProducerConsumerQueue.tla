------------------------- MODULE ProducerConsumerQueue -------------------------
(* ProducerConsumerQueue<T> (Common/Util/ProducerConsumerQueue.hpp): a queue *)
(* under a mutex, with a condition variable to sleep on.  Every member       *)
(* function is one step, for it holds the mutex throughout, except that      *)
(* WaitAndPop gives the mutex up while it sleeps.  T is a pointer, so that   *)
(* Clear deletes what it drops.                                              *)
EXTENDS Naturals, Sequences, FiniteSets

CONSTANTS
  Thread,      \* the threads that call WaitAndPop; any thread does the rest
  Overload,    \* the overloads of WaitAndPop they call: "value", "reference"
  MaxPushes    \* bound on the calls of Push

ASSUME ThreadAssumption == IsFiniteSet(Thread)
ASSUME OverloadAssumption == Overload \subseteq {"value", "reference"}
ASSUME PushesAssumption == MaxPushes \in Nat

VARIABLES
  queue,       \* _queue; the values are numbered in the order of their pushes
  shutdown,    \* _shutdown
  overload,    \* the overload of WaitAndPop that each thread calls
  inWait,      \* the threads inside WaitAndPop
  asleep,      \* those of them asleep on _condition
  pushed,      \* how many values were pushed
  taken,       \* the values handed to callers, in that order
  deleted      \* the values Clear has deleted

vars == <<queue, shutdown, overload, inWait, asleep, pushed, taken, deleted>>

Woken == inWait \ asleep

Init ==
  /\ queue = <<>> /\ shutdown = FALSE
  /\ overload \in [Thread -> Overload]
  /\ inWait = {} /\ asleep = {}
  /\ pushed = 0 /\ taken = <<>> /\ deleted = {}

-----------------------------------------------------------------------------
(* Mutant: the sleepers are told only when the queue was empty. *)
NotifyFirst ==
  \/ (asleep = {} \/ queue # <<>>) /\ asleep' = asleep
  \/ queue = <<>> /\ \E t \in asleep: asleep' = asleep \ {t}

NotifyOne ==
  \/ asleep = {} /\ asleep' = {}
  \/ \E t \in asleep: asleep' = asleep \ {t}

Push ==
  /\ pushed < MaxPushes
  /\ pushed' = pushed + 1
  /\ queue' = Append(queue, pushed + 1)
  /\ NotifyOne
  /\ UNCHANGED <<shutdown, overload, inWait, taken, deleted>>

(* Mutant: the front is handed out and stays. *)
LeaveFront ==
  IF queue = <<>> \/ shutdown
  THEN UNCHANGED <<queue, taken>>
  ELSE taken' = Append(taken, Head(queue)) /\ queue' = queue

(* Mutant: the queue does not look whether it was shut down. *)
TakeAnyway ==
  IF queue = <<>>
  THEN UNCHANGED <<queue, taken>>
  ELSE taken' = Append(taken, Head(queue)) /\ queue' = Tail(queue)

(* What Pop and both forms of WaitAndPop end with. *)
TakeFront ==
  IF queue = <<>> \/ shutdown
  THEN UNCHANGED <<queue, taken>>
  ELSE taken' = Append(taken, Head(queue)) /\ queue' = Tail(queue)

Pop ==
  /\ TakeFront
  /\ UNCHANGED <<shutdown, overload, inWait, asleep, pushed, deleted>>

(* The predicates the two overloads wait for. *)
Satisfied(t) ==
  \/ overload[t] = "value" /\ queue # <<>> /\ ~shutdown
  \/ overload[t] = "reference" /\ queue = <<>> /\ ~shutdown

(* WaitAndPop finds its predicate true, takes and returns. *)
Return(t) ==
  /\ Satisfied(t) /\ TakeFront
  /\ inWait' = inWait \ {t}
  /\ UNCHANGED <<shutdown, overload, asleep, pushed, deleted>>

(* WaitAndPop finds it false and sleeps. *)
Sleep(t) ==
  /\ ~Satisfied(t)
  /\ inWait' = inWait \union {t} /\ asleep' = asleep \union {t}
  /\ UNCHANGED <<queue, shutdown, overload, pushed, taken, deleted>>

WaitAndPop(t) == t \notin inWait /\ (Return(t) \/ Sleep(t))

(* Mutant: a sleeper goes on without having been woken. *)
ResumeAsleep(t) == t \in inWait /\ (Return(t) \/ Sleep(t))

(* A woken thread has the mutex again and looks again. *)
Resume(t) == t \in Woken /\ (Return(t) \/ Sleep(t))

(* A condition variable may wake without a notification. *)
WakeSpuriously(t) ==
  /\ t \in asleep /\ asleep' = asleep \ {t}
  /\ UNCHANGED <<queue, shutdown, overload, inWait, pushed, taken, deleted>>

(* Mutant: what is dropped is deleted, and what was handed out last too. *)
ClearTaken ==
  /\ deleted' = deleted \union {queue[i]: i \in 1 .. Len(queue)}
                        \union {taken[i]: i \in 1 .. Len(taken)}
  /\ queue' = <<>> /\ shutdown' = TRUE /\ asleep' = {}
  /\ UNCHANGED <<overload, inWait, pushed, taken>>

Clear ==
  /\ deleted' = deleted \union {queue[i]: i \in 1 .. Len(queue)}
  /\ queue' = <<>> /\ shutdown' = TRUE /\ asleep' = {}
  /\ UNCHANGED <<overload, inWait, pushed, taken>>

Next ==
  \/ Push \/ Pop \/ Clear
  \/ \E t \in Thread: WaitAndPop(t) \/ Resume(t) \/ WakeSpuriously(t)

Spec == Init /\ [][Next]_vars

(* A woken thread gets the mutex sooner or later. *)
FairSpec == Spec /\ \A t \in Thread: WF_vars(Resume(t))

-----------------------------------------------------------------------------
TypeOK ==
  /\ queue \in Seq(1 .. pushed) /\ shutdown \in BOOLEAN
  /\ overload \in [Thread -> Overload]
  /\ inWait \subseteq Thread /\ asleep \subseteq inWait
  /\ pushed \in 0 .. MaxPushes
  /\ taken \in Seq(1 .. pushed) /\ deleted \subseteq 1 .. pushed

(* Until Clear, what callers took followed by what is queued is all that was *)
(* pushed, in that order: nothing is lost, doubled or overtaken.             *)
Numbered(n) == [i \in 1 .. n |-> i]
FirstInFirstOut == ~shutdown => taken \o queue = Numbered(pushed)

(* A pointer has one owner: a caller that took it, or the queue, or nobody   *)
(* since Clear deleted it.  Clear never deletes what a caller holds, and no  *)
(* caller gets what is deleted.                                              *)
Elements(s) == {s[i]: i \in 1 .. Len(s)}
OneOwner ==
  /\ Elements(taken) \intersect deleted = {}
  /\ Elements(taken) \intersect Elements(queue) = {}
  /\ Elements(queue) \intersect deleted = {}

(* Clear is final: no Pop and no WaitAndPop, entered before it or after it,  *)
(* hands anything out any more, whatever is still pushed.                    *)
NothingAfterClear == [][shutdown => taken' = taken]_vars

(* No wake-up is lost while every thread calls the WaitAndPop that returns   *)
(* the value: when a thread sleeps, there is a woken one for every value in  *)
(* the queue, though Push notifies one sleeper at a time and Pop may come    *)
(* between the notification and the woken thread.                            *)
NoSleeperForgotten ==
  (\A t \in Thread: overload[t] = "value") =>
     (asleep # {} /\ ~shutdown => Len(queue) <= Cardinality(Woken))

(* The loop that the wait of WaitAndPop replaces sleeps only while the queue *)
(* is empty "&& !_shutdown" (ProducerConsumerQueue.hpp:108), and Clear tells *)
(* everybody: a thread in WaitAndPop leaves it after the shutdown.           *)
ClearReleasesWaiters ==
  \A t \in Thread: (t \in inWait /\ shutdown) ~> (t \notin inWait)
=============================================================================
