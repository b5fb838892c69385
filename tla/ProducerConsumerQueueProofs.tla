---------------------- MODULE ProducerConsumerQueueProofs ----------------------
(* What MCProducerConsumerQueue checks for three threads and four pushes,    *)
(* for any number of them.                                                   *)
EXTENDS ProducerConsumerQueue, SequenceTheorems, FiniteSetTheorems, TLAPS

(* FirstInFirstOut value by value, and nothing deleted before Clear.         *)
Flow ==
  ~shutdown => /\ deleted = {}
               /\ pushed = Len(taken) + Len(queue)
               /\ \A i \in 1 .. Len(taken): taken[i] = i
               /\ \A i \in 1 .. Len(queue): queue[i] = Len(taken) + i

IInv == TypeOK /\ Flow /\ OneOwner /\ NoSleeperForgotten

USE ThreadAssumption, OverloadAssumption, PushesAssumption

(* Taking the first value of a queue.                                        *)
LEMMA QueuePop ==
  ASSUME NEW S, NEW q \in Seq(S), q # <<>>
  PROVE  /\ Len(q) \in Nat /\ Len(q) > 0
         /\ Head(q) \in S /\ Head(q) = q[1]
         /\ Tail(q) \in Seq(S) /\ Len(Tail(q)) = Len(q) - 1
         /\ \A i \in 1 .. Len(q) - 1: Tail(q)[i] = q[i + 1]
PROOF
<1>1. Len(q) \in Nat /\ Len(q) > 0
  BY EmptySeq, LenProperties
<1>2. QED
  BY <1>1, HeadTailProperties

(* Adding a value to a queue.                                                *)
LEMMA QueuePush ==
  ASSUME NEW S, NEW q \in Seq(S), NEW e \in S
  PROVE  /\ Len(q) \in Nat
         /\ Append(q, e) \in Seq(S) /\ Len(Append(q, e)) = Len(q) + 1
         /\ \A i \in 1 .. Len(q): Append(q, e)[i] = q[i]
         /\ Append(q, e)[Len(q) + 1] = e
  BY AppendProperties, LenProperties

(* A sequence over a set is one over any larger set.                         *)
LEMMA SeqWidened ==
  ASSUME NEW S, NEW T, S \subseteq T, NEW q \in Seq(S)
  PROVE  q \in Seq(T)
PROOF
<1>1. Len(q) \in Nat /\ q = [i \in 1 .. Len(q) |-> q[i]]
  BY LenProperties
<1>2. \A i \in 1 .. Len(q): q[i] \in T
  BY ElementOfSeq
<1>3. q \in [1 .. Len(q) -> T]
  BY <1>1, <1>2
<1>4. QED
  BY <1>1, <1>3, SeqDef

(* The elements of a queue to which a value is added.                        *)
LEMMA ElementsPush ==
  ASSUME NEW S, NEW q \in Seq(S), NEW e \in S
  PROVE  Elements(Append(q, e)) = Elements(q) \union {e}
PROOF
<1>1. /\ Len(q) \in Nat /\ Len(Append(q, e)) = Len(q) + 1
      /\ \A i \in 1 .. Len(q): Append(q, e)[i] = q[i]
      /\ Append(q, e)[Len(q) + 1] = e
  BY QueuePush
<1>2. ASSUME NEW i \in 1 .. Len(q) + 1
      PROVE  i \in 1 .. Len(q) \/ i = Len(q) + 1
  BY <1>1
<1>3. \A i \in 1 .. Len(q): i \in 1 .. Len(q) + 1
  BY <1>1
<1>4. Len(q) + 1 \in 1 .. Len(q) + 1
  BY <1>1
<1>5. ASSUME NEW x \in Elements(Append(q, e)) PROVE x \in Elements(q) \union {e}
  <2>1. PICK i \in 1 .. Len(q) + 1: x = Append(q, e)[i]
    BY <1>1, <1>5 DEF Elements
  <2>2. CASE i = Len(q) + 1
    BY <1>1, <2>1, <2>2
  <2>3. CASE i \in 1 .. Len(q)
    BY <1>1, <2>1, <2>3 DEF Elements
  <2>4. QED
    BY <1>2, <2>2, <2>3
<1>6. ASSUME NEW x \in Elements(q) \union {e} PROVE x \in Elements(Append(q, e))
  <2>1. CASE x = e
    BY <1>1, <1>4, <2>1 DEF Elements
  <2>2. CASE x \in Elements(q)
    <3>1. PICK i \in 1 .. Len(q): x = q[i]
      BY <2>2 DEF Elements
    <3>2. x = Append(q, e)[i] /\ i \in 1 .. Len(Append(q, e))
      BY <1>1, <1>3, <3>1
    <3>3. QED
      BY <3>2 DEF Elements
  <2>3. QED
    BY <1>6, <2>1, <2>2
<1>7. QED
  BY <1>5, <1>6

(* The elements of a sequence are among what it is a sequence of.            *)
LEMMA ElementsWithin ==
  ASSUME NEW S, NEW q \in Seq(S)
  PROVE  Elements(q) \subseteq S
  BY ElementOfSeq DEF Elements

(* The initial states satisfy the invariant.                                 *)
LEMMA InitInv == Init => IInv
PROOF
<1> SUFFICES ASSUME Init PROVE IInv
  OBVIOUS
<1>1. <<>> \in Seq(1 .. 0) /\ Len(<<>>) = 0
  BY EmptySeq
<1>2. TypeOK
  <2>1. 0 \in 0 .. MaxPushes
    OBVIOUS
  <2>2. QED
    BY <1>1, <2>1 DEF Init, TypeOK
<1>3. Flow
  BY <1>1 DEF Init, Flow
<1>4. Elements(<<>>) = {}
  BY <1>1 DEF Elements
<1>5. OneOwner
  BY <1>4 DEF Init, OneOwner
<1>6. NoSleeperForgotten
  BY DEF Init, NoSleeperForgotten
<1>7. QED
  BY <1>2, <1>3, <1>5, <1>6 DEF IInv

(* What taking the front does, for whoever takes it.                         *)
LEMMA FrontTaken ==
  ASSUME IInv, TakeFront, pushed' = pushed, shutdown' = shutdown, deleted' = deleted
  PROVE  /\ queue' \in Seq(1 .. pushed) /\ taken' \in Seq(1 .. pushed)
         /\ Flow' /\ OneOwner'
         /\ Len(queue) \in Nat /\ Len(queue') \in Nat /\ Len(queue') <= Len(queue)
         /\ queue # <<>> /\ ~shutdown => Len(queue') = Len(queue) - 1
PROOF
<1>a. /\ queue \in Seq(1 .. pushed) /\ taken \in Seq(1 .. pushed)
      /\ pushed \in Nat /\ Len(queue) \in Nat /\ Len(taken) \in Nat
  BY LenProperties DEF IInv, TypeOK
<1>1. CASE queue = <<>> \/ shutdown
  <2>1. queue' = queue /\ taken' = taken
    BY <1>1 DEF TakeFront
  <2>2. Flow'
    BY <2>1 DEF IInv, Flow
  <2>3. OneOwner'
    BY <2>1 DEF IInv, OneOwner
  <2>4. QED
    BY <1>a, <1>1, <2>1, <2>2, <2>3
<1>2. CASE queue # <<>> /\ ~shutdown
  <2> DEFINE e == Head(queue)
             rest == Tail(queue)
  <2>1. taken' = Append(taken, e) /\ queue' = rest
    BY <1>2 DEF TakeFront
  <2>2. /\ Len(queue) > 0
        /\ e \in 1 .. pushed /\ e = queue[1]
        /\ rest \in Seq(1 .. pushed) /\ Len(rest) = Len(queue) - 1
        /\ \A i \in 1 .. Len(queue) - 1: rest[i] = queue[i + 1]
    BY <1>a, <1>2, QueuePop
  <2>3. /\ Append(taken, e) \in Seq(1 .. pushed)
        /\ Len(Append(taken, e)) = Len(taken) + 1
        /\ \A i \in 1 .. Len(taken): Append(taken, e)[i] = taken[i]
        /\ Append(taken, e)[Len(taken) + 1] = e
    BY <1>a, <2>2, QueuePush
  <2>4. /\ deleted = {} /\ pushed = Len(taken) + Len(queue)
        /\ \A i \in 1 .. Len(taken): taken[i] = i
        /\ \A i \in 1 .. Len(queue): queue[i] = Len(taken) + i
    BY <1>2 DEF IInv, Flow
  <2>5. e = Len(taken) + 1
    <3>1. 1 \in 1 .. Len(queue)
      BY <1>a, <2>2
    <3>2. QED
      BY <2>2, <2>4, <3>1
  <2>6. Elements(Append(taken, e)) = Elements(taken) \union {e}
    BY <1>a, <2>2, ElementsPush
  <2> HIDE DEF e, rest
  <2>7. \A i \in 1 .. Len(rest): rest[i] = Len(taken) + 1 + i
    <3> TAKE i \in 1 .. Len(rest)
    <3>1. i \in 1 .. Len(queue) - 1 /\ i + 1 \in 1 .. Len(queue)
      BY <1>a, <2>2
    <3>2. rest[i] = queue[i + 1] /\ queue[i + 1] = Len(taken) + (i + 1)
      BY <2>2, <2>4, <3>1
    <3>3. QED
      BY <1>a, <3>1, <3>2
  <2>8. Flow'
    <3>1. \A i \in 1 .. Len(taken) + 1: i \in 1 .. Len(taken) \/ i = Len(taken) + 1
      BY <1>a
    <3>2. \A i \in 1 .. Len(Append(taken, e)): Append(taken, e)[i] = i
      BY <2>3, <2>4, <2>5, <3>1
    <3>3. pushed = Len(Append(taken, e)) + Len(rest)
      BY <1>a, <2>2, <2>3, <2>4
    <3>4. \A i \in 1 .. Len(rest): rest[i] = Len(Append(taken, e)) + i
      BY <2>3, <2>7
    <3>5. QED
      BY <2>1, <2>4, <3>2, <3>3, <3>4 DEF Flow
  <2>9. OneOwner'
    <3>1. e \notin Elements(rest)
      BY <1>a, <2>2, <2>5, <2>7 DEF Elements
    <3>2. Elements(rest) \subseteq Elements(queue)
      <4>1. \A i \in 1 .. Len(rest): rest[i] = queue[i + 1] /\ i + 1 \in 1 .. Len(queue)
        BY <1>a, <2>2
      <4>2. QED
        BY <4>1 DEF Elements
    <3>3. Elements(taken) \intersect Elements(queue) = {}
      BY DEF IInv, OneOwner
    <3>4. QED
      BY <2>1, <2>4, <2>6, <3>1, <3>2, <3>3 DEF OneOwner
  <2>10. QED
    BY <1>a, <1>2, <2>1, <2>2, <2>3, <2>8, <2>9
<1>3. QED
  BY <1>1, <1>2

(* Push: the new value is last, and newer than all.                          *)
LEMMA PushStep == ASSUME IInv, Push PROVE TypeOK' /\ Flow' /\ OneOwner'
PROOF
<1>a. /\ queue \in Seq(1 .. pushed) /\ taken \in Seq(1 .. pushed)
      /\ pushed \in Nat /\ Len(queue) \in Nat /\ Len(taken) \in Nat
      /\ deleted \subseteq 1 .. pushed
  BY LenProperties DEF IInv, TypeOK
<1> DEFINE e == pushed + 1
<1>b. 1 .. pushed \subseteq 1 .. e /\ e \in 1 .. e /\ e \notin 1 .. pushed
  BY <1>a
<1>c. queue \in Seq(1 .. e) /\ taken \in Seq(1 .. e)
  <2> HIDE DEF e
  <2>1. QED
    BY <1>a, <1>b, SeqWidened
<1>d. pushed' = e /\ queue' = Append(queue, e)
  BY DEF Push
<1>e. shutdown' = shutdown /\ taken' = taken /\ deleted' = deleted
  BY DEF Push
<1>1. TypeOK'
  <2>1. queue' \in Seq(1 .. e)
    <3> HIDE DEF e
    <3>1. QED
      BY <1>b, <1>c, <1>d, QueuePush
  <2>2. pushed' \in 0 .. MaxPushes
    BY <1>a DEF Push
  <2>3. deleted' \subseteq 1 .. e
    BY <1>a, <1>b, <1>e
  <2>4. asleep' \subseteq asleep /\ inWait' = inWait /\ overload' = overload
    BY DEF Push, NotifyOne
  <2> HIDE DEF e
  <2>5. QED
    BY <1>c, <1>d, <1>e, <2>1, <2>2, <2>3, <2>4 DEF IInv, TypeOK
<1>2. /\ Len(queue') = Len(queue) + 1
      /\ \A i \in 1 .. Len(queue): queue'[i] = queue[i]
      /\ queue'[Len(queue) + 1] = e
      /\ Elements(queue') = Elements(queue) \union {e}
  <2>1. queue \in Seq(1 .. e) /\ e \in 1 .. e /\ queue' = Append(queue, e)
    BY <1>b, <1>c, <1>d
  <2>2. Elements(queue') = Elements(queue) \union {e}
    <3> HIDE DEF e
    <3>1. Elements(Append(queue, e)) = Elements(queue) \union {e}
      BY <2>1, ElementsPush
    <3>2. QED
      BY <2>1, <3>1
  <2>3. /\ Len(queue') = Len(queue) + 1 /\ queue'[Len(queue) + 1] = e
        /\ \A i \in 1 .. Len(queue): queue'[i] = queue[i]
    <3> HIDE DEF e
    <3>1. QED
      BY <2>1, QueuePush
  <2>4. QED
    BY <2>2, <2>3
<1>3. Flow'
  <2> SUFFICES ASSUME ~shutdown'
               PROVE  /\ deleted' = {} /\ pushed' = Len(taken') + Len(queue')
                      /\ \A i \in 1 .. Len(taken'): taken'[i] = i
                      /\ \A i \in 1 .. Len(queue'): queue'[i] = Len(taken') + i
    BY DEF Flow
  <2>1. /\ deleted = {} /\ pushed = Len(taken) + Len(queue)
        /\ \A i \in 1 .. Len(taken): taken[i] = i
        /\ \A i \in 1 .. Len(queue): queue[i] = Len(taken) + i
    BY <1>e DEF IInv, Flow
  <2>2. pushed' = Len(taken') + Len(queue')
    BY <1>a, <1>d, <1>e, <1>2, <2>1
  <2>3. \A i \in 1 .. Len(queue) + 1: queue'[i] = Len(taken) + i
    <3> TAKE i \in 1 .. Len(queue) + 1
    <3>1. CASE i = Len(queue) + 1
      <4>1. queue'[i] = pushed + 1 /\ pushed + 1 = Len(taken) + i
        BY <1>a, <1>2, <2>1, <3>1
      <4>2. QED
        BY <4>1
    <3>2. CASE i \in 1 .. Len(queue)
      BY <1>2, <2>1, <3>2
    <3>3. QED
      BY <1>a, <3>1, <3>2
  <2>4. QED
    BY <1>e, <1>2, <2>1, <2>2, <2>3
<1>4. OneOwner'
  <2>1. Elements(taken) \subseteq 1 .. pushed
    BY <1>a, ElementsWithin
  <2>2. e \notin Elements(taken) /\ e \notin deleted
    BY <1>a, <1>b, <2>1
  <2> HIDE DEF e
  <2>3. QED
    BY <1>e, <1>2, <2>2 DEF IInv, OneOwner
<1>5. QED
  BY <1>1, <1>3, <1>4

(* Clear: what was queued is deleted, what was taken is not.                 *)
LEMMA ClearStep == ASSUME IInv, Clear PROVE TypeOK' /\ Flow' /\ OneOwner'
PROOF
<1>1. deleted' = deleted \union Elements(queue)
  BY DEF Clear, Elements
<1>2. Elements(queue) \subseteq 1 .. pushed
  BY ElementsWithin DEF IInv, TypeOK
<1>3. queue' = <<>> /\ <<>> \in Seq(1 .. pushed) /\ Elements(<<>>) = {}
  BY EmptySeq DEF Clear, Elements
<1>4. TypeOK'
  BY <1>1, <1>2, <1>3 DEF IInv, TypeOK, Clear
<1>5. Flow'
  BY DEF Flow, Clear
<1>6. OneOwner'
  BY <1>1, <1>3 DEF IInv, OneOwner, Clear
<1>7. QED
  BY <1>4, <1>5, <1>6

(* What neither changes the values nor the flag keeps the rest.              *)
LEMMA ValuesKept ==
  ASSUME IInv, UNCHANGED <<queue, shutdown, overload, pushed, taken, deleted>>
  PROVE  Flow' /\ OneOwner'
  BY DEF IInv, Flow, OneOwner

(* Every step keeps the types, the order and the owners.                     *)
LEMMA ValuesStep ==
  ASSUME IInv, [Next]_vars
  PROVE  TypeOK' /\ Flow' /\ OneOwner'
PROOF
<1>1. CASE Push
  BY <1>1, PushStep
<1>2. CASE Pop
  <2>1. queue' \in Seq(1 .. pushed) /\ taken' \in Seq(1 .. pushed) /\ Flow' /\ OneOwner'
    BY <1>2, FrontTaken DEF Pop
  <2>2. TypeOK'
    BY <1>2, <2>1 DEF IInv, TypeOK, Pop
  <2>3. QED
    BY <2>1, <2>2
<1>3. CASE Clear
  BY <1>3, ClearStep
<1>4. ASSUME NEW t \in Thread, Return(t), t \notin asleep PROVE TypeOK' /\ Flow' /\ OneOwner'
  <2>1. queue' \in Seq(1 .. pushed) /\ taken' \in Seq(1 .. pushed) /\ Flow' /\ OneOwner'
    BY <1>4, FrontTaken DEF Return
  <2>2. TypeOK'
    BY <1>4, <2>1 DEF IInv, TypeOK, Return
  <2>3. QED
    BY <2>1, <2>2
<1>5. ASSUME NEW t \in Thread, Sleep(t) PROVE TypeOK' /\ Flow' /\ OneOwner'
  <2>1. TypeOK'
    BY <1>5 DEF IInv, TypeOK, Sleep
  <2>2. QED
    BY <1>5, <2>1, ValuesKept DEF Sleep
<1>6. ASSUME NEW t \in Thread, WakeSpuriously(t) PROVE TypeOK' /\ Flow' /\ OneOwner'
  <2>1. TypeOK'
    BY <1>6 DEF IInv, TypeOK, WakeSpuriously
  <2>2. QED
    BY <1>6, <2>1, ValuesKept DEF WakeSpuriously
<1>7. CASE UNCHANGED vars
  <2>1. TypeOK'
    BY <1>7 DEF IInv, TypeOK, vars
  <2>2. QED
    BY <1>7, <2>1, ValuesKept DEF vars
<1>8. ASSUME NEW t \in Thread, WaitAndPop(t) \/ Resume(t)
      PROVE  TypeOK' /\ Flow' /\ OneOwner'
  BY <1>4, <1>5, <1>8 DEF WaitAndPop, Resume, Woken, IInv, TypeOK
<1>9. QED
  BY <1>1, <1>2, <1>3, <1>6, <1>7, <1>8 DEF Next

(* No step forgets a sleeper.                                                *)
LEMMA SleepersStep ==
  ASSUME IInv, [Next]_vars
  PROVE  NoSleeperForgotten'
PROOF
<1> SUFFICES ASSUME \A t \in Thread: overload'[t] = "value", asleep' # {}, ~shutdown'
             PROVE  Len(queue') <= Cardinality(Woken')
  BY DEF NoSleeperForgotten, Woken
<1>a. /\ overload' = overload
      /\ \A t \in Thread: overload[t] = "value"
  BY DEF Next, Push, Pop, Clear, WaitAndPop, Resume, Return, Sleep, WakeSpuriously, vars
<1>b. /\ queue \in Seq(1 .. pushed) /\ Len(queue) \in Nat
      /\ inWait \subseteq Thread /\ asleep \subseteq inWait
      /\ IsFiniteSet(Woken) /\ Cardinality(Woken) \in Nat
  BY LenProperties, FS_Subset, FS_CardinalityType DEF IInv, TypeOK, Woken
<1>c. asleep # {} /\ ~shutdown => Len(queue) <= Cardinality(Woken)
  BY <1>a DEF IInv, NoSleeperForgotten
<1>d. ASSUME NEW t, t \notin Woken
      PROVE  Cardinality(Woken \union {t}) = Cardinality(Woken) + 1
  BY <1>b, <1>d, FS_AddElement
<1>e. ASSUME NEW t \in Woken
      PROVE  Cardinality(Woken \ {t}) = Cardinality(Woken) - 1
  BY <1>b, FS_RemoveElement
<1>f. <<>> \in Seq(1 .. pushed) /\ Len(<<>>) = 0
  BY EmptySeq
<1>1. CASE Push
  <2>1. shutdown' = shutdown /\ inWait' = inWait
    BY <1>1 DEF Push
  <2>2. PICK t \in asleep: asleep' = asleep \ {t}
    BY <1>1 DEF Push, NotifyOne
  <2>3. Woken' = Woken \union {t} /\ t \notin Woken
    BY <1>b, <2>1, <2>2 DEF Woken
  <2>4. Len(queue') = Len(queue) + 1
    <3>1. queue' = Append(queue, pushed + 1)
      BY <1>1 DEF Push
    <3>2. QED
      BY <1>b, <3>1, AppendProperties
  <2>5. QED
    BY <1>b, <1>c, <1>d, <2>1, <2>2, <2>3, <2>4
<1>2. CASE Pop
  <2>1. Len(queue') \in Nat /\ Len(queue') <= Len(queue)
    BY <1>2, FrontTaken DEF Pop
  <2>2. Woken' = Woken /\ asleep' = asleep /\ shutdown' = shutdown
    BY <1>2 DEF Pop, Woken
  <2>3. QED
    BY <1>b, <1>c, <2>1, <2>2
<1>3. CASE Clear
  BY <1>3 DEF Clear
<1>4. ASSUME NEW t \in Thread, Return(t), t \notin asleep
      PROVE  Len(queue') <= Cardinality(Woken')
  <2>1. queue # <<>> /\ ~shutdown
    BY <1>a, <1>4 DEF Return, Satisfied
  <2>2. Len(queue') \in Nat /\ Len(queue') = Len(queue) - 1
    BY <1>4, <2>1, FrontTaken DEF Return
  <2>3. asleep' = asleep /\ inWait' = inWait \ {t}
    BY <1>4 DEF Return
  <2>4. CASE t \in Woken
    <3>1. Woken' = Woken \ {t}
      BY <2>3 DEF Woken
    <3>2. QED
      BY <1>b, <1>c, <1>e, <2>1, <2>2, <2>3, <2>4, <3>1
  <2>5. CASE t \notin Woken
    <3>1. Woken' = Woken
      BY <1>4, <2>3, <2>5 DEF Woken
    <3>2. QED
      BY <1>b, <1>c, <2>1, <2>2, <2>3, <3>1
  <2>6. QED
    BY <2>4, <2>5
<1>5. ASSUME NEW t \in Thread, Sleep(t) PROVE Len(queue') <= Cardinality(Woken')
  <2>1. queue' = queue /\ shutdown' = shutdown
    BY <1>5 DEF Sleep
  <2>2. queue' = <<>>
    BY <1>a, <1>5, <2>1 DEF Sleep, Satisfied
  <2>3. IsFiniteSet(Woken')
    <3>1. Woken' \subseteq Thread
      BY <1>5, <1>b DEF Woken, Sleep
    <3>2. QED
      BY <3>1, FS_Subset
  <2>4. Cardinality(Woken') \in Nat
    BY <2>3, FS_CardinalityType
  <2>5. QED
    BY <1>f, <2>2, <2>4
<1>6. ASSUME NEW t \in Thread, WakeSpuriously(t) PROVE Len(queue') <= Cardinality(Woken')
  <2>1. /\ queue' = queue /\ shutdown' = shutdown /\ inWait' = inWait
        /\ t \in asleep /\ asleep' = asleep \ {t}
    BY <1>6 DEF WakeSpuriously
  <2>2. Woken' = Woken \union {t} /\ t \notin Woken
    BY <1>b, <2>1 DEF Woken
  <2>3. QED
    BY <1>b, <1>c, <1>d, <2>1, <2>2
<1>7. CASE UNCHANGED vars
  BY <1>7, <1>c DEF vars, Woken
<1>8. ASSUME NEW t \in Thread, WaitAndPop(t) \/ Resume(t)
      PROVE  Len(queue') <= Cardinality(Woken')
  BY <1>4, <1>5, <1>8, <1>b DEF WaitAndPop, Resume, Woken
<1>9. QED
  BY <1>1, <1>2, <1>3, <1>6, <1>7, <1>8 DEF Next

(* The invariant holds for any number of threads and of pushes.              *)
THEOREM Invariance == Spec => []IInv
PROOF
<1>1. IInv /\ [Next]_vars => IInv'
  BY ValuesStep, SleepersStep DEF IInv
<1>2. QED
  BY <1>1, InitInv, PTL DEF Spec

(* The types: in particular nobody sleeps outside WaitAndPop.                *)
THEOREM TypeCorrect == Spec => []TypeOK
PROOF
<1>1. IInv => TypeOK
  BY DEF IInv
<1>2. QED
  BY <1>1, Invariance, PTL

(* No wake-up is lost among callers of the value-returning WaitAndPop.       *)
THEOREM NoWakeUpLost == Spec => []NoSleeperForgotten
PROOF
<1>1. IInv => NoSleeperForgotten
  BY DEF IInv
<1>2. QED
  BY <1>1, Invariance, PTL

(* No pointer is deleted while a caller holds it, nor handed out when deleted. *)
THEOREM SingleOwner == Spec => []OneOwner
PROOF
<1>1. IInv => OneOwner
  BY DEF IInv
<1>2. QED
  BY <1>1, Invariance, PTL

(* Values leave in the order they entered, none lost before Clear.           *)
THEOREM Fifo == Spec => []FirstInFirstOut
PROOF
<1>1. IInv => FirstInFirstOut
  <2> SUFFICES ASSUME IInv, ~shutdown PROVE taken \o queue = Numbered(pushed)
    BY DEF FirstInFirstOut
  <2>1. /\ queue \in Seq(1 .. pushed) /\ taken \in Seq(1 .. pushed)
        /\ Len(queue) \in Nat /\ Len(taken) \in Nat
    BY LenProperties DEF IInv, TypeOK
  <2>2. /\ pushed = Len(taken) + Len(queue)
        /\ \A i \in 1 .. Len(taken): taken[i] = i
        /\ \A i \in 1 .. Len(queue): queue[i] = Len(taken) + i
    BY DEF IInv, Flow
  <2> DEFINE all == taken \o queue
  <2>3. /\ all \in Seq(1 .. pushed) /\ Len(all) = pushed
        /\ \A i \in 1 .. Len(taken) + Len(queue):
             all[i] = IF i <= Len(taken) THEN taken[i] ELSE queue[i - Len(taken)]
    BY <2>1, <2>2, ConcatProperties
  <2> HIDE DEF all
  <2>4. ASSUME NEW i \in 1 .. pushed PROVE all[i] = i
    <3>1. CASE i <= Len(taken)
      <4>1. i \in 1 .. Len(taken) /\ i \in 1 .. Len(taken) + Len(queue)
        BY <2>1, <2>2, <3>1
      <4>2. all[i] = taken[i]
        BY <2>3, <3>1, <4>1
      <4>3. QED
        BY <2>2, <4>1, <4>2
    <3>2. CASE ~(i <= Len(taken))
      <4>1. i - Len(taken) \in 1 .. Len(queue)
        BY <2>1, <2>2, <3>2
      <4>2. queue[i - Len(taken)] = Len(taken) + (i - Len(taken))
        BY <2>2, <4>1
      <4>3. all[i] = queue[i - Len(taken)]
        BY <2>2, <2>3, <3>2
      <4>4. QED
        BY <2>1, <3>2, <4>2, <4>3
    <3>3. QED
      BY <3>1, <3>2
  <2>5. all = [i \in 1 .. Len(all) |-> all[i]]
    BY <2>3, LenProperties
  <2>6. all = Numbered(pushed)
    BY <2>3, <2>4, <2>5 DEF Numbered
  <2>7. QED
    BY <2>6 DEF all
<1>2. QED
  BY <1>1, Invariance, PTL

(* Clear is final.                                                           *)
THEOREM ClearIsFinal == Spec => NothingAfterClear
PROOF
<1>1. [Next]_vars => [shutdown => taken' = taken]_vars
  BY DEF Next, Push, Pop, Clear, WaitAndPop, Resume, Return, Sleep, WakeSpuriously,
         TakeFront, vars
<1>2. QED
  BY <1>1, PTL DEF Spec, NothingAfterClear
=============================================================================
