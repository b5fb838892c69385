-------------------------- MODULE PreparedQueryProofs --------------------------
(* Theorems about PreparedQuery and Field, for every width of the integer    *)
(* types, every result a query may have and every number of queries.         *)
EXTENDS PreparedQuery, SequenceTheorems, WellFoundedInduction, TLAPS

-------------------------------------------------------------------------------
(* Induction, as the least counterexample: a set of numbers has a least one. *)
LEMMA Least ==
  ASSUME NEW T \in SUBSET Nat, T # {}
  PROVE  \E m \in T : \A n \in T : m <= n
PROOF
<1>1. PICK R : IsWellFoundedOn(R, Nat) /\ R = {ss \in Nat \X Nat : ss[1] < ss[2]}
  BY NatLessThanWellFounded DEF OpToRel
<1>2. PICK m \in T : \A n \in T : ~ (<<n, m>> \in R)
  BY <1>1, WFMin
<1>3. ASSUME NEW n \in T PROVE m <= n
  <2>1. n \in Nat /\ m \in Nat
    OBVIOUS
  <2>2. n < m => <<n, m>> \in R
    BY <1>1, <2>1
  <2>3. QED
    BY <1>2, <2>1, <2>2
<1>4. QED
  BY <1>3

(* What holds of the first, and of each if of the one before, holds of all.  *)
LEMMA Steps ==
  ASSUME NEW lo \in Nat, NEW hi \in Nat, NEW T, lo \in T,
         \A m \in lo + 1 .. hi : m - 1 \in T => m \in T
  PROVE  \A n \in lo .. hi : n \in T
PROOF
<1> DEFINE Bad == {m \in lo .. hi : m \notin T}
<1>1. Bad = {}
  <2> SUFFICES ASSUME Bad # {} PROVE FALSE
    OBVIOUS
  <2>1. Bad \in SUBSET Nat
    OBVIOUS
  <2>2. PICK m \in Bad : \A k \in Bad : m <= k
    BY <2>1, Least
  <2>3. m \in lo .. hi /\ m \in Nat /\ m \notin T
    OBVIOUS
  <2>4. m \in lo + 1 .. hi /\ m - 1 \in lo .. hi
    BY <2>3
  <2>5. m - 1 \notin Bad
    <3>1. ~ (m <= m - 1)
      BY <2>3
    <3>2. QED
      BY <2>2, <3>1
  <2>6. QED
    BY <2>3, <2>4, <2>5
<1>2. QED
  BY <1>1

(* Functions defined by recursion on an interval.                            *)
HasRecursive(S, a, lo, hi, next) ==
  \E f \in [lo .. hi -> S] : f[lo] = a /\ \A n \in lo + 1 .. hi : f[n] = next[n][f[n - 1]]

(* There is a function that is defined by recursion on an interval.          *)
LEMMA Recursion ==
  ASSUME NEW S, NEW a \in S, NEW lo \in Nat, NEW hi \in Nat, NEW next \in [lo .. hi -> [S -> S]],
         lo <= hi
  PROVE  HasRecursive(S, a, lo, hi, next)
PROOF
<1> DEFINE On(f, n) == f[lo] = a /\ \A k \in lo + 1 .. n : f[k] = next[k][f[k - 1]]
           Has(n) == \E f \in [lo .. n -> S] : On(f, n)
           T == {n \in lo .. hi : Has(n)}
<1>1. Has(lo)
  <2> DEFINE f == [n \in lo .. lo |-> a]
  <2>1. f \in [lo .. lo -> S] /\ f[lo] = a
    OBVIOUS
  <2>2. lo + 1 .. lo = {}
    OBVIOUS
  <2>3. QED
    BY <2>1, <2>2
<1>2. ASSUME NEW m \in lo + 1 .. hi, Has(m - 1) PROVE Has(m)
  <2>1. PICK f \in [lo .. m - 1 -> S] : On(f, m - 1)
    BY <1>2
  <2> DEFINE g == [n \in lo .. m |-> IF n = m THEN next[m][f[m - 1]] ELSE f[n]]
  <2>2. m \in Nat /\ m \in lo .. hi /\ m - 1 \in lo .. m - 1
    OBVIOUS
  <2>3. next[m][f[m - 1]] \in S
    BY <2>2
  <2>4. g \in [lo .. m -> S]
    BY <2>2, <2>3
  <2>5. \A k \in lo .. m - 1 : g[k] = f[k]
    BY <2>2
  <2>6. g[lo] = a
    BY <2>1, <2>2, <2>5
  <2>7. g[m] = next[m][g[m - 1]]
    BY <2>2, <2>5
  <2> HIDE DEF g
  <2>8. ASSUME NEW k \in lo + 1 .. m PROVE g[k] = next[k][g[k - 1]]
    <3>1. CASE k = m
      BY <2>7, <3>1
    <3>2. CASE k # m
      <4>1. k \in lo + 1 .. m - 1 /\ k \in lo .. m - 1 /\ k - 1 \in lo .. m - 1
        BY <2>2, <3>2
      <4>2. QED
        BY <2>1, <2>5, <4>1
    <3>3. QED
      BY <3>1, <3>2
  <2>9. QED
    BY <2>4, <2>6, <2>8
<1> HIDE DEF Has
<1>3. lo \in T /\ \A m \in lo + 1 .. hi : m - 1 \in T => m \in T
  BY <1>1, <1>2
<1>4. hi \in T
  <2> HIDE DEF T
  <2>1. hi \in lo .. hi
    OBVIOUS
  <2>2. QED
    BY <1>3, <2>1, Steps
<1>5. Has(hi)
  BY <1>4
<1>6. QED
  BY <1>5 DEF Has, HasRecursive

(* Finitely many numbers have a bound,                                       *)
LEMMA Bounded ==
  ASSUME NEW n \in Nat, NEW f \in [1 .. n -> Nat]
  PROVE  \E b \in Nat : \A r \in 1 .. n : f[r] <= b
PROOF
<1> DEFINE Has(m) == \E b \in Nat : \A r \in 1 .. m : f[r] <= b
           T == {m \in 0 .. n : Has(m)}
<1>1. ASSUME NEW m \in 1 .. n, Has(m - 1) PROVE Has(m)
  <2>1. PICK b \in Nat : \A r \in 1 .. m - 1 : f[r] <= b
    BY <1>1
  <2>2. f[m] \in Nat /\ m \in Nat
    OBVIOUS
  <2>3. PICK c \in Nat : b <= c /\ f[m] <= c
    BY <2>1, <2>2
  <2>4. ASSUME NEW r \in 1 .. m PROVE f[r] <= c
    <3>1. r = m \/ r \in 1 .. m - 1
      BY <2>2
    <3>2. f[r] \in Nat
      OBVIOUS
    <3>3. QED
      BY <2>1, <2>3, <3>1, <3>2
  <2>5. QED
    BY <2>3, <2>4
<1>2. Has(0)
  BY 0 \in Nat
<1> HIDE DEF Has
<1>3. 0 \in T /\ \A m \in 0 + 1 .. n : m - 1 \in T => m \in T
  BY <1>1, <1>2
<1>4. n \in T
  <2>1. 0 \in Nat /\ n \in 0 .. n
    OBVIOUS
  <2> HIDE DEF T
  <2>2. QED
    BY <1>3, <2>1, Steps
<1>5. Has(n)
  BY <1>4
<1>6. QED
  BY <1>5 DEF Has

(* and a bounded set of numbers has a largest.                               *)
LEMMA Largest ==
  ASSUME NEW T \in SUBSET Nat, T # {}, NEW b \in Nat, \A l \in T : l <= b
  PROVE  \E l \in T : \A k \in T : k <= l
PROOF
<1> DEFINE U == {b - l : l \in T}
<1>1. U \in SUBSET Nat
  <2>1. ASSUME NEW l \in T PROVE b - l \in Nat
    <3>1. l \in Nat /\ l <= b
      OBVIOUS
    <3>2. QED
      BY <3>1
  <2>2. QED
    BY <2>1
<1>2. U # {}
  OBVIOUS
<1>3. PICK m \in U : \A n \in U : m <= n
  <2> HIDE DEF U
  <2>1. QED
    BY <1>1, <1>2, Least
<1>4. PICK l \in T : m = b - l
  OBVIOUS
<1>5. ASSUME NEW k \in T PROVE k <= l
  <2>1. k \in Nat /\ l \in Nat
    OBVIOUS
  <2>2. b - l <= b - k
    BY <1>3, <1>4
  <2>3. QED
    BY <2>1, <2>2
<1>6. QED
  BY <1>5

-------------------------------------------------------------------------------
(* Powers of two.                                                            *)
LEMMA PowersDefined ==
  Pow2 = [n \in 0 .. MaxWidth |-> IF n = 0 THEN 1 ELSE 2 * Pow2[n - 1]]
PROOF
<1> DEFINE next == [n \in 0 .. MaxWidth |-> [x \in Nat |-> 2 * x]]
<1>1. MaxWidth \in Nat
  BY DEF MaxWidth
<1>2. next \in [0 .. MaxWidth -> [Nat -> Nat]]
  OBVIOUS
<1>3. PICK f \in [0 .. MaxWidth -> Nat] :
        f[0] = 1 /\ \A n \in 0 + 1 .. MaxWidth : f[n] = next[n][f[n - 1]]
  <2>1. 0 \in Nat /\ 1 \in Nat /\ 0 <= MaxWidth
    BY <1>1
  <2> HIDE DEF next
  <2>2. HasRecursive(Nat, 1, 0, MaxWidth, next)
    BY <1>1, <1>2, <2>1, Recursion
  <2>3. QED
    BY <2>2 DEF HasRecursive
<1>4. f = [n \in 0 .. MaxWidth |-> IF n = 0 THEN 1 ELSE 2 * f[n - 1]]
  <2>1. ASSUME NEW n \in 0 .. MaxWidth, n # 0 PROVE f[n] = 2 * f[n - 1]
    <3>1. n \in 0 + 1 .. MaxWidth /\ n - 1 \in 0 .. MaxWidth
      BY <1>1, <2>1
    <3>2. f[n - 1] \in Nat
      BY <3>1
    <3>3. QED
      BY <1>3, <3>1, <3>2
  <2>2. QED
    BY <1>3, <2>1
<1>5. QED
  BY <1>4 DEF Pow2

(* They are positive, double and grow.                                       *)
LEMMA Powers ==
  /\ \A n \in 0 .. MaxWidth : Pow2[n] \in Nat \ {0}
  /\ \A n \in 1 .. MaxWidth : Pow2[n] = 2 * Pow2[n - 1]
  /\ \A m, n \in 0 .. MaxWidth : m <= n => Pow2[m] <= Pow2[n]
PROOF
<1> DEFINE Good(n) == /\ Pow2[n] \in Nat \ {0}
                      /\ \A m \in 0 .. n : Pow2[m] \in Nat /\ Pow2[m] <= Pow2[n]
           T == {n \in 0 .. MaxWidth : Good(n)}
<1>1. MaxWidth \in Nat
  BY DEF MaxWidth
<1>2. Pow2[0] = 1 /\ \A n \in 1 .. MaxWidth : Pow2[n] = 2 * Pow2[n - 1]
  BY <1>1, PowersDefined
<1>3. Good(0)
  BY <1>2
<1>4. ASSUME NEW n \in 0 + 1 .. MaxWidth, Good(n - 1) PROVE Good(n)
  <2>1. n \in Nat /\ Pow2[n] = 2 * Pow2[n - 1]
    BY <1>1, <1>2
  <2>2. Pow2[n - 1] \in Nat \ {0}
    BY <1>4
  <2>3. ASSUME NEW m \in 0 .. n PROVE Pow2[m] \in Nat /\ Pow2[m] <= Pow2[n]
    <3>1. CASE m = n
      BY <2>1, <2>2, <3>1
    <3>2. CASE m # n
      <4>1. Pow2[m] \in Nat /\ Pow2[m] <= Pow2[n - 1]
        BY <1>4, <2>1, <3>2
      <4>2. QED
        BY <2>1, <2>2, <4>1
    <3>3. QED
      BY <3>1, <3>2
  <2>4. QED
    BY <2>1, <2>2, <2>3
<1> HIDE DEF Good
<1>5. 0 \in T /\ \A m \in 0 + 1 .. MaxWidth : m - 1 \in T => m \in T
  BY <1>1, <1>3, <1>4
<1>6. \A n \in 0 .. MaxWidth : Good(n)
  <2>1. 0 \in Nat
    OBVIOUS
  <2>2. \A n \in 0 .. MaxWidth : n \in T
    <3> HIDE DEF T
    <3>1. QED
      BY <1>1, <1>5, <2>1, Steps
  <2>3. QED
    BY <2>2
<1>7. QED
  BY <1>1, <1>2, <1>6 DEF Good

-------------------------------------------------------------------------------
(* Conversions.                                                              *)
LEMMA TypeFacts ==
  ASSUME NEW t \in Types
  PROVE  /\ t.bits \in 1 .. MaxWidth /\ t.bits - 1 \in 0 .. MaxWidth /\ t.bits \in Nat
         /\ Pow2[t.bits] \in Nat /\ Pow2[t.bits - 1] \in Nat
         /\ Pow2[t.bits] = 2 * Pow2[t.bits - 1] /\ Pow2[t.bits - 1] >= 1
         /\ t.signed \in BOOLEAN
PROOF
<1>1. MaxWidth \in Nat
  BY DEF MaxWidth
<1>2. t.bits \in 1 .. MaxWidth /\ t.signed \in BOOLEAN
  BY FieldAssumption DEF Types
<1>3. t.bits - 1 \in 0 .. MaxWidth /\ t.bits \in 0 .. MaxWidth /\ t.bits \in Nat
  BY <1>1, <1>2
<1>4. Pow2[t.bits] = 2 * Pow2[t.bits - 1]
  BY <1>2, Powers
<1>5. Pow2[t.bits] \in Nat \ {0} /\ Pow2[t.bits - 1] \in Nat \ {0}
  BY <1>3, Powers
<1>6. QED
  BY <1>2, <1>3, <1>4, <1>5

(* A type's values are numbers,                                              *)
LEMMA ValuesAreInt ==
  ASSUME NEW t \in Types
  PROVE  Values(t) \subseteq Int
PROOF
  BY TypeFacts DEF Values

(* and every number is converted to one of them.                             *)
LEMMA WrapType ==
  ASSUME NEW t \in Types, NEW v \in Int
  PROVE  Wrap(v, t) \in Values(t)
PROOF
<1> DEFINE P == Pow2[t.bits]
           H == Pow2[t.bits - 1]
           m == v % P
<1>1. P \in Nat /\ H \in Nat /\ P = 2 * H /\ H >= 1
  BY TypeFacts
<1>2. m \in 0 .. P - 1
  <2> HIDE DEF P
  <2>1. QED
    BY <1>1
<1>3. Wrap(v, t) = IF t.signed /\ m >= H THEN m - P ELSE m
  BY DEF Wrap
<1>4. Values(t) = IF t.signed THEN -H .. H - 1 ELSE 0 .. P - 1
  BY DEF Values
<1> HIDE DEF P, H, m
<1>5. CASE t.signed /\ m >= H
  BY <1>1, <1>2, <1>3, <1>4, <1>5
<1>6. CASE t.signed /\ ~ (m >= H)
  BY <1>1, <1>2, <1>3, <1>4, <1>6
<1>7. CASE ~ t.signed
  BY <1>1, <1>2, <1>3, <1>4, <1>7
<1>8. QED
  BY <1>5, <1>6, <1>7

(* What the type can hold is converted to itself.                            *)
LEMMA WrapSame ==
  ASSUME NEW t \in Types, NEW v \in Values(t)
  PROVE  Wrap(v, t) = v
PROOF
<1> DEFINE P == Pow2[t.bits]
           H == Pow2[t.bits - 1]
           m == v % P
<1>1. P \in Nat /\ H \in Nat /\ P = 2 * H /\ H >= 1
  BY TypeFacts
<1>2. Wrap(v, t) = IF t.signed /\ m >= H THEN m - P ELSE m
  BY DEF Wrap
<1>3. v \in IF t.signed THEN -H .. H - 1 ELSE 0 .. P - 1
  BY DEF Values
<1>4. m = v % P
  OBVIOUS
<1> HIDE DEF P, H, m
<1>5. v \in 0 .. P - 1 => m = v
  BY <1>1, <1>4
<1>6. v \in -P .. -1 => m = v + P
  BY <1>1, <1>4
<1>7. CASE ~ t.signed
  BY <1>2, <1>3, <1>5, <1>7
<1>8. CASE t.signed /\ v >= 0
  <2>1. v \in 0 .. P - 1 /\ ~ (v >= H)
    BY <1>1, <1>3, <1>8
  <2>2. QED
    BY <1>2, <1>5, <2>1
<1>9. CASE t.signed /\ ~ (v >= 0)
  <2>1. v \in -P .. -1 /\ v + P >= H /\ v + P - P = v
    BY <1>1, <1>3, <1>9
  <2>2. m = v + P
    BY <1>6, <2>1
  <2>3. m >= H /\ m - P = v
    BY <1>1, <2>1, <2>2
  <2>4. QED
    BY <1>2, <1>9, <2>3
<1>10. QED
  BY <1>7, <1>8, <1>9

(* A wider type of the same sign, and a signed one that is wider, holds all  *)
(* the values of a narrower.                                                 *)
LEMMA Holds ==
  ASSUME NEW t \in Types, NEW c \in Types,
         \/ (t.signed <=> c.signed) /\ t.bits <= c.bits
         \/ c.signed /\ t.bits < c.bits
  PROVE  Values(t) \subseteq Values(c)
PROOF
<1>1. Pow2[t.bits - 1] <= Pow2[c.bits - 1]
  BY TypeFacts, Powers
<1>2. Pow2[t.bits] <= Pow2[c.bits]
  BY TypeFacts, Powers
<1>3. t.bits < c.bits => Pow2[t.bits] <= Pow2[c.bits - 1]
  <2>1. t.bits < c.bits => t.bits <= c.bits - 1 /\ t.bits \in 0 .. MaxWidth
    BY TypeFacts
  <2>2. QED
    BY <2>1, TypeFacts, Powers
<1> DEFINE tp == Pow2[t.bits]
           th == Pow2[t.bits - 1]
           cp == Pow2[c.bits]
           ch == Pow2[c.bits - 1]
<1>4. tp \in Nat /\ th \in Nat /\ cp \in Nat /\ ch \in Nat /\ th <= tp
  BY TypeFacts
<1>5. th <= ch /\ tp <= cp /\ (t.bits < c.bits => tp <= ch)
  BY <1>1, <1>2, <1>3
<1>6. Values(t) = IF t.signed THEN -th .. th - 1 ELSE 0 .. tp - 1
  BY DEF Values
<1>7. Values(c) = IF c.signed THEN -ch .. ch - 1 ELSE 0 .. cp - 1
  BY DEF Values
<1> HIDE DEF tp, th, cp, ch
<1>8. CASE t.signed /\ c.signed
  BY <1>4, <1>5, <1>6, <1>7, <1>8
<1>9. CASE ~ t.signed /\ ~ c.signed
  BY <1>4, <1>5, <1>6, <1>7, <1>9
<1>10. CASE ~ t.signed /\ c.signed /\ t.bits < c.bits
  BY <1>4, <1>5, <1>6, <1>7, <1>10
<1>11. QED
  BY <1>8, <1>9, <1>10, TypeFacts

(* Promotion keeps all values: what is narrower than int fits into int.      *)
LEMMA PromoteHolds ==
  ASSUME NEW t \in Types
  PROVE  /\ Promote(t) \in Types
         /\ Values(t) \subseteq Values(Promote(t))
         /\ t.bits <= Promote(t).bits
         /\ Promote(t).signed \/ Promote(t) = t
         /\ t.signed => Promote(t).signed
PROOF
<1>1. IntBits \in Widths /\ IntBits \in Nat
  BY FieldAssumption DEF MaxWidth
<1>2. t.bits \in Nat
  BY TypeFacts
<1>3. CASE t.bits < IntBits
  <2> DEFINE int == [bits |-> IntBits, signed |-> TRUE]
  <2>1. Promote(t) = int /\ int \in Types /\ int.bits = IntBits /\ int.signed
    BY <1>1, <1>3 DEF Promote, Types
  <2>2. Values(t) \subseteq Values(int)
    BY <1>3, <2>1, Holds
  <2>3. t.bits <= int.bits
    BY <1>1, <1>2, <1>3, <2>1
  <2> HIDE DEF int
  <2>4. QED
    BY <2>1, <2>2, <2>3
<1>4. CASE ~ (t.bits < IntBits)
  <2>1. Promote(t) = t
    BY <1>4 DEF Promote
  <2>2. QED
    BY <1>2, <2>1
<1>5. QED
  BY <1>3, <1>4

(* The common type is one of the two, and there is always one that wins.     *)
LEMMA CommonTypeIs ==
  ASSUME NEW t \in Types, NEW u \in Types
  PROVE  LET c == CommonType(t, u)
         IN  /\ c \in {Promote(t), Promote(u)}
             /\ \A d \in {Promote(t), Promote(u)} :
                  c.bits > d.bits \/ (c.bits = d.bits /\ (c.signed => d.signed))
PROOF
<1> DEFINE a == Promote(t)
           b == Promote(u)
           Wins(c) == \A d \in {a, b} :
                        c.bits > d.bits \/ (c.bits = d.bits /\ (c.signed => d.signed))
<1>1. a \in Types /\ b \in Types
  BY PromoteHolds
<1>2. a.bits \in Nat /\ b.bits \in Nat /\ a.signed \in BOOLEAN /\ b.signed \in BOOLEAN
  BY <1>1, TypeFacts
<1>3. CommonType(t, u) = CHOOSE c \in {a, b} : Wins(c)
  BY DEF CommonType
<1>4. \E c \in {a, b} : Wins(c)
  <2> HIDE DEF a, b
  <2>1. Wins(a) \/ Wins(b)
    BY <1>2
  <2>2. QED
    BY <2>1
<1> HIDE DEF a, b, Wins
<1>5. CommonType(t, u) \in {a, b} /\ Wins(CommonType(t, u))
  BY <1>3, <1>4
<1>6. QED
  BY <1>5 DEF a, b, Wins

(* The type in which two of the same sign are compared holds the values of   *)
(* both.                                                                     *)
LEMMA CommonHolds ==
  ASSUME NEW t \in Types, NEW u \in Types, t.signed = u.signed
  PROVE  /\ CommonType(t, u) \in Types
         /\ Values(t) \subseteq Values(CommonType(t, u))
         /\ Values(u) \subseteq Values(CommonType(t, u))
PROOF
<1> DEFINE c == CommonType(t, u)
<1>1. c \in {Promote(t), Promote(u)} /\ c \in Types
  BY CommonTypeIs, PromoteHolds
<1>2. ASSUME NEW s \in {t, u} PROVE Values(s) \subseteq Values(c)
  <2> DEFINE d == Promote(s)
  <2>1. s \in Types /\ s.signed = t.signed
    OBVIOUS
  <2>2. d \in Types /\ Values(s) \subseteq Values(d) /\ s.bits <= d.bits /\ (s.signed => d.signed)
    BY <2>1, PromoteHolds
  <2>3. c.bits > d.bits \/ (c.bits = d.bits /\ (c.signed => d.signed))
    BY CommonTypeIs
  <2>4. c.bits \in Nat /\ d.bits \in Nat /\ s.bits \in Nat
    BY <1>1, <2>1, <2>2, TypeFacts
  <2>5. c.signed \in BOOLEAN /\ d.signed \in BOOLEAN /\ s.signed \in BOOLEAN
    BY <1>1, <2>1, <2>2, TypeFacts
  <2>6. CASE c.signed
    <3>1. Values(d) \subseteq Values(c)
      <4>1. ((d.signed <=> c.signed) /\ d.bits <= c.bits) \/ (c.signed /\ d.bits < c.bits)
        BY <2>3, <2>4, <2>5, <2>6
      <4> HIDE DEF c, d
      <4>2. QED
        BY <1>1, <2>2, <4>1, Holds
    <3>2. QED
      BY <2>2, <3>1
  <2>7. CASE ~ c.signed
    <3>1. c = t \/ c = u
      BY <1>1, <2>7, PromoteHolds
    <3>2. (s.signed <=> c.signed) /\ s.bits <= c.bits
      <4>1. ~ s.signed
        BY <2>1, <2>7, <3>1
      <4>2. s.bits <= c.bits
        BY <2>2, <2>3, <2>4
      <4>3. QED
        BY <2>5, <2>7, <4>1, <4>2
    <3> HIDE DEF c, d
    <3>3. QED
      BY <1>1, <2>1, <3>2, Holds
  <2>8. QED
    BY <2>6, <2>7
<1>3. QED
  BY <1>1, <1>2

(* A getter of the column's sign lets no wrong number pass,                  *)
LEMMA AcceptedIsTrue ==
  ASSUME NEW t \in Types, NEW u \in Types, NEW v \in Values(u), t.signed = u.signed,
         Accepts(v, u, t)
  PROVE  Wrap(v, t) = v
PROOF
<1> DEFINE c == CommonType(t, u)
           w == Wrap(v, t)
<1>1. v \in Int /\ w \in Values(t)
  BY ValuesAreInt, WrapType
<1>2. c \in Types /\ w \in Values(c) /\ v \in Values(c)
  BY <1>1, CommonHolds
<1>3. Wrap(w, c) = Wrap(v, c)
  BY DEF Accepts, Equal
<1> HIDE DEF c, w
<1>4. Wrap(w, c) = w /\ Wrap(v, c) = v
  BY <1>2, WrapSame
<1>5. w = v
  BY <1>3, <1>4
<1>6. QED
  BY <1>5 DEF w

(* and none refuses what its type can hold.                                  *)
LEMMA HeldIsAccepted ==
  ASSUME NEW t \in Types, NEW u \in Types, NEW v \in Values(t)
  PROVE  Accepts(v, u, t)
PROOF
<1>1. Wrap(v, t) = v
  BY WrapSame
<1>2. QED
  BY <1>1 DEF Accepts, Equal

-------------------------------------------------------------------------------
(* The inductive invariant. The answer is one the database has for some      *)
(* number,                                                                   *)
Answered ==
  /\ answer \in Seq([Col -> Int \union {Null}])
  /\ \A r \in 1 .. Len(answer), i \in Col : answer[r][i] \in CellValues(i)

(* a query that is under way has been sent with its parameter,               *)
Asks ==
  pc = "asked" =>
    /\ made < MaxQueries
    /\ asked.type \in Types /\ asked.value \in Values(asked.type)
    /\ answer = Rows[Received(asked.value, asked.type)]

(* there are no cells without a set,                                         *)
Empty ==
  pc \in {"idle", "asked", "gone"} => count = 0 /\ pos = 0 /\ mem = <<>> /\ cells = <<>>

(* while rows are fetched each column's buffer is at a place of its own,     *)
(* past those of the column's cells,                                         *)
Place(m, i) == RowSize * m + Offset[i]

InPlace ==
  pc = "fetching" =>
    /\ stmt.done /\ stmt.buffers \in [Col -> Nat]
    /\ count = Len(answer) /\ Len(cells) = pos
    /\ \A i \in Col : \E n \in 0 .. pos :
         /\ stmt.buffers[i] = Place(n, i)
         /\ \A r \in 1 .. Len(cells) :
              cells[r][i] # Null => \E m \in 0 .. n - 1 : cells[r][i] = Place(m, i)

(* of the arrays only those are not freed that the statement points at,      *)
Bound(a) == stmt.done /\ a = stmt.arrays /\ pc # "gone"

Owned ==
  /\ stmt.done => stmt.arrays \in 1 .. made
  /\ ~ failed => \A a \in 1 .. MaxQueries :
                   freed[a] = IF a \in 1 .. made /\ ~ Bound(a) THEN 1 ELSE 0

(* and nothing is read but from a set.                                       *)
Quiet == pc \in {"idle", "asked", "fetching", "gone"} => got = Nothing

IInv ==
  /\ TypeOK /\ Answered /\ Asks /\ Empty /\ InPlace /\ CellsKeepTheirBytes
  /\ Owned /\ Quiet /\ GettersTell

-------------------------------------------------------------------------------
(* Where the cells are.                                                      *)
LEMMA ColumnsAre ==
  /\ Len(Columns) \in Nat \ {0} /\ Col = 1 .. Len(Columns)
  /\ \A i \in Col : Columns[i] \in Types \union {Text}
  /\ \A i \in Col : Columns[i] # Text => Columns[i].bits \in Nat \ {0}
PROOF
<1>1. Len(Columns) \in Nat \ {0} /\ \A i \in 1 .. Len(Columns) : Columns[i] \in Types \union {Text}
  BY QueryAssumption
<1>2. \A t \in Types : t.bits \in Nat \ {0}
  BY TypeFacts
<1>3. QED
  BY <1>1, <1>2 DEF Col

(* A cell is null, a length or a number.                                     *)
LEMMA CellIs ==
  ASSUME Answered, NEW r \in 1 .. Len(answer), NEW i \in Col, answer[r][i] # Null
  PROVE  /\ answer[r][i] \in Int
         /\ Columns[i] = Text => answer[r][i] \in Nat
         /\ Columns[i] # Text => answer[r][i] \in Values(Columns[i]) /\ Columns[i] \in Types
PROOF
<1>1. answer[r][i] \in CellValues(i)
  BY DEF Answered
<1>2. Columns[i] # Text => Columns[i] \in Types
  BY ColumnsAre
<1>3. QED
  BY <1>1, <1>2, ValuesAreInt DEF CellValues

(* The longest text of a column is as long as any.                           *)
LEMMA LongestHolds ==
  ASSUME Answered, NEW i \in Col, Columns[i] = Text
  PROVE  /\ Longest(i) \in Nat
         /\ \A r \in 1 .. Len(answer) : answer[r][i] # Null => answer[r][i] <= Longest(i)
PROOF
<1> DEFINE n == Len(answer)
           lengths == {answer[r][i] : r \in 1 .. n} \ {Null}
           f == [r \in 1 .. n |-> IF answer[r][i] = Null THEN 0 ELSE answer[r][i]]
<1>1. n \in Nat
  BY DEF Answered
<1>2. \A r \in 1 .. n : answer[r][i] # Null => answer[r][i] \in Nat
  BY CellIs
<1>3. f \in [1 .. n -> Nat]
  BY <1>2
<1>4. PICK b \in Nat : \A r \in 1 .. n : f[r] <= b
  <2> HIDE DEF f, n
  <2>1. QED
    BY <1>1, <1>3, Bounded
<1>5. lengths \in SUBSET Nat /\ \A l \in lengths : l <= b
  BY <1>2, <1>4
<1>6. lengths # {} => \E l \in lengths : \A k \in lengths : k <= l
  <2> HIDE DEF lengths
  <2>1. QED
    BY <1>5, Largest
<1>7. Longest(i) = IF lengths = {} THEN 0 ELSE CHOOSE l \in lengths : \A k \in lengths : k <= l
  BY DEF Longest
<1>8. Longest(i) \in Nat /\ \A k \in lengths : k <= Longest(i)
  <2> HIDE DEF lengths
  <2>1. CASE lengths = {}
    BY <1>7, <2>1
  <2>2. CASE lengths # {}
    <3>1. Longest(i) \in lengths /\ \A k \in lengths : k <= Longest(i)
      BY <1>6, <1>7, <2>2
    <3>2. QED
      BY <1>5, <3>1
  <2>3. QED
    BY <2>1, <2>2
<1>9. QED
  BY <1>8

(* A cell fits into what its column has in a row.                            *)
LEMMA SizeHolds ==
  ASSUME Answered, NEW i \in Col
  PROVE  /\ Size[i] \in Nat \ {0}
         /\ \A r \in 1 .. Len(answer) :
              answer[r][i] # Null => Length(answer[r], i) \in 1 .. Size[i]
PROOF
<1>1. Size[i] = IF Columns[i] = Text THEN Longest(i) + 1 ELSE Columns[i].bits
  BY DEF Size
<1>2. CASE Columns[i] = Text
  <2>1. Size[i] = Longest(i) + 1 /\ Longest(i) \in Nat
    BY <1>1, <1>2, LongestHolds
  <2>2. ASSUME NEW r \in 1 .. Len(answer), answer[r][i] # Null
        PROVE  Length(answer[r], i) \in 1 .. Size[i]
    <3>1. answer[r][i] \in Nat /\ answer[r][i] <= Longest(i)
      BY <1>2, <2>2, CellIs, LongestHolds
    <3>2. Length(answer[r], i) = answer[r][i] + 1
      BY <1>2 DEF Length
    <3>3. QED
      BY <2>1, <3>1, <3>2
  <2>3. QED
    BY <2>1, <2>2
<1>3. CASE Columns[i] # Text
  <2>1. Size[i] = Columns[i].bits /\ Columns[i].bits \in Nat \ {0}
    BY <1>1, <1>3, ColumnsAre
  <2>2. \A r \in 1 .. Len(answer) : Length(answer[r], i) = Columns[i].bits
    BY <1>3 DEF Length
  <2>3. QED
    BY <2>1, <2>2
<1>4. QED
  BY <1>2, <1>3

(* Each column's first place is behind the column before it.                 *)
LEMMA OffsetIs ==
  ASSUME Answered
  PROVE  /\ Offset \in [1 .. Len(Columns) + 1 -> Nat] /\ Offset[1] = 0
         /\ \A i \in Col : Offset[i + 1] = Offset[i] + Size[i]
PROOF
<1> DEFINE L == Len(Columns) + 1
           next == [i \in 1 .. L |-> [x \in Nat |-> IF i = 1 THEN x ELSE x + Size[i - 1]]]
<1>1. L \in Nat /\ 1 \in Nat /\ 0 \in Nat /\ 1 <= L /\ Col = 1 .. L - 1
  BY ColumnsAre
<1>2. \A i \in 1 .. L : i # 1 => i - 1 \in Col /\ Size[i - 1] \in Nat
  BY <1>1, SizeHolds
<1>3. next \in [1 .. L -> [Nat -> Nat]]
  BY <1>2
<1>4. PICK f \in [1 .. L -> Nat] : f[1] = 0 /\ \A i \in 1 + 1 .. L : f[i] = next[i][f[i - 1]]
  <2> HIDE DEF next, L
  <2>1. HasRecursive(Nat, 0, 1, L, next)
    BY <1>1, <1>3, Recursion
  <2>2. QED
    BY <2>1 DEF HasRecursive
<1>5. ASSUME NEW i \in 1 .. L, i # 1 PROVE f[i] = f[i - 1] + Size[i - 1]
  <2>1. i \in 1 + 1 .. L /\ i - 1 \in 1 .. L
    BY <1>1, <1>5
  <2>2. f[i - 1] \in Nat
    BY <2>1
  <2>3. QED
    BY <1>4, <1>5, <2>1, <2>2
<1>6. f = [i \in 1 .. L |-> IF i = 1 THEN 0 ELSE f[i - 1] + Size[i - 1]]
  BY <1>4, <1>5
<1>7. Offset = [i \in 1 .. L |-> IF i = 1 THEN 0 ELSE Offset[i - 1] + Size[i - 1]]
  BY <1>6 DEF Offset
<1> HIDE DEF L
<1>8. Offset[1] = 0
  BY <1>1, <1>7
<1>9. ASSUME NEW i \in Col PROVE i + 1 \in 1 .. L /\ Offset[i + 1] = Offset[i] + Size[i]
  <2> DEFINE j == i + 1
  <2>1. j \in 1 .. L /\ j # 1 /\ j - 1 = i
    BY <1>1
  <2> HIDE DEF j
  <2>2. Offset[j] = Offset[j - 1] + Size[j - 1]
    BY <1>7, <2>1
  <2>3. j \in 1 .. L /\ Offset[j] = Offset[i] + Size[i]
    BY <2>1, <2>2
  <2>4. QED
    BY <2>3 DEF j
<1> DEFINE T == {i \in 1 .. L : Offset[i] \in Nat}
<1>10. 1 \in T
  BY <1>1, <1>8
<1>11. ASSUME NEW i \in 1 + 1 .. L, i - 1 \in T PROVE i \in T
  <2>1. i \in 1 .. L /\ i # 1 /\ Offset[i - 1] \in Nat /\ Size[i - 1] \in Nat
    BY <1>1, <1>2, <1>11
  <2>2. Offset[i] = Offset[i - 1] + Size[i - 1]
    BY <1>7, <2>1
  <2>3. QED
    BY <2>1, <2>2
<1>12. \A i \in 1 .. L : i \in T
  <2> HIDE DEF T
  <2>1. QED
    BY <1>1, <1>10, <1>11, Steps
<1>13. Offset \in [1 .. L -> Nat]
  BY <1>7, <1>12
<1>14. QED
  BY <1>8, <1>9, <1>13 DEF L

(* The columns of a row do not overlap.                                      *)
LEMMA ColumnsApart ==
  ASSUME Answered
  PROVE  /\ RowSize \in Nat \ {0}
         /\ \A i \in Col : Offset[i] \in Nat /\ Offset[i] + Size[i] <= RowSize
         /\ \A i, j \in Col : i < j => Offset[i] + Size[i] <= Offset[j]
PROOF
<1> DEFINE L == Len(Columns) + 1
<1>1. L \in Nat /\ Col = 1 .. L - 1 /\ 1 \in Col
  BY ColumnsAre
<1>2. Offset \in [1 .. L -> Nat] /\ \A i \in Col : Offset[i + 1] = Offset[i] + Size[i]
  BY OffsetIs
<1>3. \A i \in Col : Size[i] \in Nat \ {0}
  BY SizeHolds
<1> HIDE DEF L
<1>4. ASSUME NEW i \in Col PROVE \A j \in i + 1 .. L : Offset[i] + Size[i] <= Offset[j]
  <2> DEFINE T == {j \in i + 1 .. L : Offset[i] + Size[i] <= Offset[j]}
  <2>1. i + 1 \in Nat /\ i + 1 \in i + 1 .. L /\ Offset[i] \in Nat /\ Size[i] \in Nat
    BY <1>1, <1>2, <1>3
  <2>2. i + 1 \in T
    BY <1>2, <2>1
  <2>3. ASSUME NEW j \in i + 1 + 1 .. L, j - 1 \in T PROVE j \in T
    <3>1. j - 1 \in Col /\ j - 1 + 1 = j /\ j \in i + 1 .. L
      BY <1>1, <2>1
    <3>2. Offset[j] = Offset[j - 1] + Size[j - 1] /\ Size[j - 1] \in Nat
      BY <1>2, <1>3, <3>1
    <3>3. Offset[j - 1] \in Nat /\ Offset[i] + Size[i] <= Offset[j - 1]
      BY <1>1, <1>2, <2>3, <3>1
    <3>4. QED
      BY <2>1, <3>1, <3>2, <3>3
  <2>4. \A j \in i + 1 .. L : j \in T
    <3> HIDE DEF T
    <3>1. QED
      BY <1>1, <2>1, <2>2, <2>3, Steps
  <2>5. QED
    BY <2>4
<1>5. RowSize = Offset[L] /\ L \in 1 .. L
  BY <1>1 DEF RowSize, L
<1>6. \A i \in Col : Offset[i] \in Nat /\ Offset[i] + Size[i] <= RowSize
  BY <1>1, <1>2, <1>4, <1>5
<1>7. \A i, j \in Col : i < j => Offset[i] + Size[i] <= Offset[j]
  BY <1>1, <1>4
<1>8. RowSize \in Nat \ {0}
  BY <1>1, <1>2, <1>3, <1>5, <1>6
<1>9. QED
  BY <1>6, <1>7, <1>8

Slot(m, i) == Place(m, i) .. Place(m, i) + Size[i] - 1

(* Past a cell a column's pointer is at its place in the next row.           *)
LEMMA PlaceIs ==
  ASSUME Answered, NEW m \in Nat, NEW i \in Col
  PROVE  /\ Place(m, i) \in Nat /\ Place(0, i) = Offset[i]
         /\ Place(m, i) + RowSize = Place(m + 1, i)
PROOF
<1>1. RowSize \in Nat /\ Offset[i] \in Nat
  BY ColumnsApart
<1>2. QED
  BY <1>1 DEF Place

(* Nor do those of two rows,                                                 *)
LEMMA SlotsApart ==
  ASSUME Answered, NEW m \in Nat, NEW n \in Nat, NEW i \in Col, NEW j \in Col,
         m # n \/ i # j
  PROVE  Slot(m, i) \cap Slot(n, j) = {}
PROOF
<1>1. RowSize \in Nat
  BY ColumnsApart
<1>2. ASSUME NEW k \in Col
      PROVE  Offset[k] \in Nat /\ Size[k] \in Nat \ {0} /\ Offset[k] + Size[k] <= RowSize
  BY ColumnsApart, SizeHolds
<1>3. ASSUME NEW a \in Nat, NEW b \in Nat, NEW k \in Col, NEW l \in Col, a < b
      PROVE  Place(a, k) + Size[k] <= Place(b, l)
  <2>1. RowSize * a + RowSize <= RowSize * b
    BY <1>1, <1>3
  <2>2. RowSize * a \in Nat /\ RowSize * b \in Nat
    BY <1>1
  <2>3. QED
    BY <1>1, <1>2, <2>1, <2>2 DEF Place
<1>4. ASSUME NEW k \in Col, NEW l \in Col, k < l
      PROVE  Place(m, k) + Size[k] <= Place(m, l)
  <2>1. Offset[k] + Size[k] <= Offset[l]
    BY <1>4, ColumnsApart
  <2>2. RowSize * m \in Nat
    BY <1>1
  <2>3. QED
    BY <1>2, <2>1, <2>2 DEF Place
<1>5. Place(m, i) \in Nat /\ Place(n, j) \in Nat /\ Size[i] \in Nat /\ Size[j] \in Nat
  BY <1>2, PlaceIs
<1>6. Place(m, i) + Size[i] <= Place(n, j) \/ Place(n, j) + Size[j] <= Place(m, i)
  <2>1. CASE m < n
    BY <1>3, <2>1
  <2>2. CASE n < m
    BY <1>3, <2>2
  <2>3. CASE m = n
    <3>1. i < j \/ j < i
      BY <2>3, ColumnsAre
    <3>2. QED
      BY <1>4, <2>3, <3>1
  <2>4. QED
    BY <2>1, <2>2, <2>3
<1>7. QED
  BY <1>5, <1>6 DEF Slot

(* and all are in the buffer.                                                *)
LEMMA SlotInside ==
  ASSUME Answered, NEW c \in Nat, NEW m \in Nat, m < c, NEW i \in Col
  PROVE  Slot(m, i) \subseteq 0 .. RowSize * c - 1
PROOF
<1>1. RowSize \in Nat /\ Offset[i] \in Nat /\ Size[i] \in Nat /\ Offset[i] + Size[i] <= RowSize
  BY ColumnsApart, SizeHolds
<1>2. RowSize * m + RowSize <= RowSize * c
  BY <1>1
<1>3. RowSize * m \in Nat /\ RowSize * c \in Nat
  BY <1>1
<1>4. Place(m, i) \in Nat /\ Place(m, i) + Size[i] <= RowSize * c
  BY <1>1, <1>2, <1>3 DEF Place
<1>5. QED
  BY <1>1, <1>3, <1>4 DEF Slot

-------------------------------------------------------------------------------
(* The invariant holds at first.                                             *)
THEOREM InitEstablishes == Init => IInv
PROOF
<1> SUFFICES ASSUME Init PROVE IInv
  OBVIOUS
<1>1. TypeOK
  <2>1. MaxQueries \in Nat /\ Len(answer) \in Nat
    BY QueryAssumption DEF Init
  <2>2. DOMAIN mem = {} /\ cells \in Seq([Col -> DOMAIN mem \union {Null}]) /\ Len(cells) = 0
    BY DEF Init
  <2>3. stmt \in [done : BOOLEAN, arrays : 0 .. made, buffers : {<<>>} \union [Col -> Nat]]
    BY DEF Init
  <2>4. freed \in [1 .. MaxQueries -> Nat]
    BY DEF Init
  <2>5. /\ pc \in {"idle", "asked", "fetching", "reading", "dead", "gone"}
        /\ asked = Nobody /\ failed \in BOOLEAN
    BY DEF Init
  <2>6. made \in 0 .. MaxQueries /\ count \in {0, Len(answer)} /\ pos \in 0 .. count /\ count = 0
    BY <2>1 DEF Init
  <2>7. /\ DOMAIN mem = (IF count = 0 THEN {} ELSE 0 .. RowSize * count - 1)
        /\ \A o \in DOMAIN mem : mem[o] \in Stamps
        /\ Len(cells) <= count
    BY <2>2, <2>6
  <2>8. QED
    BY <2>2, <2>3, <2>4, <2>5, <2>6, <2>7, Zenon DEF TypeOK
<1>2. Answered
  BY DEF Init, Answered
<1>3. Asks /\ Empty /\ InPlace /\ Quiet
  BY DEF Init, Asks, Empty, InPlace, Quiet
<1>4. CellsKeepTheirBytes
  BY DEF Init, CellsKeepTheirBytes
<1>5. Owned
  BY DEF Init, Owned, Bound
<1>6. GettersTell
  BY DEF Init, GettersTell, Nothing
<1>7. QED
  BY <1>1, <1>2, <1>3, <1>4, <1>5, <1>6 DEF IInv

-------------------------------------------------------------------------------
(* Every step keeps the answer typed: only Ask takes rows of the database.   *)
LEMMA ReceivedIs ==
  ASSUME NEW t \in Types, NEW v \in Values(t)
  PROVE  Received(v, t) \in Parameters
PROOF
<1> DEFINE u == [t EXCEPT !.signed = TRUE]
<1>1. u \in Types /\ u.signed
  BY DEF Types
<1>2. v \in Int
  BY ValuesAreInt
<1>3. Wrap(v, u) \in Values(u)
  <2> HIDE DEF u
  <2>1. QED
    BY <1>1, <1>2, WrapType
<1>4. QED
  BY <1>1, <1>3 DEF Received, Parameters

(* The answer is of the right form after every step.                         *)
LEMMA AnsweredStep ==
  ASSUME IInv, [Next]_vars
  PROVE  Answered'
PROOF
<1>1. CASE answer' = answer
  BY <1>1 DEF IInv, Answered
<1>2. ASSUME NEW t \in Types, NEW v \in Values(t), Ask(t, v) PROVE Answered'
  <2> DEFINE p == Received(v, t)
  <2>1. p \in Parameters /\ answer' = Rows[p]
    BY <1>2, ReceivedIs DEF Ask
  <2> HIDE DEF p
  <2>2. QED
    BY <2>1, QueryAssumption DEF Answered
<1>3. CASE DestroySet
  BY <1>3 DEF DestroySet, Answered
<1>4. \/ answer' = answer \/ DestroySet
      \/ \E t \in Types : \E v \in Values(t) : Ask(t, v)
  BY DEF Next, NoMetadata, StoreFails, NoRows, BindFails, BindResult, FetchRow, FetchEnds,
         NextRow, Get, DestroyStatement, vars
<1>5. QED
  BY <1>1, <1>2, <1>3, <1>4

(* A query under way is one that Ask has sent.                               *)
LEMMA AsksStep ==
  ASSUME IInv, [Next]_vars
  PROVE  Asks'
PROOF
<1>1. CASE UNCHANGED vars
  BY <1>1 DEF IInv, Asks, vars, heapVars
<1>2. ASSUME NEW t \in Types, NEW v \in Values(t), Ask(t, v) PROVE Asks'
  BY <1>2 DEF Ask, Asks, heapVars
<1>3. CASE pc' # "asked"
  BY <1>3 DEF Asks
<1>4. \/ UNCHANGED vars \/ pc' # "asked"
      \/ \E t \in Types : \E v \in Values(t) : Ask(t, v)
  <2>1. ASSUME NEW i \in Col, NEW g \in Types \union {Text}, Get(i, g) PROVE pc' # "asked"
    BY <2>1 DEF Get
  <2>2. QED
    BY <2>1 DEF Next, NoMetadata, StoreFails, NoRows, BindFails, BindResult, FetchRow, FetchEnds,
           NextRow, DestroySet, DestroyStatement
<1>5. QED
  BY <1>1, <1>2, <1>3, <1>4

(* There is nothing in a set before it is made and after it is destroyed.    *)
LEMMA EmptyStep ==
  ASSUME IInv, [Next]_vars
  PROVE  Empty'
PROOF
<1>1. CASE pc \in {"idle", "asked", "gone"} /\ UNCHANGED setVars
  BY <1>1 DEF IInv, Empty, setVars
<1>2. CASE DestroySet
  BY <1>2 DEF DestroySet, Empty
<1>3. CASE pc' \notin {"idle", "asked", "gone"}
  BY <1>3 DEF Empty
<1>4. \/ pc \in {"idle", "asked", "gone"} /\ UNCHANGED setVars
      \/ DestroySet \/ pc' \notin {"idle", "asked", "gone"}
  <2>1. ASSUME NEW i \in Col, NEW g \in Types \union {Text}, Get(i, g)
        PROVE  pc' \notin {"idle", "asked", "gone"}
    BY <2>1 DEF Get
  <2>2. ASSUME NEW t \in Types, NEW v \in Values(t), Ask(t, v)
        PROVE  pc = "idle" /\ UNCHANGED setVars
    BY <2>2 DEF Ask
  <2>3. CASE UNCHANGED vars
    BY <2>3 DEF vars, setVars
  <2>4. QED
    BY <2>1, <2>2, <2>3 DEF Next, NoMetadata, StoreFails, NoRows, BindFails, BindResult, FetchRow,
           FetchEnds, NextRow, DestroyStatement
<1>5. QED
  BY <1>1, <1>2, <1>3, <1>4

(* What was read is forgotten before the next query.                         *)
LEMMA QuietStep ==
  ASSUME IInv, [Next]_vars
  PROVE  Quiet'
PROOF
<1>1. CASE pc \in {"idle", "asked", "fetching", "gone"} /\ got' = got
  BY <1>1 DEF IInv, Quiet
<1>2. CASE got' = Nothing
  BY <1>2 DEF Quiet
<1>3. CASE pc' \notin {"idle", "asked", "fetching", "gone"}
  BY <1>3 DEF Quiet
<1>4. \/ pc \in {"idle", "asked", "fetching", "gone"} /\ got' = got
      \/ got' = Nothing \/ pc' \notin {"idle", "asked", "fetching", "gone"}
  <2>1. ASSUME NEW i \in Col, NEW g \in Types \union {Text}, Get(i, g)
        PROVE  pc' \notin {"idle", "asked", "fetching", "gone"}
    BY <2>1 DEF Get
  <2>2. ASSUME NEW t \in Types, NEW v \in Values(t), Ask(t, v)
        PROVE  pc = "idle" /\ got' = got
    BY <2>2 DEF Ask
  <2>3. CASE UNCHANGED vars
    BY <2>3 DEF vars
  <2>4. QED
    BY <2>1, <2>2, <2>3 DEF Next, NoMetadata, StoreFails, NoRows, BindFails, BindResult, FetchRow,
           FetchEnds, NextRow, DestroySet, DestroyStatement
<1>5. QED
  BY <1>1, <1>2, <1>3, <1>4

-------------------------------------------------------------------------------
(* The arrays: a new pair takes the place of the one freed.                  *)
LEMMA OwnedStep ==
  ASSUME IInv, [Next]_vars
  PROVE  Owned'
PROOF
<1>1. /\ made \in 0 .. MaxQueries /\ MaxQueries \in Nat
      /\ freed \in [1 .. MaxQueries -> Nat] /\ failed \in BOOLEAN
  BY QueryAssumption DEF IInv, TypeOK
<1>2. stmt.done => stmt.arrays \in 1 .. made
  BY DEF IInv, Owned
<1>3. ~ failed => \A a \in 1 .. MaxQueries :
                    freed[a] = IF a \in 1 .. made /\ ~ Bound(a) THEN 1 ELSE 0
  BY DEF IInv, Owned
<1>4. pc = "asked" => made < MaxQueries
  BY DEF IInv, Asks
<1>5. CASE UNCHANGED <<heapVars>> /\ pc # "gone" /\ pc' # "gone"
  BY <1>2, <1>3, <1>5 DEF Owned, Bound, heapVars
<1>6. CASE UNCHANGED vars
  BY <1>2, <1>3, <1>6 DEF Owned, Bound, vars, heapVars
<1>7. CASE StoreFails
  <2>1. stmt' = stmt /\ pc = "asked" /\ pc' = "reading" /\ made' = made + 1
    BY <1>7 DEF StoreFails, NoRows, New
  <2>2. made' \in 1 .. MaxQueries
    BY <1>1, <1>4, <2>1
  <2>3. ASSUME ~ failed', NEW a \in 1 .. MaxQueries
        PROVE  freed'[a] = IF a \in 1 .. made' /\ ~ Bound(a)' THEN 1 ELSE 0
    <3>1. ~ failed /\ ~ stmt.done
      BY <1>7, <2>3 DEF StoreFails
    <3>2. freed' = [freed EXCEPT ![made + 1] = 1]
      BY <1>7, <3>1 DEF StoreFails, FreedBound, New
    <3>3. ~ Bound(a) /\ ~ Bound(a)'
      BY <2>1, <3>1 DEF Bound
    <3>4. a = made + 1 \/ (a \in 1 .. made' <=> a \in 1 .. made)
      BY <1>1, <2>1
    <3>5. QED
      BY <1>1, <1>3, <2>1, <2>2, <3>1, <3>2, <3>3, <3>4
  <2>4. stmt'.done => stmt'.arrays \in 1 .. made'
    BY <1>1, <1>2, <2>1
  <2>5. QED
    BY <2>3, <2>4 DEF Owned
<1>8. CASE BindResult
  <2>1. /\ pc = "asked" /\ pc' = "fetching" /\ made' = made + 1 /\ failed' = failed
        /\ stmt'.done /\ stmt'.arrays = made + 1
    BY <1>8 DEF BindResult, New
  <2>2. made' \in 1 .. MaxQueries
    BY <1>1, <1>4, <2>1
  <2>3. ASSUME ~ failed', NEW a \in 1 .. MaxQueries
        PROVE  freed'[a] = IF a \in 1 .. made' /\ ~ Bound(a)' THEN 1 ELSE 0
    <3>1. Bound(a)' <=> a = made + 1
      BY <2>1 DEF Bound
    <3>2. Bound(a) <=> stmt.done /\ a = stmt.arrays
      BY <2>1 DEF Bound
    <3>3. freed' = IF stmt.done THEN [freed EXCEPT ![stmt.arrays] = @ + 1] ELSE freed
      BY <1>8 DEF BindResult, FreedBound
    <3>4. freed[a] = IF a \in 1 .. made /\ ~ (stmt.done /\ a = stmt.arrays) THEN 1 ELSE 0
      BY <1>3, <2>1, <2>3, <3>2
    <3>5. freed'[a] = IF a \in 1 .. made THEN 1 ELSE 0
      <4>1. CASE stmt.done /\ a = stmt.arrays
        <5>1. freed[a] = 0 /\ a \in 1 .. made
          BY <1>2, <3>4, <4>1
        <5>2. freed'[a] = freed[a] + 1
          BY <1>1, <3>3, <4>1
        <5>3. QED
          BY <5>1, <5>2
      <4>2. CASE ~ (stmt.done /\ a = stmt.arrays)
        <5>1. freed'[a] = freed[a]
          BY <1>1, <3>3, <4>2
        <5>2. QED
          BY <3>4, <4>2, <5>1
      <4>3. QED
        BY <4>1, <4>2
    <3>6. a \in 1 .. made <=> a \in 1 .. made' /\ a # made + 1
      BY <1>1, <2>1
    <3>7. QED
      BY <3>1, <3>5, <3>6
  <2>4. stmt'.arrays \in 1 .. made'
    BY <1>1, <2>1
  <2>5. QED
    BY <2>3, <2>4 DEF Owned
<1>9. CASE FetchRow
  <2>1. /\ pc = "fetching" /\ pc' = pc /\ made' = made /\ freed' = freed /\ failed' = failed
        /\ stmt'.done = stmt.done /\ stmt'.arrays = stmt.arrays
    <3>1. stmt \in [done : BOOLEAN, arrays : 0 .. made, buffers : {<<>>} \union [Col -> Nat]]
      BY DEF IInv, TypeOK
    <3>2. QED
      BY <1>9, <3>1 DEF FetchRow
  <2>2. QED
    BY <1>2, <1>3, <2>1 DEF Owned, Bound
<1>10. CASE DestroySet
  BY <1>2, <1>3, <1>10 DEF DestroySet, CleanUp, Owned, Bound
<1>11. CASE DestroyStatement
  <2>1. pc = "idle" /\ pc' = "gone" /\ stmt' = stmt /\ made' = made /\ failed' = failed
    BY <1>11 DEF DestroyStatement
  <2>2. ASSUME ~ failed', NEW a \in 1 .. MaxQueries
        PROVE  freed'[a] = IF a \in 1 .. made' /\ ~ Bound(a)' THEN 1 ELSE 0
    <3>1. ~ Bound(a)' /\ (Bound(a) <=> stmt.done /\ a = stmt.arrays)
      BY <2>1 DEF Bound
    <3>2. freed' = IF stmt.done THEN [freed EXCEPT ![stmt.arrays] = @ + 1] ELSE freed
      BY <1>11 DEF DestroyStatement, FreedBound
    <3>3. freed[a] = IF a \in 1 .. made /\ ~ (stmt.done /\ a = stmt.arrays) THEN 1 ELSE 0
      BY <1>3, <2>1, <2>2, <3>1
    <3>4. CASE stmt.done /\ a = stmt.arrays
      <4>1. freed[a] = 0 /\ a \in 1 .. made /\ freed'[a] = freed[a] + 1
        BY <1>1, <1>2, <3>2, <3>3, <3>4
      <4>2. QED
        BY <2>1, <3>1, <4>1
    <3>5. CASE ~ (stmt.done /\ a = stmt.arrays)
      <4>1. freed'[a] = freed[a]
        BY <1>1, <3>2, <3>5
      <4>2. QED
        BY <2>1, <3>1, <3>3, <3>5, <4>1
    <3>6. QED
      BY <3>4, <3>5
  <2>3. QED
    BY <1>2, <2>1, <2>2 DEF Owned
<1>12. \/ UNCHANGED <<heapVars>> /\ pc # "gone" /\ pc' # "gone"
       \/ UNCHANGED vars \/ StoreFails \/ BindResult \/ FetchRow \/ DestroySet \/ DestroyStatement
  <2>1. ASSUME NEW i \in Col, NEW g \in Types \union {Text}, Get(i, g)
        PROVE  UNCHANGED <<heapVars>> /\ pc # "gone" /\ pc' # "gone"
    BY <2>1 DEF Get
  <2>2. ASSUME NEW t \in Types, NEW v \in Values(t), Ask(t, v)
        PROVE  UNCHANGED <<heapVars>> /\ pc # "gone" /\ pc' # "gone"
    BY <2>2 DEF Ask
  <2>3. QED
    BY <2>1, <2>2 DEF Next, NoMetadata, NoRows, BindFails, FetchEnds, NextRow
<1>13. QED
  BY <1>5, <1>6, <1>7, <1>8, <1>9, <1>10, <1>11, <1>12

-------------------------------------------------------------------------------
(* Fetching a row. The cells it has,                                         *)
Full == {i \in Col : answer[pos + 1][i] # Null}

(* and the bytes each is written to.                                         *)
Filled(i) == stmt.buffers[i] .. stmt.buffers[i] + Length(answer[pos + 1], i) - 1

(* The layout depends on the answer alone.                                   *)
LEMMA LayoutStays ==
  ASSUME answer' = answer
  PROVE  Size' = Size /\ Offset' = Offset /\ RowSize' = RowSize
PROOF
<1>1. \A i : Longest(i)' = Longest(i)
  BY SMT DEF Longest
<1>2. Size' = Size
  BY <1>1 DEF Size
<1>3. Offset' = Offset
  BY <1>2, SMT DEF Offset
<1>4. QED
  BY <1>2, <1>3 DEF RowSize

(* The state in which a row is fetched.                                      *)
LEMMA FetchState ==
  ASSUME IInv, FetchRow
  PROVE  /\ answer' = answer /\ pos \in Nat /\ pos' = pos + 1 /\ pos < count /\ count \in Nat
         /\ count = Len(answer) /\ Len(cells) = pos /\ pos + 1 \in 1 .. Len(answer)
         /\ DOMAIN mem = 0 .. RowSize * count - 1
         /\ stmt.buffers \in [Col -> Nat]
PROOF
<1>1. pc = "fetching" /\ pos < count /\ answer' = answer /\ pos' = pos + 1
  BY DEF FetchRow
<1>2. stmt.buffers \in [Col -> Nat] /\ count = Len(answer) /\ Len(cells) = pos
  BY <1>1 DEF IInv, InPlace
<1>3. Len(answer) \in Nat
  BY DEF IInv, Answered
<1>4. pos \in 0 .. count /\ DOMAIN mem = (IF count = 0 THEN {} ELSE 0 .. RowSize * count - 1)
  BY DEF IInv, TypeOK
<1>5. pos \in Nat /\ pos + 1 \in 1 .. Len(answer) /\ count # 0
  BY <1>1, <1>2, <1>3, <1>4
<1>6. QED
  BY <1>1, <1>2, <1>3, <1>4, <1>5

(* Each cell is written to a slot of its column that no cell has.            *)
LEMMA FilledIs ==
  ASSUME IInv, FetchRow, NEW i \in Full
  PROVE  \E n \in 0 .. pos :
           /\ stmt.buffers[i] = Place(n, i)
           /\ Filled(i) \subseteq Slot(n, i) /\ Filled(i) \subseteq DOMAIN mem
           /\ \A k \in 0 .. Length(answer[pos + 1], i) - 1 : stmt.buffers[i] + k \in Filled(i)
           /\ stmt.buffers[i] \in Filled(i)
           /\ \A r \in 1 .. Len(cells) :
                cells[r][i] # Null => \E m \in 0 .. n - 1 : cells[r][i] = Place(m, i)
PROOF
<1>1. Answered /\ i \in Col /\ answer[pos + 1][i] # Null
  BY DEF IInv, Full
<1>2. pc = "fetching"
  BY DEF FetchRow
<1>3. PICK n \in 0 .. pos :
        /\ stmt.buffers[i] = Place(n, i)
        /\ \A r \in 1 .. Len(cells) :
             cells[r][i] # Null => \E m \in 0 .. n - 1 : cells[r][i] = Place(m, i)
  BY <1>1, <1>2 DEF IInv, InPlace
<1>4. n \in Nat /\ n < count /\ count \in Nat
  BY FetchState
<1>5. Length(answer[pos + 1], i) \in 1 .. Size[i] /\ Size[i] \in Nat
  BY <1>1, SizeHolds, FetchState
<1>6. Place(n, i) \in Nat
  BY <1>1, <1>4, PlaceIs
<1>7. Filled(i) = Place(n, i) .. Place(n, i) + Length(answer[pos + 1], i) - 1
  BY <1>3 DEF Filled
<1>8. Filled(i) \subseteq Slot(n, i)
  BY <1>5, <1>6, <1>7 DEF Slot
<1>9. Slot(n, i) \subseteq 0 .. RowSize * count - 1
  BY <1>1, <1>4, SlotInside
<1>10. Filled(i) \subseteq DOMAIN mem
  BY <1>8, <1>9, FetchState
<1>11. \A k \in 0 .. Length(answer[pos + 1], i) - 1 : stmt.buffers[i] + k \in Filled(i)
  BY <1>3, <1>5, <1>6, <1>7
<1>12. stmt.buffers[i] \in Filled(i)
  BY <1>3, <1>5, <1>6, <1>7
<1>13. QED
  BY <1>3, <1>8, <1>10, <1>11, <1>12

(* Two cells of the row have no byte in common.                              *)
LEMMA FilledApart ==
  ASSUME IInv, FetchRow, NEW i \in Full, NEW j \in Full, i # j
  PROVE  Filled(i) \cap Filled(j) = {}
PROOF
<1>1. PICK m \in 0 .. pos : Filled(i) \subseteq Slot(m, i)
  BY FilledIs
<1>2. PICK n \in 0 .. pos : Filled(j) \subseteq Slot(n, j)
  BY FilledIs
<1>3. Answered /\ m \in Nat /\ n \in Nat /\ i \in Col /\ j \in Col
  BY FetchState DEF IInv, Full
<1>4. Slot(m, i) \cap Slot(n, j) = {}
  BY <1>3, SlotsApart
<1>5. QED
  BY <1>1, <1>2, <1>4

(* What FetchRow writes.                                                     *)
LEMMA FetchWrites ==
  ASSUME IInv, FetchRow
  PROVE  /\ DOMAIN mem' = DOMAIN mem
         /\ \A o \in DOMAIN mem : (\A i \in Full : o \notin Filled(i)) => mem'[o] = mem[o]
         /\ \A i \in Full : \A o \in Filled(i) :
              /\ o \in DOMAIN mem
              /\ mem'[o] = Byte(answer[pos + 1], i, o - stmt.buffers[i])
PROOF
<1> DEFINE At(o) == {i \in Full : o \in Filled(i)}
           Writer(o) == CHOOSE j \in At(o) : \A k \in At(o) : k <= j
<1>1. mem' = [o \in DOMAIN mem |->
                IF At(o) = {} THEN mem[o]
                ELSE Byte(answer[pos + 1], Writer(o), o - stmt.buffers[Writer(o)])]
  BY DEF FetchRow, Full, Filled
<1>2. ASSUME NEW i \in Full, NEW o \in Filled(i)
      PROVE  At(o) = {i} /\ Writer(o) = i /\ o \in DOMAIN mem
  <2>1. \A j \in Full : o \in Filled(j) => j = i
    BY FilledApart
  <2>2. At(o) = {i}
    BY <2>1
  <2>3. i \in Nat
    BY ColumnsAre DEF Full
  <2>4. Writer(o) = i
    <3> HIDE DEF At
    <3>1. \E j \in At(o) : \A k \in At(o) : k <= j
      BY <2>2, <2>3
    <3>2. Writer(o) \in At(o)
      BY <3>1
    <3>3. QED
      BY <2>2, <3>2
  <2>5. o \in DOMAIN mem
    BY FilledIs
  <2>6. QED
    BY <2>2, <2>4, <2>5
<1>3. \A o \in DOMAIN mem : (\A i \in Full : o \notin Filled(i)) => At(o) = {}
  OBVIOUS
<1> HIDE DEF At, Writer
<1>4. ASSUME NEW i \in Full, NEW o \in Filled(i)
      PROVE  o \in DOMAIN mem /\ mem'[o] = Byte(answer[pos + 1], i, o - stmt.buffers[i])
  <2>1. At(o) # {} /\ Writer(o) = i /\ o \in DOMAIN mem
    BY <1>2
  <2>2. QED
    BY <1>1, <2>1
<1>5. QED
  BY <1>1, <1>3, <1>4

(* The new row is behind the others, its cells where they were written.      *)
LEMMA FetchCells ==
  ASSUME IInv, FetchRow
  PROVE  /\ Len(cells') = pos + 1 /\ cells' \in Seq([Col -> DOMAIN mem \union {Null}])
         /\ \A r \in 1 .. Len(cells) : cells'[r] = cells[r]
         /\ \A i \in Col : cells'[pos + 1][i] = IF i \in Full THEN stmt.buffers[i] ELSE Null
PROOF
<1> DEFINE new == [i \in Col |-> IF i \in Full THEN stmt.buffers[i] ELSE Null]
<1>1. cells' = Append(cells, new)
  BY DEF FetchRow, Full
<1>2. cells \in Seq([Col -> DOMAIN mem \union {Null}]) /\ Len(cells) = pos
  BY FetchState DEF IInv, TypeOK
<1>3. \A i \in Full : stmt.buffers[i] \in DOMAIN mem
  BY FilledIs
<1>4. new \in [Col -> DOMAIN mem \union {Null}]
  BY <1>3
<1> HIDE DEF new
<1>5. /\ Len(cells') = pos + 1 /\ cells' \in Seq([Col -> DOMAIN mem \union {Null}])
      /\ \A r \in 1 .. Len(cells) : cells'[r] = cells[r]
      /\ cells'[pos + 1] = new
  BY <1>1, <1>2, <1>4
<1>6. QED
  BY <1>5 DEF new

(* The buffers stay in place: that of a cell that was fetched moves on,      *)
(* that of a null stays where it is.                                         *)
LEMMA InPlaceStep ==
  ASSUME IInv, [Next]_vars
  PROVE  InPlace'
PROOF
<1>1. CASE UNCHANGED vars
  <2>1. UNCHANGED <<pc, stmt, answer, count, pos, cells>> /\ Offset' = Offset /\ RowSize' = RowSize
    BY <1>1, LayoutStays DEF vars, heapVars, setVars
  <2>2. QED
    BY <2>1 DEF IInv, InPlace, Place
<1>2. CASE BindResult
  <2>1. /\ answer' = answer /\ cells' = <<>> /\ pos' = 0 /\ count' = Len(answer) /\ stmt'.done
        /\ stmt'.buffers = [i \in Col |-> Offset[i]]
    BY <1>2 DEF BindResult
  <2>2. Offset' = Offset /\ RowSize' = RowSize
    BY <2>1, LayoutStays
  <2>3. ASSUME NEW i \in Col PROVE Offset[i] \in Nat /\ Place(0, i)' = Offset[i]
    <3>1. Answered /\ 0 \in Nat
      BY DEF IInv
    <3>2. RowSize \in Nat /\ Offset[i] \in Nat
      BY <3>1, ColumnsApart
    <3>3. RowSize * 0 + Offset[i] = Offset[i]
      BY <3>2
    <3>4. QED
      BY <2>2, <3>2, <3>3 DEF Place
  <2>4. stmt'.buffers \in [Col -> Nat]
    BY <2>1, <2>3
  <2>5. ASSUME NEW i \in Col
        PROVE  \E n \in 0 .. pos' :
                 /\ stmt'.buffers[i] = Place(n, i)'
                 /\ \A r \in 1 .. Len(cells') :
                      cells'[r][i] # Null => \E m \in 0 .. n - 1 : cells'[r][i] = Place(m, i)'
    <3>1. 0 \in 0 .. pos' /\ stmt'.buffers[i] = Place(0, i)'
      BY <2>1, <2>3
    <3>2. 1 .. Len(cells') = {}
      BY <2>1
    <3>3. QED
      BY <3>1, <3>2
  <2>6. QED
    BY <2>1, <2>4, <2>5 DEF InPlace
<1>3. CASE FetchRow
  <2>1. /\ answer' = answer /\ pos \in Nat /\ pos' = pos + 1 /\ count = Len(answer) /\ Len(cells) = pos
        /\ stmt.buffers \in [Col -> Nat] /\ pc = "fetching"
    BY <1>3, FetchState DEF FetchRow
  <2>2. stmt.done /\ count' = count
    BY <1>3, <2>1 DEF IInv, InPlace, FetchRow
  <2>3. stmt'.done = stmt.done
    <3>1. stmt \in [done : BOOLEAN, arrays : 0 .. made, buffers : {<<>>} \union [Col -> Nat]]
      BY DEF IInv, TypeOK
    <3>2. QED
      BY <1>3, <3>1 DEF FetchRow
  <2>4. stmt'.buffers = [i \in Col |-> IF i \in Full THEN stmt.buffers[i] + RowSize ELSE stmt.buffers[i]]
    <3>1. stmt \in [done : BOOLEAN, arrays : 0 .. made, buffers : {<<>>} \union [Col -> Nat]]
      BY DEF IInv, TypeOK
    <3>2. QED
      BY <1>3, <3>1 DEF FetchRow, Full, Advance
  <2>5. Offset' = Offset /\ RowSize' = RowSize
    BY <2>1, LayoutStays
  <2>6. \A m \in Nat, i \in Col : Place(m, i)' = Place(m, i)
    BY <2>5 DEF Place
  <2>7. Answered /\ RowSize \in Nat
    BY ColumnsApart DEF IInv
  <2>8. /\ Len(cells') = pos + 1 /\ \A r \in 1 .. Len(cells) : cells'[r] = cells[r]
        /\ \A i \in Col : cells'[pos + 1][i] = IF i \in Full THEN stmt.buffers[i] ELSE Null
    BY <1>3, FetchCells
  <2>9. stmt'.buffers \in [Col -> Nat]
    BY <2>1, <2>4, <2>7
  <2>10. ASSUME NEW i \in Col
         PROVE  \E n \in 0 .. pos + 1 :
                  /\ stmt'.buffers[i] = Place(n, i)
                  /\ \A r \in 1 .. pos + 1 :
                       cells'[r][i] # Null => \E m \in 0 .. n - 1 : cells'[r][i] = Place(m, i)
    <3>1. PICK n \in 0 .. pos :
            /\ stmt.buffers[i] = Place(n, i)
            /\ \A r \in 1 .. Len(cells) :
                 cells[r][i] # Null => \E m \in 0 .. n - 1 : cells[r][i] = Place(m, i)
      BY <2>1 DEF IInv, InPlace
    <3>2. n \in Nat /\ \A r \in 1 .. pos + 1 : r = pos + 1 \/ r \in 1 .. Len(cells)
      BY <2>1
    <3>3. CASE i \in Full
      <4>1. stmt'.buffers[i] = Place(n + 1, i) /\ n + 1 \in 0 .. pos + 1
        <5>1. Place(n, i) + RowSize = Place(n + 1, i)
          BY <2>7, <3>2, PlaceIs
        <5>2. stmt'.buffers[i] = stmt.buffers[i] + RowSize
          BY <2>4, <3>3
        <5>3. n + 1 \in 0 .. pos + 1
          BY <2>1, <3>2
        <5>4. QED
          BY <3>1, <5>1, <5>2, <5>3
      <4>2. ASSUME NEW r \in 1 .. pos + 1, cells'[r][i] # Null
            PROVE  \E m \in 0 .. n + 1 - 1 : cells'[r][i] = Place(m, i)
        <5>1. CASE r = pos + 1
          <6>1. cells'[r][i] = Place(n, i) /\ n \in 0 .. n + 1 - 1
            BY <2>8, <3>1, <3>2, <3>3, <5>1
          <6>2. QED
            BY <6>1
        <5>2. CASE r \in 1 .. Len(cells)
          <6>1. PICK m \in 0 .. n - 1 : cells[r][i] = Place(m, i)
            BY <2>8, <3>1, <4>2, <5>2
          <6>2. m \in 0 .. n + 1 - 1 /\ cells'[r][i] = Place(m, i)
            BY <2>8, <3>2, <5>2, <6>1
          <6>3. QED
            BY <6>2
        <5>3. QED
          BY <3>2, <5>1, <5>2
      <4>3. QED
        BY <4>1, <4>2
    <3>4. CASE i \notin Full
      <4>1. stmt'.buffers[i] = Place(n, i) /\ n \in 0 .. pos + 1
        BY <2>1, <2>4, <3>1, <3>4
      <4>2. ASSUME NEW r \in 1 .. pos + 1, cells'[r][i] # Null
            PROVE  \E m \in 0 .. n - 1 : cells'[r][i] = Place(m, i)
        <5>1. r \in 1 .. Len(cells)
          BY <2>8, <3>2, <3>4, <4>2
        <5>2. QED
          BY <2>8, <3>1, <4>2, <5>1
      <4>3. QED
        BY <4>1, <4>2
    <3>5. QED
      BY <3>3, <3>4
  <2>11. ASSUME NEW i \in Col
         PROVE  \E n \in 0 .. pos' :
                  /\ stmt'.buffers[i] = Place(n, i)'
                  /\ \A r \in 1 .. Len(cells') :
                       cells'[r][i] # Null => \E m \in 0 .. n - 1 : cells'[r][i] = Place(m, i)'
    <3>1. PICK n \in 0 .. pos + 1 :
            /\ stmt'.buffers[i] = Place(n, i)
            /\ \A r \in 1 .. pos + 1 :
                 cells'[r][i] # Null => \E m \in 0 .. n - 1 : cells'[r][i] = Place(m, i)
      BY <2>10
    <3>2. n \in Nat /\ n \in 0 .. pos' /\ \A m \in 0 .. n - 1 : m \in Nat
      BY <2>1
    <3>3. stmt'.buffers[i] = Place(n, i)'
      BY <2>6, <3>1, <3>2
    <3>4. ASSUME NEW r \in 1 .. Len(cells'), cells'[r][i] # Null
          PROVE  \E m \in 0 .. n - 1 : cells'[r][i] = Place(m, i)'
      <4>1. PICK m \in 0 .. n - 1 : cells'[r][i] = Place(m, i)
        BY <2>8, <3>1, <3>4
      <4>2. cells'[r][i] = Place(m, i)'
        BY <2>6, <3>2, <4>1
      <4>3. QED
        BY <4>2
    <3>5. QED
      BY <3>2, <3>3, <3>4
  <2>12. count' = Len(answer') /\ Len(cells') = pos'
    BY <2>1, <2>2, <2>8
  <2>13. QED
    BY <2>2, <2>3, <2>9, <2>11, <2>12 DEF InPlace
<1>4. CASE pc' # "fetching"
  BY <1>4 DEF InPlace
<1>5. \/ UNCHANGED vars \/ BindResult \/ FetchRow \/ pc' # "fetching"
  <2>1. ASSUME NEW i \in Col, NEW g \in Types \union {Text}, Get(i, g) PROVE pc' # "fetching"
    BY <2>1 DEF Get
  <2>2. ASSUME NEW t \in Types, NEW v \in Values(t), Ask(t, v) PROVE pc' # "fetching"
    BY <2>2 DEF Ask
  <2>3. QED
    BY <2>1, <2>2 DEF Next, NoMetadata, StoreFails, NoRows, BindFails, FetchEnds, NextRow,
           DestroySet, DestroyStatement
<1>6. QED
  BY <1>1, <1>2, <1>3, <1>4, <1>5

(* Fetched cells keep their bytes, and those of the new row are written.     *)
LEMMA FetchKeepsBytes ==
  ASSUME IInv, FetchRow
  PROVE  CellsKeepTheirBytes'
PROOF
<1> DEFINE row == answer[pos + 1]
<1>1. /\ answer' = answer /\ pos \in Nat /\ Len(cells) = pos
      /\ stmt.buffers \in [Col -> Nat] /\ pos + 1 \in 1 .. Len(answer)
  BY FetchState
<1>2. /\ DOMAIN mem' = DOMAIN mem
      /\ \A o \in DOMAIN mem : (\A i \in Full : o \notin Filled(i)) => mem'[o] = mem[o]
      /\ \A i \in Full : \A o \in Filled(i) :
           o \in DOMAIN mem /\ mem'[o] = Byte(row, i, o - stmt.buffers[i])
  BY FetchWrites
<1>3. /\ Len(cells') = pos + 1 /\ \A r \in 1 .. Len(cells) : cells'[r] = cells[r]
      /\ \A i \in Col : cells'[pos + 1][i] = IF i \in Full THEN stmt.buffers[i] ELSE Null
  BY FetchCells
<1>4. Answered /\ CellsKeepTheirBytes
  BY DEF IInv
<1> SUFFICES ASSUME NEW r \in 1 .. Len(cells'), NEW i \in Col
             PROVE  /\ cells'[r][i] = Null <=> answer[r][i] = Null
                    /\ cells'[r][i] # Null =>
                         \A k \in 0 .. Length(answer[r], i) - 1 :
                           /\ cells'[r][i] + k \in DOMAIN mem
                           /\ mem'[cells'[r][i] + k]
                                = IF Columns[i] = Text /\ k = answer[r][i] THEN End ELSE <<r, i, k>>
  BY <1>1, <1>2 DEF CellsKeepTheirBytes, Length
<1>5. CASE r \in 1 .. Len(cells)
  <2>1. cells'[r] = cells[r] /\ (cells[r][i] = Null <=> answer[r][i] = Null)
    BY <1>3, <1>4, <1>5 DEF CellsKeepTheirBytes
  <2>2. ASSUME cells[r][i] # Null, NEW k \in 0 .. Length(answer[r], i) - 1
        PROVE  /\ cells[r][i] + k \in DOMAIN mem
               /\ mem'[cells[r][i] + k]
                    = IF Columns[i] = Text /\ k = answer[r][i] THEN End ELSE <<r, i, k>>
    <3> DEFINE o == cells[r][i] + k
    <3>1. /\ o \in DOMAIN mem
          /\ mem[o] = IF Columns[i] = Text /\ k = answer[r][i] THEN End ELSE <<r, i, k>>
      BY <1>4, <1>5, <2>2 DEF CellsKeepTheirBytes
    <3>2. PICK n \in 0 .. pos :
            \E m \in 0 .. n - 1 : stmt.buffers[i] = Place(n, i) /\ cells[r][i] = Place(m, i)
      <4>1. pc = "fetching"
        BY DEF FetchRow
      <4>2. QED
        BY <1>5, <2>2, <4>1 DEF IInv, InPlace
    <3>3. PICK m \in 0 .. n - 1 : stmt.buffers[i] = Place(n, i) /\ cells[r][i] = Place(m, i)
      BY <3>2
    <3>4. n \in Nat /\ m \in Nat /\ m < n
      BY <1>1
    <3>5. o \in Slot(m, i)
      <4>1. r \in 1 .. Len(answer) /\ answer[r][i] # Null
        BY <1>1, <1>5, <2>1, <2>2
      <4>2. Length(answer[r], i) \in 1 .. Size[i] /\ Size[i] \in Nat
        BY <1>4, <4>1, SizeHolds
      <4>3. Place(m, i) \in Nat
        BY <1>4, <3>4, PlaceIs
      <4>4. QED
        BY <3>3, <4>2, <4>3 DEF Slot
    <3> HIDE DEF o
    <3>6. ASSUME NEW j \in Full PROVE o \notin Filled(j)
      <4>1. PICK l \in 0 .. pos : stmt.buffers[j] = Place(l, j) /\ Filled(j) \subseteq Slot(l, j)
        BY FilledIs
      <4>2. l \in Nat /\ j \in Col
        BY <1>1 DEF Full
      <4>3. i # j \/ m # l
        <5> SUFFICES ASSUME i = j PROVE m # l
          OBVIOUS
        <5>1. Place(l, i) = Place(n, i)
          BY <3>3, <4>1
        <5>2. CASE l = n
          BY <3>4, <5>2
        <5>3. CASE l # n
          <6>1. Slot(l, i) \cap Slot(n, i) = {}
            BY <1>4, <3>4, <4>2, <5>3, SlotsApart
          <6>2. Size[i] \in Nat \ {0} /\ Place(n, i) \in Nat
            BY <1>4, <3>4, SizeHolds, PlaceIs
          <6>3. Place(n, i) \in Slot(n, i) /\ Place(l, i) \in Slot(l, i)
            BY <5>1, <6>2 DEF Slot
          <6>4. QED
            BY <5>1, <6>1, <6>3
        <5>4. QED
          BY <5>2, <5>3
      <4>4. Slot(m, i) \cap Slot(l, j) = {}
        BY <1>4, <3>4, <4>2, <4>3, SlotsApart
      <4>5. QED
        BY <3>5, <4>1, <4>4
    <3>7. mem'[o] = mem[o]
      BY <1>2, <3>1, <3>6
    <3>8. QED
      BY <3>1, <3>7 DEF o
  <2>3. QED
    BY <2>1, <2>2
<1>6. CASE r = pos + 1
  <2>1. i \in Full <=> answer[r][i] # Null
    BY <1>6 DEF Full
  <2>2. cells'[r][i] = IF i \in Full THEN stmt.buffers[i] ELSE Null
    BY <1>3, <1>6
  <2>3. stmt.buffers[i] # Null
    BY <1>1, QueryAssumption
  <2>4. ASSUME i \in Full, NEW k \in 0 .. Length(row, i) - 1
        PROVE  /\ stmt.buffers[i] + k \in DOMAIN mem
               /\ mem'[stmt.buffers[i] + k]
                    = IF Columns[i] = Text /\ k = row[i] THEN End ELSE <<pos + 1, i, k>>
    <3>1. stmt.buffers[i] + k \in Filled(i)
      BY <2>4, FilledIs
    <3> DEFINE o == stmt.buffers[i] + k
    <3>2. o \in DOMAIN mem /\ mem'[o] = Byte(row, i, o - stmt.buffers[i])
      <4> HIDE DEF o, row
      <4>1. o \in Filled(i)
        BY <3>1 DEF o
      <4>2. QED
        BY <1>2, <2>4, <4>1
    <3>3. k \in Int /\ stmt.buffers[i] \in Nat
      BY <1>1
    <3>4. o - stmt.buffers[i] = k
      BY <3>3
    <3>5. mem'[o] = Byte(row, i, k)
      <4> HIDE DEF o, row
      <4>1. QED
        BY <3>2, <3>4
    <3>6. Byte(row, i, k) = IF Columns[i] = Text /\ k = row[i] THEN End ELSE <<pos + 1, i, k>>
      BY DEF Byte
    <3>7. QED
      BY <3>2, <3>5, <3>6
  <2>5. QED
    BY <1>6, <2>1, <2>2, <2>3, <2>4
<1>7. r \in 1 .. Len(cells) \/ r = pos + 1
  BY <1>1, <1>3
<1>8. QED
  BY <1>5, <1>6, <1>7

(* Only FetchRow writes to a buffer that has cells.                          *)
LEMMA BytesStep ==
  ASSUME IInv, [Next]_vars
  PROVE  CellsKeepTheirBytes'
PROOF
<1>1. CASE UNCHANGED <<answer, mem, cells>>
  BY <1>1 DEF IInv, CellsKeepTheirBytes, Length
<1>2. CASE cells' = <<>>
  BY <1>2 DEF CellsKeepTheirBytes
<1>3. CASE FetchRow
  BY <1>3, FetchKeepsBytes
<1>4. UNCHANGED <<answer, mem, cells>> \/ cells' = <<>> \/ FetchRow
  <2>1. ASSUME NEW i \in Col, NEW g \in Types \union {Text}, Get(i, g)
        PROVE  UNCHANGED <<answer, mem, cells>>
    BY <2>1 DEF Get, setVars
  <2>2. ASSUME NEW t \in Types, NEW v \in Values(t), Ask(t, v) PROVE cells' = <<>>
    BY <2>2 DEF Ask, setVars, IInv, Empty
  <2>3. CASE UNCHANGED vars
    BY <2>3 DEF vars, setVars
  <2>4. QED
    BY <2>1, <2>2, <2>3 DEF Next, NoMetadata, StoreFails, NoRows, BindFails, BindResult, FetchEnds,
           NextRow, DestroySet, DestroyStatement, setVars
<1>5. QED
  BY <1>1, <1>2, <1>3, <1>4

-------------------------------------------------------------------------------
(* What the getters read in a cell: the whole text,                          *)
LEMMA TextIs ==
  ASSUME IInv, NEW r \in 1 .. Len(cells), NEW i \in Col, cells[r][i] # Null, Columns[i] = Text
  PROVE  /\ answer[r][i] \in Nat
         /\ TextAt(cells[r][i]) = [k \in 1 .. answer[r][i] |-> <<r, i, k - 1>>]
PROOF
<1> DEFINE o == cells[r][i]
           l == answer[r][i]
           Is(k) == mem[o + k] = End /\ \A j \in 0 .. k - 1 : mem[o + j] # End
           last == RowSize * count - o
           n == CHOOSE k \in 0 .. last : Is(k)
<1>1. r \in 1 .. Len(answer) /\ r \in Nat
  <2>1. Len(cells) \in Nat /\ Len(answer) \in Nat /\ Len(cells) <= count /\ count \in {0, Len(answer)}
    BY DEF IInv, TypeOK, Answered
  <2>2. QED
    BY <2>1
<1>2. l # Null
  BY DEF IInv, CellsKeepTheirBytes
<1>3. l \in Nat
  BY <1>1, <1>2, CellIs DEF IInv
<1>4. Length(answer[r], i) = l + 1
  BY DEF Length
<1>5. \A k \in 0 .. l : o + k \in DOMAIN mem /\ mem[o + k] = IF k = l THEN End ELSE <<r, i, k>>
  <2>1. \A k \in 0 .. Length(answer[r], i) - 1 :
          /\ o + k \in DOMAIN mem
          /\ mem[o + k] = IF Columns[i] = Text /\ k = l THEN End ELSE <<r, i, k>>
    BY DEF IInv, CellsKeepTheirBytes
  <2> HIDE DEF o, l
  <2>2. 0 .. Length(answer[r], i) - 1 = 0 .. l
    BY <1>3, <1>4
  <2>3. QED
    BY <2>1, <2>2
<1>6. \A k : <<r, i, k>> # End
  BY <1>1 DEF End
<1>7. l \in 0 .. last
  <2>1. o + l \in DOMAIN mem /\ o + 0 \in DOMAIN mem /\ count \in Nat
    <3>1. 0 \in 0 .. l /\ l \in 0 .. l
      BY <1>3
    <3>2. count \in Nat
      BY DEF IInv, TypeOK, Answered
    <3>3. QED
      BY <1>5, <3>1, <3>2
  <2>2. DOMAIN mem \subseteq 0 .. RowSize * count - 1
    BY DEF IInv, TypeOK
  <2>3. RowSize \in Nat /\ RowSize * count \in Nat
    BY <2>1, ColumnsApart DEF IInv
  <2>4. o \in Int
    <3>1. cells[r] \in [Col -> DOMAIN mem \union {Null}]
      BY DEF IInv, TypeOK
    <3>2. QED
      BY <2>2, <3>1
  <2> HIDE DEF o, l
  <2>5. QED
    BY <1>3, <2>1, <2>2, <2>3, <2>4 DEF last
<1>8. Is(l)
  <2> HIDE DEF o, l
  <2>1. l \in 0 .. l /\ \A j \in 0 .. l - 1 : j \in 0 .. l /\ j # l
    BY <1>3
  <2>2. QED
    BY <1>5, <1>6, <2>1
<1>9. \A k \in 0 .. last : Is(k) => k = l
  <2> HIDE DEF o, l, last
  <2> SUFFICES ASSUME NEW k \in 0 .. last, Is(k) PROVE k = l
    OBVIOUS
  <2>1. k \in Nat
    BY DEF last
  <2>2. CASE k < l
    <3>1. mem[o + k] = <<r, i, k>>
      <4>1. k \in 0 .. l /\ k # l
        BY <1>3, <2>1, <2>2
      <4>2. QED
        BY <1>5, <4>1
    <3>2. QED
      BY <1>6, <3>1
  <2>3. CASE k > l
    <3>1. l \in 0 .. k - 1 /\ mem[o + l] = End
      <4>1. l \in 0 .. l /\ l \in 0 .. k - 1
        BY <1>3, <2>1, <2>3
      <4>2. QED
        BY <1>5, <4>1
    <3>2. QED
      BY <3>1
  <2>4. QED
    BY <1>3, <2>1, <2>2, <2>3
<1> HIDE DEF Is, last
<1>10. n = l
  BY <1>7, <1>8, <1>9
<1>11. TextAt(o) = [k \in 1 .. l |-> mem[o + k - 1]]
  BY <1>10 DEF TextAt, n, Is, last
<1>12. ASSUME NEW k \in 1 .. l PROVE mem[o + k - 1] = <<r, i, k - 1>>
  <2> DEFINE j == k - 1
  <2>1. j \in 0 .. l /\ j # l
    BY <1>3
  <2>2. mem[o + j] = <<r, i, j>>
    <3> HIDE DEF j
    <3>1. QED
      BY <1>5, <2>1
  <2>3. o + j = o + k - 1
    <3>1. o \in Int
      <4>1. cells[r] \in [Col -> DOMAIN mem \union {Null}] /\ DOMAIN mem \subseteq Int
        BY DEF IInv, TypeOK
      <4>2. QED
        BY <4>1
    <3>2. QED
      BY <1>3, <3>1
  <2>4. QED
    BY <2>2, <2>3
<1>13. QED
  BY <1>3, <1>11, <1>12

(* and the number of the row and the column.                                 *)
LEMMA NumberIs ==
  ASSUME IInv, NEW r \in 1 .. Len(cells), NEW i \in Col, cells[r][i] # Null, Columns[i] # Text
  PROVE  NumberAt(cells[r][i]) = answer[r][i] /\ answer[r][i] \in Values(Columns[i])
PROOF
<1> DEFINE o == cells[r][i]
<1>1. r \in 1 .. Len(answer)
  <2>1. Len(cells) \in Nat /\ Len(answer) \in Nat /\ Len(cells) <= count /\ count \in {0, Len(answer)}
    BY DEF IInv, TypeOK, Answered
  <2>2. QED
    BY <2>1
<1>2. answer[r][i] # Null
  BY DEF IInv, CellsKeepTheirBytes
<1>3. answer[r][i] \in Values(Columns[i])
  BY <1>1, <1>2, CellIs DEF IInv
<1>4. Length(answer[r], i) = Columns[i].bits /\ Columns[i].bits \in Nat \ {0}
  BY ColumnsAre DEF Length
<1>5. o \in Int
  <2>1. cells[r] \in [Col -> DOMAIN mem \union {Null}] /\ DOMAIN mem \subseteq Int
    BY DEF IInv, TypeOK
  <2>2. QED
    BY <2>1
<1>6. mem[o + 0] = <<r, i, 0>>
  <2>1. 0 \in 0 .. Length(answer[r], i) - 1
    BY <1>4
  <2>2. QED
    BY <2>1 DEF IInv, CellsKeepTheirBytes
<1>7. mem[o] = <<r, i, 0>>
  BY <1>5, <1>6
<1>8. QED
  BY <1>3, <1>7 DEF NumberAt

(* What Get tells: the row is one that was fetched, if there is a field.     *)
LEMMA GetTells ==
  ASSUME IInv, NEW i \in Col, NEW g \in Types \union {Text}, Get(i, g)
  PROVE  GettersTell'
PROOF
<1> DEFINE Is(kind, value) == [kind |-> kind, row |-> pos + 1, col |-> i, as |-> g, value |-> value]
           cell == cells[pos + 1][i]
           v == answer[pos + 1][i]
           u == Columns[i]
<1>1. got' = Reading(i, g) /\ answer' = answer /\ UNCHANGED <<cells, pos, count>>
  BY DEF Get, setVars
<1>2. pos \in Nat /\ count \in Nat /\ Len(cells) \in Nat
  <2>1. count \in {0, Len(answer)} /\ Len(answer) \in Nat /\ pos \in 0 .. count /\ Len(cells) \in Nat
    BY DEF IInv, TypeOK, Answered
  <2>2. QED
    BY <2>1
<1>3. CASE pos >= count \/ pos >= Len(cells)
  <2>1. CASE pos >= count
    <3>1. ~ (pos < count)
      BY <1>2, <2>1
    <3>2. Reading(i, g) = Is("no row", 0)
      BY <2>1, <3>1, Zenon DEF Reading
    <3>3. got' = Is("no row", 0)
      BY <1>1, <3>2, Zenon
    <3>4. got'.kind = "no row"
      BY <3>3
    <3>5. QED
      BY <3>4 DEF GettersTell
  <2>2. CASE pos < count /\ pos >= Len(cells)
    <3>1. ~ (pos >= count)
      BY <1>2, <2>2
    <3>2. Reading(i, g) = Is("no field", 0)
      BY <2>2, <3>1, Zenon DEF Reading
    <3>3. got' = Is("no field", 0)
      BY <1>1, <3>2, Zenon
    <3>4. got'.kind = "no field"
      BY <3>3
    <3>5. QED
      BY <3>4 DEF GettersTell
  <2>3. QED
    BY <1>2, <1>3, <2>1, <2>2
<1>4. CASE pos < count /\ pos < Len(cells)
  <2>1. pos + 1 \in 1 .. Len(cells)
    BY <1>2, <1>4
  <2>2. cell = Null <=> v = Null
    BY <2>1 DEF IInv, CellsKeepTheirBytes
  <2>3. got' = IF g = Text
               THEN IF u # Text THEN Is("wrong getter", 0)
                    ELSE IF cell = Null THEN Is("null", 0) ELSE Is("text", TextAt(cell))
               ELSE IF u = Text THEN Is("number", 0)
                    ELSE IF cell = Null THEN Is("no value", 0)
                    ELSE IF Accepts(NumberAt(cell), u, g)
                         THEN Is("number", Wrap(NumberAt(cell), g)) ELSE Is("wrong getter", 0)
    <3>1. ~ (pos >= count) /\ ~ (pos < count /\ pos >= Len(cells))
      BY <1>2, <1>4
    <3>2. QED
      BY <1>1, <3>1, Zenon DEF Reading
  <2>4. u # Text => u \in Types
    BY ColumnsAre
  <2>5. g # Text => g \in Types
    OBVIOUS
  <2> HIDE DEF u
  <2>6. CASE g = Text /\ u # Text
    <3>1. got'.kind = "wrong getter" /\ got'.as = Text /\ got'.col = i
      BY <2>3, <2>6
    <3>2. QED
      BY <2>6, <3>1 DEF GettersTell, u
  <2>7. CASE cell = Null /\ (g = Text <=> u = Text)
    <3>1. got'.kind \in {"null", "no value"} /\ got'.row = pos + 1 /\ got'.col = i
      BY <2>3, <2>7
    <3>2. QED
      BY <1>1, <2>2, <2>7, <3>1 DEF GettersTell
  <2>8. CASE cell # Null /\ g = Text /\ u = Text
    <3>1. TextAt(cell) = [k \in 1 .. v |-> <<pos + 1, i, k - 1>>]
      BY <2>1, <2>8, TextIs DEF u
    <3>2. /\ got'.kind = "text" /\ got'.row = pos + 1 /\ got'.col = i
          /\ got'.value = [k \in 1 .. v |-> <<pos + 1, i, k - 1>>]
      BY <2>3, <2>8, <3>1
    <3>3. QED
      BY <1>1, <3>2 DEF GettersTell
  <2>9. CASE g # Text /\ u = Text
    <3>1. got'.kind = "number" /\ got'.col = i /\ got'.as = g /\ got'.value = 0
      BY <2>3, <2>9
    <3>2. QED
      BY <2>9, <3>1 DEF GettersTell, u
  <2>10. CASE cell # Null /\ g # Text /\ u # Text
    <3>1. NumberAt(cell) = v /\ v \in Values(u)
      BY <2>1, <2>10, NumberIs DEF u
    <3>2. CASE Accepts(v, u, g)
      <4>1. got'.kind = "number" /\ got'.row = pos + 1 /\ got'.col = i /\ got'.as = g
            /\ got'.value = Wrap(v, g)
        BY <2>3, <2>10, <3>1, <3>2
      <4>2. u.signed = g.signed => Wrap(v, g) = v
        <5> HIDE DEF v
        <5>1. QED
          BY <2>4, <2>5, <2>10, <3>1, <3>2, AcceptedIsTrue
      <4>3. QED
        BY <1>1, <2>10, <4>1, <4>2 DEF GettersTell, u
    <3>3. CASE ~ Accepts(v, u, g)
      <4>1. got'.kind = "wrong getter" /\ got'.row = pos + 1 /\ got'.col = i /\ got'.as = g
        BY <2>3, <2>10, <3>1, <3>3
      <4>2. v \notin Values(g)
        <5> HIDE DEF v
        <5>1. QED
          BY <2>4, <2>5, <2>10, <3>3, HeldIsAccepted
      <4>3. QED
        BY <1>1, <2>10, <4>1, <4>2 DEF GettersTell
    <3>4. QED
      BY <3>2, <3>3
  <2>11. QED
    BY <2>6, <2>7, <2>8, <2>9, <2>10
<1>5. QED
  BY <1>2, <1>3, <1>4

(* Only Get reads, and the answer stays until what was read is forgotten.    *)
LEMMA TellsStep ==
  ASSUME IInv, [Next]_vars
  PROVE  GettersTell'
PROOF
<1>1. CASE got' = Nothing
  BY <1>1 DEF GettersTell, Nothing
<1>2. CASE UNCHANGED <<answer, got>>
  BY <1>2 DEF IInv, GettersTell
<1>3. ASSUME NEW i \in Col, NEW g \in Types \union {Text}, Get(i, g) PROVE GettersTell'
  BY <1>3, GetTells
<1>4. \/ got' = Nothing \/ UNCHANGED <<answer, got>>
      \/ \E i \in Col, g \in Types \union {Text} : Get(i, g)
  <2>1. ASSUME NEW t \in Types, NEW v \in Values(t), Ask(t, v) PROVE got' = Nothing
    BY <2>1 DEF Ask, IInv, Quiet
  <2>2. CASE UNCHANGED vars
    BY <2>2 DEF vars
  <2>3. QED
    BY <2>1, <2>2 DEF Next, NoMetadata, StoreFails, NoRows, BindFails, BindResult, FetchRow,
           FetchEnds, NextRow, DestroySet, DestroyStatement
<1>5. QED
  BY <1>1, <1>2, <1>3, <1>4

-------------------------------------------------------------------------------
(* Types: what is asked and what the statement has,                          *)
HeapOK ==
  /\ pc \in {"idle", "asked", "fetching", "reading", "dead", "gone"}
  /\ asked # Nobody => asked.type \in Types /\ asked.value \in Values(asked.type)
  /\ stmt \in [done : BOOLEAN, arrays : 0 .. made, buffers : {<<>>} \union [Col -> Nat]]
  /\ made \in 0 .. MaxQueries
  /\ freed \in [1 .. MaxQueries -> Nat] /\ failed \in BOOLEAN

(* and the set.                                                              *)
SetOK ==
  /\ count \in {0, Len(answer)} /\ pos \in 0 .. count
  /\ DOMAIN mem = (IF count = 0 THEN {} ELSE 0 .. RowSize * count - 1)
  /\ \A o \in DOMAIN mem : mem[o] \in Stamps
  /\ cells \in Seq([Col -> DOMAIN mem \union {Null}]) /\ Len(cells) <= count

(* Freeing the arrays of a statement that has none changes no counter.       *)
LEMMA FreedBoundIs ==
  ASSUME HeapOK
  PROVE  FreedBound(freed) \in [1 .. MaxQueries -> Nat]
PROOF
<1>1. freed \in [1 .. MaxQueries -> Nat]
  BY DEF HeapOK
<1>2. [freed EXCEPT ![stmt.arrays] = @ + 1] \in [1 .. MaxQueries -> Nat]
  <2>1. CASE stmt.arrays \in 1 .. MaxQueries
    <3>1. freed[stmt.arrays] + 1 \in Nat
      BY <1>1, <2>1
    <3>2. QED
      BY <1>1, <3>1
  <2>2. CASE stmt.arrays \notin 1 .. MaxQueries
    BY <1>1, <2>2
  <2>3. QED
    BY <2>1, <2>2
<1>3. QED
  BY <1>1, <1>2 DEF FreedBound

(* These types are kept by every step,                                       *)
LEMMA HeapStep ==
  ASSUME IInv, [Next]_vars
  PROVE  HeapOK'
PROOF
<1>1. HeapOK /\ (pc = "asked" => made < MaxQueries) /\ MaxQueries \in Nat
  BY QueryAssumption DEF IInv, TypeOK, HeapOK, Asks
<1> DEFINE Steady == UNCHANGED <<stmt, made, failed>> /\ freed' \in [1 .. MaxQueries -> Nat]
           Asking == \/ asked' = Nobody \/ asked' = asked
                     \/ asked'.type \in Types /\ asked'.value \in Values(asked'.type)
           Places == pc' \in {"idle", "asked", "fetching", "reading", "dead", "gone"}
<1>2. CASE Steady /\ Asking /\ Places
  <2>1. UNCHANGED <<stmt, made, failed>> /\ freed' \in [1 .. MaxQueries -> Nat] /\ Places
    BY <1>2
  <2>2. asked' # Nobody => asked'.type \in Types /\ asked'.value \in Values(asked'.type)
    BY <1>1, <1>2 DEF HeapOK
  <2>3. QED
    BY <1>1, <2>1, <2>2 DEF HeapOK
<1>3. CASE StoreFails
  <2>1. /\ pc' = "reading" /\ asked' = Nobody /\ stmt' = stmt /\ made' = made + 1 /\ pc = "asked"
        /\ freed' = [FreedBound(freed) EXCEPT ![made + 1] = 1]
        /\ failed' = (failed \/ stmt.done)
    BY <1>3 DEF StoreFails, NoRows, New
  <2>2. made' \in 0 .. MaxQueries /\ 0 .. made \subseteq 0 .. made'
    BY <1>1, <2>1 DEF HeapOK
  <2>3. freed' \in [1 .. MaxQueries -> Nat]
    BY <1>1, <2>1, FreedBoundIs
  <2>4. stmt \in [done : BOOLEAN, arrays : 0 .. made', buffers : {<<>>} \union [Col -> Nat]]
    BY <1>1, <2>2 DEF HeapOK
  <2>5. failed' \in BOOLEAN
    BY <2>1
  <2>6. QED
    BY <2>1, <2>2, <2>3, <2>4, <2>5 DEF HeapOK
<1>4. CASE BindResult
  <2>1. /\ pc' = "fetching" /\ asked' = Nobody /\ made' = made + 1 /\ pc = "asked"
        /\ freed' = FreedBound(freed) /\ failed' = failed
        /\ stmt' = [done |-> TRUE, arrays |-> made + 1, buffers |-> [i \in Col |-> Offset[i]]]
    BY <1>4 DEF BindResult, New
  <2>2. made' \in 0 .. MaxQueries /\ made + 1 \in 0 .. made'
    BY <1>1, <2>1 DEF HeapOK
  <2>3. freed' \in [1 .. MaxQueries -> Nat]
    BY <1>1, <2>1, FreedBoundIs
  <2>4. [i \in Col |-> Offset[i]] \in [Col -> Nat]
    BY ColumnsApart DEF IInv
  <2>5. stmt' \in [done : BOOLEAN, arrays : 0 .. made', buffers : {<<>>} \union [Col -> Nat]]
    BY <2>1, <2>2, <2>4
  <2>6. QED
    BY <1>1, <2>1, <2>2, <2>3, <2>5 DEF HeapOK
<1>5. CASE FetchRow
  <2>1. UNCHANGED <<pc, asked, made, freed, failed>>
    BY <1>5 DEF FetchRow
  <2>2. stmt' = [stmt EXCEPT !.buffers =
                   [i \in Col |-> IF i \in Full THEN stmt.buffers[i] + RowSize ELSE stmt.buffers[i]]]
    BY <1>1, <1>5 DEF FetchRow, Full, Advance, HeapOK
  <2>3. stmt.buffers \in [Col -> Nat] /\ RowSize \in Nat
    BY <1>5, FetchState, ColumnsApart DEF IInv
  <2>4. [i \in Col |-> IF i \in Full THEN stmt.buffers[i] + RowSize ELSE stmt.buffers[i]] \in [Col -> Nat]
    BY <2>3
  <2>5. stmt' \in [done : BOOLEAN, arrays : 0 .. made, buffers : {<<>>} \union [Col -> Nat]]
    BY <1>1, <2>2, <2>4 DEF HeapOK
  <2>6. QED
    BY <1>1, <2>1, <2>5 DEF HeapOK
<1>6. (Steady /\ Asking /\ Places) \/ StoreFails \/ BindResult \/ FetchRow
  <2>1. ASSUME NEW i \in Col, NEW g \in Types \union {Text}, Get(i, g)
        PROVE  Steady /\ Asking /\ Places
    BY <1>1, <2>1 DEF Get, heapVars, HeapOK
  <2>2. ASSUME NEW t \in Types, NEW v \in Values(t), Ask(t, v) PROVE Steady /\ Asking /\ Places
    BY <1>1, <2>2 DEF Ask, heapVars, HeapOK
  <2>3. CASE DestroyStatement
    BY <1>1, <2>3, FreedBoundIs DEF DestroyStatement
  <2>4. CASE DestroySet
    BY <1>1, <2>4 DEF DestroySet, CleanUp, HeapOK
  <2>5. CASE NoMetadata
    BY <1>1, <2>5 DEF NoMetadata, NoRows, heapVars, HeapOK
  <2>6. CASE BindFails \/ FetchEnds \/ NextRow \/ UNCHANGED vars
    BY <1>1, <2>6 DEF BindFails, FetchEnds, NextRow, vars, heapVars, HeapOK
  <2>7. QED
    BY <2>1, <2>2, <2>3, <2>4, <2>5, <2>6 DEF Next
<1>7. QED
  BY <1>2, <1>3, <1>4, <1>5, <1>6

(* and so are those of the set: pointers stay in the buffer.                 *)
LEMMA SetStep ==
  ASSUME IInv, [Next]_vars
  PROVE  SetOK'
PROOF
<1>1. SetOK /\ Len(answer) \in Nat
  BY DEF IInv, TypeOK, SetOK, Answered
<1>2. pos \in Nat /\ count \in Nat /\ pos <= count
  BY <1>1 DEF SetOK
<1> DEFINE Kept == UNCHANGED <<answer, mem, cells, count>> /\ pos' \in 0 .. count
           Gone == count' = 0 /\ pos' = 0 /\ mem' = <<>> /\ cells' = <<>>
<1>3. CASE Kept
  <2>1. RowSize' = RowSize /\ Stamps' = Stamps
    BY <1>3, LayoutStays DEF Stamps
  <2>2. QED
    BY <1>1, <1>3, <2>1 DEF SetOK
<1>4. CASE Gone
  <2>1. DOMAIN mem' = {} /\ cells' \in Seq([Col -> DOMAIN mem' \union {Null}]) /\ Len(cells') = 0
    BY <1>4
  <2>2. count' \in {0, Len(answer')} /\ pos' \in 0 .. count'
    BY <1>4
  <2>3. /\ DOMAIN mem' = (IF count' = 0 THEN {} ELSE 0 .. RowSize' * count' - 1)
        /\ \A o \in DOMAIN mem' : mem'[o] \in Stamps'
        /\ Len(cells') <= count'
    BY <1>4, <2>1
  <2>4. QED
    BY <2>1, <2>2, <2>3 DEF SetOK
<1>5. CASE BindResult
  <2>1. /\ answer' = answer /\ count' = Len(answer) /\ pos' = 0 /\ cells' = <<>>
        /\ mem' = [o \in 0 .. RowSize * Len(answer) - 1 |-> Junk]
    BY <1>5 DEF BindResult
  <2>2. RowSize' = RowSize /\ RowSize \in Nat
    BY <2>1, LayoutStays, ColumnsApart DEF IInv
  <2>3. count' = 0 => 0 .. RowSize * Len(answer) - 1 = {}
    BY <2>1, <2>2
  <2>4. DOMAIN mem' = (IF count' = 0 THEN {} ELSE 0 .. RowSize' * count' - 1)
    BY <2>1, <2>2, <2>3
  <2>5. \A o \in DOMAIN mem' : mem'[o] \in Stamps'
    BY <2>1 DEF Stamps
  <2>6. count' \in {0, Len(answer')} /\ pos' \in 0 .. count' /\ Len(cells') <= count'
    BY <1>1, <2>1
  <2>7. cells' \in Seq([Col -> DOMAIN mem' \union {Null}])
    BY <2>1
  <2>8. QED
    BY <2>4, <2>5, <2>6, <2>7 DEF SetOK
<1>6. CASE FetchRow
  <2>1. /\ answer' = answer /\ pos' = pos + 1 /\ pos < count /\ count = Len(answer)
        /\ pos + 1 \in 1 .. Len(answer) /\ stmt.buffers \in [Col -> Nat]
    BY <1>6, FetchState
  <2>2. count' = count
    BY <1>6 DEF FetchRow
  <2>3. RowSize' = RowSize /\ Stamps' = Stamps
    BY <2>1, LayoutStays DEF Stamps
  <2>4. DOMAIN mem' = DOMAIN mem
    BY <1>6, FetchWrites
  <2>5. ASSUME NEW o \in DOMAIN mem PROVE mem'[o] \in Stamps
    <3>1. CASE \A i \in Full : o \notin Filled(i)
      <4>1. mem'[o] = mem[o]
        BY <1>6, <3>1, FetchWrites
      <4>2. QED
        BY <1>1, <4>1 DEF SetOK
    <3>2. ASSUME NEW i \in Full, o \in Filled(i) PROVE mem'[o] \in Stamps
      <4>1. mem'[o] = Byte(answer[pos + 1], i, o - stmt.buffers[i])
        BY <1>6, <3>2, FetchWrites
      <4>2. i \in Col /\ stmt.buffers[i] \in Nat
        BY <2>1 DEF Full
      <4>3. o - stmt.buffers[i] \in Nat
        <5> DEFINE b == stmt.buffers[i]
                   l == Length(answer[pos + 1], i)
        <5>1. o \in b .. b + l - 1 /\ b \in Nat
          BY <3>2, <4>2 DEF Filled
        <5>2. l \in Nat
          BY <1>6, <4>2, <2>1, SizeHolds DEF Full, IInv
        <5> HIDE DEF b, l
        <5>3. o - b \in Nat
          BY <5>1, <5>2
        <5>4. QED
          BY <5>3 DEF b
      <4> DEFINE k == o - stmt.buffers[i]
      <4>4. k \in Nat
        BY <4>3
      <4> HIDE DEF k
      <4>5. Byte(answer[pos + 1], i, k) \in Stamps
        BY <2>1, <4>2, <4>4 DEF Byte, Stamps
      <4>6. QED
        BY <4>1, <4>5 DEF k
    <3>3. QED
      BY <3>1, <3>2
  <2>6. Len(cells') = pos + 1 /\ cells' \in Seq([Col -> DOMAIN mem \union {Null}])
    BY <1>6, FetchCells
  <2>7. pos' \in 0 .. count' /\ Len(cells') <= count'
    BY <1>2, <2>1, <2>2, <2>6
  <2>8. DOMAIN mem' = (IF count' = 0 THEN {} ELSE 0 .. RowSize' * count' - 1)
    BY <1>1, <2>2, <2>3, <2>4 DEF SetOK
  <2>9. \A o \in DOMAIN mem' : mem'[o] \in Stamps'
    BY <2>3, <2>4, <2>5
  <2>10. count' \in {0, Len(answer')} /\ cells' \in Seq([Col -> DOMAIN mem' \union {Null}])
    BY <2>1, <2>2, <2>4, <2>6
  <2>11. QED
    BY <2>7, <2>8, <2>9, <2>10 DEF SetOK
<1>7. Kept \/ Gone \/ BindResult \/ FetchRow
  <2>1. ASSUME NEW i \in Col, NEW g \in Types \union {Text}, Get(i, g) PROVE Kept
    BY <1>2, <2>1 DEF Get, setVars
  <2>2. ASSUME NEW t \in Types, NEW v \in Values(t), Ask(t, v) PROVE Gone
    BY <2>2 DEF Ask, setVars, IInv, Empty
  <2>3. CASE UNCHANGED vars
    BY <1>2, <2>3 DEF vars, setVars
  <2>4. CASE BindFails \/ FetchEnds \/ NextRow \/ DestroyStatement
    BY <1>2, <2>4 DEF BindFails, FetchEnds, NextRow, DestroyStatement, setVars
  <2>5. CASE NoMetadata \/ StoreFails \/ DestroySet
    BY <2>5 DEF NoMetadata, StoreFails, NoRows, DestroySet
  <2>6. QED
    BY <2>1, <2>2, <2>3, <2>4, <2>5 DEF Next
<1>8. QED
  BY <1>3, <1>4, <1>5, <1>6, <1>7

(* Together they are the type invariant.                                     *)
LEMMA TypeStep ==
  ASSUME IInv, [Next]_vars
  PROVE  TypeOK'
PROOF
<1>1. HeapOK' /\ SetOK'
  BY HeapStep, SetStep
<1>2. QED
  BY <1>1 DEF TypeOK, HeapOK, SetOK

-------------------------------------------------------------------------------
(* Every step keeps the invariant,                                           *)
THEOREM NextPreserves == IInv /\ [Next]_vars => IInv'
PROOF
<1> SUFFICES ASSUME IInv, [Next]_vars PROVE IInv'
  OBVIOUS
<1>1. TypeOK' /\ Answered' /\ Asks' /\ Empty'
  BY TypeStep, AnsweredStep, AsksStep, EmptyStep
<1>2. InPlace' /\ CellsKeepTheirBytes'
  BY InPlaceStep, BytesStep
<1>3. Owned' /\ Quiet' /\ GettersTell'
  BY OwnedStep, QuietStep, TellsStep
<1>4. QED
  BY <1>1, <1>2, <1>3 DEF IInv

(* so that it always holds.                                                  *)
THEOREM Invariance == Spec => []IInv
PROOF
  BY InitEstablishes, NextPreserves, PTL DEF Spec

(* Every variable has its type: in particular no row is fetched past the     *)
(* count, and what the cells point at is in the buffer.                      *)
THEOREM TypeCorrect == Spec => []TypeOK
PROOF
<1>1. IInv => TypeOK
  BY DEF IInv
<1>2. QED
  BY <1>1, Invariance, PTL

(* The single buffer of a result, with a pointer of each column that moves   *)
(* only past cells that are not null, never has one cell written over        *)
(* another, for columns of any number and size and rows with nulls anywhere. *)
THEOREM BytesAreKept == Spec => []CellsKeepTheirBytes
PROOF
<1>1. IInv => CellsKeepTheirBytes
  BY DEF IInv
<1>2. QED
  BY <1>1, Invariance, PTL

(* Unless a result could not be stored over an earlier one, each pair of     *)
(* arrays is freed once: by the next result or with the statement.           *)
THEOREM FreedOnce == Spec => []ArraysFreedOnce
PROOF
<1>1. IInv => ArraysFreedOnce
  <2> SUFFICES ASSUME IInv, ~ failed PROVE ArraysFreedOnce
    BY DEF ArraysFreedOnce
  <2>1. /\ made \in 0 .. MaxQueries /\ MaxQueries \in Nat
        /\ stmt.done => stmt.arrays \in 1 .. made
    BY QueryAssumption DEF IInv, TypeOK, Owned
  <2>2. \A a \in 1 .. MaxQueries : freed[a] = IF a \in 1 .. made /\ ~ Bound(a) THEN 1 ELSE 0
    BY DEF IInv, Owned
  <2>3. Sound
    BY <2>2 DEF Sound
  <2>4. ASSUME pc = "fetching" PROVE freed[stmt.arrays] = 0
    <3>1. stmt.done
      BY <2>4 DEF IInv, InPlace
    <3>2. stmt.arrays \in 1 .. MaxQueries /\ Bound(stmt.arrays)
      BY <2>1, <2>4, <3>1 DEF Bound
    <3>3. QED
      BY <2>2, <3>2
  <2>5. ASSUME pc = "gone", NEW a \in 1 .. made PROVE freed[a] = 1
    <3>1. a \in 1 .. MaxQueries /\ ~ Bound(a)
      BY <2>1, <2>5 DEF Bound
    <3>2. QED
      BY <2>2, <3>1
  <2>6. QED
    BY <2>3, <2>4, <2>5 DEF ArraysFreedOnce
<1>2. QED
  BY <1>1, Invariance, PTL

(* What a getter returns is the whole text of the row's cell, or its number  *)
(* unless one of column and getter is signed and the other is not; and it    *)
(* ends the process only for a null or for what its type cannot hold.        *)
THEOREM GettersAreTrue == Spec => []GettersTell
PROOF
<1>1. IInv => GettersTell
  BY DEF IInv
<1>2. QED
  BY <1>1, Invariance, PTL

================================================================================
