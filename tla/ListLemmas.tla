----------------------------- MODULE ListLemmas -----------------------------
(* Lemmas about natural numbers, queues and lists that the proofs of       *)
(* several modules rest on.                                                *)
EXTENDS Lists, Integers, FiniteSets, Functions, SequencesExt, SequenceTheorems, WellFoundedInduction, TLAPS

-----------------------------------------------------------------------------
(* Induction over the numbers, with the set of those that satisfy the      *)
(* claim in the place of an operator.                                      *)

\* a set of numbers has a least one
LEMMA LeastNat ==
    ASSUME NEW T \in SUBSET Nat, T # {}
    PROVE  \E n \in T : \A m \in T : n <= m
<1>1. \E x \in T : \A y \in T : ~(<<y, x>> \in OpToRel(<, Nat))
  BY NatLessThanWellFounded, WFMin
<1>2. \A x, y \in Nat : <<y, x>> \notin OpToRel(<, Nat) => x <= y
  BY DEF OpToRel
<1> QED BY <1>1, <1>2

\* what holds of 0 and goes over to the next number holds of all
LEMMA NatInductionBySet ==
    ASSUME NEW T \in SUBSET Nat, 0 \in T, \A n \in T : n + 1 \in T
    PROVE  T = Nat
<1> SUFFICES ASSUME Nat \ T # {} PROVE FALSE
  OBVIOUS
<1>1. PICK n \in Nat \ T : \A m \in Nat \ T : n <= m
  BY LeastNat
<1>2. n # 0
  OBVIOUS
<1>3. n - 1 \in Nat /\ n - 1 \in T
  BY <1>1, <1>2
<1> QED BY <1>3, <1>1

-----------------------------------------------------------------------------
(* Queues without repetition. *)

\* what is left when one leaves, from wherever it stands
LEMMA OneLess ==
    ASSUME NEW S, NEW q \in Seq(S), NEW i \in 1..Len(q),
           NEW r, r = RemoveAt(q, i) \/ (i = 1 /\ r = Tail(q))
    PROVE  /\ r \in Seq(S) /\ Len(r) = Len(q) - 1
           /\ \A k \in 1..Len(r) : r[k] = IF k < i THEN q[k] ELSE q[k + 1]
<1>1. CASE r = RemoveAt(q, i)
  <2> DEFINE a == SubSeq(q, 1, i - 1)
             b == SubSeq(q, i + 1, Len(q))
  <2>1. a \in Seq(S) /\ Len(a) = i - 1 /\ \A k \in 1..(i - 1) : a[k] = q[k]
    OBVIOUS
  <2>2. b \in Seq(S) /\ Len(b) = Len(q) - i /\ \A k \in 1..(Len(q) - i) : b[k] = q[k + i]
    OBVIOUS
  <2>3. r = a \o b
    BY <1>1 DEF RemoveAt
  <2> HIDE DEF a, b
  <2>4. r \in Seq(S) /\ Len(r) = Len(q) - 1
    <3>0. a \in Seq(S) /\ b \in Seq(S)
      BY <2>1, <2>2
    <3>1. a \o b \in Seq(S) /\ Len(a \o b) = Len(a) + Len(b)
      BY <3>0
    <3>2. Len(a) + Len(b) = Len(q) - 1
      BY <2>1, <2>2
    <3> QED BY <2>3, <3>1, <3>2
  <2>5. \A k \in 1..Len(r) : r[k] = IF k < i THEN a[k] ELSE b[k - (i - 1)]
    BY <2>1, <2>2, <2>3
  <2>6. \A k \in 1..Len(r) : k < i => a[k] = q[k]
    BY <2>1
  <2>7. ASSUME NEW k \in 1..Len(r), ~(k < i) PROVE b[k - (i - 1)] = q[k + 1]
    <3>1. k - (i - 1) \in 1..(Len(q) - i) /\ (k - (i - 1)) + i = k + 1
      BY <2>4, <2>7
    <3> QED BY <2>2, <3>1
  <2> QED BY <2>4, <2>5, <2>6, <2>7
<1>2. CASE i = 1 /\ r = Tail(q)
  <2>1. q # <<>>
    OBVIOUS
  <2>2. r \in Seq(S) /\ Len(r) = Len(q) - 1 /\ \A k \in 1..Len(r) : r[k] = q[k + 1]
    BY <1>2, <2>1
  <2> QED BY <1>2, <2>2
<1> QED BY <1>1, <1>2

LEMMA WithoutPlace ==
    ASSUME NEW S, NEW q \in Seq(S), NEW i \in 1..Len(q), IsInjective(q),
           NEW r, r = RemoveAt(q, i) \/ (i = 1 /\ r = Tail(q))
    PROVE  r \in Seq(S) /\ IsInjective(r) /\ ToSet(r) = ToSet(q) \ {q[i]}
<1>1. /\ r \in Seq(S) /\ Len(r) = Len(q) - 1
      /\ \A k \in 1..Len(r) : r[k] = IF k < i THEN q[k] ELSE q[k + 1]
  BY OneLess
<1> DEFINE at(k) == IF k < i THEN k ELSE k + 1
<1>2. \A k \in 1..Len(r) : at(k) \in 1..Len(q) /\ at(k) # i /\ r[k] = q[at(k)]
  BY <1>1
<1>3. \A k, m \in 1..Len(r) : at(k) = at(m) => k = m
  OBVIOUS
<1>4. \A m \in 1..Len(q) : m # i => \E k \in 1..Len(r) : at(k) = m
  <2> TAKE m \in 1..Len(q)
  <2> HAVE m # i
  <2>1. CASE m < i
    BY <1>1, <2>1
  <2>2. CASE m > i
    <3>1. m - 1 \in 1..Len(r) /\ at(m - 1) = m
      BY <1>1, <2>2
    <3> QED BY <3>1
  <2> QED BY <2>1, <2>2
<1> HIDE DEF at
<1>5. DOMAIN r = 1..Len(r) /\ DOMAIN q = 1..Len(q)
  BY <1>1
<1>6. IsInjective(r)
  <2> SUFFICES ASSUME NEW k \in 1..Len(r), NEW m \in 1..Len(r), r[k] = r[m] PROVE k = m
    BY <1>5 DEF IsInjective
  <2>1. at(k) = at(m)
    BY <1>2, <1>5 DEF IsInjective
  <2> QED BY <1>3, <2>1
<1>7. ASSUME NEW x \in ToSet(r) PROVE x \in ToSet(q) \ {q[i]}
  <2>1. PICK k \in 1..Len(r) : x = r[k]
    BY <1>5 DEF ToSet
  <2>2. at(k) \in 1..Len(q) /\ at(k) # i /\ x = q[at(k)]
    BY <1>2, <2>1
  <2>3. q[at(k)] # q[i]
    BY <1>5, <2>2 DEF IsInjective
  <2> QED BY <1>5, <2>2, <2>3 DEF ToSet
<1>8. ASSUME NEW x \in ToSet(q) \ {q[i]} PROVE x \in ToSet(r)
  <2>1. PICK m \in 1..Len(q) : x = q[m]
    BY <1>5 DEF ToSet
  <2>2. m # i
    BY <2>1
  <2>3. PICK k \in 1..Len(r) : at(k) = m
    BY <1>4, <2>2
  <2>4. x = r[k]
    BY <1>2, <2>1, <2>3
  <2> QED BY <1>5, <2>4 DEF ToSet
<1> QED BY <1>1, <1>6, <1>7, <1>8

\* one member joins
LEMMA WithAtEnd ==
    ASSUME NEW S, NEW q \in Seq(S), IsInjective(q), NEW x \in S, x \notin ToSet(q)
    PROVE  /\ Append(q, x) \in Seq(S) /\ IsInjective(Append(q, x))
           /\ ToSet(Append(q, x)) = ToSet(q) \cup {x}
<1> DEFINE r == Append(q, x)
<1>1. r \in Seq(S) /\ Len(r) = Len(q) + 1 /\ r[Len(q) + 1] = x /\ \A k \in 1..Len(q) : r[k] = q[k]
  OBVIOUS
<1>2. DOMAIN r = 1..(Len(q) + 1) /\ DOMAIN q = 1..Len(q)
  BY <1>1
<1> HIDE DEF r
<1>3. \A k \in 1..Len(q) : r[k] # x
  BY <1>1, <1>2 DEF ToSet
<1>4. IsInjective(r)
  <2> SUFFICES ASSUME NEW k \in 1..(Len(q) + 1), NEW m \in 1..(Len(q) + 1), r[k] = r[m] PROVE k = m
    BY <1>2 DEF IsInjective
  <2>1. CASE k \in 1..Len(q) /\ m \in 1..Len(q)
    <3>1. q[k] = q[m]
      BY <1>1, <2>1
    <3> QED BY <1>2, <2>1, <3>1 DEF IsInjective
  <2>2. CASE k = Len(q) + 1 \/ m = Len(q) + 1
    BY <1>1, <1>3, <2>2
  <2> QED BY <2>1, <2>2
<1>5. ToSet(r) = ToSet(q) \cup {x}
  <2>1. \A y \in ToSet(r) : y \in ToSet(q) \cup {x}
    BY <1>1, <1>2 DEF ToSet
  <2>2. \A k \in 1..Len(q) : q[k] \in ToSet(r)
    <3> TAKE k \in 1..Len(q)
    <3>1. k \in 1..(Len(q) + 1) /\ r[k] = q[k]
      BY <1>1
    <3> QED BY <1>2, <3>1 DEF ToSet
  <2>3. x \in ToSet(r)
    <3>1. Len(q) + 1 \in 1..(Len(q) + 1)
      OBVIOUS
    <3> QED BY <1>1, <1>2, <3>1 DEF ToSet
  <2>4. \A y \in ToSet(q) : y \in ToSet(r)
    BY <1>2, <2>2 DEF ToSet
  <2> QED BY <2>1, <2>3, <2>4
<1> QED BY <1>1, <1>4, <1>5 DEF r

-----------------------------------------------------------------------------
(* The members of a list. *)

LEMMA SeqToSet ==
    ASSUME NEW S, NEW s \in Seq(S)
    PROVE  ToSet(s) \subseteq S /\ ToSet(s) = {s[i] : i \in 1..Len(s)}
BY DEF ToSet

LEMMA AppendToSet ==
    ASSUME NEW S, NEW s \in Seq(S), NEW x \in S
    PROVE  Append(s, x) \in Seq(S) /\ ToSet(Append(s, x)) = ToSet(s) \cup {x}
<1> DEFINE r == Append(s, x)
<1>1. r \in Seq(S) /\ Len(r) = Len(s) + 1 /\ r[Len(s) + 1] = x /\ \A i \in 1..Len(s) : r[i] = s[i]
  OBVIOUS
<1> HIDE DEF r
<1>2. ToSet(r) = {r[i] : i \in 1..(Len(s) + 1)} /\ ToSet(s) = {s[i] : i \in 1..Len(s)}
  BY <1>1, SeqToSet
<1>3. 1..(Len(s) + 1) = 1..Len(s) \cup {Len(s) + 1}
  OBVIOUS
<1>4. \A i \in 1..Len(s) : i \in 1..(Len(s) + 1)
  OBVIOUS
<1>5. ToSet(r) \subseteq ToSet(s) \cup {x}
  BY <1>1, <1>2, <1>3
<1>6. ToSet(s) \subseteq ToSet(r)
  BY <1>1, <1>2, <1>4
<1>7. x \in ToSet(r)
  BY <1>1, <1>2, <1>3
<1> QED BY <1>1, <1>5, <1>6, <1>7 DEF r

-----------------------------------------------------------------------------
(* Functions defined by recursion over the numbers up to a bound.          *)

\* steps that stay within the sets of values
StepsWithin(n, V, b, G) == b \in V[0] /\ \A k \in 1..n : \A v \in V[k - 1] : G[k][v] \in V[k]
\* have a run
HasRun(n, V, b, G) == \E f : f[0] = b /\ \A k \in 1..n : f[k] \in V[k] /\ f[k] = G[k][f[k - 1]]
LEMMA Recursion ==
    ASSUME NEW n \in Nat, NEW V, NEW b, NEW G, StepsWithin(n, V, b, G)
    PROVE  HasRun(n, V, b, G)
<1>0. b \in V[0] /\ \A k \in 1..n : \A v \in V[k - 1] : G[k][v] \in V[k]
  BY DEF StepsWithin
<1> DEFINE Good(f, m) == /\ f = [k \in 0..m |-> IF k = 0 THEN b ELSE G[k][f[k - 1]]]
                         /\ \A k \in 0..m : f[k] \in V[k]
           T == {m \in Nat : m <= n => \E f : Good(f, m)}
<1>1. 0 \in T
  <2> DEFINE f == [k \in 0..0 |-> b]
  <2>1. f[0] = b /\ \A k \in 0..0 : k = 0
    OBVIOUS
  <2>2. f = [k \in 0..0 |-> IF k = 0 THEN b ELSE G[k][f[k - 1]]]
    <3>1. \A k \in 0..0 : b = IF k = 0 THEN b ELSE G[k][f[k - 1]]
      BY <2>1
    <3> QED BY <3>1
  <2> HIDE DEF f
  <2>3. Good(f, 0)
    BY <1>0, <2>1, <2>2
  <2> QED BY <2>3
<1>2. ASSUME NEW m \in T PROVE m + 1 \in T
  <2> SUFFICES ASSUME m + 1 <= n PROVE \E f : Good(f, m + 1)
    OBVIOUS
  <2>1. PICK f : Good(f, m)
    OBVIOUS
  <2> DEFINE g == [k \in 0..(m + 1) |-> IF k = m + 1 THEN G[m + 1][f[m]] ELSE f[k]]
  <2>2. /\ g[m + 1] = G[m + 1][f[m]]
        /\ \A k \in 0..m : g[k] = f[k]
    OBVIOUS
  <2>3. \A k \in 0..(m + 1) : g[k] = IF k = 0 THEN b ELSE G[k][g[k - 1]]
    <3> HIDE DEF g
    <3> TAKE k \in 0..(m + 1)
    <3>1. CASE k = m + 1
      <4>1. k - 1 = m /\ m \in 0..m /\ k # 0
        BY <3>1
      <4> QED BY <2>2, <3>1, <4>1
    <3>2. CASE k # m + 1
      <4>1. k \in 0..m /\ (k # 0 => k - 1 \in 0..m)
        BY <3>2
      <4>2. f[k] = IF k = 0 THEN b ELSE G[k][f[k - 1]]
        BY <2>1, <4>1
      <4> QED BY <2>2, <4>1, <4>2
    <3> QED BY <3>1, <3>2
  <2>4. g = [k \in 0..(m + 1) |-> IF k = 0 THEN b ELSE G[k][g[k - 1]]]
    <3> DEFINE D == 0..(m + 1)
    <3>1. g = [k \in D |-> g[k]]
      OBVIOUS
    <3> HIDE DEF g
    <3> QED BY <3>1, <2>3
  <2> HIDE DEF g
  <2>5. \A k \in 0..(m + 1) : g[k] \in V[k]
    <3> TAKE k \in 0..(m + 1)
    <3>1. CASE k = m + 1
      <4>1. f[m] \in V[m] /\ m + 1 \in 1..n /\ (m + 1) - 1 = m
        BY <2>1
      <4> QED BY <1>0, <2>2, <3>1, <4>1
    <3>2. CASE k # m + 1
      <4>1. k \in 0..m
        BY <3>2
      <4> QED BY <2>1, <2>2, <4>1
    <3> QED BY <3>1, <3>2
  <2> QED BY <2>4, <2>5
<1>3. T = Nat
  <2>1. T \in SUBSET Nat
    OBVIOUS
  <2> HIDE DEF T
  <2> QED BY <1>1, <1>2, <2>1, NatInductionBySet
<1>4. PICK f : Good(f, n)
  <2>1. n \in T
    BY <1>3
  <2> QED BY <2>1
<1>5. f[0] = b /\ \A k \in 1..n : f[k] \in V[k] /\ f[k] = G[k][f[k - 1]]
  BY <1>4
<1> QED BY <1>5 DEF HasRun

\* what holds at the start and goes over from each number to the next holds up to a bound
LEMMA UpTo ==
    ASSUME NEW n \in Nat, NEW T, 0 \in T, \A k \in 1..n : k - 1 \in T => k \in T
    PROVE  \A k \in 0..n : k \in T
<1> DEFINE S == {k \in Nat : k <= n => k \in T}
<1>1. ASSUME NEW k \in S PROVE k + 1 \in S
  <2>1. CASE k + 1 <= n
    <3>1. k + 1 \in 1..n /\ (k + 1) - 1 = k
      BY <2>1
    <3> QED BY <2>1, <3>1
  <2> QED BY <2>1
<1>2. 0 \in S /\ S \in SUBSET Nat
  OBVIOUS
<1>3. S = Nat
  <2> HIDE DEF S
  <2> QED BY <1>1, <1>2, NatInductionBySet
<1> QED BY <1>3

-----------------------------------------------------------------------------
(* Places of a list, in their order.                                       *)

Ascends(s) == \A i, j \in DOMAIN s : i < j => s[i] < s[j]

\* the places that are picked stand once each, in their order
LEMMA InOrderFacts ==
    ASSUME NEW places, NEW n \in Nat
    PROVE  /\ InOrder(places, n) \in Seq(1..n) /\ Ascends(InOrder(places, n))
           /\ ToSet(InOrder(places, n)) = places \cap (1..n)
<1> DEFINE V == [k \in 0..n |-> {s \in Seq(1..n) : Ascends(s) /\ ToSet(s) = places \cap (1..k)}]
           next(k, s) == IF k \in places THEN Append(s, k) ELSE s
           some[x \in 0..n] == IF x = 0 THEN <<>> ELSE IF x \in places THEN Append(some[x - 1], x) ELSE some[x - 1]
<1>1. <<>> \in V[0]
  <2>1. <<>> \in Seq(1..n) /\ Ascends(<<>>) /\ ToSet(<<>>) = {} /\ 1..0 = {}
    BY DEF Ascends, ToSet
  <2> QED BY <2>1
<1>2. ASSUME NEW k \in 1..n, NEW s \in V[k - 1] PROVE next(k, s) \in V[k]
  <2>0. k - 1 \in 0..n /\ k \in 0..n
    OBVIOUS
  <2>1. s \in Seq(1..n) /\ Ascends(s) /\ ToSet(s) = places \cap (1..(k - 1))
    BY <2>0
  <2>2. CASE k \in places
    <3> DEFINE r == Append(s, k)
    <3>1. r \in Seq(1..n) /\ Len(r) = Len(s) + 1 /\ r[Len(s) + 1] = k /\ \A i \in 1..Len(s) : r[i] = s[i]
      BY <2>1
    <3>2. DOMAIN r = 1..(Len(s) + 1) /\ DOMAIN s = 1..Len(s) /\ Len(s) \in Nat
      BY <2>1, <3>1
    <3>3. \A i \in 1..Len(s) : s[i] \in 1..(k - 1)
      BY <2>1, <3>2 DEF ToSet
    <3> HIDE DEF r
    <3>4. Ascends(r)
      <4> SUFFICES ASSUME NEW i \in 1..(Len(s) + 1), NEW j \in 1..(Len(s) + 1), i < j PROVE r[i] < r[j]
        BY <3>2 DEF Ascends
      <4>1. i \in 1..Len(s)
        BY <3>2
      <4>2. CASE j = Len(s) + 1
        BY <3>1, <3>3, <4>1, <4>2
      <4>3. CASE j # Len(s) + 1
        <5>1. j \in 1..Len(s)
          BY <3>2, <4>3
        <5>2. s[i] < s[j]
          BY <2>1, <3>2, <4>1, <5>1 DEF Ascends
        <5> QED BY <3>1, <4>1, <5>1, <5>2
      <4> QED BY <4>2, <4>3
    <3>5. ToSet(r) = ToSet(s) \cup {k}
      <4>1. ASSUME NEW i \in 1..(Len(s) + 1) PROVE r[i] \in ToSet(s) \cup {k}
        <5>1. CASE i \in 1..Len(s)
          BY <3>1, <3>2, <5>1 DEF ToSet
        <5>2. CASE i \notin 1..Len(s)
          <6>1. i = Len(s) + 1
            BY <3>2, <5>2
          <6> QED BY <3>1, <6>1
        <5> QED BY <5>1, <5>2
      <4>2. \A i \in 1..Len(s) : s[i] \in ToSet(r)
        <5> TAKE i \in 1..Len(s)
        <5>1. i \in DOMAIN r /\ r[i] = s[i]
          BY <3>1, <3>2
        <5> QED BY <5>1 DEF ToSet
      <4>3. k \in ToSet(r)
        <5>1. Len(s) + 1 \in DOMAIN r
          BY <3>2
        <5> QED BY <3>1, <5>1 DEF ToSet
      <4> QED BY <3>2, <4>1, <4>2, <4>3 DEF ToSet
    <3>6. (1..(k - 1)) \cup {k} = 1..k
      OBVIOUS
    <3>7. ToSet(r) = places \cap (1..k)
      BY <2>1, <2>2, <3>5, <3>6
    <3> QED BY <2>0, <2>2, <3>1, <3>4, <3>7 DEF r
  <2>3. CASE k \notin places
    <3>1. places \cap (1..(k - 1)) = places \cap (1..k)
      BY <2>3
    <3> QED BY <2>0, <2>1, <2>3, <3>1
  <2> QED BY <2>2, <2>3
<1>3. some = [x \in 0..n |-> IF x = 0 THEN <<>> ELSE IF x \in places THEN Append(some[x - 1], x) ELSE some[x - 1]]
  <2> DEFINE G == [k \in 1..n |-> [s \in V[k - 1] |-> next(k, s)]]
  <2>1. \A k \in 1..n : \A s \in V[k - 1] : G[k][s] = next(k, s)
    OBVIOUS
  <2>2. \A k \in 1..n : \A s \in V[k - 1] : G[k][s] \in V[k]
    BY <1>2, <2>1
  <2>3. PICK f : f[0] = <<>> /\ \A k \in 1..n : f[k] \in V[k] /\ f[k] = G[k][f[k - 1]]
    <3> HIDE DEF V, G
    <3>1. StepsWithin(n, V, <<>>, G)
      BY <1>1, <2>2 DEF StepsWithin
    <3>2. HasRun(n, V, <<>>, G)
      BY <3>1, Recursion
    <3> QED BY <3>2 DEF HasRun
  <2> DEFINE g == [k \in 0..n |-> f[k]]
  <2>4. \A k \in 0..n : g[k] = IF k = 0 THEN <<>> ELSE next(k, g[k - 1])
    <3> TAKE k \in 0..n
    <3>1. CASE k = 0
      BY <2>3, <3>1
    <3>2. CASE k # 0
      <4>1. k \in 1..n /\ k - 1 \in 0..n /\ (k - 1 # 0 => k - 1 \in 1..n)
        BY <3>2
      <4>2. f[k - 1] \in V[k - 1]
        BY <1>1, <2>3, <4>1
      <4>3. f[k] = next(k, f[k - 1])
        <5> HIDE DEF V, G, next
        <5> QED BY <2>1, <2>3, <4>1, <4>2
      <4> QED BY <3>2, <4>1, <4>3
    <3> QED BY <3>1, <3>2
  <2>5. g = [x \in 0..n |-> IF x = 0 THEN <<>> ELSE IF x \in places THEN Append(g[x - 1], x) ELSE g[x - 1]]
    <3>1. g = [x \in 0..n |-> g[x]]
      OBVIOUS
    <3> HIDE DEF g
    <3> QED BY <2>4, <3>1
  <2> QED BY <2>5 DEF some
<1>4. InOrder(places, n) = some[n]
  BY DEF InOrder, some
<1> HIDE DEF some
<1>5. \A k \in 0..n : some[k] \in V[k]
  <2> DEFINE T == {k \in 0..n : some[k] \in V[k]}
  <2>1. 0 \in T
    BY <1>1, <1>3
  <2>2. ASSUME NEW k \in 1..n, k - 1 \in T PROVE k \in T
    <3>1. k \in 0..n /\ k # 0 /\ some[k - 1] \in V[k - 1]
      BY <2>2
    <3>2. some[k] = next(k, some[k - 1])
      <4> HIDE DEF V
      <4> QED BY <1>3, <3>1
    <3>3. some[k] \in V[k]
      <4> HIDE DEF V, next
      <4> QED BY <1>2, <3>1, <3>2
    <3> QED BY <3>1, <3>3
  <2>3. \A k \in 0..n : k \in T
    <3> HIDE DEF T
    <3> QED BY <2>1, <2>2, UpTo
  <2> QED BY <2>3
<1> QED BY <1>4, <1>5

-----------------------------------------------------------------------------
(* Places of a list in their order.                                        *)

\* of two ascending lists of the same numbers, neither lacks a place the other has
LEMMA NextAscending ==
    ASSUME NEW s \in Seq(Nat), NEW t \in Seq(Nat), Ascends(s), Ascends(t), ToSet(s) = ToSet(t),
           NEW k \in 1..Len(s), \A i \in 1..(k - 1) : i \in 1..Len(t) /\ t[i] = s[i]
    PROVE  k \in 1..Len(t) /\ t[k] <= s[k]
<1>1. DOMAIN s = 1..Len(s) /\ DOMAIN t = 1..Len(t) /\ Len(s) \in Nat /\ Len(t) \in Nat
  OBVIOUS
<1>2. PICK j \in 1..Len(t) : t[j] = s[k]
  BY <1>1 DEF ToSet
<1>3. ~(j < k)
  <2> SUFFICES ASSUME j < k PROVE FALSE
    OBVIOUS
  <2>1. j \in 1..(k - 1) /\ j \in 1..Len(s)
    BY <1>1
  <2>2. t[j] = s[j]
    BY <2>1
  <2>3. s[j] < s[k]
    BY <1>1, <2>1 DEF Ascends
  <2>4. s[j] \in Nat /\ s[k] \in Nat
    BY <2>1
  <2> QED BY <1>2, <2>2, <2>3, <2>4
<1>4. k \in 1..Len(t)
  BY <1>1, <1>3
<1>5. t[k] <= t[j]
  <2>1. t[k] \in Nat /\ t[j] \in Nat
    BY <1>4
  <2>2. k < j => t[k] < t[j]
    BY <1>1, <1>4 DEF Ascends
  <2> QED BY <1>3, <2>1, <2>2
<1> QED BY <1>2, <1>4, <1>5

\* an ascending list is given by its members
LEMMA SameAscending ==
    ASSUME NEW s \in Seq(Nat), NEW t \in Seq(Nat), Ascends(s), Ascends(t), ToSet(s) = ToSet(t)
    PROVE  s = t
<1> DEFINE T == {k \in Nat : \A i \in 1..k : (i \in 1..Len(s) <=> i \in 1..Len(t)) /\ (i \in 1..Len(s) => s[i] = t[i])}
<1>1. 0 \in T /\ T \in SUBSET Nat
  OBVIOUS
<1>2. ASSUME NEW k \in T PROVE k + 1 \in T
  <2>0. k \in Nat /\ \A i \in 1..k : (i \in 1..Len(s) <=> i \in 1..Len(t)) /\ (i \in 1..Len(s) => s[i] = t[i])
    OBVIOUS
  <2> HIDE DEF T
  <2>1. k + 1 \in 1..Len(s) => k + 1 \in 1..Len(t) /\ t[k + 1] <= s[k + 1]
    <3> HAVE k + 1 \in 1..Len(s)
    <3>1. \A i \in 1..((k + 1) - 1) : i \in 1..Len(t) /\ t[i] = s[i]
      BY <2>0
    <3> QED BY <3>1, NextAscending
  <2>2. k + 1 \in 1..Len(t) => k + 1 \in 1..Len(s) /\ s[k + 1] <= t[k + 1]
    <3> HAVE k + 1 \in 1..Len(t)
    <3>1. \A i \in 1..((k + 1) - 1) : i \in 1..Len(s) /\ s[i] = t[i]
      BY <2>0
    <3> QED BY <3>1, NextAscending
  <2>3. k + 1 \in 1..Len(s) => s[k + 1] = t[k + 1]
    <3> HAVE k + 1 \in 1..Len(s)
    <3>1. s[k + 1] \in Nat /\ t[k + 1] \in Nat
      BY <2>1
    <3> QED BY <2>1, <2>2, <3>1
  <2>4. \A i \in 1..(k + 1) : i \in 1..k \/ i = k + 1
    BY <2>0
  <2> QED BY <2>0, <2>1, <2>2, <2>3, <2>4 DEF T
<1>3. T = Nat
  <2> HIDE DEF T
  <2> QED BY <1>1, <1>2, NatInductionBySet
<1>4. Len(s) \in T /\ Len(t) \in T /\ Len(s) \in Nat /\ Len(t) \in Nat
  <2> HIDE DEF T
  <2> QED BY <1>3
<1>5. Len(s) = Len(t)
  <2>1. Len(s) # 0 => Len(s) \in 1..Len(t)
    BY <1>4
  <2>2. Len(t) # 0 => Len(t) \in 1..Len(s)
    BY <1>4
  <2> HIDE DEF T
  <2> QED BY <1>4, <2>1, <2>2
<1>6. \A i \in 1..Len(s) : s[i] = t[i]
  BY <1>4
<1> QED BY <1>5, <1>6, SeqEqual

\* ... and so it is the order of its members
LEMMA AscendingInOrder ==
    ASSUME NEW n \in Nat, NEW places, NEW s \in Seq(Nat), Ascends(s), ToSet(s) = places \cap (1..n)
    PROVE  s = InOrder(places, n)
<1>1. /\ InOrder(places, n) \in Seq(1..n) /\ Ascends(InOrder(places, n))
      /\ ToSet(InOrder(places, n)) = places \cap (1..n)
  BY InOrderFacts
<1>2. InOrder(places, n) \in Seq(Nat)
  BY <1>1
<1> QED BY <1>1, <1>2, SameAscending

LEMMA ConcatMembers ==
    ASSUME NEW S, NEW s \in Seq(S), NEW t \in Seq(S)
    PROVE  s \o t \in Seq(S) /\ ToSet(s \o t) = ToSet(s) \cup ToSet(t)
<1>1. /\ s \o t \in Seq(S) /\ Len(s \o t) = Len(s) + Len(t)
      /\ \A i \in 1..Len(s) : (s \o t)[i] = s[i]
      /\ \A i \in 1..Len(t) : (s \o t)[Len(s) + i] = t[i]
  OBVIOUS
<1>2. /\ DOMAIN (s \o t) = 1..(Len(s) + Len(t)) /\ DOMAIN s = 1..Len(s) /\ DOMAIN t = 1..Len(t)
      /\ Len(s) \in Nat /\ Len(t) \in Nat
  BY <1>1
<1> DEFINE r == s \o t
<1> HIDE DEF r
<1>3. ASSUME NEW i \in 1..(Len(s) + Len(t)) PROVE r[i] \in ToSet(s) \cup ToSet(t)
  <2>1. CASE i \in 1..Len(s)
    BY <1>1, <1>2, <2>1 DEF ToSet, r
  <2>2. CASE i \notin 1..Len(s)
    <3>1. i - Len(s) \in 1..Len(t) /\ Len(s) + (i - Len(s)) = i
      BY <1>2, <2>2
    <3>2. r[i] = t[i - Len(s)]
      BY <1>1, <3>1 DEF r
    <3> QED BY <1>2, <3>1, <3>2 DEF ToSet
  <2> QED BY <2>1, <2>2
<1>4. \A i \in 1..Len(s) : i \in 1..(Len(s) + Len(t))
  BY <1>2
<1>5. \A i \in 1..Len(t) : Len(s) + i \in 1..(Len(s) + Len(t))
  BY <1>2
<1>6. ToSet(r) = {r[i] : i \in 1..(Len(s) + Len(t))}
  BY <1>2 DEF ToSet, r
<1>7. \A i \in 1..Len(s) : s[i] \in ToSet(r)
  BY <1>1, <1>4, <1>6 DEF r
<1>8. \A i \in 1..Len(t) : t[i] \in ToSet(r)
  BY <1>1, <1>5, <1>6 DEF r
<1>9. ToSet(s) \subseteq ToSet(r) /\ ToSet(t) \subseteq ToSet(r)
  BY <1>2, <1>7, <1>8 DEF ToSet
<1>10. ToSet(r) \subseteq ToSet(s) \cup ToSet(t)
  BY <1>3, <1>6
<1> QED BY <1>1, <1>9, <1>10 DEF r

\* places that lie one behind the other
LEMMA OrderOfParts ==
    ASSUME NEW n \in Nat, NEW a, NEW b, \A i \in a \cap (1..n), j \in b \cap (1..n) : i < j
    PROVE  InOrder(a \cup b, n) = InOrder(a, n) \o InOrder(b, n)
<1> DEFINE s == InOrder(a, n)
           t == InOrder(b, n)
<1>1. s \in Seq(1..n) /\ Ascends(s) /\ ToSet(s) = a \cap (1..n)
  BY InOrderFacts
<1>2. t \in Seq(1..n) /\ Ascends(t) /\ ToSet(t) = b \cap (1..n)
  BY InOrderFacts
<1> HIDE DEF s, t
<1>3. s \o t \in Seq(1..n) /\ ToSet(s \o t) = ToSet(s) \cup ToSet(t)
  BY <1>1, <1>2, ConcatMembers
<1>4. Ascends(s \o t)
  <2> DEFINE r == s \o t
  <2>1. /\ DOMAIN r = 1..(Len(s) + Len(t)) /\ Len(s) \in Nat /\ Len(t) \in Nat
        /\ DOMAIN s = 1..Len(s) /\ DOMAIN t = 1..Len(t)
    BY <1>1, <1>2
  <2>2. \A i \in DOMAIN r : IF i <= Len(s) THEN r[i] = s[i] /\ i \in DOMAIN s
                            ELSE r[i] = t[i - Len(s)] /\ i - Len(s) \in DOMAIN t
    BY <1>1, <1>2, <2>1
  <2> HIDE DEF r
  <2>3. ASSUME NEW i \in DOMAIN r, NEW j \in DOMAIN r, i < j PROVE r[i] < r[j]
    <3>1. CASE j <= Len(s)
      BY <1>1, <2>1, <2>2, <2>3, <3>1 DEF Ascends
    <3>2. CASE i <= Len(s) /\ ~(j <= Len(s))
      <4>1. r[i] \in ToSet(s) /\ r[j] \in ToSet(t)
        BY <2>2, <3>2 DEF ToSet
      <4> QED BY <1>1, <1>2, <4>1
    <3>3. CASE ~(i <= Len(s))
      <4>1. ~(j <= Len(s)) /\ i - Len(s) < j - Len(s)
        BY <2>1, <2>3, <3>3
      <4>2. r[i] = t[i - Len(s)] /\ r[j] = t[j - Len(s)] /\ i - Len(s) \in DOMAIN t /\ j - Len(s) \in DOMAIN t
        BY <2>2, <3>3, <4>1
      <4> QED BY <1>2, <4>1, <4>2 DEF Ascends
    <3> QED BY <2>1, <3>1, <3>2, <3>3
  <2> QED BY <2>3 DEF Ascends, r
<1>5. s \o t \in Seq(Nat) /\ ToSet(s \o t) = (a \cup b) \cap (1..n)
  BY <1>1, <1>2, <1>3
<1>6. s \o t = InOrder(a \cup b, n)
  BY <1>4, <1>5, AscendingInOrder
<1> QED BY <1>6 DEF s, t

\* only the places up to n count
LEMMA OrderWithin ==
    ASSUME NEW n \in Nat, NEW m \in Nat, NEW a, NEW b, a \cap (1..n) = b \cap (1..m)
    PROVE  InOrder(a, n) = InOrder(b, m)
<1>1. InOrder(b, m) \in Seq(1..m) /\ Ascends(InOrder(b, m)) /\ ToSet(InOrder(b, m)) = a \cap (1..n)
  BY InOrderFacts
<1> QED BY <1>1, AscendingInOrder

\* what a comprehension keeps
LEMMA PickedFacts ==
    ASSUME NEW S, NEW list \in Seq(S), NEW places, NEW at, at = InOrder(places, Len(list))
    PROVE  /\ at \in Seq(1..Len(list)) /\ Ascends(at) /\ ToSet(at) = places \cap (1..Len(list))
           /\ Picked(list, places) \in Seq(S) /\ Len(Picked(list, places)) = Len(at)
           /\ \A k \in 1..Len(at) : Picked(list, places)[k] = list[at[k]] /\ at[k] \in places \cap (1..Len(list))
           /\ ToSet(Picked(list, places)) = {list[i] : i \in places \cap (1..Len(list))}
<1>1. Len(list) \in Nat
  OBVIOUS
<1>2. at \in Seq(1..Len(list)) /\ Ascends(at) /\ ToSet(at) = places \cap (1..Len(list))
  BY <1>1, InOrderFacts
<1>3. Picked(list, places) = [k \in 1..Len(at) |-> list[at[k]]]
  BY DEF Picked
<1>4. DOMAIN at = 1..Len(at) /\ Len(at) \in Nat
  BY <1>2
<1>5. \A k \in 1..Len(at) : at[k] \in places \cap (1..Len(list))
  BY <1>2, <1>4 DEF ToSet
<1>6. [k \in 1..Len(at) |-> list[at[k]]] \in Seq(S)
  BY <1>4, <1>5
<1> DEFINE r == Picked(list, places)
<1>7. r \in Seq(S) /\ Len(r) = Len(at) /\ \A k \in 1..Len(at) : r[k] = list[at[k]]
  BY <1>3, <1>4, <1>6
<1> HIDE DEF r
<1>8. ToSet(r) = {r[k] : k \in 1..Len(at)}
  BY <1>7, SeqToSet
<1>9. \A i \in places \cap (1..Len(list)) : \E k \in 1..Len(at) : at[k] = i
  BY <1>2, <1>4 DEF ToSet
<1>10. ToSet(r) = {list[i] : i \in places \cap (1..Len(list))}
  BY <1>5, <1>7, <1>8, <1>9
<1> QED BY <1>2, <1>5, <1>7, <1>10 DEF r

-----------------------------------------------------------------------------
(* Lists one behind the other.                                             *)

\* the running results of FlattenSeq
JoinsUp(f, ss) == f[0] = <<>> /\ \A k \in 1..Len(ss) : f[k] = f[k - 1] \o ss[k]

LEMMA FlattenRuns ==
    ASSUME NEW S, NEW ss \in Seq(Seq(S))
    PROVE  \E f : JoinsUp(f, ss) /\ (\A k \in 0..Len(ss) : f[k] \in Seq(S)) /\ FlattenSeq(ss) = f[Len(ss)]
<1> DEFINE n == Len(ss)
           V == [k \in 0..n |-> Seq(S)]
           G == [k \in 1..n |-> [s \in Seq(S) |-> s \o ss[k]]]
<1>1. n \in Nat
  OBVIOUS
<1>2. StepsWithin(n, V, <<>>, G)
  <2>1. \A k \in 1..n : k - 1 \in 0..n /\ k \in 0..n
    BY <1>1
  <2>2. \A k \in 0..n : V[k] = Seq(S)
    OBVIOUS
  <2>3. \A k \in 1..n : \A s \in Seq(S) : G[k][s] = s \o ss[k] /\ G[k][s] \in Seq(S)
    OBVIOUS
  <2>4. <<>> \in V[0]
    BY <1>1
  <2> HIDE DEF V, G
  <2> QED BY <2>1, <2>2, <2>3, <2>4 DEF StepsWithin
<1>3. PICK f : f[0] = <<>> /\ \A k \in 1..n : f[k] \in V[k] /\ f[k] = G[k][f[k - 1]]
  <2> HIDE DEF V, G
  <2>1. HasRun(n, V, <<>>, G)
    BY <1>1, <1>2, Recursion
  <2> QED BY <2>1 DEF HasRun
<1>a. \A k \in 0..n : V[k] = Seq(S)
  OBVIOUS
<1>b. \A k \in 1..n : \A s \in Seq(S) : G[k][s] = s \o ss[k]
  OBVIOUS
<1> HIDE DEF V, G
<1>4. \A k \in 0..n : f[k] \in Seq(S)
  <2> TAKE k \in 0..n
  <2>1. CASE k = 0
    <3>1. f[k] = <<>>
      BY <1>3, <2>1
    <3> QED BY <3>1, EmptySeq
  <2>2. CASE k # 0
    <3>1. k \in 1..n /\ f[k] \in V[k]
      BY <1>1, <1>3, <2>2
    <3> QED BY <1>a, <3>1
  <2> QED BY <2>1, <2>2
<1>5. \A k \in 1..n : f[k] = f[k - 1] \o ss[k]
  <2> TAKE k \in 1..n
  <2>1. k - 1 \in 0..n /\ f[k - 1] \in Seq(S)
    BY <1>1, <1>4
  <2> QED BY <1>3, <1>b, <2>1
<1>6. FlattenSeq(ss) = f[n]
  <2>1. CASE n = 0
    <3>1. ss = <<>>
      BY <2>1
    <3> QED BY <1>3, <2>1, <3>1 DEF FlattenSeq
  <2>2. CASE n # 0
    <3> DEFINE flatten[i \in 1..n] == IF i = 1 THEN ss[i] ELSE flatten[i - 1] \o ss[i]
               g == [k \in 1..n |-> f[k]]
    <3>1. flatten = [i \in 1..n |-> IF i = 1 THEN ss[i] ELSE flatten[i - 1] \o ss[i]]
      <4>1. \A k \in 1..n : g[k] = IF k = 1 THEN ss[k] ELSE g[k - 1] \o ss[k]
        <5> TAKE k \in 1..n
        <5>1. CASE k = 1
          <6>0. ss[k] \in Seq(S) /\ k - 1 = 0
            BY <5>1
          <6>1. f[k] = f[k - 1] \o ss[k] /\ ss[k] \in Seq(S) /\ k - 1 = 0
            BY <1>5, <6>0
          <6>2. f[k] = <<>> \o ss[k]
            BY <1>3, <6>1
          <6>3. f[k] = ss[k]
            BY <6>1, <6>2, ConcatEmptySeq
          <6> QED BY <5>1, <6>3
        <5>2. CASE k # 1
          <6>1. k - 1 \in 1..n
            BY <1>1, <5>2
          <6> QED BY <1>5, <5>2, <6>1
        <5> QED BY <5>1, <5>2
      <4>2. g = [i \in 1..n |-> IF i = 1 THEN ss[i] ELSE g[i - 1] \o ss[i]]
        <5>1. g = [k \in 1..n |-> g[k]]
          OBVIOUS
        <5> HIDE DEF g
        <5> QED BY <4>1, <5>1
      <4> HIDE DEF g
      <4> QED BY <4>2 DEF flatten
    <3>2. FlattenSeq(ss) = flatten[n]
      BY <2>2 DEF FlattenSeq, flatten
    <3> HIDE DEF flatten
    <3> DEFINE T == {k \in 0..n : k # 0 => flatten[k] = f[k]}
    <3>3. 0 \in T
      BY <1>1
    <3>4. ASSUME NEW k \in 1..n, k - 1 \in T PROVE k \in T
      <4>1. CASE k = 1
        <5>a. ss[k] \in Seq(S) /\ k - 1 = 0
          BY <4>1
        <5>0. f[k] = f[k - 1] \o ss[k] /\ ss[k] \in Seq(S) /\ k - 1 = 0
          BY <1>5, <5>a
        <5>1. f[k] = <<>> \o ss[k] /\ flatten[k] = ss[k]
          BY <1>3, <3>1, <4>1, <5>0
        <5>2. f[k] = ss[k]
          BY <5>0, <5>1, ConcatEmptySeq
        <5> QED BY <1>1, <5>1, <5>2
      <4>2. CASE k # 1
        <5>1. flatten[k] = flatten[k - 1] \o ss[k]
          BY <3>1, <4>2
        <5>2. flatten[k - 1] = f[k - 1] /\ k \in 0..n
          BY <3>4, <4>2
        <5> QED BY <1>5, <5>1, <5>2
      <4> QED BY <4>1, <4>2
    <3>5. \A k \in 0..n : k \in T
      <4> HIDE DEF T
      <4> QED BY <1>1, <3>3, <3>4, UpTo
    <3> QED BY <1>1, <2>2, <3>2, <3>5
  <2> QED BY <2>1, <2>2
<1> QED BY <1>3, <1>4, <1>5, <1>6 DEF JoinsUp

\* there are no others
LEMMA FlattenIs ==
    ASSUME NEW S, NEW ss \in Seq(Seq(S)), NEW f, JoinsUp(f, ss)
    PROVE  FlattenSeq(ss) = f[Len(ss)] /\ \A k \in 0..Len(ss) : f[k] \in Seq(S)
<1>1. PICK g : JoinsUp(g, ss) /\ (\A k \in 0..Len(ss) : g[k] \in Seq(S)) /\ FlattenSeq(ss) = g[Len(ss)]
  BY FlattenRuns
<1> DEFINE T == {k \in 0..Len(ss) : f[k] = g[k]}
<1>2. Len(ss) \in Nat
  OBVIOUS
<1>3. 0 \in T
  BY <1>1, <1>2 DEF JoinsUp
<1>4. ASSUME NEW k \in 1..Len(ss), k - 1 \in T PROVE k \in T
  <2>1. f[k] = f[k - 1] \o ss[k] /\ g[k] = g[k - 1] \o ss[k]
    BY <1>1 DEF JoinsUp
  <2>2. f[k - 1] = g[k - 1] /\ k \in 0..Len(ss)
    BY <1>4
  <2> QED BY <2>1, <2>2
<1>5. \A k \in 0..Len(ss) : k \in T
  <2> HIDE DEF T
  <2> QED BY <1>2, <1>3, <1>4, UpTo
<1>6. \A k \in 0..Len(ss) : f[k] = g[k]
  BY <1>5
<1>7. Len(ss) \in 0..Len(ss)
  BY <1>2
<1> QED BY <1>1, <1>6, <1>7

LEMMA FlattenEmpty == FlattenSeq(<<>>) = <<>>
BY DEF FlattenSeq

LEMMA FlattenAppend ==
    ASSUME NEW S, NEW ss \in Seq(Seq(S)), NEW s \in Seq(S)
    PROVE  FlattenSeq(ss) \in Seq(S) /\ FlattenSeq(Append(ss, s)) = FlattenSeq(ss) \o s
<1>1. PICK f : JoinsUp(f, ss) /\ (\A k \in 0..Len(ss) : f[k] \in Seq(S)) /\ FlattenSeq(ss) = f[Len(ss)]
  BY FlattenRuns
<1> DEFINE r == Append(ss, s)
           n == Len(ss)
           g == [k \in 0..(n + 1) |-> IF k = n + 1 THEN f[n] \o s ELSE f[k]]
<1>2. /\ r \in Seq(Seq(S)) /\ Len(r) = n + 1 /\ r[n + 1] = s /\ n \in Nat
      /\ \A k \in 1..n : r[k] = ss[k]
  OBVIOUS
<1>3. g[n + 1] = f[n] \o s /\ \A k \in 0..n : g[k] = f[k]
  OBVIOUS
<1> HIDE DEF r, g
<1>4. JoinsUp(g, r)
  <2>1. g[0] = <<>>
    BY <1>1, <1>2, <1>3 DEF JoinsUp
  <2>2. ASSUME NEW k \in 1..(n + 1) PROVE g[k] = g[k - 1] \o r[k]
    <3>1. CASE k = n + 1
      <4>1. k - 1 = n /\ n \in 0..n
        BY <1>2, <3>1
      <4> QED BY <1>2, <1>3, <3>1, <4>1
    <3>2. CASE k # n + 1
      <4>1. k \in 1..n /\ k \in 0..n /\ k - 1 \in 0..n
        BY <1>2, <3>2
      <4>2. f[k] = f[k - 1] \o ss[k]
        BY <1>1, <4>1 DEF JoinsUp
      <4> QED BY <1>2, <1>3, <4>1, <4>2
    <3> QED BY <3>1, <3>2
  <2> QED BY <1>2, <2>1, <2>2 DEF JoinsUp
<1>5. FlattenSeq(r) = g[n + 1]
  BY <1>2, <1>4, FlattenIs
<1> QED BY <1>1, <1>2, <1>3, <1>5 DEF r

\* what is in a list of lists
LEMMA FlattenMembers ==
    ASSUME NEW S, NEW ss \in Seq(Seq(S))
    PROVE  FlattenSeq(ss) \in Seq(S) /\ \A x : x \in ToSet(FlattenSeq(ss)) <=> \E k \in 1..Len(ss) : x \in ToSet(ss[k])
<1>1. PICK f : JoinsUp(f, ss) /\ (\A k \in 0..Len(ss) : f[k] \in Seq(S)) /\ FlattenSeq(ss) = f[Len(ss)]
  BY FlattenRuns
<1> DEFINE n == Len(ss)
           T == {k \in 0..n : \A x : x \in ToSet(f[k]) <=> \E i \in 1..k : x \in ToSet(ss[i])}
<1>2. n \in Nat
  OBVIOUS
<1>3. 0 \in T
  <2>1. ToSet(<<>>) = {} /\ 1..0 = {}
    BY DEF ToSet
  <2>2. f[0] = <<>> /\ 0 \in 0..n
    BY <1>1, <1>2 DEF JoinsUp
  <2> QED BY <2>1, <2>2
<1>4. ASSUME NEW k \in 1..n, k - 1 \in T PROVE k \in T
  <2>0. k \in 0..n /\ k - 1 \in 0..n /\ ss[k] \in Seq(S)
    BY <1>2
  <2>1. f[k] = f[k - 1] \o ss[k] /\ ss[k] \in Seq(S) /\ f[k - 1] \in Seq(S)
    BY <1>1, <2>0 DEF JoinsUp
  <2>2. ToSet(f[k]) = ToSet(f[k - 1]) \cup ToSet(ss[k])
    BY <2>1, ConcatMembers
  <2>3. \A i : i \in 1..k <=> i \in 1..(k - 1) \/ i = k
    BY <1>2
  <2>4. \A x : x \in ToSet(f[k - 1]) <=> \E i \in 1..(k - 1) : x \in ToSet(ss[i])
    BY <1>4
  <2>6. \A x : x \in ToSet(f[k]) <=> \E i \in 1..k : x \in ToSet(ss[i])
    BY <2>2, <2>3, <2>4
  <2> QED BY <2>0, <2>6
<1>5. \A k \in 0..n : k \in T
  <2> HIDE DEF T
  <2> QED BY <1>2, <1>3, <1>4, UpTo
<1>6. n \in 0..n
  BY <1>2
<1> QED BY <1>1, <1>5, <1>6

LEMMA ConcatAppend ==
    ASSUME NEW S, NEW s \in Seq(S), NEW t \in Seq(S), NEW e \in S
    PROVE  s \o Append(t, e) = Append(s \o t, e)
<1>1. s \o t \in Seq(S)
  BY ConcatProperties
<1>2. Append(t, e) = t \o <<e>> /\ Append(s \o t, e) = (s \o t) \o <<e>>
  BY <1>1, AppendIsConcat
<1>3. <<e>> \in Seq(S)
  OBVIOUS
<1>4. (s \o t) \o <<e>> = s \o (t \o <<e>>)
  BY <1>3, ConcatAssociative
<1> QED BY <1>2, <1>4

LEMMA FlattenConcat ==
    ASSUME NEW S, NEW as \in Seq(Seq(S)), NEW bs \in Seq(Seq(S))
    PROVE  FlattenSeq(as \o bs) = FlattenSeq(as) \o FlattenSeq(bs)
<1> DEFINE T == {n \in Nat : \A ss \in Seq(Seq(S)) : Len(ss) = n => FlattenSeq(as \o ss) = FlattenSeq(as) \o FlattenSeq(ss)}
<1>1. FlattenSeq(as) \in Seq(S)
  BY FlattenMembers
<1>2. 0 \in T
  <2> SUFFICES ASSUME NEW ss \in Seq(Seq(S)), Len(ss) = 0 PROVE FlattenSeq(as \o ss) = FlattenSeq(as) \o FlattenSeq(ss)
    OBVIOUS
  <2>1. ss = <<>>
    BY EmptySeq
  <2>3. as \o ss = as
    BY <2>1, ConcatEmptySeq
  <2>2. FlattenSeq(ss) = <<>>
    BY <2>1, FlattenEmpty
  <2>4. FlattenSeq(as) \o <<>> = FlattenSeq(as)
    BY <1>1, ConcatEmptySeq
  <2> QED BY <2>2, <2>3, <2>4
<1>3. ASSUME NEW n \in T PROVE n + 1 \in T
  <2>0. n + 1 \in Nat
    OBVIOUS
  <2> SUFFICES ASSUME NEW ss \in Seq(Seq(S)), Len(ss) = n + 1 PROVE FlattenSeq(as \o ss) = FlattenSeq(as) \o FlattenSeq(ss)
    BY <2>0
  <2>1. PICK rs \in Seq(Seq(S)), e \in Seq(S) : ss = Append(rs, e)
    <3>1. ss # <<>>
      OBVIOUS
    <3> QED BY <3>1, SequenceEmptyOrAppend
  <2>2. Len(rs) = n
    BY <2>1
  <2>3. FlattenSeq(as \o rs) = FlattenSeq(as) \o FlattenSeq(rs)
    BY <2>2
  <2>4. as \o ss = Append(as \o rs, e) /\ as \o rs \in Seq(Seq(S))
    <3> DEFINE L == Seq(S)
    <3>1. as \in Seq(L) /\ rs \in Seq(L) /\ e \in L /\ ss = Append(rs, e)
      BY <2>1
    <3> HIDE DEF L, T
    <3>2. as \o ss = Append(as \o rs, e)
      <4>1. \A s \in Seq(L), t \in Seq(L), x \in L : s \o Append(t, x) = Append(s \o t, x)
        BY ConcatAppend
      <4> DEFINE a == as
                 b == rs
                 c == e
      <4>2. a \in Seq(L) /\ b \in Seq(L) /\ c \in L
        BY <3>1
      <4> HIDE DEF a, b, c
      <4>3. a \o Append(b, c) = Append(a \o b, c)
        BY ONLY <4>1, <4>2
      <4> QED BY <3>1, <4>3 DEF a, b, c
    <3>3. as \o rs \in Seq(L)
      BY ONLY <3>1, ConcatProperties
    <3> QED BY <2>1, <3>2, <3>3 DEF L
  <2>5. FlattenSeq(as \o ss) = FlattenSeq(as \o rs) \o e
    BY <2>4, FlattenAppend
  <2>6. FlattenSeq(ss) = FlattenSeq(rs) \o e /\ FlattenSeq(rs) \in Seq(S)
    BY <2>1, FlattenAppend
  <2>7. (FlattenSeq(as) \o FlattenSeq(rs)) \o e = FlattenSeq(as) \o (FlattenSeq(rs) \o e)
    <3>1. FlattenSeq(as) \in Seq(S) /\ FlattenSeq(rs) \in Seq(S) /\ e \in Seq(S)
      BY <1>1, <2>1, <2>6
    <3> HIDE DEF T
    <3> DEFINE a == FlattenSeq(as)
               b == FlattenSeq(rs)
    <3>2. a \in Seq(S) /\ b \in Seq(S) /\ e \in Seq(S)
      BY <3>1
    <3> HIDE DEF a, b
    <3>3. (a \o b) \o e = a \o (b \o e)
      BY ONLY <3>2, ConcatAssociative, SMTT(30)
    <3> QED BY <3>3 DEF a, b
  <2> QED BY <2>3, <2>5, <2>6, <2>7
<1>4. T = Nat
  <2> HIDE DEF T
  <2>1. T \in SUBSET Nat
    BY DEF T
  <2> QED BY <1>2, <1>3, <2>1, NatInductionBySet
<1>5. Len(bs) \in Nat
  OBVIOUS
<1> QED BY <1>4, <1>5

LEMMA FlattenOne ==
    ASSUME NEW S, NEW s \in Seq(S)
    PROVE  FlattenSeq(<<s>>) = s
<1>1. FlattenSeq(<<>>) = <<>> /\ <<s>> = Append(<<>>, s) /\ <<>> \in Seq(Seq(S)) /\ <<>> \o s = s
  BY FlattenEmpty
<1> QED BY <1>1, FlattenAppend

\* each member on its own
LEMMA FlattenSingles ==
    ASSUME NEW S, NEW s \in Seq(S)
    PROVE  FlattenSeq([i \in DOMAIN s |-> <<s[i]>>]) = s
<1> DEFINE ss == [i \in DOMAIN s |-> <<s[i]>>]
           f == [k \in 0..Len(s) |-> SubSeq(s, 1, k)]
<1>a. DOMAIN s = 1..Len(s) /\ Len(s) \in Nat /\ \A i \in 1..Len(s) : s[i] \in S
  OBVIOUS
<1>b. \A i \in 1..Len(s) : <<s[i]>> \in Seq(S)
  BY <1>a
<1>1. ss \in Seq(Seq(S)) /\ Len(ss) = Len(s) /\ Len(s) \in Nat /\ \A i \in 1..Len(s) : ss[i] = <<s[i]>>
  BY <1>a, <1>b
<1>2. \A k \in 0..Len(s) : f[k] = SubSeq(s, 1, k)
  OBVIOUS
<1> HIDE DEF ss, f
<1>3. f[0] = <<>>
  <2>1. SubSeq(s, 1, 0) = <<>>
    BY SubSeqEmpty
  <2> QED BY <1>1, <1>2, <2>1
<1>4. ASSUME NEW k \in 1..Len(s) PROVE f[k] = f[k - 1] \o ss[k]
  <2>1. 1 \in 1..Len(s) /\ k \in 1..Len(s) /\ k \in 0..Len(s) /\ k - 1 \in 0..Len(s)
    BY <1>1
  <2>2. SubSeq(s, 1, k) = SubSeq(s, 1, k - 1) \o <<s[k]>>
    BY <2>1, SubSeqRecursiveSecond
  <2> QED BY <1>1, <1>2, <2>1, <2>2
<1>5. FlattenSeq(ss) = f[Len(ss)]
  BY <1>1, <1>3, <1>4, FlattenIs DEF JoinsUp
<1>6. f[Len(ss)] = s
  BY <1>1, <1>2, SubSeqFull
<1> QED BY <1>5, <1>6 DEF ss

-----------------------------------------------------------------------------
(* Ascending lists of records and parts of lists.                          *)

\* what rises from each number to the next rises throughout
LEMMA StepsAscend ==
    ASSUME NEW n \in Nat, NEW f, \A k \in 1..n : f[k] \in Nat, \A k \in 1..(n - 1) : f[k] < f[k + 1]
    PROVE  \A i, j \in 1..n : i < j => f[i] < f[j]
<1> DEFINE T == {j \in 0..n : \A i \in 1..n : i < j => f[i] < f[j]}
<1>1. 0 \in T
  OBVIOUS
<1>2. ASSUME NEW j \in 1..n, j - 1 \in T PROVE j \in T
  <2>1. j \in 0..n
    OBVIOUS
  <2>2. ASSUME NEW i \in 1..n, i < j PROVE f[i] < f[j]
    <3>1. j - 1 \in 1..n /\ j - 1 \in 1..(n - 1) /\ (j - 1) + 1 = j
      BY <2>2
    <3>2. f[j - 1] < f[j] /\ f[j - 1] \in Nat /\ f[j] \in Nat /\ f[i] \in Nat
      BY <3>1
    <3>3. i < j - 1 => f[i] < f[j - 1]
      BY <1>2
    <3>4. i = j - 1 \/ i < j - 1
      BY <2>2
    <3> QED BY <3>2, <3>3, <3>4
  <2> QED BY <2>1, <2>2
<1>3. \A j \in 0..n : j \in T
  <2> HIDE DEF T
  <2> QED BY <1>1, <1>2, UpTo
<1> QED BY <1>3

\* the members of an ascending list that are in a set, too, are in order
LEMMA PickedInOrder ==
    ASSUME NEW n \in Nat, NEW places, NEW K, NEW s, s = InOrder(places, n),
           NEW P \in SUBSET DOMAIN s, \A i \in DOMAIN s : i \in P <=> s[i] \in K
    PROVE  Picked(s, P) = InOrder(places \cap K, n)
<1> DEFINE at == InOrder(P, Len(s))
           r == Picked(s, P)
<1>1. s \in Seq(1..n) /\ Ascends(s) /\ ToSet(s) = places \cap (1..n)
  BY InOrderFacts
<1>2. DOMAIN s = 1..Len(s) /\ Len(s) \in Nat
  BY <1>1
<1>3. /\ at \in Seq(1..Len(s)) /\ Ascends(at)
      /\ r \in Seq(1..n) /\ Len(r) = Len(at)
      /\ \A k \in 1..Len(at) : r[k] = s[at[k]] /\ at[k] \in P \cap (1..Len(s))
      /\ ToSet(r) = {s[i] : i \in P \cap (1..Len(s))}
  <2>1. at = InOrder(P, Len(s)) /\ r = Picked(s, P)
    OBVIOUS
  <2> HIDE DEF at, r
  <2> QED BY <1>1, <2>1, PickedFacts
<1>4. {s[i] : i \in P \cap (1..Len(s))} = (places \cap K) \cap (1..n)
  BY <1>1, <1>2 DEF ToSet
<1> HIDE DEF at, r
<1>5. Ascends(r)
  <2>1. DOMAIN r = 1..Len(at) /\ DOMAIN at = 1..Len(at)
    BY <1>3
  <2>2. ASSUME NEW i \in 1..Len(at), NEW j \in 1..Len(at), i < j PROVE r[i] < r[j]
    <3>1. at[i] < at[j] /\ at[i] \in DOMAIN s /\ at[j] \in DOMAIN s
      BY <1>2, <1>3, <2>1, <2>2 DEF Ascends
    <3> QED BY <1>1, <1>3, <3>1 DEF Ascends
  <2> QED BY <2>1, <2>2 DEF Ascends
<1>6. r \in Seq(Nat)
  BY <1>3
<1>7. r = InOrder(places \cap K, n)
  BY <1>3, <1>4, <1>5, <1>6, AscendingInOrder
<1> QED BY <1>7 DEF r

LEMMA NoneInOrder ==
    ASSUME NEW n \in Nat, NEW places, places \cap (1..n) = {}
    PROVE  InOrder(places, n) = <<>>
<1>1. <<>> \in Seq(Nat) /\ Ascends(<<>>) /\ ToSet(<<>>) = places \cap (1..n)
  BY DEF Ascends, ToSet
<1> QED BY <1>1, AscendingInOrder

LEMMA OneInOrder ==
    ASSUME NEW n \in Nat, NEW k \in 1..n
    PROVE  InOrder({k}, n) = <<k>>
<1>1. <<k>> \in Seq(Nat) /\ Ascends(<<k>>) /\ ToSet(<<k>>) = {k} \cap (1..n)
  BY DEF Ascends, ToSet
<1> QED BY <1>1, AscendingInOrder

\* the first of them is the least
LEMMA FirstInOrder ==
    ASSUME NEW n \in Nat, NEW places, places \cap (1..n) # {}
    PROVE  /\ InOrder(places, n) # <<>> /\ InOrder(places, n)[1] \in places \cap (1..n)
           /\ \A k \in places \cap (1..n) : InOrder(places, n)[1] <= k
<1> DEFINE s == InOrder(places, n)
<1>1. s \in Seq(1..n) /\ Ascends(s) /\ ToSet(s) = places \cap (1..n)
  BY InOrderFacts
<1> HIDE DEF s
<1>2. DOMAIN s = 1..Len(s) /\ Len(s) \in Nat /\ s # <<>>
  BY <1>1 DEF ToSet
<1>3. 1 \in DOMAIN s /\ s[1] \in places \cap (1..n)
  BY <1>1, <1>2 DEF ToSet
<1>4. ASSUME NEW k \in places \cap (1..n) PROVE s[1] <= k
  <2>1. PICK i \in 1..Len(s) : s[i] = k
    BY <1>1, <1>2 DEF ToSet
  <2>2. i = 1 \/ s[1] < s[i]
    BY <1>1, <1>2, <1>3 DEF Ascends
  <2> QED BY <1>3, <2>1, <2>2
<1> QED BY <1>2, <1>3, <1>4 DEF s

\* a set of numbers below k has a greatest one
LEMMA GreatestNat ==
    ASSUME NEW k \in Nat, NEW T \in SUBSET Nat, T # {}, \A x \in T : x < k
    PROVE  \E m \in T : \A x \in T : x <= m
<1> DEFINE S == {k - x : x \in T}
<1>0. \A x \in T : k - x \in Nat
  OBVIOUS
<1>1. S \in SUBSET Nat /\ S # {}
  BY <1>0
<1>2. PICK d \in S : \A e \in S : d <= e
  BY <1>1, LeastNat
<1>3. PICK m \in T : d = k - m
  BY <1>2
<1>4. ASSUME NEW x \in T PROVE x <= m
  <2>1. k - m <= k - x
    BY <1>2, <1>3
  <2> QED BY <1>3, <2>1
<1> QED BY <1>3, <1>4

LEMMA PickedAscends ==
    ASSUME NEW list \in Seq(Nat), Ascends(list), NEW places
    PROVE  Ascends(Picked(list, places))
<1> DEFINE at == InOrder(places, Len(list))
           r == Picked(list, places)
<1>1. at = InOrder(places, Len(list)) /\ r = Picked(list, places) /\ DOMAIN list = 1..Len(list)
  OBVIOUS
<1> HIDE DEF at, r
<1>2. /\ at \in Seq(1..Len(list)) /\ Ascends(at)
      /\ r \in Seq(Nat) /\ Len(r) = Len(at)
      /\ \A k \in 1..Len(at) : r[k] = list[at[k]] /\ at[k] \in places \cap (1..Len(list))
  BY <1>1, PickedFacts
<1>3. DOMAIN r = 1..Len(at) /\ DOMAIN at = 1..Len(at)
  BY <1>2
<1>4. ASSUME NEW i \in 1..Len(at), NEW j \in 1..Len(at), i < j PROVE r[i] < r[j]
  <2>1. at[i] < at[j] /\ at[i] \in DOMAIN list /\ at[j] \in DOMAIN list
    BY <1>1, <1>2, <1>3, <1>4 DEF Ascends
  <2> QED BY <1>2, <2>1 DEF Ascends
<1> QED BY <1>1, <1>3, <1>4 DEF Ascends

LEMMA AppendAscends ==
    ASSUME NEW s \in Seq(Nat), Ascends(s), NEW k \in Nat, \A x \in ToSet(s) : x < k
    PROVE  Ascends(Append(s, k))
<1> DEFINE r == Append(s, k)
<1>1. /\ DOMAIN r = 1..(Len(s) + 1) /\ DOMAIN s = 1..Len(s) /\ Len(s) \in Nat
      /\ r[Len(s) + 1] = k /\ \A i \in 1..Len(s) : r[i] = s[i]
  OBVIOUS
<1> HIDE DEF r
<1>2. ASSUME NEW i \in DOMAIN r, NEW j \in DOMAIN r, i < j PROVE r[i] < r[j]
  <2>1. i \in DOMAIN s /\ r[i] = s[i] /\ s[i] \in ToSet(s)
    BY <1>1, <1>2 DEF ToSet
  <2>2. CASE j = Len(s) + 1
    BY <1>1, <2>1, <2>2
  <2>3. CASE j # Len(s) + 1
    <3>1. j \in DOMAIN s /\ r[j] = s[j]
      BY <1>1, <2>3
    <3> QED BY <1>2, <2>1, <3>1 DEF Ascends
  <2> QED BY <2>2, <2>3
<1> QED BY <1>2 DEF Ascends, r

\* the last of an ascending list is the greatest
LEMMA LastAscends ==
    ASSUME NEW s \in Seq(Nat), Ascends(s), s # <<>>
    PROVE  Last(s) \in ToSet(s) /\ \A x \in ToSet(s) : x <= Last(s)
<1>1. DOMAIN s = 1..Len(s) /\ Len(s) \in Nat /\ Len(s) \in DOMAIN s /\ Last(s) = s[Len(s)]
  BY DEF Last
<1>2. \A i \in DOMAIN s : s[i] \in Nat
  OBVIOUS
<1>3. \A i \in DOMAIN s : s[i] <= s[Len(s)]
  <2> TAKE i \in DOMAIN s
  <2>1. i = Len(s) \/ i < Len(s)
    BY <1>1
  <2>2. i < Len(s) => s[i] < s[Len(s)]
    BY <1>1 DEF Ascends
  <2> QED BY <1>1, <1>2, <2>1, <2>2
<1> QED BY <1>1, <1>3 DEF ToSet

-----------------------------------------------------------------------------
(* Lists in parts. *)

PlacesOf(W, words) == {i \in DOMAIN W : W[i] \in words}
\* a list is what a text has of some words, in their order
IsPartOf(s, W) == s = Picked(W, PlacesOf(W, ToSet(s)))

\* the places of one list behind the other
LEMMA ConcatPlaces ==
    ASSUME NEW S, NEW s \in Seq(S), NEW t \in Seq(S)
    PROVE  /\ s \o t \in Seq(S) /\ Len(s \o t) = Len(s) + Len(t)
           /\ \A k \in 1..Len(s) : (s \o t)[k] = s[k]
           /\ \A k \in 1..Len(t) : (s \o t)[Len(s) + k] = t[k]
OBVIOUS

\* a part of a text from which some words that stand together are taken is a part of it still
LEMMA GapCloses ==
    ASSUME NEW S, NEW W \in Seq(S), IsInjective(W), NEW a \in Seq(S), NEW b \in Seq(S), NEW c \in Seq(S),
           IsPartOf((a \o b) \o c, W)
    PROVE  /\ IsPartOf(a \o c, W)
           /\ ToSet((a \o b) \o c) = ToSet(a \o c) \cup ToSet(b)
           /\ ToSet(b) \cap ToSet(a \o c) = {}
<1> DEFINE n == Len(W)
           all == (a \o b) \o c
           new == a \o c
           la == Len(a)
           lb == Len(b)
           lc == Len(c)
           P == PlacesOf(W, ToSet(all))
           Q == PlacesOf(W, ToSet(new))
           at == InOrder(P, n)
           shift(k) == IF k <= la THEN k ELSE k + lb
           left == [k \in 1..(la + lc) |-> at[shift(k)]]
<1>1. n \in Nat /\ la \in Nat /\ lb \in Nat /\ lc \in Nat /\ DOMAIN W = 1..n
  OBVIOUS
<1>2. /\ all \in Seq(S) /\ Len(all) = (la + lb) + lc /\ new \in Seq(S) /\ Len(new) = la + lc
      /\ \A k \in 1..(la + lc) : new[k] = all[shift(k)] /\ shift(k) \in 1..((la + lb) + lc)
      /\ \A j \in 1..lb : all[la + j] = b[j]
  <2>1. a \o b \in Seq(S) /\ Len(a \o b) = la + lb
    OBVIOUS
  <2>2. /\ \A k \in 1..la : (a \o b)[k] = a[k]
        /\ \A k \in 1..lb : (a \o b)[la + k] = b[k]
    OBVIOUS
  <2> DEFINE ab == a \o b
  <2>0. ab \in Seq(S) /\ Len(ab) = la + lb
    BY <2>1
  <2>4. /\ \A k \in 1..la : ab[k] = a[k]
        /\ \A k \in 1..lb : ab[la + k] = b[k]
    BY <2>2
  <2> HIDE DEF ab
  <2>3. /\ ab \o c \in Seq(S) /\ Len(ab \o c) = (la + lb) + lc
        /\ \A k \in 1..(la + lb) : (ab \o c)[k] = ab[k]
        /\ \A k \in 1..lc : (ab \o c)[(la + lb) + k] = c[k]
    <3>1. /\ ab \o c \in Seq(S) /\ Len(ab \o c) = Len(ab) + Len(c)
          /\ \A k \in 1..Len(ab) : (ab \o c)[k] = ab[k]
          /\ \A k \in 1..Len(c) : (ab \o c)[Len(ab) + k] = c[k]
      <4>1. ASSUME NEW d \in Seq(S)
            PROVE  /\ d \o c \in Seq(S) /\ Len(d \o c) = Len(d) + Len(c)
                   /\ \A k \in 1..Len(d) : (d \o c)[k] = d[k]
                   /\ \A k \in 1..Len(c) : (d \o c)[Len(d) + k] = c[k]
        BY ConcatPlaces
      <4> QED BY <2>0, <4>1, Zenon
    <3> QED BY <2>0, <3>1
  <2>5. all = ab \o c
    BY DEF ab
  <2>6. /\ new \in Seq(S) /\ Len(new) = la + lc
        /\ \A k \in 1..la : new[k] = a[k]
        /\ \A k \in 1..lc : new[la + k] = c[k]
    OBVIOUS
  <2> HIDE DEF all, new, la, lb, lc
  <2>7. ASSUME NEW k \in 1..(la + lc) PROVE new[k] = all[shift(k)] /\ shift(k) \in 1..((la + lb) + lc)
    <3>1. CASE k <= la
      <4>1. k \in 1..la /\ k \in 1..(la + lb) /\ k \in 1..((la + lb) + lc)
        BY <1>1, <3>1
      <4>2. new[k] = a[k] /\ all[k] = ab[k] /\ ab[k] = a[k]
        BY <4>1, <2>3, <2>4, <2>5, <2>6
      <4> QED BY <3>1, <4>1, <4>2
    <3>2. CASE ~(k <= la)
      <4>1. k - la \in 1..lc /\ la + (k - la) = k /\ (la + lb) + (k - la) = k + lb /\ k + lb \in 1..((la + lb) + lc)
        BY <1>1, <3>2
      <4>2. new[k] = c[k - la] /\ all[k + lb] = c[k - la]
        BY <4>1, <2>3, <2>5, <2>6
      <4> QED BY <3>2, <4>1, <4>2
    <3> QED BY <3>1, <3>2
  <2>8. ASSUME NEW j \in 1..lb PROVE all[la + j] = b[j]
    <3>1. la + j \in 1..(la + lb)
      BY <1>1
    <3> QED BY <3>1, <2>3, <2>4, <2>5
  <2> QED BY <2>3, <2>5, <2>6, <2>7, <2>8
<1>a. all = Picked(W, P)
  BY DEF IsPartOf
<1> HIDE DEF all, new, la, lb, lc
<1>3. /\ at \in Seq(1..n) /\ Ascends(at) /\ Len(at) = Len(all)
      /\ \A k \in 1..Len(at) : all[k] = W[at[k]] /\ at[k] \in 1..n
  <2> HIDE DEF P, at
  <2>1. at = InOrder(P, Len(W))
    BY DEF at
  <2>2. /\ at \in Seq(1..Len(W)) /\ Ascends(at) /\ Len(Picked(W, P)) = Len(at)
        /\ \A k \in 1..Len(at) : Picked(W, P)[k] = W[at[k]] /\ at[k] \in P \cap (1..Len(W))
    BY <2>1, PickedFacts
  <2> QED BY <1>a, <2>2
<1> HIDE DEF P, at
<1>4. /\ left \in Seq(1..n) /\ Len(left) = la + lc
      /\ \A k \in 1..(la + lc) : left[k] = at[shift(k)] /\ left[k] \in 1..n /\ new[k] = W[left[k]]
  <2>1. \A k \in 1..(la + lc) : at[shift(k)] \in 1..n /\ new[k] = W[at[shift(k)]]
    BY <1>1, <1>2, <1>3
  <2>2. left \in [1..(la + lc) -> 1..n]
    BY <2>1
  <2> QED BY <1>1, <2>1, <2>2
<1>5. Ascends(left)
  <2>a. SUFFICES ASSUME NEW i \in 1..(la + lc), NEW j \in 1..(la + lc), i < j PROVE left[i] < left[j]
    BY <1>1, <1>4 DEF Ascends
  <2>1. shift(i) < shift(j) /\ shift(i) \in 1..Len(at) /\ shift(j) \in 1..Len(at)
    <3>1. shift(i) \in 1..Len(at) /\ shift(j) \in 1..Len(at)
      BY <1>2, <1>3
    <3>2. shift(i) < shift(j)
      BY <1>1, <2>a
    <3> QED BY <3>1, <3>2
  <2>2. DOMAIN at = 1..Len(at)
    BY <1>3
  <2> QED BY <1>3, <1>4, <2>1, <2>2 DEF Ascends
<1>i. \A x, y \in 1..n : W[x] = W[y] => x = y
  BY <1>1 DEF IsInjective
<1>6. ToSet(left) = Q
  <2>1. ToSet(left) = {left[k] : k \in 1..(la + lc)}
    <3> HIDE DEF left
    <3> QED BY <1>4, SeqToSet
  <2>2. ToSet(new) = {new[k] : k \in 1..(la + lc)}
    BY <1>2, SeqToSet
  <2>3. Q = {i \in 1..n : W[i] \in ToSet(new)}
    BY <1>1 DEF PlacesOf
  <2> HIDE DEF left, Q
  <2>4. ASSUME NEW k \in 1..(la + lc) PROVE left[k] \in Q
    BY <1>4, <2>2, <2>3
  <2>5. ASSUME NEW i \in Q PROVE \E k \in 1..(la + lc) : left[k] = i
    <3>1. PICK k \in 1..(la + lc) : W[i] = new[k]
      BY <2>2, <2>3
    <3>2. W[i] = W[left[k]] /\ i \in 1..n /\ left[k] \in 1..n
      BY <1>4, <2>3, <3>1
    <3> QED BY <1>i, <3>2
  <2> QED BY <2>1, <2>4, <2>5
<1>7. new = Picked(W, Q)
  <2>0. Q = Q \cap (1..n) /\ left \in Seq(Nat)
    <3>1. Q \subseteq 1..n
      BY <1>1 DEF PlacesOf
    <3>2. Q = Q \cap (1..n)
      BY <3>1
    <3> HIDE DEF left, Q
    <3>3. left \in Seq(Nat)
      BY <1>1, <1>4
    <3> QED BY <3>2, <3>3
  <2> HIDE DEF left, Q
  <2>1. left = InOrder(Q, n)
    BY <1>1, <1>5, <1>6, <2>0, AscendingInOrder
  <2>2. left = InOrder(Q, Len(W))
    BY <2>1
  <2>3. /\ Picked(W, Q) \in Seq(S) /\ Len(Picked(W, Q)) = Len(left)
        /\ \A k \in 1..Len(left) : Picked(W, Q)[k] = W[left[k]]
    BY <2>2, PickedFacts
  <2> DEFINE r == Picked(W, Q)
  <2>4. r \in Seq(S) /\ Len(r) = la + lc /\ \A k \in 1..(la + lc) : r[k] = new[k]
    BY <1>4, <2>3
  <2> HIDE DEF r
  <2>5. r = new
    BY <1>2, <2>4
  <2> QED BY <2>5 DEF r
<1>8. ToSet(all) = ToSet(new) \cup ToSet(b)
  <2>1. ToSet(all) = (ToSet(a) \cup ToSet(b)) \cup ToSet(c)
    <3>1. a \o b \in Seq(S) /\ ToSet(a \o b) = ToSet(a) \cup ToSet(b)
      BY ConcatMembers
    <3> DEFINE ab == a \o b
    <3>2. ab \in Seq(S) /\ ToSet(ab) = ToSet(a) \cup ToSet(b)
      BY <3>1
    <3>3. all = ab \o c
      BY DEF all
    <3> HIDE DEF ab
    <3>4. ToSet(ab \o c) = ToSet(ab) \cup ToSet(c)
      BY <3>2, ConcatMembers
    <3> QED BY <3>2, <3>3, <3>4
  <2>2. ToSet(new) = ToSet(a) \cup ToSet(c)
    BY ConcatMembers DEF new
  <2> QED BY <2>1, <2>2
<1>9. ToSet(b) \cap ToSet(new) = {}
  <2> SUFFICES ASSUME NEW j \in 1..lb, NEW k \in 1..(la + lc), b[j] = new[k] PROVE FALSE
    <3>1. ToSet(b) = {b[j] : j \in 1..lb}
      BY SeqToSet DEF lb
    <3>2. ToSet(new) = {new[k] : k \in 1..(la + lc)}
      BY <1>2, SeqToSet
    <3> QED BY <3>1, <3>2
  <2> DEFINE p == la + j
             q == shift(k)
  <2>1. p \in 1..Len(at) /\ q \in 1..Len(at) /\ (p < q \/ q < p)
    <3>1. j \in 1..lb /\ k \in 1..(la + lc) /\ lb \in Nat /\ la \in Nat /\ lc \in Nat
      BY <1>1
    <3>2. Len(at) = la + lb + lc
      BY <1>2, <1>3
    <3> QED BY ONLY <3>1, <3>2
  <2>2. W[at[p]] = b[j] /\ W[at[q]] = new[k]
    <3>1. b[j] = W[at[la + j]]
      BY <1>2, <1>3, <2>1
    <3>2. new[k] = W[at[shift(k)]]
      BY <1>2, <1>3, <2>1
    <3> QED BY <3>1, <3>2
  <2> HIDE DEF p, q
  <2>3. DOMAIN at = 1..Len(at) /\ at[p] \in 1..n /\ at[q] \in 1..n
    <3>1. at \in Seq(1..n) /\ \A x \in 1..Len(at) : at[x] \in 1..n
      BY <1>3
    <3>2. at[p] \in 1..n /\ at[q] \in 1..n
      BY ONLY <2>1, <3>1, Zenon
    <3> QED BY ONLY <3>1, <3>2
  <2>4. at[p] = at[q]
    BY <1>i, <2>2, <2>3
  <2>5. at[p] < at[q] \/ at[q] < at[p]
    <3>1. \A x, y \in DOMAIN at : x < y => at[x] < at[y]
      BY <1>3 DEF Ascends
    <3> QED BY ONLY <3>1, <2>1, <2>3
  <2> QED BY <2>3, <2>4, <2>5
<1> QED BY <1>7, <1>8, <1>9 DEF IsPartOf, all, new, Q

\* lists behind one another, however they are grouped
LEMMA ConcatInTurn ==
    ASSUME NEW S, NEW a \in Seq(S), NEW b \in Seq(S), NEW c \in Seq(S)
    PROVE  a \o b \in Seq(S) /\ (a \o b) \o c = a \o (b \o c)
<1>1. a \o b \in Seq(S)
  OBVIOUS
<1> QED BY <1>1, ConcatAssociative

\* a list is its two parts, cut anywhere
LEMMA SplitAt ==
    ASSUME NEW S, NEW s \in Seq(S), NEW n \in 0..Len(s)
    PROVE  /\ SubSeq(s, 1, n) \in Seq(S) /\ SubSeq(s, n + 1, Len(s)) \in Seq(S)
           /\ Len(SubSeq(s, 1, n)) = n /\ Len(SubSeq(s, n + 1, Len(s))) = Len(s) - n
           /\ s = SubSeq(s, 1, n) \o SubSeq(s, n + 1, Len(s))
<1> DEFINE a == SubSeq(s, 1, n)
           b == SubSeq(s, n + 1, Len(s))
<1>1. a \in Seq(S) /\ Len(a) = n /\ \A k \in 1..n : a[k] = s[k]
  OBVIOUS
<1>2. b \in Seq(S) /\ Len(b) = Len(s) - n /\ \A k \in 1..(Len(s) - n) : b[k] = s[n + k]
  OBVIOUS
<1> HIDE DEF a, b
<1>3. /\ a \o b \in Seq(S) /\ Len(a \o b) = Len(s)
      /\ \A k \in 1..n : (a \o b)[k] = a[k]
      /\ \A k \in 1..(Len(s) - n) : (a \o b)[n + k] = b[k]
  BY <1>1, <1>2, ConcatPlaces
<1> DEFINE ab == a \o b
<1>4. ab \in Seq(S) /\ Len(ab) = Len(s) /\ \A k \in 1..Len(s) : ab[k] = s[k]
  <2>1. ASSUME NEW k \in 1..Len(s) PROVE ab[k] = s[k]
    <3>1. CASE k <= n
      <4>1. k \in 1..n
        BY <3>1
      <4> QED BY <1>1, <1>3, <4>1
    <3>2. CASE ~(k <= n)
      <4>1. k - n \in 1..(Len(s) - n) /\ n + (k - n) = k
        BY <3>2
      <4> QED BY <1>2, <1>3, <4>1
    <3> QED BY <3>1, <3>2
  <2> QED BY <1>3, <2>1
<1> HIDE DEF ab
<1>5. ab = s
  BY <1>4
<1> QED BY <1>1, <1>2, <1>5 DEF a, b, ab

\* a list around one of its members
LEMMA AroundOne ==
    ASSUME NEW S, NEW s \in Seq(S), NEW i \in 1..Len(s)
    PROVE  /\ SubSeq(s, 1, i - 1) \in Seq(S) /\ SubSeq(s, i + 1, Len(s)) \in Seq(S)
           /\ s = (SubSeq(s, 1, i - 1) \o <<s[i]>>) \o SubSeq(s, i + 1, Len(s))
<1>0. s[i] \in S /\ <<s[i]>> \in Seq(S) /\ i - 1 \in 0..Len(s) /\ i \in 0..Len(s) /\ (i - 1) + 1 = i
  OBVIOUS
<1> DEFINE a == SubSeq(s, 1, i - 1)
           b == SubSeq(s, 1, i)
           c == SubSeq(s, i + 1, Len(s))
<1>1. b \in Seq(S) /\ c \in Seq(S) /\ s = b \o c
  BY <1>0, SplitAt
<1>2. a \in Seq(S)
  BY <1>0, SplitAt
<1>3. b = a \o <<s[i]>>
  OBVIOUS
<1> QED BY <1>1, <1>2, <1>3

\* an empty list changes nothing in front of a list or behind it
LEMMA EmptyParts ==
    ASSUME NEW S, NEW a \in Seq(S)
    PROVE  /\ <<>> \in Seq(S) /\ (a \o <<>>) \o <<>> = a /\ a \o <<>> = a /\ (<<>> \o a) \o <<>> = a
           /\ <<>> \o a = a /\ (a \o <<>>) \o a = a \o a
OBVIOUS

\* two lists with the same members at each place are one
LEMMA SameSeq ==
    ASSUME NEW S, NEW s \in Seq(S), NEW t \in Seq(S), Len(s) = Len(t), \A k \in 1..Len(t) : s[k] = t[k]
    PROVE  s = t
OBVIOUS

\* two pieces in front of the rest
LEMMA PairInTurn ==
    ASSUME NEW S, NEW p \in S, NEW q \in S, NEW rest \in Seq(S)
    PROVE  <<p, q>> \o rest = <<p>> \o (<<q>> \o rest)
<1>1. <<p>> \in Seq(S) /\ <<q>> \in Seq(S)
  OBVIOUS
<1>2. <<p>> \o <<q>> = <<p, q>>
  <2> DEFINE a == <<p>>
             b == <<q>>
             pq == <<p, q>>
  <2>1. a \in Seq(S) /\ Len(a) = 1 /\ a[1] = p /\ b \in Seq(S) /\ Len(b) = 1 /\ b[1] = q
    OBVIOUS
  <2>2. pq \in Seq(S) /\ Len(pq) = 2 /\ pq[1] = p /\ pq[2] = q
    OBVIOUS
  <2> HIDE DEF a, b, pq
  <2> DEFINE ab == a \o b
  <2>3. ab \in Seq(S) /\ Len(ab) = 2 /\ ab[1] = p /\ ab[2] = q
    <3>1. /\ a \o b \in Seq(S) /\ Len(a \o b) = Len(a) + Len(b)
          /\ (\A k \in 1..Len(a) : (a \o b)[k] = a[k])
          /\ \A k \in 1..Len(b) : (a \o b)[Len(a) + k] = b[k]
      <4>1. ASSUME NEW x \in Seq(S), NEW y \in Seq(S)
            PROVE  /\ x \o y \in Seq(S) /\ Len(x \o y) = Len(x) + Len(y)
                   /\ (\A k \in 1..Len(x) : (x \o y)[k] = x[k])
                   /\ \A k \in 1..Len(y) : (x \o y)[Len(x) + k] = y[k]
        BY ConcatPlaces
      <4> QED BY <2>1, <4>1, Zenon
    <3> HIDE DEF ab
    <3>2. /\ ab \in Seq(S) /\ Len(ab) = Len(a) + Len(b)
          /\ (\A k \in 1..Len(a) : ab[k] = a[k])
          /\ \A k \in 1..Len(b) : ab[Len(a) + k] = b[k]
      BY <3>1 DEF ab
    <3>3. 1 \in 1..Len(a) /\ 1 \in 1..Len(b) /\ Len(a) + 1 = 2
      BY <2>1
    <3> QED BY <2>1, <3>2, <3>3
  <2> HIDE DEF ab
  <2>4. \A k \in 1..2 : k = 1 \/ k = 2
    OBVIOUS
  <2>5. ab = pq
    BY <2>2, <2>3, <2>4, SameSeq
  <2> QED BY <2>5 DEF ab, a, b, pq
<1>3. (<<p>> \o <<q>>) \o rest = <<p>> \o (<<q>> \o rest)
  BY <1>1, ConcatInTurn
<1> QED BY <1>2, <1>3

\* one list behind the other, as an operator the provers do not look into
Then(x, y) == x \o y

LEMMA ThenInTurn ==
    ASSUME NEW S, NEW x \in Seq(S), NEW y \in Seq(S), NEW z \in Seq(S)
    PROVE  Then(x, y) \in Seq(S) /\ Then(Then(x, y), z) = Then(x, Then(y, z))
BY ConcatInTurn DEF Then

\* all places of a list make the list
LEMMA AllPicked ==
    ASSUME NEW S, NEW s \in Seq(S)
    PROVE  Picked(s, DOMAIN s) = s
<1> DEFINE n == Len(s)
           id == [k \in 1..n |-> k]
           at == InOrder(DOMAIN s, n)
<1>1. n \in Nat /\ DOMAIN s = 1..n
  OBVIOUS
<1>2. id \in Seq(1..n) /\ Len(id) = n /\ \A k \in 1..n : id[k] = k
  <2>1. n \in Nat /\ id \in [1..n -> 1..n] /\ DOMAIN id = 1..n
    BY <1>1
  <2> QED BY <2>1
<1>3. Ascends(id) /\ ToSet(id) = 1..n
  <2> HIDE DEF id
  <2>1. DOMAIN id = 1..n /\ ToSet(id) = {id[k] : k \in 1..n}
    BY <1>2 DEF ToSet
  <2>2. \A k \in DOMAIN id : id[k] = k
    BY <1>2, <2>1
  <2>3. Ascends(id)
    BY ONLY <2>2, <1>1, <2>1 DEF Ascends
  <2>4. ToSet(id) = 1..n
    BY ONLY <2>2, <2>1
  <2> QED BY <2>3, <2>4
<1>4. id = at
  <2> HIDE DEF id
  <2>1. id \in Seq(Nat)
    BY <1>1, <1>2
  <2>2. ToSet(id) = (DOMAIN s) \cap (1..n)
    BY <1>1, <1>3
  <2> QED BY ONLY <1>1, <1>3, <2>1, <2>2, AscendingInOrder DEF at
<1> HIDE DEF id, at
<1>5. /\ Picked(s, DOMAIN s) \in Seq(S) /\ Len(Picked(s, DOMAIN s)) = Len(at)
      /\ \A k \in 1..Len(at) : Picked(s, DOMAIN s)[k] = s[at[k]]
  BY PickedFacts DEF at, n
<1> DEFINE p == Picked(s, DOMAIN s)
<1>6. p \in Seq(S) /\ Len(p) = n /\ \A k \in 1..n : p[k] = s[k]
  BY <1>2, <1>4, <1>5
<1> HIDE DEF p, n
<1>7. p = s
  BY <1>6, SameSeq DEF n
<1> QED BY <1>7 DEF p

\* the places and members of a list
LEMMA SeqPlaces ==
    ASSUME NEW S, NEW s \in Seq(S)
    PROVE  Len(s) \in Nat /\ DOMAIN s = 1..Len(s) /\ \A k \in 1..Len(s) : s[k] \in S
OBVIOUS

\* what one list behind the other is
IsJoin(z, x, y, S) ==
    /\ z \in Seq(S) /\ Len(z) = Len(x) + Len(y) /\ Len(x) \in Nat /\ Len(y) \in Nat
    /\ \A k \in 1..Len(x) : z[k] = x[k]
    /\ \A k \in 1..Len(y) : z[Len(x) + k] = y[k]

\* ... which is what the list behind is
LEMMA JoinIs ==
    ASSUME NEW S, NEW x \in Seq(S), NEW y \in Seq(S)
    PROVE  IsJoin(x \o y, x, y, S)
BY ConcatPlaces DEF IsJoin

\* the places behind the first m
Behind(P, m, n) == {j \in 1..n : m + j \in P}

\* what is picked of two lists behind one another is picked of each
LEMMA PickedJoins ==
    ASSUME NEW S, NEW a \in Seq(S), NEW b \in Seq(S), NEW P
    PROVE  Picked(a \o b, P) = Picked(a, P) \o Picked(b, Behind(P, Len(a), Len(b)))
<1> DEFINE la == Len(a)
           lb == Len(b)
           n == la + lb
           ab == a \o b
           Q == Behind(P, la, lb)
           A == P \cap (1..la)
           B == P \cap ((la + 1)..n)
           at == InOrder(P, n)
           s == InOrder(P, la)
           t == InOrder(Q, lb)
           moved == [k \in 1..Len(t) |-> la + t[k]]
<1>1. la \in Nat /\ lb \in Nat /\ n \in Nat /\ la <= n
  OBVIOUS
<1>2. /\ ab \in Seq(S) /\ Len(ab) = n
      /\ \A k \in 1..la : ab[k] = a[k]
      /\ \A k \in 1..lb : ab[la + k] = b[k]
  BY ConcatPlaces
<1>3. /\ s \in Seq(1..la) /\ Ascends(s) /\ ToSet(s) = A
      /\ t \in Seq(1..lb) /\ Ascends(t) /\ ToSet(t) = Q
  <2>1. s \in Seq(1..la) /\ Ascends(s) /\ ToSet(s) = P \cap (1..la)
    BY <1>1, InOrderFacts
  <2>2. t \in Seq(1..lb) /\ Ascends(t) /\ ToSet(t) = Q \cap (1..lb)
    BY <1>1, InOrderFacts
  <2> QED BY <2>1, <2>2 DEF Behind
<1> HIDE DEF la, lb, n, ab, s, t
<1>4. /\ moved \in Seq(Nat) /\ Len(moved) = Len(t) /\ \A k \in 1..Len(t) : moved[k] = la + t[k]
      /\ DOMAIN moved = 1..Len(t) /\ DOMAIN t = 1..Len(t) /\ Len(t) \in Nat /\ Len(s) \in Nat
  <2>1. Len(t) \in Nat /\ DOMAIN t = 1..Len(t) /\ Len(s) \in Nat
    BY <1>3
  <2>2. \A k \in 1..Len(t) : t[k] \in 1..lb
    BY <1>3, SeqPlaces
  <2>3. moved \in [1..Len(t) -> Nat]
    BY <1>1, <2>2
  <2> QED BY <2>1, <2>3
<1> HIDE DEF moved
<1>5. Ascends(moved) /\ ToSet(moved) = B
  <2>1. \A k \in 1..Len(t) : t[k] \in 1..lb
    BY <1>3, SeqPlaces
  <2>2. Ascends(moved)
    BY <1>1, <1>3, <1>4, <2>1 DEF Ascends
  <2>3. ASSUME NEW x \in B PROVE x \in ToSet(moved)
    <3>1. x - la \in Q /\ x = la + (x - la)
      BY <1>1, <2>3 DEF n, Behind
    <3>2. PICK k \in 1..Len(t) : t[k] = x - la
      BY <1>3, <1>4, <3>1 DEF ToSet
    <3> QED BY <1>4, <3>1, <3>2 DEF ToSet
  <2>4. ASSUME NEW x \in ToSet(moved) PROVE x \in B
    <3>1. PICK k \in 1..Len(t) : x = la + t[k]
      BY <1>4, <2>4 DEF ToSet
    <3>2. t[k] \in Q
      BY <1>3, <1>4 DEF ToSet
    <3> QED BY <1>1, <3>1, <3>2 DEF n, Behind
  <2> QED BY <2>2, <2>3, <2>4
<1>6. InOrder(A, n) = s /\ InOrder(B, n) = moved
  <2>1. s \in Seq(Nat) /\ ToSet(s) = A \cap (1..n)
    BY <1>1, <1>3
  <2>2. ToSet(moved) = B \cap (1..n)
    BY <1>1, <1>5
  <2> QED BY <1>1, <1>3, <1>4, <1>5, <2>1, <2>2, AscendingInOrder
<1>7. at = s \o moved
  <2>1. \A i \in A \cap (1..n), j \in B \cap (1..n) : i < j
    BY <1>1
  <2>2. InOrder(A \cup B, n) = s \o moved
    BY <1>1, <1>6, <2>1, OrderOfParts
  <2>3. at \in Seq(Nat) /\ Ascends(at) /\ ToSet(at) = P \cap (1..n)
    <3>1. at \in Seq(1..n) /\ Ascends(at) /\ ToSet(at) = P \cap (1..n)
      BY <1>1, InOrderFacts
    <3> QED BY <1>1, <3>1
  <2>4. P \cap (1..n) = (A \cup B) \cap (1..n)
    BY <1>1
  <2>5. at = InOrder(A \cup B, n)
    BY <1>1, <2>3, <2>4, AscendingInOrder
  <2> QED BY <2>2, <2>5
<1> HIDE DEF at, A, B, Q
<1>8. /\ at \in Seq(Nat) /\ Len(at) = Len(s) + Len(t)
      /\ \A k \in 1..Len(s) : at[k] = s[k]
      /\ \A k \in 1..Len(t) : at[Len(s) + k] = la + t[k]
  <2>1. s \in Seq(Nat)
    BY <1>1, <1>3
  <2>2. IsJoin(s \o moved, s, moved, Nat)
    BY <1>4, <2>1, JoinIs, Zenon
  <2>3. IsJoin(at, s, moved, Nat)
    BY <1>7, <2>2, Zenon
  <2> QED BY <1>4, <2>3 DEF IsJoin
<1> DEFINE x == Picked(a, P)
           y == Picked(b, Q)
           z == Picked(ab, P)
<1>9. /\ x \in Seq(S) /\ Len(x) = Len(s) /\ \A k \in 1..Len(s) : x[k] = a[s[k]] /\ s[k] \in 1..la
      /\ y \in Seq(S) /\ Len(y) = Len(t) /\ \A k \in 1..Len(t) : y[k] = b[t[k]] /\ t[k] \in 1..lb
      /\ z \in Seq(S) /\ Len(z) = Len(at) /\ \A k \in 1..Len(at) : z[k] = ab[at[k]]
  <2>1. s = InOrder(P, Len(a)) /\ t = InOrder(Q, Len(b)) /\ at = InOrder(P, Len(ab))
    BY <1>2 DEF s, t, at, la, lb
  <2>2. x \in Seq(S) /\ Len(x) = Len(s) /\ \A k \in 1..Len(s) : x[k] = a[s[k]] /\ s[k] \in P \cap (1..Len(a))
    BY <2>1, PickedFacts
  <2>3. y \in Seq(S) /\ Len(y) = Len(t) /\ \A k \in 1..Len(t) : y[k] = b[t[k]] /\ t[k] \in Q \cap (1..Len(b))
    BY <2>1, PickedFacts
  <2>4. z \in Seq(S) /\ Len(z) = Len(at) /\ \A k \in 1..Len(at) : z[k] = ab[at[k]]
    BY <1>2, <2>1, PickedFacts
  <2> QED BY <2>2, <2>3, <2>4 DEF la, lb
<1> HIDE DEF x, y, z
<1> DEFINE xy == x \o y
<1>10. /\ xy \in Seq(S) /\ Len(xy) = Len(s) + Len(t)
       /\ \A k \in 1..Len(s) : xy[k] = x[k]
       /\ \A k \in 1..Len(t) : xy[Len(s) + k] = y[k]
  <2>1. IsJoin(xy, x, y, S)
    BY <1>9, JoinIs, Zenon
  <2> HIDE DEF xy
  <2> QED BY <1>9, <2>1 DEF IsJoin
<1> HIDE DEF xy
<1>11. \A k \in 1..(Len(s) + Len(t)) : xy[k] = z[k]
  <2> SUFFICES ASSUME NEW k \in 1..(Len(s) + Len(t)) PROVE xy[k] = z[k]
    OBVIOUS
  <2>1. CASE k <= Len(s)
    <3>1. k \in 1..Len(s) /\ k \in 1..Len(at)
      BY <1>4, <1>8, <2>1
    <3>2. xy[k] = x[k] /\ at[k] = s[k] /\ x[k] = a[s[k]] /\ s[k] \in 1..la
      BY <1>8, <1>9, <1>10, <3>1
    <3>3. z[k] = ab[at[k]]
      BY <1>9, <3>1
    <3> QED BY <1>2, <3>2, <3>3
  <2>2. CASE ~(k <= Len(s))
    <3>1. k - Len(s) \in 1..Len(t) /\ k = Len(s) + (k - Len(s)) /\ k \in 1..Len(at)
      BY <1>4, <1>8, <2>2
    <3> DEFINE j == k - Len(s)
    <3>2. j \in 1..Len(t) /\ k = Len(s) + j
      BY <3>1
    <3> HIDE DEF j
    <3>3. xy[k] = y[j] /\ at[k] = la + t[j] /\ t[j] \in 1..lb /\ y[j] = b[t[j]]
      BY <1>8, <1>9, <1>10, <3>2
    <3>4. z[k] = ab[la + t[j]]
      BY <1>9, <3>1, <3>3
    <3> QED BY <1>2, <3>3, <3>4
  <2> QED BY <2>1, <2>2
<1>12. xy = z
  <2>1. xy \in Seq(S) /\ Len(xy) = Len(z) /\ Len(z) = Len(s) + Len(t)
    BY <1>8, <1>9, <1>10
  <2> HIDE DEF xy
  <2> QED BY <1>9, <1>11, <2>1, SameSeq
<1> QED BY <1>12, Zenon DEF x, y, z, ab, Q, la, lb, xy

\* two lists behind one another can be taken apart again
LEMMA FrontAndBack ==
    ASSUME NEW S, NEW p \in Seq(S), NEW q \in Seq(S)
    PROVE  /\ SubSeq(p \o q, 1, Len(p)) = p
           /\ SubSeq(p \o q, Len(p) + 1, Len(p \o q)) = q
<1> DEFINE pq == p \o q
           a == SubSeq(pq, 1, Len(p))
           b == SubSeq(pq, Len(p) + 1, Len(pq))
<1>1. IsJoin(pq, p, q, S)
  BY JoinIs, Zenon
<1> HIDE DEF pq
<1>2. pq \in Seq(S) /\ Len(pq) = Len(p) + Len(q) /\ Len(p) \in Nat /\ Len(q) \in Nat
  BY <1>1 DEF IsJoin
<1>3. a \in Seq(S) /\ Len(a) = Len(p) /\ \A i \in 1..Len(p) : a[i] = pq[i]
  BY <1>2
<1>4. b \in Seq(S) /\ Len(b) = Len(q) /\ \A i \in 1..Len(q) : b[i] = pq[Len(p) + i]
  BY <1>2
<1> HIDE DEF a, b
<1>5. a = p
  <2>1. \A i \in 1..Len(p) : a[i] = p[i]
    BY <1>1, <1>3 DEF IsJoin
  <2> QED BY <1>3, <2>1, SameSeq
<1>6. b = q
  <2>1. \A i \in 1..Len(q) : b[i] = q[i]
    BY <1>1, <1>4 DEF IsJoin
  <2> QED BY <1>4, <2>1, SameSeq
<1> QED BY <1>5, <1>6, Zenon DEF a, b, pq
=============================================================================
