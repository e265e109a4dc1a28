---------------------------- MODULE QueueLemmas ----------------------------
(***************************************************************************)
(* What the operations of an array used as a queue do to a sequence        *)
(* without repetitions: the program's queues are all of this kind.         *)
(***************************************************************************)
EXTENDS Queues, Integers, SequencesExt, SequenceTheorems, FiniteSetTheorems, TLAPS

(* shift() removes the first one and nobody else.                          *)
LEMMA TailOfQueue ==
    ASSUME NEW S, NEW q \in Seq(S), q # <<>>, IsInjective(q)
    PROVE  /\ Head(q) \in S
           /\ Tail(q) \in Seq(S)
           /\ IsInjective(Tail(q))
           /\ \A d \in S : Contains(Tail(q), d) <=> Contains(q, d) /\ d # Head(q)
           /\ Contains(q, Head(q))
  <1>1. Head(q) \in S /\ Tail(q) \in Seq(S) /\ Len(Tail(q)) = Len(q) - 1
    OBVIOUS
  <1>2. \A i \in 1..Len(Tail(q)) : Tail(q)[i] = q[i + 1]
    OBVIOUS
  <1>3. DOMAIN Tail(q) = 1..Len(Tail(q)) /\ DOMAIN q = 1..Len(q) /\ Len(q) \in Nat \ {0}
    OBVIOUS
  <1>4. IsInjective(Tail(q))
    BY <1>1, <1>2, <1>3, SMT DEF IsInjective
  <1>5. Head(q) = q[1]
    OBVIOUS
  <1>6. ASSUME NEW d \in S
        PROVE  Contains(Tail(q), d) <=> Contains(q, d) /\ d # Head(q)
    <2>1. ASSUME NEW i \in 1..Len(Tail(q)), Tail(q)[i] = d
          PROVE  Contains(q, d) /\ d # Head(q)
      BY <2>1, <1>1, <1>2, <1>3, <1>5, SMT DEF IsInjective, Contains
    <2>2. ASSUME NEW i \in 1..Len(q), q[i] = d, d # Head(q)
          PROVE  Contains(Tail(q), d)
      <3>1. i # 1 /\ i - 1 \in 1..Len(Tail(q))
        BY <2>2, <1>1, <1>3, <1>5, SMT
      <3>2. Tail(q)[i - 1] = d
        BY <3>1, <2>2, <1>2, SMT
      <3>3. QED BY <3>1, <3>2 DEF Contains
    <2>3. QED BY <2>1, <2>2 DEF Contains
  <1>7. Contains(q, Head(q))
    BY <1>3, <1>5, SMT DEF Contains
  <1>8. QED BY <1>1, <1>4, <1>6, <1>7

(* push() adds its argument and keeps the others.                          *)
LEMMA AppendToQueue ==
    ASSUME NEW S, NEW q \in Seq(S), NEW e \in S,
           IsInjective(q), ~Contains(q, e)
    PROVE  /\ Append(q, e) \in Seq(S)
           /\ IsInjective(Append(q, e))
           /\ \A d \in S : Contains(Append(q, e), d) <=> Contains(q, d) \/ d = e
  <1> DEFINE a == Append(q, e)
  <1>1. a \in Seq(S) /\ Len(a) = Len(q) + 1 /\ Len(q) \in Nat
    OBVIOUS
  <1>2. a[Len(q) + 1] = e /\ \A i \in 1..Len(q) : a[i] = q[i]
    OBVIOUS
  <1>3. DOMAIN a = 1..Len(q) + 1 /\ DOMAIN q = 1..Len(q)
    OBVIOUS
  <1> HIDE DEF a
  <1>4. IsInjective(a)
    BY <1>1, <1>2, <1>3, SMT DEF IsInjective, Contains
  <1>5. ASSUME NEW d \in S
        PROVE  Contains(a, d) <=> Contains(q, d) \/ d = e
    BY <1>1, <1>2, SMT DEF Contains
  <1>6. QED BY <1>1, <1>4, <1>5 DEF a

(* splice(i, 1) removes what is at its place and nobody else.              *)
LEMMA RemoveFromQueue ==
    ASSUME NEW S, NEW q \in Seq(S), NEW c \in S, IsInjective(q),
           NEW k \in 1..Len(q), q[k] = c
    PROVE  /\ RemoveAt(q, k) \in Seq(S)
           /\ IsInjective(RemoveAt(q, k))
           /\ \A d \in S : Contains(RemoveAt(q, k), d) <=> Contains(q, d) /\ d # c
  <1> DEFINE r == RemoveAt(q, k)
  <1>1. k \in 1..Len(q) /\ q[k] = c
    OBVIOUS
  <1>3. /\ r \in Seq(S)
        /\ Len(r) = Len(q) - 1
        /\ \A i \in 1..Len(q) - 1 : r[i] = IF i < k THEN q[i] ELSE q[i + 1]
    <2> DEFINE before == SubSeq(q, 1, k - 1)
               after  == SubSeq(q, k + 1, Len(q))
    <2>1. k \in Nat /\ Len(q) \in Nat /\ k <= Len(q) /\ k >= 1
      BY <1>1
    <2>2. /\ before \in Seq(S)
          /\ Len(before) = k - 1
          /\ \A i \in 1..k - 1 : before[i] = q[i]
      BY <2>1, SubSeqProperties, SMT
    <2>3. /\ after \in Seq(S)
          /\ Len(after) = Len(q) - k
          /\ \A i \in 1..Len(q) - k : after[i] = q[k + i]
      BY <2>1, SubSeqProperties, SMT
    <2>4. r = before \o after
      BY DEF RemoveAt
    <2> HIDE DEF before, after, r
    <2>5. /\ r \in Seq(S)
          /\ Len(r) = Len(before) + Len(after)
          /\ \A i \in 1..Len(before) + Len(after) :
                r[i] = IF i <= Len(before) THEN before[i] ELSE after[i - Len(before)]
      BY <2>2, <2>3, <2>4, ConcatProperties
    <2>6. ASSUME NEW i \in 1..Len(q) - 1
          PROVE  r[i] = IF i < k THEN q[i] ELSE q[i + 1]
      <3>1. CASE i < k
        <4>1. i \in 1..Len(before) + Len(after) /\ i <= Len(before) /\ i \in 1..k - 1
          BY <3>1, <2>1, <2>2, <2>3, SMT
        <4>2. r[i] = before[i]
          BY <4>1, <2>5, Zenon
        <4>3. QED BY <3>1, <4>1, <4>2, <2>2, Zenon
      <3>2. CASE i >= k
        <4>0. i \in 1..Len(before) + Len(after) /\ ~(i <= Len(before))
          BY <3>2, <2>1, <2>2, <2>3, SMT
        <4>1. r[i] = after[i - (k - 1)]
          BY <4>0, <2>2, <2>5, Zenon
        <4>3. i - (k - 1) \in 1..Len(q) - k
          BY <3>2, <2>1, SMT
        <4>2. after[i - (k - 1)] = q[k + (i - (k - 1))]
          BY <4>3, <2>3
        <4>4. k + (i - (k - 1)) = i + 1
          BY <2>1, SMT
        <4>5. QED BY <3>2, <4>1, <4>2, <4>4, <2>1, SMT
      <3>3. QED BY <3>1, <3>2, <2>1, SMT
    <2>7. QED BY <2>1, <2>2, <2>3, <2>5, <2>6, SMT
  <1>4. DOMAIN r = 1..Len(q) - 1 /\ DOMAIN q = 1..Len(q) /\ Len(q) \in Nat
    BY <1>3
  <1> HIDE DEF r
  <1>5. IsInjective(r)
    <2> SUFFICES ASSUME NEW i \in DOMAIN r, NEW j \in DOMAIN r, r[i] = r[j]
                 PROVE  i = j
      BY DEF IsInjective
    <2> DEFINE at(n) == IF n < k THEN n ELSE n + 1
    <2>1. \A n \in DOMAIN r : r[n] = q[at(n)] /\ at(n) \in DOMAIN q
      BY <1>1, <1>3, <1>4
    <2>2. q[at(i)] = q[at(j)] /\ at(i) \in DOMAIN q /\ at(j) \in DOMAIN q
      BY <2>1
    <2>3. at(i) = at(j)
      <3> HIDE DEF at
      <3>1. QED BY <2>2 DEF IsInjective
    <2>4. i \in Nat /\ j \in Nat /\ k \in Nat
      BY <1>1, <1>4
    <2>5. QED BY <2>3, <2>4
  <1>6. ASSUME NEW d \in S
        PROVE  Contains(r, d) <=> Contains(q, d) /\ d # c
    <2>1. ASSUME NEW i \in 1..Len(r), r[i] = d
          PROVE  Contains(q, d) /\ d # c
      BY <2>1, <1>1, <1>3, <1>4, SMT DEF Contains, IsInjective
    <2>2. ASSUME NEW i \in 1..Len(q), q[i] = d, d # c
          PROVE  Contains(r, d)
      <3>1. CASE i < k
        <4>1. i \in 1..Len(r) /\ r[i] = d
          BY <3>1, <2>2, <1>1, <1>3, <1>4, SMT
        <4>2. QED BY <4>1 DEF Contains
      <3>2. CASE i > k
        <4>1. i - 1 \in 1..Len(r) /\ r[i - 1] = d
          BY <3>2, <2>2, <1>1, <1>3, <1>4, SMT
        <4>2. QED BY <4>1 DEF Contains
      <3>3. i # k
        BY <2>2, <1>1
      <3>4. QED BY <3>1, <3>2, <3>3, <1>1, <1>4, SMT
    <2>3. QED BY <2>1, <2>2 DEF Contains
  <1>7. QED BY <1>3, <1>5, <1>6 DEF r

(* unshift() puts its argument first and keeps the others.                 *)
LEMMA PrependToQueue ==
    ASSUME NEW S, NEW q \in Seq(S), NEW e \in S,
           IsInjective(q), ~Contains(q, e)
    PROVE  /\ <<e>> \o q \in Seq(S)
           /\ IsInjective(<<e>> \o q)
           /\ \A d \in S : Contains(<<e>> \o q, d) <=> Contains(q, d) \/ d = e
  <1> DEFINE a == <<e>> \o q
  <1>1. a \in Seq(S) /\ Len(a) = Len(q) + 1 /\ Len(q) \in Nat
    OBVIOUS
  <1>2. a[1] = e /\ \A i \in 2..Len(q) + 1 : a[i] = q[i - 1]
    OBVIOUS
  <1>3. DOMAIN a = 1..Len(q) + 1 /\ DOMAIN q = 1..Len(q)
    OBVIOUS
  <1> HIDE DEF a
  <1>4. IsInjective(a)
    <2> SUFFICES ASSUME NEW i \in DOMAIN a, NEW j \in DOMAIN a, a[i] = a[j]
                 PROVE  i = j
      BY DEF IsInjective
    <2>1. i \in 1..Len(q) + 1 /\ j \in 1..Len(q) + 1
      BY <1>3
    <2>2. \A n \in 2..Len(q) + 1 : n - 1 \in 1..Len(q) /\ a[n] # e
      <3>1. ASSUME NEW n \in 2..Len(q) + 1  PROVE  n - 1 \in 1..Len(q)
        BY <1>1
      <3>2. QED BY <3>1, <1>2 DEF Contains
    <2>3. CASE i = 1 \/ j = 1
      <3>1. i # 1 => i \in 2..Len(q) + 1
        BY <2>1, <1>1
      <3>2. j # 1 => j \in 2..Len(q) + 1
        BY <2>1, <1>1
      <3>3. QED BY <2>3, <3>1, <3>2, <2>2, <1>2
    <2>4. CASE i # 1 /\ j # 1
      <3>1. i \in 2..Len(q) + 1 /\ j \in 2..Len(q) + 1
        BY <2>1, <2>4, <1>1
      <3>2. q[i - 1] = q[j - 1] /\ i - 1 \in DOMAIN q /\ j - 1 \in DOMAIN q
        BY <3>1, <2>2, <1>2, <1>3
      <3>3. i - 1 = j - 1
        BY <3>2 DEF IsInjective
      <3>4. QED BY <3>3, <3>1
    <2>5. QED BY <2>3, <2>4
  <1>5. ASSUME NEW d \in S
        PROVE  Contains(a, d) <=> Contains(q, d) \/ d = e
    <2>1. ASSUME NEW i \in 1..Len(q), q[i] = d
          PROVE  Contains(a, d)
      <3>1. i + 1 \in 2..Len(q) + 1 /\ a[i + 1] = q[(i + 1) - 1] /\ (i + 1) - 1 = i
        BY <1>1, <1>2
      <3>2. QED BY <3>1, <2>1, <1>1 DEF Contains
    <2>2. ASSUME NEW i \in 1..Len(a), a[i] = d, d # e
          PROVE  Contains(q, d)
      <3>1. i \in 2..Len(q) + 1 /\ i - 1 \in 1..Len(q)
        BY <2>2, <1>1, <1>2
      <3>2. QED BY <3>1, <2>2, <1>2 DEF Contains
    <2>3. Contains(a, e)
      BY <1>1, <1>2 DEF Contains
    <2>4. QED BY <2>1, <2>2, <2>3 DEF Contains
  <1>6. QED BY <1>1, <1>4, <1>5 DEF a

(* A set of numbers has a least one: its elements are ordered as the       *)
(* finite sets of smaller numbers are by strict inclusion.                 *)
LEMMA LeastNatural ==
    ASSUME NEW T, T \subseteq Nat, T # {}
    PROVE  \E n \in T : \A m \in T : n <= m
  <1> DEFINE below(n) == 0 .. n - 1
             D == {below(n) : n \in T}
             R == StrictSubsetOrdering(Nat)
  <1>1. D \subseteq FiniteSubsetsOf(Nat) /\ D # {}
    <2>1. ASSUME NEW n \in T PROVE below(n) \in FiniteSubsetsOf(Nat)
      <3>1. IsFiniteSet(0 .. n - 1)
        BY FS_Interval
      <3>2. 0 .. n - 1 \subseteq Nat
        OBVIOUS
      <3>3. QED BY <3>1, <3>2 DEF FiniteSubsetsOf
    <2>2. QED BY <2>1
  <1>2. \E x \in D : \A y \in D : <<y, x>> \notin R
    <2> HIDE DEF D, R
    <2>1. IsWellFoundedOn(R, FiniteSubsetsOf(Nat))
      BY FS_StrictSubsetOrderingWellFounded DEF R
    <2>2. QED BY <1>1, <2>1, WFMin
  <1>3. PICK n \in T : \A y \in D : <<y, below(n)>> \notin R
    BY <1>2
  <1>4. ASSUME NEW m \in T, m < n PROVE FALSE
    <2>1. below(m) \in D
      OBVIOUS
    <2>2. below(m) \subseteq below(n) /\ below(m) # below(n)
      BY <1>4
    <2>3. <<below(m), below(n)>> \in R
      BY <2>2 DEF StrictSubsetOrdering
    <2>4. QED BY <1>3, <2>1, <2>3
  <1>5. QED BY <1>4

(* Induction, over a set.                                                  *)
LEMMA NaturalInduction ==
    ASSUME NEW T, 0 \in T, \A n \in Nat : n \in T => n + 1 \in T
    PROVE  \A n \in Nat : n \in T
  <1> SUFFICES ASSUME Nat \ T # {} PROVE FALSE
    OBVIOUS
  <1>1. PICK n \in Nat \ T : \A m \in Nat \ T : n <= m
    <2>1. Nat \ T \subseteq Nat
      OBVIOUS
    <2>2. QED BY <2>1, LeastNatural
  <1>2. n - 1 \in Nat /\ ~(n <= n - 1)
    BY <1>1
  <1>3. n - 1 \in T
    BY <1>1, <1>2
  <1>4. (n - 1) + 1 \in T
    BY <1>2, <1>3
  <1>5. QED BY <1>4

(* The numbers in a sequence have a bound.                                 *)
LEMMA SequenceIsBounded ==
    ASSUME NEW q \in Seq(Nat)
    PROVE  \E n \in Nat : \A i \in 1 .. Len(q) : q[i] <= n
  <1> DEFINE Bounded(k) == \E n \in Nat : \A i \in 1 .. k : q[i] <= n
             T == {k \in Nat : k <= Len(q) => Bounded(k)}
  <1>1. Len(q) \in Nat
    OBVIOUS
  <1>2. Bounded(0)
    BY 0 \in Nat
  <1>3. ASSUME NEW k \in Nat, k + 1 <= Len(q), Bounded(k) PROVE Bounded(k + 1)
    <2>1. PICK n \in Nat : \A i \in 1 .. k : q[i] <= n
      BY <1>3
    <2>2. k + 1 \in 1 .. Len(q) /\ \A i \in 1 .. k : i \in 1 .. Len(q)
      BY <1>1, <1>3
    <2>3. q[k + 1] \in Nat /\ \A i \in 1 .. k : q[i] \in Nat
      BY <2>2
    <2>4. n + q[k + 1] \in Nat
      BY <2>3
    <2>5. \A i \in 1 .. k + 1 : i \in 1 .. k \/ i = k + 1
      OBVIOUS
    <2>6. \A i \in 1 .. k + 1 : q[i] <= n + q[k + 1]
      BY <2>1, <2>3, <2>5
    <2>7. QED BY <2>4, <2>6
  <1>4. Len(q) \in T
    <2> HIDE DEF Bounded
    <2>1. 0 \in T /\ \A k \in Nat : k \in T => k + 1 \in T
      BY <1>1, <1>2, <1>3
    <2> HIDE DEF T
    <2>2. QED BY <1>1, <2>1, NaturalInduction
  <1>5. QED BY <1>1, <1>4

(* The recursive function by which a queue is filtered is one.             *)
LEMMA WithoutDefined ==
    ASSUME NEW S, NEW q \in Seq(S), NEW out
    PROVE  \E f : /\ f = [i \in 0 .. Len(q) |-> IF i = 0 THEN <<>>
                       ELSE IF q[i] \in out THEN f[i - 1] ELSE Append(f[i - 1], q[i])]
                  /\ Without(q, out) = f[Len(q)]
  <1> DEFINE Filters(f, n) == f = [i \in 0 .. n |-> IF i = 0 THEN <<>>
                       ELSE IF q[i] \in out THEN f[i - 1] ELSE Append(f[i - 1], q[i])]
             T == {n \in 0 .. Len(q) : ~ \E f : Filters(f, n)}
  <1>1. T = {}
    <2> SUFFICES ASSUME T # {} PROVE FALSE
      OBVIOUS
    <2>0. T \subseteq Nat
      OBVIOUS
    <2>1. PICK n \in T : \A m \in T : n <= m
      <3> HIDE DEF T
      <3>1. QED BY <2>0, LeastNatural
    <2>2. n # 0
      <3>1. Filters([i \in 0 .. 0 |-> <<>>], 0)
        OBVIOUS
      <3>2. QED BY <3>1
    <2>3. n - 1 \in 0 .. Len(q) /\ n - 1 \notin T
      <3>1. n \in 0 .. Len(q) /\ Len(q) \in Nat
        OBVIOUS
      <3>2. n - 1 \in 0 .. Len(q) /\ ~(n <= n - 1)
        BY <3>1, <2>2
      <3> HIDE DEF T
      <3>3. QED BY <3>2, <2>1
    <2>4. PICK f : Filters(f, n - 1)
      BY <2>3
    <2> DEFINE g == [i \in 0 .. n |-> IF i < n THEN f[i]
                       ELSE IF q[n] \in out THEN f[n - 1] ELSE Append(f[n - 1], q[n])]
    <2>5. \A i \in 0 .. n - 1 : g[i] = f[i]
      OBVIOUS
    <2>6. Filters(g, n)
      <3> HIDE DEF g
      <3>1. ASSUME NEW i \in 0 .. n
            PROVE g[i] = IF i = 0 THEN <<>>
                       ELSE IF q[i] \in out THEN g[i - 1] ELSE Append(g[i - 1], q[i])
        <4>1. CASE i = n
          BY <4>1, <2>2, <2>5 DEF g
        <4>2. CASE i # n
          <5>1. i \in 0 .. n - 1 /\ (i # 0 => i - 1 \in 0 .. n - 1)
            BY <4>2
          <5>2. g[i] = f[i] /\ (i # 0 => g[i-1] = f[i-1])
            BY <5>1, <2>5
          <5>3. f[i] = IF i = 0 THEN <<>>
                       ELSE IF q[i] \in out THEN f[i - 1] ELSE Append(f[i - 1], q[i])
            BY <2>4, <5>1, Zenon
          <5>4. QED BY <5>2, <5>3
        <4>3. QED BY <4>1, <4>2
      <3>2. g = [i \in 0 .. n |-> g[i]]
        BY DEF g
      <3>3. QED BY <3>1, <3>2, Zenon
    <2>7. QED BY <2>6
  <1>2. PICK h : Filters(h, Len(q))
    <2>1. Len(q) \in 0 .. Len(q)
      OBVIOUS
    <2> HIDE DEF Filters
    <2>2. QED BY <1>1, <2>1
  <1> DEFINE f == CHOOSE x : Filters(x, Len(q))
  <1>3. Filters(f, Len(q))
    BY <1>2
  <1>4. Without(q, out) = f[Len(q)]
    BY DEF Without
  <1>5. QED BY <1>3, <1>4

(* Filtering keeps what is not taken out, in a queue that still repeats    *)
(* nothing.                                                                *)
LEMMA WithoutFacts ==
    ASSUME NEW S, NEW q \in Seq(S), NEW out
    PROVE  /\ Without(q, out) \in Seq(S)
           /\ \A e : Contains(Without(q, out), e) <=> Contains(q, e) /\ e \notin out
           /\ IsInjective(q) => IsInjective(Without(q, out))
           /\ Len(Without(q, out)) <= Len(q)
  <1>1. PICK f : /\ f = [i \in 0 .. Len(q) |-> IF i = 0 THEN <<>>
                       ELSE IF q[i] \in out THEN f[i - 1] ELSE Append(f[i - 1], q[i])]
                 /\ Without(q, out) = f[Len(q)]
    BY WithoutDefined
  <1> DEFINE Holds(n, e) == \E i \in 1 .. n : q[i] = e /\ e \notin out
             Good(n) == /\ f[n] \in Seq(S)
                        /\ \A e : Contains(f[n], e) <=> Holds(n, e)
                        /\ IsInjective(q) => IsInjective(f[n])
                        /\ Len(f[n]) <= n
             T == {n \in Nat : n <= Len(q) => Good(n)}
  <1>2. Len(q) \in Nat
    OBVIOUS
  <1>3. f[0] = <<>> /\ \A n \in 1 .. Len(q) :
            f[n] = IF q[n] \in out THEN f[n - 1] ELSE Append(f[n - 1], q[n])
    <2>1. \A n \in 0 .. Len(q) : f[n] = IF n = 0 THEN <<>>
                       ELSE IF q[n] \in out THEN f[n - 1] ELSE Append(f[n - 1], q[n])
      BY <1>1, Zenon
    <2>2. QED BY <2>1, <1>2
  <1>4. Good(0)
    BY <1>3 DEF Contains, IsInjective
  <1>5. ASSUME NEW n \in Nat, n + 1 <= Len(q), Good(n) PROVE Good(n + 1)
    <2> DEFINE e == q[n + 1]
    <2>1. f[n + 1] = IF e \in out THEN f[n] ELSE Append(f[n], e)
      <3>1. n + 1 \in 1 .. Len(q) /\ (n + 1) - 1 = n
        BY <1>5, <1>2
      <3>2. QED BY <3>1, <1>3
    <2>2. e \in S
      BY <1>5, <1>2
    <2>3. \A d : Holds(n + 1, d) <=> Holds(n, d) \/ (d = e /\ d \notin out)
      <3>1. \A i : i \in 1 .. n + 1 <=> i \in 1 .. n \/ i = n + 1
        OBVIOUS
      <3> HIDE DEF e
      <3>2. QED BY <3>1 DEF e
    <2>4. CASE e \in out
      <3> HIDE DEF e, Holds
      <3>1. Len(f[n + 1]) <= n + 1
        BY <2>1, <2>4, <1>5
      <3>2. QED BY <2>1, <2>3, <2>4, <3>1, <1>5
    <2>5. CASE e \notin out
      <3>0. f[n] \in Seq(S)
        BY <1>5
      <3>1. f[n + 1] = Append(f[n], e) /\ f[n + 1] \in Seq(S)
        BY <2>1, <2>2, <2>5, <1>5
      <3>6. Len(f[n + 1]) <= n + 1
        BY <3>0, <3>1, <1>5
      <3>2. \A d : Contains(f[n + 1], d) <=> Contains(f[n], d) \/ d = e
        <4> DEFINE g == f[n]
        <4>0. f[n + 1] = Append(g, e) /\ g \in Seq(S)
          BY <3>0, <3>1
        <4> HIDE DEF g, e
        <4>1. /\ Len(f[n + 1]) = Len(g) + 1 /\ Len(g) \in Nat
              /\ f[n + 1][Len(g) + 1] = e
              /\ \A i \in 1 .. Len(g) : f[n + 1][i] = g[i]
          BY <4>0, <2>2
        <4>2. \A i : i \in 1 .. Len(g) + 1 <=> i \in 1 .. Len(g) \/ i = Len(g) + 1
          BY <4>1
        <4>3. QED BY <4>1, <4>2 DEF Contains, g
      <3>3. \A d : Contains(f[n + 1], d) <=> Holds(n + 1, d)
        <4> HIDE DEF e, Holds
        <4>1. QED BY <3>2, <2>3, <2>5, <1>5
      <3>4. IsInjective(q) => IsInjective(f[n + 1])
        <4> SUFFICES ASSUME IsInjective(q) PROVE IsInjective(f[n + 1])
          OBVIOUS
        <4>1. ~Contains(f[n], e)
          <5>1. \A i \in 1 .. n : q[i] # e
            BY <1>5, <1>2 DEF IsInjective
          <5>2. ~Holds(n, e)
            BY <5>1
          <5>3. QED BY <5>2, <1>5
        <4>2. IsInjective(f[n])
          BY <1>5
        <4> DEFINE g == f[n]
        <4> HIDE DEF g, e
        <4>3. QED BY <4>1, <4>2, <3>0, <3>1, <2>2 DEF IsInjective, Contains, g
      <3>5. QED BY <3>1, <3>3, <3>4, <3>6
    <2>6. QED BY <2>4, <2>5
  <1>6. Len(q) \in T
    <2> HIDE DEF Good
    <2>1. 0 \in T /\ \A n \in Nat : n \in T => n + 1 \in T
      BY <1>2, <1>4, <1>5
    <2> HIDE DEF T
    <2>2. QED BY <1>2, <2>1, NaturalInduction
  <1>7. Good(Len(q))
    <2> HIDE DEF Good
    <2>1. QED BY <1>6, <1>2
  <1>8. \A e : Contains(q, e) /\ e \notin out <=> Holds(Len(q), e)
    BY <1>2 DEF Contains
  <1>9. QED BY <1>1, <1>7, <1>8
=============================================================================
