------------------------- MODULE PassingPointProofs -------------------------
(* Proofs about PassingPoint for every grid, filter and scale.             *)
EXTENDS PassingPoint, FiniteSetTheorems, WellFoundedInduction, TLAPS

----------------------------------------------------------------------------
(* Minima and maxima, and induction: a set of natural numbers that is not  *)
(* empty has a least element.                                              *)

Smaller == {p \in Nat \X Nat : p[1] < p[2]}

LEMMA SmallerWellFounded == IsWellFoundedOn(Smaller, Nat)
BY NatLessThanWellFounded, Zenon DEF OpToRel, Smaller

LEMMA LeastNatural ==
    ASSUME NEW T \in SUBSET Nat, T # {}
    PROVE  \E m \in T : \A n \in T : m =< n
<1>1. PICK m \in T : \A n \in T : ~(<<n, m>> \in Smaller)
  BY SmallerWellFounded, WFMin
<1>2. ASSUME NEW n \in T PROVE m =< n
  <2>1. m \in Nat /\ n \in Nat /\ ~(<<n, m>> \in Smaller)
    BY <1>1
  <2>2. ~(n < m)
    BY <2>1 DEF Smaller
  <2> QED BY <2>1, <2>2
<1> QED BY <1>2

\* Induction over a finite set: what holds of {}, and of every set of which it
\* holds when any element is taken away, holds of the set.
LEMMA TakeAway ==
    ASSUME NEW S, IsFiniteSet(S), NEW Q, {} \in Q,
           \A s \in SUBSET S : s # {} /\ (\A x \in s : s \ {x} \in Q) => s \in Q
    PROVE  S \in Q
<1> DEFINE Bad == {k \in Nat : \E s \in SUBSET S : Cardinality(s) = k /\ s \notin Q}
<1>1. Bad = {}
  <2> SUFFICES ASSUME Bad # {} PROVE FALSE
    OBVIOUS
  <2>1. PICK k \in Bad : \A j \in Bad : k =< j
    BY LeastNatural
  <2>2. PICK s \in SUBSET S : Cardinality(s) = k /\ s \notin Q
    BY <2>1
  <2>3. PICK x \in s : s \ {x} \notin Q
    BY <2>2
  <2>4. IsFiniteSet(s \ {x}) /\ Cardinality(s \ {x}) = k - 1 /\ s \ {x} \in SUBSET S
    BY <2>2, <2>3, FS_Subset, FS_RemoveElement
  <2>5. k - 1 \in Nat
    BY <2>4, FS_CardinalityType
  <2> QED BY <2>1, <2>3, <2>4, <2>5
<1> QED BY <1>1, FS_CardinalityType

\* A finite set of integers has a smallest and a largest element.
LEMMA Extremes ==
    ASSUME NEW S \in SUBSET Int, IsFiniteSet(S), S # {}
    PROVE  /\ \E m \in S : \A n \in S : m =< n
           /\ \E m \in S : \A n \in S : m >= n
<1> DEFINE Low(T) == \E m \in T : \A n \in T : m =< n
           High(T) == \E m \in T : \A n \in T : m >= n
           Q == {T \in SUBSET S : T # {} => Low(T) /\ High(T)}
<1>1. ASSUME NEW T \in SUBSET S, NEW x \in T, T \ {x} \in Q
      PROVE  Low(T) /\ High(T)
  <2> DEFINE U == T \ {x}
  <2>1. \A n \in T : n = x \/ n \in U
    OBVIOUS
  <2>2. CASE U = {}
    <3>1. T = {x} /\ x \in Int
      BY <2>2
    <3> QED BY <3>1
  <2>3. CASE U # {}
    <3>1. PICK l \in U : \A n \in U : l =< n
      BY <1>1, <2>3
    <3>2. PICK h \in U : \A n \in U : h >= n
      BY <1>1, <2>3
    <3>3. x \in Int /\ l \in Int /\ h \in Int /\ x \in T /\ l \in T /\ h \in T
          /\ U \subseteq Int
      OBVIOUS
    <3> HIDE DEF U
    <3>4. Low(T)
      <4>1. CASE x =< l
        <5>1. \A n \in T : x =< n
          BY <2>1, <3>1, <3>3, <4>1
        <5> QED BY <3>3, <5>1
      <4>2. CASE ~(x =< l)
        <5>1. \A n \in T : l =< n
          BY <2>1, <3>1, <3>3, <4>2
        <5> QED BY <3>3, <5>1
      <4> QED BY <4>1, <4>2
    <3>5. High(T)
      <4>1. CASE x >= h
        <5>1. \A n \in T : x >= n
          BY <2>1, <3>2, <3>3, <4>1
        <5> QED BY <3>3, <5>1
      <4>2. CASE ~(x >= h)
        <5>1. \A n \in T : h >= n
          BY <2>1, <3>2, <3>3, <4>2
        <5> QED BY <3>3, <5>1
      <4> QED BY <4>1, <4>2
    <3> QED BY <3>4, <3>5
  <2> QED BY <2>2, <2>3
<1> HIDE DEF Low, High
<1>2. {} \in Q
  OBVIOUS
<1>3. \A T \in SUBSET S : T # {} /\ (\A x \in T : T \ {x} \in Q) => T \in Q
  BY <1>1
<1> HIDE DEF Q
<1>4. S \in Q
  BY <1>2, <1>3, TakeAway
<1> QED BY <1>4 DEF Q, Low, High

LEMMA MinMax ==
    ASSUME NEW S \in SUBSET Int, IsFiniteSet(S), S # {}
    PROVE  /\ Min(S) \in S /\ \A n \in S : Min(S) =< n
           /\ Max(S) \in S /\ \A n \in S : Max(S) >= n
BY Extremes DEF Min, Max

\* The values of a waveform, f, on some points.
LEMMA MinMaxOfValues ==
    ASSUME NEW K, IsFiniteSet(K), K # {}, NEW V \in SUBSET Int, NEW f \in Surjection(K, V)
    PROVE  Min(V) \in V /\ Max(V) \in V /\ \A v \in V : Min(V) =< v /\ Max(V) >= v
<1>1. IsFiniteSet(V)
  BY FS_Surjection
<1>2. V # {}
  BY DEF Surjection
<1> QED BY <1>1, <1>2, MinMax

\* Some points of an interval.
LEMMA MinMaxOfPoints ==
    ASSUME NEW a \in Int, NEW b \in Int, NEW K \in SUBSET (a..b), K # {}
    PROVE  /\ Min(K) \in K /\ \A k \in K : Min(K) =< k
           /\ Max(K) \in K /\ \A k \in K : Max(K) >= k
<1>1. IsFiniteSet(K)
  BY FS_Interval, FS_Subset
<1>2. K \in SUBSET Int
  OBVIOUS
<1> QED BY <1>1, <1>2, MinMax

----------------------------------------------------------------------------
(* Sums over the domain of a function.                                     *)

\* The partial sums, by the set that is summed: SumFunction's recursion.
Sums(g, f, S) ==
    g = [s \in SUBSET S |->
           IF s = {} THEN 0
           ELSE f[CHOOSE x \in s : TRUE] + g[s \ {CHOOSE x \in s : TRUE}]]

\* There are such partial sums, over a finite set.
LEMMA SumsExist ==
    ASSUME NEW S, IsFiniteSet(S), NEW f
    PROVE  \E g : Sums(g, f, S)
<1> DEFINE c(s) == CHOOSE x \in s : TRUE
           Dom(n) == {s \in SUBSET S : Cardinality(s) =< n}
           Step(g, n) == g = [s \in Dom(n) |->
                                IF s = {} THEN 0 ELSE f[c(s)] + g[s \ {c(s)}]]
           Bad == {n \in Nat : ~\E g : Step(g, n)}
<1>1. \A s \in SUBSET S : IsFiniteSet(s) /\ Cardinality(s) \in Nat
                          /\ Cardinality(s) =< Cardinality(S)
  BY FS_Subset, FS_CardinalityType
<1>2. \A s \in SUBSET S : s # {} =>
        c(s) \in s /\ Cardinality(s \ {c(s)}) = Cardinality(s) - 1 /\ s \ {c(s)} \in SUBSET S
  <2>1. \A s \in SUBSET S : s # {} => c(s) \in s
    OBVIOUS
  <2> QED BY <1>1, <2>1, FS_RemoveElement
<1>3. \A s \in SUBSET S : Cardinality(s) = 0 <=> s = {}
  BY <1>1, FS_EmptySet
<1> HIDE DEF c
<1>4. Bad = {}
  <2> SUFFICES ASSUME Bad # {} PROVE FALSE
    OBVIOUS
  <2>1. PICK m \in Bad : \A n \in Bad : m =< n
    <3> HIDE DEF Step
    <3> QED BY LeastNatural
  <2>2. m \in Nat /\ ~\E g : Step(g, m)
    <3> HIDE DEF Step
    <3> QED BY <2>1
  <2>3. m # 0
    <3>1. Step([s \in Dom(0) |-> 0], 0)
      <4>1. \A s \in Dom(0) : s = {}
        BY <1>1, <1>3
      <4> QED BY <4>1
    <3> HIDE DEF Step
    <3> QED BY <2>2, <3>1
  <2>4. PICK g : Step(g, m - 1)
    <3> HIDE DEF Step
    <3>1. m - 1 \in Nat /\ ~(m =< m - 1)
      BY <2>2, <2>3
    <3> QED BY <2>1, <3>1
  <2> DEFINE h == [s \in Dom(m) |-> IF s = {} THEN 0 ELSE f[c(s)] + g[s \ {c(s)}]]
  <2>5. \A s \in Dom(m - 1) : s \in Dom(m)
    BY <1>1, <2>2
  <2>6. \A s \in Dom(m - 1) : h[s] = g[s]
    BY <2>4, <2>5
  <2>7. \A s \in Dom(m) : s # {} => s \ {c(s)} \in Dom(m - 1)
    BY <1>1, <1>2, <2>2
  <2>8. \A s \in Dom(m) : s # {} => h[s \ {c(s)}] = g[s \ {c(s)}]
    BY <2>6, <2>7
  <2>9. Step(h, m)
    <3> DEFINE k == [s \in Dom(m) |-> IF s = {} THEN 0 ELSE f[c(s)] + h[s \ {c(s)}]]
    <3>1. \A s \in Dom(m) : h[s] = k[s]
      BY <2>8
    <3> QED BY <3>1
  <2> HIDE DEF Step, h
  <2> QED BY <2>2, <2>9
<1>5. PICK g : Step(g, Cardinality(S))
  BY <1>1, <1>4
<1>6. Dom(Cardinality(S)) = SUBSET S
  BY <1>1
<1>7. Sums(g, f, S)
  BY <1>5, <1>6 DEF Sums, c
<1> QED BY <1>7

\* What SumFunction is: the last of the partial sums.
LEMMA SumFunctionIs ==
    ASSUME NEW S, IsFiniteSet(S), NEW f, DOMAIN f = S
    PROVE  \E g : Sums(g, f, S) /\ SumFunction(f) = g[S]
<1> DEFINE g == CHOOSE g : Sums(g, f, S)
<1>1. Sums(g, f, S)
  BY SumsExist
<1>2. SumFunction(f) = g[S]
  BY DEF SumFunction, SumFunctionOnSet, FoldFunctionOnSet, MapThenFoldSet, Sums
<1> QED BY <1>1, <1>2

\* A sum of integers is one.
LEMMA SumOfIntegers ==
    ASSUME NEW S, IsFiniteSet(S), NEW f, DOMAIN f = S, \A x \in S : f[x] \in Int
    PROVE  SumFunction(f) \in Int
<1>1. PICK g : Sums(g, f, S) /\ SumFunction(f) = g[S]
  BY SumFunctionIs
<1> DEFINE c(s) == CHOOSE x \in s : TRUE
           Q == {s \in SUBSET S : g[s] \in Int}
<1>2. \A s \in SUBSET S : g[s] = IF s = {} THEN 0 ELSE f[c(s)] + g[s \ {c(s)}]
  BY <1>1 DEF Sums
<1>3. \A s \in SUBSET S : s # {} => c(s) \in s
  OBVIOUS
<1> HIDE DEF c
<1>4. {} \in Q
  BY <1>2
<1>5. ASSUME NEW s \in SUBSET S, s # {}, \A x \in s : s \ {x} \in Q PROVE s \in Q
  <2>1. c(s) \in s /\ s \ {c(s)} \in Q /\ f[c(s)] \in Int
    BY <1>3, <1>5
  <2> QED BY <1>2, <1>5, <2>1
<1> HIDE DEF Q
<1>6. S \in Q
  BY <1>4, <1>5, TakeAway
<1> QED BY <1>1, <1>6 DEF Q

\* A sum of natural numbers, all of them within c times those of another one:
\* so is the sum.  If none of those is 0 their sum is not.
LEMMA SumsCompare ==
    ASSUME NEW S, IsFiniteSet(S), NEW f, NEW h, DOMAIN f = S, DOMAIN h = S, NEW c \in Nat,
           \A x \in S : f[x] \in Nat /\ h[x] \in Nat /\ f[x] =< c * h[x]
    PROVE  /\ SumFunction(f) \in Nat /\ SumFunction(h) \in Nat
           /\ SumFunction(f) =< c * SumFunction(h)
           /\ S # {} /\ (\A x \in S : h[x] # 0) => SumFunction(h) # 0
<1>1. PICK g : Sums(g, f, S) /\ SumFunction(f) = g[S]
  BY SumFunctionIs
<1>2. PICK k : Sums(k, h, S) /\ SumFunction(h) = k[S]
  BY SumFunctionIs
<1> DEFINE e(s) == CHOOSE x \in s : TRUE
           Q == {s \in SUBSET S :
                   /\ g[s] \in Nat /\ k[s] \in Nat /\ g[s] =< c * k[s]
                   /\ s # {} /\ (\A x \in S : h[x] # 0) => k[s] # 0}
<1>3. \A s \in SUBSET S : /\ g[s] = IF s = {} THEN 0 ELSE f[e(s)] + g[s \ {e(s)}]
                          /\ k[s] = IF s = {} THEN 0 ELSE h[e(s)] + k[s \ {e(s)}]
  BY <1>1, <1>2 DEF Sums
<1>4. \A s \in SUBSET S : s # {} => e(s) \in s
  OBVIOUS
<1> HIDE DEF e
<1>5. {} \in Q
  <2>1. g[{}] = 0 /\ k[{}] = 0
    BY <1>3
  <2>2. 0 =< c * 0
    OBVIOUS
  <2> QED BY <2>1, <2>2
<1>6. ASSUME NEW s \in SUBSET S, s # {}, \A x \in s : s \ {x} \in Q PROVE s \in Q
  <2> DEFINE r == s \ {e(s)}
  <2>1. e(s) \in S /\ r \in Q
    BY <1>4, <1>6
  <2>2. g[s] = f[e(s)] + g[r] /\ k[s] = h[e(s)] + k[r]
    BY <1>3, <1>6
  <2> HIDE DEF r
  <2>3. /\ f[e(s)] \in Nat /\ h[e(s)] \in Nat /\ f[e(s)] =< c * h[e(s)]
        /\ g[r] \in Nat /\ k[r] \in Nat /\ g[r] =< c * k[r]
    BY <2>1
  <2>4. g[s] \in Nat /\ k[s] \in Nat /\ g[s] =< c * k[s]
    <3>1. \A m, n \in Nat : c * (m + n) = c * m + c * n
      OBVIOUS
    <3>2. \A m, n, p, q \in Nat : m =< p /\ n =< q => m + n =< p + q
      OBVIOUS
    <3>3. c * h[e(s)] \in Nat /\ c * k[r] \in Nat
      BY <2>3
    <3>4. f[e(s)] + g[r] =< c * h[e(s)] + c * k[r]
      BY <2>3, <3>2, <3>3
    <3> QED BY <2>2, <2>3, <3>1, <3>4
  <2>5. (\A x \in S : h[x] # 0) => k[s] # 0
    BY <2>1, <2>2, <2>3
  <2> QED BY <2>4, <2>5
<1> HIDE DEF Q
<1>7. S \in Q
  BY <1>5, <1>6, TakeAway
<1> QED BY <1>1, <1>2, <1>7 DEF Q

\* Taking elements away one at a time gives the sum, in any order.
InAnyOrder(g, f, S) ==
    \A s \in SUBSET S : g[s] \in Int /\ \A x \in s : g[s] = f[x] + g[s \ {x}]

LEMMA PartialSums ==
    ASSUME NEW S, IsFiniteSet(S), NEW f, \A x \in S : f[x] \in Int, NEW g, Sums(g, f, S)
    PROVE  InAnyOrder(g, f, S)
<1> DEFINE c(s) == CHOOSE x \in s : TRUE
           Good(s) == g[s] \in Int /\ \A x \in s : g[s] = f[x] + g[s \ {x}]
           All(s) == \A u \in SUBSET s : Good(u)
           Q == {s \in SUBSET S : All(s)}
<1>1. \A s \in SUBSET S : g[s] = IF s = {} THEN 0 ELSE f[c(s)] + g[s \ {c(s)}]
  BY DEF Sums
<1>2. \A s \in SUBSET S : s # {} => c(s) \in s
  OBVIOUS
<1> HIDE DEF c
<1>3. {} \in Q
  <2>1. g[{}] = 0 /\ \A u \in SUBSET {} : u = {}
    BY <1>1
  <2>2. Good({})
    BY <2>1
  <2> HIDE DEF Good
  <2> QED BY <2>1, <2>2
<1>4. ASSUME NEW s \in SUBSET S, s # {}, \A x \in s : s \ {x} \in Q PROVE s \in Q
  <2> DEFINE e == c(s)
  <2>1. e \in s /\ e \in S
    BY <1>2, <1>4
  <2>2. \A x \in s : All(s \ {x})
    BY <1>4
  <2>3. g[s] = f[e] + g[s \ {e}]
    BY <1>1, <1>4
  <2> HIDE DEF e
  <2>4. \A x \in s : g[s \ {x}] \in Int /\ \A y \in s \ {x} : g[s \ {x}] = f[y] + g[(s \ {x}) \ {y}]
    BY <2>2
  <2>5. g[s] \in Int
    <3>1. g[s \ {e}] \in Int /\ f[e] \in Int
      BY <2>1, <2>4
    <3> QED BY <2>3, <3>1
  <2>6. ASSUME NEW x \in s PROVE g[s] = f[x] + g[s \ {x}]
    <3>1. CASE x = e
      BY <2>3, <3>1
    <3>2. CASE x # e
      <4> DEFINE u == s \ {x, e}
      <4>1. (s \ {x}) \ {e} = u /\ (s \ {e}) \ {x} = u
        OBVIOUS
      <4>2. x \in s \ {e} /\ e \in s \ {x}
        BY <2>1, <3>2
      <4>3. g[s \ {e}] = f[x] + g[u] /\ g[s \ {x}] = f[e] + g[u]
        BY <2>1, <2>4, <4>1, <4>2
      <4>4. g[u] \in Int
        <5>1. u \in SUBSET (s \ {x})
          OBVIOUS
        <5> QED BY <2>2, <5>1
      <4>5. f[x] \in Int /\ f[e] \in Int
        BY <2>1
      <4> QED BY <2>3, <4>3, <4>4, <4>5
    <3> QED BY <3>1, <3>2
  <2>7. ASSUME NEW u \in SUBSET s PROVE Good(u)
    <3>1. CASE u = s
      BY <2>5, <2>6, <3>1
    <3>2. CASE u # s
      <4>1. PICK x \in s : u \in SUBSET (s \ {x})
        BY <3>2
      <4> QED BY <2>2, <4>1
    <3> QED BY <3>1, <3>2
  <2> QED BY <2>7
<1> HIDE DEF Q
<1>5. S \in Q
  BY <1>3, <1>4, TakeAway
<1> QED BY <1>5 DEF Q, InAnyOrder

\* Two sums, term by term: every term of the one, c * h[i] - f[i], is the term of the
\* other at m - i.
Turnaround(S, m, c, f, h, z) ==
    /\ S \in SUBSET Int /\ IsFiniteSet(S) /\ m \in Int /\ c \in Int
    /\ DOMAIN f = S /\ DOMAIN h = S /\ DOMAIN z = {m - i : i \in S}
    /\ \A i \in S : f[i] \in Int /\ h[i] \in Int /\ z[m - i] = c * h[i] - f[i]

LEMMA SumMirrored ==
    ASSUME NEW S, NEW m, NEW c, NEW f, NEW h, NEW z, Turnaround(S, m, c, f, h, z)
    PROVE  /\ SumFunction(f) \in Int /\ SumFunction(h) \in Int
           /\ SumFunction(z) = c * SumFunction(h) - SumFunction(f)
<1> USE DEF Turnaround
<1> DEFINE Turned(s) == {m - i : i \in s}
           T == Turned(S)
<1>1. \A s \in SUBSET S : \A i \in s : m - i \in Turned(s) /\ Turned(s) \ {m - i} = Turned(s \ {i})
  <2> SUFFICES ASSUME NEW s \in SUBSET S, NEW i \in s
               PROVE  m - i \in Turned(s) /\ Turned(s) \ {m - i} = Turned(s \ {i})
    OBVIOUS
  <2>1. \A j \in s : j \in Int /\ (m - j = m - i <=> j = i)
    OBVIOUS
  <2> QED BY <2>1
<1>2. IsFiniteSet(T)
  <2> DEFINE b == [i \in S |-> m - i]
  <2>1. b \in Surjection(S, T)
    BY DEF Surjection
  <2> HIDE DEF b, T
  <2> QED BY <2>1, FS_Surjection
<1>3. PICK g : Sums(g, f, S) /\ SumFunction(f) = g[S]
  BY SumFunctionIs
<1>4. PICK k : Sums(k, h, S) /\ SumFunction(h) = k[S]
  BY SumFunctionIs
<1>5. PICK l : Sums(l, z, T) /\ SumFunction(z) = l[T]
  <2>1. DOMAIN z = T
    OBVIOUS
  <2> HIDE DEF T
  <2> QED BY <1>2, <2>1, SumFunctionIs
<1>6. \A x \in T : z[x] \in Int
  OBVIOUS
<1>7. InAnyOrder(g, f, S) /\ InAnyOrder(k, h, S) /\ InAnyOrder(l, z, T)
  <2> HIDE DEF T
  <2> QED BY <1>2, <1>3, <1>4, <1>5, <1>6, PartialSums
<1>8. g[{}] = 0 /\ k[{}] = 0 /\ l[{}] = 0
  BY <1>3, <1>4, <1>5 DEF Sums
<1>9. \A s \in SUBSET S : Turned(s) \in SUBSET T
  OBVIOUS
<1> DEFINE Q == {s \in SUBSET S : l[Turned(s)] = c * k[s] - g[s]}
<1>10. {} \in Q
  <2>1. Turned({}) = {}
    OBVIOUS
  <2>2. c * 0 - 0 = 0
    OBVIOUS
  <2>3. l[Turned({})] = c * k[{}] - g[{}]
    BY <1>8, <2>1, <2>2
  <2> QED BY <2>3
<1>11. ASSUME NEW s \in SUBSET S, s # {}, \A x \in s : s \ {x} \in Q PROVE s \in Q
  <2>1. PICK i \in s : TRUE
    BY <1>11
  <2> DEFINE r == s \ {i}
  <2>2. l[Turned(r)] = c * k[r] - g[r]
    BY <1>11
  <2>3. m - i \in Turned(s) /\ Turned(s) \ {m - i} = Turned(r)
    BY <1>1
  <2>4. r \in SUBSET S /\ Turned(s) \in SUBSET T
    BY <1>9
  <2> HIDE DEF r, Turned, T
  <2>5. /\ g[s] = f[i] + g[r] /\ g[r] \in Int
        /\ k[s] = h[i] + k[r] /\ k[r] \in Int
    BY <1>7, <2>4 DEF InAnyOrder, r
  <2>6. l[Turned(s)] = z[m - i] + l[Turned(r)]
    <3>1. \A u \in SUBSET T : \A x \in u : l[u] = z[x] + l[u \ {x}]
      BY <1>7 DEF InAnyOrder
    <3>2. l[Turned(s)] = z[m - i] + l[Turned(s) \ {m - i}]
      BY <2>3, <2>4, <3>1, Zenon
    <3> QED BY <2>3, <3>2
  <2>7. f[i] \in Int /\ h[i] \in Int /\ z[m - i] = c * h[i] - f[i]
    OBVIOUS
  <2>8. \A a, b \in Int : c * (a + b) = c * a + c * b /\ c * a \in Int
    OBVIOUS
  <2>9. l[Turned(s)] = c * k[s] - g[s]
    BY <2>2, <2>5, <2>6, <2>7, <2>8
  <2> QED BY <2>9
<1> HIDE DEF Q
<1>12. S \in Q
  BY <1>10, <1>11, TakeAway
<1>13. g[S] \in Int /\ k[S] \in Int
  BY <1>7 DEF InAnyOrder
<1> QED BY <1>3, <1>4, <1>5, <1>12, <1>13 DEF Q

----------------------------------------------------------------------------
(* Whole division.                                                         *)

\* The quotient is the largest number that fits.
LEMMA Quotient ==
    ASSUME NEW a \in Int, NEW b \in Nat \ {0}, NEW q \in Int
    PROVE  a \div b \in Int /\ (q * b =< a <=> q =< a \div b)
<1> DEFINE d == a \div b
<1>1. d \in Int /\ a = b * d + (a % b) /\ a % b \in 0..(b - 1)
  OBVIOUS
<1>2. PICK r \in 0..(b - 1) : a = b * d + r
  BY <1>1
<1> HIDE DEF d
<1>3. ASSUME q =< d PROVE q * b =< a
  <2>1. d - q \in Nat
    BY <1>1, <1>3
  <2>2. b * (d - q) >= 0
    BY <2>1
  <2>3. b * (d - q) = b * d - q * b
    BY <1>1
  <2> QED BY <1>1, <1>2, <2>2, <2>3
<1>4. ASSUME ~(q =< d) PROVE ~(q * b =< a)
  <2>1. q - d - 1 \in Nat
    BY <1>1, <1>4
  <2>2. b * (q - d - 1) >= 0
    BY <2>1
  <2>3. b * (q - d - 1) = q * b - b * d - b
    BY <1>1
  <2> QED BY <1>1, <1>2, <2>2, <2>3
<1>5. q * b =< a <=> q =< d
  BY <1>3, <1>4
<1> QED BY <1>1, <1>5 DEF d

LEMMA QuotientWithin ==
    ASSUME NEW a \in Nat, NEW b \in Nat \ {0}, NEW c \in Nat, a =< c * b
    PROVE  a \div b \in Nat /\ a \div b =< c
<1>1. a \div b \in Int /\ 0 =< a \div b
  <2>1. 0 * b =< a <=> 0 =< a \div b
    BY Quotient
  <2> QED BY <2>1, Quotient
<1>2. (c + 1) * b = c * b + b
  OBVIOUS
<1>3. ~((c + 1) * b =< a)
  <2>1. c * b \in Nat /\ (c + 1) * b \in Nat
    OBVIOUS
  <2> QED BY <1>2, <2>1
<1>4. (c + 1) * b =< a <=> c + 1 =< a \div b
  BY Quotient
<1> QED BY <1>1, <1>3, <1>4

\* Numbers that add up to a multiple of the divisor: so do the quotients, but for
\* what the rounding down takes from each.
LEMMA QuotientsMeet ==
    ASSUME NEW a \in Int, NEW b \in Int, NEW c \in Int, NEW d \in Nat \ {0}, NEW q \in Int,
           a + b + c = q * d
    PROVE  /\ a \div d \in Int /\ b \div d \in Int /\ c \div d \in Int
           /\ a \div d + b \div d + c \div d \in (q - 2)..q
<1>1. ASSUME NEW x \in Int
      PROVE  /\ x \div d \in Int /\ (x \div d) * d \in Int
             /\ (x \div d) * d =< x /\ x < (x \div d) * d + d
  <2> DEFINE u == x \div d
  <2>1. u \in Int
    BY Quotient
  <2>2. u * d =< x /\ ~((u + 1) * d =< x)
    <3>1. u + 1 \in Int /\ ~(u + 1 =< u) /\ u =< u
      BY <2>1
    <3> QED BY <2>1, <3>1, Quotient
  <2> HIDE DEF u
  <2>3. (u + 1) * d = u * d + d /\ u * d \in Int
    BY <2>1
  <2> QED BY <2>1, <2>2, <2>3 DEF u
<1> DEFINE u == a \div d
           v == b \div d
           w == c \div d
           e == q - (u + v + w)
<1>2. /\ u \in Int /\ u * d \in Int /\ u * d =< a /\ a < u * d + d
      /\ v \in Int /\ v * d \in Int /\ v * d =< b /\ b < v * d + d
      /\ w \in Int /\ w * d \in Int /\ w * d =< c /\ c < w * d + d
  BY <1>1
<1> HIDE DEF u, v, w
<1>3. e \in Int /\ e * d = q * d - (u * d + v * d + w * d) /\ e * d \in Int
  BY <1>2
<1> HIDE DEF e
<1>4. 0 =< e * d /\ e * d < 3 * d
  BY <1>2, <1>3
<1>5. e \in 0..2
  <2>1. ~(e < 0)
    <3>1. \A n \in Nat \ {0} : n * d > 0
      OBVIOUS
    <3>2. e < 0 => -e \in Nat \ {0} /\ (-e) * d = -(e * d)
      BY <1>3
    <3> QED BY <1>3, <1>4, <3>1, <3>2
  <2>2. ~(e > 2)
    <3>1. \A n \in Nat : n * d >= 0
      OBVIOUS
    <3>2. e > 2 => e - 3 \in Nat /\ (e - 3) * d = e * d - 3 * d
      BY <1>3
    <3> QED BY <1>3, <1>4, <3>1, <3>2
  <2> QED BY <1>3, <2>1, <2>2
<1> QED BY <1>2, <1>5 DEF u, v, w, e

LEMMA TwoQuotientsMeet ==
    ASSUME NEW a \in Int, NEW b \in Int, NEW d \in Nat \ {0}, NEW q \in Int, a + b = q * d
    PROVE  a \div d \in Int /\ b \div d \in Int /\ a \div d + b \div d \in (q - 2)..q
<1>1. \E c \in Int : c = 0
  OBVIOUS
<1>2. PICK c \in Int : c = 0
  BY <1>1
<1>3. c \div d = 0
  <2>1. 0 =< 0 * d
    OBVIOUS
  <2> QED BY <1>2, <2>1, QuotientWithin
<1>4. a + b + c = q * d
  BY <1>2
<1>5. /\ a \div d \in Int /\ b \div d \in Int
      /\ a \div d + b \div d + c \div d \in (q - 2)..q
  BY <1>4, QuotientsMeet
<1> QED BY <1>3, <1>5

----------------------------------------------------------------------------
(* Peaks.                                                                  *)

\* Two peaks that count have a valley between them that is deep enough.
LEMMA Valley ==
    ASSUME NEW y, \A k \in Points : y[k] \in Int, NEW prominence \in Int
    PROVE  ValleyBetween(y, FindPeaks(y, prominence), prominence)
<1> SUFFICES ASSUME NEW p \in FindPeaks(y, prominence), NEW q \in FindPeaks(y, prominence),
                    p < q, y[p] # y[q]
             PROVE  \E m \in p..q : y[m] =< Min({y[p], y[q]}) - prominence
  BY DEF ValleyBetween
<1> DEFINE Scan(k) == {y[j] : j \in LeftScan(y, k)}
<1>1. Grid \in Nat
  BY GridAssumption
<1>2. /\ p \in 1..(Grid - 1) /\ q \in 1..(Grid - 1)
      /\ y[p] \in Int /\ y[q] \in Int
      /\ Prominence(y, p) >= prominence /\ Prominence(y, q) >= prominence
  BY <1>1 DEF FindPeaks, LocalMaxima, Points
<1>3. Min({y[p], y[q]}) = IF y[p] < y[q] THEN y[p] ELSE y[q]
  <2>1. y[p] < y[q] \/ y[q] < y[p]
    BY <1>2
  <2> QED BY <1>2, <2>1, FS_Singleton, MinMax DEF Min
<1>4. ASSUME NEW k \in 1..(Grid - 1)
      PROVE  /\ \E m \in LeftScan(y, k) : Lowest(y, LeftScan(y, k)) = y[m]
             /\ \E m \in RightScan(y, k) : Lowest(y, RightScan(y, k)) = y[m]
             /\ LeftScan(y, k) \subseteq Points /\ RightScan(y, k) \subseteq Points
  <2>1. k \in LeftScan(y, k) /\ k \in RightScan(y, k)
    BY <1>1 DEF LeftScan, RightScan
  <2>2. LeftScan(y, k) \in SUBSET (0..Grid) /\ RightScan(y, k) \in SUBSET (0..Grid)
    BY <1>1 DEF LeftScan, RightScan
  <2>3. ASSUME NEW K \in SUBSET (0..Grid), K # {}
        PROVE  Min({y[j] : j \in K}) \in {y[j] : j \in K}
    <3>1. \A j \in K : y[j] \in Int
      BY DEF Points
    <3>2. 0 \in Int /\ Grid \in Int
      BY <1>1
    <3> DEFINE V == {y[j] : j \in K}
           f == [j \in K |-> y[j]]
    <3>3. V \in SUBSET Int /\ f \in Surjection(K, V)
      BY <3>1 DEF Surjection
    <3>4. IsFiniteSet(K)
      BY <3>2, FS_Interval, FS_Subset
    <3> HIDE DEF V, f
    <3>5. Min(V) \in V
      BY <2>3, <3>3, <3>4, MinMaxOfValues
    <3> QED BY <3>5 DEF V
  <2> QED BY <2>1, <2>2, <2>3 DEF Lowest, Points
<1>5. ASSUME NEW k \in 1..(Grid - 1), Prominence(y, k) >= prominence
      PROVE  /\ Lowest(y, LeftScan(y, k)) =< y[k] - prominence
             /\ Lowest(y, RightScan(y, k)) =< y[k] - prominence
  <2> DEFINE l == Lowest(y, LeftScan(y, k))
             r == Lowest(y, RightScan(y, k))
  <2>1. l \in Int /\ r \in Int /\ y[k] \in Int
    BY <1>1, <1>4 DEF Points
  <2>2. Prominence(y, k) = y[k] - Max({l, r})
    BY DEF Prominence
  <2> HIDE DEF l, r
  <2>3. Max({l, r}) \in Int /\ Max({l, r}) >= l /\ Max({l, r}) >= r
    <3>1. IsFiniteSet({l, r})
      <4>1. IsFiniteSet({l} \cup {r})
        BY FS_Singleton, FS_AddElement
      <4>2. {l} \cup {r} = {l, r}
        OBVIOUS
      <4> QED BY <4>1, <4>2
    <3>2. {l, r} \in SUBSET Int /\ {l, r} # {}
      BY <2>1
    <3> QED BY <2>1, <3>1, <3>2, MinMax
  <2>4. l =< y[k] - prominence /\ r =< y[k] - prominence
    BY <1>5, <2>1, <2>2, <2>3
  <2> QED BY <2>4 DEF l, r
<1>6. CASE y[p] < y[q]
  <2>1. RightScan(y, p) \subseteq p..q
    <3> SUFFICES ASSUME NEW j \in RightScan(y, p) PROVE j \in p..q
      OBVIOUS
    <3>1. j \in p..Grid /\ \A i \in p..(j - 1) : y[i] =< y[p]
      BY DEF RightScan
    <3>2. ~(y[q] =< y[p])
      BY <1>2, <1>6
    <3>3. q \notin p..(j - 1)
      BY <3>1, <3>2
    <3> QED BY <1>1, <1>2, <3>1, <3>3
  <2>2. PICK m \in RightScan(y, p) : Lowest(y, RightScan(y, p)) = y[m]
    BY <1>2, <1>4
  <2>3. y[m] =< y[p] - prominence
    BY <1>2, <1>5, <2>2
  <2> QED BY <1>3, <1>6, <2>1, <2>3
<1>7. CASE y[q] < y[p]
  <2>1. LeftScan(y, q) \subseteq p..q
    <3> SUFFICES ASSUME NEW j \in LeftScan(y, q) PROVE j \in p..q
      OBVIOUS
    <3>1. j \in 1..q /\ \A i \in (j + 1)..q : y[i] =< y[q]
      BY DEF LeftScan
    <3>2. ~(y[p] =< y[q])
      BY <1>2, <1>7
    <3>3. p \notin (j + 1)..q
      BY <3>1, <3>2
    <3> QED BY <1>1, <1>2, <3>1, <3>3
  <2>2. PICK m \in LeftScan(y, q) : Lowest(y, LeftScan(y, q)) = y[m]
    BY <1>2, <1>4
  <2>3. y[m] =< y[q] - prominence
    BY <1>2, <1>5, <2>2
  <2>4. ~(y[p] < y[q])
    BY <1>2, <1>7
  <2> QED BY <1>3, <2>1, <2>3, <2>4
<1> QED BY <1>2, <1>6, <1>7

----------------------------------------------------------------------------
(* The waveform is made of numbers.                                        *)

Recorded(dets) ==
    /\ dets \in Seq([timecode : Nat, rssi : Levels])
    /\ \A i, j \in 1..Len(dets) : i < j => dets[i].timecode < dets[j].timecode

Numbers(y) == \A k \in Points : y[k] \in Int

LEMMA Offsets ==
    ASSUME NEW dets, Recorded(dets), dets # <<>>
    PROVE  /\ Len(dets) \in Nat \ {0} /\ Span(dets) \in Nat
           /\ \A i \in 1..Len(dets) : /\ Offset(dets, i) \in Nat /\ Offset(dets, i) =< Span(dets)
                                      /\ dets[i].rssi \in Int
           /\ \A i, j \in 1..Len(dets) : i < j => Offset(dets, i) < Offset(dets, j)
<1>1. Len(dets) \in Nat \ {0}
  BY DEF Recorded
<1>2. \A i \in 1..Len(dets) : dets[i].timecode \in Nat /\ dets[i].rssi \in Int
  <2>1. \A i \in 1..Len(dets) : dets[i] \in [timecode : Nat, rssi : Levels]
    <3> DEFINE R == [timecode : Nat, rssi : Levels]
    <3>1. dets \in Seq(R)
      BY DEF Recorded
    <3> HIDE DEF R
    <3>2. \A i \in 1..Len(dets) : dets[i] \in R
      BY <3>1
    <3> QED BY <3>2 DEF R
  <2> QED BY <2>1, ScaleAssumption
<1>3. \A i, j \in 1..Len(dets) : i < j => dets[i].timecode < dets[j].timecode
  BY DEF Recorded
<1>4. 1 \in 1..Len(dets) /\ Len(dets) \in 1..Len(dets)
  BY <1>1
<1>5. ASSUME NEW i \in 1..Len(dets)
      PROVE  dets[1].timecode =< dets[i].timecode
             /\ dets[i].timecode =< dets[Len(dets)].timecode
  <2>1. (i = 1 \/ 1 < i) /\ (i = Len(dets) \/ i < Len(dets))
    BY <1>1
  <2> QED BY <1>2, <1>3, <1>4, <2>1
<1> QED BY <1>1, <1>2, <1>3, <1>4, <1>5 DEF Offset, Span

LEMMA ResampledNumbers ==
    ASSUME NEW dets, Recorded(dets), Len(dets) >= 2
    PROVE  Numbers(Resampled(dets))
<1> SUFFICES ASSUME NEW k \in Points PROVE Interp(dets, k) \in Int
  BY DEF Numbers, Resampled
<1> DEFINE n == Len(dets)
           K == {j \in 1..(n - 1) :
                   Offset(dets, j + 1) * Grid >= k * Span(dets) \/ j = n - 1}
           j == Interval(dets, k)
           gap == Offset(dets, j + 1) - Offset(dets, j)
           rise == (dets[j + 1].rssi - dets[j].rssi) * Fine
           over == rise * (k * Span(dets) - Grid * Offset(dets, j))
<1>1. n \in Nat /\ n >= 2 /\ dets # <<>>
  BY DEF Recorded
<1>2. Grid \in Nat \ {0} /\ Fine \in Nat /\ k \in Int
  BY GridAssumption, ScaleAssumption DEF Points
<1>3. j \in 1..(n - 1)
  <2>1. K \in SUBSET (1..(n - 1)) /\ n - 1 \in K
    BY <1>1
  <2>2. Min(K) \in K
    <3>1. n - 1 \in Int /\ 1 \in Int
      BY <1>1
    <3> HIDE DEF K
    <3> QED BY <2>1, <3>1, MinMaxOfPoints
  <2>3. j = Min(K)
    BY DEF Interval
  <2> QED BY <2>1, <2>2, <2>3
<1> HIDE DEF j, n
<1>4. j \in 1..n /\ j + 1 \in 1..n /\ j < j + 1
  BY <1>1, <1>3
<1>5. /\ Span(dets) \in Nat /\ Offset(dets, j) \in Nat /\ Offset(dets, j + 1) \in Nat
      /\ Offset(dets, j) < Offset(dets, j + 1)
      /\ dets[j].rssi \in Int /\ dets[j + 1].rssi \in Int
  BY <1>1, <1>4, Offsets DEF n
<1>6. gap \in Nat \ {0} /\ rise \in Int
  <2>1. \A a, b \in Int, c \in Nat : (a - b) * c \in Int
    OBVIOUS
  <2>2. rise \in Int
    BY <1>2, <1>5, <2>1
  <2>3. gap \in Nat \ {0}
    BY <1>5
  <2> QED BY <2>2, <2>3
<1>7. over \in Int
  <2>1. k * Span(dets) - Grid * Offset(dets, j) \in Int
    BY <1>2, <1>5
  <2> HIDE DEF rise
  <2> QED BY <1>6, <2>1
<1>8. Grid * gap \in Nat \ {0}
  <2>1. \A a, b \in Nat \ {0} : a * b \in Nat \ {0}
    OBVIOUS
  <2> HIDE DEF gap
  <2> QED BY <1>2, <1>6, <2>1
<1>9. Interp(dets, k) = dets[j].rssi * Fine + over \div (Grid * gap)
  BY DEF Interp, j
<1> HIDE DEF over, gap
<1>10. over \div (Grid * gap) \in Int
  BY <1>7, <1>8, Quotient
<1>11. \A a, c \in Int, b \in Nat : a * b + c \in Int
  OBVIOUS
<1> QED BY <1>2, <1>5, <1>9, <1>10, <1>11

LEMMA GainNatural == Gain \in Nat
<1>1. Taps \in Seq(Nat) /\ DOMAIN Taps = 1..Len(Taps) /\ Len(Taps) \in Nat
  BY GridAssumption
<1>2. IsFiniteSet(1..Len(Taps))
  BY <1>1, FS_Interval
<1>3. \A i \in 1..Len(Taps) : Taps[i] \in Nat /\ Taps[i] =< 1 * Taps[i]
  BY <1>1
<1>4. SumFunction(Taps) \in Nat
  BY <1>1, <1>2, <1>3, SumsCompare
<1> QED BY <1>4 DEF Gain

LEMMA PaddedNumbers ==
    ASSUME NEW y, Numbers(y), NEW k \in Points,
           NEW p \in 1..Len(Taps), NEW q \in 1..Len(Taps)
    PROVE  Padded(y, k - p + q) \in Int
<1> DEFINE i == k - p + q
<1>1. Len(Taps) \in Nat /\ Grid \in Nat /\ Grid >= 2 /\ 2 * (Len(Taps) - 1) =< Grid
  BY GridAssumption
<1>2. i \in Int /\ -(i) =< Grid /\ i =< 2 * Grid
  BY <1>1 DEF Points
<1> HIDE DEF i
<1>3. 0 \in Points /\ Grid \in Points
  BY <1>1 DEF Points
<1>4. CASE i < 0
  <2>1. -i \in Points
    BY <1>1, <1>2, <1>4 DEF Points
  <2>2. y[0] \in Int /\ y[-i] \in Int
    BY <1>3, <2>1 DEF Numbers
  <2> QED BY <1>4, <2>2 DEF Padded, i
<1>5. CASE i > Grid
  <2>1. 2 * Grid - i \in Points /\ ~(i < 0)
    BY <1>1, <1>2, <1>5 DEF Points
  <2>2. y[Grid] \in Int /\ y[2 * Grid - i] \in Int
    BY <1>3, <2>1 DEF Numbers
  <2> QED BY <1>5, <2>1, <2>2 DEF Padded, i
<1>6. CASE ~(i < 0) /\ ~(i > Grid)
  <2>1. i \in Points
    BY <1>1, <1>2, <1>6 DEF Points
  <2> QED BY <1>6, <2>1 DEF Padded, i, Numbers
<1> QED BY <1>4, <1>5, <1>6

LEMMA FiltfiltNumbers ==
    ASSUME NEW y, Numbers(y)
    PROVE  Numbers(Filtfilt(y))
<1> DEFINE S == (1..Len(Taps)) \X (1..Len(Taps))
           f(k) == [p \in S |-> Taps[p[1]] * Taps[p[2]] * Padded(y, k - p[1] + p[2])]
<1>1. Taps \in Seq(Nat) /\ Len(Taps) \in Nat
  BY GridAssumption
<1>2. IsFiniteSet(S)
  <2>1. IsFiniteSet(1..Len(Taps))
    BY <1>1, FS_Interval
  <2> QED BY <2>1, FS_Product
<1>3. ASSUME NEW k \in Points PROVE SumFunction(f(k)) \in Int
  <2>1. ASSUME NEW p \in S PROVE f(k)[p] \in Int
    <3>1. p[1] \in 1..Len(Taps) /\ p[2] \in 1..Len(Taps)
      OBVIOUS
    <3>2. Taps[p[1]] \in Nat /\ Taps[p[2]] \in Nat
      BY <1>1, <3>1
    <3>3. Padded(y, k - p[1] + p[2]) \in Int
      BY <3>1, PaddedNumbers
    <3>4. \A a, b \in Nat, c \in Int : a * b * c \in Int
      OBVIOUS
    <3>5. f(k)[p] = Taps[p[1]] * Taps[p[2]] * Padded(y, k - p[1] + p[2])
      BY <2>1
    <3> QED BY <3>2, <3>3, <3>4, <3>5
  <2>2. DOMAIN f(k) = S
    OBVIOUS
  <2> HIDE DEF f, S
  <2> QED BY <1>2, <2>1, <2>2, SumOfIntegers
<1> QED BY <1>3 DEF Numbers, Filtfilt

----------------------------------------------------------------------------
(* The passing point.                                                      *)

\* What PointInside says of a point, with its type.
Inside(p, span) ==
    /\ p.by \in {"none", "weighted", "dips", "peaks", "crossings"}
    /\ p.center \in Nat /\ p.timestamp \in Nat /\ p.duration \in Nat
    /\ p.timestamp - p.duration \div 2 >= 0
    /\ p.timestamp + p.duration \div 2 =< ToUsec(span)

\* What holds of a point in samples holds of it in microseconds, however many
\* samples those are.
LEMMA InMicroseconds ==
    ASSUME NEW by \in {"none", "weighted", "dips", "peaks", "crossings"},
           NEW center \in Nat, NEW duration \in Nat, NEW span \in Nat,
           duration =< 2 * center, 2 * center + duration =< 2 * span
    PROVE  Inside(PointOf(by, center, duration), span)
<1> DEFINE T == SampleRate
           U == UsecPerSecond
           x == center * U
           y == duration * U
           z == span * U
           c == x \div T
           d == y \div T
           h == d \div 2
<1>1. T \in Nat \ {0} /\ U \in Nat
  BY ScaleAssumption
<1> HIDE DEF T, U
<1>2. x \in Nat /\ y \in Nat /\ z \in Nat /\ y =< 2 * x /\ 2 * x + y =< 2 * z
  <2>1. \A a, b \in Nat : a * U \in Nat /\ (a =< b => a * U =< b * U)
    BY <1>1
  <2>2. (2 * center) * U = 2 * x /\ (2 * span) * U = 2 * z
        /\ (2 * center + duration) * U = 2 * x + y
    BY <1>1
  <2>3. y =< (2 * center) * U /\ (2 * center + duration) * U =< (2 * span) * U
    BY <2>1
  <2>4. x \in Nat /\ y \in Nat /\ z \in Nat
    BY <2>1
  <2> HIDE DEF x, y, z
  <2> QED BY <2>2, <2>3, <2>4
<1> HIDE DEF x, y, z
<1>3. c \in Int /\ 0 =< c /\ d \in Int /\ 0 =< d /\ c * T =< x /\ d * T =< y
  <2>1. \A q \in Int : c \in Int /\ (q * T =< x <=> q =< c)
    BY <1>1, <1>2, Quotient
  <2>2. \A q \in Int : d \in Int /\ (q * T =< y <=> q =< d)
    BY <1>1, <1>2, Quotient
  <2>3. 0 * T = 0
    BY <1>1
  <2> HIDE DEF c, d
  <2> QED BY <1>2, <2>1, <2>2, <2>3
<1> HIDE DEF c, d
<1>4. h \in Int /\ 0 =< h /\ h * 2 =< d
  BY <1>3
<1> HIDE DEF h
<1>5. h * T \in Int /\ c * T \in Int /\ (h * T) * 2 =< y
  <2>1. \A a, b \in Nat : a =< b => a * T =< b * T
    BY <1>1
  <2>2. (h * 2) * T =< d * T
    BY <1>3, <1>4, <2>1
  <2>3. (h * T) * 2 = (h * 2) * T
    BY <1>1, <1>4
  <2>4. h * T \in Int /\ c * T \in Int /\ d * T \in Int
    BY <1>1, <1>3, <1>4
  <2> QED BY <1>2, <1>3, <2>2, <2>3, <2>4
<1>6. h =< c
  <2>1. h * T =< x
    BY <1>2, <1>5
  <2> QED BY <1>1, <1>2, <1>4, <2>1, Quotient DEF c
<1>7. c + h =< z \div T /\ z \div T \in Int
  <2>1. (c + h) * T =< z
    <3>1. (c + h) * T = c * T + h * T
      BY <1>1, <1>3, <1>4
    <3> QED BY <1>2, <1>3, <1>5, <3>1
  <2>2. c + h \in Int
    BY <1>3, <1>4
  <2> QED BY <1>1, <1>2, <2>1, <2>2, Quotient
<1>8. PointOf(by, center, duration) =
        [by |-> by, center |-> center, timestamp |-> c, duration |-> d]
  BY DEF PointOf, ToUsec, c, d, x, y, T, U
<1>9. c - d \div 2 >= 0 /\ c + d \div 2 =< z \div T
  BY <1>3, <1>4, <1>6, <1>7 DEF h
<1> QED BY <1>3, <1>8, <1>9 DEF Inside, ToUsec, z, T, U

\* The detections that are averaged, their weights, and what they are multiplied with.
Strongest(dets) == Max({dets[i].rssi : i \in 1..Len(dets)})
Near(dets) == {i \in 1..Len(dets) : dets[i].rssi >= Strongest(dets) - Below}
Weights(dets) == [i \in Near(dets) |-> Weight[Strongest(dets) - dets[i].rssi]]
Moments(dets) ==
    [i \in Near(dets) |-> Offset(dets, i) * Weight[Strongest(dets) - dets[i].rssi]]

LEMMA StrongestIs ==
    ASSUME NEW dets, Recorded(dets), dets # <<>>
    PROVE  /\ Strongest(dets) \in Int
           /\ \A i \in 1..Len(dets) : Strongest(dets) >= dets[i].rssi
           /\ \E i \in 1..Len(dets) : Strongest(dets) = dets[i].rssi
<1> DEFINE all == 1..Len(dets)
           y == [i \in all |-> dets[i].rssi]
           V == {dets[i].rssi : i \in all}
<1>1. Len(dets) \in Nat \ {0} /\ \A i \in all : dets[i].rssi \in Int
  BY Offsets
<1>2. V \in SUBSET Int /\ y \in Surjection(all, V)
  BY <1>1 DEF Surjection
<1>3. IsFiniteSet(all)
  BY <1>1, FS_Interval
<1>4. all # {}
  BY <1>1
<1>5. Max(V) \in V /\ \A v \in V : Max(V) >= v
  <2> HIDE DEF y, V, all
  <2> QED BY <1>2, <1>3, <1>4, MinMaxOfValues
<1>6. \A i \in all : dets[i].rssi \in V
  OBVIOUS
<1>7. Strongest(dets) = Max(V)
  BY DEF Strongest
<1> QED BY <1>1, <1>5, <1>6, <1>7

LEMMA WeightedTerms ==
    ASSUME NEW dets, Recorded(dets), dets # <<>>
    PROVE  /\ Near(dets) \in SUBSET (1..Len(dets)) /\ IsFiniteSet(Near(dets)) /\ Near(dets) # {}
           /\ \A i \in Near(dets) :
                /\ Weights(dets)[i] = Weight[Strongest(dets) - dets[i].rssi]
                /\ Weights(dets)[i] \in Nat \ {0}
                /\ Moments(dets)[i] = Offset(dets, i) * Weights(dets)[i]
                /\ Moments(dets)[i] \in Nat
                /\ Moments(dets)[i] =< Span(dets) * Weights(dets)[i]
<1> DEFINE all == 1..Len(dets)
           strongest == Strongest(dets)
           near == Near(dets)
           w(i) == Weight[strongest - dets[i].rssi]
<1>1. /\ Len(dets) \in Nat \ {0} /\ Span(dets) \in Nat /\ Below \in Nat
      /\ \A i \in all : /\ Offset(dets, i) \in Nat /\ Offset(dets, i) =< Span(dets)
                        /\ dets[i].rssi \in Int
  BY Offsets, ScaleAssumption
<1>2. /\ strongest \in Int /\ \A i \in all : strongest >= dets[i].rssi
      /\ \E i \in all : strongest = dets[i].rssi
  BY StrongestIs
<1> HIDE DEF strongest
<1>3. near = {i \in all : dets[i].rssi >= strongest - Below}
  BY DEF Near, strongest
<1>4. near # {} /\ near \subseteq all
  BY <1>1, <1>2, <1>3
<1>5. IsFiniteSet(near)
  <2>1. IsFiniteSet(all)
    BY <1>1, FS_Interval
  <2> HIDE DEF near, all
  <2> QED BY <1>4, <2>1, FS_Subset
<1>6. \A i \in near : /\ Weights(dets)[i] = w(i)
                      /\ Moments(dets)[i] = Offset(dets, i) * w(i)
  BY DEF Weights, Moments, strongest
<1> HIDE DEF near
<1>7. ASSUME NEW i \in near PROVE w(i) \in Nat \ {0}
  <2>1. strongest - dets[i].rssi \in 0..Below
    <3>1. /\ dets[i].rssi \in Int /\ strongest >= dets[i].rssi
          /\ dets[i].rssi >= strongest - Below
      BY <1>1, <1>2, <1>3
    <3>2. \A a, b \in Int, c \in Nat : a >= b /\ b >= a - c => a - b \in 0..c
      OBVIOUS
    <3> QED BY <1>1, <1>2, <3>1, <3>2
  <2> QED BY <2>1, ScaleAssumption
<1>8. ASSUME NEW i \in near
      PROVE  Offset(dets, i) * w(i) \in Nat /\ Offset(dets, i) * w(i) =< Span(dets) * w(i)
  <2>1. Offset(dets, i) \in Nat /\ Offset(dets, i) =< Span(dets)
    BY <1>1, <1>4
  <2>2. \A a, b, n \in Nat : a =< b => a * n \in Nat /\ a * n =< b * n
    OBVIOUS
  <2>3. w(i) \in Nat /\ Span(dets) \in Nat
    BY <1>1, <1>7
  <2> HIDE DEF w
  <2> QED BY <2>1, <2>2, <2>3
<1> HIDE DEF w
<1>9. \A i \in near : /\ Weights(dets)[i] = w(i) /\ Weights(dets)[i] \in Nat \ {0}
                      /\ Moments(dets)[i] = Offset(dets, i) * Weights(dets)[i]
                      /\ Moments(dets)[i] \in Nat
                      /\ Moments(dets)[i] =< Span(dets) * Weights(dets)[i]
  BY <1>6, <1>7, <1>8
<1> QED BY <1>4, <1>5, <1>9 DEF w, near, strongest

LEMMA WeightedSums ==
    ASSUME NEW dets, Recorded(dets), dets # <<>>
    PROVE  /\ SumFunction(Moments(dets)) \in Nat /\ SumFunction(Weights(dets)) \in Nat \ {0}
           /\ SumFunction(Moments(dets)) =< Span(dets) * SumFunction(Weights(dets))
           /\ WeightedPassing(dets) =
                PointOf("weighted",
                        SumFunction(Moments(dets)) \div SumFunction(Weights(dets)), 0)
<1> DEFINE f == Moments(dets)
           h == Weights(dets)
<1>1. DOMAIN f = Near(dets) /\ DOMAIN h = Near(dets)
  BY DEF Moments, Weights
<1>2. WeightedPassing(dets) = PointOf("weighted", SumFunction(f) \div SumFunction(h), 0)
  BY DEF WeightedPassing, Moments, Weights, Near, Strongest
<1>3. Span(dets) \in Nat
  BY Offsets
<1>4. IsFiniteSet(Near(dets)) /\ Near(dets) # {}
  BY WeightedTerms
<1>5. \A i \in Near(dets) : f[i] \in Nat /\ h[i] \in Nat /\ h[i] # 0 /\ f[i] =< Span(dets) * h[i]
  BY WeightedTerms
<1> HIDE DEF f, h
<1>6. /\ SumFunction(f) \in Nat /\ SumFunction(h) \in Nat \ {0}
      /\ SumFunction(f) =< Span(dets) * SumFunction(h)
  BY <1>1, <1>3, <1>4, <1>5, SumsCompare
<1> QED BY <1>2, <1>6 DEF f, h

\* A weighted average of offsets is one of them or between them.
LEMMA WeightedInside ==
    ASSUME NEW dets, Recorded(dets), dets # <<>>
    PROVE  Inside(WeightedPassing(dets), Span(dets))
<1> DEFINE center == SumFunction(Moments(dets)) \div SumFunction(Weights(dets))
<1>1. Span(dets) \in Nat
  BY Offsets
<1>2. center \in Nat /\ center =< Span(dets)
  BY <1>1, WeightedSums, QuotientWithin
<1>3. WeightedPassing(dets) = PointOf("weighted", center, 0)
  BY WeightedSums
<1> HIDE DEF center
<1>5. 0 =< 2 * center /\ 2 * center + 0 =< 2 * Span(dets)
  BY <1>1, <1>2
<1>6. Inside(PointOf("weighted", center, 0), Span(dets))
  BY <1>1, <1>2, <1>5, InMicroseconds
<1> QED BY <1>3, <1>6

\* Halfway between two points of the grid.
LEMMA BetweenInside ==
    ASSUME NEW by \in {"dips", "peaks"}, NEW ks \in SUBSET (1..(Grid - 1)), ks # {},
           NEW span \in Nat, span >= Grid
    PROVE  Inside(BetweenPoints(by, ks, span), span)
<1> DEFINE lo == Min(ks)
           hi == Max(ks)
           duration == ((hi - lo) * span) \div Grid
           start == (lo * span) \div Grid
           half == duration \div 2
<1>1. Grid \in Nat \ {0}
  BY GridAssumption
<1>2. lo \in Nat /\ hi \in Nat /\ 1 =< lo /\ lo =< hi /\ hi =< Grid
  <2>1. 1 \in Int /\ Grid - 1 \in Int
    BY <1>1
  <2>2. lo \in ks /\ hi \in ks /\ lo =< hi
    BY <2>1, MinMaxOfPoints
  <2> HIDE DEF lo, hi
  <2>3. lo \in 1..(Grid - 1) /\ hi \in 1..(Grid - 1)
    BY <2>1, <2>2
  <2> QED BY <1>1, <2>2, <2>3
<1> HIDE DEF lo, hi
<1>3. (hi - lo) * span \in Nat /\ lo * span \in Nat
      /\ (hi - lo) * span + lo * span = hi * span /\ hi * span =< span * Grid
  <2>1. \A a, b, n \in Nat : a =< b => a * n \in Nat /\ a * n =< b * n
    OBVIOUS
  <2>2. hi - lo \in Nat /\ 0 =< hi - lo
    BY <1>2
  <2>3. (hi - lo) * span \in Nat /\ lo * span \in Nat
    BY <1>2, <2>2
  <2>4. hi * span =< Grid * span /\ Grid * span = span * Grid
    BY <1>1, <1>2, <2>1
  <2>5. (hi - lo) * span = hi * span - lo * span /\ hi * span \in Nat
    BY <1>2
  <2> QED BY <2>3, <2>4, <2>5
<1>4. /\ duration \in Int /\ 0 =< duration /\ duration * Grid =< (hi - lo) * span
      /\ start \in Int /\ 0 =< start /\ start * Grid =< lo * span
  <2>1. \A q \in Int : duration \in Int /\ (q * Grid =< (hi - lo) * span <=> q =< duration)
    BY <1>1, <1>3, Quotient
  <2>2. \A q \in Int : start \in Int /\ (q * Grid =< lo * span <=> q =< start)
    <3> DEFINE a == lo * span
    <3>1. a \in Nat
      BY <1>3
    <3> HIDE DEF a
    <3>2. \A q \in Int : a \div Grid \in Int /\ (q * Grid =< a <=> q =< a \div Grid)
      BY <1>1, <3>1, Quotient
    <3> QED BY <3>2 DEF a
  <2>3. 0 * Grid = 0
    BY <1>1
  <2> HIDE DEF duration, start
  <2> QED BY <1>3, <2>1, <2>2, <2>3
<1> HIDE DEF duration, start
<1>5. start + duration =< span
  <2>1. (start + duration) * Grid = start * Grid + duration * Grid
        /\ start * Grid \in Int /\ duration * Grid \in Int
    BY <1>1, <1>4
  <2>2. (start + duration) * Grid =< span * Grid /\ span * Grid \in Nat
    BY <1>1, <1>3, <1>4, <2>1
  <2>3. start + duration =< (span * Grid) \div Grid /\ (span * Grid) \div Grid \in Int
    BY <1>1, <1>4, <2>2, Quotient
  <2>4. (span * Grid) \div Grid =< span
    BY <1>1, <2>2, QuotientWithin
  <2> QED BY <1>4, <2>3, <2>4
<1>6. half \in Nat /\ half + half =< duration /\ duration =< half + half + 1
  BY <1>4
<1>11. 1 =< start
  <2>1. \A a, b \in Nat : 1 =< a /\ Grid =< b => 1 * Grid =< a * b
    BY <1>1
  <2>2. 1 * Grid =< lo * span
    BY <1>2, <2>1
  <2> QED BY <1>1, <1>3, <2>2, Quotient DEF start
<1>7. /\ duration =< 2 * (start + half) /\ 2 * (start + half) + duration =< 2 * span
      /\ start + half \in Nat
  <2> HIDE DEF half
  <2> QED BY <1>4, <1>5, <1>6, <1>11
<1>8. BetweenPoints(by, ks, span) = PointOf(by, start + half, duration)
  BY DEF BetweenPoints, Between, start, duration, half, lo, hi
<1>9. Inside(PointOf(by, start + half, duration), span)
  BY <1>4, <1>7, InMicroseconds
<1> QED BY <1>8, <1>9

\* A level that some point of the waveform reaches is first crossed on the grid.
LEMMA FirstOnGrid ==
    ASSUME NEW y, Numbers(y), NEW v \in Int, NEW top \in Points, y[top] >= v
    PROVE  FirstCrossing(y, v) \in Nat /\ FirstCrossing(y, v) =< Grid * Precision
<1> DEFINE K == {i \in Points : y[i] >= v}
           k == Min(K)
           over == Precision * (v - y[k - 1])
           rise == y[k] - y[k - 1]
           part == over \div rise
<1>1. Grid \in Nat /\ Precision \in Nat \ {0}
  BY GridAssumption
<1>2. k \in K /\ \A i \in K : k =< i
  <2>1. K \in SUBSET (0..Grid) /\ top \in K /\ 0 \in Int /\ Grid \in Int
    BY <1>1 DEF Points
  <2> HIDE DEF K
  <2> QED BY <2>1, MinMaxOfPoints
<1>3. FirstCrossing(y, v) = IF k = 0 THEN 0 ELSE (k - 1) * Precision + part
  BY DEF FirstCrossing
<1> HIDE DEF k
<1>4. k \in 0..Grid /\ y[k] \in Int /\ y[k] >= v
  BY <1>2 DEF Points, Numbers
<1>5. CASE k = 0
  <2>1. 0 =< Grid * Precision
    BY <1>1
  <2> QED BY <1>3, <1>5, <2>1
<1>6. CASE k # 0
  <2>1. k - 1 \in Points /\ k - 1 \in Nat /\ ~(k =< k - 1)
    BY <1>1, <1>4, <1>6 DEF Points
  <2>2. y[k - 1] \in Int /\ ~(y[k - 1] >= v)
    BY <1>2, <2>1 DEF Numbers
  <2>3. v - y[k - 1] \in Nat /\ rise \in Nat \ {0} /\ v - y[k - 1] =< rise
    BY <1>4, <2>2
  <2>4. over \in Nat /\ over =< Precision * rise
    <3>1. \A m, n \in Nat : m =< n => Precision * m \in Nat /\ Precision * m =< Precision * n
      BY <1>1
    <3> HIDE DEF rise
    <3> QED BY <2>3, <3>1
  <2>5. part \in Nat /\ part =< Precision
    <3> HIDE DEF over, rise
    <3> QED BY <1>1, <2>3, <2>4, QuotientWithin
  <2> HIDE DEF part
  <2>6. /\ (k - 1) * Precision \in Nat /\ (k - 1) * Precision + Precision = k * Precision
        /\ k * Precision =< Grid * Precision /\ k * Precision \in Nat /\ Grid * Precision \in Nat
    <3>1. \A m, n \in Nat : m =< n => m * Precision \in Nat /\ m * Precision =< n * Precision
      BY <1>1
    <3>2. \A n \in Nat : (n - 1) * Precision + Precision = n * Precision
      BY <1>1
    <3>3. k \in Nat /\ k =< Grid
      BY <1>1, <1>4
    <3> QED BY <1>1, <2>1, <3>1, <3>2, <3>3
  <2> QED BY <1>1, <1>3, <1>6, <2>5, <2>6
<1> QED BY <1>5, <1>6

\* So is the last crossing.
LEMMA LastOnGrid ==
    ASSUME NEW y, Numbers(y), NEW v \in Int
    PROVE  LastCrossing(y, v) \in Nat /\ LastCrossing(y, v) =< Grid * Precision
<1> DEFINE K == {i \in 1..Grid : y[i] >= v}
           k == Max(K)
           over == Precision * (v - y[k + 1])
           rise == y[k] - y[k + 1]
           part == over \div rise
<1>1. Grid \in Nat /\ Precision \in Nat \ {0} /\ Grid * Precision \in Nat
  BY GridAssumption
<1>2. LastCrossing(y, v) =
        IF K = {} \/ k = Grid THEN Grid * Precision ELSE (k + 1) * Precision - part
  BY DEF LastCrossing
<1>3. CASE K = {} \/ k = Grid
  BY <1>1, <1>2, <1>3
<1>4. CASE ~(K = {} \/ k = Grid)
  <2>1. k \in K /\ \A i \in K : k >= i
    <3>1. K \in SUBSET (1..Grid) /\ K # {} /\ 1 \in Int /\ Grid \in Int
      BY <1>1, <1>4
    <3> HIDE DEF K
    <3> QED BY <3>1, MinMaxOfPoints
  <2>2. LastCrossing(y, v) = (k + 1) * Precision - part /\ k # Grid
    BY <1>2, <1>4
  <2> HIDE DEF k
  <2>3. k \in 1..(Grid - 1) /\ y[k] \in Int /\ y[k] >= v
    BY <1>1, <2>1, <2>2 DEF Points, Numbers
  <2>4. k + 1 \in Points /\ k + 1 \in 1..Grid /\ ~(k >= k + 1)
    BY <1>1, <2>3 DEF Points
  <2>5. y[k + 1] \in Int /\ ~(y[k + 1] >= v)
    BY <2>1, <2>4 DEF Numbers
  <2>6. v - y[k + 1] \in Nat /\ rise \in Nat \ {0} /\ v - y[k + 1] =< rise
    BY <2>3, <2>5
  <2>7. over \in Nat /\ over =< Precision * rise
    <3>1. \A m, n \in Nat : m =< n => Precision * m \in Nat /\ Precision * m =< Precision * n
      BY <1>1
    <3> HIDE DEF rise
    <3> QED BY <2>6, <3>1
  <2>8. part \in Nat /\ part =< Precision
    <3> HIDE DEF over, rise
    <3> QED BY <1>1, <2>6, <2>7, QuotientWithin
  <2> HIDE DEF part
  <2>9. /\ (k + 1) * Precision \in Nat /\ Precision =< (k + 1) * Precision
        /\ (k + 1) * Precision =< Grid * Precision
    <3>1. \A m, n \in Nat : m =< n => m * Precision \in Nat /\ m * Precision =< n * Precision
      BY <1>1
    <3>2. k + 1 \in Nat /\ 1 =< k + 1 /\ k + 1 =< Grid /\ 1 * Precision = Precision
      BY <1>1, <2>3
    <3> QED BY <1>1, <3>1, <3>2
  <2> QED BY <1>1, <2>2, <2>8, <2>9
<1> QED BY <1>3, <1>4

LEMMA CrossingsInside ==
    ASSUME NEW y, Numbers(y), NEW span \in Nat
    PROVE  Inside(BetweenCrossings(y, span), span)
<1> DEFINE v == SixBelow(y)
           first == FirstCrossing(y, v)
           last == LastCrossing(y, v)
           whole == 2 * Grid * Precision
           center == ((first + last) * span) \div whole
<1>1. Grid \in Nat \ {0} /\ Precision \in Nat \ {0}
  BY GridAssumption
<1>2. PICK top \in Points : Top(y) = y[top]
  <2> DEFINE V == {y[k] : k \in Points}
             f == [k \in Points |-> y[k]]
  <2>1. V \in SUBSET Int /\ f \in Surjection(Points, V)
    BY DEF Surjection, Numbers
  <2>2. Points # {}
    BY <1>1 DEF Points
  <2>3. IsFiniteSet(Points)
    BY <1>1, FS_Interval DEF Points
  <2>4. Max(V) \in V
    <3> HIDE DEF V, f
    <3> QED BY <2>1, <2>2, <2>3, MinMaxOfValues
  <2> QED BY <2>4 DEF Top
<1>3. v \in Int /\ y[top] >= v
  <2>1. Below * Fine * Gain \in Nat
    <3>1. \A a, b, c \in Nat : a * b * c \in Nat
      OBVIOUS
    <3> QED BY <3>1, ScaleAssumption, GainNatural
  <2>2. y[top] \in Int
    BY DEF Numbers
  <2>3. v = y[top] - Below * Fine * Gain
    BY <1>2 DEF SixBelow
  <2> HIDE DEF v
  <2> QED BY <2>1, <2>2, <2>3
<1> HIDE DEF v
<1>4. first \in Nat /\ first =< Grid * Precision
  BY <1>3, FirstOnGrid
<1>5. last \in Nat /\ last =< Grid * Precision
  BY <1>3, LastOnGrid
<1> HIDE DEF first, last
<1>6. first + last \in Nat /\ first + last =< whole
  <2>1. whole = Grid * Precision + Grid * Precision /\ Grid * Precision \in Nat
    BY <1>1
  <2> HIDE DEF whole
  <2> QED BY <1>4, <1>5, <2>1
<1>7. whole \in Nat \ {0}
  <2>1. \A a, b \in Nat \ {0} : 2 * a * b \in Nat \ {0}
    OBVIOUS
  <2> QED BY <1>1, <2>1
<1> HIDE DEF whole
<1>8. (first + last) * span \in Nat /\ (first + last) * span =< span * whole
  <2>1. \A a, b, n \in Nat : a =< b => a * n \in Nat /\ a * n =< n * b
    OBVIOUS
  <2> QED BY <1>6, <1>7, <2>1
<1>9. center \in Nat /\ center =< span
  BY <1>7, <1>8, QuotientWithin
<1>10. BetweenCrossings(y, span) = PointOf("crossings", center, 0)
  BY DEF BetweenCrossings, center, first, last, v, whole
<1> HIDE DEF center
<1>12. 0 =< 2 * center /\ 2 * center + 0 =< 2 * span
  BY <1>9
<1>13. Inside(PointOf("crossings", center, 0), span)
  BY <1>9, <1>12, InMicroseconds
<1> QED BY <1>10, <1>13

----------------------------------------------------------------------------
(* compute_passing_point.                                                  *)

Stages == {"open", "uniform", "smoothed", "done"}

\* From the first detection of a passing to a later one it takes a frame.
LongEnough(dets) == Len(dets) >= 2 => Span(dets) >= Grid

\* What holds in every state: the point is inside the passing once it is found,
\* and the waveforms it is found on are numbers.
IInv ==
    /\ stage \in Stages /\ Len(detections) =< MaxHits
    /\ DOMAIN y_uniform = Points /\ DOMAIN y_smoothed = Points
    /\ Recorded(detections) /\ LongEnough(detections)
    /\ stage \in {"uniform", "smoothed"} =>
         Len(detections) >= FewHits /\ Numbers(y_uniform)
    /\ stage = "smoothed" => Numbers(y_smoothed)
    /\ stage = "done" => detections # <<>> /\ Inside(point, Span(detections))
    /\ stage # "done" => point = NoPoint

LEMMA NoPointTyped ==
    /\ NoPoint.by \in {"none", "weighted", "dips", "peaks", "crossings"}
    /\ NoPoint.center \in Nat /\ NoPoint.timestamp \in Nat /\ NoPoint.duration \in Nat
<1> DEFINE none == 0 * UsecPerSecond
<1>1. none = 0 /\ none =< 0 * SampleRate
  BY ScaleAssumption
<1> HIDE DEF none
<1>2. none \div SampleRate \in Nat
  BY <1>1, ScaleAssumption, QuotientWithin
<1> QED BY <1>2 DEF NoPoint, PointOf, ToUsec, none

LEMMA InitIInv == Init => IInv
<1> SUFFICES ASSUME Init PROVE IInv
  OBVIOUS
<1>1. Len(detections) = 0 /\ Recorded(detections) /\ 0 =< MaxHits
  BY GridAssumption DEF Init, Recorded
<1> QED BY <1>1 DEF Init, IInv, Flat, Stages, LongEnough

\* The receiver appends behind all timecodes so far.
LEMMA Appended ==
    ASSUME Recorded(detections), NEW gap \in Gaps, NEW rssi \in Levels, Detect(gap, rssi)
    PROVE  /\ Recorded(detections') /\ LongEnough(detections')
           /\ Len(detections') =< MaxHits
<1> DEFINE n == Len(detections)
           d == [timecode |-> IF detections = <<>> THEN 0
                              ELSE detections[Len(detections)].timecode + gap,
                 rssi |-> rssi]
           R == [timecode : Nat, rssi : Levels]
<1>1. detections' = Append(detections, d) /\ n < MaxHits /\ MaxHits \in Nat
  BY GridAssumption DEF Detect
<1>2. detections \in Seq(R) /\ n \in Nat
  BY DEF Recorded
<1>3. gap \in Nat /\ gap > 0 /\ gap >= Grid /\ Grid \in Nat
  BY GridAssumption
<1>4. detections # <<>> => n \in 1..n /\ detections[n].timecode \in Nat
  <2>1. \A i \in 1..n : detections[i] \in R
    <3> HIDE DEF R
    <3> QED BY <1>2
  <2>2. detections # <<>> => n \in 1..n
    BY <1>2
  <2> QED BY <2>1, <2>2
<1>5. d \in R
  BY <1>3, <1>4
<1>6. ASSUME NEW i \in 1..n PROVE detections[i].timecode < d.timecode
  <2>1. detections # <<>> /\ d.timecode = detections[n].timecode + gap
    BY <1>2
  <2>2. i = n \/ detections[i].timecode < detections[n].timecode
    <3>1. i = n \/ i < n
      BY <1>2
    <3> QED BY <1>4, <2>1, <3>1 DEF Recorded
  <2>3. detections[i].timecode \in Nat
    <3> HIDE DEF R
    <3>1. detections[i] \in R
      BY <1>2
    <3> QED BY <3>1 DEF R
  <2> HIDE DEF d
  <2> QED BY <1>3, <1>4, <2>1, <2>2, <2>3
<1> HIDE DEF R, d
<1>7. /\ detections' \in Seq(R) /\ Len(detections') = n + 1
      /\ detections'[n + 1] = d
      /\ \A i \in 1..n : detections'[i] = detections[i]
  BY <1>1, <1>2, <1>5
<1>8. ASSUME NEW i \in 1..Len(detections'), NEW j \in 1..Len(detections'), i < j
      PROVE  detections'[i].timecode < detections'[j].timecode
  <2>1. i \in 1..n /\ (j \in 1..n \/ j = n + 1)
    BY <1>2, <1>7, <1>8
  <2>2. CASE j \in 1..n
    BY <1>7, <1>8, <2>1, <2>2 DEF Recorded
  <2>3. CASE j = n + 1
    BY <1>6, <1>7, <2>1, <2>3
  <2> QED BY <2>1, <2>2, <2>3
<1>9. Recorded(detections')
  BY <1>7, <1>8 DEF Recorded, R
<1>10. LongEnough(detections')
  <2> SUFFICES ASSUME n >= 1 PROVE Span(detections') >= Grid
    BY <1>2, <1>7 DEF LongEnough
  <2>1. 1 \in 1..n /\ n \in 1..n /\ detections # <<>>
    BY <1>2
  <2>2. detections'[1] = detections[1]
    BY <1>7, <2>1
  <2>3. d.timecode = detections[n].timecode + gap
    BY <2>1 DEF d
  <2> DEFINE first == detections[1].timecode
             last == detections[n].timecode
  <2>4. Span(detections') = (last + gap) - first
    <3>1. Len(detections') = n + 1 /\ detections'[n + 1] = d
      BY <1>7
    <3>2. Span(detections') = detections'[n + 1].timecode - detections'[1].timecode
      BY <3>1 DEF Span, Offset
    <3>3. detections'[n + 1].timecode = last + gap
      BY <2>3, <3>1, Zenon
    <3>4. detections'[1].timecode = first
      BY <2>2, Zenon
    <3> HIDE DEF n, first, last
    <3> QED BY <3>2, <3>3, <3>4
  <2>5. \A i \in 1..n : detections[i].timecode \in Nat
    <3>1. \A i \in 1..n : detections[i] \in R
      BY <1>2
    <3> QED BY <3>1 DEF R
  <2>6. detections[1].timecode =< detections[n].timecode
    <3>1. \A k \in Nat : k >= 1 => 1 = k \/ 1 < k
      OBVIOUS
    <3>3. 1 = n \/ 1 < n
      BY <1>2, <3>1
    <3>2. 1 < n => detections[1].timecode < detections[n].timecode
      BY <2>1 DEF Recorded
    <3> QED BY <2>1, <2>5, <3>3, <3>2
  <2>7. first \in Nat /\ last \in Nat /\ first =< last
    BY <2>1, <2>5, <2>6
  <2> HIDE DEF first, last
  <2> QED BY <1>3, <2>4, <2>7
<1> QED BY <1>1, <1>2, <1>7, <1>9, <1>10

\* The end of compute_passing_point.
LEMMA Finished ==
    ASSUME IInv, detections # <<>>, NEW p, Finish(p), Inside(p, Span(detections)),
           UNCHANGED <<y_uniform, y_smoothed>>
    PROVE  IInv'
BY DEF IInv, Finish, Recorded, LongEnough, Inside, Span, Offset, Stages

LEMMA NextIInv == IInv /\ [Next]_vars => IInv'
<1> SUFFICES ASSUME IInv, [Next]_vars PROVE IInv'
  OBVIOUS
<1>1. HitLimit \in Nat /\ HitLimit >= 2 /\ FewHits \in Nat /\ FewHits > HitLimit
  BY GridAssumption, ScaleAssumption
<1>2. Len(detections) \in Nat
  BY DEF IInv, Recorded
<1>3. ASSUME NEW gap \in Gaps, NEW rssi \in Levels, Detect(gap, rssi) PROVE IInv'
  <2>1. Recorded(detections') /\ LongEnough(detections') /\ Len(detections') =< MaxHits
    BY <1>3, Appended DEF IInv
  <2>2. stage = "open" /\ UNCHANGED <<stage, y_uniform, y_smoothed, point>>
    BY <1>3 DEF Detect
  <2> QED BY <2>1, <2>2 DEF IInv, Recorded
<1>4. CASE CreateFew
  <2>1. /\ Len(detections) >= HitLimit
        /\ Finish(WeightedPassing(detections)) /\ UNCHANGED <<y_uniform, y_smoothed>>
    BY <1>4 DEF CreateFew
  <2>2. detections # <<>> /\ Recorded(detections)
    BY <1>1, <1>2, <2>1 DEF IInv
  <2> QED BY <2>1, <2>2, Finished, WeightedInside
<1>5. CASE CreateMany
  <2>1. Len(detections) >= FewHits /\ Len(detections) >= 2 /\ Recorded(detections)
    BY <1>1, <1>2, <1>5 DEF CreateMany, IInv
  <2>2. Numbers(y_uniform')
    BY <1>5, <2>1, ResampledNumbers DEF CreateMany
  <2>4. LongEnough(detections')
    BY <1>5 DEF CreateMany, IInv, LongEnough, Span, Offset
  <2>3. DOMAIN y_uniform' = Points /\ stage' = "uniform" /\ stage = "open"
        /\ UNCHANGED <<detections, y_smoothed, point>>
    BY <1>5 DEF CreateMany, Resampled
  <2> QED BY <2>1, <2>2, <2>3, <2>4 DEF IInv, Recorded, Numbers, Stages
<1>6. ASSUME stage \in {"uniform", "smoothed"}
      PROVE  /\ detections # <<>> /\ Span(detections) \in Nat /\ Span(detections) >= Grid
             /\ LongEnough(detections)
  <2>1. detections # <<>> /\ Len(detections) >= 2
    BY <1>1, <1>2, <1>6 DEF IInv
  <2> QED BY <2>1, Offsets DEF IInv, LongEnough
<1>7. \A y, n : /\ Dips(y) \in SUBSET (1..(Grid - 1)) /\ Peaks(y) \in SUBSET (1..(Grid - 1))
                /\ (n # 0 /\ Cardinality(Dips(y)) = n => Dips(y) # {})
                /\ (n # 0 /\ Cardinality(Peaks(y)) = n => Peaks(y) # {})
  <2>1. \A y, m : FindPeaks(y, m) \in SUBSET (1..(Grid - 1))
    BY DEF FindPeaks, LocalMaxima
  <2>2. \A S, n : n # 0 /\ Cardinality(S) = n => S # {}
    BY FS_EmptySet
  <2> QED BY <2>1, <2>2 DEF Dips, Peaks
<1>8. CASE FindDips
  <2>1. /\ stage = "uniform" /\ Cardinality(Dips(y_uniform)) = 3
        /\ Finish(BetweenPoints("dips", Dips(y_uniform), Span(detections)))
        /\ UNCHANGED <<y_uniform, y_smoothed>>
    BY <1>8 DEF FindDips
  <2>2. Inside(BetweenPoints("dips", Dips(y_uniform), Span(detections)), Span(detections))
    BY <1>6, <1>7, <2>1, BetweenInside
  <2> QED BY <1>6, <2>1, <2>2, Finished
<1>9. CASE Smooth
  <2>1. /\ stage = "uniform" /\ stage' = "smoothed"
        /\ y_smoothed' = Filtfilt(y_uniform)
        /\ UNCHANGED <<detections, y_uniform, point>>
    BY <1>9 DEF Smooth
  <2>2. Numbers(y_smoothed') /\ DOMAIN y_smoothed' = Points
    BY <2>1, FiltfiltNumbers DEF IInv, Filtfilt
  <2>3. LongEnough(detections')
    BY <1>6, <2>1 DEF LongEnough, Span, Offset
  <2> QED BY <2>1, <2>2, <2>3 DEF IInv, Recorded, Numbers, Stages
<1>10. CASE FindTwoPeaks
  <2>1. /\ stage = "smoothed" /\ Cardinality(Peaks(y_smoothed)) = 2
        /\ Finish(BetweenPoints("peaks", Peaks(y_smoothed), Span(detections)))
        /\ UNCHANGED <<y_uniform, y_smoothed>>
    BY <1>10 DEF FindTwoPeaks
  <2>2. Inside(BetweenPoints("peaks", Peaks(y_smoothed), Span(detections)), Span(detections))
    BY <1>6, <1>7, <2>1, BetweenInside
  <2> QED BY <1>6, <2>1, <2>2, Finished
<1>11. CASE FindCrossings
  <2>1. /\ stage = "smoothed"
        /\ Finish(BetweenCrossings(y_smoothed, Span(detections)))
        /\ UNCHANGED <<y_uniform, y_smoothed>>
    BY <1>11 DEF FindCrossings
  <2>2. Inside(BetweenCrossings(y_smoothed, Span(detections)), Span(detections))
    BY <1>6, <2>1, CrossingsInside DEF IInv
  <2> QED BY <1>6, <2>1, <2>2, Finished
<1>12. CASE EraseDeque
  <2>1. /\ stage' = "open" /\ detections' = <<>> /\ y_uniform' = Flat
        /\ y_smoothed' = Flat /\ point' = NoPoint
    BY <1>12 DEF EraseDeque
  <2>2. /\ Len(detections') = 0 /\ 0 =< MaxHits /\ Recorded(detections')
        /\ LongEnough(detections')
    BY <2>1, GridAssumption DEF Recorded, LongEnough
  <2> QED BY <2>1, <2>2 DEF IInv, Flat, Stages, Recorded
<1>13. CASE UNCHANGED vars
  BY <1>13 DEF vars, IInv, Recorded, LongEnough, Numbers, Inside, Span, Offset
<1> QED
  BY <1>3, <1>4, <1>5, <1>8, <1>9, <1>10, <1>11, <1>12, <1>13 DEF Next

\* Every variable keeps its type, through all the divisions: none of them is by
\* zero, and the times and durations they give are natural numbers.
THEOREM TypeCorrect == Spec => []TypeOK
<1>1. IInv => TypeOK
  BY NoPointTyped DEF IInv, TypeOK, Inside, Stages
<1> QED BY <1>1, InitIInv, NextIInv, PTL DEF Spec

\* The time compute_passing_point gives a passing lies between its first and its
\* last detection, with the duration around it, whichever of the four ways led to it.
THEOREM PointInsideCorrect == Spec => []PointInside
<1>1. IInv => PointInside
  BY DEF IInv, PointInside, Inside
<1> QED BY <1>1, InitIInv, NextIInv, PTL DEF Spec

\* Dips and peaks that find_peaks counts are separate ones: the waveform falls
\* by the prominence between two of them.
THEOREM PeaksApartCorrect == Spec => []PeaksApart
<1>1. ASSUME IInv PROVE PeaksApart
  <2>1. DipProminence * Fine \in Int
    BY ScaleAssumption
  <2>2. PeakProminence * Fine * Gain \in Int
    <3>1. \A a, b, c \in Nat : a * b * c \in Int
      OBVIOUS
    <3> QED BY <3>1, ScaleAssumption, GainNatural
  <2>3. ASSUME stage = "uniform"
        PROVE  ValleyBetween(Negated(y_uniform), Dips(y_uniform), DipProminence * Fine)
    <3>1. \A k \in Points : Negated(y_uniform)[k] \in Int
      BY <1>1, <2>3 DEF IInv, Numbers, Negated
    <3> QED BY <2>1, <3>1, Valley DEF Dips
  <2>4. ASSUME stage = "smoothed"
        PROVE  ValleyBetween(y_smoothed, Peaks(y_smoothed), PeakProminence * Fine * Gain)
    <3>1. \A k \in Points : y_smoothed[k] \in Int
      BY <1>1, <2>4 DEF IInv, Numbers
    <3> QED BY <2>2, <3>1, Valley DEF Peaks
  <2> QED BY <2>3, <2>4 DEF PeaksApart
<1>2. IInv => PeaksApart
  BY <1>1
<1> QED BY <1>2, InitIInv, NextIInv, PTL DEF Spec

----------------------------------------------------------------------------
(* The opposite direction: the waveform z is y from the other end.         *)

Opposite(z, y) == \A k \in Points : z[k] = y[Grid - k]

LEMMA OppositeAgain == ASSUME NEW y, NEW z, Opposite(z, y) PROVE Opposite(y, z)
<1> SUFFICES ASSUME NEW k \in Points PROVE y[k] = z[Grid - k]
  BY DEF Opposite
<1>1. Grid - k \in Points /\ Grid - (Grid - k) = k
  BY GridAssumption DEF Points
<1>2. z[Grid - k] = y[Grid - (Grid - k)]
  BY <1>1 DEF Opposite
<1> QED BY <1>1, <1>2

\* What a scan to the right sees is what one to the left sees, if that goes to
\* the edge as well.
LEMMA ScanMirrored ==
    ASSUME NEW y, NEW z, Opposite(z, y), NEW k \in Points
    PROVE  Lowest(z, LeftScanToEdge(z, Grid - k)) = Lowest(y, RightScan(y, k))
<1> DEFINE L == LeftScanToEdge(z, Grid - k)
           R == RightScan(y, k)
<1>1. Grid \in Nat /\ k \in 0..Grid /\ \A i \in 0..Grid : z[i] = y[Grid - i]
  BY GridAssumption DEF Points, Opposite
<1>2. L \subseteq 0..Grid /\ R \subseteq 0..Grid
  BY <1>1 DEF LeftScanToEdge, RightScan
<1>3. z[Grid - k] = y[k]
  BY <1>1
<1>4. ASSUME NEW i \in R PROVE Grid - i \in L
  <2>1. i \in k..Grid /\ \A h \in k..(i - 1) : y[h] =< y[k]
    BY DEF RightScan
  <2>2. Grid - i \in 0..(Grid - k)
    BY <1>1, <2>1
  <2>3. ASSUME NEW h \in (Grid - i + 1)..(Grid - k) PROVE z[h] =< z[Grid - k]
    <3>1. Grid - h \in k..(i - 1) /\ h \in 0..Grid
      BY <1>1, <2>1
    <3>2. z[h] = y[Grid - h] /\ y[Grid - h] =< y[k]
      BY <1>1, <2>1, <3>1
    <3> QED BY <1>3, <3>2
  <2> QED BY <2>2, <2>3 DEF LeftScanToEdge
<1>5. ASSUME NEW i \in L PROVE Grid - i \in R
  <2>1. i \in 0..(Grid - k) /\ \A h \in (i + 1)..(Grid - k) : z[h] =< z[Grid - k]
    BY DEF LeftScanToEdge
  <2>2. Grid - i \in k..Grid
    BY <1>1, <2>1
  <2>3. ASSUME NEW h \in k..(Grid - i - 1) PROVE y[h] =< y[k]
    <3>1. Grid - h \in (i + 1)..(Grid - k) /\ Grid - h \in 0..Grid /\ Grid - (Grid - h) = h
      BY <1>1, <2>1
    <3>2. z[Grid - h] = y[h] /\ z[Grid - h] =< z[Grid - k]
      BY <1>1, <2>1, <3>1
    <3> QED BY <1>3, <3>2
  <2> QED BY <2>2, <2>3 DEF RightScan
<1> HIDE DEF L, R
<1>6. {z[j] : j \in L} \subseteq {y[j] : j \in R}
  <2>1. \A j \in L : z[j] = y[Grid - j]
    BY <1>1, <1>2
  <2> QED BY <1>5, <2>1
<1>7. {y[j] : j \in R} \subseteq {z[j] : j \in L}
  <2>1. \A j \in R : y[j] = z[Grid - j]
    <3>1. \A j \in 0..Grid : Grid - j \in 0..Grid /\ Grid - (Grid - j) = j
      BY <1>1
    <3> QED BY <1>1, <1>2, <3>1
  <2> QED BY <1>4, <2>1
<1>8. {z[j] : j \in L} = {y[j] : j \in R}
  BY <1>6, <1>7
<1> QED BY <1>8 DEF Lowest, L, R

LEMMA PeakMirrored ==
    ASSUME NEW y, NEW z, Opposite(z, y), SeenToEdge(y), SeenToEdge(z), NEW prominence,
           NEW k \in FindPeaks(y, prominence)
    PROVE  Grid - k \in FindPeaks(z, prominence)
<1> DEFINE j == Grid - k
           a == Lowest(y, LeftScan(y, k))
           b == Lowest(y, RightScan(y, k))
<1>1. /\ k \in 1..(Grid - 1) /\ y[k] > y[k - 1] /\ y[k] > y[k + 1]
      /\ k \in LocalMaxima(y) /\ Prominence(y, k) >= prominence
  BY DEF FindPeaks, LocalMaxima
<1>2. /\ k \in Points /\ k - 1 \in Points /\ k + 1 \in Points
      /\ j \in 1..(Grid - 1) /\ j \in Points /\ j - 1 \in Points /\ j + 1 \in Points
      /\ Grid - j = k /\ Grid - (j - 1) = k + 1 /\ Grid - (j + 1) = k - 1
  BY <1>1, GridAssumption DEF Points
<1> HIDE DEF j
<1>3. z[j] = y[k] /\ z[j - 1] = y[k + 1] /\ z[j + 1] = y[k - 1]
  BY <1>2 DEF Opposite
<1>4. j \in LocalMaxima(z)
  BY <1>1, <1>2, <1>3 DEF LocalMaxima
<1>5. Lowest(z, LeftScan(z, j)) = b
  <2>1. Lowest(z, LeftScan(z, j)) = Lowest(z, LeftScanToEdge(z, j))
    BY <1>4 DEF SeenToEdge
  <2>2. Lowest(z, LeftScanToEdge(z, Grid - k)) = b
    BY <1>2, ScanMirrored
  <2> QED BY <2>1, <2>2 DEF j
<1>6. Lowest(z, RightScan(z, j)) = a
  <2>1. Lowest(y, LeftScan(y, k)) = Lowest(y, LeftScanToEdge(y, k))
    BY <1>1 DEF SeenToEdge
  <2>2. Lowest(y, LeftScanToEdge(y, Grid - j)) = Lowest(z, RightScan(z, j))
    BY <1>2, OppositeAgain, ScanMirrored
  <2> QED BY <1>2, <2>1, <2>2
<1> HIDE DEF a, b
<1>7. Prominence(y, k) = y[k] - Max({a, b})
  BY DEF Prominence, a, b
<1>8. Prominence(z, j) = z[j] - Max({b, a})
  BY <1>5, <1>6 DEF Prominence
<1>9. {a, b} = {b, a}
  OBVIOUS
<1>10. Prominence(z, j) = Prominence(y, k)
  BY <1>3, <1>7, <1>8, <1>9
<1> QED BY <1>1, <1>4, <1>10 DEF FindPeaks, j

LEMMA PeaksMirrored ==
    ASSUME NEW y, NEW z, Opposite(z, y), SeenToEdge(y), SeenToEdge(z), NEW prominence
    PROVE  /\ FindPeaks(y, prominence) \in SUBSET Points
           /\ FindPeaks(z, prominence) = {Grid - k : k \in FindPeaks(y, prominence)}
<1> DEFINE P == FindPeaks(y, prominence)
           Q == FindPeaks(z, prominence)
<1>1. P \subseteq Points /\ Q \subseteq Points
  BY GridAssumption DEF FindPeaks, LocalMaxima, Points
<1>2. \A k \in P : Grid - k \in Q
  BY PeakMirrored
<1>3. \A k \in Q : Grid - k \in P
  BY OppositeAgain, PeakMirrored
<1>4. \A k \in Points : Grid - (Grid - k) = k
  BY GridAssumption DEF Points
<1> HIDE DEF P, Q
<1>5. Q = {Grid - k : k \in P}
  BY <1>1, <1>2, <1>3, <1>4
<1> QED BY <1>1, <1>5 DEF P, Q

\* As many points, from the other end.
LEMMA PointsMirrored ==
    ASSUME NEW S \in SUBSET Points, NEW T, T = {Grid - k : k \in S}
    PROVE  /\ T \in SUBSET Points /\ Cardinality(T) = Cardinality(S)
           /\ S # {} => T # {} /\ Min(T) = Grid - Max(S) /\ Max(T) = Grid - Min(S)
<1>1. Grid \in Nat /\ Points = 0..Grid /\ 0 \in Int /\ Grid \in Int
  BY GridAssumption DEF Points
<1>2. T \in SUBSET (0..Grid) /\ S \in SUBSET (0..Grid)
  BY <1>1
<1>3. Cardinality(T) = Cardinality(S)
  <2> DEFINE f == [k \in S |-> Grid - k]
  <2>1. f \in Bijection(S, T)
    BY <1>1, <1>2 DEF Bijection, Injection, Surjection, IsInjective
  <2>2. IsFiniteSet(S)
    BY <1>1, <1>2, FS_Interval, FS_Subset
  <2> HIDE DEF f
  <2> QED BY <2>1, <2>2, FS_Bijection DEF ExistsBijection
<1>4. ASSUME S # {}
      PROVE  T # {} /\ Min(T) = Grid - Max(S) /\ Max(T) = Grid - Min(S)
  <2>1. T # {}
    BY <1>4
  <2>2. /\ Min(S) \in S /\ \A k \in S : Min(S) =< k
        /\ Max(S) \in S /\ \A k \in S : Max(S) >= k
    BY <1>1, <1>2, <1>4, MinMaxOfPoints
  <2>3. /\ Min(T) \in T /\ \A k \in T : Min(T) =< k
        /\ Max(T) \in T /\ \A k \in T : Max(T) >= k
    BY <1>1, <1>2, <2>1, MinMaxOfPoints
  <2>4. Grid - Max(S) \in T /\ Grid - Min(S) \in T
    BY <2>2
  <2>5. PICK k \in S : Min(T) = Grid - k
    BY <2>3
  <2>6. PICK l \in S : Max(T) = Grid - l
    BY <2>3
  <2>7. /\ Min(T) =< Grid - Max(S) /\ Max(T) >= Grid - Min(S)
        /\ Max(S) >= k /\ Min(S) =< l
    BY <2>2, <2>3, <2>4
  <2>8. k \in Int /\ l \in Int /\ Max(S) \in Int /\ Min(S) \in Int
    <3>1. \A i \in S : i \in Int
      BY <1>1, <1>2
    <3> QED BY <2>2, <3>1
  <2> QED BY <1>1, <2>1, <2>5, <2>6, <2>7, <2>8
<1> QED BY <1>1, <1>2, <1>3, <1>4

\* The level is last crossed in the one direction where it is first crossed in the
\* other, when point 0 is not the only one above it.
LEMMA CrossingMirrored ==
    ASSUME NEW y, NEW z, Opposite(z, y), Numbers(y), NEW v \in Int,
           \E i \in 1..Grid : y[i] >= v
    PROVE  FirstCrossing(z, v) + LastCrossing(y, v) = Grid * Precision
<1> DEFINE K == {i \in Points : z[i] >= v}
           J == {i \in 1..Grid : y[i] >= v}
           k == Min(K)
           m == Max(J)
           part == (Precision * (v - y[m + 1])) \div (y[m] - y[m + 1])
<1>1. Grid \in Nat /\ Precision \in Nat \ {0} /\ Points = 0..Grid /\ Grid * Precision \in Nat
  BY GridAssumption DEF Points
<1>2. \A i \in 0..Grid : z[i] = y[Grid - i] /\ y[i] \in Int /\ Grid - i \in 0..Grid
  BY <1>1 DEF Opposite, Numbers
<1>3. m \in J /\ \A i \in J : m >= i
  <2>1. J \in SUBSET (1..Grid) /\ J # {} /\ 1 \in Int /\ Grid \in Int
    BY <1>1
  <2> HIDE DEF J
  <2> QED BY <2>1, MinMaxOfPoints
<1>4. FirstCrossing(z, v) =
        IF k = 0 THEN 0
        ELSE (k - 1) * Precision + (Precision * (v - z[k - 1])) \div (z[k] - z[k - 1])
  BY DEF FirstCrossing
<1>5. LastCrossing(y, v) =
        IF J = {} \/ m = Grid THEN Grid * Precision ELSE (m + 1) * Precision - part
  BY DEF LastCrossing
<1>6. J # {}
  BY <1>3
<1> HIDE DEF m
<1>7. m \in 1..Grid /\ y[m] >= v
  BY <1>3
<1>8. k = Grid - m
  <2>1. Grid - m \in K
    <3>1. Grid - m \in 0..Grid /\ Grid - (Grid - m) = m
      BY <1>1, <1>7
    <3> QED BY <1>1, <1>2, <1>7, <3>1
  <2>2. \A i \in K : Grid - m =< i
    <3> SUFFICES ASSUME NEW i \in K PROVE Grid - m =< i
      OBVIOUS
    <3>1. i \in 0..Grid /\ y[Grid - i] >= v
      BY <1>1, <1>2
    <3>2. Grid - i = 0 \/ Grid - i \in J
      BY <1>1, <3>1
    <3>3. Grid - i =< m
      BY <1>1, <1>3, <1>7, <3>2
    <3> QED BY <1>1, <1>7, <3>1, <3>3
  <2>3. k \in K /\ \A i \in K : k =< i
    <3>1. K \in SUBSET (0..Grid) /\ K # {} /\ 0 \in Int /\ Grid \in Int
      BY <1>1, <2>1
    <3> HIDE DEF K
    <3> QED BY <3>1, MinMaxOfPoints
  <2>4. k \in Int
    BY <1>1, <2>3
  <2> HIDE DEF K, k
  <2> QED BY <1>1, <1>7, <2>1, <2>2, <2>3, <2>4
<1> HIDE DEF J, k
<1>9. CASE m = Grid
  <2>1. k = 0
    BY <1>1, <1>8, <1>9
  <2> QED BY <1>1, <1>4, <1>5, <1>9, <2>1
<1>10. CASE m # Grid
  <2>1. k # 0 /\ k \in 0..Grid /\ k - 1 \in 0..Grid /\ Grid - k = m /\ Grid - (k - 1) = m + 1
        /\ m + 1 \in 1..Grid /\ m \in 0..Grid /\ m + 1 \in 0..Grid
    BY <1>1, <1>7, <1>8, <1>10
  <2>2. z[k] = y[m] /\ z[k - 1] = y[m + 1]
    BY <1>2, <2>1
  <2>3. y[m] \in Int /\ y[m + 1] \in Int /\ ~(y[m + 1] >= v)
    <3>1. ~(m >= m + 1)
      BY <1>7, <1>1
    <3>2. m + 1 \notin J
      BY <1>3, <3>1
    <3> QED BY <1>2, <2>1, <3>2 DEF J
  <2>4. part \in Int
    <3>1. y[m] - y[m + 1] \in Nat \ {0}
      BY <1>7, <2>3
    <3>2. Precision * (v - y[m + 1]) \in Int
      BY <1>1, <2>3
    <3> QED BY <3>1, <3>2, Quotient
  <2>5. FirstCrossing(z, v) = (k - 1) * Precision + part
    BY <1>4, <2>1, <2>2
  <2>6. LastCrossing(y, v) = (m + 1) * Precision - part
    BY <1>5, <1>6, <1>10
  <2> HIDE DEF part
  <2>7. (k - 1) * Precision + (m + 1) * Precision = Grid * Precision
    <3>1. k - 1 = Grid - (m + 1) /\ m + 1 \in Int
      BY <1>1, <1>7, <1>8
    <3>2. \A a \in Int : (Grid - a) * Precision + a * Precision = Grid * Precision
                         /\ (Grid - a) * Precision \in Int /\ a * Precision \in Int
      BY <1>1
    <3> QED BY <3>1, <3>2
  <2>8. (k - 1) * Precision \in Int /\ (m + 1) * Precision \in Int
    BY <1>1, <1>7, <2>1
  <2> QED BY <2>4, <2>5, <2>6, <2>7, <2>8
<1> QED BY <1>9, <1>10

\* The level is the same in both directions.
LEMMA LevelMirrored ==
    ASSUME NEW y, NEW z, Opposite(z, y), Numbers(y)
    PROVE  /\ SixBelow(z) = SixBelow(y) /\ SixBelow(y) \in Int
           /\ \E top \in Points : y[top] >= SixBelow(y)
<1>1. Grid \in Nat \ {0} /\ Points = 0..Grid
  BY GridAssumption DEF Points
<1>2. {z[k] : k \in Points} = {y[k] : k \in Points}
  <2>1. \A k \in Points : Grid - k \in Points /\ Grid - (Grid - k) = k
    BY <1>1
  <2>2. \A k \in Points : z[k] = y[Grid - k]
    BY DEF Opposite
  <2> QED BY <2>1, <2>2
<1>3. SixBelow(z) = SixBelow(y)
  BY <1>2 DEF SixBelow, Top
<1>4. PICK top \in Points : Top(y) = y[top]
  <2> DEFINE V == {y[k] : k \in Points}
             f == [k \in Points |-> y[k]]
  <2>1. V \in SUBSET Int /\ f \in Surjection(Points, V)
    BY DEF Surjection, Numbers
  <2>2. Points # {}
    BY <1>1
  <2>3. IsFiniteSet(Points)
    BY <1>1, FS_Interval
  <2>4. Max(V) \in V
    <3> HIDE DEF V, f
    <3> QED BY <2>1, <2>2, <2>3, MinMaxOfValues
  <2> QED BY <2>4 DEF Top
<1>5. Below * Fine * Gain \in Nat
  <2>1. \A a, b, c \in Nat : a * b * c \in Nat
    OBVIOUS
  <2> QED BY <2>1, ScaleAssumption, GainNatural
<1>6. y[top] \in Int
  BY DEF Numbers
<1>7. SixBelow(y) = y[top] - Below * Fine * Gain
  BY <1>4 DEF SixBelow
<1>8. SixBelow(y) \in Int /\ y[top] >= SixBelow(y)
  BY <1>5, <1>6, <1>7
<1> QED BY <1>3, <1>8

\* The passings of the two directions: as long, and at mirrored times up to Rounding.
MirroredPoints(p, q, span) ==
    p.center + q.center - span \in -Rounding..Rounding /\ q.duration = p.duration

LEMMA CrossingsMirrored ==
    ASSUME NEW y, NEW z, Opposite(z, y), Numbers(y), NEW span \in Nat,
           \E i \in 1..Grid : y[i] >= SixBelow(y), \E i \in 1..Grid : z[i] >= SixBelow(z)
    PROVE  MirroredPoints(BetweenCrossings(y, span), BetweenCrossings(z, span), span)
<1> DEFINE v == SixBelow(y)
           a == FirstCrossing(y, v) + LastCrossing(y, v)
           b == FirstCrossing(z, v) + LastCrossing(z, v)
           whole == 2 * Grid * Precision
<1>1. Grid \in Nat \ {0} /\ Precision \in Nat \ {0}
  BY GridAssumption
<1>2. Opposite(y, z)
  BY OppositeAgain
<1>3. Numbers(z)
  BY <1>1 DEF Opposite, Numbers, Points
<1>4. v \in Int /\ SixBelow(z) = v
  BY LevelMirrored
<1>5. PICK top \in 1..Grid : y[top] >= v
  OBVIOUS
<1>6. PICK pot \in 1..Grid : z[pot] >= v
  BY <1>4
<1>7. top \in Points /\ pot \in Points
  BY <1>1 DEF Points
<1>8. /\ FirstCrossing(y, v) \in Nat /\ LastCrossing(y, v) \in Nat
      /\ FirstCrossing(z, v) \in Nat /\ LastCrossing(z, v) \in Nat
  BY <1>3, <1>4, <1>5, <1>6, <1>7, FirstOnGrid, LastOnGrid
<1>9. FirstCrossing(z, v) + LastCrossing(y, v) = Grid * Precision
  BY <1>4, CrossingMirrored
<1>10. FirstCrossing(y, v) + LastCrossing(z, v) = Grid * Precision
  BY <1>2, <1>3, <1>4, <1>6, CrossingMirrored
<1>11. a \in Nat /\ b \in Nat /\ a + b = whole
  <2>1. whole = Grid * Precision + Grid * Precision /\ Grid * Precision \in Nat
    BY <1>1
  <2> HIDE DEF whole
  <2> QED BY <1>8, <1>9, <1>10, <2>1
<1>12. whole \in Nat \ {0}
  <2>1. \A p, q \in Nat \ {0} : 2 * p * q \in Nat \ {0}
    OBVIOUS
  <2> QED BY <1>1, <2>1
<1>13. /\ BetweenCrossings(y, span) = PointOf("crossings", (a * span) \div whole, 0)
       /\ BetweenCrossings(z, span) = PointOf("crossings", (b * span) \div whole, 0)
  BY <1>4 DEF BetweenCrossings
<1> HIDE DEF a, b, whole, v
<1>14. a * span \in Int /\ b * span \in Int /\ a * span + b * span = span * whole
  <2>1. (a + b) * span = a * span + b * span /\ a * span \in Int /\ b * span \in Int
    BY <1>11
  <2>2. whole * span = span * whole
    BY <1>12
  <2> QED BY <1>11, <2>1, <2>2
<1> DEFINE p == (a * span) \div whole
           q == (b * span) \div whole
<1>15. p \in Int /\ q \in Int /\ p + q \in (span - 2)..span
  <2> DEFINE x == a * span
             u == b * span
  <2>1. x \in Int /\ u \in Int /\ x + u = span * whole
    BY <1>14
  <2>2. span \in Int
    OBVIOUS
  <2> HIDE DEF x, u
  <2>3. x \div whole \in Int /\ u \div whole \in Int
        /\ x \div whole + u \div whole \in (span - 2)..span
    BY <1>12, <2>1, <2>2, TwoQuotientsMeet, Zenon
  <2> QED BY <2>3 DEF x, u
<1> HIDE DEF p, q
<1>16. p + q - span \in -Rounding..Rounding
  BY <1>15 DEF Rounding
<1> QED BY <1>13, <1>16 DEF MirroredPoints, PointOf, p, q

LEMMA BetweenMirrored ==
    ASSUME NEW by, NEW S \in SUBSET Points, S # {}, NEW T, T = {Grid - k : k \in S},
           NEW span \in Nat
    PROVE  MirroredPoints(BetweenPoints(by, S, span), BetweenPoints(by, T, span), span)
<1> DEFINE lo == Min(S)
           hi == Max(S)
           d == ((hi - lo) * span) \div Grid
           p == (lo * span) \div Grid
           q == ((Grid - hi) * span) \div Grid
           half == d \div 2
<1>1. Grid \in Nat \ {0}
  BY GridAssumption
<1>2. Min(T) = Grid - hi /\ Max(T) = Grid - lo
  BY PointsMirrored
<1>3. lo \in Int /\ hi \in Int
  <2>1. S \in SUBSET (0..Grid) /\ 0 \in Int /\ Grid \in Int
    BY <1>1 DEF Points
  <2>2. lo \in S /\ hi \in S
    BY <2>1, MinMaxOfPoints
  <2> HIDE DEF lo, hi
  <2> QED BY <2>1, <2>2
<1>4. BetweenPoints(by, S, span) = PointOf(by, p + half, d)
  BY DEF BetweenPoints, Between
<1>5. BetweenPoints(by, T, span) =
        PointOf(by, ((Grid - hi) * span) \div Grid
                      + ((((Grid - lo) - (Grid - hi)) * span) \div Grid) \div 2,
                (((Grid - lo) - (Grid - hi)) * span) \div Grid)
  BY <1>2 DEF BetweenPoints, Between
<1> HIDE DEF lo, hi
<1>6. (Grid - lo) - (Grid - hi) = hi - lo
  BY <1>1, <1>3
<1>7. BetweenPoints(by, T, span) = PointOf(by, q + half, d)
  BY <1>5, <1>6
<1>8. p \in Int /\ q \in Int /\ d \in Int /\ p + q + d \in (span - 2)..span
  <2> DEFINE x == lo * span
             u == (Grid - hi) * span
             w == (hi - lo) * span
  <2>1. x \in Int /\ u \in Int /\ w \in Int /\ x + u + w = span * Grid
    <3>1. \A i, j \in Int : (i + j) * span = i * span + j * span /\ i * span \in Int
      OBVIOUS
    <3>2. x \in Int /\ u \in Int /\ w \in Int
      BY <1>1, <1>3, <3>1
    <3>3. x + w = (lo + (hi - lo)) * span
      BY <1>3, <3>1
    <3>4. x + w + u = (lo + (hi - lo) + (Grid - hi)) * span
      BY <1>1, <1>3, <3>1, <3>3
    <3>5. lo + (hi - lo) + (Grid - hi) = Grid
      BY <1>1, <1>3
    <3>6. Grid * span = span * Grid
      BY <1>1
    <3> HIDE DEF x, u, w
    <3> QED BY <3>2, <3>4, <3>5, <3>6
  <2>2. span \in Int
    OBVIOUS
  <2> HIDE DEF x, u, w
  <2>3. /\ x \div Grid \in Int /\ u \div Grid \in Int /\ w \div Grid \in Int
        /\ x \div Grid + u \div Grid + w \div Grid \in (span - 2)..span
    BY <1>1, <2>1, <2>2, QuotientsMeet, Zenon
  <2> QED BY <2>3 DEF x, u, w
<1> HIDE DEF p, q, d
<1>9. half \in Int /\ half + half \in (d - 1)..d
  BY <1>8
<1> HIDE DEF half
<1>10. (p + half) + (q + half) - span \in -Rounding..Rounding
  BY <1>8, <1>9 DEF Rounding
<1> QED BY <1>4, <1>7, <1>10 DEF MirroredPoints, PointOf

\* The detections of the opposite direction are detections of a passing, as long
\* and as strong, the last one first.
LEMMA ReversedRecorded ==
    ASSUME Recorded(detections), detections # <<>>
    PROVE  /\ Recorded(ReversedDetections) /\ ReversedDetections # <<>>
           /\ Len(ReversedDetections) = Len(detections)
           /\ Span(ReversedDetections) = Span(detections)
           /\ \A i \in 1..Len(detections) :
                LET j == Len(detections) + 1 - i
                IN  /\ ReversedDetections[j].rssi = detections[i].rssi
                    /\ Offset(ReversedDetections, j) = Span(detections) - Offset(detections, i)
<1> DEFINE n == Len(detections)
           D == Span(detections)
           rev == ReversedDetections
           R == [timecode : Nat, rssi : Levels]
<1>1. /\ n \in Nat \ {0} /\ D \in Nat
      /\ \A i \in 1..n : Offset(detections, i) \in Nat /\ Offset(detections, i) =< D
      /\ \A i, j \in 1..n : i < j => Offset(detections, i) < Offset(detections, j)
  BY Offsets
<1>2. \A i \in 1..n : detections[i].rssi \in Levels
  <2>1. \A i \in 1..n : detections[i] \in R
    <3>1. detections \in Seq(R)
      BY DEF Recorded
    <3> HIDE DEF R
    <3> QED BY <3>1
  <2> QED BY <2>1
<1>3. \A i \in 1..n : /\ rev[i].timecode = D - Offset(detections, n + 1 - i)
                      /\ rev[i].rssi = detections[n + 1 - i].rssi
  BY DEF ReversedDetections
<1>4. rev = [i \in 1..n |-> [timecode |-> D - Offset(detections, n + 1 - i),
                             rssi |-> detections[n + 1 - i].rssi]]
  BY DEF ReversedDetections
<1>5. \A i \in 1..n : n + 1 - i \in 1..n /\ n + 1 - (n + 1 - i) = i
  BY <1>1
<1>6. \A i \in 1..n : rev[i] \in R
  <2> SUFFICES ASSUME NEW i \in 1..n PROVE rev[i] \in R
    OBVIOUS
  <2>1. D - Offset(detections, n + 1 - i) \in Nat /\ detections[n + 1 - i].rssi \in Levels
    BY <1>1, <1>2, <1>5
  <2> HIDE DEF n, D, rev
  <2> QED BY <1>4, <2>1
<1>7. rev \in Seq(R) /\ Len(rev) = n
  <2>1. rev \in [1..n -> R]
    <3> HIDE DEF R, n
    <3> QED BY <1>4, <1>6
  <2> HIDE DEF rev, R
  <2> QED BY <1>1, <2>1
<1> HIDE DEF rev
<1>8. Offset(detections, n) = D /\ 1 \in 1..n /\ n \in 1..n /\ n + 1 - 1 = n
  BY <1>1 DEF Span
<1> HIDE DEF n, D
<1>9. \A i \in 1..n : Offset(rev, i) = D - Offset(detections, n + 1 - i)
  <2>1. rev[1].timecode = 0
    <3>1. rev[1].timecode = D - Offset(detections, n + 1 - 1)
      BY <1>3, <1>8
    <3>2. Offset(detections, n + 1 - 1) = D
      BY <1>8
    <3> QED BY <1>1, <3>1, <3>2
  <2> SUFFICES ASSUME NEW i \in 1..n
               PROVE  Offset(rev, i) = D - Offset(detections, n + 1 - i)
    OBVIOUS
  <2>2. Offset(rev, i) = rev[i].timecode - 0
    BY <2>1 DEF Offset
  <2>3. rev[i].timecode = D - Offset(detections, n + 1 - i)
    BY <1>3
  <2>4. D - Offset(detections, n + 1 - i) \in Int
    BY <1>1, <1>5
  <2> QED BY <2>2, <2>3, <2>4
<1>10. Offset(detections, 1) = 0
  <2>1. detections[1].timecode \in Nat
    <3>1. detections \in Seq(R) /\ 1 \in 1..Len(detections)
      BY <1>8 DEF Recorded, n
    <3>2. detections[1] \in R
      <4> HIDE DEF R
      <4> QED BY <3>1
    <3> QED BY <3>2
  <2> QED BY <2>1 DEF Offset
<1>11. Span(rev) = D
  <2>1. n + 1 - n = 1
    BY <1>1
  <2>2. Offset(rev, n) = D - 0
    BY <1>8, <1>9, <1>10, <2>1
  <2> QED BY <1>1, <1>7, <2>2 DEF Span
<1>12. \A i, j \in 1..n : i < j => rev[i].timecode < rev[j].timecode
  <2> SUFFICES ASSUME NEW i \in 1..n, NEW j \in 1..n, i < j
               PROVE  rev[i].timecode < rev[j].timecode
    OBVIOUS
  <2>1. n + 1 - j < n + 1 - i
    BY <1>1
  <2>2. Offset(detections, n + 1 - j) < Offset(detections, n + 1 - i)
    BY <1>1, <1>5, <2>1
  <2> QED BY <1>1, <1>3, <1>5, <2>2
<1>13. rev # <<>>
  BY <1>1, <1>7
<1>14. ASSUME NEW i \in 1..n
       PROVE  /\ rev[n + 1 - i].rssi = detections[i].rssi
              /\ Offset(rev, n + 1 - i) = D - Offset(detections, i)
  BY <1>3, <1>5, <1>9
<1> QED BY <1>7, <1>11, <1>12, <1>13, <1>14 DEF Recorded, rev, n, D

LEMMA StrongestReversed ==
    ASSUME Recorded(detections), detections # <<>>
    PROVE  Strongest(ReversedDetections) = Strongest(detections)
<1> DEFINE n == Len(detections)
           rev == ReversedDetections
<1>1. /\ Recorded(rev) /\ rev # <<>> /\ Len(rev) = n
      /\ \A i \in 1..n : rev[n + 1 - i].rssi = detections[i].rssi
  BY ReversedRecorded
<1>2. n \in Nat \ {0} /\ \A i \in 1..n : n + 1 - i \in 1..n /\ n + 1 - (n + 1 - i) = i
  <2>1. n \in Nat \ {0}
    BY Offsets
  <2> QED BY <2>1
<1> HIDE DEF n, rev
<1>3. {rev[i].rssi : i \in 1..n} = {detections[i].rssi : i \in 1..n}
  <2>1. \A i \in 1..n : rev[i].rssi = detections[n + 1 - i].rssi
    BY <1>1, <1>2
  <2> QED BY <1>1, <1>2, <2>1
<1>4. {rev[i].rssi : i \in 1..Len(rev)} = {detections[i].rssi : i \in 1..Len(detections)}
  BY <1>1, <1>3 DEF n
<1> QED BY <1>4 DEF Strongest, rev

\* The same detections are averaged, with the same weights; their offsets are taken
\* from the other end.
LEMMA WeightsReversed ==
    ASSUME Recorded(detections), detections # <<>>
    PROVE  LET m == Len(detections) + 1
               f == Moments(detections)
               h == Weights(detections)
               rev == ReversedDetections
           IN  /\ Near(rev) = {m - i : i \in Near(detections)}
               /\ \A i \in Near(detections) :
                    /\ Weights(rev)[m - i] = h[i]
                    /\ Moments(rev)[m - i] = Span(detections) * h[i] - f[i]
<1> DEFINE n == Len(detections)
           m == n + 1
           D == Span(detections)
           top == Strongest(detections)
           rev == ReversedDetections
<1>1. /\ Recorded(rev) /\ rev # <<>> /\ Len(rev) = n /\ Strongest(rev) = top
      /\ \A i \in 1..n : /\ rev[m - i].rssi = detections[i].rssi
                         /\ Offset(rev, m - i) = D - Offset(detections, i)
  BY ReversedRecorded, StrongestReversed
<1>2. n \in Nat \ {0} /\ D \in Nat /\ \A i \in 1..n : Offset(detections, i) \in Nat
  BY Offsets
<1>3. \A i \in 1..n : m - i \in 1..n /\ m - (m - i) = i
  BY <1>2
<1>4. Near(detections) \in SUBSET (1..n)
  BY WeightedTerms
<1> HIDE DEF n, m, D, top, rev
<1>5. /\ Near(detections) = {i \in 1..n : detections[i].rssi >= top - Below}
      /\ Near(rev) = {i \in 1..n : rev[i].rssi >= top - Below}
  BY <1>1 DEF Near, top, n
<1>6. Near(rev) = {m - i : i \in Near(detections)}
  <2>1. \A i \in 1..n : i \in Near(detections) <=> m - i \in Near(rev)
    BY <1>1, <1>3, <1>5
  <2> QED BY <1>3, <1>5, <2>1
<1>7. ASSUME NEW i \in Near(detections)
      PROVE  /\ Weights(rev)[m - i] = Weights(detections)[i]
             /\ Moments(rev)[m - i] = D * Weights(detections)[i] - Moments(detections)[i]
  <2> DEFINE w == Weights(detections)[i]
             o == Offset(detections, i)
  <2>1. w = Weight[top - detections[i].rssi] /\ w \in Nat \ {0} /\ Moments(detections)[i] = o * w
    BY WeightedTerms DEF top
  <2>2. i \in 1..n /\ m - i \in Near(rev) /\ o \in Nat
    BY <1>2, <1>4, <1>6
  <2>3. /\ Weights(rev)[m - i] = Weight[top - rev[m - i].rssi]
        /\ Moments(rev)[m - i] = Offset(rev, m - i) * Weights(rev)[m - i]
    BY <1>1, <2>2, WeightedTerms
  <2>4. Weights(rev)[m - i] = w
    BY <1>1, <2>1, <2>2, <2>3
  <2>5. Moments(rev)[m - i] = (D - o) * w
    BY <1>1, <2>2, <2>3, <2>4
  <2> HIDE DEF w, o
  <2>6. (D - o) * w = D * w - o * w
    BY <1>2, <2>1, <2>2
  <2> QED BY <2>1, <2>4, <2>5, <2>6 DEF w
<1> QED BY <1>6, <1>7 DEF n, m, D, rev

LEMMA WeightedMirrored ==
    ASSUME Recorded(detections), detections # <<>>
    PROVE  MirroredPoints(WeightedPassing(detections), WeightedPassing(ReversedDetections),
                          Span(detections))
<1> DEFINE near == Near(detections)
           m == Len(detections) + 1
           D == Span(detections)
           f == Moments(detections)
           h == Weights(detections)
           rev == ReversedDetections
           z == Moments(rev)
           v == Weights(rev)
           W == SumFunction(h)
           M == SumFunction(f)
<1>1. Len(detections) \in Nat \ {0} /\ D \in Nat
  BY Offsets
<1>2. /\ near \in SUBSET (1..Len(detections)) /\ IsFiniteSet(near)
      /\ \A i \in near : f[i] \in Int /\ h[i] \in Int
  BY WeightedTerms
<1>3. near \in SUBSET Int /\ m \in Int /\ D \in Int /\ 2 \in Int
  BY <1>1, <1>2
<1>4. DOMAIN f = near /\ DOMAIN h = near /\ DOMAIN z = Near(rev) /\ DOMAIN v = Near(rev)
  BY DEF Moments, Weights
<1>5. /\ Near(rev) = {m - i : i \in near}
      /\ \A i \in near : v[m - i] = h[i] /\ z[m - i] = D * h[i] - f[i]
  BY WeightsReversed
<1>6. /\ W \in Nat \ {0} /\ M \in Nat
      /\ WeightedPassing(detections) = PointOf("weighted", M \div W, 0)
  BY WeightedSums
<1>7. WeightedPassing(rev) = PointOf("weighted", SumFunction(z) \div SumFunction(v), 0)
  <2>1. Recorded(rev) /\ rev # <<>>
    BY ReversedRecorded
  <2> HIDE DEF rev
  <2> QED BY <2>1, WeightedSums
<1> HIDE DEF near, m, D, f, h, z, v, rev
<1>8. SumFunction(z) = D * W - M
  <2>1. DOMAIN z = {m - i : i \in near}
    BY <1>4, <1>5
  <2>2. \A i \in near : f[i] \in Int /\ h[i] \in Int /\ z[m - i] = D * h[i] - f[i]
    BY <1>2, <1>5
  <2>3. Turnaround(near, m, D, f, h, z)
    BY <1>2, <1>3, <1>4, <2>1, <2>2 DEF Turnaround
  <2> QED BY <2>3, SumMirrored
<1>9. SumFunction(v) = 2 * W - W
  <2>1. \A i \in near : v[m - i] = 2 * h[i] - h[i]
    <3>1. \A a \in Int : 2 * a - a = a
      OBVIOUS
    <3> QED BY <1>2, <1>5, <3>1
  <2>2. DOMAIN v = {m - i : i \in near}
    BY <1>4, <1>5
  <2>3. \A i \in near : h[i] \in Int /\ h[i] \in Int /\ v[m - i] = 2 * h[i] - h[i]
    BY <1>2, <2>1
  <2>4. Turnaround(near, m, 2, h, h, v)
    BY <1>2, <1>3, <1>4, <2>2, <2>3 DEF Turnaround
  <2> QED BY <2>4, SumMirrored
<1> HIDE DEF W, M
<1>10. SumFunction(v) = W
  BY <1>6, <1>9
<1> DEFINE u == D * W - M
           p == M \div W
           q == u \div W
<1>11. u \in Int /\ M \in Int /\ M + u = D * W
  <2>1. D * W \in Int
    BY <1>1, <1>6
  <2> QED BY <1>6, <2>1
<1> HIDE DEF u
<1>12. p \in Int /\ q \in Int /\ p + q \in (D - 2)..D
  BY <1>3, <1>6, <1>11, TwoQuotientsMeet, Zenon
<1>13. WeightedPassing(rev) = PointOf("weighted", q, 0)
  BY <1>7, <1>8, <1>10 DEF u
<1> HIDE DEF p, q
<1>14. p + q - D \in -Rounding..Rounding
  BY <1>1, <1>12 DEF Rounding
<1> QED BY <1>6, <1>13, <1>14 DEF MirroredPoints, PointOf, p, rev, D

----------------------------------------------------------------------------
(* The passing in the opposite direction.                                  *)

\* How the point was found: what ruled out the other ways, and what it was
\* computed from, which nobody touches until the deque is erased.
FoundInv ==
    /\ stage = "smoothed" => Cardinality(Dips(y_uniform)) # 3
    /\ stage = "done" =>
         \/ point = WeightedPassing(detections)
         \/ /\ Cardinality(Dips(y_uniform)) = 3
            /\ point = BetweenPoints("dips", Dips(y_uniform), Span(detections))
         \/ /\ Cardinality(Dips(y_uniform)) # 3 /\ Cardinality(Peaks(y_smoothed)) = 2
            /\ point = BetweenPoints("peaks", Peaks(y_smoothed), Span(detections))
         \/ /\ Cardinality(Dips(y_uniform)) # 3 /\ Cardinality(Peaks(y_smoothed)) # 2
            /\ Numbers(y_smoothed)
            /\ point = BetweenCrossings(y_smoothed, Span(detections))

LEMMA InitFoundInv == Init => FoundInv
BY DEF Init, FoundInv

LEMMA NextFoundInv == IInv /\ FoundInv /\ [Next]_vars => FoundInv'
<1> SUFFICES ASSUME IInv, FoundInv, [Next]_vars PROVE FoundInv'
  OBVIOUS
<1>1. ASSUME NEW gap \in Gaps, NEW rssi \in Levels, Detect(gap, rssi) PROVE FoundInv'
  BY <1>1 DEF Detect, FoundInv
<1>2. CASE CreateFew
  BY <1>2 DEF CreateFew, Finish, FoundInv
<1>3. CASE CreateMany
  BY <1>3 DEF CreateMany, FoundInv
<1>4. CASE FindDips
  BY <1>4 DEF FindDips, Finish, FoundInv
<1>5. CASE Smooth
  BY <1>5 DEF Smooth, FoundInv
<1>6. CASE FindTwoPeaks
  BY <1>6 DEF FindTwoPeaks, Finish, FoundInv
<1>7. CASE FindCrossings
  <2>1. Numbers(y_smoothed) /\ Cardinality(Dips(y_uniform)) # 3
    BY <1>7 DEF FindCrossings, IInv, FoundInv
  <2> QED BY <1>7, <2>1 DEF FindCrossings, Finish, FoundInv, Numbers
<1>8. CASE EraseDeque
  BY <1>8 DEF EraseDeque, FoundInv
<1>9. CASE UNCHANGED vars
  BY <1>9 DEF vars, FoundInv, Numbers
<1> QED BY <1>1, <1>2, <1>3, <1>4, <1>5, <1>6, <1>7, <1>8, <1>9 DEF Next

\* The waveforms of the opposite direction.
LEMMA OppositeWaveforms ==
    ASSUME NEW y
    PROVE  Opposite(Reversed(y), y) /\ Opposite(Negated(Reversed(y)), Negated(y))
<1>1. \A k \in Points : Grid - k \in Points
  BY GridAssumption DEF Points
<1> QED BY <1>1 DEF Opposite, Reversed, Negated

\* As many dips, and as many peaks, at mirrored points.
LEMMA DipsMirrored ==
    ASSUME WaveformIsPlain
    PROVE  LET y == Reversed(y_uniform)
           IN  /\ Dips(y_uniform) \in SUBSET Points
               /\ Dips(y) = {Grid - k : k \in Dips(y_uniform)}
               /\ Cardinality(Dips(y)) = Cardinality(Dips(y_uniform))
<1> DEFINE y == Negated(y_uniform)
           z == Negated(Reversed(y_uniform))
<1>1. SeenToEdge(y) /\ SeenToEdge(z)
  BY DEF WaveformIsPlain
<1>2. Opposite(z, y)
  BY OppositeWaveforms
<1> HIDE DEF y, z
<1>3. /\ FindPeaks(y, DipProminence * Fine) \in SUBSET Points
      /\ FindPeaks(z, DipProminence * Fine) =
           {Grid - k : k \in FindPeaks(y, DipProminence * Fine)}
  BY <1>1, <1>2, PeaksMirrored
<1>4. /\ Dips(y_uniform) = FindPeaks(y, DipProminence * Fine)
      /\ Dips(Reversed(y_uniform)) = FindPeaks(z, DipProminence * Fine)
  BY DEF Dips, y, z
<1>5. Cardinality(Dips(Reversed(y_uniform))) = Cardinality(Dips(y_uniform))
  BY <1>3, <1>4, PointsMirrored
<1> QED BY <1>3, <1>4, <1>5

LEMMA WavePeaksMirrored ==
    ASSUME WaveformIsPlain
    PROVE  LET z == Reversed(y_smoothed)
           IN  /\ Peaks(y_smoothed) \in SUBSET Points
               /\ Peaks(z) = {Grid - k : k \in Peaks(y_smoothed)}
               /\ Cardinality(Peaks(z)) = Cardinality(Peaks(y_smoothed))
<1> DEFINE y == y_smoothed
           z == Reversed(y_smoothed)
           prominence == PeakProminence * Fine * Gain
<1>1. SeenToEdge(y) /\ SeenToEdge(z)
  BY DEF WaveformIsPlain, EdgeIsPlain
<1>2. Opposite(z, y)
  BY OppositeWaveforms
<1> HIDE DEF y, z
<1>3. /\ FindPeaks(y, prominence) \in SUBSET Points
      /\ FindPeaks(z, prominence) = {Grid - k : k \in FindPeaks(y, prominence)}
  BY <1>1, <1>2, PeaksMirrored
<1>4. Peaks(y) = FindPeaks(y, prominence) /\ Peaks(z) = FindPeaks(z, prominence)
  BY DEF Peaks
<1>5. Cardinality(Peaks(z)) = Cardinality(Peaks(y))
  BY <1>3, <1>4, PointsMirrored
<1> QED BY <1>3, <1>4, <1>5 DEF y, z

LEMMA MirroredWhenFound == IInv /\ FoundInv => Mirrored
<1> SUFFICES ASSUME IInv, FoundInv, stage = "done", WaveformIsPlain
             PROVE  /\ MirroredPoints(point, ReversedPoint, Span(detections))
                    /\ point.by \in {"dips", "peaks", "crossings"} =>
                         (point.by = "dips" <=> Cardinality(Dips(Reversed(y_uniform))) = 3)
                    /\ point.by \in {"peaks", "crossings"} =>
                         (point.by = "peaks" <=> Cardinality(Peaks(Reversed(y_smoothed))) = 2)
  BY DEF Mirrored, MirroredPoints
<1> DEFINE span == Span(detections)
<1>1. Recorded(detections) /\ detections # <<>> /\ span \in Nat
  <2>1. Recorded(detections) /\ detections # <<>>
    BY DEF IInv
  <2> QED BY <2>1, Offsets
<1>2. /\ Dips(y_uniform) \in SUBSET Points
      /\ Dips(Reversed(y_uniform)) = {Grid - k : k \in Dips(y_uniform)}
      /\ Cardinality(Dips(Reversed(y_uniform))) = Cardinality(Dips(y_uniform))
  BY DipsMirrored
<1>3. /\ Peaks(y_smoothed) \in SUBSET Points
      /\ Peaks(Reversed(y_smoothed)) = {Grid - k : k \in Peaks(y_smoothed)}
      /\ Cardinality(Peaks(Reversed(y_smoothed))) = Cardinality(Peaks(y_smoothed))
  BY WavePeaksMirrored
<1>4. \A S, n : n # 0 /\ Cardinality(S) = n => S # {}
  BY FS_EmptySet
<1>5. CASE point = WeightedPassing(detections)
  <2>1. point.by = "weighted"
    BY <1>5 DEF WeightedPassing, PointOf
  <2>2. ReversedPoint = WeightedPassing(ReversedDetections)
    BY <2>1 DEF ReversedPoint
  <2> QED BY <1>1, <1>5, <2>1, <2>2, WeightedMirrored
<1>6. CASE /\ Cardinality(Dips(y_uniform)) = 3
           /\ point = BetweenPoints("dips", Dips(y_uniform), Span(detections))
  <2>1. point.by = "dips"
    BY <1>6 DEF BetweenPoints, Between, PointOf
  <2>2. ReversedPoint = BetweenPoints("dips", Dips(Reversed(y_uniform)), span)
    BY <2>1 DEF ReversedPoint
  <2>3. Dips(y_uniform) # {}
    BY <1>4, <1>6
  <2>4. MirroredPoints(point, ReversedPoint, span)
    BY <1>1, <1>2, <1>6, <2>2, <2>3, BetweenMirrored
  <2> QED BY <1>2, <1>6, <2>1, <2>4
<1>7. CASE /\ Cardinality(Dips(y_uniform)) # 3 /\ Cardinality(Peaks(y_smoothed)) = 2
           /\ point = BetweenPoints("peaks", Peaks(y_smoothed), Span(detections))
  <2>1. point.by = "peaks"
    BY <1>7 DEF BetweenPoints, Between, PointOf
  <2>2. ReversedPoint = BetweenPoints("peaks", Peaks(Reversed(y_smoothed)), span)
    BY <2>1 DEF ReversedPoint
  <2>3. Peaks(y_smoothed) # {}
    BY <1>4, <1>7
  <2>4. MirroredPoints(point, ReversedPoint, span)
    BY <1>1, <1>3, <1>7, <2>2, <2>3, BetweenMirrored
  <2> QED BY <1>2, <1>3, <1>7, <2>1, <2>4
<1>8. CASE /\ Cardinality(Dips(y_uniform)) # 3 /\ Cardinality(Peaks(y_smoothed)) # 2
           /\ Numbers(y_smoothed)
           /\ point = BetweenCrossings(y_smoothed, Span(detections))
  <2>1. point.by = "crossings"
    BY <1>8 DEF BetweenCrossings, PointOf
  <2>2. ReversedPoint = BetweenCrossings(Reversed(y_smoothed), span)
    BY <2>1 DEF ReversedPoint
  <2>3. /\ \E i \in 1..Grid : y_smoothed[i] >= SixBelow(y_smoothed)
        /\ \E i \in 1..Grid : Reversed(y_smoothed)[i] >= SixBelow(Reversed(y_smoothed))
    BY DEF WaveformIsPlain, EdgeIsPlain
  <2>4. Opposite(Reversed(y_smoothed), y_smoothed)
    BY OppositeWaveforms
  <2>5. MirroredPoints(point, ReversedPoint, span)
    BY <1>1, <1>8, <2>2, <2>3, <2>4, CrossingsMirrored
  <2> QED BY <1>2, <1>3, <1>8, <2>1, <2>5
<1> QED BY <1>5, <1>6, <1>7, <1>8 DEF FoundInv

\* The same passing in the opposite direction gives the mirrored time and the same
\* duration, up to Rounding, and the same of the dips, peaks and crossings decide,
\* whatever the grid, the filter and the scales, unless point 0 of the grid does, which
\* the scan to the left and the search for the last crossing leave out.
THEOREM MirroredCorrect == Spec => []Mirrored
<1>1. Init => IInv /\ FoundInv
  BY InitIInv, InitFoundInv
<1>2. IInv /\ FoundInv /\ [Next]_vars => IInv' /\ FoundInv'
  BY NextIInv, NextFoundInv
<1> QED BY <1>1, <1>2, MirroredWhenFound, PTL DEF Spec
=============================================================================
