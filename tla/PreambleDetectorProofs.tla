---------------------- MODULE PreambleDetectorProofs ----------------------
(* Theorems about PreambleDetector, for preambles of any length and any    *)
(* number of rings, whatever the radio delivers.                           *)
EXTENDS PreambleDetector, FiniteSetTheorems, WellFoundedInduction, TLAPS

\* A ring as its operations leave it: a slot for each symbol, and the oldest of
\* them is one of these.
IsRing(b) == b.phase \in Slots /\ b.buff = [k \in Slots |-> b.buff[k]]

\* The j-th oldest product of a ring.
Oldest(b, j) == b.buff[(b.phase + j - 1) % Window]

RingInv == buffers = [i \in Rings |-> buffers[i]] /\ \A i \in Rings : IsRing(buffers[i])

Inv == RingInv /\ WindowIsStream

LEMMA WindowLemma == Window \in Nat /\ Window > 1
<1>1. Root \in Nat /\ Root > 1
  BY WindowAssumption
<1>2. Root * Root \in Nat /\ Root * Root > Root
  BY <1>1
<1> QED
  BY <1>1, <1>2 DEF Window

\* A number below twice the modulus is reduced by subtracting it once.
LEMMA ModLemma ==
    ASSUME NEW w \in Nat \ {0}, NEW a \in 0..(2 * w - 1)
    PROVE  a % w = IF a < w THEN a ELSE a - w
<1>1. CASE a < w
  BY <1>1
<1>2. CASE a >= w
  BY <1>2
<1> QED
  BY <1>1, <1>2

\* From the slot after p on, the slots come in the order they did from p on, with
\* p the last of them.
LEMMA TurnLemma ==
    ASSUME NEW p \in Slots, NEW j \in 1..Window
    PROVE  /\ Next1(p) \in Slots
           /\ (Next1(p) + j - 1) % Window \in Slots
           /\ j = Window => (Next1(p) + j - 1) % Window = p
           /\ j < Window => /\ (Next1(p) + j - 1) % Window = (p + (j + 1) - 1) % Window
                            /\ (Next1(p) + j - 1) % Window # p
           /\ (Next1(p) + j - 1) % Window = Next1(p) <=> j = 1
<1> DEFINE q == Next1(p)
<1>1. Window \in Nat /\ Window > 1 /\ p \in 0..(Window - 1)
  BY WindowLemma DEF Slots
<1>0. \A a \in 0..(2 * Window - 1) :
        a % Window = IF a < Window THEN a ELSE a - Window
  <2>1. Window \in Nat \ {0}
    BY <1>1
  <2> QED
    BY <2>1, ModLemma
<1>2. q = IF p + 1 < Window THEN p + 1 ELSE 0
  <2> DEFINE a == p + 1
  <2>1. a \in 0..(2 * Window - 1)
    BY <1>1
  <2>2. q = a % Window
    BY DEF Next1
  <2> HIDE DEF a
  <2>3. a % Window = IF a < Window THEN a ELSE a - Window
    BY <1>0, <2>1
  <2> QED
    BY <1>1, <2>2, <2>3 DEF a
<1>3. q \in 0..(Window - 1)
  BY <1>1, <1>2
<1> HIDE DEF q
<1>4. (q + j - 1) % Window = IF q + j - 1 < Window THEN q + j - 1 ELSE q + j - 1 - Window
  <2>1. PICK a \in 0..(2 * Window - 1) : a = q + j - 1
    BY <1>1, <1>3
  <2>2. a % Window = IF a < Window THEN a ELSE a - Window
    BY <1>0
  <2> QED
    BY <1>1, <1>3, <2>1, <2>2
<1>5. (p + (j + 1) - 1) % Window = IF p + j < Window THEN p + j ELSE p + j - Window
  <2>1. PICK a \in 0..(2 * Window - 1) : a = p + j
    BY <1>1
  <2>2. a = p + (j + 1) - 1
    BY <1>1, <2>1
  <2>3. a % Window = IF a < Window THEN a ELSE a - Window
    BY <1>0
  <2> QED
    BY <1>1, <2>1, <2>2, <2>3
<1>6. /\ q \in 0..(Window - 1)
      /\ (q + j - 1) % Window \in 0..(Window - 1)
      /\ j = Window => (q + j - 1) % Window = p
      /\ (q + j - 1) % Window = q <=> j = 1
  BY <1>1, <1>2, <1>3, <1>4
<1>7. j < Window => /\ (q + j - 1) % Window = (p + (j + 1) - 1) % Window
                    /\ (q + j - 1) % Window # p
  BY <1>1, <1>2, <1>3, <1>4, <1>5
<1> QED
  BY <1>6, <1>7 DEF q, Slots

\* push turns the ring by one and puts the new product last.
LEMMA PushLemma ==
    ASSUME NEW b, IsRing(b), NEW z, NEW j \in 1..Window
    PROVE  /\ IsRing(Push(b, z))
           /\ Oldest(Push(b, z), j) = IF j < Window THEN Oldest(b, j + 1) ELSE z
<1> DEFINE c == Push(b, z)
           slot == (Next1(b.phase) + j - 1) % Window
<1>1. b.phase \in Slots /\ b.buff = [k \in Slots |-> b.buff[k]]
  BY DEF IsRing
<1>2. c.phase = Next1(b.phase) /\ c.buff = [b.buff EXCEPT ![b.phase] = z]
  BY DEF Push
<1>3. /\ Next1(b.phase) \in Slots /\ slot \in Slots
      /\ j = Window => slot = b.phase
      /\ j < Window => slot = (b.phase + (j + 1) - 1) % Window /\ slot # b.phase
  BY <1>1, TurnLemma
<1>4. j < Window \/ j = Window
  BY WindowLemma
<1> HIDE DEF c, slot
<1>5. c.buff = [k \in Slots |-> IF k = b.phase THEN z ELSE b.buff[k]]
  BY <1>1, <1>2
<1>6. IsRing(c)
  BY <1>2, <1>3, <1>5 DEF IsRing
<1>7. Oldest(c, j) = IF slot = b.phase THEN z ELSE b.buff[slot]
  BY <1>2, <1>3, <1>5 DEF Oldest, slot
<1>8. CASE j < Window
  <2>1. slot # b.phase /\ Oldest(b, j + 1) = b.buff[slot]
    BY <1>3, <1>8 DEF Oldest
  <2> QED
    BY <1>6, <1>7, <1>8, <2>1 DEF c
<1>9. CASE j = Window
  <2>1. ~(Window < Window)
    BY WindowLemma
  <2> QED
    BY <1>3, <1>6, <1>7, <1>9, <2>1 DEF c
<1> QED
  BY <1>4, <1>8, <1>9

\* clear_next takes away the oldest product of a ring that was just pushed to.
LEMMA ClearLemma ==
    ASSUME NEW b, IsRing(b), NEW p \in Slots, b.phase = Next1(p), NEW j \in 1..Window
    PROVE  /\ IsRing(ClearNext(b))
           /\ Oldest(ClearNext(b), j) = IF j = 1 THEN 0 ELSE Oldest(b, j)
<1> DEFINE c == ClearNext(b)
           slot == (b.phase + j - 1) % Window
<1>1. b.phase \in Slots /\ b.buff = [k \in Slots |-> b.buff[k]]
  BY DEF IsRing
<1>2. c.phase = b.phase /\ c.buff = [b.buff EXCEPT ![b.phase] = 0]
  BY DEF ClearNext
<1>3. slot \in Slots /\ (slot = b.phase <=> j = 1)
  BY TurnLemma
<1> HIDE DEF c, slot
<1>4. c.buff = [k \in Slots |-> IF k = b.phase THEN 0 ELSE b.buff[k]]
  BY <1>1, <1>2
<1>5. IsRing(c)
  BY <1>1, <1>2, <1>4 DEF IsRing
<1>6. Oldest(c, j) = IF slot = b.phase THEN 0 ELSE b.buff[slot]
  BY <1>2, <1>3, <1>4 DEF Oldest, slot
<1> QED
  BY <1>3, <1>5, <1>6 DEF Oldest, slot, c

----------------------------------------------------------------------------
\* What one step does to a ring, whether it is cleared or not.
LEMMA StepLemma ==
    ASSUME Inv, NEW r, Looked(r), NEW i \in Rings, NEW j \in 1..Window
    PROVE  /\ IsRing(Pushed(r)[i])
           /\ Oldest(Pushed(r)[i], j) = recent'[i][j]
           /\ IsRing(ClearNext(Pushed(r)[i]))
           /\ Oldest(ClearNext(Pushed(r)[i]), j) = IF j = 1 THEN 0 ELSE recent'[i][j]
<1> DEFINE b == buffers[i]
           z == Products(r)[i]
<1>1. IsRing(b) /\ Pushed(r)[i] = Push(b, z)
  BY DEF Inv, RingInv, Pushed
<1>2. recent'[i][j] = IF j < Window THEN recent[i][j + 1] ELSE z
  BY DEF Looked, Shifted
<1>3. j < Window => Oldest(b, j + 1) = recent[i][j + 1]
  <2> SUFFICES ASSUME j < Window
               PROVE  Oldest(b, j + 1) = recent[i][j + 1]
    OBVIOUS
  <2>1. j + 1 \in 1..Window /\ j + 1 # 1
    BY WindowLemma
  <2> QED
    BY <2>1 DEF Inv, WindowIsStream, Oldest
<1> HIDE DEF z
<1>4. /\ IsRing(Push(b, z))
      /\ Oldest(Push(b, z), j) = recent'[i][j]
  BY <1>1, <1>2, <1>3, PushLemma
<1>5. b.phase \in Slots /\ Push(b, z).phase = Next1(b.phase)
  BY <1>1 DEF IsRing, Push
<1>6. /\ IsRing(ClearNext(Push(b, z)))
      /\ Oldest(ClearNext(Push(b, z)), j) = IF j = 1 THEN 0 ELSE recent'[i][j]
  BY <1>4, <1>5, ClearLemma
<1> QED
  BY <1>1, <1>4, <1>6

LEMMA InitLemma == Init => Inv
<1> SUFFICES ASSUME Init PROVE Inv
  OBVIOUS
<1>1. 0 \in Slots
  BY WindowLemma DEF Slots
<1>2. \A i \in Rings : buffers[i] = EmptyRing
  BY DEF Init
<1>3. IsRing(EmptyRing)
  BY <1>1 DEF IsRing, EmptyRing
<1>4. RingInv
  BY <1>2, <1>3 DEF Init, RingInv
<1>5. ASSUME NEW i \in Rings, NEW j \in 1..Window
      PROVE  Oldest(EmptyRing, j) = 0 /\ recent[i][j] = 0
  <2>1. 0 + j - 1 \in 0..(Window - 1) /\ Window \in Nat \ {0}
    BY WindowLemma
  <2>2. (0 + j - 1) % Window \in Slots
    BY <2>1 DEF Slots
  <2> QED
    BY <2>2 DEF Init, Oldest, EmptyRing
<1>6. WindowIsStream
  BY <1>2, <1>5 DEF WindowIsStream, Oldest
<1> QED
  BY <1>4, <1>6 DEF Inv

LEMMA FindRC4Lemma ==
    ASSUME Inv, NEW r, NEW signed, FindRC4(r, signed)
    PROVE  Inv'
<1>1. Looked(r) /\ buffers' = Pushed(r) /\ found'.protocol = "RC4"
  BY DEF FindRC4
<1>2. ASSUME NEW i \in Rings, NEW j \in 1..Window
      PROVE  IsRing(buffers'[i]) /\ Oldest(buffers'[i], j) = recent'[i][j]
  BY <1>1, StepLemma
<1>3. RingInv'
  <2>1. 1 \in 1..Window
    BY WindowLemma
  <2>2. buffers' = [i \in Rings |-> buffers'[i]]
    BY <1>1 DEF Pushed
  <2>3. \A i \in Rings : IsRing(buffers'[i])
    BY <1>2, <2>1
  <2> QED
    BY <2>2, <2>3 DEF RingInv, IsRing
<1>4. WindowIsStream'
  BY <1>1, <1>2 DEF WindowIsStream, Oldest, Cleared
<1> QED
  BY <1>3, <1>4 DEF Inv

LEMMA FindOtherLemma ==
    ASSUME Inv, NEW r, NEW signed, FindOther(r, signed)
    PROVE  Inv'
<1> DEFINE best == found'.ring
<1>1. /\ Looked(r) /\ found'.protocol # "RC4"
      /\ buffers' = [Pushed(r) EXCEPT ![best] = ClearNext(Pushed(r)[best])]
  BY DEF FindOther
<1>2. \A i \in Rings :
        buffers'[i] = IF i = best THEN ClearNext(Pushed(r)[i]) ELSE Pushed(r)[i]
  BY <1>1 DEF Pushed
<1>3. buffers' = [i \in Rings |-> buffers'[i]]
  BY <1>1 DEF Pushed
<1>4. \A i \in Rings : Cleared(i)' <=> i = best
  BY <1>1 DEF Cleared
<1> HIDE DEF best
<1>5. ASSUME NEW i \in Rings, NEW j \in 1..Window
      PROVE  /\ IsRing(buffers'[i])
             /\ Oldest(buffers'[i], j) = IF j = 1 /\ i = best THEN 0 ELSE recent'[i][j]
  BY <1>1, <1>2, StepLemma
<1>6. RingInv'
  <2>1. 1 \in 1..Window
    BY WindowLemma
  <2>2. \A i \in Rings : IsRing(buffers'[i])
    BY <1>5, <2>1
  <2> QED
    BY <1>3, <2>2 DEF RingInv, IsRing
<1>7. WindowIsStream'
  BY <1>4, <1>5 DEF WindowIsStream, Oldest
<1> QED
  BY <1>6, <1>7 DEF Inv

\* A ring is never unrolled, and yet, read from its phase on, it always holds the
\* last products of its place in a symbol in the order they came, except for the
\* oldest of the chosen ring, which clear_next took away (CircBuff::push,
\* CircBuff::clear_next and FrameDetector::process_baseband).
THEOREM WindowIsStreamCorrect == Spec => []WindowIsStream
<1>1. Init => Inv
  BY InitLemma
<1>2. Inv /\ [Next]_vars => Inv'
  <2> SUFFICES ASSUME Inv, [Next]_vars PROVE Inv'
    OBVIOUS
  <2>1. CASE Next
    BY <2>1, FindRC4Lemma, FindOtherLemma DEF Next
  <2>2. CASE UNCHANGED vars
    BY <2>2 DEF vars, Inv, RingInv, IsRing, WindowIsStream, Cleared
  <2> QED
    BY <2>1, <2>2
<1>3. Inv => WindowIsStream
  BY DEF Inv
<1> QED
  BY <1>1, <1>2, <1>3, PTL DEF Spec

----------------------------------------------------------------------------
(* Minima and maxima, and induction: a set of natural numbers that is not  *)
(* empty has a least element.                                              *)

Smaller == {p \in Nat \X Nat : p[1] < p[2]}

LEMMA SmallerWellFounded == IsWellFoundedOn(Smaller, Nat)
BY NatLessThanWellFounded, Zenon DEF OpToRel, Smaller

LEMMA LeastNatural ==
    ASSUME NEW T \in SUBSET Nat, T # {}
    PROVE  \E m \in T : \A n \in T : m =< n
<1>1. PICK m \in T : \A n \in T : ~(<<n, m>> \in Smaller)
  BY SmallerWellFounded, WFMin
<1>2. ASSUME NEW n \in T PROVE m =< n
  <2>1. m \in Nat /\ n \in Nat /\ ~(<<n, m>> \in Smaller)
    BY <1>1
  <2>2. ~(n < m)
    BY <2>1 DEF Smaller
  <2> QED BY <2>1, <2>2
<1> QED BY <1>2

\* Induction over a finite set: what holds of {}, and of every set of which it
\* holds when any element is taken away, holds of the set.
LEMMA TakeAway ==
    ASSUME NEW S, IsFiniteSet(S), NEW Q, {} \in Q,
           \A s \in SUBSET S : s # {} /\ (\A x \in s : s \ {x} \in Q) => s \in Q
    PROVE  S \in Q
<1> DEFINE Bad == {k \in Nat : \E s \in SUBSET S : Cardinality(s) = k /\ s \notin Q}
<1>1. Bad = {}
  <2> SUFFICES ASSUME Bad # {} PROVE FALSE
    OBVIOUS
  <2>1. PICK k \in Bad : \A j \in Bad : k =< j
    BY LeastNatural
  <2>2. PICK s \in SUBSET S : Cardinality(s) = k /\ s \notin Q
    BY <2>1
  <2>3. PICK x \in s : s \ {x} \notin Q
    BY <2>2
  <2>4. IsFiniteSet(s \ {x}) /\ Cardinality(s \ {x}) = k - 1 /\ s \ {x} \in SUBSET S
    BY <2>2, <2>3, FS_Subset, FS_RemoveElement
  <2>5. k - 1 \in Nat
    BY <2>4, FS_CardinalityType
  <2> QED BY <2>1, <2>3, <2>4, <2>5
<1> QED BY <1>1, FS_CardinalityType

----------------------------------------------------------------------------
(* Sums over the domain of a function.                                     *)

\* The partial sums, by the set that is summed: SumFunction's recursion.
Sums(g, f, S) ==
    g = [s \in SUBSET S |->
           IF s = {} THEN 0
           ELSE f[CHOOSE x \in s : TRUE] + g[s \ {CHOOSE x \in s : TRUE}]]

\* There are such partial sums, over a finite set.
LEMMA SumsExist ==
    ASSUME NEW S, IsFiniteSet(S), NEW f
    PROVE  \E g : Sums(g, f, S)
<1> DEFINE c(s) == CHOOSE x \in s : TRUE
           Dom(n) == {s \in SUBSET S : Cardinality(s) =< n}
           Step(g, n) == g = [s \in Dom(n) |->
                                IF s = {} THEN 0 ELSE f[c(s)] + g[s \ {c(s)}]]
           Bad == {n \in Nat : ~\E g : Step(g, n)}
<1>1. \A s \in SUBSET S : IsFiniteSet(s) /\ Cardinality(s) \in Nat
                          /\ Cardinality(s) =< Cardinality(S)
  BY FS_Subset, FS_CardinalityType
<1>2. \A s \in SUBSET S : s # {} =>
        c(s) \in s /\ Cardinality(s \ {c(s)}) = Cardinality(s) - 1 /\ s \ {c(s)} \in SUBSET S
  <2>1. \A s \in SUBSET S : s # {} => c(s) \in s
    OBVIOUS
  <2> QED BY <1>1, <2>1, FS_RemoveElement
<1>3. \A s \in SUBSET S : Cardinality(s) = 0 <=> s = {}
  BY <1>1, FS_EmptySet
<1> HIDE DEF c
<1>4. Bad = {}
  <2> SUFFICES ASSUME Bad # {} PROVE FALSE
    OBVIOUS
  <2>1. PICK m \in Bad : \A n \in Bad : m =< n
    <3> HIDE DEF Step
    <3> QED BY LeastNatural
  <2>2. m \in Nat /\ ~\E g : Step(g, m)
    <3> HIDE DEF Step
    <3> QED BY <2>1
  <2>3. m # 0
    <3>1. Step([s \in Dom(0) |-> 0], 0)
      <4>1. \A s \in Dom(0) : s = {}
        BY <1>1, <1>3
      <4> QED BY <4>1
    <3> HIDE DEF Step
    <3> QED BY <2>2, <3>1
  <2>4. PICK g : Step(g, m - 1)
    <3> HIDE DEF Step
    <3>1. m - 1 \in Nat /\ ~(m =< m - 1)
      BY <2>2, <2>3
    <3> QED BY <2>1, <3>1
  <2> DEFINE h == [s \in Dom(m) |-> IF s = {} THEN 0 ELSE f[c(s)] + g[s \ {c(s)}]]
  <2>5. \A s \in Dom(m - 1) : s \in Dom(m)
    BY <1>1, <2>2
  <2>6. \A s \in Dom(m - 1) : h[s] = g[s]
    BY <2>4, <2>5
  <2>7. \A s \in Dom(m) : s # {} => s \ {c(s)} \in Dom(m - 1)
    BY <1>1, <1>2, <2>2
  <2>8. \A s \in Dom(m) : s # {} => h[s \ {c(s)}] = g[s \ {c(s)}]
    BY <2>6, <2>7
  <2>9. Step(h, m)
    <3> DEFINE k == [s \in Dom(m) |-> IF s = {} THEN 0 ELSE f[c(s)] + h[s \ {c(s)}]]
    <3>1. \A s \in Dom(m) : h[s] = k[s]
      BY <2>8
    <3> QED BY <3>1
  <2> HIDE DEF Step, h
  <2> QED BY <2>2, <2>9
<1>5. PICK g : Step(g, Cardinality(S))
  BY <1>1, <1>4
<1>6. Dom(Cardinality(S)) = SUBSET S
  BY <1>1
<1>7. Sums(g, f, S)
  BY <1>5, <1>6 DEF Sums, c
<1> QED BY <1>7

\* What SumFunction is: the last of the partial sums.
LEMMA SumFunctionIs ==
    ASSUME NEW S, IsFiniteSet(S), NEW f, DOMAIN f = S
    PROVE  \E g : Sums(g, f, S) /\ SumFunction(f) = g[S]
<1> DEFINE g == CHOOSE g : Sums(g, f, S)
<1>1. Sums(g, f, S)
  BY SumsExist
<1>2. SumFunction(f) = g[S]
  BY DEF SumFunction, SumFunctionOnSet, FoldFunctionOnSet, MapThenFoldSet, Sums
<1> QED BY <1>1, <1>2

\* A sum of integers is one.
LEMMA SumOfIntegers ==
    ASSUME NEW S, IsFiniteSet(S), NEW f, DOMAIN f = S, \A x \in S : f[x] \in Int
    PROVE  SumFunction(f) \in Int
<1>1. PICK g : Sums(g, f, S) /\ SumFunction(f) = g[S]
  BY SumFunctionIs
<1> DEFINE c(s) == CHOOSE x \in s : TRUE
           Q == {s \in SUBSET S : g[s] \in Int}
<1>2. \A s \in SUBSET S : g[s] = IF s = {} THEN 0 ELSE f[c(s)] + g[s \ {c(s)}]
  BY <1>1 DEF Sums
<1>3. \A s \in SUBSET S : s # {} => c(s) \in s
  OBVIOUS
<1> HIDE DEF c
<1>4. {} \in Q
  BY <1>2
<1>5. ASSUME NEW s \in SUBSET S, s # {}, \A x \in s : s \ {x} \in Q PROVE s \in Q
  <2>1. c(s) \in s /\ s \ {c(s)} \in Q /\ f[c(s)] \in Int
    BY <1>3, <1>5
  <2> QED BY <1>2, <1>5, <2>1
<1> HIDE DEF Q
<1>6. S \in Q
  BY <1>4, <1>5, TakeAway
<1> QED BY <1>1, <1>6 DEF Q


\* Taking elements away one at a time gives the sum, in any order.
InAnyOrder(g, f, S) ==
    \A s \in SUBSET S : g[s] \in Int /\ \A x \in s : g[s] = f[x] + g[s \ {x}]

LEMMA PartialSums ==
    ASSUME NEW S, IsFiniteSet(S), NEW f, \A x \in S : f[x] \in Int, NEW g, Sums(g, f, S)
    PROVE  InAnyOrder(g, f, S)
<1> DEFINE c(s) == CHOOSE x \in s : TRUE
           Good(s) == g[s] \in Int /\ \A x \in s : g[s] = f[x] + g[s \ {x}]
           All(s) == \A u \in SUBSET s : Good(u)
           Q == {s \in SUBSET S : All(s)}
<1>1. \A s \in SUBSET S : g[s] = IF s = {} THEN 0 ELSE f[c(s)] + g[s \ {c(s)}]
  BY DEF Sums
<1>2. \A s \in SUBSET S : s # {} => c(s) \in s
  OBVIOUS
<1> HIDE DEF c
<1>3. {} \in Q
  <2>1. g[{}] = 0 /\ \A u \in SUBSET {} : u = {}
    BY <1>1
  <2>2. Good({})
    BY <2>1
  <2> HIDE DEF Good
  <2> QED BY <2>1, <2>2
<1>4. ASSUME NEW s \in SUBSET S, s # {}, \A x \in s : s \ {x} \in Q PROVE s \in Q
  <2> DEFINE e == c(s)
  <2>1. e \in s /\ e \in S
    BY <1>2, <1>4
  <2>2. \A x \in s : All(s \ {x})
    BY <1>4
  <2>3. g[s] = f[e] + g[s \ {e}]
    BY <1>1, <1>4
  <2> HIDE DEF e
  <2>4. \A x \in s : g[s \ {x}] \in Int /\ \A y \in s \ {x} : g[s \ {x}] = f[y] + g[(s \ {x}) \ {y}]
    BY <2>2
  <2>5. g[s] \in Int
    <3>1. g[s \ {e}] \in Int /\ f[e] \in Int
      BY <2>1, <2>4
    <3> QED BY <2>3, <3>1
  <2>6. ASSUME NEW x \in s PROVE g[s] = f[x] + g[s \ {x}]
    <3>1. CASE x = e
      BY <2>3, <3>1
    <3>2. CASE x # e
      <4> DEFINE u == s \ {x, e}
      <4>1. (s \ {x}) \ {e} = u /\ (s \ {e}) \ {x} = u
        OBVIOUS
      <4>2. x \in s \ {e} /\ e \in s \ {x}
        BY <2>1, <3>2
      <4>3. g[s \ {e}] = f[x] + g[u] /\ g[s \ {x}] = f[e] + g[u]
        BY <2>1, <2>4, <4>1, <4>2
      <4>4. g[u] \in Int
        <5>1. u \in SUBSET (s \ {x})
          OBVIOUS
        <5> QED BY <2>2, <5>1
      <4>5. f[x] \in Int /\ f[e] \in Int
        BY <2>1
      <4> QED BY <2>3, <4>3, <4>4, <4>5
    <3> QED BY <3>1, <3>2
  <2>7. ASSUME NEW u \in SUBSET s PROVE Good(u)
    <3>1. CASE u = s
      BY <2>5, <2>6, <3>1
    <3>2. CASE u # s
      <4>1. PICK x \in s : u \in SUBSET (s \ {x})
        BY <3>2
      <4> QED BY <2>2, <4>1
    <3> QED BY <3>1, <3>2
  <2> QED BY <2>7
<1> HIDE DEF Q
<1>5. S \in Q
  BY <1>3, <1>4, TakeAway
<1> QED BY <1>5 DEF Q, InAnyOrder

\* A sum is any one of its terms and the sum of the others.
LEMMA SumTake ==
    ASSUME NEW S, IsFiniteSet(S), NEW f, DOMAIN f = S, \A y \in S : f[y] \in Int, NEW x \in S
    PROVE  /\ SumFunction(f) = f[x] + SumFunction(Restrict(f, S \ {x}))
           /\ SumFunction(f) \in Int /\ SumFunction(Restrict(f, S \ {x})) \in Int
<1> DEFINE T == S \ {x}
           h == Restrict(f, T)
<1>1. PICK g : Sums(g, f, S) /\ SumFunction(f) = g[S]
  BY SumFunctionIs
<1>2. /\ IsFiniteSet(T) /\ T \in SUBSET S
      /\ DOMAIN h = T /\ \A y \in T : h[y] = f[y]
  BY FS_Subset DEF Restrict
<1> HIDE DEF h
<1>3. PICK k : Sums(k, h, T) /\ SumFunction(h) = k[T]
  BY <1>2, SumFunctionIs
<1>4. g[S] = f[x] + g[T] /\ g[S] \in Int /\ g[T] \in Int
  <2>1. InAnyOrder(g, f, S)
    BY <1>1, PartialSums
  <2> QED BY <1>2, <2>1 DEF InAnyOrder
<1> HIDE DEF T
<1>5. k[T] = g[T]
  <2> DEFINE c(s) == CHOOSE y \in s : TRUE
             Q == {s \in SUBSET T : k[s] = g[s]}
  <2>1. \A s \in SUBSET T : s # {} => c(s) \in s
    OBVIOUS
  <2>2. \A s \in SUBSET T : k[s] = IF s = {} THEN 0 ELSE h[c(s)] + k[s \ {c(s)}]
    BY <1>3 DEF Sums
  <2>3. \A s \in SUBSET T : g[s] = IF s = {} THEN 0 ELSE f[c(s)] + g[s \ {c(s)}]
    BY <1>1, <1>2 DEF Sums
  <2> HIDE DEF c
  <2>4. {} \in Q
    BY <2>2, <2>3
  <2>5. ASSUME NEW s \in SUBSET T, s # {}, \A y \in s : s \ {y} \in Q PROVE s \in Q
    <3>1. c(s) \in s /\ h[c(s)] = f[c(s)]
      BY <1>2, <2>1, <2>5
    <3>2. k[s \ {c(s)}] = g[s \ {c(s)}]
      BY <2>5, <3>1
    <3> QED BY <2>2, <2>3, <2>5, <3>1, <3>2
  <2> HIDE DEF Q
  <2>6. T \in Q
    BY <1>2, <2>4, <2>5, TakeAway
  <2> QED BY <2>6 DEF Q
<1> QED BY <1>1, <1>3, <1>4, <1>5 DEF h, T

LEMMA SumOfNone == ASSUME NEW f, DOMAIN f = {} PROVE SumFunction(f) = 0
<1>1. PICK g : Sums(g, f, {}) /\ SumFunction(f) = g[{}]
  BY FS_EmptySet, SumFunctionIs
<1> QED BY <1>1 DEF Sums

\* One term changes.
LEMMA SumUpdate ==
    ASSUME NEW S, IsFiniteSet(S), NEW f \in [S -> Int], NEW x \in S, NEW v \in Int
    PROVE  SumFunction([f EXCEPT ![x] = v]) = SumFunction(f) - f[x] + v
<1> DEFINE h == [f EXCEPT ![x] = v]
<1>1. DOMAIN f = S /\ DOMAIN h = S /\ h[x] = v /\ \A y \in S : h[y] \in Int /\ f[y] \in Int
  OBVIOUS
<1>2. Restrict(h, S \ {x}) = Restrict(f, S \ {x})
  BY DEF Restrict
<1> HIDE DEF h
<1>3. /\ SumFunction(f) = f[x] + SumFunction(Restrict(f, S \ {x}))
      /\ SumFunction(Restrict(f, S \ {x})) \in Int
  BY <1>1, SumTake
<1>4. SumFunction(h) = h[x] + SumFunction(Restrict(h, S \ {x}))
  BY <1>1, SumTake
<1>5. f[x] \in Int
  BY <1>1
<1> QED BY <1>1, <1>2, <1>3, <1>4, <1>5 DEF h

\* What holds of the sum of nothing, and of a sum with one more term when it holds
\* without, holds of the sum; R is a set of terms each with their sum.
LEMMA SumInduction ==
    ASSUME NEW S, IsFiniteSet(S), NEW f, DOMAIN f = S, \A x \in S : f[x] \in Int,
           NEW R, <<{}, 0>> \in R,
           \A s \in SUBSET S, n \in Int : \A x \in s :
             <<s \ {x}, n>> \in R => <<s, f[x] + n>> \in R
    PROVE  <<S, SumFunction(f)>> \in R
<1>1. PICK g : Sums(g, f, S) /\ SumFunction(f) = g[S]
  BY SumFunctionIs
<1>2. \A s \in SUBSET S : g[s] \in Int /\ \A x \in s : g[s] = f[x] + g[s \ {x}]
  <2>1. InAnyOrder(g, f, S)
    BY <1>1, PartialSums
  <2> QED BY <2>1 DEF InAnyOrder
<1>3. g[{}] = 0
  BY <1>1 DEF Sums
<1> DEFINE Q == {s \in SUBSET S : <<s, g[s]>> \in R}
<1>4. {} \in Q
  BY <1>3
<1>5. ASSUME NEW s \in SUBSET S, s # {}, \A x \in s : s \ {x} \in Q PROVE s \in Q
  <2>1. PICK x \in s : TRUE
    BY <1>5
  <2>2. <<s \ {x}, g[s \ {x}]>> \in R
    BY <1>5, <2>1
  <2>3. g[s] = f[x] + g[s \ {x}]
    BY <1>2, <2>1
  <2>4. g[s \ {x}] \in Int
    <3>1. s \ {x} \in SUBSET S
      OBVIOUS
    <3> QED BY <1>2, <3>1
  <2> DEFINE n == g[s \ {x}]
  <2>5. n \in Int /\ <<s \ {x}, n>> \in R /\ g[s] = f[x] + n
    BY <2>2, <2>3, <2>4
  <2> HIDE DEF n
  <2>6. <<s, f[x] + n>> \in R
    BY <2>1, <2>5
  <2> QED BY <2>5, <2>6
<1> HIDE DEF Q
<1>6. S \in Q
  BY <1>4, <1>5, TakeAway
<1> QED BY <1>1, <1>6 DEF Q

\* Terms that are all the same.
LEMMA SumOfSame ==
    ASSUME NEW S, IsFiniteSet(S), NEW a \in Int, NEW f, DOMAIN f = S, \A x \in S : f[x] = a
    PROVE  SumFunction(f) = a * Cardinality(S)
<1> DEFINE R == {r \in (SUBSET S) \X Int : r[2] = a * Cardinality(r[1])}
<1>0. \A s \in SUBSET S, n \in Int : <<s, n>> \in R <=> n = a * Cardinality(s)
  OBVIOUS
<1> HIDE DEF R
<1>1. <<{}, 0>> \in R
  <2>1. Cardinality({}) = 0 /\ a * 0 = 0 /\ {} \in SUBSET S
    BY FS_EmptySet
  <2> QED BY <1>0, <2>1
<1>2. \A s \in SUBSET S, n \in Int : \A x \in s :
        <<s \ {x}, n>> \in R => <<s, f[x] + n>> \in R
  <2> SUFFICES ASSUME NEW s \in SUBSET S, NEW n \in Int, NEW x \in s, <<s \ {x}, n>> \in R
               PROVE  <<s, f[x] + n>> \in R
    OBVIOUS
  <2> DEFINE m == Cardinality(s)
  <2>1. IsFiniteSet(s) /\ m \in Nat /\ Cardinality(s \ {x}) = m - 1
    BY FS_Subset, FS_CardinalityType, FS_RemoveElement
  <2>2. n = a * (m - 1) /\ f[x] = a
    <3>1. s \ {x} \in SUBSET S
      OBVIOUS
    <3> QED BY <1>0, <2>1, <3>1
  <2> HIDE DEF m
  <2>3. \A k \in Nat : a + a * (k - 1) = a * k
    OBVIOUS
  <2>4. f[x] + n = a * m
    BY <2>1, <2>2, <2>3
  <2>5. f[x] + n \in Int
    BY <2>2
  <2> QED BY <1>0, <2>4, <2>5 DEF m
<1>4. \A x \in S : f[x] \in Int
  OBVIOUS
<1>3. <<S, SumFunction(f)>> \in R
  BY <1>1, <1>2, <1>4, SumInduction
<1>5. SumFunction(f) \in Int
  BY <1>4, SumOfIntegers
<1> QED BY <1>0, <1>3, <1>5

\* Terms that are none of them negative.
LEMMA SumOfNaturals ==
    ASSUME NEW S, IsFiniteSet(S), NEW f, DOMAIN f = S, \A x \in S : f[x] \in Nat
    PROVE  SumFunction(f) \in Nat
<1> DEFINE R == (SUBSET S) \X Nat
<1>1. <<{}, 0>> \in R
  OBVIOUS
<1>2. \A s \in SUBSET S, n \in Int : \A x \in s : <<s \ {x}, n>> \in R => <<s, f[x] + n>> \in R
  OBVIOUS
<1> HIDE DEF R
<1>3. <<S, SumFunction(f)>> \in R
  BY <1>1, <1>2, SumInduction
<1> QED BY <1>3 DEF R

\* Terms that are all multiplied by one number.
LEMMA SumScaled ==
    ASSUME NEW S, IsFiniteSet(S), NEW a \in Int, NEW f \in [S -> Int]
    PROVE  SumFunction(f) \in Int /\ SumFunction([x \in S |-> a * f[x]]) = a * SumFunction(f)
<1> DEFINE h == [x \in S |-> a * f[x]]
<1>9. /\ DOMAIN f = S /\ DOMAIN h = S
      /\ \A x \in S : f[x] \in Int /\ h[x] = a * f[x]
  OBVIOUS
<1> HIDE DEF h
<1>1. PICK g : Sums(g, h, S) /\ SumFunction(h) = g[S]
  BY <1>9, SumFunctionIs
<1>2. \A x \in S : h[x] \in Int
  BY <1>9
<1>3. \A s \in SUBSET S : g[s] \in Int /\ \A x \in s : g[s] = h[x] + g[s \ {x}]
  <2>1. InAnyOrder(g, h, S)
    BY <1>1, <1>2, PartialSums
  <2> QED BY <2>1 DEF InAnyOrder
<1> DEFINE R == {r \in (SUBSET S) \X Int : g[r[1]] = a * r[2]}
<1>0. \A s \in SUBSET S, n \in Int : <<s, n>> \in R <=> g[s] = a * n
  OBVIOUS
<1> HIDE DEF R
<1>4. <<{}, 0>> \in R
  <2>1. g[{}] = 0 /\ a * 0 = 0 /\ {} \in SUBSET S
    BY <1>1 DEF Sums
  <2>2. 0 \in Int /\ g[{}] = a * 0
    BY <2>1
  <2>3. {} \in SUBSET S
    OBVIOUS
  <2> QED BY <1>0, <2>2, <2>3
<1>5. \A s \in SUBSET S, n \in Int : \A x \in s :
        <<s \ {x}, n>> \in R => <<s, f[x] + n>> \in R
  <2> SUFFICES ASSUME NEW s \in SUBSET S, NEW n \in Int, NEW x \in s, <<s \ {x}, n>> \in R
               PROVE  <<s, f[x] + n>> \in R
    OBVIOUS
  <2>1. g[s] = h[x] + g[s \ {x}] /\ g[s \ {x}] = a * n
    <3>1. s \ {x} \in SUBSET S
      OBVIOUS
    <3> QED BY <1>0, <1>3, <3>1
  <2>2. f[x] \in Int /\ h[x] = a * f[x]
    BY <1>9
  <2>3. \A k \in Int : a * k + a * n = a * (k + n)
    OBVIOUS
  <2>4. g[s] = a * (f[x] + n)
    BY <2>1, <2>2, <2>3
  <2>5. f[x] + n \in Int
    BY <2>2
  <2> QED BY <1>0, <2>4, <2>5
<1>7. \A x \in S : f[x] \in Int
  OBVIOUS
<1>6. <<S, SumFunction(f)>> \in R
  BY <1>4, <1>5, <1>7, SumInduction
<1>8. SumFunction(f) \in Int
  BY <1>7, <1>9, SumOfIntegers
<1> QED BY <1>0, <1>1, <1>6, <1>8 DEF h

\* The same terms, numbered in another way by p.
LEMMA SumRenumbered ==
    ASSUME NEW S, IsFiniteSet(S), NEW T, NEW p \in Bijection(S, T), NEW f \in [T -> Int]
    PROVE  SumFunction([x \in S |-> f[p[x]]]) = SumFunction(f)
<1> DEFINE Image(s) == {p[x] : x \in s}
           h == [x \in S |-> f[p[x]]]
<1>12. /\ p \in [S -> T] /\ \A x, y \in S : p[x] = p[y] => x = y
      /\ \A y \in T : \E x \in S : p[x] = y
      /\ p \in Surjection(S, T)
  BY DEF Bijection, Injection, IsInjective, Surjection
<1>13. DOMAIN h = S /\ DOMAIN f = T /\ \A x \in S : h[x] = f[p[x]] /\ h[x] \in Int
  BY <1>12
<1> HIDE DEF h
<1>1. Image(S) = T /\ \A s \in SUBSET S : Image(s) \in SUBSET T
  BY <1>12
<1>2. IsFiniteSet(T)
  BY <1>12, FS_Surjection
<1>3. PICK g : Sums(g, f, T) /\ SumFunction(f) = g[T]
  BY <1>2, <1>13, SumFunctionIs
<1>4. \A s \in SUBSET T : g[s] \in Int /\ \A y \in s : g[s] = f[y] + g[s \ {y}]
  <2>1. InAnyOrder(g, f, T)
    BY <1>2, <1>3, PartialSums
  <2> QED BY <2>1 DEF InAnyOrder
<1>5. \A s \in SUBSET S : \A x \in s : p[x] \in Image(s) /\ Image(s \ {x}) = Image(s) \ {p[x]}
  BY <1>12
<1>6. Image({}) = {}
  OBVIOUS
<1> HIDE DEF Image
<1> DEFINE R == {r \in (SUBSET S) \X Int : r[2] = g[Image(r[1])]}
<1>0. \A s \in SUBSET S, n \in Int : <<s, n>> \in R <=> n = g[Image(s)]
  OBVIOUS
<1> HIDE DEF R
<1>7. <<{}, 0>> \in R
  <2>1. g[{}] = 0 /\ {} \in SUBSET S
    BY <1>3 DEF Sums
  <2> QED BY <1>0, <1>6, <2>1
<1>8. \A s \in SUBSET S, n \in Int : \A x \in s :
        <<s \ {x}, n>> \in R => <<s, h[x] + n>> \in R
  <2> SUFFICES ASSUME NEW s \in SUBSET S, NEW n \in Int, NEW x \in s, <<s \ {x}, n>> \in R
               PROVE  <<s, h[x] + n>> \in R
    OBVIOUS
  <2>1. n = g[Image(s \ {x})]
    <3>1. s \ {x} \in SUBSET S
      OBVIOUS
    <3> QED BY <1>0, <3>1
  <2>2. g[Image(s)] = f[p[x]] + g[Image(s) \ {p[x]}]
    BY <1>1, <1>4, <1>5
  <2>3. h[x] = f[p[x]] /\ f[p[x]] \in Int
    BY <1>13
  <2>4. g[Image(s)] = h[x] + n
    BY <1>5, <2>1, <2>2, <2>3
  <2>5. h[x] + n \in Int
    BY <2>3
  <2> QED BY <1>0, <2>4, <2>5
<1>9. DOMAIN h = S /\ \A x \in S : h[x] \in Int
  BY <1>13
<1>10. <<S, SumFunction(h)>> \in R
  BY <1>7, <1>8, <1>9, SumInduction
<1>11. SumFunction(h) \in Int
  BY <1>9, SumOfIntegers
<1> QED BY <1>0, <1>1, <1>3, <1>10, <1>11 DEF h
----------------------------------------------------------------------------
(* The sums of a ring are the sums of the last products.                   *)

LEMMA WindowFinite ==
    /\ IsFiniteSet(Slots) /\ IsFiniteSet(1..Window) /\ IsFiniteSet(2..Window)
    /\ Cardinality(1..Window) = Window /\ Cardinality(2..Window) = Window - 1
    /\ (1..Window) \ {1} = 2..Window /\ 1 \in 1..Window
<1>1. Window \in Int /\ Window - 1 \in Int /\ Window > 1
  BY WindowLemma
<1>2. IsFiniteSet(0..(Window - 1)) /\ IsFiniteSet(1..Window) /\ IsFiniteSet(2..Window)
  BY <1>1, FS_Interval
<1>3. Cardinality(1..Window) = Window
  <2>1. Cardinality(1..Window) = IF 1 > Window THEN 0 ELSE Window - 1 + 1
    BY <1>1, FS_Interval
  <2> QED BY <1>1, <2>1
<1>4. Cardinality(2..Window) = Window - 1
  <2>1. Cardinality(2..Window) = IF 2 > Window THEN 0 ELSE Window - 2 + 1
    BY <1>1, FS_Interval
  <2> QED BY <1>1, <2>1
<1>5. (1..Window) \ {1} = 2..Window /\ 1 \in 1..Window
  BY <1>1
<1> QED BY <1>2, <1>3, <1>4, <1>5 DEF Slots

\* Where the j-th oldest product of a ring is.
Place(p) == [j \in 1..Window |-> (p + j - 1) % Window]

LEMMA PlaceLemma ==
    ASSUME NEW p \in Slots
    PROVE  /\ Place(p) \in Bijection(1..Window, Slots)
           /\ \A j \in 1..Window : ((Place(p)[j] - p) % Window) + 1 = j
<1>1. Window \in Nat /\ Window > 1 /\ p \in 0..(Window - 1)
  BY WindowLemma DEF Slots
<1>2. \A a \in 0..(2 * Window - 1) :
        a % Window = IF a < Window THEN a ELSE a - Window
  <2>1. Window \in Nat \ {0}
    BY <1>1
  <2> QED BY <2>1, ModLemma
<1>3. \A j \in 1..Window :
        Place(p)[j] = IF p + j - 1 < Window THEN p + j - 1 ELSE p + j - 1 - Window
  <2> SUFFICES ASSUME NEW j \in 1..Window
               PROVE  Place(p)[j] = IF p + j - 1 < Window THEN p + j - 1 ELSE p + j - 1 - Window
    OBVIOUS
  <2>1. PICK a \in 0..(2 * Window - 1) : a = p + j - 1
    BY <1>1
  <2>2. Place(p)[j] = a % Window
    BY <2>1 DEF Place
  <2>3. a % Window = IF a < Window THEN a ELSE a - Window
    BY <1>2
  <2> QED BY <1>1, <2>1, <2>2, <2>3
<1>4. Place(p) = [j \in 1..Window |-> Place(p)[j]]
  BY DEF Place
<1>5. \A j \in 1..Window : Place(p)[j] \in 0..(Window - 1)
  BY <1>1, <1>3
<1>6. \A i, j \in 1..Window : Place(p)[i] = Place(p)[j] => i = j
  BY <1>1, <1>3
<1>7. ASSUME NEW k \in 0..(Window - 1) PROVE \E j \in 1..Window : Place(p)[j] = k
  <2>1. CASE k >= p
    <3>1. k - p + 1 \in 1..Window /\ p + (k - p + 1) - 1 = k /\ k < Window
      BY <1>1, <2>1
    <3> QED BY <1>3, <3>1
  <2>2. CASE k < p
    <3>1. /\ k - p + 1 + Window \in 1..Window
          /\ ~(p + (k - p + 1 + Window) - 1 < Window)
          /\ p + (k - p + 1 + Window) - 1 - Window = k
      BY <1>1, <2>2
    <3> QED BY <1>3, <3>1
  <2> QED BY <1>1, <2>1, <2>2
<1>8. ASSUME NEW j \in 1..Window PROVE ((Place(p)[j] - p) % Window) + 1 = j
  <2> DEFINE d == Place(p)[j] - p
  <2>1. d = j - 1 \/ d = j - 1 - Window
    BY <1>1, <1>3
  <2>2. j - 1 \in 0..(Window - 1) /\ d \in Int
    BY <1>1, <2>1
  <2> HIDE DEF d
  <2>3. \A w \in Nat \ {0} : \A a \in 0..(w - 1) : a % w = a /\ (a - w) % w = a
    OBVIOUS
  <2>4. d % Window = j - 1
    BY <1>1, <2>1, <2>2, <2>3
  <2> QED BY <1>1, <2>4 DEF d
<1>9. Place(p) \in [1..Window -> 0..(Window - 1)]
  BY <1>4, <1>5
<1>10. Place(p) \in Bijection(1..Window, 0..(Window - 1))
  BY <1>6, <1>7, <1>9 DEF Bijection, Injection, IsInjective, Surjection
<1> QED BY <1>8, <1>10 DEF Slots

\* What a ring's sums are made of.
Summed(b) ==
    /\ b.buff \in [Slots -> Int]
    /\ b.buff_e = [k \in Slots |-> b.buff[k] * b.buff[k]]
    /\ b.window_energy = SumFunction(b.buff_e)

LEMMA SummedPut ==
    ASSUME NEW b, IsRing(b), Summed(b), NEW z \in Int
    PROVE  /\ [b.buff EXCEPT ![b.phase] = z] \in [Slots -> Int]
           /\ [b.buff_e EXCEPT ![b.phase] = z * z] =
                [k \in Slots |-> [b.buff EXCEPT ![b.phase] = z][k] * [b.buff EXCEPT ![b.phase] = z][k]]
           /\ SumFunction([b.buff_e EXCEPT ![b.phase] = z * z]) =
                b.window_energy + z * z - b.buff_e[b.phase]
<1>1. b.phase \in Slots /\ b.buff \in [Slots -> Int]
      /\ b.buff_e = [k \in Slots |-> b.buff[k] * b.buff[k]]
  BY DEF IsRing, Summed
<1>2. z * z \in Int /\ \A x \in Int : x * x \in Int
  OBVIOUS
<1>3. b.buff_e \in [Slots -> Int]
  BY <1>1, <1>2
<1>4. SumFunction([b.buff_e EXCEPT ![b.phase] = z * z]) =
        SumFunction(b.buff_e) - b.buff_e[b.phase] + z * z
  <2> DEFINE e == b.buff_e
             p == b.phase
             v == z * z
  <2>1. IsFiniteSet(Slots) /\ e \in [Slots -> Int] /\ p \in Slots /\ v \in Int
    BY <1>1, <1>2, <1>3, WindowFinite
  <2> HIDE DEF e, p, v
  <2>2. SumFunction([e EXCEPT ![p] = v]) = SumFunction(e) - e[p] + v
    BY <2>1, SumUpdate
  <2> QED BY <2>2 DEF e, p, v
<1>5. SumFunction(b.buff_e) \in Int /\ b.buff_e[b.phase] \in Int
  <2>1. DOMAIN b.buff_e = Slots /\ \A k \in Slots : b.buff_e[k] \in Int
    BY <1>3
  <2> QED BY <1>1, <2>1, SumOfIntegers, WindowFinite
<1>6. SumFunction([b.buff_e EXCEPT ![b.phase] = z * z]) =
        b.window_energy + z * z - b.buff_e[b.phase]
  BY <1>2, <1>4, <1>5 DEF Summed
<1> QED BY <1>1, <1>6

\* push and clear_next keep them.
LEMMA SummedPush ==
    ASSUME NEW b, IsRing(b), Summed(b), NEW z \in Int
    PROVE  Summed(Push(b, z))
BY SummedPut DEF Push, Summed

LEMMA SummedClear ==
    ASSUME NEW b, IsRing(b), Summed(b)
    PROVE  Summed(ClearNext(b))
<1>1. 0 \in Int /\ 0 * 0 = 0
  OBVIOUS
<1>2. /\ [b.buff EXCEPT ![b.phase] = 0] \in [Slots -> Int]
      /\ [b.buff_e EXCEPT ![b.phase] = 0] =
           [k \in Slots |-> [b.buff EXCEPT ![b.phase] = 0][k] * [b.buff EXCEPT ![b.phase] = 0][k]]
      /\ SumFunction([b.buff_e EXCEPT ![b.phase] = 0]) =
           b.window_energy + 0 - b.buff_e[b.phase]
  BY <1>1, SummedPut
<1>3. b.window_energy \in Int /\ b.buff_e[b.phase] \in Int
  <2>1. b.phase \in Slots /\ DOMAIN b.buff_e = Slots /\ \A k \in Slots : b.buff_e[k] \in Int
    BY DEF Summed, IsRing
  <2> QED BY <2>1, SumOfIntegers, WindowFinite DEF Summed
<1>4. b.window_energy + 0 - b.buff_e[b.phase] = b.window_energy - b.buff_e[b.phase]
  BY <1>3
<1> QED BY <1>2, <1>4 DEF ClearNext, Summed

\* The energy of a ring and its correlation with a word, for a ring that holds the
\* products s from its oldest slot on.
LEMMA RingSums ==
    ASSUME NEW b, IsRing(b), Summed(b), NEW s \in [1..Window -> Int],
           \A j \in 1..Window : Oldest(b, j) = s[j], NEW word \in [1..Window -> {-1, 1}]
    PROVE  /\ b.window_energy = SumFunction([j \in 1..Window |-> s[j] * s[j]])
           /\ Dot(b, word) = SumFunction([j \in 1..Window |-> s[j] * word[j]])
<1> DEFINE p == b.phase
           row == Pattern(word, p)
           terms == [k \in Slots |-> b.buff[k] * row[k]]
           squares == [j \in 1..Window |-> s[j] * s[j]]
           products == [j \in 1..Window |-> s[j] * word[j]]
<1>1. p \in Slots /\ b.buff \in [Slots -> Int]
      /\ b.buff_e = [k \in Slots |-> b.buff[k] * b.buff[k]]
  BY DEF IsRing, Summed
<1>18. /\ Place(p) \in Bijection(1..Window, Slots)
       /\ \A j \in 1..Window : ((Place(p)[j] - p) % Window) + 1 = j
  BY <1>1, PlaceLemma
<1>2. /\ \A j \in 1..Window : Place(p)[j] \in Slots
      /\ \A k \in Slots : \E j \in 1..Window : Place(p)[j] = k
      /\ \A j \in 1..Window : ((Place(p)[j] - p) % Window) + 1 = j
  BY <1>18 DEF Bijection, Surjection
<1>3. \A j \in 1..Window : b.buff[Place(p)[j]] = s[j]
  BY DEF Oldest, Place
<1>4. \A j \in 1..Window : row[Place(p)[j]] = word[j]
  BY <1>2 DEF Pattern
<1>5. \A k \in Slots : row[k] \in Int
  <2>1. ASSUME NEW k \in Slots PROVE row[k] \in Int
    <3>1. PICK j \in 1..Window : Place(p)[j] = k
      BY <1>2
    <3>2. row[k] = word[j] /\ word[j] \in {-1, 1}
      BY <1>4, <3>1
    <3> QED BY <3>2
  <2> QED BY <2>1
<1>6. \A x, y \in Int : x * y \in Int
  OBVIOUS
<1>7. \A k \in Slots : terms[k] \in Int /\ b.buff_e[k] \in Int
  BY <1>1, <1>5, <1>6
<1>8. DOMAIN terms = Slots /\ DOMAIN b.buff_e = Slots
      /\ DOMAIN squares = 1..Window /\ DOMAIN products = 1..Window
  BY <1>1
<1>9. \A j \in 1..Window : squares[j] = b.buff_e[Place(p)[j]] /\ products[j] = terms[Place(p)[j]]
  <2> SUFFICES ASSUME NEW j \in 1..Window
               PROVE  squares[j] = b.buff_e[Place(p)[j]] /\ products[j] = terms[Place(p)[j]]
    OBVIOUS
  <2> DEFINE k == Place(p)[j]
  <2>1. k \in Slots /\ b.buff[k] = s[j] /\ row[k] = word[j]
    BY <1>2, <1>3, <1>4
  <2> HIDE DEF k, row
  <2>2. b.buff_e[k] = s[j] * s[j] /\ terms[k] = s[j] * word[j]
    BY <1>1, <2>1
  <2> QED BY <2>2 DEF k
<1>10. Dot(b, word) = SumFunction(terms)
  BY DEF Dot
<1>11. b.window_energy = SumFunction(b.buff_e)
  BY DEF Summed
<1> HIDE DEF p, row, terms, squares, products
<1> DEFINE e == b.buff_e
           place == Place(p)
           S == 1..Window
<1>14. IsFiniteSet(S) /\ place \in Bijection(S, Slots)
  BY <1>18, WindowFinite
<1>15. terms \in [Slots -> Int] /\ e \in [Slots -> Int]
  BY <1>1, <1>7 DEF terms
<1>16. squares = [j \in S |-> e[place[j]]] /\ products = [j \in S |-> terms[place[j]]]
  BY <1>9 DEF squares, products
<1> HIDE DEF e, place, S
<1>12. SumFunction(squares) = SumFunction(e)
  BY <1>14, <1>15, <1>16, SumRenumbered
<1>13. SumFunction(products) = SumFunction(terms)
  BY <1>14, <1>15, <1>16, SumRenumbered
<1> QED BY <1>10, <1>11, <1>12, <1>13 DEF squares, products, e

\* The first term of a sum over the window.
LEMMA FirstTerm ==
    ASSUME NEW f, DOMAIN f = 1..Window, \A j \in 1..Window : f[j] \in Int
    PROVE  /\ SumFunction(f) = f[1] + SumFunction([j \in 2..Window |-> f[j]])
           /\ SumFunction(f) \in Int /\ SumFunction([j \in 2..Window |-> f[j]]) \in Int
<1>1. Restrict(f, (1..Window) \ {1}) = [j \in 2..Window |-> f[j]]
  BY WindowFinite DEF Restrict
<1>2. /\ SumFunction(f) = f[1] + SumFunction(Restrict(f, (1..Window) \ {1}))
      /\ SumFunction(f) \in Int /\ SumFunction(Restrict(f, (1..Window) \ {1})) \in Int
  BY SumTake, WindowFinite
<1> QED BY <1>1, <1>2

\* The same for a ring whose oldest product was cleared.
LEMMA ClearedSums ==
    ASSUME NEW b, IsRing(b), Summed(b), NEW s \in [1..Window -> Int],
           \A j \in 1..Window : Oldest(b, j) = IF j = 1 THEN 0 ELSE s[j],
           NEW word \in [1..Window -> {-1, 1}]
    PROVE  /\ b.window_energy = SumFunction([j \in 2..Window |-> s[j] * s[j]])
           /\ Dot(b, word) = SumFunction([j \in 2..Window |-> s[j] * word[j]])
<1> DEFINE t == [j \in 1..Window |-> IF j = 1 THEN 0 ELSE s[j]]
           squares == [j \in 1..Window |-> t[j] * t[j]]
           products == [j \in 1..Window |-> t[j] * word[j]]
<1>1. t \in [1..Window -> Int]
  OBVIOUS
<1>2. \A j \in 1..Window : Oldest(b, j) = t[j]
  OBVIOUS
<1>3. b.window_energy = SumFunction(squares) /\ Dot(b, word) = SumFunction(products)
  <2> HIDE DEF t
  <2> QED BY <1>1, <1>2, RingSums
<1>4. \A x, y \in Int : x * y \in Int
  OBVIOUS
<1>5. /\ DOMAIN squares = 1..Window /\ \A j \in 1..Window : squares[j] \in Int
      /\ DOMAIN products = 1..Window /\ \A j \in 1..Window : products[j] \in Int
  BY <1>1, <1>4
<1>6. 1 \in 1..Window
  BY WindowFinite
<1>7. squares[1] = 0 /\ products[1] = 0
  BY <1>6
<1>8. /\ [j \in 2..Window |-> squares[j]] = [j \in 2..Window |-> s[j] * s[j]]
      /\ [j \in 2..Window |-> products[j]] = [j \in 2..Window |-> s[j] * word[j]]
  <2>1. \A j \in 2..Window : j \in 1..Window /\ j # 1
    BY WindowLemma
  <2>2. \A j \in 2..Window : squares[j] = s[j] * s[j] /\ products[j] = s[j] * word[j]
    BY <2>1
  <2> QED BY <2>2
<1> HIDE DEF squares, products
<1>9. /\ SumFunction(squares) = squares[1] + SumFunction([j \in 2..Window |-> squares[j]])
      /\ SumFunction([j \in 2..Window |-> squares[j]]) \in Int
  BY <1>5, FirstTerm
<1>10. /\ SumFunction(products) = products[1] + SumFunction([j \in 2..Window |-> products[j]])
       /\ SumFunction([j \in 2..Window |-> products[j]]) \in Int
  BY <1>5, FirstTerm
<1>11. SumFunction(squares) = SumFunction([j \in 2..Window |-> squares[j]])
  BY <1>7, <1>9
<1>12. SumFunction(products) = SumFunction([j \in 2..Window |-> products[j]])
  BY <1>7, <1>10
<1> QED BY <1>3, <1>8, <1>11, <1>12
----------------------------------------------------------------------------
(* What 32 bits leave of a square, and what match_preamble makes of it.    *)

LEMMA Remainder ==
    ASSUME NEW w \in Nat \ {0}, NEW a \in Nat
    PROVE  a % w \in Nat /\ a % w =< a /\ a % w =< w /\ (a < w => a % w = a)
<1>1. a = w * (a \div w) + (a % w) /\ a % w \in 0..(w - 1) /\ a \div w \in Int
  OBVIOUS
<1>2. PICK d \in Int, r \in 0..(w - 1) : d = a \div w /\ r = a % w /\ a = w * d + r
  BY <1>1
<1>3. d >= 0
  <2> SUFFICES ASSUME d =< -1 PROVE FALSE
    BY <1>2
  <2>1. w * (-1 - d) >= 0 /\ w * (-1 - d) = -w - w * d
    BY <1>2
  <2> QED BY <1>2, <2>1
<1>4. w * d >= 0
  BY <1>2, <1>3
<1>5. a < w => d = 0
  <2> SUFFICES ASSUME a < w, d >= 1 PROVE FALSE
    BY <1>2, <1>3
  <2>1. w * (d - 1) >= 0 /\ w * (d - 1) = w * d - w
    BY <1>2
  <2> QED BY <1>2, <2>1
<1>6. a < w => a = r
  <2>1. w * 0 = 0
    OBVIOUS
  <2> QED BY <1>2, <1>5, <2>1
<1> QED BY <1>2, <1>4, <1>6

\* A square is not more than it was, and what fits is not changed.
Narrow(square, signed) == IF signed THEN Int32(square) ELSE UInt32(square)

Accepts(corr, protocol, energy, signed) ==
    /\ corr =< -Early
    /\ Exceeds(Narrow(Quarter(corr) * Quarter(corr), signed), protocol, energy)

LEMMA NarrowLemma ==
    ASSUME NEW x \in Nat, NEW signed \in BOOLEAN
    PROVE  /\ Narrow(x, signed) \in Int /\ Narrow(x, signed) =< x
           /\ x =< Int32Max => Narrow(x, signed) = x
<1> DEFINE m == Int32Max + 1
<1>1. m \in Nat \ {0} /\ 2 * m \in Nat \ {0} /\ Int32Max \in Nat
  BY WindowAssumption
<1>2. Int32(x) = ((x + m) % (2 * m)) - m
  <2>1. x + Int32Max + 1 = x + m
    BY <1>1
  <2> QED BY <2>1 DEF Int32
<1>3. UInt32(x) = x % (2 * m)
  BY DEF UInt32
<1>4. x =< Int32Max <=> x < m
  BY <1>1
<1> HIDE DEF m
<1>5. x + m \in Nat
  BY <1>1
<1>6. /\ (x + m) % (2 * m) \in Nat /\ (x + m) % (2 * m) =< x + m
      /\ x + m < 2 * m => (x + m) % (2 * m) = x + m
  BY <1>1, <1>5, Remainder
<1>7. /\ x % (2 * m) \in Nat /\ x % (2 * m) =< x
      /\ x < 2 * m => x % (2 * m) = x
  BY <1>1, Remainder
<1>8. CASE signed
  BY <1>1, <1>2, <1>4, <1>6, <1>8 DEF Narrow
<1>9. CASE ~signed
  BY <1>1, <1>3, <1>4, <1>7, <1>9 DEF Narrow
<1> QED BY <1>8, <1>9

\* What match_preamble squares: a quarter of the correlation, toward zero.
LEMMA QuarterLemma ==
    ASSUME NEW corr \in Int, corr =< 0
    PROVE  \E q \in Nat : /\ Quarter(corr) = -q
                          /\ q * Root =< -corr /\ -corr =< q * Root + Root - 1
<1>1. Root \in Nat /\ Root > 1 /\ -corr \in Nat
  BY WindowAssumption
<1>2. \A a \in Nat, w \in Nat \ {0} :
        a \div w \in Int /\ a = w * (a \div w) + (a % w) /\ a % w \in 0..(w - 1)
  OBVIOUS
<1>3. (-corr) \div Root \in Int
      /\ -corr = Root * ((-corr) \div Root) + ((-corr) % Root) /\ (-corr) % Root \in 0..(Root - 1)
  <2>1. Root \in Nat \ {0}
    BY <1>1
  <2> QED BY <1>1, <1>2, <2>1
<1>4. PICK q \in Int, r \in 0..(Root - 1) : q = (-corr) \div Root /\ -corr = Root * q + r
  BY <1>3
<1>5. q \in Nat
  <2> SUFFICES ASSUME q =< -1 PROVE FALSE
    BY <1>4
  <2>1. Root * (-1 - q) >= 0 /\ Root * (-1 - q) = -Root - Root * q
    BY <1>1, <1>4
  <2> QED BY <1>1, <1>4, <2>1
<1>6. Root * q = q * Root /\ q * Root \in Int
  BY <1>1, <1>4
<1> QED BY <1>1, <1>4, <1>5, <1>6 DEF Quarter

\* Whatever overflows, what match_preamble accepts correlates as much as the
\* threshold asks.
Symbols(protocol) == IF protocol = "RC4" THEN Window ELSE Window - 1

LEMMA MatchIsForCause ==
    ASSUME NEW corr \in Int, corr =< -Early, NEW energy \in Int, NEW protocol,
           NEW signed \in BOOLEAN,
           Exceeds(Narrow(Quarter(corr) * Quarter(corr), signed), protocol, energy)
    PROVE  corr < 0 /\ Exceeds(corr * corr, protocol, Window * energy)
<1>1. Root \in Nat /\ Root > 1 /\ Window = Root * Root /\ Window \in Nat /\ Window > 1
      /\ Threshold \in Nat
  BY WindowAssumption, WindowLemma DEF Window
<1>2. corr < 0
  BY <1>1 DEF Early
<1>3. PICK q \in Nat : Quarter(corr) = -q /\ q * Root =< -corr
  BY <1>2, QuarterLemma
<1>4. Quarter(corr) * Quarter(corr) = q * q /\ q * q \in Nat
  <2>1. \A a \in Nat : (-a) * (-a) = a * a /\ a * a \in Nat
    OBVIOUS
  <2> QED BY <1>3, <2>1
<1> DEFINE n == Narrow(q * q, signed)
           k == Threshold * Symbols(protocol)
<1>5. n \in Int /\ n =< q * q
  BY <1>4, NarrowLemma
<1>6. Symbols(protocol) \in Nat
  BY <1>1 DEF Symbols
<1>7. k \in Nat
  <2>1. \A a, b \in Nat : a * b \in Nat
    OBVIOUS
  <2> QED BY <1>1, <1>6, <2>1
<1>8. 100 * Window * n > k * energy
  BY <1>4 DEF Exceeds, Symbols
<1>9. q * q * Window =< corr * corr
  <2>1. \A a, b \in Nat : a =< b => a * a =< b * b
    <3> SUFFICES ASSUME NEW a \in Nat, NEW b \in Nat, a =< b PROVE a * a =< b * b
      OBVIOUS
    <3>1. a * (b - a) >= 0 /\ b * (b - a) >= 0
      OBVIOUS
    <3>2. a * (b - a) = a * b - a * a /\ b * (b - a) = b * b - a * b
      OBVIOUS
    <3> QED BY <3>1, <3>2
  <2>2. q * Root \in Nat /\ -corr \in Nat
    BY <1>1, <1>2
  <2>3. (q * Root) * (q * Root) =< (-corr) * (-corr)
    BY <1>3, <2>1, <2>2
  <2>4. (q * Root) * (q * Root) = q * q * Window
    BY <1>1
  <2>5. (-corr) * (-corr) = corr * corr
    OBVIOUS
  <2> QED BY <2>3, <2>4, <2>5
<1> HIDE DEF n, k
<1>10. \A w \in Nat \ {0}, s, c, e \in Int : \A x \in Int :
         n =< s /\ 100 * w * n > e /\ s * w =< c => 100 * w * c > w * e
  <2> SUFFICES ASSUME NEW w \in Nat \ {0}, NEW s \in Int, NEW c \in Int, NEW e \in Int,
                      n =< s, 100 * w * n > e, s * w =< c
               PROVE  100 * w * c > w * e
    OBVIOUS
  <2>1. \A a, b \in Int : a =< b => w * a =< w * b
    <3> SUFFICES ASSUME NEW a \in Int, NEW b \in Int, a =< b PROVE w * a =< w * b
      OBVIOUS
    <3>1. w * (b - a) >= 0 /\ w * (b - a) = w * b - w * a
      OBVIOUS
    <3> QED BY <3>1
  <2>2. w * n =< w * s /\ w * s = s * w
    BY <1>5, <2>1
  <2>3. w * n =< c /\ w * n \in Int
    BY <1>5, <2>2
  <2>4. e + 1 =< 100 * (w * n)
    <3>1. 100 * w * n = 100 * (w * n)
      BY <1>5
    <3> QED BY <2>3, <3>1
  <2>5. e + 1 =< 100 * c
    BY <2>3, <2>4
  <2>6. w * (e + 1) =< w * (100 * c)
    <3>1. e + 1 \in Int /\ 100 * c \in Int
      OBVIOUS
    <3> QED BY <2>1, <2>5, <3>1
  <2>7. w * (e + 1) = w * e + w /\ w * (100 * c) = 100 * w * c
    OBVIOUS
  <2> QED BY <2>6, <2>7
<1>11. 100 * Window * (corr * corr) > Window * (k * energy)
  <2>1. Window \in Nat \ {0} /\ q * q \in Int /\ corr * corr \in Int /\ k * energy \in Int
    <3>1. \A a, b \in Int : a * b \in Int
      OBVIOUS
    <3> QED BY <1>1, <1>7, <3>1
  <2> QED BY <1>5, <1>8, <1>9, <1>10, <2>1
<1>12. Window * (k * energy) = Threshold * Symbols(protocol) * (Window * energy)
  <2>1. \A a, b, c \in Int : a * (b * c) = b * (a * c)
    OBVIOUS
  <2>2. Window * (k * energy) = k * (Window * energy)
    BY <1>1, <1>7, <2>1
  <2> QED BY <2>2 DEF k
<1>13. 100 * Window * (corr * corr) > Threshold * Symbols(protocol) * (Window * energy)
  BY <1>11, <1>12
<1> QED BY <1>2, <1>13 DEF Exceeds, Symbols

\* Numbers and their squares.
LEMMA SquareLemma ==
    /\ \A a \in Int : a * a \in Nat /\ (-a) * (-a) = a * a /\ (a # 0 => a * a >= 1)
    /\ \A a, b \in Nat : a =< b => a * a =< b * b
    /\ \A a, b \in Int, w \in Nat : a =< b => w * a =< w * b
    /\ \A a, b \in Int, w \in Nat \ {0} : w * a =< w * b => a =< b
<1>1. ASSUME NEW a \in Nat, NEW b \in Nat, a =< b PROVE a * a =< b * b
  <2>1. a * (b - a) >= 0 /\ b * (b - a) >= 0
    BY <1>1
  <2>2. a * (b - a) = a * b - a * a /\ b * (b - a) = b * b - a * b
    OBVIOUS
  <2> QED BY <2>1, <2>2
<1>2. ASSUME NEW a \in Int, NEW b \in Int, NEW w \in Nat, a =< b PROVE w * a =< w * b
  <2>1. w * (b - a) >= 0 /\ w * (b - a) = w * b - w * a
    BY <1>2
  <2> QED BY <2>1
<1>3. ASSUME NEW a \in Int, NEW b \in Int, NEW w \in Nat \ {0}, w * a =< w * b PROVE a =< b
  <2> SUFFICES ASSUME b + 1 =< a PROVE FALSE
    OBVIOUS
  <2>1. w * (a - b - 1) >= 0 /\ w * (a - b - 1) = w * a - w * b - w
    OBVIOUS
  <2> QED BY <1>3, <2>1
<1>4. ASSUME NEW a \in Int PROVE a * a \in Nat /\ (-a) * (-a) = a * a /\ (a # 0 => a * a >= 1)
  <2>1. CASE a \in Nat
    BY <2>1
  <2>2. CASE -a \in Nat
    <3>1. (-a) * (-a) \in Nat /\ (-a) * (-a) = a * a
      BY <2>2
    <3>2. ASSUME a # 0 PROVE a * a >= 1
      <4>1. (-a) * (-a - 1) >= 0 /\ (-a) * (-a - 1) = a * a + a /\ -a >= 1
        BY <2>2, <3>2
      <4> QED BY <4>1
    <3> QED BY <3>1, <3>2
  <2> QED BY <2>1, <2>2
<1> QED BY <1>1, <1>2, <1>3, <1>4

\* A preamble of one strength over the early threshold is accepted, if its energy
\* fits: what is lost by rounding a quarter is less than the threshold leaves.
LEMMA PlainMatch ==
    ASSUME NEW z \in Nat \ {0}, (Window - 1) * z >= Early, NEW protocol,
           NEW n, n = Symbols(protocol), n * (z * z) =< Int32Max, NEW signed \in BOOLEAN,
           NEW corr, corr = (-z) * n
    PROVE  /\ corr \in Int /\ corr =< -Early
           /\ Exceeds(Narrow(Quarter(corr) * Quarter(corr), signed), protocol, n * (z * z))
<1>1. Root \in Nat /\ Root > 1 /\ Window = Root * Root /\ Window \in Nat /\ Window > 1
      /\ Threshold \in Nat /\ Threshold =< 84
  BY WindowAssumption, WindowLemma, ApartAssumption DEF Window
<1>2. n \in Nat /\ (n = Window \/ n = Window - 1) /\ n >= 1
  BY <1>1 DEF Symbols
<1> DEFINE c == z * n
<1>3. c \in Nat /\ corr = -c /\ corr \in Int
  BY <1>2
<1>4. c >= Early
  <2>1. \A w \in Nat : (w - 1) * z + z = z * w /\ (w - 1) * z = z * (w - 1)
    OBVIOUS
  <2>2. (Window - 1) * z + z = z * Window /\ (Window - 1) * z = z * (Window - 1)
        /\ (Window - 1) * z \in Int /\ Early \in Int
    BY <1>1, <2>1 DEF Early
  <2>3. c = (Window - 1) * z \/ c = (Window - 1) * z + z
    BY <1>2, <2>2
  <2> QED BY <2>2, <2>3
<1>5. Early = 3 * (Root * Root)
  BY <1>1 DEF Early
<1> HIDE DEF c
<1>6. corr =< -Early /\ corr =< 0 /\ -corr = c
  BY <1>1, <1>3, <1>4 DEF Early
<1>7. PICK q \in Nat : Quarter(corr) = -q /\ q * Root =< c /\ c =< q * Root + Root - 1
  BY <1>3, <1>6, QuarterLemma
<1>8. Quarter(corr) * Quarter(corr) = q * q /\ q * q \in Nat
  BY <1>7, SquareLemma
<1> DEFINE u == q * Root
           e == n * (z * z)
<1>9. u \in Nat /\ u * u = Window * (q * q)
  BY <1>1
<1>10. u =< c /\ c =< u + Root - 1
  BY <1>7
<1>11. c * c = n * e /\ e \in Nat /\ e >= 1
  <2>1. \A a, b \in Nat : (a * b) * (a * b) = b * (b * (a * a)) /\ b * (a * a) \in Nat
    OBVIOUS
  <2>2. z * z \in Nat /\ z * z >= 1
    BY SquareLemma
  <2>3. \A a, b \in Nat : a >= 1 /\ b >= 1 => a * b >= 1
    OBVIOUS
  <2> QED BY <1>2, <2>1, <2>2, <2>3 DEF c
<1> HIDE DEF u, e
<1>12. u * u =< c * c
  BY <1>3, <1>9, <1>10, SquareLemma
<1>13. q * q =< e
  <2>1. n * e =< Window * e
    <3>1. e * n =< e * Window
      BY <1>1, <1>2, <1>11, SquareLemma
    <3>2. e * n = n * e /\ e * Window = Window * e
      BY <1>1, <1>2, <1>11
    <3> QED BY <3>1, <3>2
  <2>2. Window * (q * q) =< Window * e
    <3>1. \A a, b, d \in Int : a =< b /\ b =< d => a =< d
      OBVIOUS
    <3>2. Window * (q * q) \in Int /\ n * e \in Int /\ Window * e \in Int
      BY <1>1, <1>2, <1>8, <1>11
    <3> QED BY <1>9, <1>11, <1>12, <2>1, <3>1, <3>2
  <2> QED BY <1>1, <1>8, <1>11, <2>2, SquareLemma
<1>14. Narrow(q * q, signed) = q * q
  <2>1. q * q =< Int32Max
    <3>1. e =< Int32Max /\ Int32Max \in Nat
      BY WindowAssumption DEF e
    <3> QED BY <1>8, <1>11, <1>13, <3>1
  <2> QED BY <1>8, <2>1, NarrowLemma
<1>15. 11 * c =< 12 * u
  <2>1. (Root - 2) * (Root - 2) \in Nat
    BY <1>1, SquareLemma
  <2>2. (Root - 2) * (Root - 2) = Root * Root - 4 * Root + 4
    BY <1>1
  <2>3. Root * Root \in Nat
    BY <1>1
  <2>4. 12 * (Root - 1) =< 3 * (Root * Root)
    BY <1>1, <2>1, <2>2, <2>3
  <2>5. 12 * (Root - 1) =< c
    BY <1>1, <1>3, <1>4, <1>5, <2>3, <2>4
  <2> QED BY <1>1, <1>3, <1>9, <1>10, <2>5
<1>16. 121 * (c * c) =< 144 * (u * u)
  <2>1. 11 * c \in Nat /\ 12 * u \in Nat
    BY <1>3, <1>9
  <2>2. (11 * c) * (11 * c) =< (12 * u) * (12 * u)
    BY <1>15, <2>1, SquareLemma
  <2>3. \A a \in Nat : (11 * a) * (11 * a) = 121 * (a * a) /\ (12 * a) * (12 * a) = 144 * (a * a)
    OBVIOUS
  <2> QED BY <1>3, <1>9, <2>2, <2>3
<1>17. 100 * (u * u) > Threshold * (c * c)
  <2>1. c * c \in Nat /\ c * c >= 1 /\ u * u \in Nat
    <3>1. c # 0
      BY <1>1, <1>3, <1>4, <1>5, SquareLemma
    <3> QED BY <1>3, <1>9, <3>1, SquareLemma
  <2>2. \A k \in Nat : Threshold * k =< 84 * k
    <3>1. ASSUME NEW k \in Nat PROVE Threshold * k =< 84 * k
      <4>1. k * Threshold =< k * 84
        BY <1>1, SquareLemma
      <4> QED BY <1>1, <4>1
    <3> QED BY <3>1
  <2>3. PICK k \in Nat, l \in Nat : k = c * c /\ l = u * u
    BY <2>1
  <2>4. Threshold * k =< 84 * k /\ k >= 1 /\ 121 * k =< 144 * l /\ Threshold * k \in Nat
    BY <1>1, <1>16, <2>1, <2>2, <2>3
  <2>5. 100 * l > Threshold * k
    BY <2>4
  <2> QED BY <2>3, <2>5
<1>18. 100 * Window * (q * q) > Threshold * n * e
  <2>1. \A a, b \in Int : 100 * a * b = 100 * (a * b)
    OBVIOUS
  <2>2. \A a, b, d \in Int : a * b * d = a * (b * d)
    OBVIOUS
  <2>3. 100 * Window * (q * q) = 100 * (u * u)
    BY <1>1, <1>8, <1>9, <2>1
  <2>4. Threshold * n * e = Threshold * (c * c)
    BY <1>1, <1>2, <1>11, <2>2
  <2> QED BY <1>17, <2>3, <2>4
<1> QED BY <1>2, <1>3, <1>6, <1>8, <1>14, <1>18 DEF Exceeds, Symbols, e

\* A preamble is not taken for RC4's, whatever the symbol before it was: a window
\* that agrees with it in an overlap c, and begins with a product x.
LEMMA NotTakenForRC4 ==
    ASSUME NEW x \in Int, NEW z \in Int, NEW c \in Int, NEW w \in {-1, 1},
           100 * (Window - 1 + c * c) =< Threshold * Window * (Window - 1),
           NEW corr, corr = x * w + (-z) * c, NEW signed \in BOOLEAN,
           NEW energy, energy = x * x + (Window - 1) * (z * z)
    PROVE  ~(corr =< -Early /\ Exceeds(Narrow(Quarter(corr) * Quarter(corr), signed), "RC4", energy))
<1> DEFINE n == Window - 1
           k == Threshold * Window
<1>1. Window \in Nat /\ n \in Nat \ {0} /\ Threshold \in Nat /\ k \in Nat
  BY WindowLemma, WindowAssumption
<1>2. x * w \in Int /\ z * c \in Int /\ (-z) * c \in Int /\ corr \in Int
  OBVIOUS
<1>3. x * x \in Nat /\ z * z \in Nat /\ c * c \in Nat /\ corr * corr \in Nat
  BY <1>2, SquareLemma
<1> HIDE DEF n
<1>4. energy = x * x + n * (z * z) /\ energy \in Nat
  <2>1. n * (z * z) \in Nat
    BY <1>1, <1>3
  <2> QED BY <1>3, <2>1 DEF n
<1>5. n * (corr * corr) =< (n + c * c) * energy
  <2> DEFINE y == x * w
             d == n * z + c * y
  <2>1. y \in Int /\ y * y = x * x
    OBVIOUS
  <2> HIDE DEF y
  <2>2. d * d \in Nat
    <3>1. d \in Int
      BY <1>1, <2>1
    <3> HIDE DEF d
    <3> QED BY <3>1, SquareLemma
  <2>3. (n + c * c) * (y * y + n * (z * z)) - n * ((y + (-z) * c) * (y + (-z) * c)) = d * d
    <3>1. \A a \in Nat, b, e, f \in Int :
            (a + b * b) * (e * e + a * (f * f)) - a * ((e + (-f) * b) * (e + (-f) * b))
              = (a * f + b * e) * (a * f + b * e)
      OBVIOUS
    <3> QED BY <1>1, <2>1, <3>1
  <2>4. corr = y + (-z) * c
    BY DEF y
  <2>5. (n + c * c) * energy - n * (corr * corr) = d * d
    BY <1>4, <2>1, <2>3, <2>4
  <2>6. (n + c * c) * energy \in Int /\ n * (corr * corr) \in Int
    BY <1>1, <1>3, <1>4
  <2> HIDE DEF d
  <2> QED BY <2>2, <2>5, <2>6
<1>6. 100 * (n + c * c) =< k * n
  BY DEF n
<1> SUFFICES ASSUME corr =< -Early,
                    Exceeds(Narrow(Quarter(corr) * Quarter(corr), signed), "RC4", energy)
             PROVE  FALSE
  OBVIOUS
<1>7. Exceeds(corr * corr, "RC4", Window * energy)
  BY <1>2, <1>4, MatchIsForCause
<1>8. 100 * Window * (corr * corr) > Threshold * Window * (Window * energy)
  BY <1>7 DEF Exceeds
<1>9. 100 * (corr * corr) > k * energy
  <2>1. \A a, b \in Int : 100 * a * b = a * (100 * b)
    OBVIOUS
  <2>2. \A a, b, d \in Int : a * (b * d) = b * (a * d)
    OBVIOUS
  <2>3. 100 * Window * (corr * corr) = Window * (100 * (corr * corr))
    BY <1>1, <1>3, <2>1
  <2>4. k * (Window * energy) = Window * (k * energy)
    BY <1>1, <1>4, <2>2
  <2>5. Window * (100 * (corr * corr)) > Window * (k * energy)
    BY <1>8, <2>3, <2>4
  <2>6. 100 * (corr * corr) \in Int /\ k * energy \in Int
    BY <1>1, <1>3, <1>4
  <2>7. \A a, b \in Int : ~(Window * a =< Window * b) => a > b
    BY <1>1, SquareLemma
  <2>8. \A a, b \in Int : Window * a \in Int
    BY <1>1
  <2> QED BY <2>5, <2>6, <2>7, <2>8
<1> HIDE DEF k
<1>10. PICK s \in Nat, t \in Nat, f \in Nat : s = corr * corr /\ t = c * c /\ f = energy
  BY <1>3, <1>4
<1>11. n * s =< (n + t) * f /\ 100 * (n + t) =< k * n /\ 100 * s > k * f
  BY <1>5, <1>6, <1>9, <1>10
<1>12. (100 * (n + t)) * f =< (k * n) * f
  <2>1. f * (100 * (n + t)) =< f * (k * n)
    <3>1. 100 * (n + t) \in Int /\ k * n \in Int
      BY <1>1
    <3> QED BY <1>11, <3>1, SquareLemma
  <2>2. \A a, b \in Int : a * b = b * a
    OBVIOUS
  <2>3. 100 * (n + t) \in Int /\ k * n \in Int
    BY <1>1
  <2> QED BY <2>1, <2>2, <2>3
<1>13. n * (k * f + 1) =< n * (100 * s)
  <2>1. k * f + 1 \in Int /\ 100 * s \in Int /\ k * f + 1 =< 100 * s
    BY <1>1, <1>11
  <2> QED BY <1>1, <2>1, SquareLemma
<1>14. /\ n * (k * f + 1) = (k * n) * f + n
       /\ n * (100 * s) = 100 * (n * s)
       /\ (100 * (n + t)) * f = 100 * ((n + t) * f)
       /\ (k * n) * f \in Int /\ n * s \in Int /\ (n + t) * f \in Int
  BY <1>1
<1> QED BY <1>1, <1>11, <1>12, <1>13, <1>14

\* RC3's preamble is not taken for OpenStint's.
LEMMA NotTakenForOther ==
    ASSUME NEW z \in Int, NEW c \in Int,
           100 * (Window - 1 + c * c) =< Threshold * Window * (Window - 1),
           NEW corr, corr = (-z) * c, NEW signed \in BOOLEAN,
           NEW energy, energy = (Window - 1) * (z * z)
    PROVE  ~(corr =< -Early
             /\ Exceeds(Narrow(Quarter(corr) * Quarter(corr), signed), "OpenStint", energy))
<1> DEFINE n == Window - 1
<1>1. Window \in Nat \ {0} /\ n \in Nat \ {0} /\ Threshold \in Nat /\ Threshold =< 84
  BY WindowLemma, WindowAssumption, ApartAssumption
<1>2. z * z \in Nat /\ c * c \in Nat
  BY SquareLemma
<1>3. corr \in Int /\ corr * corr = (z * z) * (c * c)
  OBVIOUS
<1>4. 100 * (c * c) =< Threshold * (n * n)
  <2>1. Window = n + 1
    BY <1>1
  <2> HIDE DEF n
  <2>2. Threshold * Window * n = Threshold * (n * n) + Threshold * n
    BY <1>1, <2>1
  <2>3. n * Threshold =< n * 84 /\ n * Threshold = Threshold * n
    BY <1>1, SquareLemma
  <2>4. PICK t \in Nat, a \in Nat, b \in Nat : t = c * c /\ a = Threshold * (n * n) /\ b = Threshold * n
    BY <1>1, <1>2
  <2>5. 100 * (n + t) =< a + b /\ b =< 84 * n
    <3>1. 100 * (n + t) =< Threshold * Window * n
      BY <2>4 DEF n
    <3>2. n * 84 = 84 * n
      BY <1>1
    <3> QED BY <2>2, <2>3, <2>4, <3>1, <3>2
  <2>6. 100 * t =< a
    BY <1>1, <2>5
  <2> QED BY <2>4, <2>6
<1> SUFFICES ASSUME corr =< -Early,
                    Exceeds(Narrow(Quarter(corr) * Quarter(corr), signed), "OpenStint", energy)
             PROVE  FALSE
  OBVIOUS
<1>5. energy \in Int /\ energy = n * (z * z)
  BY <1>1, <1>2
<1>6. Exceeds(corr * corr, "OpenStint", Window * energy)
  BY <1>3, <1>5, MatchIsForCause
<1>7. 100 * Window * (corr * corr) > Threshold * n * (Window * energy)
  BY <1>6 DEF Exceeds
<1> HIDE DEF n
<1>8. PICK f \in Nat, t \in Nat : f = z * z /\ t = c * c
  BY <1>2
<1>9. 100 * Window * (corr * corr) = (Window * f) * (100 * t)
  <2>1. \A a, b, d \in Int : 100 * a * (b * d) = (a * b) * (100 * d)
    OBVIOUS
  <2> QED BY <1>1, <1>3, <1>8, <2>1
<1>10. Threshold * n * (Window * energy) = (Window * f) * (Threshold * (n * n))
  <2>1. \A a, b, d, e \in Int : a * b * (d * (b * e)) = (d * e) * (a * (b * b))
    OBVIOUS
  <2> QED BY <1>1, <1>5, <1>8, <2>1
<1>11. (Window * f) * (100 * t) =< (Window * f) * (Threshold * (n * n))
  <2>1. Window * f \in Nat /\ 100 * t \in Int /\ Threshold * (n * n) \in Int
    BY <1>1
  <2> QED BY <1>4, <1>8, <2>1, SquareLemma
<1>12. (Window * f) * (100 * t) \in Int /\ (Window * f) * (Threshold * (n * n)) \in Int
  BY <1>1
<1> QED BY <1>7, <1>9, <1>10, <1>11, <1>12

----------------------------------------------------------------------------
(* The sums of a window that is a preamble.                                *)

LEMMA SomeBest ==
    ASSUME NEW e \in [Rings -> Nat], NEW m \in Nat, \A k \in Rings : e[k] =< m
    PROVE  \E i \in Rings : IsBest(e, i)
<1>1. Rings \subseteq Nat /\ 1 \in Rings
  BY WindowAssumption DEF Rings
<1> DEFINE Left == {m - e[k] : k \in Rings}
           Firsts(l) == {k \in Rings : m - e[k] = l}
<1>2. Left \subseteq Nat /\ Left # {}
  BY <1>1
<1>3. PICK l \in Left : \A n \in Left : l =< n
  BY <1>2, LeastNatural
<1>4. Firsts(l) \subseteq Nat /\ Firsts(l) # {}
  BY <1>1
<1>5. PICK i \in Firsts(l) : \A n \in Firsts(l) : i =< n
  BY <1>4, LeastNatural
<1>6. ASSUME NEW k \in Rings PROVE e[i] > e[k] \/ (e[i] = e[k] /\ i =< k)
  <2>1. i \in Rings /\ m - e[i] = l /\ m - e[i] =< m - e[k]
    BY <1>3, <1>5
  <2>2. m - e[k] = l => i =< k
    BY <1>5
  <2>3. e[i] \in Nat /\ e[k] \in Nat
    BY <2>1
  <2> QED BY <2>1, <2>2, <2>3
<1> QED BY <1>5, <1>6 DEF IsBest

LEMMA OneBest ==
    ASSUME NEW e \in [Rings -> Int], NEW i \in Rings, IsBest(e, i), NEW k \in Rings, IsBest(e, k)
    PROVE  i = k
<1>1. i \in Nat /\ k \in Nat /\ e[i] \in Int /\ e[k] \in Int
  BY WindowAssumption DEF Rings
<1> QED BY <1>1 DEF IsBest

EnergyOf(s, from) == SumFunction([j \in from..Window |-> s[j] * s[j]])
CorrelationOf(s, protocol) ==
    SumFunction([j \in First(protocol)..Window |-> s[j] * Words[protocol][j]])

LEMMA WordsLemma ==
    ASSUME NEW p \in Protocols
    PROVE  /\ Words[p] \in [1..Window -> {-1, 1}]
           /\ \A j \in 1..Window : Words[p][j] \in Int /\ Words[p][j] * Words[p][j] = 1
<1>1. Words[p] \in [1..Window -> {-1, 1}]
  BY WindowAssumption
<1>2. ASSUME NEW j \in 1..Window PROVE Words[p][j] \in Int /\ Words[p][j] * Words[p][j] = 1
  <2>1. Words[p][j] = -1 \/ Words[p][j] = 1
    BY <1>1
  <2>2. (-1) * (-1) = 1 /\ 1 * 1 = 1 /\ -1 \in Int /\ 1 \in Int
    OBVIOUS
  <2> QED BY <2>1, <2>2
<1> QED BY <1>1, <1>2

LEMMA EnergyNatural ==
    ASSUME NEW s \in [1..Window -> Int]
    PROVE  EnergyOf(s, 1) \in Nat /\ EnergyOf(s, 2) \in Nat
           /\ EnergyOf(s, 1) = s[1] * s[1] + EnergyOf(s, 2)
<1> DEFINE f == [j \in 1..Window |-> s[j] * s[j]]
           g == [j \in 2..Window |-> s[j] * s[j]]
<1>1. \A j \in 1..Window : s[j] * s[j] \in Nat
  BY SquareLemma
<1>2. \A j \in 2..Window : j \in 1..Window
  BY WindowFinite
<1>3. /\ DOMAIN f = 1..Window /\ \A j \in 1..Window : f[j] \in Nat
      /\ DOMAIN g = 2..Window /\ \A j \in 2..Window : g[j] \in Nat
      /\ f[1] = s[1] * s[1] /\ g = [j \in 2..Window |-> f[j]]
  BY <1>1, <1>2, WindowFinite
<1> HIDE DEF f, g
<1>4. SumFunction(f) \in Nat /\ SumFunction(g) \in Nat
  BY <1>3, SumOfNaturals, WindowFinite
<1>5. SumFunction(f) = f[1] + SumFunction([j \in 2..Window |-> f[j]])
  <2>1. \A j \in 1..Window : f[j] \in Int
    BY <1>3
  <2> QED BY <1>3, <2>1, FirstTerm
<1> QED BY <1>3, <1>4, <1>5 DEF EnergyOf, f, g

\* A window with nothing but a preamble of one strength, from its first symbol on.
LEMMA PreambleSums ==
    ASSUME NEW s \in [1..Window -> Int], NEW p \in Protocols, NEW z \in Nat,
           \A j \in First(p)..Window : s[j] = -z * Words[p][j]
    PROVE  /\ EnergyOf(s, First(p)) = Symbols(p) * (z * z)
           /\ CorrelationOf(s, p) = (-z) * Symbols(p)
<1> DEFINE K == First(p)..Window
           f == [j \in K |-> s[j] * s[j]]
           g == [j \in K |-> s[j] * Words[p][j]]
<1>1. IsFiniteSet(K) /\ Cardinality(K) = Symbols(p) /\ \A j \in K : j \in 1..Window
  BY WindowFinite DEF First, Symbols
<1>2. \A j \in K : f[j] = z * z /\ g[j] = -z
  <2> SUFFICES ASSUME NEW j \in K PROVE f[j] = z * z /\ g[j] = -z
    OBVIOUS
  <2>1. s[j] = -z * Words[p][j] /\ Words[p][j] \in {-1, 1}
    BY <1>1, WordsLemma
  <2> QED BY <2>1
<1>3. z * z \in Int /\ -z \in Int /\ DOMAIN f = K /\ DOMAIN g = K
  OBVIOUS
<1> HIDE DEF K, f, g
<1>4. SumFunction(f) = (z * z) * Cardinality(K) /\ SumFunction(g) = (-z) * Cardinality(K)
  BY <1>1, <1>2, <1>3, SumOfSame
<1>5. Symbols(p) \in Nat
  BY WindowLemma DEF Symbols
<1>6. (z * z) * Symbols(p) = Symbols(p) * (z * z)
  BY <1>3, <1>5
<1> QED BY <1>1, <1>4, <1>6 DEF EnergyOf, CorrelationOf, K, f, g

\* How such a window, of a preamble without its first symbol, correlates with
\* another one: as much as the preambles have in common.
LEMMA OverlapSums ==
    ASSUME NEW s \in [1..Window -> Int], NEW p \in Protocols, NEW q \in Protocols, NEW z \in Nat,
           \A j \in 2..Window : s[j] = -z * Words[p][j]
    PROVE  /\ Overlap(p, q) \in Int
           /\ SumFunction([j \in 2..Window |-> s[j] * Words[q][j]]) = (-z) * Overlap(p, q)
<1> DEFINE f == [j \in 2..Window |-> Words[p][j] * Words[q][j]]
           g == [j \in 2..Window |-> s[j] * Words[q][j]]
           a == -z
<1>1. DOMAIN f = 2..Window /\ DOMAIN g = 2..Window /\ a \in Int
  OBVIOUS
<1>2. \A j \in 2..Window : f[j] \in Int /\ g[j] = a * f[j]
  <2> SUFFICES ASSUME NEW j \in 2..Window PROVE f[j] \in Int /\ g[j] = a * f[j]
    OBVIOUS
  <2>1. j \in 1..Window
    BY WindowFinite
  <2>2. Words[p][j] \in Int /\ Words[q][j] \in Int /\ s[j] = a * Words[p][j]
    BY <2>1, WordsLemma
  <2>3. \A x, y \in Int : x * y \in Int /\ (a * x) * y = a * (x * y)
    OBVIOUS
  <2>4. PICK x \in Int, y \in Int : x = Words[p][j] /\ y = Words[q][j]
    BY <2>2
  <2>5. s[j] = a * x /\ x * y \in Int /\ (a * x) * y = a * (x * y)
    BY <2>2, <2>3, <2>4
  <2>6. f[j] = x * y /\ g[j] = s[j] * y
    BY <2>4
  <2> QED BY <2>5, <2>6
<1> DEFINE K == 2..Window
<1>4. IsFiniteSet(K) /\ a \in Int
  BY <1>1, WindowFinite
<1>5. f \in [K -> Int] /\ g = [j \in K |-> a * f[j]]
  BY <1>2 DEF f, g
<1> HIDE DEF f, g, a, K
<1>3. SumFunction(f) \in Int /\ SumFunction(g) = a * SumFunction(f)
  BY <1>4, <1>5, SumScaled
<1> QED BY <1>3 DEF f, g, a, Overlap

\* The first product of the window counts for RC4 only.
LEMMA CorrelationRC4 ==
    ASSUME NEW s \in [1..Window -> Int]
    PROVE  CorrelationOf(s, "RC4") = s[1] * Words["RC4"][1]
                + SumFunction([j \in 2..Window |-> s[j] * Words["RC4"][j]])
<1> DEFINE f == [j \in 1..Window |-> s[j] * Words["RC4"][j]]
<1>1. "RC4" \in Protocols /\ First("RC4") = 1
  BY DEF Protocols, First
<1>2. \A j \in 1..Window : Words["RC4"][j] \in Int
  BY <1>1, WordsLemma
<1>3. \A x, y \in Int : x * y \in Int
  OBVIOUS
<1>4. DOMAIN f = 1..Window /\ \A j \in 1..Window : f[j] \in Int
  BY <1>2, <1>3
<1>5. \A j \in 2..Window : j \in 1..Window
  BY WindowFinite
<1>6. f[1] = s[1] * Words["RC4"][1]
      /\ [j \in 2..Window |-> f[j]] = [j \in 2..Window |-> s[j] * Words["RC4"][j]]
  BY <1>5, WindowFinite
<1>7. CorrelationOf(s, "RC4") = SumFunction(f)
  BY <1>1 DEF CorrelationOf
<1> HIDE DEF f
<1>8. SumFunction(f) = f[1] + SumFunction([j \in 2..Window |-> f[j]])
  BY <1>4, FirstTerm
<1> QED BY <1>6, <1>7, <1>8

LEMMA CorrelationInt ==
    ASSUME NEW s \in [1..Window -> Int], NEW p \in Protocols
    PROVE  CorrelationOf(s, p) \in Int
<1> DEFINE K == First(p)..Window
           f == [j \in K |-> s[j] * Words[p][j]]
<1>1. IsFiniteSet(K) /\ \A j \in K : j \in 1..Window
  BY WindowFinite DEF First
<1>2. \A x, y \in Int : x * y \in Int
  OBVIOUS
<1>3. DOMAIN f = K /\ \A j \in K : f[j] \in Int
  BY <1>1, <1>2, WordsLemma
<1> HIDE DEF f, K
<1>4. SumFunction(f) \in Int
  BY <1>1, <1>3, SumOfIntegers
<1> QED BY <1>4 DEF CorrelationOf, K, f

----------------------------------------------------------------------------
(* What one step finds.                                                    *)

SumInv ==
    /\ recent \in [Rings -> [1..Window -> Int]]
    /\ last_samples \in [Rings -> Int \X Int]
    /\ \A i \in Rings : Summed(buffers[i])

LEMMA ProductsLemma ==
    ASSUME SumInv, NEW r \in Inputs, NEW i \in Rings
    PROVE  Products(r)[i] \in Int
<1>1. r[i] \in Int \X Int /\ last_samples[i] \in Int \X Int
  BY WindowAssumption DEF SumInv
<1>2. \A a, b, c, d \in Int : a * c + b * d \in Int
  OBVIOUS
<1>3. r[i][1] * last_samples[i][1] + r[i][2] * last_samples[i][2] \in Int
  BY <1>1, <1>2
<1>4. \A z \in Int : Clamp(z) \in Int
  BY WindowAssumption DEF Clamp
<1> QED BY <1>3, <1>4 DEF Products, Product

LEMMA SumInit == Init => SumInv
<1> SUFFICES ASSUME Init PROVE SumInv
  OBVIOUS
<1>1. recent \in [Rings -> [1..Window -> Int]] /\ last_samples \in [Rings -> Int \X Int]
  BY DEF Init
<1>2. Summed(EmptyRing)
  <2> DEFINE f == [k \in Slots |-> 0]
  <2>1. f \in [Slots -> Int] /\ DOMAIN f = Slots /\ f = [k \in Slots |-> f[k] * f[k]]
    OBVIOUS
  <2>2. SumFunction(f) = 0
    <3>1. \A k \in Slots : f[k] = 0
      OBVIOUS
    <3> HIDE DEF f
    <3>2. SumFunction(f) = 0 * Cardinality(Slots)
      BY <2>1, <3>1, SumOfSame, WindowFinite
    <3>3. Cardinality(Slots) \in Nat
      BY FS_CardinalityType, WindowFinite
    <3> QED BY <3>2, <3>3
  <2> QED BY <2>1, <2>2 DEF Summed, EmptyRing
<1>3. \A i \in Rings : Summed(buffers[i])
  BY <1>2 DEF Init
<1> QED BY <1>1, <1>3 DEF SumInv

\* After a symbol, the sums of each ring are those of its last products.
LEMMA AfterStep ==
    ASSUME Inv, SumInv, NEW r \in Inputs, Looked(r), NEW i \in Rings
    PROVE  /\ recent'[i] \in [1..Window -> Int]
           /\ Summed(Pushed(r)[i]) /\ Summed(ClearNext(Pushed(r)[i]))
           /\ Pushed(r)[i].window_energy = EnergyOf(recent'[i], 1)
           /\ Dot(Pushed(r)[i], Words["RC4"]) = CorrelationOf(recent'[i], "RC4")
           /\ ClearNext(Pushed(r)[i]).window_energy = EnergyOf(recent'[i], 2)
           /\ \A p \in {"OpenStint", "RC3"} :
                Dot(ClearNext(Pushed(r)[i]), Words[p]) = CorrelationOf(recent'[i], p)
<1> DEFINE s == recent'[i]
           z == Products(r)[i]
           b == Pushed(r)[i]
           c == ClearNext(b)
<1>1. z \in Int
  BY ProductsLemma
<1>2. s = [j \in 1..Window |-> IF j < Window THEN recent[i][j + 1] ELSE z]
  BY DEF Looked, Shifted
<1>3. s \in [1..Window -> Int]
  <2>1. recent[i] \in [1..Window -> Int]
    BY DEF SumInv
  <2>2. \A j \in 1..Window : j < Window => j + 1 \in 1..Window
    BY WindowLemma
  <2> HIDE DEF z
  <2> QED BY <1>1, <1>2, <2>1, <2>2
<1>4. Summed(b)
  <2>1. IsRing(buffers[i]) /\ Summed(buffers[i]) /\ b = Push(buffers[i], z)
    BY DEF Inv, RingInv, SumInv, Pushed
  <2> QED BY <1>1, <2>1, SummedPush
<1>5. /\ IsRing(b) /\ IsRing(c)
      /\ \A j \in 1..Window : Oldest(b, j) = s[j]
      /\ \A j \in 1..Window : Oldest(c, j) = IF j = 1 THEN 0 ELSE s[j]
  <2>1. 1 \in 1..Window
    BY WindowFinite
  <2> QED BY <2>1, StepLemma
<1> HIDE DEF s, b
<1>6. Summed(c)
  BY <1>4, <1>5, SummedClear
<1> HIDE DEF c
<1>7. b.window_energy = EnergyOf(s, 1) /\ Dot(b, Words["RC4"]) = CorrelationOf(s, "RC4")
  <2>1. Words["RC4"] \in [1..Window -> {-1, 1}] /\ First("RC4") = 1
    BY WordsLemma DEF Protocols, First
  <2>2. /\ b.window_energy = SumFunction([j \in 1..Window |-> s[j] * s[j]])
        /\ Dot(b, Words["RC4"]) = SumFunction([j \in 1..Window |-> s[j] * Words["RC4"][j]])
    BY <1>3, <1>4, <1>5, <2>1, RingSums
  <2> QED BY <2>1, <2>2 DEF EnergyOf, CorrelationOf
<1>8. ASSUME NEW p \in {"OpenStint", "RC3"}
      PROVE  c.window_energy = EnergyOf(s, 2) /\ Dot(c, Words[p]) = CorrelationOf(s, p)
  <2>1. Words[p] \in [1..Window -> {-1, 1}] /\ First(p) = 2
    BY WordsLemma DEF Protocols, First
  <2>2. /\ c.window_energy = SumFunction([j \in 2..Window |-> s[j] * s[j]])
        /\ Dot(c, Words[p]) = SumFunction([j \in 2..Window |-> s[j] * Words[p][j]])
    BY <1>3, <1>5, <1>6, <2>1, ClearedSums
  <2> QED BY <2>1, <2>2 DEF EnergyOf, CorrelationOf
<1> QED BY <1>3, <1>4, <1>6, <1>7, <1>8 DEF s, b, c

\* The ring that is compared: if the energies fit into 32 bits, the one of the
\* most energy.
LEMMA Chosen ==
    ASSUME Inv, SumInv, NEW r \in Inputs, Looked(r)
    PROVE  /\ Best(Pushed(r)) \in Rings
           /\ \A i \in Rings :
                /\ \A k \in Rings : EnergyOf(recent'[k], 1) =< Int32Max
                /\ IsBest([k \in Rings |-> EnergyOf(recent'[k], 1)], i)
                => Best(Pushed(r)) = i
<1> DEFINE e == [k \in Rings |-> EnergyOf(recent'[k], 1)]
           wes == [k \in Rings |-> UInt32(Pushed(r)[k].window_energy)]
           w == 2 * (Int32Max + 1)
<1>1. w \in Nat \ {0} /\ Int32Max \in Nat /\ \A x \in Nat : x =< Int32Max => x < w
  BY WindowAssumption
<1>2. \A k \in Rings : e[k] \in Nat /\ wes[k] = e[k] % w
  BY AfterStep, EnergyNatural DEF UInt32
<1>3. \A k \in Rings : wes[k] \in Nat /\ wes[k] =< w /\ (e[k] =< Int32Max => wes[k] = e[k])
  <2> HIDE DEF e, wes, w
  <2> QED BY <1>1, <1>2, Remainder
<1>4. wes \in [Rings -> Nat] /\ e = [k \in Rings |-> e[k]] /\ wes = [k \in Rings |-> wes[k]]
  BY <1>3
<1>5. Best(Pushed(r)) = CHOOSE i \in Rings : IsBest(wes, i)
  BY DEF Best
<1> HIDE DEF e, wes, w
<1>6. \E i \in Rings : IsBest(wes, i)
  BY <1>1, <1>3, <1>4, SomeBest
<1>7. Best(Pushed(r)) \in Rings /\ IsBest(wes, Best(Pushed(r)))
  BY <1>5, <1>6
<1>8. ASSUME NEW i \in Rings, \A k \in Rings : e[k] =< Int32Max, IsBest(e, i)
      PROVE  Best(Pushed(r)) = i
  <2>1. wes = e
    BY <1>3, <1>4, <1>8
  <2>2. wes \in [Rings -> Int]
    BY <1>4
  <2> QED BY <1>7, <1>8, <2>1, <2>2, OneBest
<1>9. \A k \in Rings : e[k] = EnergyOf(recent'[k], 1)
  BY DEF e
<1> QED BY <1>7, <1>8, <1>9 DEF e

\* What is found is what match_preamble accepts, RC4 first, then OpenStint.
LEMMA FoundIsAccepted ==
    ASSUME Inv, SumInv, NEW r \in Inputs, NEW signed \in BOOLEAN,
           FindRC4(r, signed) \/ FindOther(r, signed),
           NEW s, s = recent'[found'.ring]
    PROVE  /\ found'.ring = Best(Pushed(r)) /\ Looked(r)
           /\ \A p \in Protocols : found'.protocol = p =>
                Accepts(CorrelationOf(s, p), p, EnergyOf(s, First(p)), signed)
           /\ \A p \in Protocols :
                /\ Accepts(CorrelationOf(s, p), p, EnergyOf(s, First(p)), signed)
                /\ p # "RC4" => ~Accepts(CorrelationOf(s, "RC4"), "RC4", EnergyOf(s, 1), signed)
                /\ p = "RC3" => ~Accepts(CorrelationOf(s, "OpenStint"), "OpenStint", EnergyOf(s, 2), signed)
                => found'.protocol = p
<1> DEFINE best == Best(Pushed(r))
           b == Pushed(r)[best]
           c == ClearNext(b)
<1>1. Looked(r) /\ found'.ring = best
  BY DEF FindRC4, FindOther
<1>2. best \in Rings
  BY <1>1, Chosen
<1>3. /\ b.window_energy = EnergyOf(s, 1)
      /\ Dot(b, Words["RC4"]) = CorrelationOf(s, "RC4")
      /\ c.window_energy = EnergyOf(s, 2)
      /\ \A p \in {"OpenStint", "RC3"} : Dot(c, Words[p]) = CorrelationOf(s, p)
  BY <1>1, <1>2, AfterStep
<1>4. /\ First("RC4") = 1 /\ First("OpenStint") = 2 /\ First("RC3") = 2
      /\ Protocols = {"RC4", "OpenStint", "RC3"}
  BY DEF First, Protocols
<1>5. \/ /\ found'.protocol = "RC4" /\ Matches(b, "RC4", signed)
      \/ /\ ~Matches(b, "RC4", signed)
         /\ found'.protocol \in {"OpenStint", "RC3", "none"}
         /\ found'.protocol # "none" => Matches(c, found'.protocol, signed)
         /\ found'.protocol # "OpenStint" => ~Matches(c, "OpenStint", signed)
         /\ found'.protocol = "none" => ~Matches(c, "RC3", signed)
  <2>1. CASE FindRC4(r, signed)
    BY <2>1 DEF FindRC4
  <2>2. CASE FindOther(r, signed)
    BY <2>2 DEF FindOther
  <2> QED BY <2>1, <2>2
<1> HIDE DEF best, b, c
<1>6. Matches(b, "RC4", signed) <=> Accepts(CorrelationOf(s, "RC4"), "RC4", EnergyOf(s, 1), signed)
  BY <1>3 DEF Matches, Accepts, Narrow
<1>7. \A p \in {"OpenStint", "RC3"} :
        Matches(c, p, signed) <=> Accepts(CorrelationOf(s, p), p, EnergyOf(s, 2), signed)
  BY <1>3 DEF Matches, Accepts, Narrow
<1>8. \A p \in Protocols : found'.protocol = p =>
        Accepts(CorrelationOf(s, p), p, EnergyOf(s, First(p)), signed)
  BY <1>4, <1>5, <1>6, <1>7
<1>9. ASSUME NEW p \in Protocols,
             Accepts(CorrelationOf(s, p), p, EnergyOf(s, First(p)), signed),
             p # "RC4" => ~Accepts(CorrelationOf(s, "RC4"), "RC4", EnergyOf(s, 1), signed),
             p = "RC3" => ~Accepts(CorrelationOf(s, "OpenStint"), "OpenStint", EnergyOf(s, 2), signed)
      PROVE  found'.protocol = p
  <2>1. CASE p = "RC4"
    BY <1>4, <1>5, <1>6, <1>9, <2>1
  <2>2. CASE p = "OpenStint"
    BY <1>4, <1>5, <1>6, <1>7, <1>9, <2>2
  <2>3. CASE p = "RC3"
    BY <1>4, <1>5, <1>6, <1>7, <1>9, <2>3
  <2> QED BY <1>4, <2>1, <2>2, <2>3
<1> QED BY <1>1, <1>8, <1>9 DEF best

\* A window that is a preamble is accepted as that one and as no other.
LEMMA PreambleAccepted ==
    ASSUME NEW s \in [1..Window -> Int], NEW p \in Protocols, NEW z \in 1..Int16Max,
           (Window - 1) * z >= Early, \A j \in First(p)..Window : s[j] = -z * Words[p][j],
           EnergyOf(s, 1) =< Int32Max, NEW signed \in BOOLEAN
    PROVE  /\ Accepts(CorrelationOf(s, p), p, EnergyOf(s, First(p)), signed)
           /\ p # "RC4" => ~Accepts(CorrelationOf(s, "RC4"), "RC4", EnergyOf(s, 1), signed)
           /\ p = "RC3" => ~Accepts(CorrelationOf(s, "OpenStint"), "OpenStint", EnergyOf(s, 2), signed)
<1>1. z \in Nat \ {0}
  BY WindowAssumption
<1>2. EnergyOf(s, First(p)) = Symbols(p) * (z * z) /\ CorrelationOf(s, p) = (-z) * Symbols(p)
  BY <1>1, PreambleSums
<1>3. /\ EnergyOf(s, 1) \in Nat /\ EnergyOf(s, 2) \in Nat
      /\ EnergyOf(s, 1) = s[1] * s[1] + EnergyOf(s, 2)
  BY EnergyNatural
<1>4. s[1] \in Int /\ s[1] * s[1] \in Nat
  BY SquareLemma, WindowFinite
<1>5. Symbols(p) * (z * z) =< Int32Max
  <2>1. Int32Max \in Nat /\ (First(p) = 1 \/ First(p) = 2)
    BY WindowAssumption DEF First
  <2> QED BY <1>2, <1>3, <1>4, <2>1
<1>6. Accepts(CorrelationOf(s, p), p, EnergyOf(s, First(p)), signed)
  <2> DEFINE n == Symbols(p)
             corr == CorrelationOf(s, p)
  <2>1. n = Symbols(p) /\ corr = (-z) * n /\ n * (z * z) =< Int32Max
    BY <1>2, <1>5
  <2> HIDE DEF n, corr
  <2>2. corr =< -Early
        /\ Exceeds(Narrow(Quarter(corr) * Quarter(corr), signed), p, n * (z * z))
    BY <1>1, <2>1, PlainMatch
  <2>3. Accepts(corr, p, n * (z * z), signed)
    BY <2>2 DEF Accepts
  <2> QED BY <1>2, <2>3 DEF n, corr
<1>7. /\ First("RC4") = 1 /\ First("OpenStint") = 2 /\ First("RC3") = 2
      /\ Protocols = {"RC4", "OpenStint", "RC3"}
  BY DEF First, Protocols
<1>8. ASSUME p # "RC4", NEW q \in Protocols, p # q
      PROVE  /\ Overlap(p, q) \in Int
             /\ SumFunction([j \in 2..Window |-> s[j] * Words[q][j]]) = (-z) * Overlap(p, q)
             /\ 100 * (Window - 1 + Overlap(p, q) * Overlap(p, q))
                  =< Threshold * Window * (Window - 1)
             /\ EnergyOf(s, 2) = (Window - 1) * (z * z)
  <2>1. First(p) = 2 /\ Symbols(p) = Window - 1
    BY <1>8 DEF First, Symbols
  <2>2. \A j \in 2..Window : s[j] = -z * Words[p][j]
    BY <2>1
  <2>3. /\ Overlap(p, q) \in Int
        /\ SumFunction([j \in 2..Window |-> s[j] * Words[q][j]]) = (-z) * Overlap(p, q)
    BY <1>1, <2>2, OverlapSums
  <2>4. 100 * (Window - 1 + Overlap(p, q) * Overlap(p, q)) =< Threshold * Window * (Window - 1)
    BY <1>8, ApartAssumption
  <2> QED BY <1>2, <2>1, <2>3, <2>4
<1>9. ASSUME p # "RC4"
      PROVE  ~Accepts(CorrelationOf(s, "RC4"), "RC4", EnergyOf(s, 1), signed)
  <2> DEFINE c == Overlap(p, "RC4")
             w == Words["RC4"][1]
             corr == CorrelationOf(s, "RC4")
             energy == EnergyOf(s, 1)
             x == s[1]
  <2>1. c \in Int /\ 100 * (Window - 1 + c * c) =< Threshold * Window * (Window - 1)
        /\ energy = x * x + (Window - 1) * (z * z)
    BY <1>3, <1>7, <1>8, <1>9
  <2>2. corr = x * w + (-z) * c
    BY <1>7, <1>8, <1>9, CorrelationRC4
  <2>3. w \in {-1, 1} /\ x \in Int /\ z \in Int
    <3>1. "RC4" \in Protocols /\ 1 \in 1..Window
      BY <1>7, WindowFinite
    <3>2. Words["RC4"] \in [1..Window -> {-1, 1}]
      BY <3>1, WordsLemma
    <3>3. w \in {-1, 1}
      BY <3>1, <3>2
    <3>4. x \in Int /\ z \in Int
      BY <1>1, <1>4
    <3> QED BY <3>3, <3>4
  <2> HIDE DEF c, w, corr, energy, x
  <2>4. ~(corr =< -Early /\ Exceeds(Narrow(Quarter(corr) * Quarter(corr), signed), "RC4", energy))
    BY <2>1, <2>2, <2>3, NotTakenForRC4
  <2> QED BY <2>4 DEF Accepts, corr, energy
<1>10. ASSUME p = "RC3"
       PROVE  ~Accepts(CorrelationOf(s, "OpenStint"), "OpenStint", EnergyOf(s, 2), signed)
  <2> DEFINE c == Overlap(p, "OpenStint")
             corr == CorrelationOf(s, "OpenStint")
             energy == EnergyOf(s, 2)
  <2>1. /\ c \in Int /\ 100 * (Window - 1 + c * c) =< Threshold * Window * (Window - 1)
        /\ energy = (Window - 1) * (z * z)
        /\ SumFunction([j \in 2..Window |-> s[j] * Words["OpenStint"][j]]) = (-z) * c
    BY <1>7, <1>8, <1>10
  <2>2. corr = (-z) * c
    BY <1>7, <2>1 DEF CorrelationOf
  <2>3. z \in Int
    BY <1>1
  <2> HIDE DEF c, corr, energy
  <2>4. ~(corr =< -Early /\ Exceeds(Narrow(Quarter(corr) * Quarter(corr), signed), "OpenStint", energy))
    BY <2>1, <2>2, <2>3, NotTakenForOther
  <2> QED BY <2>4 DEF Accepts, corr, energy
<1> QED BY <1>6, <1>9, <1>10

LEMMA FoundNext ==
    ASSUME Inv, SumInv, NEW r \in Inputs, NEW signed \in BOOLEAN,
           FindRC4(r, signed) \/ FindOther(r, signed)
    PROVE  FoundAsSent' /\ SumInv'
<1> DEFINE ring == found'.ring
           s == recent'[ring]
<1>1. ring = Best(Pushed(r)) /\ Looked(r)
  BY FoundIsAccepted
<1>2. ring \in Rings
  BY <1>1, Chosen
<1>3. \A i \in Rings : recent'[i] \in [1..Window -> Int]
  BY <1>1, AfterStep
<1>4. \A i \in Rings, from \in {1, 2} : Energy(i, from)' = EnergyOf(recent'[i], from)
  BY DEF Energy, EnergyOf
<1>5. /\ \A p \in Protocols : found'.protocol = p =>
           Accepts(CorrelationOf(s, p), p, EnergyOf(s, First(p)), signed)
      /\ \A p \in Protocols :
           /\ Accepts(CorrelationOf(s, p), p, EnergyOf(s, First(p)), signed)
           /\ p # "RC4" => ~Accepts(CorrelationOf(s, "RC4"), "RC4", EnergyOf(s, 1), signed)
           /\ p = "RC3" => ~Accepts(CorrelationOf(s, "OpenStint"), "OpenStint", EnergyOf(s, 2), signed)
           => found'.protocol = p
  BY FoundIsAccepted
<1>6. FoundForCause'
  <2> DEFINE p == found'.protocol
             corr == CorrelationOf(s, p)
             energy == EnergyOf(s, First(p))
  <2>1. p \in {"RC4", "OpenStint", "RC3", "none"}
    BY DEF FindRC4, FindOther
  <2>2. CASE p = "none"
    BY <2>2 DEF FoundForCause
  <2>3. CASE p # "none"
    <3>1. p \in Protocols
      BY <2>1, <2>3 DEF Protocols
    <3>2. Accepts(corr, p, energy, signed)
      BY <1>5, <3>1
    <3>3. corr \in Int /\ energy \in Int
      <4>1. First(p) = 1 \/ First(p) = 2
        BY DEF First
      <4> QED BY <1>2, <1>3, <3>1, <4>1, CorrelationInt, EnergyNatural
    <3> HIDE DEF corr, energy, p, s
    <3>4. corr < 0 /\ Exceeds(corr * corr, p, Window * energy)
      BY <3>2, <3>3, MatchIsForCause DEF Accepts
    <3> QED BY <3>4 DEF FoundForCause, Correlation, CorrelationOf, Energy, EnergyOf,
                        corr, energy, p, s
  <2> QED BY <2>2, <2>3
<1>7. ASSUME NEW p \in Protocols, Heard(p)', \A i \in Rings : Energy(i, 1)' =< Int32Max
      PROVE  found'.protocol = p
  <2>1. PICK i \in Rings : /\ IsBest([k \in Rings |-> EnergyOf(recent'[k], 1)], i)
                           /\ IsPreamble(i, p)'
    BY <1>7 DEF Heard, Energy, EnergyOf
  <2>2. PICK z \in 1..Int16Max :
          /\ (Window - 1) * z >= Early
          /\ \A j \in First(p)..Window : recent'[i][j] = -z * Words[p][j]
    BY <2>1 DEF IsPreamble
  <2>3. \A k \in Rings : EnergyOf(recent'[k], 1) =< Int32Max
    BY <1>4, <1>7
  <2>4. i = ring
    BY <1>1, <2>1, <2>3, Chosen
  <2>5. s \in [1..Window -> Int] /\ EnergyOf(s, 1) =< Int32Max
        /\ \A j \in First(p)..Window : s[j] = -z * Words[p][j]
    BY <1>2, <1>3, <2>2, <2>3, <2>4
  <2> HIDE DEF s, ring
  <2>6. /\ Accepts(CorrelationOf(s, p), p, EnergyOf(s, First(p)), signed)
        /\ p # "RC4" => ~Accepts(CorrelationOf(s, "RC4"), "RC4", EnergyOf(s, 1), signed)
        /\ p = "RC3" => ~Accepts(CorrelationOf(s, "OpenStint"), "OpenStint", EnergyOf(s, 2), signed)
    BY <2>2, <2>5, PreambleAccepted
  <2> QED BY <1>5, <2>6
<1>8. FoundAsSent'
  BY <1>6, <1>7 DEF FoundAsSent
<1>9. SumInv'
  <2>1. recent' = [i \in Rings |-> recent'[i]]
    BY <1>1 DEF Looked
  <2>2. recent' \in [Rings -> [1..Window -> Int]]
    BY <1>3, <2>1
  <2>3. last_samples' \in [Rings -> Int \X Int]
    BY <1>1, WindowAssumption DEF Looked
  <2>4. ASSUME NEW i \in Rings PROVE Summed(buffers'[i])
    <3>1. Summed(Pushed(r)[i]) /\ Summed(ClearNext(Pushed(r)[i]))
      BY <1>1, AfterStep
    <3>2. \/ buffers' = Pushed(r)
          \/ \E best : buffers' = [Pushed(r) EXCEPT ![best] = ClearNext(Pushed(r)[best])]
      BY DEF FindRC4, FindOther
    <3>3. buffers'[i] = Pushed(r)[i] \/ buffers'[i] = ClearNext(Pushed(r)[i])
      BY <3>2 DEF Pushed
    <3> QED BY <3>1, <3>3
  <2> QED BY <2>2, <2>3, <2>4 DEF SumInv, Summed
<1> QED BY <1>8, <1>9

LEMMA FoundInit == Init => FoundAsSent
<1> SUFFICES ASSUME Init PROVE FoundAsSent
  OBVIOUS
<1>1. FoundForCause
  BY DEF Init, FoundForCause
<1>2. ASSUME NEW p \in Protocols PROVE ~Heard(p)
  <2> SUFFICES ASSUME NEW i \in Rings, NEW z \in 1..Int16Max,
                      \A j \in First(p)..Window : recent[i][j] = -z * Words[p][j]
               PROVE  FALSE
    BY DEF Heard, IsPreamble
  <2>1. Window \in First(p)..Window /\ Window \in 1..Window
    BY WindowLemma DEF First
  <2>2. recent[i][Window] = 0
    BY <2>1 DEF Init
  <2>3. Words[p][Window] = -1 \/ Words[p][Window] = 1
    BY <2>1, WordsLemma
  <2>4. z \in Nat /\ z >= 1 /\ 0 = -z * Words[p][Window]
    BY <2>1, <2>2, WindowAssumption
  <2> QED BY <2>3, <2>4
<1> QED BY <1>1, <1>2 DEF FoundAsSent

\* Whatever overflows, match_preamble accepts nothing that does not correlate with
\* a preamble as the threshold asks, and a preamble of one strength whose energy
\* fits into 32 bits is found with its last symbol, as what it is: for every
\* length, threshold and number of rings, and any preambles that differ enough.
THEOREM FoundAsSentCorrect == Spec => []FoundAsSent
<1> DEFINE I == Inv /\ SumInv /\ FoundAsSent
<1>1. Init => I
  BY InitLemma, SumInit, FoundInit
<1>2. I /\ [Next]_vars => I'
  <2> SUFFICES ASSUME I, [Next]_vars PROVE I'
    OBVIOUS
  <2>1. CASE Next
    BY <2>1, FindRC4Lemma, FindOtherLemma, FoundNext DEF Next
  <2>2. CASE UNCHANGED vars
    <3>1. Inv'
      BY <2>2 DEF vars, Inv, RingInv, IsRing, WindowIsStream, Cleared
    <3>2. SumInv'
      BY <2>2 DEF vars, SumInv
    <3>3. FoundAsSent'
      BY <2>2 DEF vars, FoundAsSent, FoundForCause, Heard, IsPreamble, Energy, Correlation
    <3> QED BY <3>1, <3>2, <3>3
  <2> QED BY <2>1, <2>2
<1>3. I => FoundAsSent
  OBVIOUS
<1> QED BY <1>1, <1>2, <1>3, PTL DEF Spec
============================================================================
