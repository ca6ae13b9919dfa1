---------------------------- MODULE DataLemmas -----------------------------
(***************************************************************************)
(* Lemmas about the data the modules keep: queues, that is, sequences, the *)
(* set of what they hold, and whether they hold it once; and sums over     *)
(* finite sets.                                                            *)
(***************************************************************************)
EXTENDS Integers, SequencesExt, SequenceTheorems, FiniteSetTheorems,
        WellFoundedInduction, TLAPS

-----------------------------------------------------------------------------
(* Queues *)

\* Nothing is in the empty queue.
LEMMA EmptyQueue == ToSet(<<>>) = {} /\ IsInjective(<<>>) /\ Len(<<>>) = 0
  BY DEF ToSet, IsInjective

\* A queue of one.
LEMMA SingletonQueue ==
    ASSUME NEW x
    PROVE  ToSet(<<x>>) = {x} /\ Head(<<x>>) = x
  BY DEF ToSet

\* What Append adds, and that it adds no duplicate when the element is new.
LEMMA AppendedQueue ==
    ASSUME NEW S, NEW q \in Seq(S), NEW x \in S
    PROVE  /\ Append(q, x) \in Seq(S) /\ Len(Append(q, x)) = Len(q) + 1
           /\ ToSet(Append(q, x)) = ToSet(q) \cup {x}
           /\ IsInjective(q) /\ x \notin ToSet(q) => IsInjective(Append(q, x))
<1>1. /\ Len(q) \in Nat /\ DOMAIN q = 1 .. Len(q)
      /\ Append(q, x) \in Seq(S) /\ Len(Append(q, x)) = Len(q) + 1
      /\ DOMAIN Append(q, x) = 1 .. Len(q) + 1
      /\ \A i \in 1 .. Len(q) : Append(q, x)[i] = q[i]
      /\ Append(q, x)[Len(q) + 1] = x
  OBVIOUS
<1> DEFINE last == Len(q) + 1
<1>2. /\ DOMAIN Append(q, x) = DOMAIN q \cup {last} /\ last \notin DOMAIN q
      /\ \A i \in DOMAIN q : Append(q, x)[i] = q[i]
      /\ Append(q, x)[last] = x
  BY <1>1
<1> HIDE DEF last
<1>3. ToSet(Append(q, x)) = ToSet(q) \cup {x}
  BY <1>2 DEF ToSet
<1>4. IsInjective(q) /\ x \notin ToSet(q) => IsInjective(Append(q, x))
  BY <1>2 DEF ToSet, IsInjective
<1> QED  BY <1>1, <1>3, <1>4

\* Popping the head of a queue without duplicates removes just it.
LEMMA TailOfQueue ==
    ASSUME NEW S, NEW q \in Seq(S), q # <<>>
    PROVE  /\ Head(q) \in S /\ Head(q) \in ToSet(q) /\ Tail(q) \in Seq(S)
           /\ Len(q) \in Nat /\ Len(Tail(q)) = Len(q) - 1
           /\ ToSet(Tail(q)) \subseteq ToSet(q)
           /\ IsInjective(q) => /\ IsInjective(Tail(q))
                                /\ ToSet(Tail(q)) = ToSet(q) \ {Head(q)}
<1>1. /\ Len(q) \in Nat /\ Len(q) > 0 /\ Head(q) = q[1] /\ DOMAIN q = 1 .. Len(q)
      /\ Tail(q) \in Seq(S) /\ DOMAIN Tail(q) = 1 .. Len(q) - 1
      /\ Len(Tail(q)) = Len(q) - 1
      /\ \A i \in 1 .. Len(q) - 1 : Tail(q)[i] = q[i + 1]
  OBVIOUS
<1>2. \A i \in 1 .. Len(q) - 1 : i + 1 \in DOMAIN q
  BY <1>1
<1>3. ToSet(Tail(q)) \subseteq ToSet(q) /\ Head(q) \in ToSet(q) /\ Head(q) \in S
  BY <1>1, <1>2 DEF ToSet
<1>4. ASSUME IsInjective(q)
      PROVE  IsInjective(Tail(q)) /\ ToSet(Tail(q)) = ToSet(q) \ {Head(q)}
  <2>1. IsInjective(Tail(q))
    BY <1>1, <1>2, <1>4 DEF IsInjective
  <2>2. Head(q) \notin ToSet(Tail(q))
    BY <1>1, <1>2, <1>4 DEF IsInjective, ToSet
  <2>3. \A i \in DOMAIN q : i = 1 \/ (i - 1 \in 1 .. Len(q) - 1 /\ (i - 1) + 1 = i)
    BY <1>1
  <2>4. ToSet(q) \ {Head(q)} \subseteq ToSet(Tail(q))
    BY <1>1, <2>3 DEF ToSet
  <2> QED  BY <1>3, <2>1, <2>2, <2>4
<1> QED  BY <1>1, <1>3, <1>4

\* A concatenation has no duplicates when its parts have none and are disjoint.
LEMMA ConcatenatedQueues ==
    ASSUME NEW S, NEW p \in Seq(S), NEW q \in Seq(S)
    PROVE  /\ p \o q \in Seq(S)
           /\ ToSet(p \o q) = ToSet(p) \cup ToSet(q)
           /\ IsInjective(p \o q) <=>
                /\ IsInjective(p) /\ IsInjective(q)
                /\ ToSet(p) \cap ToSet(q) = {}
<1>1. /\ Len(p) \in Nat /\ Len(q) \in Nat
      /\ DOMAIN p = 1 .. Len(p) /\ DOMAIN q = 1 .. Len(q)
      /\ DOMAIN (p \o q) = 1 .. Len(p) + Len(q) /\ p \o q \in Seq(S)
      /\ \A i \in 1 .. Len(p) : i \in DOMAIN (p \o q) /\ (p \o q)[i] = p[i]
  OBVIOUS
<1> DEFINE right(i) == Len(p) + i
<1>2. \A i \in DOMAIN q : right(i) \in DOMAIN (p \o q) /\ (p \o q)[right(i)] = q[i]
  BY <1>1
<1>3. \A i \in DOMAIN (p \o q) : i \in DOMAIN p \/ \E j \in DOMAIN q : i = right(j)
  <2> SUFFICES ASSUME NEW i \in 1 .. Len(p) + Len(q), i \notin 1 .. Len(p)
               PROVE  i - Len(p) \in 1 .. Len(q) /\ i = right(i - Len(p))
    BY <1>1
  <2> QED  BY <1>1
<1>4. /\ \A i, j \in DOMAIN q : right(i) = right(j) => i = j
      /\ \A i \in DOMAIN p, j \in DOMAIN q : i # right(j)
  BY <1>1
<1> HIDE DEF right
<1>5. ToSet(p \o q) = ToSet(p) \cup ToSet(q)
  BY <1>1, <1>2, <1>3 DEF ToSet
<1>6. IsInjective(p \o q) =>
         IsInjective(p) /\ IsInjective(q) /\ ToSet(p) \cap ToSet(q) = {}
  BY <1>1, <1>2, <1>4 DEF ToSet, IsInjective
<1>7. IsInjective(p) /\ IsInjective(q) /\ ToSet(p) \cap ToSet(q) = {} =>
         IsInjective(p \o q)
  <2> SUFFICES ASSUME IsInjective(p), IsInjective(q), ToSet(p) \cap ToSet(q) = {},
                      NEW a \in DOMAIN (p \o q), NEW b \in DOMAIN (p \o q),
                      (p \o q)[a] = (p \o q)[b]
               PROVE  a = b
    BY DEF IsInjective
  <2>1. CASE a \in DOMAIN p /\ b \in DOMAIN p
    BY <1>1, <2>1 DEF IsInjective
  <2>2. CASE a \in DOMAIN p /\ \E j \in DOMAIN q : b = right(j)
    BY <1>1, <1>2, <2>2 DEF ToSet
  <2>3. CASE (\E j \in DOMAIN q : a = right(j)) /\ b \in DOMAIN p
    BY <1>1, <1>2, <2>3 DEF ToSet
  <2>4. CASE (\E j \in DOMAIN q : a = right(j)) /\ \E j \in DOMAIN q : b = right(j)
    BY <1>2, <2>4 DEF IsInjective
  <2> QED  BY <1>3, <2>1, <2>2, <2>3, <2>4
<1> QED  BY <1>1, <1>5, <1>6, <1>7

\* Removing the element at one position: it keeps the others and their order.
LEMMA RemovedFromQueue ==
    ASSUME NEW S, NEW q \in Seq(S), NEW i \in 1 .. Len(q)
    PROVE  /\ RemoveAt(q, i) \in Seq(S) /\ Len(RemoveAt(q, i)) = Len(q) - 1
           /\ \A j \in 1 .. Len(q) - 1 :
                 RemoveAt(q, i)[j] = IF j < i THEN q[j] ELSE q[j + 1]
           /\ ToSet(RemoveAt(q, i)) \subseteq ToSet(q)
           /\ IsInjective(q) => /\ IsInjective(RemoveAt(q, i))
                                /\ ToSet(RemoveAt(q, i)) = ToSet(q) \ {q[i]}
<1> DEFINE left == SubSeq(q, 1, i - 1)
           rest == SubSeq(q, i + 1, Len(q))
           r == RemoveAt(q, i)
           after(j) == IF j < i THEN j ELSE j + 1
<1>1. /\ Len(q) \in Nat /\ DOMAIN q = 1 .. Len(q)
      /\ \A j \in 1 .. Len(q) : q[j] \in S
  OBVIOUS
<1>2. /\ left \in Seq(S) /\ Len(left) = i - 1
      /\ \A j \in 1 .. i - 1 : left[j] = q[j]
  <2>1. \A j \in 1 .. i - 1 : q[j] \in S
    BY <1>1
  <2>2. /\ left \in Seq(S) /\ Len(left) = IF 1 <= i - 1 THEN (i - 1) - 1 + 1 ELSE 0
        /\ \A j \in 1 .. (i - 1) - 1 + 1 : left[j] = q[1 + j - 1]
    BY <1>1, <2>1, SubSeqProperties
  <2> QED  BY <1>1, <2>2
<1>3. /\ rest \in Seq(S) /\ Len(rest) = Len(q) - i
      /\ \A j \in 1 .. Len(q) - i : rest[j] = q[i + j]
  <2>1. \A j \in i + 1 .. Len(q) : q[j] \in S
    BY <1>1
  <2>2. /\ rest \in Seq(S)
        /\ Len(rest) = IF i + 1 <= Len(q) THEN Len(q) - (i + 1) + 1 ELSE 0
        /\ \A j \in 1 .. Len(q) - (i + 1) + 1 : rest[j] = q[(i + 1) + j - 1]
    BY <1>1, <2>1, SubSeqProperties
  <2>3. /\ Len(q) - (i + 1) + 1 = Len(q) - i
        /\ \A j \in 1 .. Len(q) - i : (i + 1) + j - 1 = i + j
    BY <1>1
  <2>4. \A m, n \in Int : m <= n => (IF m + 1 <= n THEN n - (m + 1) + 1 ELSE 0) = n - m
    OBVIOUS
  <2>5. (IF i + 1 <= Len(q) THEN Len(q) - (i + 1) + 1 ELSE 0) = Len(q) - i
    <3>1. i \in Int /\ Len(q) \in Int /\ i <= Len(q)
      BY <1>1
    <3> QED  BY <2>4, <3>1
  <2> QED  BY <2>2, <2>3, <2>5
<1> HIDE DEF left, rest
<1>4. r = left \o rest
  BY DEF RemoveAt, left, rest
<1> HIDE DEF r
<1>5. r \in Seq(S) /\ Len(r) = Len(q) - 1
  <2>1. \A a, b \in Seq(S) : a \o b \in Seq(S) /\ Len(a \o b) = Len(a) + Len(b)
    OBVIOUS
  <2>2. r \in Seq(S) /\ Len(r) = (i - 1) + (Len(q) - i)
    BY <1>2, <1>3, <1>4, <2>1
  <2>3. \A m, n \in Int : (m - 1) + (n - m) = n - 1
    OBVIOUS
  <2>4. (i - 1) + (Len(q) - i) = Len(q) - 1
    BY <1>1, <2>3
  <2> QED  BY <2>2, <2>4
<1>6. ASSUME NEW j \in 1 .. Len(q) - 1 PROVE r[j] = q[after(j)]
  <2>1. \A a, b \in Seq(S) : \A k \in 1 .. Len(a) + Len(b) :
           (a \o b)[k] = IF k <= Len(a) THEN a[k] ELSE b[k - Len(a)]
    OBVIOUS
  <2>2. j \in 1 .. (i - 1) + (Len(q) - i)
    BY <1>1
  <2>3. r[j] = IF j <= i - 1 THEN left[j] ELSE rest[j - (i - 1)]
    BY <1>2, <1>3, <1>4, <2>1, <2>2
  <2>4. CASE j < i
    <3>1. j \in 1 .. i - 1 /\ j <= i - 1
      BY <2>4
    <3> QED  BY <1>2, <2>3, <2>4, <3>1
  <2>5. CASE ~(j < i)
    <3>1. j - (i - 1) \in 1 .. Len(q) - i /\ ~(j <= i - 1) /\ i + (j - (i - 1)) = j + 1
      BY <1>1, <2>5
    <3> QED  BY <1>3, <2>3, <2>5, <3>1
  <2> QED  BY <2>4, <2>5
<1>7. /\ DOMAIN r = 1 .. Len(q) - 1
      /\ \A j \in DOMAIN r : after(j) \in DOMAIN q /\ after(j) # i
      /\ \A j, k \in DOMAIN r : after(j) = after(k) => j = k
  BY <1>1, <1>5
<1>8. \A j \in DOMAIN q : j # i => \E k \in DOMAIN r : j = after(k)
  <2> SUFFICES ASSUME NEW j \in 1 .. Len(q), j # i
               PROVE  \E k \in 1 .. Len(q) - 1 : j = after(k)
    BY <1>1, <1>7
  <2>1. CASE j < i
    BY <1>1, <2>1
  <2>2. CASE j > i
    <3>1. j - 1 \in 1 .. Len(q) - 1 /\ j = after(j - 1)
      BY <1>1, <2>2
    <3> QED  BY <3>1
  <2> QED  BY <2>1, <2>2
<1>9. ToSet(r) \subseteq ToSet(q)
  <2> HIDE DEF after
  <2> QED  BY <1>6, <1>7 DEF ToSet
<1>10. ASSUME IsInjective(q) PROVE IsInjective(r) /\ ToSet(r) = ToSet(q) \ {q[i]}
  <2> HIDE DEF after
  <2>1. IsInjective(r)
    BY <1>6, <1>7, <1>10 DEF IsInjective
  <2>2. q[i] \notin ToSet(r)
    BY <1>1, <1>6, <1>7, <1>10 DEF ToSet, IsInjective
  <2>3. \A j \in DOMAIN q : j # i => q[j] \in ToSet(r)
    BY <1>6, <1>7, <1>8 DEF ToSet
  <2> QED  BY <1>1, <1>9, <2>1, <2>2, <2>3 DEF ToSet
<1> QED  BY <1>5, <1>6, <1>9, <1>10 DEF r

\* Cutting a queue in two.
LEMMA SplitQueue ==
    ASSUME NEW S, NEW q \in Seq(S), NEW n \in 0 .. Len(q)
    PROVE  LET front == SubSeq(q, 1, n)
               back == SubSeq(q, n + 1, Len(q))
           IN  /\ front \in Seq(S) /\ Len(front) = n
               /\ back \in Seq(S) /\ Len(back) = Len(q) - n
               /\ front \o back = q
<1> DEFINE front == SubSeq(q, 1, n)
           back == SubSeq(q, n + 1, Len(q))
<1>1. Len(q) \in Nat /\ n \in Nat /\ n <= Len(q) /\ \A i \in 1 .. Len(q) : q[i] \in S
  OBVIOUS
<1>2. front \in Seq(S) /\ Len(front) = n
  <2>1. \A i \in 1 .. n : q[i] \in S
    BY <1>1
  <2>2. front \in Seq(S) /\ Len(front) = IF 1 <= n THEN n - 1 + 1 ELSE 0
    BY <1>1, <2>1, SubSeqProperties
  <2> HIDE DEF front
  <2> QED  BY <1>1, <2>2
<1>3. back \in Seq(S) /\ Len(back) = Len(q) - n
  <2>1. \A i \in n + 1 .. Len(q) : q[i] \in S
    BY <1>1
  <2>2. back \in Seq(S) /\ Len(back) = IF n + 1 <= Len(q) THEN Len(q) - (n + 1) + 1 ELSE 0
    BY <1>1, <2>1, SubSeqProperties
  <2> HIDE DEF back
  <2>3. \A m \in Nat : n <= m => (IF n + 1 <= m THEN m - (n + 1) + 1 ELSE 0) = m - n
    BY <1>1
  <2> QED  BY <1>1, <2>2, <2>3
<1>4. front \o back = q
  <2>1. SubSeq(q, 1, Len(q)) = q
    BY SubSeqFull
  <2>2. 1 \in 1 .. Len(q) + 1 /\ n \in 1 - 1 .. Len(q) /\ Len(q) \in n .. Len(q)
    BY <1>1
  <2>3. front \o back = SubSeq(q, 1, Len(q))
    BY <2>2, ConcatAdjacentSubSeq
  <2> QED  BY <2>1, <2>3
<1> QED  BY <1>2, <1>3, <1>4

\* A queue holds no more elements than it has places.
LEMMA SizeOfQueue ==
    ASSUME NEW S, NEW q \in Seq(S)
    PROVE  IsFiniteSet(ToSet(q)) /\ Cardinality(ToSet(q)) <= Len(q)
<1>1. Len(q) \in Nat /\ DOMAIN q = 1 .. Len(q) /\ q \in [1 .. Len(q) -> S]
  OBVIOUS
<1>2. q \in Surjection(1 .. Len(q), ToSet(q))
  BY <1>1 DEF Surjection, ToSet
<1>3. IsFiniteSet(1 .. Len(q)) /\ Cardinality(1 .. Len(q)) = Len(q)
  BY <1>1, FS_Interval
<1> QED  BY <1>2, <1>3, FS_Surjection

-----------------------------------------------------------------------------
(* Finite sets *)

\* Induction over a finite set: what holds of the empty set, and of a set with
\* one element more when it holds of the set, holds of the whole.  P is the set
\* of the subsets it holds of, and a smallest one outside P would be the
\* successor of one in it.
LEMMA SubsetInduction ==
    ASSUME NEW S, IsFiniteSet(S), NEW P, {} \in P,
           \A T \in SUBSET S, x \in S : T \in P /\ x \notin T => T \cup {x} \in P
    PROVE  \A T \in SUBSET S : T \in P
<1> DEFINE Bad == {T \in SUBSET S : T \notin P}
<1>1. SUFFICES ASSUME Bad # {} PROVE FALSE
  OBVIOUS
<1>2. Bad \subseteq FiniteSubsetsOf(S)
  BY FS_Subset DEF FiniteSubsetsOf
<1>3. PICK T \in Bad : \A U \in Bad : <<U, T>> \notin StrictSubsetOrdering(S)
  <2> HIDE DEF Bad
  <2> QED  BY <1>1, <1>2, FS_StrictSubsetOrderingWellFounded, WFMin
<1>4. PICK x \in T : TRUE
  OBVIOUS
<1>5. T \ {x} \in P
  <2>1. <<T \ {x}, T>> \in StrictSubsetOrdering(S)
    BY <1>3, <1>4 DEF StrictSubsetOrdering
  <2> QED  BY <1>3, <2>1
<1>6. (T \ {x}) \cup {x} = T
  BY <1>4
<1> QED  BY <1>3, <1>4, <1>5, <1>6

-----------------------------------------------------------------------------
(* Sums over finite sets *)

\* A set of f[x] pairs for each x: what a sum of natural numbers counts.
Units(f, S) == {p \in S \X Nat : p[2] < f[p[1]]}

Own(f, x) == {x} \X (0 .. f[x] - 1)

Picked(S) == CHOOSE x \in S : TRUE

\* g adds f up as the fold does, one picked element after the other.
AddsUp(g, f, S) ==
    g = [T \in SUBSET S |-> IF T = {} THEN 0 ELSE f[Picked(T)] + g[T \ {Picked(T)}]]

LEMMA SumUnfolded ==
    ASSUME NEW f, NEW S
    PROVE  SumFunctionOnSet(f, S) = (CHOOSE g : AddsUp(g, f, S))[S]
  BY DEF SumFunctionOnSet, FoldFunctionOnSet, MapThenFoldSet, AddsUp, Picked

\* There is only one way to add up.
LEMMA OneSum ==
    ASSUME NEW f, NEW S, IsFiniteSet(S), NEW g, NEW h, AddsUp(g, f, S), AddsUp(h, f, S)
    PROVE  g = h
<1> DEFINE P == {T \in SUBSET S : g[T] = h[T]}
<1>1. \A T \in SUBSET S : T \in P
  <2>1. SUFFICES ASSUME {T \in SUBSET S : g[T] # h[T]} # {} PROVE FALSE
    OBVIOUS
  <2>2. PICK T \in SUBSET S : /\ g[T] # h[T]
                              /\ \A U \in SUBSET S : g[U] # h[U] => <<U, T>> \notin StrictSubsetOrdering(S)
    <3> DEFINE Bad == {T \in SUBSET S : g[T] # h[T]}
    <3>1. Bad \subseteq FiniteSubsetsOf(S) /\ Bad # {}
      BY <2>1, FS_Subset DEF FiniteSubsetsOf
    <3>2. \E T \in Bad : \A U \in Bad : <<U, T>> \notin StrictSubsetOrdering(S)
      <4> HIDE DEF Bad
      <4> QED  BY <3>1, FS_StrictSubsetOrderingWellFounded, WFMin
    <3> QED  BY <3>2
  <2>3. T # {}
    BY <2>2 DEF AddsUp
  <2>4. Picked(T) \in T
    BY <2>3 DEF Picked
  <2>5. <<T \ {Picked(T)}, T>> \in StrictSubsetOrdering(S)
    BY <2>4 DEF StrictSubsetOrdering
  <2>6. g[T \ {Picked(T)}] = h[T \ {Picked(T)}]
    BY <2>2, <2>5
  <2> QED  BY <2>2, <2>3, <2>6 DEF AddsUp
<1> QED  BY <1>1 DEF AddsUp

LEMMA UnitsOfOne ==
    ASSUME NEW f, NEW S, \A x \in S : f[x] \in Nat, NEW x \in S
    PROVE  /\ Units(f, S) = Own(f, x) \cup Units(f, S \ {x})
           /\ Own(f, x) \cap Units(f, S \ {x}) = {}
           /\ IsFiniteSet(Own(f, x)) /\ Cardinality(Own(f, x)) = f[x]
<1> DEFINE own == Own(f, x)
<1> USE DEF Own
<1>1. f[x] \in Nat
  OBVIOUS
<1>2. IsFiniteSet(own) /\ Cardinality(own) = f[x]
  <2>1. IsFiniteSet(0 .. f[x] - 1) /\ Cardinality(0 .. f[x] - 1) = f[x]
    <3> DEFINE n == f[x] - 1
    <3>1. 0 \in Int /\ n \in Int /\ f[x] = IF 0 > n THEN 0 ELSE n - 0 + 1
      BY <1>1
    <3> HIDE DEF n
    <3> QED  BY <3>1, FS_Interval DEF n
  <2>2. IsFiniteSet({x}) /\ Cardinality({x}) = 1
    BY FS_Singleton
  <2>3. IsFiniteSet(own) /\ Cardinality(own) = 1 * f[x]
    BY <2>1, <2>2, FS_Product
  <2> QED  BY <1>1, <2>3
<1>3. Units(f, S) = own \cup Units(f, S \ {x})
  <2>1. ASSUME NEW p PROVE p \in Units(f, S) <=> p \in own \/ p \in Units(f, S \ {x})
    BY <1>1 DEF Units
  <2> QED  BY <2>1
<1>4. own \cap Units(f, S \ {x}) = {}
  BY DEF Units
<1> QED  BY <1>2, <1>3, <1>4

LEMMA UnitsFinite ==
    ASSUME NEW f, NEW S, IsFiniteSet(S), \A x \in S : f[x] \in Nat
    PROVE  \A T \in SUBSET S : IsFiniteSet(Units(f, T))
<1> DEFINE P == {T \in SUBSET S : IsFiniteSet(Units(f, T))}
<1>1. {} \in P
  BY FS_EmptySet DEF Units
<1>2. ASSUME NEW T \in SUBSET S, NEW x \in S, T \in P, x \notin T PROVE T \cup {x} \in P
  <2> DEFINE U == T \cup {x}
  <2>1. U \ {x} = T /\ U \in SUBSET S /\ x \in U /\ \A y \in U : f[y] \in Nat
    BY <1>2
  <2> HIDE DEF U
  <2>2. Units(f, U) = Own(f, x) \cup Units(f, T) /\ IsFiniteSet(Own(f, x))
    BY <2>1, UnitsOfOne
  <2>3. IsFiniteSet(Units(f, U))
    BY <1>2, <2>2, FS_Union
  <2> QED  BY <2>1, <2>3 DEF U
<1> HIDE DEF P
<1>3. \A T \in SUBSET S : T \in P
  BY <1>1, <1>2, SubsetInduction
<1> QED  BY <1>3 DEF P

\* A sum of natural numbers is the number of its units.
LEMMA SumIsCardinality ==
    ASSUME NEW f, NEW S, IsFiniteSet(S), \A x \in S : f[x] \in Nat
    PROVE  SumFunctionOnSet(f, S) = Cardinality(Units(f, S))
<1> DEFINE count == [T \in SUBSET S |-> Cardinality(Units(f, T))]
<1>1. ASSUME NEW T \in SUBSET S, T # {}
      PROVE  count[T] = f[Picked(T)] + count[T \ {Picked(T)}]
  <2>1. IsFiniteSet(T) /\ \A y \in T : f[y] \in Nat
    BY FS_Subset
  <2>2. PICK x \in T : x = Picked(T)
    BY <1>1 DEF Picked
  <2> DEFINE own == Own(f, x)
             rest == Units(f, T \ {x})
  <2>3. /\ Units(f, T) = own \cup rest /\ own \cap rest = {}
        /\ IsFiniteSet(own) /\ Cardinality(own) = f[x]
    BY <2>1, UnitsOfOne
  <2>4. IsFiniteSet(rest)
    BY UnitsFinite
  <2> HIDE DEF own
  <2>5. Cardinality(rest) \in Nat
    BY <2>4, FS_CardinalityType
  <2> HIDE DEF rest
  <2>6. Cardinality(own \cup rest) = f[x] + Cardinality(rest)
    <3>1. Cardinality(own \cup rest) = Cardinality(own) + Cardinality(rest) - Cardinality(own \cap rest)
      BY <2>3, <2>4, FS_Union
    <3>2. Cardinality(own \cap rest) = 0
      BY <2>3, FS_EmptySet
    <3> QED  BY <2>1, <2>3, <2>5, <3>1, <3>2
  <2> QED  BY <2>2, <2>3, <2>6 DEF rest
<1>2. count[{}] = 0
  <2>1. Units(f, {}) = {}
    BY DEF Units
  <2> QED  BY <2>1, FS_EmptySet
<1>3. AddsUp(count, f, S)
  <2>1. \A T \in SUBSET S :
           count[T] = IF T = {} THEN 0 ELSE f[Picked(T)] + count[T \ {Picked(T)}]
    BY <1>1, <1>2
  <2>2. count = [T \in SUBSET S |-> count[T]]
    OBVIOUS
  <2> HIDE DEF count
  <2> QED  BY <2>1, <2>2 DEF AddsUp
<1>4. (CHOOSE g : AddsUp(g, f, S)) = count
  <2> HIDE DEF count
  <2> QED  BY <1>3, OneSum
<1> QED  BY <1>4, SumUnfolded

\* What one element adds to a sum.
LEMMA SumWithout ==
    ASSUME NEW f, NEW S, IsFiniteSet(S), \A y \in S : f[y] \in Nat, NEW x \in S
    PROVE  /\ SumFunctionOnSet(f, S) = f[x] + SumFunctionOnSet(f, S \ {x})
           /\ SumFunctionOnSet(f, S) \in Nat /\ SumFunctionOnSet(f, S \ {x}) \in Nat
<1> DEFINE rest == Units(f, S \ {x})
           own == Own(f, x)
<1>1. IsFiniteSet(S \ {x}) /\ \A y \in S \ {x} : f[y] \in Nat
  BY FS_RemoveElement
<1>2. IsFiniteSet(rest)
  BY UnitsFinite
<1>3. /\ Units(f, S) = own \cup rest /\ own \cap rest = {}
      /\ IsFiniteSet(own) /\ Cardinality(own) = f[x]
  BY UnitsOfOne
<1>4. /\ SumFunctionOnSet(f, S) = Cardinality(Units(f, S))
      /\ SumFunctionOnSet(f, S \ {x}) = Cardinality(rest)
  BY <1>1, SumIsCardinality
<1> HIDE DEF rest, own
<1>5. Cardinality(own \cup rest) = Cardinality(own) + Cardinality(rest) - 0
  BY <1>2, <1>3, FS_Union, FS_EmptySet
<1>6. Cardinality(rest) \in Nat /\ f[x] \in Nat
  BY <1>2, FS_CardinalityType
<1> QED  BY <1>3, <1>4, <1>5, <1>6

\* SumWithout, with its hypotheses in one name for the provers.
Summable(f, S) == IsFiniteSet(S) /\ \A y \in S : f[y] \in Nat

LEMMA SumUnfolds ==
    ASSUME NEW f, NEW S, Summable(f, S), NEW x \in S
    PROVE  /\ SumFunctionOnSet(f, S) = f[x] + SumFunctionOnSet(f, S \ {x})
           /\ SumFunctionOnSet(f, S \ {x}) \in Nat
  BY SumWithout DEF Summable

LEMMA SumOfNone == ASSUME NEW f PROVE SumFunctionOnSet(f, {}) = 0
<1>1. Units(f, {}) = {}
  BY DEF Units
<1>2. IsFiniteSet({}) /\ \A x \in {} : f[x] \in Nat
  BY FS_EmptySet
<1> QED  BY <1>1, <1>2, SumIsCardinality, FS_EmptySet

LEMMA SumOfZeros ==
    ASSUME NEW S, IsFiniteSet(S)
    PROVE  SumFunctionOnSet([x \in S |-> 0], S) = 0
<1> DEFINE none == [x \in S |-> 0]
<1>1. \A x \in S : none[x] \in Nat
  OBVIOUS
<1>2. Units(none, S) = {}
  BY DEF Units
<1> HIDE DEF none
<1>3. SumFunctionOnSet(none, S) = 0
  BY <1>1, <1>2, SumIsCardinality, FS_EmptySet
<1> QED  BY <1>3 DEF none

LEMMA SumIsNat ==
    ASSUME NEW f, NEW S, IsFiniteSet(S), \A x \in S : f[x] \in Nat
    PROVE  SumFunctionOnSet(f, S) \in Nat
  BY SumIsCardinality, UnitsFinite, FS_CardinalityType

\* Only the values on the set matter.
LEMMA SameSum ==
    ASSUME NEW f, NEW g, NEW S, IsFiniteSet(S),
           \A x \in S : f[x] \in Nat /\ g[x] = f[x]
    PROVE  SumFunctionOnSet(g, S) = SumFunctionOnSet(f, S)
<1>1. Units(g, S) = Units(f, S)
  BY DEF Units
<1> QED  BY <1>1, SumIsCardinality

\* A sum over fewer elements is no larger.
LEMMA SumOfSubset ==
    ASSUME NEW f, NEW S, IsFiniteSet(S), \A x \in S : f[x] \in Nat, NEW T \in SUBSET S
    PROVE  SumFunctionOnSet(f, T) <= SumFunctionOnSet(f, S)
<1>1. IsFiniteSet(T) /\ IsFiniteSet(Units(f, S)) /\ \A x \in T : f[x] \in Nat
  BY FS_Subset, UnitsFinite
<1>2. Units(f, T) \in SUBSET Units(f, S)
  BY DEF Units
<1> QED  BY <1>1, <1>2, SumIsCardinality, FS_Subset

\* A bound that holds of each element holds of the sums.
LEMMA SumBound ==
    ASSUME NEW f, NEW g, NEW S, IsFiniteSet(S), NEW a \in Nat, NEW b \in Nat,
           \A x \in S : f[x] \in Nat /\ g[x] \in Nat /\ f[x] * a <= g[x] + b
    PROVE  SumFunctionOnSet(f, S) * a <= SumFunctionOnSet(g, S) + b * Cardinality(S)
<1> DEFINE F(T) == SumFunctionOnSet(f, T)
           G(T) == SumFunctionOnSet(g, T)
           P == {T \in SUBSET S : F(T) * a <= G(T) + b * Cardinality(T)}
<1>1. {} \in P
  <2>1. F({}) = 0 /\ G({}) = 0 /\ Cardinality({}) = 0
    BY SumOfNone, FS_EmptySet
  <2> HIDE DEF F, G
  <2> QED  BY <2>1
<1>2. ASSUME NEW T \in SUBSET S, NEW x \in S, T \in P, x \notin T PROVE T \cup {x} \in P
  <2> DEFINE U == T \cup {x}
  <2>1. /\ U \in SUBSET S /\ U \ {x} = T /\ x \in U /\ IsFiniteSet(U) /\ IsFiniteSet(T)
        /\ \A y \in U : f[y] \in Nat /\ g[y] \in Nat
    BY <1>2, FS_Subset
  <2>a. x \in U /\ Summable(f, U) /\ Summable(g, U)
    BY <2>1 DEF Summable
  <2>2. Cardinality(U) = Cardinality(T) + 1 /\ Cardinality(T) \in Nat
    BY <1>2, <2>1, FS_AddElement, FS_CardinalityType
  <2> HIDE DEF U
  <2>3. /\ F(U) = f[x] + F(T) /\ F(T) \in Nat
        /\ G(U) = g[x] + G(T) /\ G(T) \in Nat
    <3>1. F(U) = f[x] + F(U \ {x}) /\ F(U \ {x}) \in Nat
      BY ONLY <2>a, SumUnfolds
    <3>2. G(U) = g[x] + G(U \ {x}) /\ G(U \ {x}) \in Nat
      BY ONLY <2>a, SumUnfolds
    <3> HIDE DEF F, G
    <3> QED  BY ONLY <2>1, <3>1, <3>2
  <2>4. F(T) * a <= G(T) + b * Cardinality(T)
    BY <1>2
  <2> HIDE DEF F, G
  <2>5. F(U) * a = f[x] * a + F(T) * a
    BY <2>3
  <2>6. b * Cardinality(U) = b * Cardinality(T) + b
    BY <2>2
  <2>7. /\ F(T) * a \in Nat /\ f[x] * a \in Nat /\ b * Cardinality(T) \in Nat
        /\ g[x] \in Nat /\ f[x] * a <= g[x] + b
    BY <2>2, <2>3
  <2>8. F(U) * a <= G(U) + b * Cardinality(U)
    BY <2>3, <2>4, <2>5, <2>6, <2>7
  <2> QED  BY <2>1, <2>8 DEF U
<1> HIDE DEF P
<1>3. S \in P
  BY <1>1, <1>2, SubsetInduction
<1> QED  BY <1>3 DEF P

\* What every element is at least, so many times over, the sum is at least.
LEMMA SumAtLeast ==
    ASSUME NEW f, NEW S, IsFiniteSet(S), NEW k \in Nat,
           \A x \in S : f[x] \in Nat /\ k <= f[x]
    PROVE  k * Cardinality(S) <= SumFunctionOnSet(f, S)
<1> DEFINE F(T) == SumFunctionOnSet(f, T)
           P == {T \in SUBSET S : k * Cardinality(T) <= F(T)}
<1>1. {} \in P
  <2>1. F({}) = 0 /\ Cardinality({}) = 0
    BY SumOfNone, FS_EmptySet
  <2> HIDE DEF F
  <2> QED  BY <2>1
<1>2. ASSUME NEW T \in SUBSET S, NEW x \in S, T \in P, x \notin T PROVE T \cup {x} \in P
  <2> DEFINE U == T \cup {x}
  <2>1. /\ U \in SUBSET S /\ U \ {x} = T /\ x \in U /\ IsFiniteSet(U) /\ IsFiniteSet(T)
        /\ \A y \in U : f[y] \in Nat
    BY <1>2, FS_Subset
  <2>2. Cardinality(U) = Cardinality(T) + 1 /\ Cardinality(T) \in Nat
    BY <1>2, <2>1, FS_AddElement, FS_CardinalityType
  <2> HIDE DEF U
  <2>3. F(U) = f[x] + F(T) /\ F(T) \in Nat
    BY <2>1, SumWithout
  <2>4. k * Cardinality(T) <= F(T) /\ f[x] \in Nat /\ k <= f[x]
    BY <1>2
  <2> HIDE DEF F
  <2>5. k * Cardinality(U) = k * Cardinality(T) + k /\ k * Cardinality(T) \in Nat
    BY <2>2
  <2>6. k * Cardinality(U) <= F(U)
    BY <2>3, <2>4, <2>5
  <2> QED  BY <2>1, <2>6 DEF U
<1> HIDE DEF P
<1>3. S \in P
  BY <1>1, <1>2, SubsetInduction
<1> QED  BY <1>3 DEF P

\* A sum grows by at most b for each element whose value grows by at most b.
LEMMA SumGrows ==
    ASSUME NEW f, NEW g, NEW S, IsFiniteSet(S), NEW R \in SUBSET S, NEW b \in Nat,
           \A x \in S : f[x] \in Nat /\ g[x] \in Nat,
           \A x \in R : g[x] <= f[x] + b, \A x \in S \ R : g[x] <= f[x]
    PROVE  SumFunctionOnSet(g, S) <= SumFunctionOnSet(f, S) + b * Cardinality(R)
<1> DEFINE F(T) == SumFunctionOnSet(f, T)
           G(T) == SumFunctionOnSet(g, T)
           N(T) == Cardinality(T \cap R)
           P == {T \in SUBSET S : G(T) <= F(T) + b * N(T)}
<1>1. {} \in P
  <2>1. F({}) = 0 /\ G({}) = 0 /\ N({}) = 0
    BY SumOfNone, FS_EmptySet
  <2> HIDE DEF F, G, N
  <2> QED  BY <2>1
<1>2. ASSUME NEW T \in SUBSET S, NEW x \in S, T \in P, x \notin T PROVE T \cup {x} \in P
  <2> DEFINE U == T \cup {x}
  <2>1. /\ U \in SUBSET S /\ U \ {x} = T /\ x \in U /\ IsFiniteSet(U)
        /\ \A y \in U : f[y] \in Nat /\ g[y] \in Nat
    BY <1>2, FS_Subset
  <2>a. x \in U /\ Summable(f, U) /\ Summable(g, U)
    BY <2>1 DEF Summable
  <2>2. N(T) \in Nat /\ N(U) = IF x \in R THEN N(T) + 1 ELSE N(T)
    <3>1. IsFiniteSet(T \cap R)
      BY FS_Subset
    <3>2. CASE x \in R
      <4>1. U \cap R = (T \cap R) \cup {x} /\ x \notin T \cap R
        BY <1>2, <3>2
      <4> QED  BY <3>1, <3>2, <4>1, FS_AddElement, FS_CardinalityType
    <3>3. CASE x \notin R
      <4>1. U \cap R = T \cap R
        BY <3>3
      <4> QED  BY <3>1, <3>3, <4>1, FS_CardinalityType
    <3> QED  BY <3>2, <3>3
  <2> HIDE DEF U
  <2>3. F(U) = f[x] + F(T) /\ F(T) \in Nat
    <3>1. /\ SumFunctionOnSet(f, U) = f[x] + SumFunctionOnSet(f, U \ {x})
          /\ SumFunctionOnSet(f, U \ {x}) \in Nat
      BY ONLY <2>a, SumUnfolds
    <3> QED  BY ONLY <2>1, <3>1
  <2>4. G(U) = g[x] + G(T) /\ G(T) \in Nat
    <3>1. /\ SumFunctionOnSet(g, U) = g[x] + SumFunctionOnSet(g, U \ {x})
          /\ SumFunctionOnSet(g, U \ {x}) \in Nat
      BY ONLY <2>a, SumUnfolds
    <3> QED  BY ONLY <2>1, <3>1
  <2>5. G(T) <= F(T) + b * N(T)
    BY <1>2
  <2>6. f[x] \in Nat /\ g[x] \in Nat /\ g[x] <= IF x \in R THEN f[x] + b ELSE f[x]
    OBVIOUS
  <2> HIDE DEF F, G, N
  <2>7. b * N(U) = IF x \in R THEN b * N(T) + b ELSE b * N(T)
    BY <2>2
  <2>8. b * N(T) \in Nat
    BY <2>2
  <2> DEFINE p == b * N(T)
             u == b * N(U)
  <2>9. G(U) <= F(U) + u
    <3>1. u = IF x \in R THEN p + b ELSE p
      BY <2>7
    <3>2. p \in Nat /\ G(T) <= F(T) + p
      BY <2>5, <2>8
    <3> HIDE DEF p, u
    <3> QED  BY <2>3, <2>4, <2>6, <3>1, <3>2
  <2> QED  BY <2>1, <2>9 DEF U
<1> HIDE DEF P
<1>3. S \in P
  BY <1>1, <1>2, SubsetInduction
<1>4. S \cap R = R
  OBVIOUS
<1> QED  BY <1>3, <1>4 DEF P

\* A linear inequality that holds of each element holds of the sums.
LEMMA SumScaled ==
    ASSUME NEW f, NEW g, NEW S, IsFiniteSet(S), NEW a \in Nat, NEW b \in Nat,
           \A x \in S : f[x] \in Nat /\ g[x] \in Nat /\ a * f[x] <= b * g[x]
    PROVE  a * SumFunctionOnSet(f, S) <= b * SumFunctionOnSet(g, S)
<1> DEFINE F(T) == SumFunctionOnSet(f, T)
           G(T) == SumFunctionOnSet(g, T)
           P == {T \in SUBSET S : a * F(T) <= b * G(T)}
<1>1. {} \in P
  <2>1. F({}) = 0 /\ G({}) = 0
    BY SumOfNone
  <2> HIDE DEF F, G
  <2> QED  BY <2>1
<1>2. ASSUME NEW T \in SUBSET S, NEW x \in S, T \in P, x \notin T PROVE T \cup {x} \in P
  <2> DEFINE U == T \cup {x}
  <2>1. /\ U \in SUBSET S /\ U \ {x} = T /\ x \in U /\ IsFiniteSet(U)
        /\ \A y \in U : f[y] \in Nat /\ g[y] \in Nat
    BY <1>2, FS_Subset
  <2>a. x \in U /\ Summable(f, U) /\ Summable(g, U)
    BY <2>1 DEF Summable
  <2> HIDE DEF U
  <2>3. F(U) = f[x] + F(T) /\ F(T) \in Nat
    <3>1. /\ SumFunctionOnSet(f, U) = f[x] + SumFunctionOnSet(f, U \ {x})
          /\ SumFunctionOnSet(f, U \ {x}) \in Nat
      BY ONLY <2>a, SumUnfolds
    <3> QED  BY ONLY <2>1, <3>1
  <2>4. G(U) = g[x] + G(T) /\ G(T) \in Nat
    <3>1. /\ SumFunctionOnSet(g, U) = g[x] + SumFunctionOnSet(g, U \ {x})
          /\ SumFunctionOnSet(g, U \ {x}) \in Nat
      BY ONLY <2>a, SumUnfolds
    <3> QED  BY ONLY <2>1, <3>1
  <2>5. a * F(T) <= b * G(T)
    BY <1>2
  <2> HIDE DEF F, G
  <2>6. a * F(U) = a * f[x] + a * F(T) /\ b * G(U) = b * g[x] + b * G(T)
    BY <2>3, <2>4
  <2>7. /\ a * f[x] \in Nat /\ a * F(T) \in Nat /\ b * g[x] \in Nat /\ b * G(T) \in Nat
        /\ a * f[x] <= b * g[x]
    BY <2>3, <2>4
  <2>8. a * F(U) <= b * G(U)
    BY ONLY <2>5, <2>6, <2>7
  <2> QED  BY <2>1, <2>8 DEF U
<1> HIDE DEF P
<1>3. S \in P
  BY <1>1, <1>2, SubsetInduction
<1> QED  BY <1>3 DEF P
=============================================================================
