--------------------------- MODULE PageTableProofs ---------------------------
(***************************************************************************)
(* Proofs, for every pool size, block size and set of threads and          *)
(* sequences, of what the TLC runs of PageTable check on small instances;  *)
(* then that what the kernels are launched with stays true until its       *)
(* sequence is freed, for every batch.                                     *)
(***************************************************************************)
EXTENDS KernelMetadata, VRAMSaturation, DataLemmas

-----------------------------------------------------------------------------
(* Arithmetic of blocks *)

\* Division by a positive number, characterised without division.
LEMMA DivBounds ==
    ASSUME NEW a \in Nat, NEW b \in Nat \ {0}
    PROVE  /\ a \div b \in Nat
           /\ b * (a \div b) <= a
           /\ a < b * (a \div b) + b
  OBVIOUS

LEMMA DivMonotone ==
    ASSUME NEW a \in Nat, NEW c \in Nat, a <= c, NEW b \in Nat \ {0}
    PROVE  a \div b <= c \div b
  OBVIOUS

LEMMA BlocksForMonotone ==
    ASSUME NEW m \in Nat, NEW n \in Nat, m <= n
    PROVE  /\ BlocksFor(m) \in Nat
           /\ BlocksFor(m) <= BlocksFor(n)
  BY PoolAssumption, DivMonotone, DivBounds DEF BlocksFor

LEMMA PositionInBlocks ==
    ASSUME NEW n \in Nat, NEW p \in 0 .. n - 1
    PROVE  p \div BlockSize + 1 \in 1 .. BlocksFor(n)
  BY PoolAssumption, DivMonotone, DivBounds DEF BlocksFor

-----------------------------------------------------------------------------
(* Sequences of blocks *)

LEMMA ConcatHolds ==
    ASSUME NEW S, NEW p \in Seq(S), NEW q \in Seq(S)
    PROVE  /\ NoRepeat(p) /\ NoRepeat(q) /\ Apart(p, q) => NoRepeat(p \o q)
           /\ \A r : Apart(p, r) /\ Apart(q, r) => Apart(p \o q, r)
           /\ \A r : Apart(r, p) /\ Apart(r, q) => Apart(r, p \o q)
           /\ \A b : In(b, p) \/ In(b, q) => In(b, p \o q)
<1>1. /\ Len(p) \in Nat /\ Len(q) \in Nat /\ Len(p \o q) = Len(p) + Len(q)
      /\ DOMAIN p = 1 .. Len(p) /\ DOMAIN q = 1 .. Len(q)
      /\ DOMAIN (p \o q) = 1 .. Len(p) + Len(q)
  OBVIOUS
<1>2. \A i \in 1 .. Len(p) : (p \o q)[i] = p[i]
  OBVIOUS
<1>3. \A i \in 1 .. Len(q) : (p \o q)[Len(p) + i] = q[i]
  OBVIOUS
<1>4. \A i \in DOMAIN (p \o q) :
         i \in DOMAIN p \/ \E j \in DOMAIN q : i = Len(p) + j
  <2> SUFFICES ASSUME NEW i \in 1 .. Len(p) + Len(q), i \notin 1 .. Len(p)
               PROVE  i - Len(p) \in 1 .. Len(q) /\ i = Len(p) + (i - Len(p))
    BY <1>1
  <2> QED  BY <1>1
<1>5. NoRepeat(p) /\ NoRepeat(q) /\ Apart(p, q) => NoRepeat(p \o q)
  BY <1>1, <1>2, <1>3, <1>4 DEF NoRepeat, Apart
<1>6. \A r : Apart(p, r) /\ Apart(q, r) => Apart(p \o q, r)
  BY <1>1, <1>2, <1>3, <1>4 DEF Apart
<1>7. \A r : Apart(r, p) /\ Apart(r, q) => Apart(r, p \o q)
  BY <1>1, <1>2, <1>3, <1>4 DEF Apart
<1>8. \A b : In(b, p) \/ In(b, q) => In(b, p \o q)
  <2> TAKE b
  <2>1. CASE In(b, p)
    BY <1>1, <1>2, <2>1 DEF In
  <2>2. CASE In(b, q)
    <3>1. PICK i \in 1 .. Len(q) : q[i] = b
      BY <1>1, <2>2 DEF In
    <3>2. Len(p) + i \in 1 .. Len(p) + Len(q)
      BY <1>1
    <3> QED  BY <1>1, <1>3, <3>1, <3>2 DEF In
  <2> QED  BY <2>1, <2>2
<1> QED  BY <1>5, <1>6, <1>7, <1>8

\* allocate_blocks splits the stack: the blocks it returns and those it
\* leaves are apart, and together they are the blocks that were there.
LEMMA AllocationSplitsStack ==
    ASSUME NEW S, stack \in Seq(S), NEW k \in 0 .. Len(stack)
    PROVE  /\ Remaining(k) \in Seq(S) /\ Len(Remaining(k)) = Len(stack) - k
           /\ Granted(k) \in Seq(S) /\ Len(Granted(k)) = k
           /\ NoRepeat(stack) => /\ NoRepeat(Remaining(k)) /\ NoRepeat(Granted(k))
                                 /\ Apart(Remaining(k), Granted(k))
           /\ \A r : Apart(stack, r) => Apart(Remaining(k), r) /\ Apart(Granted(k), r)
           /\ \A b : In(b, stack) => In(b, Remaining(k)) \/ In(b, Granted(k))
<1> DEFINE n == Len(stack)
<1>1. n \in Nat /\ DOMAIN stack = 1 .. n
  OBVIOUS
<1>2. /\ Remaining(k) \in Seq(S) /\ Len(Remaining(k)) = n - k
      /\ DOMAIN Remaining(k) = 1 .. n - k
      /\ \A i \in 1 .. n - k : Remaining(k)[i] = stack[i]
  <2>1. n - k \in 0 .. n
    BY <1>1
  <2>2. \A i \in 1 .. n - k : stack[i] \in S
    BY <1>1, <2>1
  <2>3. /\ Remaining(k) \in Seq(S) /\ Len(Remaining(k)) = n - k
        /\ \A i \in 1 .. (n - k) - 1 + 1 : Remaining(k)[i] = stack[1 + i - 1]
    BY <2>1, <2>2, SubSeqProperties DEF Remaining
  <2> QED  BY <1>1, <2>1, <2>3
<1>3. /\ DOMAIN Granted(k) = 1 .. k
      /\ \A i \in 1 .. k : Granted(k)[i] = stack[n - i + 1]
  BY <1>1 DEF Granted
<1> DEFINE top(i) == n - i + 1
<1> HIDE DEF top
<1>4. /\ \A i \in 1 .. k : top(i) \in n - k + 1 .. n /\ Granted(k)[i] = stack[top(i)]
      /\ \A i, j \in 1 .. k : top(i) = top(j) => i = j
      /\ \A j \in n - k + 1 .. n : top(j) \in 1 .. k /\ top(top(j)) = j
      /\ n - k + 1 .. n \subseteq 1 .. n /\ 1 .. n - k \subseteq 1 .. n
      /\ \A i \in 1 .. n - k, j \in n - k + 1 .. n : i # j
      /\ \A i \in 1 .. n : i \in 1 .. n - k \/ i \in n - k + 1 .. n
  <2>1. n \in Int /\ k \in Int /\ 0 <= k /\ k <= n
    BY <1>1
  <2> HIDE DEF n
  <2>2. \A i \in 1 .. k : top(i) \in n - k + 1 .. n
    BY <2>1 DEF top
  <2>3. \A i, j \in 1 .. k : top(i) = top(j) => i = j
    BY <2>1 DEF top
  <2>4. \A j \in n - k + 1 .. n : top(j) \in 1 .. k /\ top(top(j)) = j
    BY <2>1 DEF top
  <2>5. n - k + 1 .. n \subseteq 1 .. n /\ 1 .. n - k \subseteq 1 .. n
    BY <2>1
  <2>6. /\ \A i \in 1 .. n - k, j \in n - k + 1 .. n : i # j
        /\ \A i \in 1 .. n : i \in 1 .. n - k \/ i \in n - k + 1 .. n
    BY <2>1
  <2>7. \A i \in 1 .. k : Granted(k)[i] = stack[top(i)]
    BY <1>3 DEF top
  <2> QED  BY <2>2, <2>3, <2>4, <2>5, <2>6, <2>7
<1>5. Granted(k) \in Seq(S) /\ Len(Granted(k)) = k
  <2>1. Granted(k) \in [1 .. k -> S]
    BY <1>1, <1>4 DEF Granted, top
  <2> QED  BY <2>1, k \in Nat
<1> HIDE DEF n
<1>6. ASSUME NoRepeat(stack)
      PROVE  /\ NoRepeat(Remaining(k)) /\ NoRepeat(Granted(k))
             /\ Apart(Remaining(k), Granted(k))
  <2>1. NoRepeat(Remaining(k))
    BY <1>1, <1>2, <1>4, <1>6 DEF NoRepeat
  <2>2. NoRepeat(Granted(k))
    <3> SUFFICES ASSUME NEW i \in 1 .. k, NEW j \in 1 .. k, Granted(k)[i] = Granted(k)[j]
                 PROVE  i = j
      BY <1>3 DEF NoRepeat
    <3>1. top(i) \in DOMAIN stack /\ top(j) \in DOMAIN stack
      BY <1>1, <1>4
    <3>2. top(i) = top(j)
      BY <1>4, <1>6, <3>1 DEF NoRepeat
    <3> QED  BY <1>4, <3>2
  <2>3. Apart(Remaining(k), Granted(k))
    BY <1>1, <1>2, <1>3, <1>4, <1>6 DEF NoRepeat, Apart
  <2> QED  BY <2>1, <2>2, <2>3
<1>7. \A r : Apart(stack, r) => Apart(Remaining(k), r) /\ Apart(Granted(k), r)
  <2> SUFFICES ASSUME NEW r, Apart(stack, r)
               PROVE  Apart(Remaining(k), r) /\ Apart(Granted(k), r)
    OBVIOUS
  <2>1. Apart(Remaining(k), r)
    BY <1>1, <1>2, <1>4 DEF Apart
  <2>2. Apart(Granted(k), r)
    <3> SUFFICES ASSUME NEW i \in 1 .. k, NEW j \in DOMAIN r
                 PROVE  Granted(k)[i] # r[j]
      BY <1>3 DEF Apart
    <3>1. top(i) \in DOMAIN stack
      BY <1>1, <1>4
    <3> QED  BY <1>4, <3>1 DEF Apart
  <2> QED  BY <2>1, <2>2
<1>8. \A b : In(b, stack) => In(b, Remaining(k)) \/ In(b, Granted(k))
  <2> SUFFICES ASSUME NEW i \in 1 .. n
               PROVE  In(stack[i], Remaining(k)) \/ In(stack[i], Granted(k))
    BY <1>1 DEF In
  <2>1. CASE i \in 1 .. n - k
    BY <1>2, <2>1 DEF In
  <2>2. CASE i \in n - k + 1 .. n
    <3>1. top(i) \in 1 .. k /\ Granted(k)[top(i)] = stack[i]
      BY <1>4, <2>2
    <3> QED  BY <1>3, <3>1 DEF In
  <2> QED  BY <1>4, <2>1, <2>2
<1> QED  BY <1>2, <1>5, <1>6, <1>7, <1>8 DEF n

-----------------------------------------------------------------------------
(* The inductive invariant *)

\* BlocksMatchTokens makes EraseEntry hand over exactly the blocks that the
\* abstract specification counts; the other parts support each other.
IInv == TypeOK /\ BlocksExclusive /\ NoBlockLost /\ BlocksMatchTokens

LEMMA InitialState == Init => IInv
<1> SUFFICES ASSUME Init PROVE IInv
  OBVIOUS
<1>1. /\ stack \in Seq(Blocks) /\ DOMAIN stack = 1 .. NumBlocks
      /\ \A i \in 1 .. NumBlocks : stack[i] = NumBlocks - i
  <2>1. InitialStack \in [1 .. NumBlocks -> Blocks]
    BY PoolAssumption DEF InitialStack, Blocks
  <2> QED  BY <2>1, PoolAssumption DEF Init, InitialStack
<1>2. Registered = {} /\ limbo = [t \in Threads |-> <<>>]
  BY DEF Init, Registered
<1>3. TypeOK
  BY <1>1, <1>2 DEF Init, TypeOK, Registered
<1>4. BlocksExclusive
  BY <1>1, <1>2, PoolAssumption DEF BlocksExclusive, NoRepeat, Apart
<1>5. NoBlockLost
  <2> SUFFICES ASSUME NEW b \in Blocks PROVE In(b, stack)
    BY DEF NoBlockLost
  <2>1. NumBlocks - b \in 1 .. NumBlocks /\ NumBlocks - (NumBlocks - b) = b
    BY PoolAssumption DEF Blocks
  <2> QED  BY <1>1, <2>1 DEF In
<1>6. BlocksMatchTokens
  BY <1>2 DEF BlocksMatchTokens
<1> QED  BY <1>3, <1>4, <1>5, <1>6 DEF IInv

LEMMA RegisterPreserves ==
    ASSUME IInv, NEW t \in Threads, NEW s \in Seqs, RegisterSequence(t, s)
    PROVE  IInv'
<1>1. /\ Registered' = Registered \cup {s} /\ s \notin Registered
      /\ table'[s] = [tokens |-> 0, blocks |-> <<>>]
      /\ \A r \in Registered : table'[r] = table[r]
      /\ stack' = stack /\ limbo' = limbo
  BY DEF RegisterSequence, Registered
<1>2. TypeOK'
  BY <1>1 DEF IInv, TypeOK, RegisterSequence, Registered, Context
<1>3. BlocksExclusive'
  BY <1>1 DEF IInv, BlocksExclusive, NoRepeat, Apart
<1>4. NoBlockLost'
  BY <1>1 DEF IInv, NoBlockLost, In
<1>5. BlocksMatchTokens'
  <2>1. BlocksFor(0) = 0
    BY PoolAssumption, DivBounds DEF BlocksFor
  <2> QED  BY <1>1, <2>1 DEF IInv, BlocksMatchTokens, BlocksFor
<1> QED  BY <1>2, <1>3, <1>4, <1>5 DEF IInv

LEMMA ErasePreserves ==
    ASSUME IInv, NEW t \in Threads, NEW s \in Seqs, EraseEntry(t, s)
    PROVE  IInv'
<1>1. /\ Registered' = Registered \ {s} /\ s \in Registered
      /\ \A r \in Registered \ {s} : table'[r] = table[r]
      /\ limbo[t] = <<>> /\ limbo'[t] = table[s].blocks
      /\ \A u \in Threads \ {t} : limbo'[u] = limbo[u]
      /\ stack' = stack
  BY DEF EraseEntry, Registered, IInv, TypeOK
<1>2. TypeOK'
  BY <1>1 DEF IInv, TypeOK, EraseEntry, Registered, Context
<1>3. BlocksExclusive'
  <2>1. Apart(table[s].blocks, stack) /\ \A r \in Registered \ {s} :
            Apart(table[s].blocks, table[r].blocks)
    BY <1>1 DEF IInv, BlocksExclusive, Apart
  <2>2. \A u \in Threads : Apart(limbo[u], table[s].blocks)
    BY <1>1 DEF IInv, BlocksExclusive
  <2> QED  BY <1>1, <2>1, <2>2 DEF IInv, BlocksExclusive, NoRepeat, Apart
<1>4. NoBlockLost'
  BY <1>1 DEF IInv, NoBlockLost, In
<1>5. BlocksMatchTokens'
  BY <1>1 DEF IInv, BlocksMatchTokens, BlocksFor
<1> QED  BY <1>2, <1>3, <1>4, <1>5 DEF IInv

LEMMA ReturnPreserves ==
    ASSUME IInv, NEW t \in Threads, ReturnBlocks(t)
    PROVE  IInv'
<1>1. /\ stack' = stack \o limbo[t] /\ limbo'[t] = <<>>
      /\ \A u \in Threads \ {t} : limbo'[u] = limbo[u]
      /\ table' = table /\ Registered' = Registered
      /\ stack \in Seq(Blocks) /\ limbo[t] \in Seq(Blocks)
  BY DEF ReturnBlocks, Registered, IInv, TypeOK
<1>2. TypeOK'
  BY <1>1 DEF IInv, TypeOK, ReturnBlocks, Registered, Context
<1>3. BlocksExclusive'
  <2>1. NoRepeat(stack')
    BY <1>1, ConcatHolds DEF IInv, BlocksExclusive
  <2>2. \A u \in Threads : NoRepeat(limbo'[u]) /\ Apart(stack', limbo'[u])
    <3>1. CASE t \in Threads
      <4>1. NoRepeat(limbo'[t]) /\ Apart(stack', limbo'[t])
        BY <1>1 DEF NoRepeat, Apart
      <4>2. \A u \in Threads \ {t} : NoRepeat(limbo[u]) /\ Apart(stack \o limbo[t], limbo[u])
        BY <1>1, ConcatHolds DEF IInv, BlocksExclusive
      <4> QED  BY <1>1, <4>1, <4>2
    <3> QED  BY <3>1
  <2>3. \A s \in Registered : NoRepeat(table[s].blocks) /\ Apart(stack', table[s].blocks)
    BY <1>1, ConcatHolds DEF IInv, BlocksExclusive
  <2>4. \A u, v \in Threads : u # v => Apart(limbo'[u], limbo'[v])
    BY <1>1 DEF IInv, BlocksExclusive, Apart
  <2>5. \A u \in Threads, s \in Registered : Apart(limbo'[u], table[s].blocks)
    BY <1>1 DEF IInv, BlocksExclusive, Apart
  <2> QED  BY <1>1, <2>1, <2>2, <2>3, <2>4, <2>5 DEF IInv, BlocksExclusive
<1>4. NoBlockLost'
  <2>1. \A b : In(b, stack) \/ In(b, limbo[t]) => In(b, stack')
    BY <1>1, ConcatHolds
  <2> QED  BY <1>1, <2>1 DEF IInv, NoBlockLost
<1>5. BlocksMatchTokens'
  BY <1>1 DEF IInv, BlocksMatchTokens, BlocksFor
<1> QED  BY <1>2, <1>3, <1>4, <1>5 DEF IInv

\* The facts about append_tokens that every conjunct needs.
LEMMA AppendEffect ==
    ASSUME IInv, NEW t \in Threads, NEW s \in Seqs, NEW n \in AppendSizes,
           AppendTokens(t, s, n)
    PROVE  LET k == BlocksNeeded(s, n) IN
           /\ s \in Registered /\ Registered' = Registered
           /\ k \in 0 .. Len(stack) /\ stack \in Seq(Blocks)
           /\ stack' = Remaining(k) /\ limbo' = limbo
           /\ table[s] \in Context /\ n \in Nat
           /\ table'[s] = [tokens |-> table[s].tokens + n,
                           blocks |-> table[s].blocks \o Granted(k)]
           /\ \A r \in Registered \ {s} : table'[r] = table[r]
<1>1. n \in Nat /\ table[s] \in Context /\ s \in Registered
  BY CallAssumption DEF IInv, TypeOK, AppendTokens, Registered
<1>2. BlocksNeeded(s, n) \in Nat
  <2>1. table[s].tokens \in Nat
    BY <1>1 DEF Context
  <2> DEFINE m == table[s].tokens
             a == BlocksFor(m)
             b == BlocksFor(m + n)
  <2> HIDE DEF m
  <2>2. a \in Nat /\ b \in Nat /\ a <= b
    <3>1. m \in Nat /\ m + n \in Nat /\ m <= m + n
      BY <1>1, <2>1 DEF m
    <3> QED  BY <3>1, BlocksForMonotone
  <2> HIDE DEF a, b
  <2>3. b - a \in Nat
    BY <2>2
  <2> QED  BY <2>3 DEF BlocksNeeded, a, b, m
<1>3. stack \in Seq(Blocks)
  BY DEF IInv, TypeOK
<1>4. table \in [Registered -> Context]
  BY DEF IInv, TypeOK
<1>5. /\ Registered' = Registered
      /\ table'[s] = [tokens |-> table[s].tokens + n,
                      blocks |-> table[s].blocks \o Granted(BlocksNeeded(s, n))]
      /\ \A r \in Registered \ {s} : table'[r] = table[r]
  BY <1>1, <1>4 DEF AppendTokens, Registered
<1> QED  BY <1>1, <1>2, <1>3, <1>5 DEF AppendTokens

LEMMA AppendPreserves ==
    ASSUME IInv, NEW t \in Threads, NEW s \in Seqs, NEW n \in AppendSizes,
           AppendTokens(t, s, n)
    PROVE  IInv'
<1> DEFINE k == BlocksNeeded(s, n)
           new == table[s].blocks \o Granted(k)
<1>1. /\ s \in Registered /\ Registered' = Registered
      /\ k \in 0 .. Len(stack) /\ stack \in Seq(Blocks)
      /\ stack' = Remaining(k) /\ limbo' = limbo
      /\ table[s] \in Context /\ n \in Nat
      /\ table'[s] = [tokens |-> table[s].tokens + n, blocks |-> new]
      /\ \A r \in Registered \ {s} : table'[r] = table[r]
  BY AppendEffect
<1>2. /\ Remaining(k) \in Seq(Blocks)
      /\ Granted(k) \in Seq(Blocks) /\ Len(Granted(k)) = k
      /\ NoRepeat(Remaining(k)) /\ NoRepeat(Granted(k))
      /\ Apart(Remaining(k), Granted(k))
      /\ \A r : Apart(stack, r) => Apart(Remaining(k), r) /\ Apart(Granted(k), r)
      /\ \A b : In(b, stack) => In(b, Remaining(k)) \/ In(b, Granted(k))
  BY <1>1, AllocationSplitsStack DEF IInv, BlocksExclusive
<1>3. table[s].blocks \in Seq(Blocks) /\ table[s].tokens \in Nat
  BY <1>1 DEF Context
<1> HIDE DEF k
<1>4. /\ new \in Seq(Blocks) /\ Len(new) = Len(table[s].blocks) + k
      /\ NoRepeat(table[s].blocks) /\ Apart(table[s].blocks, Granted(k)) => NoRepeat(new)
      /\ \A r : Apart(table[s].blocks, r) /\ Apart(Granted(k), r) => Apart(new, r)
      /\ \A r : Apart(r, table[s].blocks) /\ Apart(r, Granted(k)) => Apart(r, new)
      /\ \A b : In(b, table[s].blocks) \/ In(b, Granted(k)) => In(b, new)
  <2>1. Granted(k) \in Seq(Blocks) /\ table[s].blocks \in Seq(Blocks)
    BY <1>2, <1>3
  <2>2. new \in Seq(Blocks) /\ Len(new) = Len(table[s].blocks) + k
    <3>1. \A q, r \in Seq(Blocks) : q \o r \in Seq(Blocks) /\ Len(q \o r) = Len(q) + Len(r)
      OBVIOUS
    <3> QED  BY <1>2, <2>1, <3>1
  <2> HIDE DEF new
  <2>3. new = table[s].blocks \o Granted(k)
    BY DEF new
  <2> QED  BY <1>2, <2>1, <2>2, <2>3, ConcatHolds
<1> HIDE DEF new
<1>5. TypeOK'
  <2>1. table'[s] \in Context
    BY <1>1, <1>3, <1>4 DEF Context
  <2>2. table' \in [Registered' -> Context]
    BY <1>1, <2>1 DEF IInv, TypeOK, AppendTokens, Registered
  <2> QED  BY <1>1, <1>2, <2>2 DEF IInv, TypeOK
<1>6. BlocksExclusive'
  <2>0. \A p, q : Apart(p, q) => Apart(q, p)
    BY DEF Apart
  <2>1. Apart(Granted(k), table[s].blocks) /\ Apart(table[s].blocks, Granted(k))
    BY <1>1, <1>2, <2>0 DEF IInv, BlocksExclusive
  <2>2. NoRepeat(new)
    BY <1>1, <1>4, <2>1 DEF IInv, BlocksExclusive
  <2>3. Apart(Remaining(k), new)
    BY <1>1, <1>2, <1>4 DEF IInv, BlocksExclusive
  <2>4. \A u \in Threads : Apart(Remaining(k), limbo[u]) /\ Apart(limbo[u], new)
    BY <1>1, <1>2, <1>4, <2>0 DEF IInv, BlocksExclusive
  <2>5. \A r \in Registered \ {s} :
            /\ Apart(Remaining(k), table[r].blocks)
            /\ Apart(new, table[r].blocks) /\ Apart(table[r].blocks, new)
    BY <1>1, <1>2, <1>4, <2>0 DEF IInv, BlocksExclusive
  <2>6. \A u \in Threads : NoRepeat(limbo'[u]) /\ Apart(stack', limbo'[u])
    BY <1>1, <2>4 DEF IInv, BlocksExclusive
  <2>7. \A r \in Registered' :
           NoRepeat(table'[r].blocks) /\ Apart(stack', table'[r].blocks)
    BY <1>1, <2>2, <2>3, <2>5 DEF IInv, BlocksExclusive
  <2>8. \A q, r \in Registered' : q # r => Apart(table'[q].blocks, table'[r].blocks)
    BY <1>1, <2>5 DEF IInv, BlocksExclusive
  <2>9. \A u \in Threads, r \in Registered' : Apart(limbo'[u], table'[r].blocks)
    BY <1>1, <2>4 DEF IInv, BlocksExclusive
  <2> QED  BY <1>1, <1>2, <2>6, <2>7, <2>8, <2>9 DEF IInv, BlocksExclusive
<1>7. NoBlockLost'
  <2> SUFFICES ASSUME NEW b \in Blocks
               PROVE  \/ In(b, stack')
                      \/ \E u \in Threads : In(b, limbo'[u])
                      \/ \E r \in Registered' : In(b, table'[r].blocks)
    BY DEF NoBlockLost
  <2>1. CASE In(b, stack)
    BY <1>1, <1>2, <1>4, <2>1
  <2>2. CASE \E u \in Threads : In(b, limbo[u])
    BY <1>1, <2>2
  <2>3. CASE \E r \in Registered : In(b, table[r].blocks)
    <3>1. In(b, table[s].blocks) => In(b, table'[s].blocks)
      BY <1>1, <1>4
    <3> QED  BY <1>1, <2>3, <3>1
  <2> QED  BY <2>1, <2>2, <2>3 DEF IInv, NoBlockLost
<1>8. BlocksMatchTokens'
  <2>1. Len(table[s].blocks) = BlocksFor(table[s].tokens)
    BY <1>1 DEF IInv, BlocksMatchTokens
  <2>2. /\ BlocksFor(table[s].tokens) \in Nat /\ BlocksFor(table[s].tokens + n) \in Nat
    <3>1. table[s].tokens + n \in Nat
      BY <1>1, <1>3
    <3> QED  BY <1>3, <3>1, BlocksForMonotone
  <2>3. Len(new) = BlocksFor(table[s].tokens + n)
    BY <1>4, <2>1, <2>2 DEF k, BlocksNeeded
  <2> QED  BY <1>1, <2>3 DEF IInv, BlocksMatchTokens, BlocksFor
<1> QED  BY <1>5, <1>6, <1>7, <1>8 DEF IInv

-----------------------------------------------------------------------------
(* The invariants, for every behaviour *)

\* IInv holds initially and every step keeps it.
THEOREM Invariance == Spec => []IInv
<1>1. Init => IInv
  BY InitialState
<1>2. IInv /\ [Next]_vars => IInv'
  <2> SUFFICES ASSUME IInv, [Next]_vars PROVE IInv'
    OBVIOUS
  <2>1. ASSUME NEW t \in Threads, ReturnBlocks(t) PROVE IInv'
    BY <2>1, ReturnPreserves
  <2>2. ASSUME NEW t \in Threads, NEW s \in Seqs, RegisterSequence(t, s) PROVE IInv'
    BY <2>2, RegisterPreserves
  <2>3. ASSUME NEW t \in Threads, NEW s \in Seqs, EraseEntry(t, s) PROVE IInv'
    BY <2>3, ErasePreserves
  <2>4. ASSUME NEW t \in Threads, NEW s \in Seqs, NEW n \in AppendSizes,
               AppendTokens(t, s, n)
        PROVE  IInv'
    BY <2>4, AppendPreserves
  <2>5. CASE UNCHANGED vars
    BY <2>5 DEF vars, IInv, TypeOK, BlocksExclusive, NoBlockLost, BlocksMatchTokens,
                NoRepeat, Apart, In, Registered, BlocksFor, Context
  <2> QED  BY <2>1, <2>2, <2>3, <2>4, <2>5 DEF Next
<1> QED  BY <1>1, <1>2, PTL DEF Spec

\* The state variables keep their types, whatever the threads do.
THEOREM TypeCorrect == Spec => []TypeOK
  BY Invariance, PTL DEF IInv

\* A physical block never has two holders, at any interleaving of
\* free_sequence's two critical sections with the other calls.
THEOREM Exclusive == Spec => []BlocksExclusive
  BY Invariance, PTL DEF IInv

\* No interleaving leaks a block.
THEOREM Conservation == Spec => []NoBlockLost
  BY Invariance, PTL DEF IInv

\* A sequence always holds exactly ceil(tokens / block_size) blocks.
THEOREM ExactSize == Spec => []BlocksMatchTokens
  BY Invariance, PTL DEF IInv

-----------------------------------------------------------------------------
(* Slots *)

\* A slot determines its block and its offset in the block.
LEMMA SlotParts ==
    ASSUME NEW a \in Nat, NEW b \in Nat, NEW B \in Nat \ {0},
           NEW x \in 0 .. B - 1, NEW y \in 0 .. B - 1,
           a * B + x = b * B + y
    PROVE  a = b /\ x = y
<1>1. CASE a < b
  <2>1. (a + 1) * B <= b * B
    BY <1>1
  <2> QED  BY <2>1
<1>2. CASE b < a
  <2>1. (b + 1) * B <= a * B
    BY <1>2
  <2> QED  BY <2>1
<1> QED  BY <1>1, <1>2

LEMMA DivModUnique ==
    ASSUME NEW p \in Nat, NEW q \in Nat, NEW B \in Nat \ {0},
           p \div B = q \div B, p % B = q % B
    PROVE  p = q
  OBVIOUS

\* The invariant implies that slots are private.
LEMMA InvariantGivesSlots == IInv => SlotsPrivate
<1> SUFFICES ASSUME IInv,
                    NEW r \in Registered, NEW s \in Registered,
                    NEW p \in Positions(r), NEW q \in Positions(s)
             PROVE  /\ HasSlot(r, p)
                    /\ SlotOf(r, p) \in 0 .. NumBlocks * BlockSize - 1
                    /\ SlotOf(r, p) = SlotOf(s, q) => r = s /\ p = q
  BY DEF SlotsPrivate
<1> DEFINE Index(pos) == (pos \div BlockSize) + 1
<1>1. \A u \in Registered : table[u].tokens \in Nat /\ table[u].blocks \in Seq(Blocks)
  BY DEF IInv, TypeOK, Context
<1>2. \A u \in Registered : \A pos \in Positions(u) :
         /\ pos \in Nat
         /\ Index(pos) \in 1 .. Len(table[u].blocks)
  BY <1>1, PositionInBlocks DEF IInv, BlocksMatchTokens, Positions
<1>3. \A u \in Registered : \A pos \in Positions(u) :
         /\ Index(pos) \in DOMAIN table[u].blocks
         /\ table[u].blocks[Index(pos)] \in Blocks
         /\ pos % BlockSize \in 0 .. BlockSize - 1
  <2> TAKE u \in Registered
  <2> TAKE pos \in Positions(u)
  <2>1. pos % BlockSize \in 0 .. BlockSize - 1
    BY <1>2, PoolAssumption
  <2> QED  BY <1>1, <1>2, <2>1
<1> DEFINE a == table[r].blocks[Index(p)]
           b == table[s].blocks[Index(q)]
           x == p % BlockSize
           y == q % BlockSize
<1>4. /\ a \in Blocks /\ b \in Blocks
      /\ x \in 0 .. BlockSize - 1 /\ y \in 0 .. BlockSize - 1
      /\ SlotOf(r, p) = a * BlockSize + x /\ SlotOf(s, q) = b * BlockSize + y
  BY <1>3 DEF SlotOf
<1>5. HasSlot(r, p)
  BY <1>3 DEF HasSlot
<1> HIDE DEF a, b, x, y
<1>6. SlotOf(r, p) \in 0 .. NumBlocks * BlockSize - 1
  <2>1. a + 1 <= NumBlocks /\ a \in Nat
    BY <1>4, PoolAssumption DEF Blocks
  <2>2. (a + 1) * BlockSize <= NumBlocks * BlockSize /\ a * BlockSize >= 0
    BY <2>1, PoolAssumption
  <2> QED  BY <1>4, <2>1, <2>2, PoolAssumption
<1>7. ASSUME SlotOf(r, p) = SlotOf(s, q) PROVE r = s /\ p = q
  <2>1. a = b /\ x = y
    BY <1>4, <1>7, SlotParts, PoolAssumption DEF Blocks
  <2>2. r = s
    BY <1>3, <2>1 DEF a, b, IInv, BlocksExclusive, Apart
  <2>3. Index(p) = Index(q)
    BY <1>3, <2>1, <2>2 DEF a, b, IInv, BlocksExclusive, NoRepeat
  <2>4. p \div BlockSize = q \div BlockSize
    BY <1>2, <2>3, PoolAssumption, DivBounds
  <2> QED  BY <1>2, <2>1, <2>2, <2>4, PoolAssumption, DivModUnique DEF x, y
<1> QED  BY <1>5, <1>6, <1>7

\* Every token of every registered sequence always has a slot of its own
\* inside the pool.
THEOREM PrivateSlots == Spec => []SlotsPrivate
  BY Invariance, InvariantGivesSlots, PTL

\* A step moves no slot of a sequence that stays registered.
LEMMA SlotKept ==
    ASSUME IInv, Next, NEW r \in Registered, r \in Registered', NEW p \in Positions(r)
    PROVE  SlotOf(r, p)' = SlotOf(r, p)
<1> DEFINE i == (p \div BlockSize) + 1
<1>1. i \in DOMAIN table[r].blocks /\ table[r].blocks \in Seq(Blocks)
  BY PositionInBlocks DEF IInv, TypeOK, BlocksMatchTokens, Positions, Context
<1>2. SUFFICES table'[r].blocks[i] = table[r].blocks[i]
  BY DEF SlotOf
<1> HIDE DEF i
<1>3. ASSUME NEW t \in Threads, ReturnBlocks(t) PROVE table' = table
  BY <1>3 DEF ReturnBlocks
<1>4. ASSUME NEW t \in Threads, NEW s \in Seqs, RegisterSequence(t, s)
      PROVE  table'[r] = table[r]
  BY <1>4 DEF RegisterSequence, Registered
<1>5. ASSUME NEW t \in Threads, NEW s \in Seqs, EraseEntry(t, s)
      PROVE  table'[r] = table[r]
  BY <1>5 DEF EraseEntry, Registered
<1>6. ASSUME NEW t \in Threads, NEW s \in Seqs, NEW n \in AppendSizes,
             AppendTokens(t, s, n)
      PROVE  table'[r].blocks[i] = table[r].blocks[i]
  <2> DEFINE k == BlocksNeeded(s, n)
  <2>0. /\ s \in Registered /\ Registered' = Registered
        /\ k \in 0 .. Len(stack) /\ stack \in Seq(Blocks)
        /\ stack' = Remaining(k) /\ limbo' = limbo
        /\ table'[s] = [tokens |-> table[s].tokens + n,
                        blocks |-> table[s].blocks \o Granted(k)]
        /\ \A q \in Registered \ {s} : table'[q] = table[q]
    BY <1>6, AppendEffect
  <2>1. /\ k \in 0 .. Len(stack) /\ stack \in Seq(Blocks)
        /\ table'[s].blocks = table[s].blocks \o Granted(k)
        /\ r # s => table'[r] = table[r]
    BY <2>0
  <2>2. Granted(k) \in Seq(Blocks)
    BY <2>1, AllocationSplitsStack
  <2> HIDE DEF k
  <2>3. \A q \in Seq(Blocks) : \A j \in DOMAIN q : (q \o Granted(k))[j] = q[j]
    BY <2>2
  <2> QED  BY <1>1, <2>1, <2>3
<1> QED  BY <1>3, <1>4, <1>5, <1>6 DEF Next

\* A token's slot never moves while its sequence stays registered.
THEOREM StableSlots == Spec => SlotsStable
<1> DEFINE Kept == \A s \in Registered \cap Registered' :
                      \A p \in Positions(s) : SlotOf(s, p)' = SlotOf(s, p)
<1>1. IInv /\ [Next]_vars => [Kept]_vars
  BY SlotKept
<1> QED  BY <1>1, Invariance, PTL DEF Spec, SlotsStable

-----------------------------------------------------------------------------
(* Refinement *)

\* The page table implements the capacity promise that the schedulers and the
\* worker are modelled on.
THEOREM Refinement == Spec => ImplementsCapacity
<1>1. Init => Capacity!KVInit
  <2> SUFFICES ASSUME Init PROVE Capacity!KVInit
    OBVIOUS
  <2>1. Len(stack) = NumBlocks
    BY PoolAssumption DEF Init, InitialStack
  <2>2. Registered = {} /\ \A t \in Threads : Len(limbo[t]) = 0
    BY DEF Init, Registered
  <2> QED  BY <2>1, <2>2 DEF Capacity!KVInit
<1>2. IInv /\ [Next]_vars => [Capacity!KVNext]_(Capacity!kvVars)
  <2> SUFFICES ASSUME IInv, [Next]_vars
               PROVE  Capacity!KVNext \/ UNCHANGED Capacity!kvVars
    OBVIOUS
  <2> USE DEF Capacity!Registered
  <2>0. /\ stack \in Seq(Blocks) /\ limbo \in [Threads -> Seq(Blocks)]
        /\ table \in [Registered -> Context] /\ Registered \subseteq Seqs
        /\ \A s \in Registered : Len(table[s].blocks) = BlocksFor(table[s].tokens)
        /\ \A n : BlocksFor(n) = Capacity!BlocksFor(n)
    BY DEF IInv, TypeOK, BlocksMatchTokens, BlocksFor, Capacity!BlocksFor
  <2>1. ASSUME NEW t \in Threads, ReturnBlocks(t) PROVE Capacity!Reclaim(t)
    <3>1. Len(stack \o limbo[t]) = Len(stack) + Len(limbo[t]) /\ Len(limbo[t]) > 0
      BY <2>0, <2>1 DEF ReturnBlocks
    <3>2. [u \in Threads |-> Len(limbo'[u])]
             = [[u \in Threads |-> Len(limbo[u])] EXCEPT ![t] = 0]
      BY <2>0, <2>1 DEF ReturnBlocks
    <3> QED  BY <2>1, <3>1, <3>2 DEF ReturnBlocks, Capacity!Reclaim, Registered
  <2>2. ASSUME NEW t \in Threads, NEW s \in Seqs, RegisterSequence(t, s)
        PROVE  Capacity!Register(s)
    <3>1. Registered' = Registered \cup {s} /\ s \notin Registered
      BY <2>2 DEF RegisterSequence, Registered
    <3>2. \A r \in Registered' :
            table'[r].tokens = IF r = s THEN 0 ELSE table[r].tokens
      BY <2>2, <3>1 DEF RegisterSequence, Registered
    <3> QED  BY <2>2, <3>1, <3>2 DEF RegisterSequence, Capacity!Register
  <2>3. ASSUME NEW t \in Threads, NEW s \in Seqs, EraseEntry(t, s)
        PROVE  Capacity!Erase(t, s)
    <3>1. Registered' = Registered \ {s} /\ s \in Registered
      BY <2>3 DEF EraseEntry, Registered
    <3>2. \A r \in Registered' : table'[r].tokens = table[r].tokens
      BY <2>3, <3>1 DEF EraseEntry, Registered
    <3>3. [u \in Threads |-> Len(limbo'[u])]
             = [[u \in Threads |-> Len(limbo[u])] EXCEPT ![t] = BlocksFor(table[s].tokens)]
      BY <2>0, <2>3 DEF EraseEntry, Registered
    <3>4. Len(limbo[t]) = 0
      BY <2>3 DEF EraseEntry
    <3> QED  BY <2>0, <2>3, <3>1, <3>2, <3>3, <3>4
             DEF EraseEntry, Capacity!Erase, Capacity!Without
  <2>4. ASSUME NEW t \in Threads, NEW s \in Seqs, NEW n \in AppendSizes,
               AppendTokens(t, s, n)
        PROVE  Capacity!Grow(s, n)
    <3> DEFINE k == BlocksNeeded(s, n)
    <3>0. /\ s \in Registered /\ Registered' = Registered
          /\ k \in 0 .. Len(stack) /\ stack \in Seq(Blocks)
          /\ stack' = Remaining(k) /\ limbo' = limbo
          /\ table'[s] = [tokens |-> table[s].tokens + n,
                          blocks |-> table[s].blocks \o Granted(k)]
          /\ \A q \in Registered \ {s} : table'[q] = table[q]
      BY <2>4, AppendEffect
    <3>1. /\ k \in 0 .. Len(stack)
          /\ s \in Registered /\ Registered' = Registered
          /\ stack' = Remaining(k) /\ limbo' = limbo
          /\ table'[s].tokens = table[s].tokens + n
          /\ \A r \in Registered \ {s} : table'[r] = table[r]
      BY <3>0
    <3>2. k = Capacity!NeedFor(table[s].tokens, table[s].tokens + n)
      BY <2>0 DEF BlocksNeeded, Capacity!NeedFor
    <3> HIDE DEF k
    <3>3. Len(stack') = Len(stack) - k
      BY <2>0, <3>1, AllocationSplitsStack
    <3>4. [r \in Registered' |-> table'[r].tokens]
             = [[r \in Registered |-> table[r].tokens] EXCEPT ![s] = @ + n]
      BY <3>1
    <3>5. n > 0
      BY CallAssumption
    <3> QED  BY <3>1, <3>2, <3>3, <3>4, <3>5 DEF Capacity!Grow, Capacity!CanGrow
  <2>5. CASE UNCHANGED vars
    BY <2>5 DEF vars, Capacity!kvVars, Registered
  <2> QED
    BY <2>1, <2>2, <2>3, <2>4, <2>5 DEF Next, Capacity!KVNext
<1> QED  BY <1>1, <1>2, Invariance, PTL
         DEF Spec, ImplementsCapacity, Capacity!KVSpec

-----------------------------------------------------------------------------
(* The kernels' metadata *)

\* A sequence that stays registered does not get shorter.
LEMMA LengthKept ==
    ASSUME IInv, Next, NEW r \in Registered, r \in Registered'
    PROVE  table'[r].tokens \in Nat /\ table'[r].tokens >= table[r].tokens
<1>0. table[r].tokens \in Nat
  BY DEF IInv, TypeOK, Context
<1>1. ASSUME NEW t \in Threads, ReturnBlocks(t) PROVE table'[r] = table[r]
  BY <1>1 DEF ReturnBlocks
<1>2. ASSUME NEW t \in Threads, NEW s \in Seqs, RegisterSequence(t, s)
      PROVE  table'[r] = table[r]
  BY <1>2 DEF RegisterSequence, Registered
<1>3. ASSUME NEW t \in Threads, NEW s \in Seqs, EraseEntry(t, s)
      PROVE  table'[r] = table[r]
  BY <1>3 DEF EraseEntry, Registered
<1>4. ASSUME NEW t \in Threads, NEW s \in Seqs, NEW n \in AppendSizes,
             AppendTokens(t, s, n)
      PROVE  table'[r].tokens \in {table[r].tokens, table[r].tokens + n}
  <2> DEFINE k == BlocksNeeded(s, n)
  <2>1. /\ table'[s] = [tokens |-> table[s].tokens + n,
                        blocks |-> table[s].blocks \o Granted(k)]
        /\ \A q \in Registered \ {s} : table'[q] = table[q]
    BY <1>4, AppendEffect
  <2> HIDE DEF k
  <2>2. table'[s].tokens = table[s].tokens + n
    BY <2>1
  <2> QED  BY <2>1, <2>2
<1> QED  BY <1>0, <1>1, <1>2, <1>3, <1>4, CallAssumption DEF Next

\* What the first reading of s still says, and the second.
RowHolds(s) ==
    /\ s \in Registered /\ s \in DOMAIN lens /\ s \in DOMAIN seen
    /\ seen[s] \in Nat /\ seen[s] <= table[s].tokens
    /\ lens[s] \in Nat /\ lens[s] >= 1 /\ (lens[s] = 1 \/ lens[s] <= seen[s])
    /\ \A pos \in 0 .. seen[s] - 1 :
          /\ (pos \div BlockSize) + 1 \in DOMAIN rows[s]
          /\ KernelSlot(rows[s], pos) = SlotOf(s, pos)
SlotsHold(s) ==
    /\ s \in DOMAIN slots /\ s \in DOMAIN total
    /\ total[s] \in Nat /\ total[s] <= table[s].tokens /\ lens[s] <= total[s]
    /\ \A i \in 1 .. lens[s] : slots[s][i] = SlotOf(s, total[s] - lens[s] + i - 1)

\* The property, strengthened with the lengths that keep every position it
\* speaks of inside the sequence.
MetadataInv == \A s \in Live : RowHolds(s) /\ (stage = "ready" => SlotsHold(s))

\* A step of the page table keeps it: tables only grow and slots stay.
LEMMA OthersKeepMetadata ==
    ASSUME IInv, MetadataInv, Next, ForgetFreed
    PROVE  MetadataInv'
<1> SUFFICES ASSUME NEW s \in Live'
             PROVE  RowHolds(s)' /\ ((stage = "ready")' => SlotsHold(s)')
  BY DEF MetadataInv
<1>1. /\ s \in Live /\ s \in Registered' /\ rows'[s] = rows[s]
      /\ lens' = lens /\ stage' = stage
      /\ DOMAIN rows' = DOMAIN rows \cap Registered'
      /\ \A r \in DOMAIN seen \cap Registered' : r \in DOMAIN seen' /\ seen'[r] = seen[r]
      /\ \A r \in DOMAIN slots \cap Registered' : r \in DOMAIN slots' /\ slots'[r] = slots[r]
      /\ \A r \in DOMAIN total \cap Registered' : r \in DOMAIN total' /\ total'[r] = total[r]
  BY DEF ForgetFreed, Only, Live
<1>2. RowHolds(s) /\ (stage = "ready" => SlotsHold(s))
  BY <1>1 DEF MetadataInv
<1>3. /\ table[s].tokens \in Nat /\ table'[s].tokens \in Nat
      /\ table'[s].tokens >= table[s].tokens
  BY <1>1, <1>2, LengthKept DEF RowHolds, IInv, TypeOK, Context
<1>4. \A pos \in 0 .. table[s].tokens - 1 : SlotOf(s, pos)' = SlotOf(s, pos)
  BY <1>1, <1>2, SlotKept DEF RowHolds, Positions
<1>5. RowHolds(s)'
  <2>1. seen'[s] = seen[s] /\ s \in DOMAIN seen'
    BY <1>1, <1>2 DEF RowHolds
  <2>2. ASSUME NEW pos \in 0 .. seen[s] - 1
        PROVE  /\ (pos \div BlockSize) + 1 \in DOMAIN rows[s]
               /\ KernelSlot(rows[s], pos) = SlotOf(s, pos)'
    BY <1>2, <1>3, <1>4 DEF RowHolds
  <2>3. seen[s] <= table'[s].tokens
    BY <1>2, <1>3 DEF RowHolds
  <2>4. \A row, pos : KernelSlot(row, pos)' = KernelSlot(row', pos')
    BY DEF KernelSlot
  <2> QED  BY <1>1, <1>2, <2>1, <2>2, <2>3 DEF RowHolds, KernelSlot
<1>6. ASSUME stage = "ready" PROVE SlotsHold(s)'
  <2>1. SlotsHold(s) /\ s \in DOMAIN slots' /\ s \in DOMAIN total'
        /\ slots'[s] = slots[s] /\ total'[s] = total[s]
    BY <1>1, <1>2, <1>6 DEF SlotsHold
  <2>2. lens[s] \in Nat
    BY <1>2 DEF RowHolds
  <2>3. total[s] <= table'[s].tokens
    BY <1>3, <2>1 DEF SlotsHold
  <2>4. ASSUME NEW i \in 1 .. lens[s]
        PROVE  slots[s][i] = SlotOf(s, total[s] - lens[s] + i - 1)'
    <3>1. total[s] - lens[s] + i - 1 \in 0 .. table[s].tokens - 1
      BY <1>3, <2>1, <2>2 DEF SlotsHold
    <3>2. PICK pos \in 0 .. table[s].tokens - 1 : pos = total[s] - lens[s] + i - 1
      BY <3>1
    <3>3. slots[s][i] = SlotOf(s, pos)
      BY <2>1, <3>2 DEF SlotsHold
    <3>4. SlotOf(s, total[s] - lens[s] + i - 1)' = SlotOf(s, pos)'
      BY <1>1, <2>1, <3>2 DEF SlotOf
    <3> QED  BY <1>4, <3>3, <3>4
  <2> QED  BY <1>1, <2>1, <2>3, <2>4 DEF SlotsHold
<1> QED  BY <1>1, <1>5, <1>6

\* The first reading copies the table.
LEMMA ReadingTables ==
    ASSUME IInv, NEW t \in Threads, NEW batch \in Batches, GetBlockTable(t, batch)
    PROVE  MetadataInv'
<1> SUFFICES ASSUME NEW s \in Live'
             PROVE  RowHolds(s)' /\ ((stage = "ready")' => SlotsHold(s)')
  BY DEF MetadataInv
<1>1. /\ s \in batch /\ s \in Registered /\ table' = table
      /\ rows'[s] = table[s].blocks /\ seen'[s] = table[s].tokens /\ s \in DOMAIN seen'
      /\ s \in DOMAIN lens' /\ lens'[s] \in QueryLens(s) /\ stage' = "tables"
  BY DEF GetBlockTable, Live, vars
<1>2. /\ table[s].tokens \in Nat /\ Len(table[s].blocks) = BlocksFor(table[s].tokens)
      /\ table[s].blocks \in Seq(Blocks)
  BY <1>1 DEF IInv, TypeOK, BlocksMatchTokens, Context
<1>3. \A pos \in 0 .. table[s].tokens - 1 : (pos \div BlockSize) + 1 \in DOMAIN table[s].blocks
  BY <1>2, PositionInBlocks
<1>4. /\ lens'[s] \in Nat /\ lens'[s] >= 1
      /\ lens'[s] = 1 \/ lens'[s] <= table[s].tokens
  BY <1>1, <1>2 DEF QueryLens
<1>5. RowHolds(s)'
  BY <1>1, <1>2, <1>3, <1>4 DEF RowHolds, KernelSlot, SlotOf, Registered
<1> QED  BY <1>1, <1>5

\* The second reading does not throw, so no query is longer than its sequence.
LEMMA ReadingSlots ==
    ASSUME IInv, MetadataInv, GetSlotMapping
    PROVE  MetadataInv'
<1> SUFFICES ASSUME NEW s \in Live'
             PROVE  RowHolds(s)' /\ ((stage = "ready")' => SlotsHold(s)')
  BY DEF MetadataInv
<1>1. /\ s \in Live /\ table' = table /\ rows' = rows /\ seen' = seen /\ lens' = lens
      /\ s \in DOMAIN slots' /\ s \in DOMAIN total' /\ total'[s] = table[s].tokens
      /\ slots'[s] = [i \in 1 .. lens[s] |-> SlotOf(s, StartPos(s) + i - 1)]
  BY DEF GetSlotMapping, Live, vars
<1>2. RowHolds(s)
  BY <1>1 DEF MetadataInv
<1>3. RowHolds(s)'
  BY <1>1, <1>2 DEF RowHolds, KernelSlot, SlotOf, Registered
<1>4. /\ table[s].tokens \in Nat /\ Len(table[s].blocks) = BlocksFor(table[s].tokens)
      /\ table[s].blocks \in Seq(Blocks) /\ lens[s] \in Nat
  BY <1>2 DEF RowHolds, IInv, TypeOK, BlocksMatchTokens, Context
<1>5. lens[s] <= table[s].tokens
  <2>1. CASE table[s].tokens = 0
    <3>1. BlocksFor(0) = 0
      BY PoolAssumption, DivBounds DEF BlocksFor
    <3>2. DOMAIN table[s].blocks = {}
      BY <1>4, <2>1, <3>1
    <3>3. ~Throws(s)
      BY <1>1, <1>2 DEF GetSlotMapping, RowHolds
    <3> QED  BY <1>2, <3>2, <3>3 DEF Throws, RowHolds
  <2>2. CASE table[s].tokens # 0
    BY <1>2, <1>4, <2>2 DEF RowHolds
  <2> QED  BY <2>1, <2>2
<1>6. \A i \in 1 .. lens[s] :
         slots'[s][i] = SlotOf(s, table[s].tokens - lens[s] + i - 1)
  BY <1>1 DEF StartPos
<1>7. SlotsHold(s)'
  <2>1. \A i \in 1 .. lens[s] :
           (slots[s][i])' = SlotOf(s, total[s] - lens[s] + i - 1)'
    BY <1>1, <1>6 DEF SlotOf
  <2>2. /\ s \in DOMAIN slots' /\ s \in DOMAIN total'
        /\ total'[s] \in Nat /\ total'[s] <= table'[s].tokens /\ lens'[s] <= total'[s]
    BY <1>1, <1>4, <1>5
  <2>3. \A i \in 1 .. lens'[s] :
           (slots[s][i])' = SlotOf(s, total[s] - lens[s] + i - 1)'
    BY <1>1, <2>1
  <2> QED  BY <2>2, <2>3 DEF SlotsHold
<1> QED  BY <1>3, <1>7

\* The readings, the kernels and their launches only look at the page table, so
\* everything proved of it holds beside them.
LEMMA MetadataUsesPageTable == MetadataSpec => Spec
<1>1. MetadataInit => Init
  BY DEF MetadataInit
<1>2. [MetadataNext]_metadataVars => [Next]_vars
  <2>1. ASSUME NEW t \in Threads, OnPageTable(t) PROVE Next
    BY <2>1 DEF OnPageTable, Next
  <2>2. ASSUME NEW t \in Threads, NEW batch \in Batches, GetBlockTable(t, batch)
        PROVE  UNCHANGED vars
    BY <2>2 DEF GetBlockTable, vars
  <2>3. ASSUME GetSlotMapping \/ Raise \/ Retire PROVE UNCHANGED vars
    BY <2>3 DEF GetSlotMapping, Raise, Retire, vars
  <2>4. ASSUME UNCHANGED metadataVars PROVE UNCHANGED vars
    BY <2>4 DEF metadataVars
  <2> QED  BY <2>1, <2>2, <2>3, <2>4 DEF MetadataNext
<1> QED  BY <1>1, <1>2, PTL DEF MetadataSpec, Spec

\* What the kernels are launched with stays true of every sequence that is not
\* freed, whatever other threads do between the two calls of
\* prepare_kernel_metadata and before the kernel runs.
THEOREM MetadataTrue == MetadataSpec => []MetadataStaysTrue
<1>1. MetadataInit => MetadataInv
  BY DEF MetadataInit, MetadataInv, Live, None
<1>2. IInv /\ MetadataInv /\ [MetadataNext]_metadataVars => MetadataInv'
  <2> SUFFICES ASSUME IInv, MetadataInv, [MetadataNext]_metadataVars PROVE MetadataInv'
    OBVIOUS
  <2>1. ASSUME NEW t \in Threads, OnPageTable(t), ForgetFreed PROVE MetadataInv'
    <3>1. Next
      BY <2>1 DEF OnPageTable, Next
    <3> QED  BY <2>1, <3>1, OthersKeepMetadata
  <2>2. ASSUME NEW t \in Threads, NEW batch \in Batches, GetBlockTable(t, batch)
        PROVE  MetadataInv'
    BY <2>2, ReadingTables
  <2>3. ASSUME GetSlotMapping PROVE MetadataInv'
    BY <2>3, ReadingSlots
  <2>4. ASSUME Raise \/ Retire PROVE MetadataInv'
    BY <2>4 DEF Raise, Retire, MetadataInv, Live, None
  <2>5. CASE UNCHANGED metadataVars
    BY <2>5 DEF metadataVars, metadata, vars, MetadataInv, RowHolds, SlotsHold, Live,
                Registered, SlotOf, KernelSlot
  <2> QED  BY <2>1, <2>2, <2>3, <2>4, <2>5 DEF MetadataNext
<1>3. MetadataInv => MetadataStaysTrue
  BY DEF MetadataInv, MetadataStaysTrue, RowHolds, SlotsHold
<1> QED  BY <1>1, <1>2, <1>3, MetadataUsesPageTable, Invariance, PTL DEF MetadataSpec

-----------------------------------------------------------------------------
(* The analytics *)

\* The blocks that the sequences q[i] hold.
BlocksIn(q, I) == {b \in Blocks : \E i \in I : In(b, q[i])}

\* When no block is held twice, as many are held as the lengths add up to.
LEMMA BlocksAddUp ==
    ASSUME NEW q, NEW I, IsFiniteSet(I),
           \A i \in I : q[i] \in Seq(Blocks) /\ NoRepeat(q[i]),
           \A i, j \in I : i # j => Apart(q[i], q[j])
    PROVE  /\ IsFiniteSet(BlocksIn(q, I))
           /\ Cardinality(BlocksIn(q, I)) = SumFunctionOnSet([i \in I |-> Len(q[i])], I)
<1> DEFINE f == [i \in I |-> Len(q[i])]
           U == Units(f, I)
           h == [p \in U |-> q[p[1]][p[2] + 1]]
<1>1. \A i \in I : f[i] \in Nat /\ f[i] = Len(q[i]) /\ DOMAIN q[i] = 1 .. f[i]
  OBVIOUS
<1> HIDE DEF f
<1>2. /\ \A p \in U : p[1] \in I /\ p[2] + 1 \in DOMAIN q[p[1]] /\ p = <<p[1], p[2]>>
                      /\ p[2] \in Nat
      /\ \A i \in I : \A k \in DOMAIN q[i] : <<i, k - 1>> \in U /\ k = (k - 1) + 1
  <2>1. \A p \in U : p[1] \in I /\ p[2] \in Nat /\ p = <<p[1], p[2]>> /\ p[2] < f[p[1]]
    BY DEF Units
  <2>2. \A n, m \in Nat : n < m => n + 1 \in 1 .. m
    OBVIOUS
  <2>3. \A m \in Nat : \A k \in 1 .. m : k - 1 \in Nat /\ k - 1 < m /\ k = (k - 1) + 1
    OBVIOUS
  <2>4. \A i \in I : \A k \in DOMAIN q[i] : <<i, k - 1>> \in U
    BY <1>1, <2>3 DEF Units
  <2> HIDE DEF U
  <2> QED  BY <1>1, <2>1, <2>2, <2>3, <2>4
<1>3. IsFiniteSet(U) /\ SumFunctionOnSet(f, I) = Cardinality(U)
  BY <1>1, UnitsFinite, SumIsCardinality
<1> HIDE DEF U
<1>4. \A p \in U : h[p] \in BlocksIn(q, I)
  BY <1>2 DEF BlocksIn, In
<1>5. h \in Surjection(U, BlocksIn(q, I))
  <2>1. ASSUME NEW b \in BlocksIn(q, I) PROVE \E p \in U : h[p] = b
    <3>1. PICK i \in I : In(b, q[i])
      BY DEF BlocksIn
    <3>2. PICK k \in DOMAIN q[i] : q[i][k] = b
      BY <3>1 DEF In
    <3>3. <<i, k - 1>> \in U /\ h[<<i, k - 1>>] = q[i][(k - 1) + 1]
      BY <1>2
    <3> QED  BY <1>2, <3>2, <3>3
  <2> QED  BY <1>4, <2>1 DEF Surjection
<1>6. h \in Injection(U, BlocksIn(q, I))
  <2>1. ASSUME NEW p \in U, NEW r \in U, h[p] = h[r] PROVE p = r
    <3>1. q[p[1]][p[2] + 1] = q[r[1]][r[2] + 1]
      BY <2>1
    <3>2. p[1] = r[1]
      BY <1>2, <3>1 DEF Apart
    <3>3. p[2] + 1 = r[2] + 1
      BY <1>2, <3>1, <3>2 DEF NoRepeat
    <3>4. p[2] = r[2]
      BY <1>2, <3>3
    <3>5. p = <<p[1], p[2]>> /\ r = <<r[1], r[2]>>
      BY <1>2
    <3> QED  BY <3>2, <3>4, <3>5
  <2> QED  BY <1>4, <2>1 DEF Injection, IsInjective
<1>7. IsFiniteSet(BlocksIn(q, I)) /\ Cardinality(BlocksIn(q, I)) = Cardinality(U)
  <2> HIDE DEF h
  <2> QED  BY <1>3, <1>5, <1>6, FS_Surjection
<1> QED  BY <1>3, <1>7 DEF f

LEMMA SumOfOne ==
    ASSUME NEW f, NEW x, f[x] \in Nat
    PROVE  SumFunctionOnSet(f, {x}) = f[x]
<1>1. IsFiniteSet({x}) /\ {x} \ {x} = {} /\ \A y \in {x} : f[y] \in Nat
  BY FS_Singleton
<1>2. SumFunctionOnSet(f, {x}) = f[x] + SumFunctionOnSet(f, {x} \ {x})
  BY <1>1, SumWithout
<1> QED  BY <1>1, <1>2, SumOfNone

\* Every block is on the stack, in a sequence or in flight, and in one of them.
LEMMA BlocksAreConserved ==
    ASSUME IInv, IsFiniteSet(Registered)
    PROVE  /\ NumBlocks = Len(stack) + Held + InFlight
           /\ Len(stack) \in Nat /\ Held \in Nat /\ InFlight \in Nat
<1> DEFINE held == [s \in Registered |-> table[s].blocks]
           free == [i \in {0} |-> stack]
           S == BlocksIn(free, {0})
           H == BlocksIn(held, Registered)
           L == BlocksIn(limbo, Threads)
<1>1. /\ stack \in Seq(Blocks) /\ limbo \in [Threads -> Seq(Blocks)]
      /\ \A s \in Registered : table[s].blocks \in Seq(Blocks)
  BY DEF IInv, TypeOK, Context
<1>2. IsFiniteSet(S) /\ Cardinality(S) = Len(stack) /\ Len(stack) \in Nat
  <2>1. /\ IsFiniteSet(S)
        /\ Cardinality(S) = SumFunctionOnSet([i \in {0} |-> Len(free[i])], {0})
    <3>1. IsFiniteSet({0})
      BY FS_Singleton
    <3>2. /\ \A i \in {0} : free[i] \in Seq(Blocks) /\ NoRepeat(free[i])
          /\ \A i, j \in {0} : i # j => Apart(free[i], free[j])
      BY <1>1 DEF IInv, BlocksExclusive
    <3> HIDE DEF free
    <3> QED  BY <3>1, <3>2, BlocksAddUp
  <2> DEFINE f == [i \in {0} |-> Len(free[i])]
  <2>2. f[0] = Len(stack) /\ Len(stack) \in Nat
    BY <1>1
  <2> HIDE DEF f
  <2>3. SumFunctionOnSet(f, {0}) = Len(stack)
    BY <2>2, SumOfOne
  <2> QED  BY <2>1, <2>2, <2>3 DEF f
<1>3. IsFiniteSet(H) /\ Cardinality(H) = Held
  <2>1. /\ \A s \in Registered : held[s] \in Seq(Blocks) /\ NoRepeat(held[s])
        /\ \A r, s \in Registered : r # s => Apart(held[r], held[s])
    BY <1>1 DEF IInv, BlocksExclusive
  <2>2. [s \in Registered |-> Len(table[s].blocks)] = [s \in Registered |-> Len(held[s])]
    OBVIOUS
  <2> HIDE DEF held
  <2>3. /\ IsFiniteSet(H)
        /\ Cardinality(H) = SumFunctionOnSet([s \in Registered |-> Len(held[s])], Registered)
    BY <2>1, BlocksAddUp
  <2> QED  BY <2>2, <2>3 DEF Held, SumFunction
<1>4. IsFiniteSet(L) /\ Cardinality(L) = InFlight
  <2>1. /\ IsFiniteSet(L)
        /\ Cardinality(L) = SumFunctionOnSet([t \in Threads |-> Len(limbo[t])], Threads)
    BY <1>1, BlocksAddUp, ThreadsAssumption DEF IInv, BlocksExclusive
  <2> QED  BY <2>1 DEF InFlight, SumFunction
<1>5. Blocks = S \cup (H \cup L)
  BY DEF IInv, NoBlockLost, BlocksIn
<1>6. S \cap (H \cup L) = {} /\ H \cap L = {}
  BY DEF IInv, BlocksExclusive, BlocksIn, In, Apart
<1>7. Cardinality(Blocks) = NumBlocks
  <2>1. NumBlocks \in Nat \ {0} /\ NumBlocks - 1 \in Int /\ 0 \in Int
    BY PoolAssumption
  <2>2. Cardinality(0 .. NumBlocks - 1) = IF 0 > NumBlocks - 1 THEN 0 ELSE NumBlocks - 1 - 0 + 1
    BY <2>1, FS_Interval
  <2> QED  BY <2>1, <2>2 DEF Blocks
<1> HIDE DEF S, H, L
<1>8. Cardinality(S) \in Nat /\ Cardinality(H) \in Nat /\ Cardinality(L) \in Nat
  BY <1>2, <1>3, <1>4, FS_CardinalityType
<1>9. IsFiniteSet(H \cup L) /\ Cardinality(H \cup L) = Cardinality(H) + Cardinality(L) - 0
  BY <1>3, <1>4, <1>6, FS_Union, FS_EmptySet
<1>10. Cardinality(S \cup (H \cup L)) = Cardinality(S) + Cardinality(H \cup L) - 0
  BY <1>2, <1>6, <1>9, FS_Union, FS_EmptySet
<1> QED  BY <1>2, <1>3, <1>4, <1>5, <1>7, <1>8, <1>9, <1>10

\* The analytics round up as the page table does.
LEMMA SameRounding ==
    ASSUME NEW n \in Nat
    PROVE  RequestBlocks(n) = BlocksFor(n) /\ RequestBlocks(n) \in Nat
<1> DEFINE B == BlockSize
<1>1. B \in Nat \ {0}
  BY PoolAssumption
<1> HIDE DEF B
<1>2. CASE n = 0
  <2>1. (B - 1) \div B = 0
    BY <1>1
  <2> QED  BY <1>1, <1>2, <2>1 DEF RequestBlocks, BlocksFor, B
<1>3. CASE n # 0
  <2>1. n - 1 \in Nat /\ n + B - 1 = (n - 1) + B
    BY <1>1, <1>3
  <2>2. \A m \in Nat : (m + B) \div B = m \div B + 1 /\ m \div B \in Nat
    BY <1>1
  <2>3. (n + B - 1) \div B = (n - 1) \div B + 1 /\ (n - 1) \div B \in Nat
    BY <2>1, <2>2
  <2> QED  BY <1>3, <2>3 DEF RequestBlocks, BlocksFor, B
<1> QED  BY <1>2, <1>3

\* Each estimate follows from the sums.
LEMMA EstimateIsExact ==
    ASSUME IInv, IsFiniteSet(Registered)
    PROVE  EstimateMatchesPool
<1> DEFINE estimate == Estimate(Lengths, 0)
           needed == [r \in DOMAIN Lengths |-> RequestBlocks(Lengths[r])]
           held == [s \in Registered |-> Len(table[s].blocks)]
<1>1. /\ DOMAIN Lengths = Registered
      /\ \A s \in Registered :
            /\ Lengths[s] \in Nat /\ held[s] \in Nat
            /\ held[s] = RequestBlocks(Lengths[s]) /\ held[s] = BlocksFor(Lengths[s])
  <2>1. \A s \in Registered :
           /\ table[s].tokens \in Nat
           /\ Len(table[s].blocks) \in Nat
           /\ Len(table[s].blocks) = BlocksFor(table[s].tokens)
    BY DEF IInv, TypeOK, Context, BlocksMatchTokens
  <2> QED  BY <2>1, SameRounding DEF Lengths
<1>2. SumFunction(needed) = Held
  <2>1. needed = held
    BY <1>1
  <2> QED  BY <2>1 DEF Held
<1>3. /\ NumBlocks = Len(stack) + Held + InFlight
      /\ Len(stack) \in Nat /\ Held \in Nat /\ InFlight \in Nat
      /\ NumBlocks \in Nat \ {0} /\ BlockSize \in Nat \ {0}
  BY BlocksAreConserved, PoolAssumption
<1>4. /\ estimate.required = Held
      /\ estimate.canAccommodate <=> Held <= NumBlocks
      /\ estimate.wasted = (Held * BlockSize) - SumFunction(Lengths)
      /\ estimate.projected = Saturation(Held)
  <2>1. (IF 0 > NumBlocks THEN 0 ELSE NumBlocks - 0) = NumBlocks /\ 0 + Held = Held
    BY <1>3
  <2> HIDE DEF needed, held
  <2> QED  BY <1>2, <2>1 DEF Estimate, needed
<1>5. estimate.required = NumBlocks - Len(stack) - InFlight /\ estimate.canAccommodate
  <2> HIDE DEF estimate
  <2> QED  BY <1>3, <1>4
<1>6. estimate.wasted <= (BlockSize - 1) * Cardinality(Registered)
  <2>1. /\ BlockSize - 1 \in Nat
        /\ \A s \in Registered : held[s] * BlockSize <= Lengths[s] + (BlockSize - 1)
    <3>1. ASSUME NEW n \in Nat PROVE BlocksFor(n) * BlockSize <= n + (BlockSize - 1)
      <4> DEFINE a == n + BlockSize - 1
      <4>1. a \in Nat /\ a = n + (BlockSize - 1) /\ BlocksFor(n) = a \div BlockSize
        BY <1>3 DEF BlocksFor
      <4> HIDE DEF a
      <4>2. a \div BlockSize \in Nat /\ BlockSize * (a \div BlockSize) <= a
        BY <1>3, <4>1, DivBounds
      <4>3. (a \div BlockSize) * BlockSize = BlockSize * (a \div BlockSize)
        BY <1>3, <4>2
      <4> QED  BY <4>1, <4>2, <4>3
    <3> HIDE DEF held
    <3>2. ASSUME NEW s \in Registered
          PROVE  held[s] * BlockSize <= Lengths[s] + (BlockSize - 1)
      <4>1. Lengths[s] \in Nat /\ held[s] = BlocksFor(Lengths[s])
        BY <1>1
      <4> QED  BY <3>1, <4>1
    <3>3. BlockSize - 1 \in Nat
      BY <1>3
    <3> QED  BY <3>2, <3>3
  <2> HIDE DEF held
  <2>2. SumFunctionOnSet(held, Registered) * BlockSize
           <= SumFunctionOnSet(Lengths, Registered) + (BlockSize - 1) * Cardinality(Registered)
    BY <1>1, <1>3, <2>1, SumBound
  <2>3. SumFunctionOnSet(held, Registered) = Held /\ DOMAIN held = Registered
    BY DEF Held, SumFunction, held
  <2>4. SumFunctionOnSet(Lengths, Registered) = SumFunction(Lengths)
    BY <1>1 DEF SumFunction
  <2>5. /\ SumFunction(Lengths) \in Nat /\ Cardinality(Registered) \in Nat
        /\ Held * BlockSize \in Nat
    BY <1>1, <1>3, <2>4, SumIsNat, FS_CardinalityType
  <2>6. (BlockSize - 1) * Cardinality(Registered) \in Nat
    BY <2>1, <2>5
  <2> HIDE DEF estimate
  <2> QED  BY <1>4, <2>2, <2>3, <2>4, <2>5, <2>6
<1>7. estimate.projected = "EVICTION" <=> (Len(stack) + InFlight) * 10 <= NumBlocks
  <2>1. Saturation(Held) = "EVICTION" <=> Held * 100 >= NumBlocks * 90
    <3>1. /\ Held * 100 >= NumBlocks * 90 => Held * 100 >= NumBlocks * 85
          /\ Held * 100 >= NumBlocks * 85 => Held * 100 >= NumBlocks * 75
      BY <1>3
    <3>2. CASE Held * 100 >= NumBlocks * 90
      BY <3>1, <3>2 DEF Saturation
    <3>3. CASE ~(Held * 100 >= NumBlocks * 90)
      BY <3>3 DEF Saturation
    <3> QED  BY <3>2, <3>3
  <2>2. Held * 100 >= NumBlocks * 90 <=> (Len(stack) + InFlight) * 10 <= NumBlocks
    BY <1>3
  <2> HIDE DEF estimate
  <2> QED  BY <1>4, <2>1, <2>2
<1>8. ASSUME NEW len \in 1 .. MaxTokens
      PROVE  Cardinality({s \in Registered : Lengths[s] >= len}) <= MaxSeqsForLen(len)
  <2> DEFINE U == {s \in Registered : Lengths[s] >= len}
             k == RequestBlocks(len)
             one == [s \in U |-> 1]
  <2>1. k \in Nat /\ k >= 1 /\ k = BlocksFor(len)
    <3>1. len \in Nat /\ len # 0 /\ ~(len <= 0)
      BY CallAssumption
    <3>2. len - 1 \in Nat
      BY <3>1
    <3>3. k = (len - 1) \div BlockSize + 1
      BY <3>1 DEF RequestBlocks
    <3>4. (len - 1) \div BlockSize \in Nat
      BY <1>3, <3>2, DivBounds
    <3> QED  BY <3>1, <3>3, <3>4, SameRounding
  <2>2. \A s \in U : k <= held[s]
    BY <1>1, <2>1, BlocksForMonotone, CallAssumption
  <2>3. IsFiniteSet(U) /\ Cardinality(U) \in Nat /\ U \in SUBSET Registered
    BY FS_Subset, FS_CardinalityType
  <2> HIDE DEF U
  <2>4. k * Cardinality(U) <= Held
    <3>1. \A s \in Registered : held[s] \in Nat
      BY <1>1
    <3>2. SumFunctionOnSet(held, Registered) = Held
      BY DEF Held, SumFunction
    <3> HIDE DEF held, k
    <3>3. k * Cardinality(U) <= SumFunctionOnSet(held, U)
      BY <2>1, <2>2, <2>3, <3>1, SumAtLeast
    <3>4. SumFunctionOnSet(held, U) <= SumFunctionOnSet(held, Registered)
      BY <2>3, <3>1, SumOfSubset
    <3>5. SumFunctionOnSet(held, U) \in Nat /\ k * Cardinality(U) \in Nat
      BY <2>1, <2>3, <3>1, SumIsNat
    <3> QED  BY <1>3, <3>2, <3>3, <3>4, <3>5
  <2>5. MaxSeqsForLen(len) = NumBlocks \div k
    BY <2>1 DEF MaxSeqsForLen
  <2> HIDE DEF k
  <2>6. \A n \in Nat : k * n <= NumBlocks => n <= NumBlocks \div k
    BY <1>3, <2>1
  <2>7. k * Cardinality(U) <= NumBlocks
    <3>1. k * Cardinality(U) \in Nat
      BY <2>1, <2>3
    <3> QED  BY <1>3, <2>4, <3>1
  <2> QED  BY <2>3, <2>5, <2>6, <2>7 DEF U
<1> HIDE DEF estimate
<1> QED  BY <1>4, <1>5, <1>6, <1>7, <1>8 DEF EstimateMatchesPool, estimate

\* Only finitely many sequences are registered at a time.
LEMMA RegisteredFinite == Spec => []IsFiniteSet(Registered)
<1>1. Init => IsFiniteSet(Registered)
  BY FS_EmptySet DEF Init, Registered
<1>2. TypeOK /\ IsFiniteSet(Registered) /\ [Next]_vars => IsFiniteSet(Registered)'
  <2> SUFFICES ASSUME TypeOK, IsFiniteSet(Registered), [Next]_vars
               PROVE  IsFiniteSet(DOMAIN table')
    BY DEF Registered
  <2>1. ASSUME NEW t \in Threads, NEW s \in Seqs, RegisterSequence(t, s)
        PROVE  IsFiniteSet(DOMAIN table')
    BY <2>1, FS_AddElement DEF RegisterSequence
  <2>2. ASSUME NEW t \in Threads, NEW s \in Seqs, EraseEntry(t, s)
        PROVE  IsFiniteSet(DOMAIN table')
    BY <2>2, FS_RemoveElement DEF EraseEntry
  <2>3. ASSUME DOMAIN table' = DOMAIN table PROVE IsFiniteSet(DOMAIN table')
    BY <2>3 DEF Registered
  <2> QED  BY <2>1, <2>2, <2>3 DEF Next, vars, ReturnBlocks, AppendTokens
<1> QED  BY <1>1, <1>2, TypeCorrect, PTL DEF Spec

\* What the analytics estimate from the lengths alone is what the page table
\* holds, in every state: the blocks of the sequences, of the stack and of
\* free_sequence in flight add up to the pool, the two roundings agree, and
\* the wasted slots are less than a block for each sequence.
THEOREM EstimatesAreExact == Spec => []EstimateMatchesPool
  BY EstimateIsExact, Invariance, RegisteredFinite, PTL
=============================================================================
