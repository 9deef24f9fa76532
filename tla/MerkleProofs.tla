---------------------------- MODULE MerkleProofs ----------------------------
(***************************************************************************)
(* Theorems about Merkle, Openings and Guest, for lists of every length,   *)
(* files of every path and content, and inclusion proofs of every length:  *)
(* the recursive functions are well defined, a proof leads to the root     *)
(* from a leaf of the tree only, a root stands for one set of files, and   *)
(* whatever a host writes, the guest commits a published bundle's output.  *)
(***************************************************************************)
EXTENDS Openings, Guest, FiniteSetTheorems, FunctionTheorems, SequenceTheorems, WellFoundedInduction, TLAPS

-----------------------------------------------------------------------------
(* Numbers.                                                                *)

LEMMA LeastNatural ==
  ASSUME NEW T \in SUBSET Nat, T # {}
  PROVE  \E k \in T : \A m \in T : k <= m
<1> DEFINE R == OpToRel(<, Nat)
<1>1. IsWellFoundedOn(R, Nat)
  BY NatLessThanWellFounded
<1>2. \A m, n \in Nat : m < n => <<m, n>> \in R
  BY DEF OpToRel
<1> HIDE DEF R
<1>3. PICK k \in T : \A m \in T : <<m, k>> \notin R
  BY <1>1, WFMin
<1>4. \A m \in T : ~(m < k)
  BY <1>2, <1>3
<1> QED BY <1>4

LEMMA SetInduction ==
  ASSUME NEW S \in SUBSET Nat, 0 \in S, \A n \in S : n + 1 \in S
  PROVE  S = Nat
<1> SUFFICES ASSUME Nat \ S # {} PROVE FALSE
  OBVIOUS
<1>1. PICK n \in Nat \ S : \A m \in Nat \ S : n <= m
  BY LeastNatural
<1>2. n - 1 \in Nat /\ n - 1 \in S
  BY <1>1
<1> QED BY <1>2

(* The recursion of TwoTo is well defined. *)
LEMMA TwoToDef ==
  \A w \in Nat : TwoTo[w] = IF w = 0 THEN 1 ELSE 2 * TwoTo[w - 1]
<1> DEFINE Value(g, w) == IF w = 0 THEN 1 ELSE 2 * g[w - 1]
           Settled(g, m) == \A w \in Nat : w <= m => g[w] = Value(g, w)
           Powered(m) == CHOOSE g : Settled(g, m)
           limit == [w \in Nat |-> Powered(w)[w]]
<1>1. ASSUME NEW m \in Nat PROVE \E g : Settled(g, m)
  <2> DEFINE S == {k \in Nat : \E g : Settled(g, k)}
  <2>1. 0 \in S
    <3>1. Settled([w \in Nat |-> 1], 0)
      OBVIOUS
    <3> QED BY <3>1
  <2>2. ASSUME NEW k \in S PROVE k + 1 \in S
    <3>1. PICK g : Settled(g, k)
      OBVIOUS
    <3> DEFINE next == [w \in Nat |-> Value(g, w)]
    <3>2. \A w \in Nat : next[w] = IF w = 0 THEN 1 ELSE 2 * g[w - 1]
      OBVIOUS
    <3> HIDE DEF next
    <3>3. ASSUME NEW w \in Nat, w <= k PROVE next[w] = g[w]
      BY <3>1, <3>2, <3>3
    <3>4. ASSUME NEW w \in Nat, w <= k + 1 PROVE next[w] = Value(next, w)
      <4>1. CASE w = 0
        BY <3>2, <4>1
      <4>2. CASE w # 0
        <5>1. w - 1 \in Nat /\ w - 1 <= k
          BY <3>4, <4>2
        <5>2. next[w - 1] = g[w - 1]
          BY <3>3, <5>1
        <5> QED BY <3>2, <4>2, <5>2
      <4> QED BY <4>1, <4>2
    <3>5. Settled(next, k + 1)
      BY <3>4
    <3> QED BY <3>5
  <2>3. S = Nat
    BY <2>1, <2>2, SetInduction
  <2> QED BY <2>3
<1>2. ASSUME NEW m \in Nat, NEW n \in Nat, NEW g, NEW h, Settled(g, m), Settled(h, n)
      PROVE  \A w \in Nat : w <= m /\ w <= n => g[w] = h[w]
  <2> DEFINE S == {w \in Nat : w <= m /\ w <= n => g[w] = h[w]}
  <2>1. 0 \in S
    BY <1>2
  <2>2. ASSUME NEW k \in S PROVE k + 1 \in S
    <3> SUFFICES ASSUME k + 1 <= m, k + 1 <= n PROVE g[k + 1] = h[k + 1]
      OBVIOUS
    <3>1. g[k] = h[k] /\ k + 1 # 0 /\ (k + 1) - 1 = k /\ k + 1 \in Nat
      OBVIOUS
    <3>2. g[k + 1] = 2 * g[k] /\ h[k + 1] = 2 * h[k]
      BY <1>2, <3>1
    <3> QED BY <3>1, <3>2
  <2>3. S = Nat
    BY <2>1, <2>2, SetInduction
  <2> QED BY <2>3
<1> HIDE DEF Settled
<1>3. ASSUME NEW m \in Nat PROVE Settled(Powered(m), m)
  BY <1>1
<1> HIDE DEF Powered
<1>4. \A w \in Nat : limit[w] = Value(limit, w)
  <2> SUFFICES ASSUME NEW w \in Nat PROVE limit[w] = Value(limit, w)
    OBVIOUS
  <2>1. limit[w] = Value(Powered(w), w)
    BY <1>3 DEF Settled
  <2>2. CASE w # 0
    <3>1. w - 1 \in Nat /\ w - 1 <= w
      BY <2>2
    <3>2. limit[w - 1] = Powered(w - 1)[w - 1]
      BY <3>1
    <3>3. Powered(w - 1)[w - 1] = Powered(w)[w - 1]
      BY <1>2, <1>3, <3>1
    <3> QED BY <2>1, <2>2, <3>2, <3>3
  <2>3. CASE w = 0
    BY <2>1, <2>3
  <2> QED BY <2>2, <2>3
<1>5. \E g : g = [w \in Nat |-> IF w = 0 THEN 1 ELSE 2 * g[w - 1]]
  <2>1. limit = [w \in Nat |-> Value(limit, w)]
    BY <1>4
  <2> QED BY <2>1
<1>6. TwoTo = [w \in Nat |-> IF w = 0 THEN 1 ELSE 2 * TwoTo[w - 1]]
  BY <1>5 DEF TwoTo
<1> QED BY <1>6

LEMMA PowersOfTwo ==
  /\ TwoTo[0] = 1
  /\ \A w \in Nat : TwoTo[w] \in Nat \ {0} /\ TwoTo[w + 1] = 2 * TwoTo[w]
<1>1. TwoTo[0] = 1 /\ \A w \in Nat : TwoTo[w + 1] = 2 * TwoTo[w]
  <2>1. \A w \in Nat : w + 1 \in Nat /\ w + 1 # 0 /\ (w + 1) - 1 = w
    OBVIOUS
  <2> QED BY <2>1, TwoToDef
<1> DEFINE S == {w \in Nat : TwoTo[w] \in Nat \ {0}}
<1>2. 0 \in S /\ \A w \in S : w + 1 \in S
  BY <1>1
<1>3. S = Nat
  BY <1>2, SetInduction
<1> QED BY <1>1, <1>3

LEMMA PowerHalves ==
  ASSUME NEW w \in Nat \ {0}
  PROVE  TwoTo[w] = 2 * TwoTo[w - 1] /\ TwoTo[w - 1] \in Nat \ {0}
<1>1. w - 1 \in Nat /\ (w - 1) + 1 = w
  OBVIOUS
<1>2. TwoTo[(w - 1) + 1] = 2 * TwoTo[w - 1]
  BY <1>1, PowersOfTwo
<1> QED BY <1>1, <1>2, PowersOfTwo

(* The powers of two up to the number of values of a usize. *)
Powers == {TwoTo[w] : w \in 0 .. UsizeBits}

LEMMA PowersFacts ==
  /\ Powers \subseteq Nat \ {0}
  /\ 1 \in Powers
  /\ \A p \in Powers : p > 1 => p \div 2 \in Powers /\ p = 2 * (p \div 2)
<1>1. UsizeBits \in Nat
  BY UsizeAssumption
<1>2. Powers \subseteq Nat \ {0}
  BY <1>1, PowersOfTwo DEF Powers
<1>3. 1 \in Powers
  <2>1. 0 \in 0 .. UsizeBits
    BY <1>1
  <2> QED BY <2>1, PowersOfTwo DEF Powers
<1>4. ASSUME NEW p \in Powers, p > 1 PROVE p \div 2 \in Powers /\ p = 2 * (p \div 2)
  <2>1. PICK w \in 0 .. UsizeBits : p = TwoTo[w]
    BY DEF Powers
  <2>2. w # 0 /\ w \in Nat
    BY <1>1, <1>4, <2>1, PowersOfTwo
  <2>3. p = 2 * TwoTo[w - 1] /\ TwoTo[w - 1] \in Nat
    BY <2>1, <2>2, PowerHalves
  <2>4. p \div 2 = TwoTo[w - 1]
    <3>1. \A k \in Nat : (2 * k) \div 2 = k
      OBVIOUS
    <3> QED BY <2>3, <3>1
  <2>5. w - 1 \in 0 .. UsizeBits
    BY <1>1, <2>2
  <2> QED BY <2>3, <2>4, <2>5 DEF Powers
<1> QED BY <1>2, <1>3, <1>4

LEMMA UsizeIsAPower == USIZE \in Powers /\ USIZE > 1
<1>1. UsizeBits \in 0 .. UsizeBits
  BY UsizeAssumption
<1>2. TwoTo[UsizeBits] = 2 * TwoTo[UsizeBits - 1] /\ TwoTo[UsizeBits - 1] \in Nat \ {0}
  BY UsizeAssumption, PowerHalves
<1> QED BY <1>1, <1>2 DEF USIZE, Powers

LEMMA LeastPower ==
  ASSUME NEW n \in Nat, NEW q \in Powers, n <= q
  PROVE  \E least \in Powers :
           /\ NextPowerOfTwo(n) = least % USIZE
           /\ n <= least /\ \A p \in Powers : n <= p => least <= p
<1> DEFINE powers == {p \in {TwoTo[w] : w \in 0 .. UsizeBits} : p >= n}
           least == CHOOSE p \in powers : \A r \in powers : p <= r
<1>1. powers = {p \in Powers : p >= n}
  BY DEF Powers
<1>2. NextPowerOfTwo(n) = least % USIZE
  BY DEF NextPowerOfTwo
<1>3. powers \in SUBSET Nat /\ powers # {}
  BY <1>1, PowersFacts
<1> HIDE DEF powers
<1>4. \E p \in powers : \A r \in powers : p <= r
  BY <1>3, LeastNatural
<1>5. least \in powers /\ \A r \in powers : least <= r
  BY <1>4
<1> HIDE DEF least
<1> QED BY <1>1, <1>2, <1>5, PowersFacts

(* A size is split inside the slice, or at 0 when the power of two above   *)
(* it is no usize.                                                         *)
LEMMA SplitsInside ==
  ASSUME NEW n \in Nat, 2 <= n, n < USIZE
  PROVE  /\ SplitPoint(n) \in 0 .. n - 1
         /\ n <= USIZE \div 2 => SplitPoint(n) \in 1 .. n - 1
<1> USIZE \in Powers /\ n <= USIZE
  BY UsizeIsAPower, PowersFacts
<1>1. PICK least \in Powers :
        /\ NextPowerOfTwo(n) = least % USIZE
        /\ n <= least /\ \A p \in Powers : n <= p => least <= p
  BY LeastPower
<1>2. SplitPoint(n) = (least % USIZE) \div 2
  BY <1>1 DEF SplitPoint
<1>3. /\ least \in Nat /\ USIZE \in Nat /\ least <= USIZE
      /\ least \div 2 \in Powers /\ least = 2 * (least \div 2) /\ least \div 2 < least
      /\ least \div 2 \in Nat \ {0}
  BY <1>1, UsizeIsAPower, PowersFacts
<1>4. least \div 2 < n
  BY <1>1, <1>3
<1>5. CASE least = USIZE
  <2>1. SplitPoint(n) = 0
    BY <1>2, <1>3, <1>5
  <2>2. USIZE \div 2 < n
    BY <1>4, <1>5
  <2> QED BY <2>1, <2>2, <1>3
<1>6. CASE least < USIZE
  <2>1. SplitPoint(n) = least \div 2
    BY <1>2, <1>3, <1>6
  <2> QED BY <2>1, <1>3, <1>4
<1> QED BY <1>3, <1>5, <1>6

LEMMA SplitBound ==
  ASSUME NEW n \in Nat, 2 <= n, n <= USIZE \div 2, NEW w \in 0 .. UsizeBits, n <= TwoTo[w]
  PROVE  w \in 1 .. UsizeBits /\ SplitPoint(n) <= TwoTo[w - 1] /\ n - SplitPoint(n) <= TwoTo[w - 1]
<1>1. TwoTo[w] \in Powers /\ TwoTo[w] \in Nat
  BY PowersFacts DEF Powers
<1>2. w # 0
  BY PowersOfTwo
<1>3. PICK least \in Powers :
        /\ NextPowerOfTwo(n) = least % USIZE
        /\ n <= least /\ \A p \in Powers : n <= p => least <= p
  BY <1>1, LeastPower
<1>4. /\ USIZE \in Nat /\ USIZE \div 2 \in Powers /\ USIZE = 2 * (USIZE \div 2)
      /\ least \in Nat /\ least = 2 * (least \div 2) /\ least \div 2 \in Nat /\ USIZE \div 2 \in Nat \ {0}
  BY <1>3, UsizeIsAPower, PowersFacts
<1>5. least <= USIZE \div 2 /\ least <= TwoTo[w]
  BY <1>1, <1>3, <1>4
<1>6. SplitPoint(n) = least \div 2
  BY <1>3, <1>4, <1>5 DEF SplitPoint
<1>7. w \in 1 .. UsizeBits
  BY <1>2, UsizeAssumption
<1>8. PICK half : half = TwoTo[w - 1]
  OBVIOUS
<1>9. TwoTo[w] = 2 * half /\ half \in Int
  BY <1>7, <1>8, PowerHalves
<1>10. least \div 2 <= half /\ n - least \div 2 <= half
  BY <1>1, <1>3, <1>4, <1>5, <1>9
<1> QED BY <1>6, <1>7, <1>8, <1>10

-----------------------------------------------------------------------------
(* The tree.                                                               *)

LEMMA SliceSplit ==
  ASSUME NEW n \in 1 .. USIZE \div 2, NEW lo \in 1 .. n, NEW hi \in 1 .. n, lo < hi
  PROVE  lo + SplitPoint(hi - lo + 1) \in lo + 1 .. hi
<1>1. USIZE \in Nat /\ USIZE > 1
  BY UsizeIsAPower, PowersFacts
<1>2. hi - lo + 1 \in Nat /\ 2 <= hi - lo + 1 /\ hi - lo + 1 < USIZE /\ hi - lo + 1 <= USIZE \div 2
  BY <1>1
<1>3. SplitPoint(hi - lo + 1) \in 1 .. (hi - lo + 1) - 1
  BY <1>2, SplitsInside
<1> QED BY <1>3

(* The recursion of TreeRoot has a value: iterating its body from any      *)
(* function settles every slice of length m after m steps.                 *)
LEMMA TreeRootDef ==
  ASSUME NEW leaves, Len(leaves) \in 1 .. USIZE \div 2
  PROVE  \A lo, hi \in 1 .. Len(leaves) :
           LET middle == lo + SplitPoint(hi - lo + 1)
           IN  TreeRoot(leaves, lo, hi) =
                 IF lo >= hi THEN leaves[lo]
                 ELSE NodeHash(TreeRoot(leaves, lo, middle - 1), TreeRoot(leaves, middle, hi))
<1> DEFINE D == 1 .. Len(leaves)
           Middle(lo, hi) == lo + SplitPoint(hi - lo + 1)
           Value(g, slice) ==
             LET lo == slice[1]
                 hi == slice[2]
                 middle == lo + SplitPoint(hi - lo + 1)
             IN  IF lo >= hi THEN leaves[lo]
                 ELSE NodeHash(g[<<lo, middle - 1>>], g[<<middle, hi>>])
           Body(g) == [slice \in Slices(Len(leaves)) |-> Value(g, slice)]
           Settled(g, m) == \A lo, hi \in D : hi - lo < m => g[<<lo, hi>>] = Value(g, <<lo, hi>>)
<1>1. ASSUME NEW lo \in D, NEW hi \in D, lo < hi
      PROVE  /\ Middle(lo, hi) - 1 \in D /\ (Middle(lo, hi) - 1) - lo < hi - lo
             /\ Middle(lo, hi) \in D /\ hi - Middle(lo, hi) < hi - lo
  <2>1. Middle(lo, hi) \in lo + 1 .. hi
    BY <1>1, SliceSplit
  <2> QED BY <2>1
<1>2. ASSUME NEW g, NEW lo, NEW hi
      PROVE  Value(g, <<lo, hi>>) =
               IF lo >= hi THEN leaves[lo]
               ELSE NodeHash(g[<<lo, Middle(lo, hi) - 1>>], g[<<Middle(lo, hi), hi>>])
  OBVIOUS
<1>3. ASSUME NEW g, NEW lo \in D, NEW hi \in D
      PROVE  Body(g)[<<lo, hi>>] = Value(g, <<lo, hi>>)
  <2>1. <<lo, hi>> \in Slices(Len(leaves))
    BY DEF Slices
  <2> HIDE DEF Value
  <2> QED BY <2>1
<1> HIDE DEF Value, Body, Middle
<1>4. ASSUME NEW m \in Nat, NEW g, Settled(g, m)
      PROVE  /\ Settled(Body(g), m + 1)
             /\ \A lo, hi \in D : hi - lo < m => Body(g)[<<lo, hi>>] = g[<<lo, hi>>]
  <2>1. \A lo, hi \in D : hi - lo < m => Body(g)[<<lo, hi>>] = g[<<lo, hi>>]
    BY <1>3, <1>4
  <2>2. ASSUME NEW lo \in D, NEW hi \in D, hi - lo < m + 1
        PROVE  Value(Body(g), <<lo, hi>>) = Value(g, <<lo, hi>>)
    <3>1. CASE lo >= hi
      BY <1>2, <3>1
    <3>2. CASE lo < hi
      <4>1. /\ Body(g)[<<lo, Middle(lo, hi) - 1>>] = g[<<lo, Middle(lo, hi) - 1>>]
            /\ Body(g)[<<Middle(lo, hi), hi>>] = g[<<Middle(lo, hi), hi>>]
        <5>1. /\ Middle(lo, hi) - 1 \in D /\ (Middle(lo, hi) - 1) - lo < hi - lo
              /\ Middle(lo, hi) \in D /\ hi - Middle(lo, hi) < hi - lo
          BY <1>1, <3>2
        <5>2. (Middle(lo, hi) - 1) - lo < m /\ hi - Middle(lo, hi) < m
          BY <2>2, <5>1
        <5> QED BY <2>1, <5>1, <5>2
      <4> QED BY <1>2, <3>2, <4>1
    <3> QED BY <3>1, <3>2
  <2> QED BY <1>3, <2>1, <2>2
<1> HIDE DEF Settled
<1>5. \A m \in Nat : \E g : Settled(g, m)
  <2> DEFINE T == {m \in Nat : ~\E g : Settled(g, m)}
  <2> SUFFICES ASSUME T # {} PROVE FALSE
    OBVIOUS
  <2>1. PICK m \in T : \A other \in T : m <= other
    BY LeastNatural
  <2>2. CASE m = 0
    <3> DEFINE first == [slice \in Slices(Len(leaves)) |-> leaves[slice[1]]]
    <3>1. ASSUME NEW lo \in D, NEW hi \in D, hi - lo < 0
          PROVE  first[<<lo, hi>>] = Value(first, <<lo, hi>>)
      <4>1. first[<<lo, hi>>] = leaves[lo]
        BY DEF Slices
      <4>2. lo >= hi
        BY <3>1
      <4> HIDE DEF first
      <4> QED BY <1>2, <4>1, <4>2
    <3> HIDE DEF first
    <3>2. Settled(first, 0)
      BY <3>1 DEF Settled
    <3> QED BY <2>1, <2>2, <3>2
  <2>3. CASE m # 0
    <3>1. m - 1 \in Nat /\ m - 1 \notin T
      BY <2>1, <2>3
    <3>2. PICK g : Settled(g, m - 1)
      BY <3>1
    <3>3. Settled(Body(g), (m - 1) + 1)
      BY <1>4, <3>1, <3>2
    <3> QED BY <2>1, <3>3
  <2> QED BY <2>2, <2>3
<1>6. \E g : g = Body(g)
  <2>1. PICK g : Settled(g, Len(leaves))
    BY <1>5
  <2>2. Settled(Body(g), Len(leaves) + 1)
    BY <1>4, <2>1
  <2> DEFINE h == Body(g)
  <2>3. h = [slice \in Slices(Len(leaves)) |-> h[slice]]
    BY DEF Body
  <2> HIDE DEF h
  <2>4. \A lo, hi \in D : h[<<lo, hi>>] = Value(h, <<lo, hi>>)
    <3>1. Settled(h, Len(leaves) + 1)
      BY <2>2 DEF h
    <3>2. \A lo, hi \in D : hi - lo < Len(leaves) + 1
      OBVIOUS
    <3> QED BY <3>1, <3>2 DEF Settled
  <2>5. \A slice \in Slices(Len(leaves)) : h[slice] = Value(h, slice)
    BY <2>4 DEF Slices
  <2>6. h = Body(h)
    BY <2>3, <2>5 DEF Body
  <2> QED BY <2>6
<1> DEFINE root == CHOOSE g : g = Body(g)
<1>7. root = Body(root)
  BY <1>6
<1>8. \A lo, hi : TreeRoot(leaves, lo, hi) = root[<<lo, hi>>]
  BY DEF TreeRoot, Body, Value
<1> HIDE DEF root
<1>9. \A lo, hi \in D : root[<<lo, hi>>] = Value(root, <<lo, hi>>)
  BY <1>3, <1>7
<1>10. ASSUME NEW lo \in D, NEW hi \in D
       PROVE  TreeRoot(leaves, lo, hi) =
                IF lo >= hi THEN leaves[lo]
                ELSE NodeHash(TreeRoot(leaves, lo, Middle(lo, hi) - 1), TreeRoot(leaves, Middle(lo, hi), hi))
  <2>1. TreeRoot(leaves, lo, hi) = Value(root, <<lo, hi>>)
    BY <1>8, <1>9
  <2>2. /\ TreeRoot(leaves, lo, Middle(lo, hi) - 1) = root[<<lo, Middle(lo, hi) - 1>>]
        /\ TreeRoot(leaves, Middle(lo, hi), hi) = root[<<Middle(lo, hi), hi>>]
    BY <1>8
  <2> QED BY <1>2, <2>1, <2>2
<1> QED BY <1>10 DEF Middle

-----------------------------------------------------------------------------
(* Sequences of anything.                                                  *)

IsSequence(s) == \E A : s \in Seq(A)

LEMMA SequenceReads ==
  ASSUME NEW s, IsSequence(s)
  PROVE  Len(s) \in Nat /\ DOMAIN s = 1 .. Len(s) /\ s = [i \in 1 .. Len(s) |-> s[i]]
BY DEF IsSequence

LEMMA AppendReads ==
  ASSUME NEW s, NEW e, IsSequence(s)
  PROVE  /\ IsSequence(Append(s, e)) /\ Len(Append(s, e)) = Len(s) + 1
         /\ Append(s, e)[Len(s) + 1] = e
         /\ \A k \in 1 .. Len(s) : Append(s, e)[k] = s[k]
<1>1. PICK A : s \in Seq(A)
  BY DEF IsSequence
<1>2. s \in Seq(A \cup {e}) /\ e \in A \cup {e}
  BY <1>1, SeqMonotonic
<1>3. Append(s, e) \in Seq(A \cup {e})
  BY <1>2
<1> QED BY <1>2, <1>3 DEF IsSequence

-----------------------------------------------------------------------------
(* Inclusion proofs.                                                       *)

(* A proof in a slice of more than one leaf: the proof in the half of leaf *)
(* `index`, and the hash of the other half.                                *)
Longer(proof, leaves, index, lo, hi) ==
  LET middle == lo + SplitPoint(hi - lo + 1)
  IN  IF index < middle
        THEN Append(proof[<<lo, middle - 1>>], TreeRoot(leaves, middle, hi))
        ELSE Append(proof[<<middle, hi>>], TreeRoot(leaves, lo, middle - 1))

LEMMA LongerReads ==
  ASSUME NEW leaves, NEW index, NEW lo, NEW hi, NEW g, NEW h, NEW middle,
         middle = lo + SplitPoint(hi - lo + 1),
         g[<<lo, middle - 1>>] = h[<<lo, middle - 1>>], g[<<middle, hi>>] = h[<<middle, hi>>]
  PROVE  Longer(g, leaves, index, lo, hi) = Longer(h, leaves, index, lo, hi)
<1>1. CASE index < middle
  BY <1>1, Zenon DEF Longer
<1>2. CASE ~(index < middle)
  BY <1>2, Zenon DEF Longer
<1> QED BY <1>1, <1>2

(* The recursion of BuildProof has a value, settled as that of TreeRoot. *)
LEMMA BuildProofDef ==
  ASSUME NEW leaves, Len(leaves) \in 1 .. USIZE \div 2, NEW index
  PROVE  \E proof :
           /\ BuildProof(leaves, index) = proof[<<1, Len(leaves)>>]
           /\ \A lo, hi \in 1 .. Len(leaves) :
                proof[<<lo, hi>>] = IF lo >= hi THEN <<>> ELSE Longer(proof, leaves, index, lo, hi)
<1> DEFINE D == 1 .. Len(leaves)
           Middle(lo, hi) == lo + SplitPoint(hi - lo + 1)
           Value(g, slice) ==
             LET lo == slice[1]
                 hi == slice[2]
             IN  IF lo >= hi THEN <<>> ELSE Longer(g, leaves, index, lo, hi)
           Body(g) == [slice \in Slices(Len(leaves)) |-> Value(g, slice)]
           Settled(g, m) == \A lo, hi \in D : hi - lo < m => g[<<lo, hi>>] = Value(g, <<lo, hi>>)
<1>1. ASSUME NEW lo \in D, NEW hi \in D, lo < hi
      PROVE  /\ Middle(lo, hi) - 1 \in D /\ (Middle(lo, hi) - 1) - lo < hi - lo
             /\ Middle(lo, hi) \in D /\ hi - Middle(lo, hi) < hi - lo
  <2>1. Middle(lo, hi) \in lo + 1 .. hi
    BY <1>1, SliceSplit
  <2> QED BY <2>1
<1>2. ASSUME NEW g, NEW lo, NEW hi
      PROVE  Value(g, <<lo, hi>>) = IF lo >= hi THEN <<>> ELSE Longer(g, leaves, index, lo, hi)
  OBVIOUS
<1>3. ASSUME NEW g, NEW lo \in D, NEW hi \in D
      PROVE  Body(g)[<<lo, hi>>] = Value(g, <<lo, hi>>)
  <2>1. <<lo, hi>> \in Slices(Len(leaves))
    BY DEF Slices
  <2> HIDE DEF Value
  <2> QED BY <2>1
<1> HIDE DEF Value, Body, Middle
<1>4. ASSUME NEW m \in Nat, NEW g, Settled(g, m)
      PROVE  /\ Settled(Body(g), m + 1)
             /\ \A lo, hi \in D : hi - lo < m => Body(g)[<<lo, hi>>] = g[<<lo, hi>>]
  <2>1. \A lo, hi \in D : hi - lo < m => Body(g)[<<lo, hi>>] = g[<<lo, hi>>]
    BY <1>3, <1>4
  <2>2. ASSUME NEW lo \in D, NEW hi \in D, hi - lo < m + 1
        PROVE  Value(Body(g), <<lo, hi>>) = Value(g, <<lo, hi>>)
    <3>1. CASE lo >= hi
      BY <1>2, <3>1
    <3>2. CASE lo < hi
      <4>1. /\ Body(g)[<<lo, Middle(lo, hi) - 1>>] = g[<<lo, Middle(lo, hi) - 1>>]
            /\ Body(g)[<<Middle(lo, hi), hi>>] = g[<<Middle(lo, hi), hi>>]
        <5>1. /\ Middle(lo, hi) - 1 \in D /\ (Middle(lo, hi) - 1) - lo < hi - lo
              /\ Middle(lo, hi) \in D /\ hi - Middle(lo, hi) < hi - lo
          BY <1>1, <3>2
        <5>2. (Middle(lo, hi) - 1) - lo < m /\ hi - Middle(lo, hi) < m
          BY <2>2, <5>1
        <5> QED BY <2>1, <5>1, <5>2
      <4>2. ~(lo >= hi)
        BY <3>2
      <4>3. Longer(Body(g), leaves, index, lo, hi) = Longer(g, leaves, index, lo, hi)
        BY <4>1, LongerReads DEF Middle
      <4> QED BY <1>2, <4>2, <4>3, Zenon
    <3> QED BY <3>1, <3>2
  <2> QED BY <1>3, <2>1, <2>2
<1> HIDE DEF Settled
<1>5. \A m \in Nat : \E g : Settled(g, m)
  <2> DEFINE T == {m \in Nat : ~\E g : Settled(g, m)}
  <2> SUFFICES ASSUME T # {} PROVE FALSE
    OBVIOUS
  <2>1. PICK m \in T : \A other \in T : m <= other
    BY LeastNatural
  <2>2. CASE m = 0
    <3> DEFINE first == [slice \in Slices(Len(leaves)) |-> <<>>]
    <3>1. ASSUME NEW lo \in D, NEW hi \in D, hi - lo < 0
          PROVE  first[<<lo, hi>>] = Value(first, <<lo, hi>>)
      <4>1. first[<<lo, hi>>] = <<>>
        BY DEF Slices
      <4>2. lo >= hi
        BY <3>1
      <4> HIDE DEF first
      <4> QED BY <1>2, <4>1, <4>2
    <3> HIDE DEF first
    <3>2. Settled(first, 0)
      BY <3>1 DEF Settled
    <3> QED BY <2>1, <2>2, <3>2
  <2>3. CASE m # 0
    <3>1. m - 1 \in Nat /\ m - 1 \notin T
      BY <2>1, <2>3
    <3>2. PICK g : Settled(g, m - 1)
      BY <3>1
    <3>3. Settled(Body(g), (m - 1) + 1)
      BY <1>4, <3>1, <3>2
    <3> QED BY <2>1, <3>3
  <2> QED BY <2>2, <2>3
<1>6. \E g : g = Body(g)
  <2>1. PICK g : Settled(g, Len(leaves))
    BY <1>5
  <2>2. Settled(Body(g), Len(leaves) + 1)
    BY <1>4, <2>1
  <2> DEFINE h == Body(g)
  <2>3. h = [slice \in Slices(Len(leaves)) |-> h[slice]]
    BY DEF Body
  <2> HIDE DEF h
  <2>4. \A lo, hi \in D : h[<<lo, hi>>] = Value(h, <<lo, hi>>)
    <3>1. Settled(h, Len(leaves) + 1)
      BY <2>2 DEF h
    <3>2. \A lo, hi \in D : hi - lo < Len(leaves) + 1
      OBVIOUS
    <3> QED BY <3>1, <3>2 DEF Settled
  <2>5. \A slice \in Slices(Len(leaves)) : h[slice] = Value(h, slice)
    BY <2>4 DEF Slices
  <2>6. h = Body(h)
    BY <2>3, <2>5 DEF Body
  <2> QED BY <2>6
<1> DEFINE proof == CHOOSE g : g = Body(g)
<1>7. proof = Body(proof)
  BY <1>6
<1>8. BuildProof(leaves, index) = proof[<<1, Len(leaves)>>]
  BY DEF BuildProof, Body, Value, Longer
<1> HIDE DEF proof
<1>9. \A lo, hi \in D : proof[<<lo, hi>>] = Value(proof, <<lo, hi>>)
  BY <1>3, <1>7
<1> QED BY <1>8, <1>9 DEF Value

-----------------------------------------------------------------------------
(* Verification.                                                           *)

(* One turn of Fold on leaf index i of a tree of s leaves, m siblings left *)
(* and u the hash reached with one sibling less.                           *)
Turn(u, leaf, proof, i, s, m) ==
  LET k == SplitPoint(s)
      below == IF i < k THEN u[<<i, k, m - 1>>] ELSE u[<<i - k, s - k, m - 1>>]
  IN  IF s = 1 \/ m = 0 THEN IF s = 1 /\ m = 0 THEN leaf ELSE NoHash
      ELSE IF below = NoHash THEN NoHash
      ELSE IF i < k THEN NodeHash(below, proof[m]) ELSE NodeHash(proof[m], below)

(* What a turn reads of u: the hash below, one sibling earlier. *)
LEMMA TurnReads ==
  ASSUME NEW index \in Nat, NEW size \in Nat, size < USIZE,
         NEW leaf, NEW proof, NEW u, NEW v,
         NEW i \in 0 .. index, NEW s \in 1 .. size, NEW m \in Nat,
         m > 0 => \A j \in 0 .. index, t \in 1 .. size : u[<<j, t, m - 1>>] = v[<<j, t, m - 1>>]
  PROVE  Turn(u, leaf, proof, i, s, m) = Turn(v, leaf, proof, i, s, m)
<1>1. CASE s = 1 \/ m = 0
  BY <1>1 DEF Turn
<1>2. CASE s # 1 /\ m # 0
  <2> DEFINE k == SplitPoint(s)
  <2>1. k \in 0 .. s - 1
    <3>1. USIZE \in Nat
      BY UsizeIsAPower, PowersFacts
    <3>2. s \in Nat /\ 2 <= s /\ s < USIZE
      BY <1>2, <3>1
    <3> QED BY <3>2, SplitsInside
  <2> HIDE DEF k
  <2>2. CASE i < k
    <3>1. i \in 0 .. index /\ k \in 1 .. size
      BY <2>1, <2>2
    <3>2. u[<<i, k, m - 1>>] = v[<<i, k, m - 1>>]
      BY <1>2, <3>1
    <3> QED BY <1>2, <2>2, <3>2 DEF Turn, k
  <2>3. CASE ~(i < k)
    <3>1. i - k \in 0 .. index /\ s - k \in 1 .. size
      BY <2>1, <2>3
    <3>2. u[<<i - k, s - k, m - 1>>] = v[<<i - k, s - k, m - 1>>]
      BY <1>2, <3>1
    <3> QED BY <1>2, <2>3, <3>2 DEF Turn, k
  <2> QED BY <2>2, <2>3
<1> QED BY <1>1, <1>2

(* The recursion of Fold has a value: each turn uses one sibling. *)
LEMMA FoldDef ==
  ASSUME NEW index \in Nat, NEW size \in Nat, size < USIZE,
         NEW leaf, NEW proof, Len(proof) \in Nat
  PROVE  \E up :
           /\ Fold(leaf, index, size, proof) = up[<<index, size, Len(proof)>>]
           /\ \A i \in 0 .. index, s \in 1 .. size, m \in 0 .. Len(proof) :
                up[<<i, s, m>>] = Turn(up, leaf, proof, i, s, m)
<1> DEFINE I == 0 .. index
           S == 1 .. size
           M == 0 .. Len(proof)
           Body(u) == [at \in I \X S \X M |-> Turn(u, leaf, proof, at[1], at[2], at[3])]
           Settled(u, n) ==
             \A i \in I, s \in S, m \in M : m < n => u[<<i, s, m>>] = Turn(u, leaf, proof, i, s, m)
<1>1. ASSUME NEW u, NEW i \in I, NEW s \in S, NEW m \in M
      PROVE  Body(u)[<<i, s, m>>] = Turn(u, leaf, proof, i, s, m)
  OBVIOUS
<1>2. ASSUME NEW u PROVE Body(u) = [at \in I \X S \X M |-> Body(u)[at]]
  OBVIOUS
<1>3. ASSUME NEW u, \A i \in I, s \in S, m \in M : u[<<i, s, m>>] = Turn(u, leaf, proof, i, s, m),
             u = [at \in I \X S \X M |-> u[at]]
      PROVE  u = Body(u)
  <2>1. ASSUME NEW at \in I \X S \X M
        PROVE  u[at] = Turn(u, leaf, proof, at[1], at[2], at[3])
    <3>1. at = <<at[1], at[2], at[3]>> /\ at[1] \in I /\ at[2] \in S /\ at[3] \in M
      OBVIOUS
    <3> QED BY <1>3, <3>1
  <2> QED BY <1>3, <2>1
<1>4. Fold(leaf, index, size, proof) = (CHOOSE u : u = Body(u))[<<index, size, Len(proof)>>]
  BY DEF Fold, Turn
<1> HIDE DEF Body
<1>5. ASSUME NEW n \in Nat, NEW u, Settled(u, n)
      PROVE  Settled(Body(u), n + 1)
  <2>1. \A i \in I, s \in S, m \in M : m < n => Body(u)[<<i, s, m>>] = u[<<i, s, m>>]
    BY <1>1, <1>5
  <2>2. ASSUME NEW i \in I, NEW s \in S, NEW m \in M, m < n + 1
        PROVE  Turn(u, leaf, proof, i, s, m) = Turn(Body(u), leaf, proof, i, s, m)
    <3>1. m > 0 => m - 1 \in M /\ m - 1 < n
      BY <2>2
    <3>2. m > 0 => \A j \in I, t \in S : u[<<j, t, m - 1>>] = Body(u)[<<j, t, m - 1>>]
      BY <2>1, <3>1
    <3>3. m \in Nat
      OBVIOUS
    <3> QED BY <3>2, <3>3, TurnReads
  <2> QED BY <1>1, <2>2
<1> HIDE DEF Settled
<1>6. \A n \in Nat : \E u : Settled(u, n)
  <2> DEFINE T == {n \in Nat : ~\E u : Settled(u, n)}
  <2> SUFFICES ASSUME T # {} PROVE FALSE
    OBVIOUS
  <2>1. PICK n \in T : \A other \in T : n <= other
    BY LeastNatural
  <2>2. CASE n = 0
    <3>1. ASSUME NEW u PROVE Settled(u, 0)
      BY DEF Settled
    <3> QED BY <2>1, <2>2, <3>1
  <2>3. CASE n # 0
    <3>1. n - 1 \in Nat /\ n - 1 \notin T
      BY <2>1, <2>3
    <3>2. PICK u : Settled(u, n - 1)
      BY <3>1
    <3>3. Settled(Body(u), (n - 1) + 1)
      BY <1>5, <3>1, <3>2
    <3> QED BY <2>1, <3>3
  <2> QED BY <2>2, <2>3
<1>7. \E u : u = Body(u)
  <2>1. PICK u : Settled(u, Len(proof))
    BY <1>6
  <2> DEFINE h == Body(u)
  <2>2. Settled(h, Len(proof) + 1) /\ h = [at \in I \X S \X M |-> h[at]]
    BY <1>2, <1>5, <2>1
  <2> HIDE DEF h
  <2>3. \A m \in M : m < Len(proof) + 1
    OBVIOUS
  <2>4. \A i \in I, s \in S, m \in M : h[<<i, s, m>>] = Turn(h, leaf, proof, i, s, m)
    BY <2>2, <2>3 DEF Settled
  <2> QED BY <1>3, <2>2, <2>4
<1> DEFINE up == CHOOSE u : u = Body(u)
<1>8. up = Body(up)
  BY <1>7
<1>9. Fold(leaf, index, size, proof) = up[<<index, size, Len(proof)>>]
  BY <1>4
<1> HIDE DEF up
<1>10. \A i \in I, s \in S, m \in M : up[<<i, s, m>>] = Turn(up, leaf, proof, i, s, m)
  BY <1>1, <1>8
<1> QED BY <1>9, <1>10

(* Hashes are free: a leaf, a node and no hash are told apart, and a hash  *)
(* determines what it was made of.                                         *)
LEMMA HashesAreFree ==
  /\ \A p, c, a, b : LeafHash(p, c) # NodeHash(a, b)
  /\ \A p, c : LeafHash(p, c) # NoHash
  /\ \A a, b : NodeHash(a, b) # NoHash
  /\ \A p, c, q, d : LeafHash(p, c) = LeafHash(q, d) => p = q /\ c = d
  /\ \A a, b, c, d : NodeHash(a, b) = NodeHash(c, d) => a = c /\ b = d
BY DEF LeafHash, NodeHash, NoHash

(* The hash of a slice is a leaf, or a node over two shorter slices. *)
LEMMA SliceHash ==
  ASSUME NEW leaves, Len(leaves) \in 1 .. USIZE \div 2,
         NEW lo \in 1 .. Len(leaves), NEW hi \in 1 .. Len(leaves), lo <= hi
  PROVE  \/ lo = hi /\ TreeRoot(leaves, lo, hi) = leaves[lo]
         \/ \E middle \in lo + 1 .. hi :
              TreeRoot(leaves, lo, hi) =
                NodeHash(TreeRoot(leaves, lo, middle - 1), TreeRoot(leaves, middle, hi))
<1>1. CASE lo = hi
  BY <1>1, TreeRootDef
<1>2. CASE lo < hi
  <2> DEFINE middle == lo + SplitPoint(hi - lo + 1)
  <2>1. middle \in lo + 1 .. hi
    BY <1>2, SliceSplit
  <2>2. TreeRoot(leaves, lo, hi) =
          IF lo >= hi THEN leaves[lo]
          ELSE NodeHash(TreeRoot(leaves, lo, middle - 1), TreeRoot(leaves, middle, hi))
    BY TreeRootDef
  <2>3. ~(lo >= hi)
    BY <1>2
  <2> HIDE DEF middle
  <2> QED BY <2>1, <2>2, <2>3
<1> QED BY <1>1, <1>2

(***************************************************************************)
(* Soundness of inclusion proofs, for trees of every size: a leaf from     *)
(* which some index, some size and any list of siblings lead to the root   *)
(* of a tree is a leaf of that tree (bundle.rs:404-439).                   *)
(***************************************************************************)
THEOREM ProofsAreSound ==
  ASSUME NEW leaves, Len(leaves) \in 1 .. USIZE \div 2,
         \A j \in 1 .. Len(leaves) : \E p, c : leaves[j] = LeafHash(p, c),
         NEW path, NEW content,
         NEW index \in Nat, NEW size \in Nat, index < size, size < USIZE,
         NEW proof, Len(proof) \in Nat,
         Fold(LeafHash(path, content), index, size, proof) = TreeRoot(leaves, 1, Len(leaves))
  PROVE  \E j \in 1 .. Len(leaves) : leaves[j] = LeafHash(path, content)
<1> DEFINE leaf == LeafHash(path, content)
           D == 1 .. Len(leaves)
           Root(lo, hi) == TreeRoot(leaves, lo, hi)
<1>1. PICK up :
        /\ Fold(leaf, index, size, proof) = up[<<index, size, Len(proof)>>]
        /\ \A i \in 0 .. index, s \in 1 .. size, m \in 0 .. Len(proof) :
             up[<<i, s, m>>] = Turn(up, leaf, proof, i, s, m)
  BY FoldDef
<1> DEFINE Sound(m) ==
             \A i \in 0 .. index, s \in 1 .. size : \A lo, hi \in D :
               lo <= hi /\ up[<<i, s, m>>] = Root(lo, hi) => \E j \in D : leaves[j] = leaf
<1>2. ASSUME NEW m \in 0 .. Len(proof), m > 0 => Sound(m - 1)
      PROVE  Sound(m)
  <2> SUFFICES ASSUME NEW i \in 0 .. index, NEW s \in 1 .. size, NEW lo \in D, NEW hi \in D,
                      lo <= hi, up[<<i, s, m>>] = Root(lo, hi)
               PROVE  \E j \in D : leaves[j] = leaf
    OBVIOUS
  <2>1. up[<<i, s, m>>] = Turn(up, leaf, proof, i, s, m)
    BY <1>1
  <2>2. \/ lo = hi /\ Root(lo, hi) = leaves[lo]
        \/ \E middle \in lo + 1 .. hi : Root(lo, hi) = NodeHash(Root(lo, middle - 1), Root(middle, hi))
    BY SliceHash
  <2>3. Root(lo, hi) # NoHash
    BY <2>2, HashesAreFree
  <2>4. CASE s = 1 \/ m = 0
    <3>1. up[<<i, s, m>>] = leaf
      BY <2>1, <2>3, <2>4 DEF Turn
    <3> QED BY <2>2, <3>1, HashesAreFree
  <2>5. CASE s # 1 /\ m # 0
    <3> DEFINE k == SplitPoint(s)
               below == IF i < k THEN up[<<i, k, m - 1>>] ELSE up[<<i - k, s - k, m - 1>>]
    <3>1. Root(lo, hi) = IF i < k THEN NodeHash(below, proof[m]) ELSE NodeHash(proof[m], below)
      BY <2>1, <2>3, <2>5 DEF Turn
    <3>2. k \in 0 .. s - 1
      <4>1. USIZE \in Nat
        BY UsizeIsAPower, PowersFacts
      <4>2. s \in Nat /\ 2 <= s /\ s < USIZE
        BY <2>5, <4>1
      <4> QED BY <4>2, SplitsInside
    <3>3. \E j \in 0 .. index, t \in 1 .. size : below = up[<<j, t, m - 1>>]
      <4> HIDE DEF k
      <4>1. CASE i < k
        <5>1. i \in 0 .. index /\ k \in 1 .. size
          BY <3>2, <4>1
        <5> QED BY <4>1, <5>1
      <4>2. CASE ~(i < k)
        <5>1. i - k \in 0 .. index /\ s - k \in 1 .. size
          BY <3>2, <4>2
        <5> QED BY <4>2, <5>1
      <4> QED BY <4>1, <4>2
    <3> HIDE DEF below, k
    <3>4. PICK middle \in lo + 1 .. hi : Root(lo, hi) = NodeHash(Root(lo, middle - 1), Root(middle, hi))
      BY <2>2, <3>1, HashesAreFree
    <3>5. below = Root(lo, middle - 1) \/ below = Root(middle, hi)
      BY <3>1, <3>4, HashesAreFree
    <3>6. m - 1 \in Nat /\ Sound(m - 1)
      BY <1>2, <2>5
    <3>7. /\ middle - 1 \in D /\ lo <= middle - 1
          /\ middle \in D /\ middle <= hi
      BY <3>4
    <3> QED BY <3>3, <3>5, <3>6, <3>7
  <2> QED BY <2>4, <2>5
<1>3. \A m \in 0 .. Len(proof) : Sound(m)
  <2> HIDE DEF Sound
  <2> DEFINE T == {m \in 0 .. Len(proof) : ~Sound(m)}
  <2> SUFFICES ASSUME T # {} PROVE FALSE
    OBVIOUS
  <2>1. T \in SUBSET Nat
    OBVIOUS
  <2>2. PICK m \in T : \A other \in T : m <= other
    BY <2>1, LeastNatural
  <2>3. m > 0 => m - 1 \in 0 .. Len(proof) /\ m - 1 \notin T
    BY <2>2
  <2> QED BY <1>2, <2>2, <2>3
<1>4. /\ Sound(Len(proof)) /\ index \in 0 .. index /\ size \in 1 .. size
      /\ 1 \in D /\ Len(leaves) \in D /\ 1 <= Len(leaves)
  BY <1>3
<1>5. up[<<index, size, Len(proof)>>] = Root(1, Len(leaves))
  BY <1>1
<1> QED BY <1>4, <1>5

-----------------------------------------------------------------------------
(* What the root says of the leaves.                                       *)

SameSlice(a, lo, hi, b, p, q) ==
  hi - lo = q - p /\ \A d \in 0 .. hi - lo : a[lo + d] = b[p + d]

(* Slices of the same hash hold the same leaves, when shorter ones do. *)
LEMMA SlicesOfOneHash ==
  ASSUME NEW a, Len(a) \in 1 .. USIZE \div 2,
         \A j \in 1 .. Len(a) : \E path, c : a[j] = LeafHash(path, c),
         NEW b, Len(b) \in 1 .. USIZE \div 2,
         \A j \in 1 .. Len(b) : \E path, c : b[j] = LeafHash(path, c),
         NEW lo \in 1 .. Len(a), NEW hi \in 1 .. Len(a), lo <= hi,
         NEW p \in 1 .. Len(b), NEW q \in 1 .. Len(b), p <= q,
         \A l, h \in 1 .. Len(a) : \A r, t \in 1 .. Len(b) :
           l <= h /\ r <= t /\ h - l < hi - lo /\ TreeRoot(a, l, h) = TreeRoot(b, r, t)
             => SameSlice(a, l, h, b, r, t),
         TreeRoot(a, lo, hi) = TreeRoot(b, p, q)
  PROVE  SameSlice(a, lo, hi, b, p, q)
<1> DEFINE A(l, h) == TreeRoot(a, l, h)
           B(l, h) == TreeRoot(b, l, h)
<1>0. /\ A(lo, hi) = B(p, q)
      /\ \/ p = q /\ B(p, q) = b[p]
         \/ \E middle \in p + 1 .. q : B(p, q) = NodeHash(B(p, middle - 1), B(middle, q))
  BY SliceHash
<1>1. CASE lo = hi
  <2>1. A(lo, hi) = a[lo] /\ \A x, y : A(lo, hi) # NodeHash(x, y)
    BY <1>1, TreeRootDef, HashesAreFree
  <2>2. p = q /\ B(p, q) = b[p]
    BY <1>0, <2>1
  <2>3. a[lo] = b[p]
    BY <1>0, <2>1, <2>2
  <2>4. \A d \in 0 .. hi - lo : a[lo + d] = b[p + d]
    <3>1. ASSUME NEW d \in 0 .. hi - lo PROVE d = 0
      BY <1>1
    <3>2. lo + 0 = lo /\ p + 0 = p
      OBVIOUS
    <3> QED BY <2>3, <3>1, <3>2
  <2>5. hi - lo = q - p
    BY <1>1, <2>2
  <2> QED BY <2>4, <2>5 DEF SameSlice
<1>2. CASE lo < hi
  <2>1. PICK m : m = lo + SplitPoint(hi - lo + 1)
    OBVIOUS
  <2>2. m \in lo + 1 .. hi
    BY <1>2, <2>1, SliceSplit
  <2>3. A(lo, hi) = NodeHash(A(lo, m - 1), A(m, hi))
    <3>1. ~(lo >= hi)
      BY <1>2
    <3> QED BY <2>1, <3>1, TreeRootDef
  <2>4. p < q
    <3>1. p # q
      <4>1. PICK path, c : b[p] = LeafHash(path, c)
        OBVIOUS
      <4>2. NodeHash(A(lo, m - 1), A(m, hi)) # b[p]
        BY <4>1, HashesAreFree
      <4>3. p = q => B(p, q) = b[p]
        BY TreeRootDef
      <4> QED BY <1>0, <2>3, <4>2, <4>3
    <3> QED BY <3>1
  <2>5. PICK o : o = p + SplitPoint(q - p + 1)
    OBVIOUS
  <2>6. o \in p + 1 .. q
    BY <2>4, <2>5, SliceSplit
  <2>7. B(p, q) = NodeHash(B(p, o - 1), B(o, q))
    <3>1. ~(p >= q)
      BY <2>4
    <3> QED BY <2>5, <3>1, TreeRootDef
  <2>8. A(lo, m - 1) = B(p, o - 1) /\ A(m, hi) = B(o, q)
    <3>1. NodeHash(A(lo, m - 1), A(m, hi)) = NodeHash(B(p, o - 1), B(o, q))
      BY <1>0, <2>3, <2>7
    <3>2. \A w, x, y, z : NodeHash(w, x) = NodeHash(y, z) => w = y /\ x = z
      BY HashesAreFree
    <3>3. PICK w, x, y, z : w = A(lo, m - 1) /\ x = A(m, hi) /\ y = B(p, o - 1) /\ z = B(o, q)
      OBVIOUS
    <3>4. NodeHash(w, x) = NodeHash(y, z)
      BY <3>1, <3>3
    <3>5. w = y /\ x = z
      BY <3>2, <3>4, Zenon
    <3> QED BY <3>3, <3>5
  <2>9. /\ m - 1 \in 1 .. Len(a) /\ m \in 1 .. Len(a) /\ o - 1 \in 1 .. Len(b) /\ o \in 1 .. Len(b)
        /\ lo <= m - 1 /\ m <= hi /\ p <= o - 1 /\ o <= q
        /\ (m - 1) - lo < hi - lo /\ hi - m < hi - lo
    BY <2>2, <2>6
  <2>10. SameSlice(a, lo, m - 1, b, p, o - 1) /\ SameSlice(a, m, hi, b, o, q)
    BY <2>8, <2>9
  <2>11. (m - 1) - lo = (o - 1) - p /\ hi - m = q - o
    BY <2>10 DEF SameSlice
  <2>12. hi - lo = q - p
    BY <2>2, <2>6, <2>11
  <2>13. ASSUME NEW d \in 0 .. hi - lo PROVE a[lo + d] = b[p + d]
    <3>1. CASE d <= (m - 1) - lo
      <4>1. d \in 0 .. (m - 1) - lo
        BY <2>2, <3>1
      <4> QED BY <2>10, <4>1 DEF SameSlice
    <3>2. CASE ~(d <= (m - 1) - lo)
      <4>1. PICK e : e = d - (m - lo)
        OBVIOUS
      <4>2. e \in 0 .. hi - m /\ m + e = lo + d /\ o + e = p + d
        BY <2>2, <2>6, <2>11, <3>2, <4>1
      <4>3. a[m + e] = b[o + e]
        BY <2>10, <4>2 DEF SameSlice
      <4> QED BY <4>2, <4>3
    <3> QED BY <3>1, <3>2
  <2> QED BY <2>12, <2>13 DEF SameSlice
<1> QED BY <1>1, <1>2

(***************************************************************************)
(* The root identifies the leaves, their number and their order: two trees *)
(* of any sizes have the same root only when they have the same leaves     *)
(* (bundle.rs:3-8).  That needs the shape of the tree to follow from its   *)
(* hashes: no size is hashed.                                              *)
(***************************************************************************)
THEOREM RootsIdentifyLeaves ==
  ASSUME NEW a, Len(a) \in 1 .. USIZE \div 2,
         \A j \in 1 .. Len(a) : \E path, c : a[j] = LeafHash(path, c),
         NEW b, Len(b) \in 1 .. USIZE \div 2,
         \A j \in 1 .. Len(b) : \E path, c : b[j] = LeafHash(path, c),
         TreeRoot(a, 1, Len(a)) = TreeRoot(b, 1, Len(b))
  PROVE  Len(a) = Len(b) /\ \A j \in 1 .. Len(a) : a[j] = b[j]
<1> DEFINE Same(k) ==
             \A l, h \in 1 .. Len(a) : \A r, t \in 1 .. Len(b) :
               l <= h /\ r <= t /\ h - l = k /\ TreeRoot(a, l, h) = TreeRoot(b, r, t)
                 => SameSlice(a, l, h, b, r, t)
           T == {k \in Nat : ~Same(k)}
<1>1. \A k \in Nat : Same(k)
  <2> SUFFICES ASSUME T # {} PROVE FALSE
    OBVIOUS
  <2>1. PICK k \in T : \A other \in T : k <= other
    <3>1. T \in SUBSET Nat
      OBVIOUS
    <3> HIDE DEF T
    <3> QED BY <3>1, LeastNatural
  <2>2. \A j \in Nat : j < k => Same(j)
    <3> HIDE DEF Same
    <3>1. \A j \in Nat : j < k => j \notin T
      BY <2>1
    <3> QED BY <3>1
  <2>3. ASSUME NEW l \in 1 .. Len(a), NEW h \in 1 .. Len(a), NEW r \in 1 .. Len(b), NEW t \in 1 .. Len(b),
               l <= h, r <= t, h - l = k, TreeRoot(a, l, h) = TreeRoot(b, r, t)
        PROVE  SameSlice(a, l, h, b, r, t)
    <3>1. \A x, y \in 1 .. Len(a) : \A z, w \in 1 .. Len(b) :
            x <= y /\ z <= w /\ y - x < h - l /\ TreeRoot(a, x, y) = TreeRoot(b, z, w)
              => SameSlice(a, x, y, b, z, w)
      <4> SUFFICES ASSUME NEW x \in 1 .. Len(a), NEW y \in 1 .. Len(a),
                          NEW z \in 1 .. Len(b), NEW w \in 1 .. Len(b),
                          x <= y, z <= w, y - x < h - l, TreeRoot(a, x, y) = TreeRoot(b, z, w)
                   PROVE  SameSlice(a, x, y, b, z, w)
        OBVIOUS
      <4>1. PICK j : j = y - x
        OBVIOUS
      <4>2. j \in Nat /\ j < k
        BY <2>3, <4>1
      <4>3. Same(j)
        BY <2>2, <4>2
      <4> QED BY <4>1, <4>3
    <3> QED BY <2>3, <3>1, SlicesOfOneHash
  <2>4. Same(k)
    BY <2>3
  <2> QED BY <2>1, <2>4
<1>2. /\ 1 \in 1 .. Len(a) /\ Len(a) \in 1 .. Len(a) /\ 1 \in 1 .. Len(b) /\ Len(b) \in 1 .. Len(b)
      /\ 1 <= Len(a) /\ 1 <= Len(b) /\ Len(a) - 1 \in Nat
  OBVIOUS
<1>3. SameSlice(a, 1, Len(a), b, 1, Len(b))
  BY <1>1, <1>2
<1>4. Len(a) = Len(b)
  BY <1>2, <1>3 DEF SameSlice
<1>5. ASSUME NEW j \in 1 .. Len(a) PROVE a[j] = b[j]
  <2>1. j - 1 \in 0 .. Len(a) - 1 /\ 1 + (j - 1) = j
    BY <1>2
  <2>2. a[1 + (j - 1)] = b[1 + (j - 1)]
    BY <1>3, <2>1 DEF SameSlice
  <2> QED BY <2>1, <2>2
<1> QED BY <1>4, <1>5

-----------------------------------------------------------------------------
(* What build_proof builds.                                                *)

Begins(s, t) == Len(s) <= Len(t) /\ \A k \in 1 .. Len(s) : t[k] = s[k]

(* One slice of the round trip: its proof is a sequence, no longer than    *)
(* the tree over it is high, and what a verifier computes from the leaf    *)
(* with that proof, as the beginning of any longer one, is its root.       *)
HonestSlice(proof, up, full, leaves, index, lo, hi) ==
  LET siblings == proof[<<lo, hi>>]
  IN  /\ IsSequence(siblings)
      /\ \A w \in 0 .. UsizeBits : hi - lo + 1 <= TwoTo[w] => Len(siblings) <= w
      /\ Begins(siblings, full) =>
           up[<<index - lo, hi - lo + 1, Len(siblings)>>] = TreeRoot(leaves, lo, hi)

LEMMA HonestStep ==
  ASSUME NEW leaves, Len(leaves) \in 1 .. USIZE \div 2,
         \A j \in 1 .. Len(leaves) : \E p, c : leaves[j] = LeafHash(p, c),
         NEW index \in 1 .. Len(leaves),
         NEW proof,
         \A lo, hi \in 1 .. Len(leaves) :
           proof[<<lo, hi>>] = IF lo >= hi THEN <<>> ELSE Longer(proof, leaves, index, lo, hi),
         NEW full, Len(full) \in Nat,
         NEW up,
         \A i \in 0 .. index - 1, s \in 1 .. Len(leaves), m \in 0 .. Len(full) :
           up[<<i, s, m>>] = Turn(up, leaves[index], full, i, s, m),
         NEW lo \in 1 .. Len(leaves), NEW hi \in 1 .. Len(leaves), lo <= index, index <= hi,
         \A l, h \in 1 .. Len(leaves) : l <= index /\ index <= h /\ h - l < hi - lo =>
           HonestSlice(proof, up, full, leaves, index, l, h)
  PROVE  HonestSlice(proof, up, full, leaves, index, lo, hi)
<1> DEFINE D == 1 .. Len(leaves)
<1>1. CASE lo = hi
  <2>1. lo >= hi /\ index = lo /\ index - lo = 0 /\ hi - lo + 1 = 1
    BY <1>1
  <2>2. proof[<<lo, hi>>] = <<>>
    BY <2>1
  <2>3. IsSequence(<<>>) /\ Len(<<>>) = 0
    BY DEF IsSequence
  <2>4. TreeRoot(leaves, lo, hi) = leaves[index]
    BY <2>1, TreeRootDef
  <2>5. up[<<0, 1, 0>>] = leaves[index]
    <3>1. up[<<0, 1, 0>>] = Turn(up, leaves[index], full, 0, 1, 0)
      OBVIOUS
    <3> QED BY <3>1 DEF Turn
  <2> QED BY <2>1, <2>2, <2>3, <2>4, <2>5 DEF HonestSlice
<1>2. CASE lo < hi
  <2>1. PICK s, k, middle, i : s = hi - lo + 1 /\ k = SplitPoint(s) /\ middle = lo + k /\ i = index - lo
    OBVIOUS
  <2>2. USIZE \in Nat /\ USIZE \div 2 \in Nat
    BY UsizeIsAPower, PowersFacts
  <2>3. s \in Nat /\ 2 <= s /\ s <= USIZE \div 2 /\ s <= Len(leaves) /\ s < USIZE
    BY <1>2, <2>1, <2>2, UsizeIsAPower
  <2>4. k \in 1 .. s - 1 /\ middle \in lo + 1 .. hi
    BY <2>1, <2>3, SplitsInside
  <2>5. PICK low, high, other :
          /\ index < middle => low = lo /\ high = middle - 1 /\ other = TreeRoot(leaves, middle, hi)
          /\ ~(index < middle) => low = middle /\ high = hi /\ other = TreeRoot(leaves, lo, middle - 1)
    <3>1. CASE index < middle
      BY <3>1
    <3>2. CASE ~(index < middle)
      BY <3>2
    <3> QED BY <3>1, <3>2
  <2>6. /\ low \in D /\ high \in D /\ low <= index /\ index <= high /\ low <= high
        /\ high - low < hi - lo
        /\ index < middle => high - low + 1 = k /\ index - low = i /\ i < k
        /\ ~(index < middle) => high - low + 1 = s - k /\ index - low = i - k /\ ~(i < k)
    <3>1. /\ lo \in Nat /\ hi \in Nat /\ index \in Nat /\ 1 <= lo /\ hi <= Len(leaves) /\ Len(leaves) \in Nat
          /\ k \in Nat /\ 1 <= k /\ k < s /\ s = hi - lo + 1 /\ middle = lo + k /\ i = index - lo
      BY <2>1, <2>4
    <3>2. CASE index < middle
      <4>1. low = lo /\ high = lo + k - 1
        BY <2>5, <3>1, <3>2
      <4>2. /\ high - low + 1 = k /\ index - low = i /\ i < k /\ high - low < hi - lo
            /\ low <= index /\ index <= high /\ 1 <= low /\ high <= Len(leaves) /\ low \in Nat /\ high \in Nat
        BY <3>1, <3>2, <4>1
      <4> QED BY <3>1, <3>2, <4>2
    <3>3. CASE ~(index < middle)
      <4>1. low = lo + k /\ high = hi
        BY <2>5, <3>1, <3>3
      <4>2. /\ high - low + 1 = s - k /\ index - low = i - k /\ ~(i < k) /\ high - low < hi - lo
            /\ low <= index /\ index <= high /\ 1 <= low /\ high <= Len(leaves) /\ low \in Nat /\ high \in Nat
        BY <3>1, <3>3, <4>1
      <4> QED BY <3>1, <3>3, <4>2
    <3> QED BY <3>2, <3>3
  <2>7. PICK short : short = proof[<<low, high>>]
    OBVIOUS
  <2>8. proof[<<lo, hi>>] = Append(short, other)
    <3>1. /\ index < middle => proof[<<lo, hi>>] =
               Append(proof[<<lo, middle - 1>>], TreeRoot(leaves, middle, hi))
          /\ ~(index < middle) => proof[<<lo, hi>>] =
               Append(proof[<<middle, hi>>], TreeRoot(leaves, lo, middle - 1))
      <4>1. middle = lo + SplitPoint(hi - lo + 1) /\ ~(lo >= hi)
        BY <1>2, <2>1
      <4>2. proof[<<lo, hi>>] = Longer(proof, leaves, index, lo, hi)
        BY <4>1
      <4> QED BY <4>1, <4>2, Zenon DEF Longer
    <3> QED BY <2>5, <2>7, <3>1, Zenon
  <2>9. HonestSlice(proof, up, full, leaves, index, low, high)
    BY <2>6
  <2>10. /\ IsSequence(short) /\ Len(short) \in Nat
         /\ \A w \in 0 .. UsizeBits : high - low + 1 <= TwoTo[w] => Len(short) <= w
         /\ Begins(short, full) =>
              up[<<index - low, high - low + 1, Len(short)>>] = TreeRoot(leaves, low, high)
    BY <2>7, <2>9, SequenceReads, Zenon DEF HonestSlice
  <2>11. PICK long : long = Append(short, other)
    OBVIOUS
  <2>12. /\ IsSequence(long) /\ Len(long) = Len(short) + 1 /\ long[Len(short) + 1] = other
         /\ \A j \in 1 .. Len(short) : long[j] = short[j]
    <3>1. IsSequence(short)
      BY <2>10
    <3>2. /\ IsSequence(Append(short, other)) /\ Len(Append(short, other)) = Len(short) + 1
          /\ Append(short, other)[Len(short) + 1] = other
          /\ \A j \in 1 .. Len(short) : Append(short, other)[j] = short[j]
      BY <3>1, AppendReads
    <3> QED BY <2>11, <3>2, Zenon
  <2>13. ASSUME NEW w \in 0 .. UsizeBits, s <= TwoTo[w] PROVE Len(long) <= w
    <3>1. w \in 1 .. UsizeBits /\ SplitPoint(s) <= TwoTo[w - 1] /\ s - SplitPoint(s) <= TwoTo[w - 1]
      BY <2>3, <2>13, SplitBound
    <3>2. high - low + 1 <= TwoTo[w - 1] /\ w - 1 \in 0 .. UsizeBits
      <4>1. high - low + 1 = SplitPoint(s) \/ high - low + 1 = s - SplitPoint(s)
        BY <2>1, <2>6
      <4>2. high - low + 1 <= TwoTo[w - 1]
        BY <3>1, <4>1, Zenon
      <4>3. w - 1 \in 0 .. UsizeBits
        BY <3>1, UsizeAssumption
      <4> QED BY <4>2, <4>3
    <3>3. Len(short) <= w - 1
      BY <2>10, <3>2
    <3> QED BY <2>10, <2>12, <3>1, <3>3
  <2>14. ASSUME Begins(long, full)
         PROVE  up[<<i, s, Len(long)>>] = TreeRoot(leaves, lo, hi)
    <3> DEFINE m == Len(long)
               child == TreeRoot(leaves, low, high)
    <3>1. Begins(short, full) /\ full[m] = other /\ m \in 0 .. Len(full) /\ m # 0 /\ m - 1 = Len(short)
      <4>1. /\ Len(long) <= Len(full) /\ \A j \in 1 .. Len(long) : full[j] = long[j]
            /\ Len(long) = Len(short) + 1 /\ Len(short) \in Nat
        BY <2>10, <2>12, <2>14 DEF Begins
      <4>2. m \in 0 .. Len(full) /\ m # 0 /\ m - 1 = Len(short) /\ Len(short) <= Len(full)
        BY <4>1
      <4>3. \A j \in 1 .. Len(short) : full[j] = short[j]
        BY <2>12, <4>1
      <4>4. full[m] = other
        <5>1. m \in 1 .. Len(long) /\ m = Len(short) + 1
          BY <4>1
        <5>2. full[m] = long[m] /\ long[m] = other
          BY <2>12, <4>1, <5>1
        <5> QED BY <5>2
      <4> QED BY <4>2, <4>3, <4>4 DEF Begins
    <3>2. up[<<index - low, high - low + 1, m - 1>>] = child
      BY <2>10, <3>1
    <3>3. child # NoHash
      <4>1. (low = high /\ child = leaves[low]) \/ \E a, b : child = NodeHash(a, b)
        <5>1. low \in 1 .. Len(leaves) /\ high \in 1 .. Len(leaves) /\ low <= high
          BY <2>6
        <5>2. \/ low = high /\ TreeRoot(leaves, low, high) = leaves[low]
              \/ \E mid \in low + 1 .. high :
                   TreeRoot(leaves, low, high) =
                     NodeHash(TreeRoot(leaves, low, mid - 1), TreeRoot(leaves, mid, high))
          BY <5>1, SliceHash
        <5> QED BY <5>2
      <4>2. \E p, c : leaves[low] = LeafHash(p, c)
        BY <2>6
      <4> QED BY <4>1, <4>2, HashesAreFree
    <3>4. up[<<i, s, m>>] = Turn(up, leaves[index], full, i, s, m)
      <4>1. i \in 0 .. index - 1 /\ s \in 1 .. Len(leaves) /\ m \in 0 .. Len(full)
        BY <2>1, <2>3, <3>1
      <4> QED BY <4>1
    <3>5. TreeRoot(leaves, lo, hi) = NodeHash(TreeRoot(leaves, lo, middle - 1), TreeRoot(leaves, middle, hi))
      <4>1. ~(lo >= hi)
        BY <1>2
      <4> QED BY <2>1, <4>1, TreeRootDef
    <3> HIDE DEF m, child
    <3>6. CASE index < middle
      <4>1. up[<<i, k, m - 1>>] = child /\ i < k
        BY <2>6, <3>2, <3>6
      <4>2. up[<<i, s, m>>] = NodeHash(child, other)
        BY <2>1, <2>3, <3>1, <3>3, <3>4, <4>1 DEF Turn
      <4>3. child = TreeRoot(leaves, lo, middle - 1) /\ other = TreeRoot(leaves, middle, hi)
        BY <2>5, <3>6 DEF child
      <4> QED BY <3>5, <4>2, <4>3 DEF m
    <3>7. CASE ~(index < middle)
      <4>1. up[<<i - k, s - k, m - 1>>] = child /\ ~(i < k)
        BY <2>6, <3>2, <3>7
      <4>2. up[<<i, s, m>>] = NodeHash(other, child)
        BY <2>1, <2>3, <3>1, <3>3, <3>4, <4>1 DEF Turn
      <4>3. child = TreeRoot(leaves, middle, hi) /\ other = TreeRoot(leaves, lo, middle - 1)
        BY <2>5, <3>7 DEF child
      <4> QED BY <3>5, <4>2, <4>3 DEF m
    <3> QED BY <3>6, <3>7
  <2> QED BY <2>1, <2>8, <2>11, <2>12, <2>13, <2>14, Zenon DEF HonestSlice
<1> QED BY <1>1, <1>2

LEMMA HonestSlices ==
  ASSUME NEW leaves, Len(leaves) \in 1 .. USIZE \div 2,
         \A j \in 1 .. Len(leaves) : \E p, c : leaves[j] = LeafHash(p, c),
         NEW index \in 1 .. Len(leaves),
         NEW proof,
         \A lo, hi \in 1 .. Len(leaves) :
           proof[<<lo, hi>>] = IF lo >= hi THEN <<>> ELSE Longer(proof, leaves, index, lo, hi),
         NEW full, Len(full) \in Nat,
         NEW up,
         \A i \in 0 .. index - 1, s \in 1 .. Len(leaves), m \in 0 .. Len(full) :
           up[<<i, s, m>>] = Turn(up, leaves[index], full, i, s, m)
  PROVE  HonestSlice(proof, up, full, leaves, index, 1, Len(leaves))
<1> DEFINE D == 1 .. Len(leaves)
           Honest(l, h) == HonestSlice(proof, up, full, leaves, index, l, h)
           S == {d \in Nat : \A l, h \in D : l <= index /\ index <= h /\ h - l < d => Honest(l, h)}
<1>1. ASSUME NEW lo \in D, NEW hi \in D, lo <= index, index <= hi,
             \A l, h \in D : l <= index /\ index <= h /\ h - l < hi - lo => Honest(l, h)
      PROVE  Honest(lo, hi)
  BY <1>1, HonestStep
<1> HIDE DEF Honest
<1>2. 0 \in S
  OBVIOUS
<1>3. ASSUME NEW d \in S PROVE d + 1 \in S
  <2>1. d \in Nat /\ \A l, h \in D : l <= index /\ index <= h /\ h - l < d => Honest(l, h)
    OBVIOUS
  <2>2. ASSUME NEW lo \in D, NEW hi \in D, lo <= index, index <= hi, hi - lo < d + 1
        PROVE  Honest(lo, hi)
    <3>1. \A l, h \in D : l <= index /\ index <= h /\ h - l < hi - lo => Honest(l, h)
      BY <2>1, <2>2
    <3> QED BY <1>1, <2>2, <3>1
  <2> HIDE DEF D
  <2> QED BY <2>1, <2>2
<1>4. S = Nat
  <2>1. S \in SUBSET Nat
    OBVIOUS
  <2> HIDE DEF S
  <2> QED BY <1>2, <1>3, <2>1, SetInduction
<1>5. Len(leaves) \in S /\ 1 \in D /\ Len(leaves) \in D
  <2>1. Len(leaves) \in Nat /\ 1 \in D /\ Len(leaves) \in D
    BY UsizeIsAPower, PowersFacts
  <2> HIDE DEF S
  <2> QED BY <1>4, <2>1
<1>6. Honest(1, Len(leaves))
  <2>1. 1 <= index /\ index <= Len(leaves) /\ Len(leaves) - 1 < Len(leaves)
    OBVIOUS
  <2> QED BY <1>5, <2>1
<1> QED BY <1>6 DEF Honest

LEMMA BuildProofFacts ==
  ASSUME NEW leaves, Len(leaves) \in 1 .. USIZE \div 2,
         \A j \in 1 .. Len(leaves) : \E p, c : leaves[j] = LeafHash(p, c),
         NEW index \in 1 .. Len(leaves)
  PROVE  /\ IsSequence(BuildProof(leaves, index))
         /\ \A w \in 0 .. UsizeBits : Len(leaves) <= TwoTo[w] => Len(BuildProof(leaves, index)) <= w
         /\ Fold(leaves[index], index - 1, Len(leaves), BuildProof(leaves, index))
              = TreeRoot(leaves, 1, Len(leaves))
<1>1. PICK proof :
        /\ BuildProof(leaves, index) = proof[<<1, Len(leaves)>>]
        /\ \A lo, hi \in 1 .. Len(leaves) :
             proof[<<lo, hi>>] = IF lo >= hi THEN <<>> ELSE Longer(proof, leaves, index, lo, hi)
  BY BuildProofDef
<1>2. /\ Len(leaves) \in Nat /\ Len(leaves) < USIZE /\ Len(leaves) - 1 + 1 = Len(leaves)
      /\ index - 1 \in Nat
  BY UsizeIsAPower, PowersFacts
<1>3. ASSUME NEW full, Len(full) \in Nat
      PROVE  \E up : /\ Fold(leaves[index], index - 1, Len(leaves), full) = up[<<index - 1, Len(leaves), Len(full)>>]
                     /\ HonestSlice(proof, up, full, leaves, index, 1, Len(leaves))
  <2>1. PICK up :
          /\ Fold(leaves[index], index - 1, Len(leaves), full) = up[<<index - 1, Len(leaves), Len(full)>>]
          /\ \A i \in 0 .. index - 1, s \in 1 .. Len(leaves), m \in 0 .. Len(full) :
               up[<<i, s, m>>] = Turn(up, leaves[index], full, i, s, m)
    BY <1>2, <1>3, FoldDef
  <2>2. HonestSlice(proof, up, full, leaves, index, 1, Len(leaves))
    BY <1>1, <1>3, <2>1, HonestSlices
  <2> QED BY <2>1, <2>2
<1>4. PICK built : built = BuildProof(leaves, index) /\ built = proof[<<1, Len(leaves)>>]
  BY <1>1
<1>5. IsSequence(built) /\ \A w \in 0 .. UsizeBits : Len(leaves) <= TwoTo[w] => Len(built) <= w
  <2>1. PICK up : HonestSlice(proof, up, <<>>, leaves, index, 1, Len(leaves))
    BY <1>3
  <2>2. /\ IsSequence(built)
        /\ \A w \in 0 .. UsizeBits : Len(leaves) - 1 + 1 <= TwoTo[w] => Len(built) <= w
    BY <1>4, <2>1, Zenon DEF HonestSlice
  <2> QED BY <1>2, <2>2, Zenon
<1>6. Len(built) \in Nat
  BY <1>5, SequenceReads
<1>7. PICK up :
        /\ Fold(leaves[index], index - 1, Len(leaves), built) = up[<<index - 1, Len(leaves), Len(built)>>]
        /\ HonestSlice(proof, up, built, leaves, index, 1, Len(leaves))
  BY <1>3, <1>6
<1>8. Begins(built, built)
  BY <1>6 DEF Begins
<1>9. up[<<index - 1, Len(leaves) - 1 + 1, Len(built)>>] = TreeRoot(leaves, 1, Len(leaves))
  BY <1>4, <1>7, <1>8, Zenon DEF HonestSlice
<1>10. Fold(leaves[index], index - 1, Len(leaves), built) = TreeRoot(leaves, 1, Len(leaves))
  BY <1>2, <1>7, <1>9
<1> QED BY <1>4, <1>5, <1>10, Zenon

(***************************************************************************)
(* Completeness of inclusion proofs, for trees of every size and each of   *)
(* their leaves: what build_proof builds, fold leads back to the root; the *)
(* two recursions split at the same points (bundle.rs:329-439).            *)
(***************************************************************************)
THEOREM HonestProofsVerify ==
  ASSUME NEW leaves, Len(leaves) \in 1 .. USIZE \div 2,
         \A j \in 1 .. Len(leaves) : \E p, c : leaves[j] = LeafHash(p, c),
         NEW index \in 1 .. Len(leaves)
  PROVE  Fold(leaves[index], index - 1, Len(leaves), BuildProof(leaves, index))
           = TreeRoot(leaves, 1, Len(leaves))
BY BuildProofFacts

(***************************************************************************)
(* An inclusion proof is no longer than log2 of the number of leaves,      *)
(* rounded up: the tree is as flat as it can be (contract, section 4).     *)
(***************************************************************************)
THEOREM HonestProofsAreShort ==
  ASSUME NEW leaves, Len(leaves) \in 1 .. USIZE \div 2,
         \A j \in 1 .. Len(leaves) : \E p, c : leaves[j] = LeafHash(p, c),
         NEW index \in 1 .. Len(leaves), BuildProof(leaves, index) # <<>>
  PROVE  TwoTo[Len(BuildProof(leaves, index)) - 1] < Len(leaves)
<1>1. PICK n, m : n = Len(leaves) /\ m = Len(BuildProof(leaves, index))
  OBVIOUS
<1>2. PICK built : built = BuildProof(leaves, index)
  OBVIOUS
<1>3. IsSequence(built) /\ \A w \in 0 .. UsizeBits : n <= TwoTo[w] => m <= w
  BY <1>1, <1>2, BuildProofFacts
<1>4. m \in Nat /\ m # 0
  <2>1. Len(built) \in Nat /\ built = [i \in 1 .. Len(built) |-> built[i]]
    BY <1>3, SequenceReads
  <2>2. built # <<>> /\ \E A : built \in Seq(A)
    BY <1>2, <1>3 DEF IsSequence
  <2>3. Len(built) # 0
    BY <2>2
  <2> QED BY <1>1, <1>2, <2>1, <2>3
<1>5. n \in Nat /\ n <= TwoTo[UsizeBits]
  <2>1. n \in Nat /\ n <= USIZE
    BY <1>1, UsizeIsAPower, PowersFacts
  <2> QED BY <2>1 DEF USIZE
<1>6. m <= UsizeBits /\ UsizeBits \in 0 .. UsizeBits
  BY <1>3, <1>5, UsizeAssumption
<1>7. m - 1 \in 0 .. UsizeBits /\ ~(m <= m - 1)
  BY <1>4, <1>6
<1>8. ~(n <= TwoTo[m - 1])
  BY <1>3, <1>7
<1>9. TwoTo[m - 1] \in Int
  <2>1. m - 1 \in Nat
    BY <1>7, UsizeAssumption
  <2>2. TwoTo[m - 1] \in Nat
    BY <2>1, PowersOfTwo, Zenon
  <2> QED BY <2>2
<1> QED BY <1>1, <1>5, <1>8, <1>9

-----------------------------------------------------------------------------
(* Enumerating a set by rank.                                              *)

(* below[x] is what comes before x in a strict linear order of S: each of  *)
(* the places 0 .. |S| - 1 is the number of members below exactly one.     *)
LEMMA RanksAreFilled ==
  ASSUME NEW S, IsFiniteSet(S), NEW below,
         \A x \in S : below[x] \subseteq S /\ x \notin below[x],
         \A x, y \in S : x = y \/ x \in below[y] \/ y \in below[x],
         \A x, y \in S : x \in below[y] => below[x] \subseteq below[y]
  PROVE  /\ Cardinality(S) \in Nat
         /\ \A x \in S : Cardinality(below[x]) \in 0 .. Cardinality(S) - 1
         /\ \A x, y \in S : Cardinality(below[x]) = Cardinality(below[y]) => x = y
         /\ \A k \in 0 .. Cardinality(S) - 1 : \E x \in S : Cardinality(below[x]) = k
<1>1. Cardinality(S) \in Nat
  BY FS_CardinalityType
<1>2. ASSUME NEW x \in S
      PROVE  IsFiniteSet(below[x]) /\ Cardinality(below[x]) \in Nat
  BY FS_Subset, FS_CardinalityType
<1>3. ASSUME NEW x \in S, NEW T \in SUBSET S, x \in T, below[x] \subseteq T
      PROVE  Cardinality(below[x]) < Cardinality(T)
  <2>1. IsFiniteSet(T) /\ Cardinality(T) \in Nat
    BY FS_Subset, FS_CardinalityType
  <2>2. below[x] \in SUBSET T /\ below[x] # T
    BY <1>3
  <2>3. Cardinality(below[x]) <= Cardinality(T) /\ Cardinality(below[x]) # Cardinality(T)
    BY <2>1, <2>2, FS_Subset
  <2> QED BY <1>2, <2>1, <2>3
<1>4. ASSUME NEW x \in S PROVE Cardinality(below[x]) \in 0 .. Cardinality(S) - 1
  <2>1. Cardinality(below[x]) < Cardinality(S)
    BY <1>3
  <2> QED BY <1>1, <1>2, <2>1
<1>5. ASSUME NEW x \in S, NEW y \in S, x # y, Cardinality(below[x]) = Cardinality(below[y])
      PROVE  FALSE
  <2>1. ASSUME NEW a \in S, NEW b \in S, a \in below[b]
        PROVE  Cardinality(below[a]) < Cardinality(below[b])
    BY <1>3, <2>1
  <2>2. CASE x \in below[y]
    BY <1>2, <1>5, <2>1, <2>2
  <2>3. CASE y \in below[x]
    BY <1>2, <1>5, <2>1, <2>3
  <2> QED BY <1>5, <2>2, <2>3
<1> DEFINE places == 0 .. Cardinality(S) - 1
           rank == [x \in S |-> Cardinality(below[x])]
<1>6. rank \in Injection(S, places)
  <2>1. rank \in [S -> places]
    BY <1>4
  <2>2. \A x, y \in S : rank[x] = rank[y] => x = y
    BY <1>5
  <2> HIDE DEF rank, places
  <2> QED BY <2>1, <2>2, Fun_IsInj
<1>7. IsFiniteSet(places) /\ Cardinality(places) = Cardinality(S)
  <2>1. PICK n \in Nat : n = Cardinality(S)
    BY <1>1
  <2>2. IsFiniteSet(0 .. n - 1) /\ Cardinality(0 .. n - 1) = IF 0 > n - 1 THEN 0 ELSE (n - 1) - 0 + 1
    <3>1. 0 \in Int /\ n - 1 \in Int
      OBVIOUS
    <3> QED BY <3>1, FS_Interval
  <2>3. Cardinality(0 .. n - 1) = n
    BY <2>2
  <2> QED BY <2>1, <2>2, <2>3
<1>8. rank \in Surjection(S, places)
  <2> HIDE DEF rank, places
  <2> QED BY <1>6, <1>7, FS_Injection
<1>9. ASSUME NEW k \in places PROVE \E x \in S : rank[x] = k
  <2> HIDE DEF rank, places
  <2> QED BY <1>8, Fun_IsSurj DEF Surjection
<1> QED BY <1>1, <1>4, <1>5, <1>9

LEMMA InOrderFacts ==
  ASSUME NEW places \in SUBSET Nat, IsFiniteSet(places)
  PROVE  /\ Cardinality(places) \in Nat
         /\ InOrder(places) \in Seq(places) /\ Len(InOrder(places)) = Cardinality(places)
         /\ \A j \in 1 .. Cardinality(places) : \A i \in places :
              InOrder(places)[j] = i <=> Cardinality({k \in places : k < i}) = j - 1
         /\ \A i \in places : Cardinality({k \in places : k < i}) + 1 \in 1 .. Cardinality(places)
<1> DEFINE below == [i \in places |-> {k \in places : k < i}]
           n == Cardinality(places)
<1>2. \A i \in places : below[i] = {k \in places : k < i}
  OBVIOUS
<1> HIDE DEF below
<1>1. /\ \A i \in places : below[i] \subseteq places /\ i \notin below[i]
      /\ \A i, k \in places : i = k \/ i \in below[k] \/ k \in below[i]
      /\ \A i, k \in places : i \in below[k] => below[i] \subseteq below[k]
  <2>1. \A i, k \in places : k \in below[i] <=> k < i
    BY <1>2
  <2>2. \A i \in places : below[i] \subseteq places
    BY <1>2
  <2>3. \A i, k, m \in places : (i = k \/ i < k \/ k < i) /\ ~(i < i) /\ (i < k /\ k < m => i < m)
    OBVIOUS
  <2>4. ASSUME NEW i \in places, NEW k \in places, i \in below[k] PROVE below[i] \subseteq below[k]
    <3> SUFFICES ASSUME NEW m \in below[i] PROVE m \in below[k]
      OBVIOUS
    <3>1. m \in places
      BY <2>2
    <3> QED BY <2>1, <2>3, <2>4, <3>1
  <2>5. \A i, k \in places : i = k \/ i \in below[k] \/ k \in below[i]
    BY <2>1, <2>3, Zenon
  <2>6. \A i \in places : i \notin below[i]
    BY <2>1, <2>3, Zenon
  <2> QED BY <2>2, <2>4, <2>5, <2>6
<1>3. /\ n \in Nat
      /\ \A i \in places : Cardinality(below[i]) \in 0 .. n - 1
      /\ \A i, k \in places : Cardinality(below[i]) = Cardinality(below[k]) => i = k
      /\ \A m \in 0 .. n - 1 : \E i \in places : Cardinality(below[i]) = m
  BY <1>1, RanksAreFilled
<1> DEFINE Rank(i) == Cardinality({k \in places : k < i})
           At(j) == CHOOSE i \in places : Rank(i) = j - 1
<1>4. /\ \A i \in places : Rank(i) \in 0 .. n - 1
      /\ \A i, k \in places : Rank(i) = Rank(k) => i = k
      /\ \A m \in 0 .. n - 1 : \E i \in places : Rank(i) = m
  <2>1. \A i \in places : Rank(i) = Cardinality(below[i])
    BY <1>2, Zenon
  <2> HIDE DEF Rank
  <2> QED BY <1>3, <2>1
<1>5. InOrder(places) = [j \in 1 .. n |-> At(j)]
  BY DEF InOrder
<1> HIDE DEF Rank, n
<1>6. ASSUME NEW j \in 1 .. n PROVE At(j) \in places /\ Rank(At(j)) = j - 1
  <2>1. \E i \in places : Rank(i) = j - 1
    BY <1>3, <1>4
  <2> QED BY <2>1
<1> HIDE DEF At
<1>7. InOrder(places) \in Seq(places) /\ Len(InOrder(places)) = n
  BY <1>3, <1>5, <1>6
<1>8. ASSUME NEW j \in 1 .. n, NEW i \in places
      PROVE  InOrder(places)[j] = i <=> Rank(i) = j - 1
  BY <1>4, <1>5, <1>6
<1>9. \A i \in places : Rank(i) + 1 \in 1 .. n
  BY <1>3, <1>4
<1> QED BY <1>3, <1>7, <1>8, <1>9 DEF Rank, n

-----------------------------------------------------------------------------
(* The order of paths.                                                     *)

(* Two byte sequences of lengths m and n, one before the other. *)
Precedes(p, m, q, n) ==
  \/ m < n /\ \A i \in 1 .. m : p[i] = q[i]
  \/ \E i \in 1 .. m : i <= n /\ p[i] < q[i] /\ \A j \in 1 .. i - 1 : p[j] = q[j]

LEMMA PrecedesIsAnOrder ==
  ASSUME NEW m \in Nat, NEW p, \A i \in 1 .. m : p[i] \in Nat,
         NEW n \in Nat, NEW q, \A i \in 1 .. n : q[i] \in Nat
  PROVE  /\ ~Precedes(p, m, p, m)
         /\ \/ Precedes(p, m, q, n) \/ Precedes(q, n, p, m)
            \/ m = n /\ \A i \in 1 .. m : p[i] = q[i]
<1>1. ~Precedes(p, m, p, m)
  BY DEF Precedes
<1> DEFINE D == {i \in Nat : i \in 1 .. m /\ i \in 1 .. n /\ p[i] # q[i]}
<1>2. CASE D = {}
  <2>1. \A i \in 1 .. m : i <= n => p[i] = q[i]
    BY <1>2
  <2>2. CASE m < n
    BY <2>1, <2>2 DEF Precedes
  <2>3. CASE n < m
    <3>1. \A i \in 1 .. n : q[i] = p[i]
      BY <2>1, <2>3
    <3> QED BY <2>3, <3>1 DEF Precedes
  <2>4. CASE m = n
    BY <1>1, <2>1, <2>4
  <2> QED BY <1>1, <2>2, <2>3, <2>4
<1>3. CASE D # {}
  <2>1. D \in SUBSET Nat
    OBVIOUS
  <2>2. PICK k \in D : \A i \in D : k <= i
    BY <1>3, <2>1, LeastNatural
  <2>3. /\ k \in 1 .. m /\ k \in 1 .. n /\ p[k] # q[k] /\ p[k] \in Nat /\ q[k] \in Nat
        /\ \A j \in 1 .. k - 1 : p[j] = q[j] /\ q[j] = p[j]
    BY <2>2
  <2> HIDE DEF D
  <2>4. CASE p[k] < q[k]
    BY <2>3, <2>4 DEF Precedes
  <2>5. CASE q[k] < p[k]
    BY <2>3, <2>5 DEF Precedes
  <2>6. p[k] < q[k] \/ q[k] < p[k]
    BY <2>3
  <2> QED BY <1>1, <2>4, <2>5, <2>6
<1> QED BY <1>2, <1>3

LEMMA PrecedesIsTransitive ==
  ASSUME NEW l \in Nat, NEW o, \A i \in 1 .. l : o[i] \in Nat,
         NEW m \in Nat, NEW p, \A i \in 1 .. m : p[i] \in Nat,
         NEW n \in Nat, NEW q, \A i \in 1 .. n : q[i] \in Nat,
         Precedes(o, l, p, m), Precedes(p, m, q, n)
  PROVE  Precedes(o, l, q, n)
<1>1. CASE l < m /\ \A i \in 1 .. l : o[i] = p[i]
  <2>1. CASE m < n /\ \A i \in 1 .. m : p[i] = q[i]
    BY <1>1, <2>1 DEF Precedes
  <2>2. CASE \E i \in 1 .. m : i <= n /\ p[i] < q[i] /\ \A j \in 1 .. i - 1 : p[j] = q[j]
    <3>1. PICK i \in 1 .. m : i <= n /\ p[i] < q[i] /\ \A j \in 1 .. i - 1 : p[j] = q[j]
      BY <2>2
    <3>2. CASE i <= l
      BY <1>1, <3>1, <3>2 DEF Precedes
    <3>3. CASE l < i
      BY <1>1, <3>1, <3>3 DEF Precedes
    <3> QED BY <3>2, <3>3
  <2> QED BY <2>1, <2>2 DEF Precedes
<1>2. CASE \E i \in 1 .. l : i <= m /\ o[i] < p[i] /\ \A j \in 1 .. i - 1 : o[j] = p[j]
  <2>1. PICK i \in 1 .. l : i <= m /\ o[i] < p[i] /\ \A j \in 1 .. i - 1 : o[j] = p[j]
    BY <1>2
  <2>2. CASE m < n /\ \A k \in 1 .. m : p[k] = q[k]
    <3>1. i <= n /\ o[i] < q[i] /\ \A j \in 1 .. i - 1 : o[j] = q[j]
      BY <2>1, <2>2
    <3> QED BY <2>1, <3>1 DEF Precedes
  <2>3. CASE \E k \in 1 .. m : k <= n /\ p[k] < q[k] /\ \A j \in 1 .. k - 1 : p[j] = q[j]
    <3>1. PICK k \in 1 .. m : k <= n /\ p[k] < q[k] /\ \A j \in 1 .. k - 1 : p[j] = q[j]
      BY <2>3
    <3>2. CASE i < k
      <4>1. i <= n /\ o[i] < q[i] /\ \A j \in 1 .. i - 1 : o[j] = q[j]
        BY <2>1, <3>1, <3>2
      <4> QED BY <2>1, <4>1 DEF Precedes
    <3>3. CASE k <= i
      <4>1. k \in 1 .. l /\ k <= n /\ \A j \in 1 .. k - 1 : o[j] = q[j]
        BY <2>1, <3>1, <3>3
      <4>2. o[k] \in Nat /\ p[k] \in Nat /\ q[k] \in Nat /\ o[k] <= p[k] /\ p[k] < q[k]
        <5>1. CASE k = i
          BY <2>1, <3>1, <4>1, <5>1
        <5>2. CASE k < i
          BY <2>1, <3>1, <4>1, <5>2
        <5> QED BY <3>3, <5>1, <5>2
      <4>3. o[k] < q[k]
        BY <4>2
      <4> QED BY <4>1, <4>3 DEF Precedes
    <3> QED BY <3>2, <3>3
  <2> QED BY <2>2, <2>3 DEF Precedes
<1> QED BY <1>1, <1>2 DEF Precedes

LEMMA SameBytes ==
  ASSUME NEW p \in Seq(Nat), NEW q \in Seq(Nat), Len(p) = Len(q), \A i \in 1 .. Len(p) : p[i] = q[i]
  PROVE  p = q
<1>1. p = [i \in 1 .. Len(p) |-> p[i]]
  OBVIOUS
<1>2. q = [i \in 1 .. Len(q) |-> q[i]]
  OBVIOUS
<1>3. [i \in 1 .. Len(p) |-> p[i]] = [i \in 1 .. Len(q) |-> q[i]]
  OBVIOUS
<1> QED BY <1>1, <1>2, <1>3, Zenon

LEMMA SamePathParts ==
  ASSUME NEW p \in Seq(Seq(Nat)), NEW q \in Seq(Seq(Nat)), Len(p) = Len(q), \A i \in 1 .. Len(p) : p[i] = q[i]
  PROVE  p = q
<1>1. p = [i \in 1 .. Len(p) |-> p[i]]
  OBVIOUS
<1>2. q = [i \in 1 .. Len(q) |-> q[i]]
  OBVIOUS
<1>3. [i \in 1 .. Len(p) |-> p[i]] = [i \in 1 .. Len(q) |-> q[i]]
  OBVIOUS
<1> QED BY <1>1, <1>2, <1>3, Zenon

LEMMA BeforePrecedes ==
  ASSUME NEW p \in Seq(Nat), NEW q \in Seq(Nat)
  PROVE  Before(p, q) <=> Precedes(p, Len(p), q, Len(q))
<1>1. IsStrictPrefix(p, q) <=> Len(p) < Len(q) /\ \A i \in 1 .. Len(p) : p[i] = q[i]
  <2>1. Len(p) \in Nat /\ Len(q) \in Nat
    OBVIOUS
  <2>2. ASSUME Len(p) <= Len(q)
        PROVE  SubSeq(p, 1, Len(p)) = SubSeq(q, 1, Len(p)) <=> \A i \in 1 .. Len(p) : p[i] = q[i]
    <3>1. /\ SubSeq(p, 1, Len(p)) = [i \in 1 .. Len(p) |-> p[i]]
          /\ SubSeq(q, 1, Len(p)) = [i \in 1 .. Len(p) |-> q[i]]
      BY <2>2
    <3> QED BY <3>1
  <2>3. ASSUME \A i \in 1 .. Len(p) : p[i] = q[i], Len(p) = Len(q)
        PROVE  p = q
    BY <2>3, SameBytes
  <2> QED BY <2>1, <2>2, <2>3 DEF IsStrictPrefix, IsPrefix
<1>2. DOMAIN p = 1 .. Len(p) /\ DOMAIN q = 1 .. Len(q) /\ Len(p) \in Nat /\ Len(q) \in Nat
  OBVIOUS
<1>3. DOMAIN p \cap DOMAIN q = {i \in 1 .. Len(p) : i <= Len(q)}
  BY <1>2
<1> QED BY <1>1, <1>3 DEF Before, Precedes

(* Files of different paths are enumerated in the order of their paths. *)
LEMMA InPathOrderFacts ==
  ASSUME NEW files \in SUBSET File, IsFiniteSet(files),
         \A f, g \in files : f.path = g.path => f = g
  PROVE  /\ Cardinality(files) \in Nat
         /\ InPathOrder(files) \in Seq(files) /\ Len(InPathOrder(files)) = Cardinality(files)
         /\ \A f \in files : \E j \in 1 .. Cardinality(files) : InPathOrder(files)[j] = f
<1> DEFINE Under(f) == {g \in files : Before(g.path, f.path)}
           below == [f \in files |-> Under(f)]
           n == Cardinality(files)
<1>1. \A f \in files : f.path \in Seq(Nat)
  BY DEF File
<1>2. /\ \A f \in files : ~Before(f.path, f.path)
      /\ \A f, g \in files : f = g \/ Before(f.path, g.path) \/ Before(g.path, f.path)
      /\ \A f, g, h \in files : Before(f.path, g.path) /\ Before(g.path, h.path) => Before(f.path, h.path)
  <2>1. ASSUME NEW p \in Seq(Nat), NEW q \in Seq(Nat)
        PROVE  ~Before(p, p) /\ (p = q \/ Before(p, q) \/ Before(q, p))
    <3>1. /\ Len(p) \in Nat /\ \A i \in 1 .. Len(p) : p[i] \in Nat
          /\ Len(q) \in Nat /\ \A i \in 1 .. Len(q) : q[i] \in Nat
      OBVIOUS
    <3>2. /\ ~Precedes(p, Len(p), p, Len(p))
          /\ \/ Precedes(p, Len(p), q, Len(q)) \/ Precedes(q, Len(q), p, Len(p))
             \/ Len(p) = Len(q) /\ \A i \in 1 .. Len(p) : p[i] = q[i]
      BY <3>1, PrecedesIsAnOrder
    <3>3. ASSUME Len(p) = Len(q), \A i \in 1 .. Len(p) : p[i] = q[i] PROVE p = q
      BY <3>3, SameBytes
    <3> QED BY <3>2, <3>3, BeforePrecedes
  <2>2. ASSUME NEW o \in Seq(Nat), NEW p \in Seq(Nat), NEW q \in Seq(Nat), Before(o, p), Before(p, q)
        PROVE  Before(o, q)
    <3>1. /\ Len(o) \in Nat /\ \A i \in 1 .. Len(o) : o[i] \in Nat
          /\ Len(p) \in Nat /\ \A i \in 1 .. Len(p) : p[i] \in Nat
          /\ Len(q) \in Nat /\ \A i \in 1 .. Len(q) : q[i] \in Nat
      OBVIOUS
    <3>2. Precedes(o, Len(o), p, Len(p)) /\ Precedes(p, Len(p), q, Len(q))
      BY <2>2, BeforePrecedes
    <3>3. Precedes(o, Len(o), q, Len(q))
      BY <3>1, <3>2, PrecedesIsTransitive
    <3> QED BY <3>3, BeforePrecedes
  <2>3. \A f, g \in files : f = g \/ Before(f.path, g.path) \/ Before(g.path, f.path)
    BY <1>1, <2>1
  <2>4. \A f, g, h \in files : Before(f.path, g.path) /\ Before(g.path, h.path) => Before(f.path, h.path)
    BY <1>1, <2>2
  <2>5. \A f \in files : ~Before(f.path, f.path)
    BY <1>1, <2>1
  <2> QED BY <2>3, <2>4, <2>5
<1>3. \A f \in files : below[f] = Under(f)
  OBVIOUS
<1>4. \A f, g \in files : f \in Under(g) <=> Before(f.path, g.path)
  OBVIOUS
<1>5. \A f \in files : Under(f) \subseteq files
  OBVIOUS
<1> HIDE DEF Under
<1>6. \A f, g \in files : f \in Under(g) => Under(f) \subseteq Under(g)
  BY <1>2, <1>4, <1>5
<1>7. /\ \A f \in files : below[f] \subseteq files /\ f \notin below[f]
      /\ \A f, g \in files : f = g \/ f \in below[g] \/ g \in below[f]
      /\ \A f, g \in files : f \in below[g] => below[f] \subseteq below[g]
  BY <1>2, <1>3, <1>4, <1>5, <1>6
<1> HIDE DEF below
<1>8. /\ n \in Nat
      /\ \A f \in files : Cardinality(below[f]) \in 0 .. n - 1
      /\ \A f, g \in files : Cardinality(below[f]) = Cardinality(below[g]) => f = g
      /\ \A k \in 0 .. n - 1 : \E f \in files : Cardinality(below[f]) = k
  BY <1>7, RanksAreFilled
<1> DEFINE Rank(f) == Cardinality(Under(f))
           At(k) == CHOOSE f \in files : Rank(f) = k - 1
<1>9. /\ \A f \in files : Rank(f) \in 0 .. n - 1
      /\ \A f, g \in files : Rank(f) = Rank(g) => f = g
      /\ \A k \in 0 .. n - 1 : \E f \in files : Rank(f) = k
  BY <1>3, <1>8
<1>10. InPathOrder(files) = [k \in 1 .. n |-> At(k)]
  BY DEF InPathOrder, Under
<1> HIDE DEF Rank, n
<1>11. ASSUME NEW k \in 1 .. n PROVE At(k) \in files /\ Rank(At(k)) = k - 1
  <2>1. k - 1 \in 0 .. n - 1
    BY <1>8
  <2>2. \E f \in files : Rank(f) = k - 1
    BY <1>9, <2>1
  <2> QED BY <2>2
<1> HIDE DEF At
<1>12. InPathOrder(files) \in Seq(files) /\ Len(InPathOrder(files)) = n
  BY <1>8, <1>10, <1>11
<1>13. ASSUME NEW f \in files PROVE \E j \in 1 .. n : InPathOrder(files)[j] = f
  <2>1. PICK j : j = Rank(f) + 1
    OBVIOUS
  <2>2. j \in 1 .. n /\ j - 1 = Rank(f)
    BY <1>8, <1>9, <2>1
  <2>3. At(j) \in files /\ Rank(At(j)) = Rank(f)
    BY <1>11, <2>2
  <2>4. At(j) = f
    BY <1>9, <2>3
  <2> QED BY <1>10, <2>2, <2>4
<1> QED BY <1>8, <1>12, <1>13 DEF n

-----------------------------------------------------------------------------
(* Canonical entries.                                                      *)

LEMMA EntryPath ==
  ASSUME NEW file, Entry(file).ok
  PROVE  CanonicalPath(file.path).ok /\ Entry(file).val.path = CanonicalPath(file.path).val
BY DEF Entry, AndThen, Ok, Err

(* Removing one of two equal members of a family loses none. *)
LEMMA FamilyWithDuplicate ==
  ASSUME NEW n \in Nat, NEW f, NEW i \in 1 .. n, NEW j \in 1 .. n, i # j, f[i] = f[j]
  PROVE  Cardinality({f[k] : k \in 1 .. n}) < n
<1> DEFINE K == (1 .. n) \ {j}
<1>1. {f[k] : k \in 1 .. n} = {f[k] : k \in K}
  OBVIOUS
<1>2. IsFiniteSet(1 .. n) /\ Cardinality(1 .. n) = n
  <2>1. 1 \in Int /\ n \in Int /\ ~(1 > n)
    OBVIOUS
  <2>2. IsFiniteSet(1 .. n) /\ Cardinality(1 .. n) = n - 1 + 1
    BY <2>1, FS_Interval
  <2> QED BY <2>2
<1>3. IsFiniteSet(K) /\ Cardinality(K) = n - 1
  BY <1>2, FS_RemoveElement
<1> HIDE DEF K
<1> DEFINE image == {f[k] : k \in K}
           g == [k \in K |-> f[k]]
<1>4. g \in Surjection(K, image)
  BY DEF Surjection
<1> HIDE DEF image, g
<1>5. IsFiniteSet(image) /\ Cardinality(image) <= Cardinality(K)
  BY <1>3, <1>4, FS_Surjection
<1>6. Cardinality(image) \in Nat
  BY <1>5, FS_CardinalityType
<1>7. Cardinality(image) < n
  BY <1>3, <1>5, <1>6
<1> QED BY <1>1, <1>7 DEF image

(* A list that has entries: one for each file, of their own paths. *)
LEMMA SortedFiles ==
  ASSUME NEW list \in Seq(File), SortedEntries(list).ok,
         \A i \in DOMAIN list : Entry(list[i]).ok => Entry(list[i]).val \in File
  PROVE  /\ Len(list) \in Nat \ {0}
         /\ \A i \in DOMAIN list : Entry(list[i]).ok
         /\ SortedEntries(list).val \in Seq(File) /\ Len(SortedEntries(list).val) = Len(list)
         /\ \A j \in 1 .. Len(list) : \E i \in DOMAIN list : SortedEntries(list).val[j] = Entry(list[i]).val
         /\ \A i \in DOMAIN list : \E j \in 1 .. Len(list) : SortedEntries(list).val[j] = Entry(list[i]).val
         /\ SortedEntries(list).val = InPathOrder({Entry(list[i]).val : i \in DOMAIN list})
         /\ SortedEntries(list) = Ok(SortedEntries(list).val)
<1> DEFINE entries == [i \in DOMAIN list |-> Entry(list[i])]
           failed == {i \in DOMAIN list : ~entries[i].ok}
           paths == {entries[i].val.path : i \in DOMAIN list}
           n == Len(list)
           files == {Entry(list[i]).val : i \in DOMAIN list}
<1>1. list # <<>>
  BY DEF SortedEntries, Err
<1>2. DOMAIN list = 1 .. n /\ n \in Nat \ {0}
  BY <1>1
<1>3. failed = {}
  <2> SUFFICES ASSUME failed # {} PROVE FALSE
    OBVIOUS
  <2>1. SortedEntries(list) = entries[CHOOSE i \in failed : \A j \in failed : i <= j]
    BY <1>1 DEF SortedEntries
  <2>2. failed \in SUBSET Nat
    BY <1>2
  <2>3. PICK k \in failed : \A j \in failed : k <= j
    <3> HIDE DEF failed
    <3> QED BY <2>2, LeastNatural
  <2>4. (CHOOSE i \in failed : \A j \in failed : i <= j) \in failed
    <3> HIDE DEF failed
    <3> QED BY <2>3
  <2> QED BY <2>1, <2>4
<1>4. \A i \in 1 .. n : Entry(list[i]).ok /\ Entry(list[i]).val \in File
  BY <1>2, <1>3
<1>5. ~(Cardinality(paths) < n) /\ SortedEntries(list) = Ok(InPathOrder({entries[i].val : i \in DOMAIN list}))
  BY <1>1, <1>3 DEF SortedEntries, Err
<1>6. SortedEntries(list).val = InPathOrder(files) /\ SortedEntries(list) = Ok(InPathOrder(files))
  <2>1. {entries[i].val : i \in DOMAIN list} = files
    OBVIOUS
  <2>2. \A x : Ok(x).val = x
    BY DEF Ok
  <2>3. SortedEntries(list) = Ok(InPathOrder(files))
    BY <1>5, <2>1, Zenon
  <2> HIDE DEF files
  <2> QED BY <2>2, <2>3, Zenon
<1> DEFINE family == [i \in 1 .. n |-> Entry(list[i]).val]
           names == [i \in 1 .. n |-> family[i].path]
<1>7. paths = {names[i] : i \in 1 .. n} /\ files = {family[i] : i \in 1 .. n}
  BY <1>2
<1>8. \A i \in 1 .. n : family[i] \in File /\ names[i] = family[i].path
  BY <1>4
<1> HIDE DEF family, names, files, paths, entries, failed
<1>9. ASSUME NEW i \in 1 .. n, NEW j \in 1 .. n, names[i] = names[j] PROVE i = j
  <2> SUFFICES ASSUME i # j PROVE FALSE
    OBVIOUS
  <2> HIDE DEF n
  <2> QED BY <1>2, <1>5, <1>7, <1>9, FamilyWithDuplicate
<1>10. \A f, g \in files : f.path = g.path => f = g
  BY <1>7, <1>8, <1>9
<1>11. IsFiniteSet(files) /\ Cardinality(files) = n
  <2> DEFINE f == [i \in 1 .. n |-> family[i]]
  <2>1. f \in Bijection(1 .. n, files)
    <3>1. f \in [1 .. n -> files]
      BY <1>7
    <3>2. \A i, j \in 1 .. n : f[i] = f[j] => i = j
      BY <1>8, <1>9
    <3>3. \A x \in files : \E i \in 1 .. n : f[i] = x
      BY <1>7
    <3> HIDE DEF f
    <3>4. f \in Injection(1 .. n, files) /\ f \in Surjection(1 .. n, files)
      BY <3>1, <3>2, <3>3, Fun_IsInj, Fun_IsSurj
    <3> QED BY <3>4 DEF Bijection
  <2>2. ExistsBijection(1 .. n, files)
    BY <2>1 DEF ExistsBijection
  <2> HIDE DEF n, f
  <2>3. Cardinality(files) = n
    BY <1>2, <2>2, FS_CountingElements
  <2>4. IsFiniteSet(files)
    BY <1>2, <2>2, FS_NatBijection
  <2> QED BY <2>3, <2>4
<1>12. files \in SUBSET File
  BY <1>7, <1>8
<1>13. /\ InPathOrder(files) \in Seq(files) /\ Len(InPathOrder(files)) = n
       /\ \A f \in files : \E j \in 1 .. n : InPathOrder(files)[j] = f
  BY <1>10, <1>11, <1>12, InPathOrderFacts
<1>14. \A i \in 1 .. n : family[i] = Entry(list[i]).val
  BY DEF family
<1> DEFINE ordered == InPathOrder(files)
<1>15. ordered \in Seq(File) /\ Len(ordered) = n /\ \A j \in 1 .. n : ordered[j] \in files
  BY <1>12, <1>13
<1> HIDE DEF ordered, n
<1>16. ASSUME NEW j \in 1 .. n PROVE \E i \in 1 .. n : ordered[j] = Entry(list[i]).val
  <2>1. PICK f \in files : f = ordered[j]
    BY <1>15
  <2>2. PICK i \in 1 .. n : f = family[i]
    BY <1>7
  <2> QED BY <1>14, <2>1, <2>2, Zenon
<1>17. \A i \in 1 .. n : \E j \in 1 .. n : ordered[j] = Entry(list[i]).val
  BY <1>7, <1>13, <1>14 DEF ordered
<1>18. SortedEntries(list).val = ordered
  BY <1>6 DEF ordered
<1>19. ordered = InPathOrder({Entry(list[i]).val : i \in DOMAIN list})
  BY DEF ordered, files
<1>20. n = Len(list)
  BY DEF n
<1>21. SortedEntries(list).val \in Seq(File) /\ Len(SortedEntries(list).val) = Len(list)
  BY <1>15, <1>18, <1>20, Zenon
<1>22. \A j \in 1 .. Len(list) : \E i \in DOMAIN list : SortedEntries(list).val[j] = Entry(list[i]).val
  BY <1>2, <1>16, <1>18, <1>20, Zenon
<1>23. \A i \in DOMAIN list : \E j \in 1 .. Len(list) : SortedEntries(list).val[j] = Entry(list[i]).val
  BY <1>2, <1>17, <1>18, <1>20, Zenon
<1>24. Len(list) \in Nat \ {0} /\ \A i \in DOMAIN list : Entry(list[i]).ok
  BY <1>2, <1>4, <1>20, Zenon
<1>25. SortedEntries(list).val = InPathOrder({Entry(list[i]).val : i \in DOMAIN list})
  BY <1>18, <1>19, Zenon
<1>26. SortedEntries(list) = Ok(SortedEntries(list).val)
  BY <1>6, Zenon
<1> QED BY <1>21, <1>22, <1>23, <1>24, <1>25, <1>26, Zenon

-----------------------------------------------------------------------------
(* Line endings.                                                           *)

(* Enumeration commutes with a monotonic map onto another set. *)
LEMMA InOrderMoves ==
  ASSUME NEW K \in SUBSET Nat, IsFiniteSet(K), NEW T \in SUBSET Nat,
         NEW move \in [K -> T], \A t \in T : \E i \in K : move[i] = t,
         \A i, k \in K : i < k => move[i] < move[k]
  PROVE  /\ Cardinality(K) = Cardinality(T) /\ IsFiniteSet(T)
         /\ \A j \in 1 .. Cardinality(K) : InOrder(T)[j] = move[InOrder(K)[j]]
<1>1. ASSUME NEW i \in K, NEW k \in K PROVE (i < k <=> move[i] < move[k]) /\ (move[i] = move[k] => i = k)
  <2>1. i \in Nat /\ k \in Nat /\ move[i] \in Nat /\ move[k] \in Nat
    OBVIOUS
  <2>2. (i < k => move[i] < move[k]) /\ (k < i => move[k] < move[i])
    OBVIOUS
  <2> QED BY <2>1, <2>2
<1>2. move \in Injection(K, T) /\ move \in Surjection(K, T)
  BY <1>1, Fun_IsInj, Fun_IsSurj
<1>3. ExistsBijection(K, T)
  BY <1>2 DEF ExistsBijection, Bijection
<1>4. IsFiniteSet(T) /\ Cardinality(T) = Cardinality(K)
  BY <1>3, FS_Bijection
<1>5. ASSUME NEW i \in K
      PROVE  Cardinality({t \in T : t < move[i]}) = Cardinality({k \in K : k < i})
  <2> DEFINE A == {k \in K : k < i}
             B == {t \in T : t < move[i]}
             f == [k \in A |-> move[k]]
  <2>1. \A k \in A : k \in K /\ move[k] \in B
    BY <1>1
  <2>2. f \in [A -> B] /\ \A k \in A : f[k] = move[k]
    BY <2>1
  <2>3. \A k, l \in A : f[k] = f[l] => k = l
    BY <1>1, <2>1, <2>2
  <2>4. \A t \in B : \E k \in A : f[k] = t
    <3> SUFFICES ASSUME NEW t \in B PROVE \E k \in A : f[k] = t
      OBVIOUS
    <3>1. PICK k \in K : move[k] = t
      OBVIOUS
    <3>2. k \in A
      BY <1>1, <3>1
    <3> QED BY <2>2, <3>1, <3>2
  <2>5. IsFiniteSet(A)
    BY FS_Subset
  <2> HIDE DEF f, A, B
  <2>6. f \in Injection(A, B) /\ f \in Surjection(A, B)
    BY <2>2, <2>3, <2>4, Fun_IsInj, Fun_IsSurj
  <2>7. ExistsBijection(A, B)
    BY <2>6 DEF ExistsBijection, Bijection
  <2>8. Cardinality(B) = Cardinality(A)
    BY <2>5, <2>7, FS_Bijection
  <2> QED BY <2>8 DEF A, B
<1>6. ASSUME NEW j \in 1 .. Cardinality(K) PROVE InOrder(T)[j] = move[InOrder(K)[j]]
  <2>1. PICK i \in K : InOrder(K)[j] = i
    <3>1. PICK s : s = InOrder(K) /\ s \in Seq(K) /\ Len(s) = Cardinality(K)
      BY InOrderFacts
    <3>2. s[j] \in K
      BY <3>1
    <3> QED BY <3>1, <3>2
  <2>2. Cardinality({k \in K : k < i}) = j - 1
    BY <2>1, InOrderFacts
  <2>3. Cardinality({t \in T : t < move[i]}) = j - 1
    BY <1>5, <2>2
  <2>4. move[i] \in T /\ j \in 1 .. Cardinality(T)
    BY <1>4
  <2>5. InOrder(T)[j] = move[i]
    BY <1>4, <2>3, <2>4, InOrderFacts
  <2> QED BY <2>1, <2>5
<1> QED BY <1>4, <1>6

(* Dropping the LF after a CR, or the CR before an LF, leaves the same text. *)
LEMMA TextIsNormalized ==
  ASSUME NEW content \in Seq(Nat), NormalizeNewlines(content).ok
  PROVE  NormalizeNewlines(content).val = Text(content) /\ Text(content) \in Seq(Nat)
<1> DEFINE n == Len(content)
           K == {i \in DOMAIN content : ~(content[i] = LF /\ i > 1 /\ content[i - 1] = CR)}
           T == {i \in DOMAIN content : ~(content[i] = CR /\ i < Len(content) /\ content[i + 1] = LF)}
           Crlf(i) == content[i] = CR /\ i < n /\ content[i + 1] = LF
           move == [i \in K |-> IF Crlf(i) THEN i + 1 ELSE i]
           Byte(i) == IF content[i] = CR THEN LF ELSE content[i]
<1>1. n \in Nat /\ DOMAIN content = 1 .. n /\ \A i \in 1 .. n : content[i] \in Nat
  OBVIOUS
<1>2. NormalizeNewlines(content).val = [j \in DOMAIN InOrder(K) |-> Byte(InOrder(K)[j])]
  BY DEF NormalizeNewlines, Ok, Err
<1>3. Text(content) = [j \in DOMAIN InOrder(T) |-> Byte(InOrder(T)[j])]
  BY DEF Text
<1>4. /\ \A i \in Nat : i \in K <=> i \in 1 .. n /\ ~(content[i] = LF /\ i > 1 /\ content[i - 1] = CR)
      /\ \A i \in Nat : i \in T <=> i \in 1 .. n /\ ~Crlf(i)
      /\ K \in SUBSET Nat /\ T \in SUBSET Nat
  BY <1>1
<1>5. IsFiniteSet(K)
  <2>1. \A i \in K : i <= n
    BY <1>1
  <2> HIDE DEF n, K, T
  <2> QED BY <1>1, <1>4, <2>1, FS_BoundedSetOfNaturals
<1>6. \A i \in K : move[i] = IF Crlf(i) THEN i + 1 ELSE i
  OBVIOUS
<1>7. DOMAIN move = K /\ move = [i \in K |-> move[i]]
  OBVIOUS
<1>8. LF # CR /\ LF \in Nat
  BY DEF LF, CR
<1> HIDE DEF K, T, n, move
<1>9. ASSUME NEW i \in K PROVE move[i] \in T /\ Byte(move[i]) = Byte(i)
  <2>1. CASE Crlf(i)
    <3>1. move[i] = i + 1 /\ i + 1 \in 1 .. n /\ content[i + 1] = LF
      BY <1>1, <1>4, <1>6, <2>1
    <3>2. ~Crlf(i + 1) /\ i + 1 \in Nat
      BY <1>4, <1>8, <3>1
    <3> QED BY <1>4, <1>8, <2>1, <3>1, <3>2
  <2>2. CASE ~Crlf(i)
    BY <1>4, <1>6, <2>2
  <2> QED BY <2>1, <2>2
<1>10. ASSUME NEW t \in T PROVE \E i \in K : move[i] = t
  <2>1. CASE t \in K
    BY <1>4, <1>6, <2>1
  <2>2. CASE t \notin K
    <3>1. t \in 1 .. n /\ content[t] = LF /\ t > 1 /\ content[t - 1] = CR
      BY <1>4, <2>2
    <3>2. t - 1 \in Nat /\ t - 1 \in 1 .. n /\ (t - 1) + 1 = t /\ t - 1 < n
      BY <1>1, <3>1
    <3>3. t - 1 \in K
      BY <1>4, <1>8, <3>1, <3>2
    <3>4. Crlf(t - 1)
      BY <3>1, <3>2
    <3> QED BY <1>6, <3>2, <3>3, <3>4
  <2> QED BY <2>1, <2>2
<1>11. ASSUME NEW i \in K, NEW k \in K, i < k PROVE move[i] < move[k]
  <2>1. i \in Nat /\ k \in Nat /\ k <= move[k] /\ move[k] \in Nat
    BY <1>4, <1>6
  <2>2. CASE Crlf(i)
    <3>1. k # i + 1
      <4> SUFFICES ASSUME k = i + 1 PROVE FALSE
        OBVIOUS
      <4>1. content[k] = LF /\ k > 1 /\ content[k - 1] = CR
        BY <1>4, <2>1, <2>2
      <4> QED BY <1>4, <4>1
    <3>2. move[i] = i + 1
      BY <1>6, <2>2
    <3> QED BY <1>11, <2>1, <3>1, <3>2
  <2>3. CASE ~Crlf(i)
    BY <1>6, <1>11, <2>1, <2>3
  <2> QED BY <2>2, <2>3
<1>12. move \in [K -> T]
  BY <1>7, <1>9
<1>13. /\ Cardinality(K) = Cardinality(T) /\ IsFiniteSet(T)
       /\ \A j \in 1 .. Cardinality(K) : InOrder(T)[j] = move[InOrder(K)[j]]
  BY <1>4, <1>5, <1>10, <1>11, <1>12, InOrderMoves
<1>14. /\ InOrder(K) \in Seq(K) /\ Len(InOrder(K)) = Cardinality(K)
       /\ InOrder(T) \in Seq(T) /\ Len(InOrder(T)) = Cardinality(T)
       /\ Cardinality(K) \in Nat
  BY <1>4, <1>5, <1>13, InOrderFacts
<1>15. PICK a, b, m : /\ a = InOrder(K) /\ b = InOrder(T) /\ m = Cardinality(K) /\ m \in Nat
                      /\ DOMAIN a = 1 .. m /\ DOMAIN b = 1 .. m
                      /\ \A j \in 1 .. m : a[j] \in K /\ b[j] \in T
  BY <1>13, <1>14
<1>16. \A j \in 1 .. m : b[j] = move[a[j]] /\ Byte(b[j]) = Byte(a[j])
  BY <1>9, <1>13, <1>15
<1>17. [j \in DOMAIN a |-> Byte(a[j])] = [j \in DOMAIN b |-> Byte(b[j])]
  BY <1>15, <1>16
<1>18. ASSUME NEW i \in T PROVE Byte(i) \in Nat
  BY <1>1, <1>4, <1>8
<1>19. [j \in DOMAIN b |-> Byte(b[j])] \in Seq(Nat)
  BY <1>15, <1>18
<1> QED BY <1>2, <1>3, <1>15, <1>17, <1>19

-----------------------------------------------------------------------------
(* Paths.                                                                  *)

(* The recursion of Parts, one byte at a time. *)
Cut(path, cut, n) ==
  IF n = 0 THEN << <<>> >>
  ELSE IF path[n] \in Separators THEN Append(cut[n - 1], <<>>)
       ELSE LET parts == cut[n - 1]
            IN  [parts EXCEPT ![Len(parts)] = Append(@, path[n])]

IsCut(path, cut) == \A n \in 0 .. Len(path) : cut[n] = Cut(path, cut, n)

LEMMA PartsDef ==
  ASSUME NEW path, Len(path) \in Nat
  PROVE  \E cut : /\ Parts(path) = cut[Len(path)]
                  /\ IsCut(path, cut)
<1> DEFINE D == 0 .. Len(path)
           Body(g) == [n \in D |-> Cut(path, g, n)]
           Settled(g, m) == \A n \in D : n < m => g[n] = Cut(path, g, n)
           S == {m \in Nat : \E g : Settled(g, m)}
<1>1. ASSUME NEW m \in Nat, NEW g, Settled(g, m) PROVE Settled(Body(g), m + 1)
  <2>1. \A n \in D : Body(g)[n] = Cut(path, g, n)
    OBVIOUS
  <2> HIDE DEF Body
  <2>2. \A n \in D : n < m => Body(g)[n] = g[n]
    BY <1>1, <2>1
  <2>3. ASSUME NEW n \in D, n < m + 1 PROVE Cut(path, Body(g), n) = Cut(path, g, n)
    <3>1. CASE n = 0
      BY <3>1 DEF Cut
    <3>2. CASE n # 0
      <4>1. n - 1 \in D /\ n - 1 < m
        BY <2>3, <3>2
      <4>2. Body(g)[n - 1] = g[n - 1]
        BY <2>2, <4>1
      <4> QED BY <4>2, Zenon DEF Cut
    <3> QED BY <3>1, <3>2
  <2> QED BY <2>1, <2>3
<1> HIDE DEF Body
<1>2. S \in SUBSET Nat /\ 0 \in S
  OBVIOUS
<1>3. ASSUME NEW m \in S PROVE m + 1 \in S
  <2> HIDE DEF Settled
  <2>1. PICK g : Settled(g, m)
    OBVIOUS
  <2> QED BY <1>1, <2>1
<1> HIDE DEF S
<1>4. S = Nat
  BY <1>2, <1>3, SetInduction
<1>5. PICK g : Settled(g, Len(path) + 1)
  <2>1. Len(path) + 1 \in S
    BY <1>4
  <2> QED BY <2>1 DEF S
<1>6. PICK h : h = [n \in D |-> g[n]]
  OBVIOUS
<1>7. \A n \in D : h[n] = Cut(path, h, n)
  <2>1. ASSUME NEW n \in D PROVE h[n] = g[n] /\ g[n] = Cut(path, g, n)
    BY <1>5, <1>6
  <2>2. ASSUME NEW n \in D PROVE Cut(path, h, n) = Cut(path, g, n)
    <3>1. CASE n = 0
      BY <3>1 DEF Cut
    <3>2. CASE n # 0
      <4>1. n - 1 \in D
        BY <3>2
      <4>2. h[n - 1] = g[n - 1]
        BY <2>1, <4>1
      <4> QED BY <4>2, Zenon DEF Cut
    <3> QED BY <3>1, <3>2
  <2> QED BY <2>1, <2>2
<1>8. h = Body(h)
  BY <1>6, <1>7 DEF Body
<1> DEFINE cut == CHOOSE f : f = Body(f)
<1>9. cut = Body(cut)
  BY <1>8
<1>10. Parts(path) = cut[Len(path)]
  BY DEF Parts, Cut, Body
<1> HIDE DEF cut
<1>11. \A n \in D : cut[n] = Cut(path, cut, n)
  BY <1>9 DEF Body
<1> QED BY <1>10, <1>11 DEF IsCut

LEMMA PathsDiffer ==
  ASSUME NEW u \in Seq(Nat), NEW x \in Nat
  PROVE  /\ Append(u, x) \in Seq(Nat) /\ Append(u, x) # <<>>
         /\ \A v \in Seq(Nat), y \in Nat : Append(u, x) = Append(v, y) => u = v /\ x = y
<1>1. Append(u, x) \in Seq(Nat) /\ Len(Append(u, x)) = Len(u) + 1 /\ Len(u) \in Nat
  OBVIOUS
<1>2. Append(u, x) # <<>>
  BY <1>1
<1>3. ASSUME NEW v \in Seq(Nat), NEW y \in Nat, Append(u, x) = Append(v, y) PROVE u = v /\ x = y
  <2>1. Len(u) = Len(v)
    <3>1. Len(Append(v, y)) = Len(v) + 1 /\ Len(v) \in Nat
      OBVIOUS
    <3> QED BY <1>1, <1>3, <3>1
  <2>2. /\ Append(u, x)[Len(u) + 1] = x /\ Append(v, y)[Len(v) + 1] = y
        /\ \A i \in 1 .. Len(u) : Append(u, x)[i] = u[i]
        /\ \A i \in 1 .. Len(v) : Append(v, y)[i] = v[i]
    OBVIOUS
  <2>3. x = y /\ \A i \in 1 .. Len(u) : u[i] = v[i]
    BY <1>3, <2>1, <2>2
  <2> QED BY <2>1, <2>3
<1> QED BY <1>1, <1>2, <1>3

(* A separator opens an empty part; any other byte makes the last longer. *)
Opened(parts)           == Append(parts, <<>>)
Lengthened(parts, byte) == [parts EXCEPT ![Len(parts)] = Append(@, byte)]

IsOpened(t, a) ==
  /\ Len(t) >= 2 /\ Len(t) = Len(a) + 1 /\ t[Len(t)] = <<>>
  /\ \A i \in 1 .. Len(a) : t[i] = a[i]

IsLengthened(t, a, byte) ==
  /\ Len(t) = Len(a) /\ t[Len(t)] # <<>> /\ t[Len(t)] = Append(a[Len(a)], byte)
  /\ \A i \in 1 .. Len(a) - 1 : t[i] = a[i]

LEMMA NewPart ==
  ASSUME NEW a \in Seq(Seq(Nat)), Len(a) >= 1, NEW t, t = Opened(a)
  PROVE  t \in Seq(Seq(Nat)) /\ Len(t) >= 2 /\ IsOpened(t, a)
<1>1. <<>> \in Seq(Nat)
  OBVIOUS
<1> QED BY <1>1 DEF Opened, IsOpened

LEMMA LongerPart ==
  ASSUME NEW a \in Seq(Seq(Nat)), Len(a) >= 1, NEW x \in Nat,
         NEW t, t = Lengthened(a, x)
  PROVE  t \in Seq(Seq(Nat)) /\ Len(t) = Len(a) /\ IsLengthened(t, a, x)
<1> DEFINE n == Len(a)
           longer == Append(a[n], x)
<1>1. n \in Nat \ {0} /\ n \in 1 .. n
  OBVIOUS
<1>2. DOMAIN a = 1 .. n
  OBVIOUS
<1>3. \A i \in 1 .. n : a[i] \in Seq(Nat)
  OBVIOUS
<1>4. t = [a EXCEPT ![n] = longer]
  BY Zenon DEF Lengthened
<1> HIDE DEF n
<1>5. longer \in Seq(Nat) /\ longer # <<>>
  <2>1. a[n] \in Seq(Nat)
    BY <1>1, <1>3
  <2> QED BY <2>1, PathsDiffer
<1> HIDE DEF longer
<1>6. t = [i \in 1 .. n |-> IF i = n THEN longer ELSE a[i]]
  BY <1>2, <1>4
<1>7. t[n] = longer /\ \A i \in 1 .. n - 1 : t[i] = a[i]
  BY <1>1, <1>6
<1>8. t \in Seq(Seq(Nat)) /\ Len(t) = n
  <2>1. \A i \in 1 .. n : t[i] \in Seq(Nat)
    BY <1>3, <1>5, <1>6
  <2> QED BY <1>1, <1>6, <2>1
<1> QED BY <1>5, <1>7, <1>8, Zenon DEF n, longer, IsLengthened

LEMMA PartsAreParts ==
  ASSUME NEW path \in Seq(Nat), NEW cut, IsCut(path, cut)
  PROVE  \A n \in 0 .. Len(path) : cut[n] \in Seq(Seq(Nat)) /\ Len(cut[n]) >= 1
<1> DEFINE Good(n) == cut[n] \in Seq(Seq(Nat)) /\ Len(cut[n]) >= 1
           S == {n \in Nat : n <= Len(path) => Good(n)}
<1>1. Good(0)
  <2>1. cut[0] = << <<>> >>
    <3>1. 0 \in 0 .. Len(path)
      OBVIOUS
    <3>2. cut[0] = Cut(path, cut, 0)
      BY <3>1 DEF IsCut
    <3>3. Cut(path, cut, 0) = << <<>> >>
      BY Zenon DEF Cut
    <3> QED BY <3>2, <3>3, Zenon
  <2>2. <<>> \in Seq(Nat)
    OBVIOUS
  <2> QED BY <2>1, <2>2
<1>2. ASSUME NEW n \in Nat, n + 1 <= Len(path), Good(n) PROVE Good(n + 1)
  <2>1. n + 1 \in 0 .. Len(path) /\ n + 1 # 0 /\ (n + 1) - 1 = n /\ path[n + 1] \in Nat
    BY <1>2
  <2>2. PICK t : t = cut[n + 1] /\ t = Cut(path, cut, n + 1)
    BY <2>1 DEF IsCut
  <2>3. PICK a : a = cut[n] /\ a \in Seq(Seq(Nat)) /\ Len(a) >= 1
    BY <1>2
  <2>4. CASE path[n + 1] \in Separators
    <3>1. t = Opened(a)
      BY <2>1, <2>2, <2>3, <2>4, Zenon DEF Cut, Opened, Lengthened
    <3>2. t \in Seq(Seq(Nat)) /\ Len(t) >= 2
      BY <2>3, <3>1, NewPart
    <3> QED BY <2>2, <3>2
  <2>5. CASE path[n + 1] \notin Separators
    <3>1. t = Lengthened(a, path[n + 1])
      BY <2>1, <2>2, <2>5, <2>3, Zenon DEF Cut, Opened, Lengthened
    <3>2. t \in Seq(Seq(Nat)) /\ Len(t) = Len(a)
      BY <2>1, <2>3, <3>1, LongerPart
    <3> QED BY <2>2, <2>3, <3>2
  <2> QED BY <2>4, <2>5
<1> HIDE DEF Good
<1>3. S = Nat
  <2>1. 0 \in S
    BY <1>1
  <2>2. ASSUME NEW n \in S PROVE n + 1 \in S
    BY <1>2
  <2>3. S \in SUBSET Nat
    OBVIOUS
  <2> HIDE DEF S
  <2> QED BY <2>1, <2>2, <2>3, SetInduction
<1>4. \A n \in Nat : n <= Len(path) => Good(n)
  BY <1>3
<1> QED BY <1>4 DEF Good

(* The first cut of a path, and each later one from the one before. *)
LEMMA CutStep ==
  ASSUME NEW path \in Seq(Nat), NEW cut, IsCut(path, cut)
  PROVE  /\ cut[0] = << <<>> >>
         /\ \A n \in Nat : n + 1 <= Len(path) =>
              cut[n + 1] = IF path[n + 1] \in Separators THEN Opened(cut[n])
                           ELSE Lengthened(cut[n], path[n + 1])
<1>1. cut[0] = << <<>> >>
  <2>1. cut[0] = Cut(path, cut, 0)
    BY DEF IsCut
  <2>2. Cut(path, cut, 0) = << <<>> >>
    BY Zenon DEF Cut
  <2> QED BY <2>1, <2>2, Zenon
<1>2. ASSUME NEW n \in Nat, n + 1 <= Len(path)
      PROVE  cut[n + 1] = IF path[n + 1] \in Separators THEN Opened(cut[n])
                          ELSE Lengthened(cut[n], path[n + 1])
  <2>1. n + 1 \in 0 .. Len(path) /\ n + 1 # 0 /\ (n + 1) - 1 = n
    BY <1>2
  <2>2. cut[n + 1] = Cut(path, cut, n + 1)
    BY <2>1 DEF IsCut
  <2> QED BY <2>1, <2>2, Zenon DEF Cut, Opened, Lengthened
<1> QED BY <1>1, <1>2

(* Paths that differ only in their separators have the same parts. *)
LEMMA PartsOfSpelling ==
  ASSUME NEW p \in Seq(Nat), NEW q \in Seq(Nat), Len(p) = Len(q),
         \A i \in 1 .. Len(p) : (p[i] \in Separators /\ q[i] \in Separators)
                                  \/ (p[i] \notin Separators /\ q[i] = p[i])
  PROVE  Parts(p) = Parts(q)
<1>1. PICK a : Parts(p) = a[Len(p)] /\ IsCut(p, a)
  BY PartsDef
<1>2. PICK b : Parts(q) = b[Len(q)] /\ IsCut(q, b)
  BY PartsDef
<1> DEFINE S == {n \in Nat : n <= Len(p) => a[n] = b[n]}
<1>3. 0 \in S
  <2>1. a[0] = << <<>> >> /\ b[0] = << <<>> >>
    BY <1>1, <1>2, CutStep
  <2> QED BY <2>1
<1>4. ASSUME NEW n \in Nat, n + 1 <= Len(p), a[n] = b[n] PROVE a[n + 1] = b[n + 1]
  <2>1. n + 1 \in 1 .. Len(p) /\ n + 1 \in 1 .. Len(q) /\ (n + 1) - 1 = n
    BY <1>4
  <2>2. /\ a[n + 1] = IF p[n + 1] \in Separators THEN Opened(a[n]) ELSE Lengthened(a[n], p[n + 1])
        /\ b[n + 1] = IF q[n + 1] \in Separators THEN Opened(b[n]) ELSE Lengthened(b[n], q[n + 1])
    BY <1>1, <1>2, <1>4, CutStep
  <2>3. (p[n + 1] \in Separators /\ q[n + 1] \in Separators)
          \/ (p[n + 1] \notin Separators /\ q[n + 1] = p[n + 1])
    BY <2>1
  <2> QED BY <1>4, <2>2, <2>3
<1>5. S = Nat
  <2>1. \A n \in S : n + 1 \in S
    <3>1. \A n \in Nat : n + 1 <= Len(p) => n <= Len(p)
      OBVIOUS
    <3> QED BY <1>4, <3>1
  <2>2. S \in SUBSET Nat
    OBVIOUS
  <2> HIDE DEF S
  <2> QED BY <1>3, <2>1, <2>2, SetInduction
<1>6. a[Len(p)] = b[Len(p)]
  BY <1>5
<1> QED BY <1>1, <1>2, <1>6

(* A canonical path has the parts of the path it stands for, and no "\". *)
LEMMA CanonicalParts ==
  ASSUME NEW path \in Seq(Nat), CanonicalPath(path).ok
  PROVE  /\ CanonicalPath(path).val \in Seq(Nat)
         /\ BACKSLASH \notin ToSet(CanonicalPath(path).val)
         /\ Parts(CanonicalPath(path).val) = Parts(path)
<1> DEFINE q == [i \in DOMAIN path |-> IF path[i] \in Separators THEN SLASH ELSE path[i]]
<1>1. CanonicalPath(path).val = q
  BY DEF CanonicalPath, Ok, Err
<1>2. \A i \in 1 .. Len(path) : q[i] = IF path[i] \in Separators THEN SLASH ELSE path[i]
  OBVIOUS
<1>3. q \in Seq(Nat) /\ Len(q) = Len(path) /\ DOMAIN q = 1 .. Len(path)
  BY DEF SLASH
<1> HIDE DEF q
<1>4. \A i \in 1 .. Len(path) : q[i] # BACKSLASH
  BY <1>2 DEF Separators, SLASH, BACKSLASH
<1>5. BACKSLASH \notin ToSet(q)
  BY <1>3, <1>4 DEF ToSet
<1>6. Parts(path) = Parts(q)
  <2>1. SLASH \in Separators
    BY DEF Separators
  <2> QED BY <1>2, <1>3, <2>1, PartsOfSpelling
<1> QED BY <1>1, <1>3, <1>5, <1>6

(* t is the cut after c, made by that byte of a path without "\". *)
IsNext(t, c, byte) == (byte = SLASH /\ IsOpened(t, c)) \/ IsLengthened(t, c, byte)

LEMMA SameCut ==
  ASSUME NEW c \in Seq(Seq(Nat)), Len(c) >= 1, NEW x \in Nat,
         NEW d \in Seq(Seq(Nat)), Len(d) >= 1, NEW y \in Nat,
         NEW t,
         IsNext(t, c, x), IsNext(t, d, y)
  PROVE  c = d /\ x = y
<1>1. Len(c) \in Nat /\ Len(d) \in Nat
  OBVIOUS
<1>2. CASE IsOpened(t, c) /\ IsOpened(t, d)
  <2>1. Len(c) = Len(d) /\ \A i \in 1 .. Len(c) : c[i] = d[i]
    BY <1>1, <1>2 DEF IsOpened
  <2>2. x = SLASH /\ y = SLASH
    BY <1>2 DEF IsNext, IsOpened, IsLengthened
  <2> QED BY <2>1, <2>2, SamePathParts
<1>3. CASE IsLengthened(t, c, x) /\ IsLengthened(t, d, y)
  <2>1. Len(c) = Len(d) /\ \A i \in 1 .. Len(c) - 1 : c[i] = d[i]
    BY <1>1, <1>3 DEF IsLengthened
  <2>2. PICK n : n = Len(c) /\ n = Len(d) /\ n \in Nat /\ n >= 1
    BY <1>1, <2>1
  <2>3. PICK u, v : u = c[n] /\ v = d[n] /\ u \in Seq(Nat) /\ v \in Seq(Nat)
    <3>1. (\A i \in 1 .. Len(c) : c[i] \in Seq(Nat)) /\ (\A i \in 1 .. Len(d) : d[i] \in Seq(Nat))
      OBVIOUS
    <3>2. n \in 1 .. Len(c) /\ n \in 1 .. Len(d)
      BY <2>2
    <3> QED BY <3>1, <3>2, Zenon
  <2>4. Append(u, x) = Append(v, y)
    BY <1>3, <2>2, <2>3, Zenon DEF IsLengthened
  <2>5. c[n] = d[n] /\ x = y
    <3>1. u = v /\ x = y
      <4> u \in Seq(Nat) /\ v \in Seq(Nat)
        BY <2>3
      <4> QED BY <2>4, PathsDiffer
    <3> QED BY <2>3, <3>1
  <2>6. \A i \in 1 .. n : c[i] = d[i]
    <3>1. \A i \in 1 .. n : i = n \/ i \in 1 .. n - 1
      BY <2>2
    <3> QED BY <2>1, <2>2, <2>5, <3>1
  <2> QED BY <2>2, <2>5, <2>6, SamePathParts
<1>4. ~(IsOpened(t, c) /\ IsLengthened(t, d, y)) /\ ~(IsOpened(t, d) /\ IsLengthened(t, c, x))
  BY Zenon DEF IsOpened, IsLengthened
<1> QED BY <1>2, <1>3, <1>4 DEF IsNext

(* Cuts of two paths without "\" that are equal were made at one place,    *)
(* after the same bytes.                                                   *)
LEMMA EqualCuts ==
  ASSUME NEW p \in Seq(Nat), BACKSLASH \notin ToSet(p),
         NEW a, IsCut(p, a),
         NEW q \in Seq(Nat), BACKSLASH \notin ToSet(q),
         NEW b, IsCut(q, b),
         NEW n \in 0 .. Len(p), NEW k \in 0 .. Len(q), a[n] = b[k]
  PROVE  n = k /\ \A i \in 1 .. n : p[i] = q[i]
<1> DEFINE Same(m) == m <= Len(p) =>
             \A j \in 0 .. Len(q) : a[m] = b[j] => m = j /\ \A i \in 1 .. m : p[i] = q[i]
           S == {m \in Nat : Same(m)}
<1>1. /\ \A m \in 0 .. Len(p) : a[m] \in Seq(Seq(Nat)) /\ Len(a[m]) >= 1
      /\ \A m \in 0 .. Len(q) : b[m] \in Seq(Seq(Nat)) /\ Len(b[m]) >= 1
  BY PartsAreParts
<1>2. a[0] = << <<>> >> /\ b[0] = << <<>> >>
  BY CutStep
<1>3. ASSUME NEW path \in Seq(Nat), NEW cut, IsCut(path, cut),
             BACKSLASH \notin ToSet(path), NEW m \in Nat, m + 1 <= Len(path)
      PROVE  IsNext(cut[m + 1], cut[m], path[m + 1])
  <2>1. m \in 0 .. Len(path) /\ path[m + 1] \in Nat
    BY <1>3
  <2>2. PICK c : c = cut[m] /\ c \in Seq(Seq(Nat)) /\ Len(c) >= 1
    BY <1>3, <2>1, PartsAreParts
  <2>3. PICK t : t = cut[m + 1]
    OBVIOUS
  <2>4. t = IF path[m + 1] \in Separators THEN Opened(c) ELSE Lengthened(c, path[m + 1])
    BY <1>3, <2>2, <2>3, CutStep
  <2>5. CASE path[m + 1] \in Separators
    <3>1. path[m + 1] = SLASH
      <4>1. path[m + 1] # BACKSLASH
        BY <1>3 DEF ToSet
      <4> QED BY <2>5, <4>1 DEF Separators
    <3>2. t = Opened(c)
      BY <2>4, <2>5, Zenon
    <3>3. IsOpened(t, c)
      BY <2>2, <3>2, NewPart
    <3> QED BY <2>2, <2>3, <3>1, <3>3, Zenon DEF IsNext
  <2>6. CASE path[m + 1] \notin Separators
    <3>1. t = Lengthened(c, path[m + 1])
      BY <2>4, <2>6, Zenon
    <3>2. IsLengthened(t, c, path[m + 1])
      BY <2>1, <2>2, <3>1, LongerPart
    <3> QED BY <2>2, <2>3, <3>2, Zenon DEF IsNext
  <2> QED BY <2>5, <2>6
<1> HIDE DEF Same
<1>4. Same(0)
  <2> SUFFICES ASSUME NEW j \in 0 .. Len(q), a[0] = b[j] PROVE j = 0
    BY DEF Same
  <2> SUFFICES ASSUME j # 0 PROVE FALSE
    OBVIOUS
  <2>1. j - 1 \in Nat /\ (j - 1) + 1 = j /\ (j - 1) + 1 <= Len(q) /\ j - 1 \in 0 .. Len(q)
    OBVIOUS
  <2>2. \/ IsOpened(b[j], b[j - 1])
        \/ IsLengthened(b[j], b[j - 1], q[j])
    BY <1>3, <2>1 DEF IsNext
  <2>3. Len(b[j]) = 1 /\ b[j][1] = <<>>
    BY <1>2
  <2> QED BY <2>2, <2>3 DEF IsOpened, IsLengthened
<1>5. ASSUME NEW m \in Nat, Same(m) PROVE Same(m + 1)
  <2> SUFFICES ASSUME m + 1 <= Len(p), NEW j \in 0 .. Len(q), a[m + 1] = b[j]
               PROVE  m + 1 = j /\ \A i \in 1 .. m + 1 : p[i] = q[i]
    BY DEF Same
  <2>1. j # 0
    <3> SUFFICES ASSUME j = 0 PROVE FALSE
      OBVIOUS
    <3>1. Len(a[m + 1]) = 1 /\ a[m + 1][1] = <<>>
      BY <1>2
    <3>2. IsOpened(a[m + 1], a[m]) \/ IsLengthened(a[m + 1], a[m], p[m + 1])
      BY <1>3 DEF IsNext
    <3> QED BY <3>1, <3>2 DEF IsOpened, IsLengthened
  <2>2. PICK h \in Nat : j = h + 1 /\ h \in 0 .. Len(q) /\ h + 1 <= Len(q)
    <3>1. j - 1 \in Nat /\ j = (j - 1) + 1 /\ j - 1 \in 0 .. Len(q) /\ (j - 1) + 1 <= Len(q)
      BY <2>1
    <3> QED BY <3>1
  <2>3. PICK c, d, t : /\ c = a[m] /\ d = b[h] /\ t = a[m + 1] /\ t = b[h + 1]
                       /\ c \in Seq(Seq(Nat)) /\ d \in Seq(Seq(Nat)) /\ Len(c) >= 1 /\ Len(d) >= 1
    <3>1. m \in 0 .. Len(p)
      OBVIOUS
    <3> QED BY <1>1, <2>2, <3>1
  <2>4. IsNext(t, c, p[m + 1]) /\ IsNext(t, d, q[h + 1])
    BY <1>3, <2>2, <2>3
  <2>5. PICK x, y : x = p[m + 1] /\ y = q[h + 1] /\ x \in Nat /\ y \in Nat
    BY <2>2
  <2>6. c = d /\ p[m + 1] = q[h + 1]
    <3>1. IsNext(t, c, x) /\ IsNext(t, d, y)
      BY <2>4, <2>5, Zenon
    <3>2. c = d /\ x = y
      BY <2>3, <2>5, <3>1, SameCut
    <3> QED BY <2>5, <3>2
  <2>7. m = h /\ \A i \in 1 .. m : p[i] = q[i]
    <3>1. a[m] = b[h]
      BY <2>3, <2>6, Zenon
    <3>2. m <= Len(p)
      OBVIOUS
    <3> QED BY <1>5, <2>2, <3>1, <3>2, Zenon DEF Same
  <2> QED BY <2>2, <2>6, <2>7
<1>6. S = Nat
  <2>1. S \in SUBSET Nat /\ 0 \in S /\ \A m \in S : m + 1 \in S
    BY <1>4, <1>5
  <2> HIDE DEF S
  <2> QED BY <2>1, SetInduction
<1>7. Same(n)
  BY <1>6
<1> QED BY <1>7 DEF Same

(* A path is its parts, once it is canonical. *)
LEMMA PartsIdentify ==
  ASSUME NEW p \in Seq(Nat), CanonicalPath(p).ok,
         NEW q \in Seq(Nat), CanonicalPath(q).ok
  PROVE  Parts(p) = Parts(q) <=> CanonicalPath(p).val = CanonicalPath(q).val
<1>1. PICK u, v : /\ u = CanonicalPath(p).val /\ v = CanonicalPath(q).val
                  /\ u \in Seq(Nat) /\ BACKSLASH \notin ToSet(u) /\ Parts(u) = Parts(p)
                  /\ v \in Seq(Nat) /\ BACKSLASH \notin ToSet(v) /\ Parts(v) = Parts(q)
  BY CanonicalParts
<1>2. ASSUME Parts(u) = Parts(v) PROVE u = v
  <2>1. Len(u) \in Nat /\ Len(v) \in Nat
    BY <1>1
  <2>2. PICK a : Parts(u) = a[Len(u)] /\ IsCut(u, a)
    BY <2>1, PartsDef
  <2>3. PICK b : Parts(v) = b[Len(v)] /\ IsCut(v, b)
    BY <2>1, PartsDef
  <2>4. Len(u) \in 0 .. Len(u) /\ Len(v) \in 0 .. Len(v)
    BY <2>1
  <2>5. Len(u) = Len(v) /\ \A i \in 1 .. Len(u) : u[i] = v[i]
    <3>1. a[Len(u)] = b[Len(v)]
      BY <1>2, <2>2, <2>3, Zenon
    <3>2. u \in Seq(Nat) /\ BACKSLASH \notin ToSet(u) /\ v \in Seq(Nat) /\ BACKSLASH \notin ToSet(v)
      BY <1>1
    <3>3. IsCut(u, a) /\ IsCut(v, b)
      BY <2>2, <2>3
    <3> QED BY <2>4, <3>1, <3>2, <3>3, EqualCuts
  <2> QED BY <1>1, <2>5, SameBytes
<1> QED BY <1>1, <1>2, Zenon

(* The entry of a file: its path made canonical, and its text. *)
LEMMA EntryFacts ==
  ASSUME NEW file \in File, Entry(file).ok
  PROVE  /\ CanonicalPath(file.path).ok
         /\ Entry(file).val = [path |-> CanonicalPath(file.path).val, content |-> Text(file.content)]
         /\ Entry(file).val \in File /\ BACKSLASH \notin ToSet(Entry(file).val.path)
         /\ Parts(Entry(file).val.path) = Parts(file.path)
<1> DEFINE path == CanonicalPath(file.path)
           content == NormalizeNewlines(file.content)
<1>1. file.path \in Seq(Nat) /\ file.content \in Seq(Nat)
  BY DEF File
<1>2. path.ok /\ content.ok
  BY DEF Entry, AndThen, Ok, Err
<1>3. Entry(file) = Ok([path |-> path.val, content |-> content.val])
  BY <1>2 DEF Entry, AndThen
<1>4. content.val = Text(file.content) /\ Text(file.content) \in Seq(Nat)
  BY <1>1, <1>2, TextIsNormalized
<1>5. /\ path.val \in Seq(Nat) /\ BACKSLASH \notin ToSet(path.val)
      /\ Parts(path.val) = Parts(file.path)
  BY <1>1, <1>2, CanonicalParts
<1> HIDE DEF path, content
<1>6. Entry(file).val = [path |-> path.val, content |-> Text(file.content)]
  BY <1>3, <1>4 DEF Ok
<1>7. Entry(file).val.path = path.val
  BY <1>6
<1>8. Entry(file).val \in File
  BY <1>4, <1>5, <1>6 DEF File
<1> QED BY <1>2, <1>5, <1>6, <1>7, <1>8 DEF path

(* Two files have one entry exactly when they have the same parts and text. *)
LEMMA EntriesIdentify ==
  ASSUME NEW f \in File, Entry(f).ok, NEW g \in File, Entry(g).ok
  PROVE  Entry(f).val = Entry(g).val
           <=> Parts(f.path) = Parts(g.path) /\ Text(f.content) = Text(g.content)
<1>1. /\ f.path \in Seq(Nat) /\ CanonicalPath(f.path).ok
      /\ g.path \in Seq(Nat) /\ CanonicalPath(g.path).ok
  BY EntryFacts DEF File
<1>2. Parts(f.path) = Parts(g.path) <=> CanonicalPath(f.path).val = CanonicalPath(g.path).val
  BY <1>1, PartsIdentify
<1>3. /\ Entry(f).val = [path |-> CanonicalPath(f.path).val, content |-> Text(f.content)]
      /\ Entry(g).val = [path |-> CanonicalPath(g.path).val, content |-> Text(g.content)]
  BY EntryFacts
<1>4. \A p, c, q, d : [path |-> p, content |-> c] = [path |-> q, content |-> d] <=> p = q /\ c = d
  OBVIOUS
<1> QED BY <1>2, <1>3, <1>4

(* A list that has a root: its entries, each of one file. *)
LEMMA PublishedList ==
  ASSUME NEW list \in Seq(File), Len(list) <= USIZE \div 2, BundleHash(list).ok
  PROVE  LET entries == SortedEntries(list).val
         IN  /\ Len(list) \in 1 .. USIZE \div 2
             /\ \A i \in DOMAIN list : list[i] \in File /\ Entry(list[i]).ok
             /\ SortedEntries(list) = Ok(entries)
             /\ entries \in Seq(File) /\ Len(entries) = Len(list)
             /\ \A j \in 1 .. Len(list) : \E i \in DOMAIN list : entries[j] = Entry(list[i]).val
             /\ \A i \in DOMAIN list : \E j \in 1 .. Len(list) : entries[j] = Entry(list[i]).val
             /\ entries = InPathOrder({Entry(list[i]).val : i \in DOMAIN list})
             /\ BundleHash(list) = Ok(TreeRoot(Leaves(entries), 1, Len(list)))
<1> DEFINE entries == SortedEntries(list).val
           n == Len(list)
<1>1. SortedEntries(list).ok
  BY DEF BundleHash, AndThen
<1>2. \A i \in DOMAIN list : list[i] \in File
  OBVIOUS
<1>3. \A i \in DOMAIN list : Entry(list[i]).ok => Entry(list[i]).val \in File
  BY <1>2, EntryFacts
<1>4. /\ n \in Nat \ {0}
      /\ \A i \in DOMAIN list : Entry(list[i]).ok
      /\ entries \in Seq(File) /\ Len(entries) = n
      /\ \A j \in 1 .. n : \E i \in DOMAIN list : entries[j] = Entry(list[i]).val
      /\ \A i \in DOMAIN list : \E j \in 1 .. n : entries[j] = Entry(list[i]).val
      /\ entries = InPathOrder({Entry(list[i]).val : i \in DOMAIN list})
      /\ SortedEntries(list) = Ok(entries)
  BY <1>1, <1>3, SortedFiles
<1>5. BundleHash(list) = Ok(TreeRoot(Leaves(entries), 1, n))
  <2>1. BundleHash(list) = Ok(TreeRoot(Leaves(entries), 1, Len(entries)))
    BY <1>1 DEF BundleHash, AndThen
  <2> QED BY <1>4, <2>1, Zenon
<1>6. n \in 1 .. USIZE \div 2
  <2>1. USIZE \div 2 \in Int
    BY UsizeIsAPower, PowersFacts
  <2> QED BY <1>4, <2>1
<1> HIDE DEF entries, n
<1> QED BY <1>2, <1>4, <1>5, <1>6, Zenon DEF entries, n

(* What a list stands for, read off its entries. *)
LEMMA DenotedEntries ==
  ASSUME NEW list \in Seq(File), Len(list) <= USIZE \div 2, BundleHash(list).ok,
         NEW other \in Seq(File), Len(other) <= USIZE \div 2, BundleHash(other).ok
  PROVE  Denotes(list) = Denotes(other)
           <=> {Entry(list[i]).val : i \in DOMAIN list} = {Entry(other[i]).val : i \in DOMAIN other}
<1> DEFINE A == DOMAIN list
           B == DOMAIN other
           a == [i \in A |-> Entry(list[i]).val]
           b == [i \in B |-> Entry(other[i]).val]
           u == [i \in A |-> <<Parts(list[i].path), Text(list[i].content)>>]
           v == [i \in B |-> <<Parts(other[i].path), Text(other[i].content)>>]
<1>1. /\ \A i \in A : list[i] \in File /\ Entry(list[i]).ok
      /\ \A i \in B : other[i] \in File /\ Entry(other[i]).ok
  BY PublishedList
<1>2. ASSUME NEW i \in A, NEW k \in B PROVE a[i] = b[k] <=> u[i] = v[k]
  <2>1. Entry(list[i]).val = Entry(other[k]).val
          <=> /\ Parts(list[i].path) = Parts(other[k].path)
              /\ Text(list[i].content) = Text(other[k].content)
    BY <1>1, EntriesIdentify
  <2>2. \A p, c, q, d : <<p, c>> = <<q, d>> <=> p = q /\ c = d
    OBVIOUS
  <2> QED BY <2>1, <2>2
<1>3. /\ Denotes(list) = {u[i] : i \in A} /\ Denotes(other) = {v[i] : i \in B}
      /\ {Entry(list[i]).val : i \in DOMAIN list} = {a[i] : i \in A}
      /\ {Entry(other[i]).val : i \in DOMAIN other} = {b[i] : i \in B}
  BY DEF Denotes
<1> HIDE DEF A, B, a, b, u, v
<1>4. ASSUME {u[i] : i \in A} = {v[i] : i \in B}
      PROVE  {a[i] : i \in A} = {b[i] : i \in B}
  <2>1. \A i \in A : \E k \in B : u[i] = v[k]
    BY <1>4
  <2>2. \A k \in B : \E i \in A : u[i] = v[k]
    BY <1>4
  <2> QED BY <1>2, <2>1, <2>2
<1>5. ASSUME {a[i] : i \in A} = {b[i] : i \in B}
      PROVE  {u[i] : i \in A} = {v[i] : i \in B}
  <2>1. \A i \in A : \E k \in B : a[i] = b[k]
    BY <1>5
  <2>2. \A k \in B : \E i \in A : a[i] = b[k]
    BY <1>5
  <2> QED BY <1>2, <2>1, <2>2
<1> QED BY <1>3, <1>4, <1>5, Zenon

LEMMA EntryLeaves ==
  ASSUME NEW entries \in Seq(File), Len(entries) \in 1 .. USIZE \div 2
  PROVE  /\ Len(Leaves(entries)) = Len(entries) /\ DOMAIN entries = 1 .. Len(entries)
         /\ \A j \in 1 .. Len(entries) : Leaves(entries)[j] = LeafHash(entries[j].path, entries[j].content)
         /\ \A j \in 1 .. Len(entries) : \E p, c : Leaves(entries)[j] = LeafHash(p, c)
<1> DEFINE Hash(j) == LeafHash(entries[j].path, entries[j].content)
           n == Len(entries)
<1>1. n \in Nat /\ DOMAIN entries = 1 .. n
  OBVIOUS
<1>2. Leaves(entries) = [j \in 1 .. n |-> Hash(j)]
  BY <1>1 DEF Leaves
<1>3. \A j \in 1 .. n : \E p, c : Hash(j) = LeafHash(p, c)
  OBVIOUS
<1> HIDE DEF Hash, n
<1>4. Len(Leaves(entries)) = n /\ \A j \in 1 .. n : Leaves(entries)[j] = Hash(j)
  BY <1>1, <1>2
<1>5. \A j \in 1 .. n : \E p, c : Leaves(entries)[j] = LeafHash(p, c)
  BY <1>3, <1>4
<1> QED BY <1>1, <1>4, <1>5 DEF Hash, n

(* An opening that a root accepts names an entry and carries its content. *)
LEMMA VerifiedIsEntry ==
  ASSUME NEW entries \in Seq(File), Len(entries) \in 1 .. USIZE \div 2,
         NEW o, o.index \in Nat, o.size \in Nat, Len(o.proof) \in Nat,
         VerifyOpening(TreeRoot(Leaves(entries), 1, Len(entries)), o).ok
  PROVE  /\ CanonicalPath(o.path).ok
         /\ \E j \in DOMAIN entries :
              entries[j].path = CanonicalPath(o.path).val /\ entries[j].content = o.content
<1> DEFINE leaves == Leaves(entries)
           path == CanonicalPath(o.path).val
           content == o.content
           index == o.index
           size == o.size
           proof == o.proof
           root == TreeRoot(leaves, 1, Len(entries))
<1>1. USIZE \in Nat
  BY UsizeIsAPower, PowersFacts
<1>2. size < USIZE /\ index < size /\ CanonicalPath(o.path).ok
  BY <1>1 DEF VerifyOpening, AndThen, Err
<1>3. Fold(LeafHash(path, content), index, size, proof) = root
  BY <1>1, <1>2 DEF VerifyOpening, AndThen, Err
<1>4. index \in Nat /\ size \in Nat /\ Len(proof) \in Nat
  OBVIOUS
<1>5. /\ Len(leaves) = Len(entries) /\ DOMAIN entries = 1 .. Len(entries)
      /\ \A j \in 1 .. Len(entries) : leaves[j] = LeafHash(entries[j].path, entries[j].content)
      /\ \A j \in 1 .. Len(entries) : \E p, c : leaves[j] = LeafHash(p, c)
  BY EntryLeaves
<1> HIDE DEF leaves, path, content, index, size, proof
<1>6. /\ Len(leaves) \in 1 .. USIZE \div 2 /\ \A j \in 1 .. Len(leaves) : \E p, c : leaves[j] = LeafHash(p, c)
      /\ Fold(LeafHash(path, content), index, size, proof) = TreeRoot(leaves, 1, Len(leaves))
  BY <1>3, <1>5
<1>7. PICK j \in 1 .. Len(leaves) : leaves[j] = LeafHash(path, content)
  BY <1>2, <1>4, <1>6, ProofsAreSound
<1>8. j \in DOMAIN entries /\ entries[j].path = path /\ entries[j].content = content
  BY <1>5, <1>7, HashesAreFree
<1> QED BY <1>2, <1>8 DEF path, content

(* A canonical path without a "\" is its own canonical form. *)
LEMMA CanonicalIsItself ==
  ASSUME NEW path \in Seq(Nat), CanonicalPath(path).ok, BACKSLASH \notin ToSet(path)
  PROVE  CanonicalPath(path).val = path
<1>1. CanonicalPath(path).val = [i \in DOMAIN path |-> IF path[i] \in Separators THEN SLASH ELSE path[i]]
  BY DEF CanonicalPath, Ok, Err
<1>2. \A i \in DOMAIN path : path[i] # BACKSLASH
  BY DEF ToSet
<1>3. \A i \in DOMAIN path : (IF path[i] \in Separators THEN SLASH ELSE path[i]) = path[i]
  BY <1>2 DEF Separators
<1>4. path = [i \in DOMAIN path |-> path[i]]
  OBVIOUS
<1> QED BY <1>1, <1>3, <1>4

(* What open_file returns of a list that has entries. *)
OpeningOf(entries, i) ==
  [path |-> entries[i].path, content |-> entries[i].content,
   index |-> i - 1, size |-> Len(entries), proof |-> BuildProof(Leaves(entries), i)]

LEMMA OpenedFile ==
  ASSUME NEW list, NEW entries, SortedEntries(list) = Ok(entries), NEW path, OpenFile(list, path).ok
  PROVE  \E i \in DOMAIN entries :
           /\ entries[i].path = CanonicalPath(path).val /\ CanonicalPath(path).ok
           /\ OpenFile(list, path) = Ok(OpeningOf(entries, i))
<1> DEFINE wanted == CanonicalPath(path).val
           found == {i \in DOMAIN entries : entries[i].path = wanted}
<1>1. CanonicalPath(path).ok
  BY DEF OpenFile, AndThen
<1>2. found # {}
  BY <1>1 DEF OpenFile, AndThen, Ok, Err
<1>3. PICK i : i = CHOOSE j \in found : TRUE
  OBVIOUS
<1>4. i \in found
  BY <1>2, <1>3
<1>5. OpenFile(list, path) =
        Ok([path |-> wanted, content |-> entries[i].content,
            index |-> i - 1, size |-> Len(entries), proof |-> BuildProof(Leaves(entries), i)])
  BY <1>1, <1>2, <1>3 DEF OpenFile, AndThen, Ok
<1> QED BY <1>1, <1>4, <1>5 DEF OpeningOf

(* It verifies, and has no more siblings than the tree has levels. *)
LEMMA OpenedVerifies ==
  ASSUME NEW list, NEW entries \in Seq(File), SortedEntries(list) = Ok(entries),
         Len(entries) \in 1 .. USIZE \div 2,
         \A i \in DOMAIN entries : CanonicalPath(entries[i].path) = Ok(entries[i].path),
         NEW path, OpenFile(list, path).ok
  PROVE  LET o == OpenFile(list, path).val
         IN  /\ OpenFile(list, path) = Ok(o)
             /\ o.path \in Seq(Nat) /\ o.index \in Nat /\ o.size \in Nat
             /\ IsSequence(o.proof) /\ Len(o.proof) \in Nat
             /\ Len(o.proof) >= 1 => TwoTo[Len(o.proof) - 1] < o.size
             /\ VerifyOpening(TreeRoot(Leaves(entries), 1, Len(entries)), o) = Ok("verified")
<1> DEFINE o == OpenFile(list, path).val
           leaves == Leaves(entries)
<1>1. PICK i \in DOMAIN entries : OpenFile(list, path) = Ok(OpeningOf(entries, i))
  BY OpenedFile
<1>2. /\ OpenFile(list, path) = Ok(o)
      /\ o.path = entries[i].path /\ o.content = entries[i].content
      /\ o.index = i - 1 /\ o.size = Len(entries) /\ o.proof = BuildProof(leaves, i)
  BY <1>1 DEF Ok, OpeningOf
<1>3. /\ Len(leaves) = Len(entries) /\ DOMAIN entries = 1 .. Len(entries)
      /\ leaves[i] = LeafHash(entries[i].path, entries[i].content)
      /\ \A j \in 1 .. Len(leaves) : \E p, c : leaves[j] = LeafHash(p, c)
  BY EntryLeaves
<1> HIDE DEF o, leaves
<1>4. Len(leaves) \in 1 .. USIZE \div 2 /\ i \in 1 .. Len(leaves)
  BY <1>3
<1>5. /\ IsSequence(BuildProof(leaves, i))
      /\ \A w \in 0 .. UsizeBits : Len(leaves) <= TwoTo[w] => Len(BuildProof(leaves, i)) <= w
      /\ Fold(leaves[i], i - 1, Len(leaves), BuildProof(leaves, i)) = TreeRoot(leaves, 1, Len(leaves))
  BY <1>3, <1>4, BuildProofFacts
<1>6. o.path \in Seq(Nat) /\ CanonicalPath(o.path) = Ok(o.path)
  <2>1. entries[i] \in File
    OBVIOUS
  <2> QED BY <1>2, <2>1 DEF File
<1>7. IsSequence(o.proof) /\ Len(o.proof) \in Nat
  BY <1>2, <1>5, SequenceReads
<1>8. o.index \in Nat /\ o.size \in Nat /\ o.size = Len(leaves)
  BY <1>2, <1>3, <1>4
<1>9. ASSUME Len(o.proof) >= 1 PROVE TwoTo[Len(o.proof) - 1] < o.size
  <2> DEFINE n == Len(leaves)
  <2>0. PICK k \in Nat : k = Len(o.proof) /\ k = Len(BuildProof(leaves, i)) /\ k >= 1
    BY <1>2, <1>7, <1>9
  <2>1. PICK m \in Nat : k = m + 1 /\ m = k - 1
    <3>1. k - 1 \in Nat /\ k = (k - 1) + 1
      BY <2>0
    <3> QED BY <3>1
  <2>2. n \in Nat /\ \A w \in 0 .. UsizeBits : n <= TwoTo[w] => m + 1 <= w
    <3>1. n \in Nat
      BY <1>4
    <3> QED BY <1>5, <2>0, <2>1, <3>1
  <2>3. m \in 0 .. UsizeBits
    <3>1. n <= USIZE /\ USIZE \in Nat
      BY <1>4, UsizeIsAPower, PowersFacts
    <3>2. UsizeBits \in 0 .. UsizeBits /\ n <= TwoTo[UsizeBits]
      BY <3>1, UsizeAssumption DEF USIZE
    <3>3. m + 1 <= UsizeBits
      BY <2>2, <3>2
    <3> QED BY <3>2, <3>3
  <2> HIDE DEF n
  <2>4. PICK p : p = TwoTo[m]
    OBVIOUS
  <2>5. p \in Nat
    BY <2>4, PowersOfTwo
  <2>6. ~(n <= p)
    <3> SUFFICES ASSUME n <= p PROVE FALSE
      OBVIOUS
    <3>1. n <= TwoTo[m]
      BY <2>4
    <3>2. m + 1 <= m
      BY <2>2, <2>3, <3>1
    <3> QED BY <2>1, <3>2
  <2>7. p < n
    BY <2>2, <2>5, <2>6
  <2> QED BY <1>8, <2>0, <2>1, <2>4, <2>7 DEF n
<1>10. Fold(LeafHash(o.path, o.content), o.index, o.size, o.proof) = TreeRoot(leaves, 1, Len(entries))
  BY <1>2, <1>3, <1>5
<1>11. ~(o.index >= USIZE) /\ ~(o.size >= USIZE) /\ ~(o.index >= o.size)
  <2>1. USIZE \in Nat /\ USIZE > 1
    BY UsizeIsAPower, PowersFacts
  <2> QED BY <1>2, <1>3, <1>4, <2>1
<1>12. VerifyOpening(TreeRoot(leaves, 1, Len(entries)), o) = Ok("verified")
  BY <1>6, <1>10, <1>11 DEF VerifyOpening, AndThen, Ok
<1> QED BY <1>2, <1>6, <1>7, <1>8, <1>9, <1>12, Zenon DEF o, leaves

(* A path and its canonical form have the same components. *)
LEMMA SameComponents ==
  ASSUME NEW path \in Seq(Nat), NEW q \in Seq(Nat), Len(q) = Len(path),
         \A i \in 1 .. Len(path) : q[i] = IF path[i] \in Separators THEN SLASH ELSE path[i]
  PROVE  Components(q) = Components(path)
<1> DEFINE n == Len(path)
           stops == {0, n + 1} \cup {i \in DOMAIN path : path[i] \in Separators}
           Next2(a, b) == a < b /\ ~\E k \in stops : a < k /\ k < b
           pairs == {p \in stops \X stops : Next2(p[1], p[2])}
<1>1. n \in Nat /\ DOMAIN path = 1 .. n /\ DOMAIN q = 1 .. n /\ Len(q) = n
  OBVIOUS
<1>2. SLASH \in Separators
  BY DEF Separators
<1>3. \A i \in 1 .. n : q[i] \in Separators <=> path[i] \in Separators
  BY <1>2
<1>4. {i \in DOMAIN q : q[i] \in Separators} = {i \in DOMAIN path : path[i] \in Separators}
  BY <1>1, <1>3
<1>5. /\ Components(path) = {SubSeq(path, p[1] + 1, p[2] - 1) : p \in pairs}
      /\ Components(q) = {SubSeq(q, p[1] + 1, p[2] - 1) : p \in pairs}
  BY <1>1, <1>4 DEF Components
<1>6. stops \subseteq 0 .. n + 1 /\ \A i \in 1 .. n : i \in stops <=> path[i] \in Separators
  BY <1>1
<1>7. \A p \in pairs : p[1] \in stops /\ p[2] \in stops /\ Next2(p[1], p[2])
  OBVIOUS
<1> HIDE DEF stops, pairs
<1>8. ASSUME NEW a \in stops, NEW b \in stops, Next2(a, b)
      PROVE  SubSeq(path, a + 1, b - 1) = SubSeq(q, a + 1, b - 1)
  <2>1. a \in 0 .. n + 1 /\ b \in 0 .. n + 1 /\ a < b
    BY <1>6, <1>8
  <2>2. ASSUME NEW i \in 1 .. n, a < i, i < b PROVE q[i] = path[i]
    <3>1. i \notin stops
      BY <1>8, <2>2
    <3>2. path[i] \notin Separators
      BY <1>6, <3>1
    <3> QED BY <3>2
  <2> DEFINE m == (b - 1) - (a + 1) + 1
  <2>3. /\ SubSeq(path, a + 1, b - 1) = [i \in 1 .. m |-> path[i + (a + 1) - 1]]
        /\ SubSeq(q, a + 1, b - 1) = [i \in 1 .. m |-> q[i + (a + 1) - 1]]
    <3>1. a + 1 \in Int /\ b - 1 \in Int /\ b - 1 <= n /\ a + 1 >= 1
      BY <1>1, <2>1
    <3>2. ASSUME NEW s \in Seq(Nat), Len(s) = n
          PROVE  SubSeq(s, a + 1, b - 1) = [i \in 1 .. m |-> s[i + (a + 1) - 1]]
      <4>1. CASE a + 1 <= b - 1
        BY <2>1, <3>1, <3>2, <4>1
      <4>2. CASE b - 1 < a + 1
        <5>1. SubSeq(s, a + 1, b - 1) = << >> /\ m = 0
          BY <2>1, <3>1, <3>2, <4>2
        <5>2. [i \in 1 .. m |-> s[i + (a + 1) - 1]] = << >>
          BY <5>1
        <5> QED BY <5>1, <5>2
      <4> QED BY <3>1, <4>1, <4>2
    <3>3. n = Len(q)
      BY <1>1
    <3> QED BY <3>2, <3>3
  <2>4. \A i \in 1 .. m : /\ i + (a + 1) - 1 \in 1 .. n
                          /\ a < i + (a + 1) - 1 /\ i + (a + 1) - 1 < b
    BY <1>1, <2>1
  <2>5. \A i \in 1 .. m : q[i + (a + 1) - 1] = path[i + (a + 1) - 1]
    BY <2>2, <2>4
  <2> QED BY <2>3, <2>5
<1> HIDE DEF Next2
<1>9. \A p \in pairs : SubSeq(path, p[1] + 1, p[2] - 1) = SubSeq(q, p[1] + 1, p[2] - 1)
  BY <1>7, <1>8
<1> DEFINE u == [p \in pairs |-> SubSeq(path, p[1] + 1, p[2] - 1)]
           v == [p \in pairs |-> SubSeq(q, p[1] + 1, p[2] - 1)]
<1>10. Components(path) = {u[p] : p \in pairs} /\ Components(q) = {v[p] : p \in pairs}
  BY <1>5
<1>11. \A p \in pairs : u[p] = v[p]
  BY <1>9
<1> HIDE DEF u, v
<1> QED BY <1>10, <1>11

LEMMA CanonicalAgain ==
  ASSUME NEW path \in Seq(Nat), CanonicalPath(path).ok
  PROVE  CanonicalPath(CanonicalPath(path).val) = Ok(CanonicalPath(path).val)
<1> DEFINE q == CanonicalPath(path).val
           bad == {<<>>, <<DOT>>, <<DOT, DOT>>}
           Form(p) == [i \in DOMAIN p |-> IF p[i] \in Separators THEN SLASH ELSE p[i]]
<1>1. q = Form(path) /\ Components(path) \cap bad = {}
  BY DEF CanonicalPath, Ok, Err
<1>2. q \in Seq(Nat) /\ BACKSLASH \notin ToSet(q)
  BY CanonicalParts
<1>3. Components(q) = Components(path)
  <2>1. /\ DOMAIN path = 1 .. Len(path) /\ Len(path) \in Nat
        /\ \A i \in 1 .. Len(path) : q[i] = IF path[i] \in Separators THEN SLASH ELSE path[i]
    BY <1>1
  <2>2. Len(q) = Len(path)
    BY <1>1, <1>2, <2>1
  <2> HIDE DEF q
  <2> QED BY <1>2, <2>1, <2>2, SameComponents
<1> HIDE DEF q
<1>4. CanonicalPath(q) = Ok(Form(q))
  BY <1>1, <1>3, Zenon DEF CanonicalPath
<1>5. CanonicalPath(q).val = q
  BY <1>2, <1>4, CanonicalIsItself DEF Ok
<1>6. Form(q) = q
  BY <1>4, <1>5 DEF Ok
<1> QED BY <1>4, <1>6, Zenon DEF q

-----------------------------------------------------------------------------
(* Openings.                                                               *)

(* A published list: what an accepted opening is, and what opens. *)
LEMMA PublishedOpenings ==
  ASSUME NEW list \in FileLists, BundleHash(list).ok
  PROVE  /\ \A o : o.path \in Seq(Nat) /\ o.index \in Nat /\ o.size \in Nat /\ Len(o.proof) \in Nat
                   /\ VerifyOpening(BundleHash(list).val, o).ok
                     => <<Parts(o.path), o.content>> \in Denotes(list)
         /\ \A path : OpenFile(list, path).ok =>
              LET o == OpenFile(list, path).val
              IN  /\ OpenFile(list, path) = Ok(o)
                  /\ o.path \in Seq(Nat) /\ o.index \in Nat /\ o.size \in Nat /\ IsSequence(o.proof)
                  /\ Len(o.proof) >= 1 => TwoTo[Len(o.proof) - 1] < o.size
                  /\ VerifyOpening(BundleHash(list).val, o) = Ok("verified")
<1>1. list \in Seq(File) /\ Len(list) <= USIZE \div 2
  BY OpeningsAssumption
<1>2. PICK entries :
        /\ Len(list) \in 1 .. USIZE \div 2
        /\ \A i \in DOMAIN list : list[i] \in File /\ Entry(list[i]).ok
        /\ SortedEntries(list) = Ok(entries)
        /\ entries \in Seq(File) /\ Len(entries) = Len(list)
        /\ \A j \in 1 .. Len(list) : \E i \in DOMAIN list : entries[j] = Entry(list[i]).val
        /\ BundleHash(list) = Ok(TreeRoot(Leaves(entries), 1, Len(list)))
  BY <1>1, PublishedList
<1>3. BundleHash(list).val = TreeRoot(Leaves(entries), 1, Len(entries))
  BY <1>2 DEF Ok
<1>4. DOMAIN entries = 1 .. Len(list) /\ Len(entries) \in 1 .. USIZE \div 2
  BY <1>2
<1>5. ASSUME NEW j \in DOMAIN entries
      PROVE  \E i \in DOMAIN list :
               /\ entries[j].content = Text(list[i].content)
               /\ entries[j].path = CanonicalPath(list[i].path).val
               /\ list[i].path \in Seq(Nat) /\ CanonicalPath(list[i].path).ok
  <2>1. PICK i \in DOMAIN list : entries[j] = Entry(list[i]).val
    BY <1>2, <1>4
  <2>2. PICK f \in File : f = list[i] /\ Entry(f).ok
    BY <1>2
  <2>3. CanonicalPath(f.path).ok /\ Entry(f).val = [path |-> CanonicalPath(f.path).val, content |-> Text(f.content)]
    BY <2>2, EntryFacts
  <2>4. f.path \in Seq(Nat)
    BY DEF File
  <2> QED BY <2>1, <2>2, <2>3, <2>4
<1>6. ASSUME NEW o, o.path \in Seq(Nat), o.index \in Nat, o.size \in Nat, Len(o.proof) \in Nat,
             VerifyOpening(BundleHash(list).val, o).ok
      PROVE  <<Parts(o.path), o.content>> \in Denotes(list)
  <2>1. VerifyOpening(TreeRoot(Leaves(entries), 1, Len(entries)), o).ok
    BY <1>3, <1>6, Zenon
  <2>2. /\ CanonicalPath(o.path).ok
        /\ \E j \in DOMAIN entries :
             entries[j].path = CanonicalPath(o.path).val /\ entries[j].content = o.content
    BY <1>2, <1>4, <1>6, <2>1, VerifiedIsEntry
  <2>3. PICK j \in DOMAIN entries :
          entries[j].path = CanonicalPath(o.path).val /\ entries[j].content = o.content
    BY <2>2
  <2>4. PICK i \in DOMAIN list :
          /\ entries[j].content = Text(list[i].content)
          /\ entries[j].path = CanonicalPath(list[i].path).val
          /\ list[i].path \in Seq(Nat) /\ CanonicalPath(list[i].path).ok
    BY <1>5
  <2>5. Parts(o.path) = Parts(list[i].path)
    <3>1. PICK p, q : p = o.path /\ q = list[i].path
      OBVIOUS
    <3>2. p \in Seq(Nat) /\ q \in Seq(Nat) /\ CanonicalPath(p).ok /\ CanonicalPath(q).ok
          /\ CanonicalPath(p).val = CanonicalPath(q).val
      BY <1>6, <2>2, <2>3, <2>4, <3>1
    <3>3. Parts(p) = Parts(q)
      BY <3>2, PartsIdentify
    <3> QED BY <3>1, <3>3
  <2>6. <<Parts(o.path), o.content>> = <<Parts(list[i].path), Text(list[i].content)>>
    BY <2>3, <2>4, <2>5
  <2> QED BY <2>6 DEF Denotes
<1>7. ASSUME NEW path, OpenFile(list, path).ok
      PROVE  LET o == OpenFile(list, path).val
             IN  /\ OpenFile(list, path) = Ok(o)
                 /\ o.path \in Seq(Nat) /\ o.index \in Nat /\ o.size \in Nat /\ IsSequence(o.proof)
                 /\ Len(o.proof) >= 1 => TwoTo[Len(o.proof) - 1] < o.size
                 /\ VerifyOpening(BundleHash(list).val, o) = Ok("verified")
  <2>1. \A j \in DOMAIN entries : CanonicalPath(entries[j].path) = Ok(entries[j].path)
    BY <1>5, CanonicalAgain
  <2>2. VerifyOpening(TreeRoot(Leaves(entries), 1, Len(entries)), OpenFile(list, path).val) = Ok("verified")
        /\ LET o == OpenFile(list, path).val
           IN  /\ OpenFile(list, path) = Ok(o)
               /\ o.path \in Seq(Nat) /\ o.index \in Nat /\ o.size \in Nat /\ IsSequence(o.proof)
               /\ Len(o.proof) >= 1 => TwoTo[Len(o.proof) - 1] < o.size
    BY <1>2, <1>4, <1>7, <2>1, OpenedVerifies
  <2> QED BY <1>3, <2>2, Zenon
<1> QED BY <1>6, <1>7

LEMMA SameImage ==
  ASSUME NEW I, NEW x, NEW J, NEW y,
         \A i \in I : \E j \in J : y[j] = x[i], \A j \in J : \E i \in I : y[j] = x[i]
  PROVE  {x[i] : i \in I} = {y[j] : j \in J}
OBVIOUS

(* One root, one set of files. *)
LEMMA RootsAndFiles ==
  ASSUME NEW list \in FileLists, BundleHash(list).ok, NEW other \in FileLists, BundleHash(other).ok
  PROVE  BundleHash(list) = BundleHash(other) <=> Denotes(list) = Denotes(other)
<1>1. /\ list \in Seq(File) /\ Len(list) <= USIZE \div 2
      /\ other \in Seq(File) /\ Len(other) <= USIZE \div 2
  BY OpeningsAssumption
<1> DEFINE A == {Entry(list[i]).val : i \in DOMAIN list}
           B == {Entry(other[i]).val : i \in DOMAIN other}
<1>2. PICK a : /\ Len(list) \in 1 .. USIZE \div 2
               /\ a \in Seq(File) /\ Len(a) = Len(list)
               /\ \A j \in 1 .. Len(list) : \E i \in DOMAIN list : a[j] = Entry(list[i]).val
               /\ \A i \in DOMAIN list : \E j \in 1 .. Len(list) : a[j] = Entry(list[i]).val
               /\ a = InPathOrder(A)
               /\ BundleHash(list) = Ok(TreeRoot(Leaves(a), 1, Len(list)))
  BY <1>1, PublishedList
<1>3. PICK b : /\ Len(other) \in 1 .. USIZE \div 2
               /\ b \in Seq(File) /\ Len(b) = Len(other)
               /\ \A j \in 1 .. Len(other) : \E i \in DOMAIN other : b[j] = Entry(other[i]).val
               /\ \A i \in DOMAIN other : \E j \in 1 .. Len(other) : b[j] = Entry(other[i]).val
               /\ b = InPathOrder(B)
               /\ BundleHash(other) = Ok(TreeRoot(Leaves(b), 1, Len(other)))
  BY <1>1, PublishedList
<1>4. Denotes(list) = Denotes(other) <=> A = B
  BY <1>1, DenotedEntries
<1>5. A = {a[j] : j \in 1 .. Len(a)} /\ B = {b[j] : j \in 1 .. Len(b)}
  <2> DEFINE x == [i \in DOMAIN list |-> Entry(list[i]).val]
             y == [i \in DOMAIN other |-> Entry(other[i]).val]
             I == DOMAIN list
             J == DOMAIN other
  <2>1. A = {x[i] : i \in I} /\ B = {y[i] : i \in J}
    OBVIOUS
  <2>2. /\ \A i \in I : x[i] = Entry(list[i]).val
        /\ \A i \in J : y[i] = Entry(other[i]).val
    OBVIOUS
  <2> HIDE DEF x, y, A, B
  <2>3. /\ \A i \in I : \E j \in 1 .. Len(a) : a[j] = x[i]
        /\ \A j \in 1 .. Len(a) : \E i \in I : a[j] = x[i]
    <3>1. \A i \in I : \E j \in 1 .. Len(list) : a[j] = Entry(list[i]).val
      BY <1>2
    <3>2. \A j \in 1 .. Len(list) : \E i \in I : a[j] = Entry(list[i]).val
      BY <1>2
    <3>3. \A i \in I : \E j \in 1 .. Len(list) : a[j] = x[i]
      BY <2>2, <3>1
    <3>4. \A j \in 1 .. Len(list) : \E i \in I : a[j] = x[i]
      BY <2>2, <3>2
    <3>5. Len(a) = Len(list)
      BY <1>2
    <3> QED BY <3>3, <3>4, <3>5, Zenon
  <2>4. /\ \A i \in J : \E j \in 1 .. Len(b) : b[j] = y[i]
        /\ \A j \in 1 .. Len(b) : \E i \in J : b[j] = y[i]
    <3>1. \A i \in J : \E j \in 1 .. Len(other) : b[j] = Entry(other[i]).val
      BY <1>3
    <3>2. \A j \in 1 .. Len(other) : \E i \in J : b[j] = Entry(other[i]).val
      BY <1>3
    <3>3. \A i \in J : \E j \in 1 .. Len(other) : b[j] = y[i]
      BY <2>2, <3>1
    <3>4. \A j \in 1 .. Len(other) : \E i \in J : b[j] = y[i]
      BY <2>2, <3>2
    <3>5. Len(b) = Len(other)
      BY <1>3
    <3> QED BY <3>3, <3>4, <3>5, Zenon
  <2> HIDE DEF I, J
  <2>5. {x[i] : i \in I} = {a[j] : j \in 1 .. Len(a)}
    BY <2>3, SameImage
  <2>6. {y[i] : i \in J} = {b[j] : j \in 1 .. Len(b)}
    BY <2>4, SameImage
  <2> QED BY <2>1, <2>5, <2>6, Zenon
<1> HIDE DEF A, B
<1>6. ASSUME A = B PROVE BundleHash(list) = BundleHash(other)
  <2>1. a = b
    BY <1>2, <1>3, <1>6, Zenon
  <2>2. Len(list) = Len(other)
    BY <1>2, <1>3, <2>1, Zenon
  <2> QED BY <1>2, <1>3, <2>1, <2>2, Zenon
<1>7. ASSUME BundleHash(list) = BundleHash(other) PROVE A = B
  <2>1. /\ Len(Leaves(a)) = Len(a) /\ Len(Leaves(b)) = Len(b)
        /\ \A j \in 1 .. Len(a) : Leaves(a)[j] = LeafHash(a[j].path, a[j].content)
        /\ \A j \in 1 .. Len(b) : Leaves(b)[j] = LeafHash(b[j].path, b[j].content)
        /\ \A j \in 1 .. Len(a) : \E p, c : Leaves(a)[j] = LeafHash(p, c)
        /\ \A j \in 1 .. Len(b) : \E p, c : Leaves(b)[j] = LeafHash(p, c)
    BY <1>2, <1>3, EntryLeaves
  <2>2. TreeRoot(Leaves(a), 1, Len(Leaves(a))) = TreeRoot(Leaves(b), 1, Len(Leaves(b)))
    <3>1. Ok(TreeRoot(Leaves(a), 1, Len(Leaves(a)))) = Ok(TreeRoot(Leaves(b), 1, Len(Leaves(b))))
      BY <1>2, <1>3, <1>7, <2>1, Zenon
    <3>2. \A x, y : Ok(x) = Ok(y) => x = y
      BY DEF Ok
    <3> QED BY <3>1, <3>2
  <2>3. Len(a) = Len(b) /\ \A j \in 1 .. Len(a) : Leaves(a)[j] = Leaves(b)[j]
    <3> DEFINE u == Leaves(a)
               v == Leaves(b)
    <3>1. /\ Len(u) \in 1 .. USIZE \div 2 /\ Len(v) \in 1 .. USIZE \div 2
          /\ \A j \in 1 .. Len(u) : \E p, c : u[j] = LeafHash(p, c)
          /\ \A j \in 1 .. Len(v) : \E p, c : v[j] = LeafHash(p, c)
          /\ TreeRoot(u, 1, Len(u)) = TreeRoot(v, 1, Len(v))
      BY <1>2, <1>3, <2>1, <2>2
    <3> HIDE DEF u, v
    <3>2. Len(u) = Len(v) /\ \A j \in 1 .. Len(u) : u[j] = v[j]
      BY <3>1, RootsIdentifyLeaves
    <3> QED BY <2>1, <3>2 DEF u, v
  <2>4. ASSUME NEW j \in 1 .. Len(a) PROVE a[j] = b[j]
    <3>1. a[j] \in File /\ b[j] \in File
      <4>1. \A s \in Seq(File) : \A k \in 1 .. Len(s) : s[k] \in File
        OBVIOUS
      <4>2. j \in 1 .. Len(b)
        BY <2>3
      <4> QED BY <1>2, <1>3, <4>1, <4>2, Zenon
    <3>2. LeafHash(a[j].path, a[j].content) = LeafHash(b[j].path, b[j].content)
      BY <2>1, <2>3
    <3>3. \A f, g \in File : f.path = g.path /\ f.content = g.content => f = g
      BY DEF File
    <3> QED BY <3>1, <3>2, <3>3, HashesAreFree
  <2> QED BY <1>5, <2>3, <2>4
<1> QED BY <1>4, <1>6, <1>7

(* The fields of an opening that verify_opening reads have their types. *)
Readable(o) ==
  o.path \in Seq(Nat) /\ o.index \in Nat /\ o.size \in Nat /\ Len(o.proof) \in Nat

(***************************************************************************)
(* What the steps of publication, opening and delivery leave behind: the   *)
(* root is that of the list, what is sent was opened from it, what arrives *)
(* can be read, and the verdict was made of what arrived.                  *)
(***************************************************************************)
OpeningsInv ==
  /\ offered \in FileLists
  /\ published = None \/ published = BundleHash(offered)
  /\ sent = None \/ (published.ok /\ \E path : sent = OpenFile(offered, path))
  /\ arrived = None \/ (sent.ok /\ arrived.ok /\ Readable(arrived.val))
  /\ verdict = None \/ (arrived.ok /\ verdict = VerifyOpening(published.val, Opening))

(* Every alteration leaves the fields readable. *)
LEMMA AlteredReadable ==
  ASSUME offered \in FileLists, NEW o, IsSequence(o.proof), NEW q \in Altered(o)
  PROVE  Readable(q)
<1> DEFINE n == Len(o.proof)
           siblings == SubtreeHashes
           shortened == {SubSeq(o.proof, 1, m) : m \in 0 .. n} \cup {SubSeq(o.proof, m, n) : m \in 1 .. n}
           replaced == {[o.proof EXCEPT ![i] = h] : i \in 1 .. n, h \in siblings}
           extended == {Append(o.proof, h) : h \in siblings}
           values == Channel(offered)
<1>1. q.path \in values.paths /\ q.index \in values.sizes /\ q.size \in values.sizes
      /\ q.proof \in shortened \cup replaced \cup extended
  BY DEF Altered
<1>2. values.paths \subseteq Seq(Nat) /\ values.sizes \subseteq Nat
  BY OpeningsAssumption
<1>3. PICK S : o.proof \in Seq(S)
  BY DEF IsSequence
<1>4. n \in Nat
  BY <1>3
<1>5. ASSUME NEW m \in 0 .. n PROVE Len(SubSeq(o.proof, 1, m)) \in Nat
  BY <1>3, <1>4
<1>6. ASSUME NEW m \in 1 .. n PROVE Len(SubSeq(o.proof, m, n)) \in Nat
  BY <1>3, <1>4
<1>7. ASSUME NEW i \in 1 .. n, NEW h PROVE Len([o.proof EXCEPT ![i] = h]) \in Nat
  BY <1>3, <1>4
<1>8. ASSUME NEW h PROVE Len(Append(o.proof, h)) \in Nat
  BY AppendReads, SequenceReads
<1>9. Len(q.proof) \in Nat
  <2>1. CASE q.proof \in shortened
    BY <1>5, <1>6, <2>1
  <2>2. CASE q.proof \in replaced
    BY <1>7, <2>2
  <2>3. CASE q.proof \in extended
    BY <1>8, <2>3
  <2> HIDE DEF shortened, replaced, extended
  <2> QED BY <1>1, <2>1, <2>2, <2>3
<1> QED BY <1>1, <1>2, <1>9 DEF Readable

LEMMA OpeningsStart == OpeningsInit => OpeningsInv
BY DEF OpeningsInit, OpeningsInv

LEMMA OpenedIsReadable ==
  ASSUME OpeningsInv, sent.ok
  PROVE  /\ BundleHash(offered).ok /\ published = BundleHash(offered)
         /\ sent = Ok(sent.val) /\ IsSequence(sent.val.proof) /\ Readable(sent.val)
         /\ Len(sent.val.proof) >= 1 => TwoTo[Len(sent.val.proof) - 1] < sent.val.size
         /\ VerifyOpening(published.val, sent.val) = Ok("verified")
<1>1. offered \in FileLists /\ published = BundleHash(offered) /\ BundleHash(offered).ok
  BY DEF OpeningsInv, None, Err
<1>2. PICK path : sent = OpenFile(offered, path)
  BY DEF OpeningsInv, None, Err
<1>3. /\ OpenFile(offered, path) = Ok(sent.val)
      /\ sent.val.path \in Seq(Nat) /\ sent.val.index \in Nat /\ sent.val.size \in Nat
      /\ IsSequence(sent.val.proof)
      /\ Len(sent.val.proof) >= 1 => TwoTo[Len(sent.val.proof) - 1] < sent.val.size
      /\ VerifyOpening(BundleHash(offered).val, sent.val) = Ok("verified")
  BY <1>1, <1>2, PublishedOpenings
<1>4. Len(sent.val.proof) \in Nat
  BY <1>3, SequenceReads
<1> QED BY <1>1, <1>2, <1>3, <1>4, Zenon DEF Readable

LEMMA OpeningsStep == OpeningsInv /\ [OpeningsNext]_openingVars => OpeningsInv'
<1> SUFFICES ASSUME OpeningsInv, [OpeningsNext]_openingVars PROVE OpeningsInv'
  OBVIOUS
<1>1. CASE Publish
  BY <1>1 DEF Publish, OpeningsInv, None, Err, Opening
<1>2. ASSUME NEW path \in Channel(offered).asked, Open(path) PROVE OpeningsInv'
  <2>1. /\ published.ok /\ sent = None /\ sent' = OpenFile(offered, path)
        /\ UNCHANGED <<offered, published, arrived, verdict>>
    BY <1>2 DEF Open
  <2>2. arrived = None /\ verdict = None
    BY <2>1 DEF OpeningsInv, None, Err
  <2> QED BY <2>1, <2>2 DEF OpeningsInv
<1>3. CASE Deliver
  <2>1. sent.ok /\ arrived = None /\ arrived' = sent /\ UNCHANGED <<offered, published, sent, verdict>>
    BY <1>3 DEF Deliver
  <2>2. verdict = None
    BY <2>1 DEF OpeningsInv, None, Err
  <2>3. Readable(sent.val)
    BY <2>1, OpenedIsReadable
  <2>4. arrived'.ok /\ Readable(arrived'.val)
    BY <2>1, <2>3
  <2> QED BY <2>1, <2>2, <2>4 DEF OpeningsInv
<1>4. CASE DeliverAltered
  <2>1. /\ sent.ok /\ arrived = None /\ UNCHANGED <<offered, published, sent, verdict>>
        /\ \E o \in Altered(sent.val) : arrived' = Ok(o)
    BY <1>4 DEF DeliverAltered
  <2>2. verdict = None
    BY <2>1 DEF OpeningsInv, None, Err
  <2>3. PICK o \in Altered(sent.val) : arrived' = Ok(o)
    BY <2>1
  <2>4. Readable(o)
    BY <2>1, OpenedIsReadable, AlteredReadable DEF OpeningsInv
  <2>5. arrived'.ok /\ Readable(arrived'.val)
    BY <2>3, <2>4 DEF Ok
  <2> QED BY <2>1, <2>2, <2>5 DEF OpeningsInv
<1>5. CASE Verify
  BY <1>5 DEF Verify, OpeningsInv, Opening
<1>6. CASE UNCHANGED openingVars
  BY <1>6 DEF openingVars, OpeningsInv, Opening
<1> QED BY <1>1, <1>2, <1>3, <1>4, <1>5, <1>6 DEF OpeningsNext

THEOREM OpeningsInvariant == OpeningsSpec => []OpeningsInv
BY OpeningsStart, OpeningsStep, PTL DEF OpeningsSpec

(***************************************************************************)
(* Whatever arrives, an accepted opening names a file of the published     *)
(* list and carries its text, for lists and proofs of every length         *)
(* (bundle.rs:426-439).                                                    *)
(***************************************************************************)
THEOREM AcceptedAreFiles == OpeningsSpec => []AcceptedFilesArePublished
<1>1. OpeningsInv => AcceptedFilesArePublished
  <2> SUFFICES ASSUME OpeningsInv, verdict.ok
               PROVE  <<Parts(Opening.path), Opening.content>> \in Denotes(offered)
    BY DEF AcceptedFilesArePublished, Accepted
  <2>1. arrived.ok /\ verdict = VerifyOpening(published.val, Opening)
    BY DEF OpeningsInv, None, Err
  <2>2. sent.ok /\ Readable(Opening)
    BY <2>1 DEF OpeningsInv, None, Err, Opening
  <2>3. offered \in FileLists /\ BundleHash(offered).ok /\ published = BundleHash(offered)
    BY <2>2, OpenedIsReadable DEF OpeningsInv
  <2> QED BY <2>1, <2>2, <2>3, PublishedOpenings DEF Readable
<1> QED BY <1>1, OpeningsInvariant, PTL

(***************************************************************************)
(* An opening that arrives as open_file returned it is accepted, for every *)
(* file of every list (bundle.rs:374-401).                                 *)
(***************************************************************************)
THEOREM HonestAreAccepted == OpeningsSpec => []HonestOpeningsVerify
<1>1. OpeningsInv => HonestOpeningsVerify
  <2> SUFFICES ASSUME OpeningsInv, verdict # None, arrived = sent PROVE verdict.ok
    BY DEF HonestOpeningsVerify, Accepted
  <2>1. sent.ok /\ verdict = VerifyOpening(published.val, sent.val)
    BY DEF OpeningsInv, Opening
  <2>2. verdict = Ok("verified")
    BY <2>1, OpenedIsReadable
  <2> QED BY <2>2 DEF Ok
<1> QED BY <1>1, OpeningsInvariant, PTL

(***************************************************************************)
(* A proof has no more siblings than the logarithm of the size, rounded up *)
(* (bundle.rs:645-646).                                                    *)
(***************************************************************************)
THEOREM ProofsStayShort == OpeningsSpec => []ProofsAreShort
<1>1. OpeningsInv => ProofsAreShort
  <2> SUFFICES ASSUME OpeningsInv, sent.ok, sent.val.proof # <<>>
               PROVE  TwoTo[Len(sent.val.proof) - 1] < sent.val.size
    BY DEF ProofsAreShort
  <2>1. /\ IsSequence(sent.val.proof)
        /\ Len(sent.val.proof) >= 1 => TwoTo[Len(sent.val.proof) - 1] < sent.val.size
    BY OpenedIsReadable
  <2>2. Len(sent.val.proof) >= 1
    <3>1. PICK S : sent.val.proof \in Seq(S)
      BY <2>1 DEF IsSequence
    <3> QED BY <3>1
  <2> QED BY <2>1, <2>2
<1> QED BY <1>1, OpeningsInvariant, PTL

(***************************************************************************)
(* A root is that of one set of files: of the lists offered, those of that *)
(* root are those that stand for the same files (bundle.rs:3-8).           *)
(***************************************************************************)
THEOREM RootsIdentifyFiles == OpeningsSpec => []RootIdentifiesTheFiles
<1>1. OpeningsInv => RootIdentifiesTheFiles
  <2> SUFFICES ASSUME OpeningsInv, published.ok, NEW other \in FileLists, BundleHash(other).ok
               PROVE  BundleHash(other) = published <=> Denotes(other) = Denotes(offered)
    BY DEF RootIdentifiesTheFiles
  <2>1. offered \in FileLists /\ published = BundleHash(offered) /\ BundleHash(offered).ok
    BY DEF OpeningsInv, None, Err
  <2> QED BY <2>1, RootsAndFiles
<1> QED BY <1>1, OpeningsInvariant, PTL

-----------------------------------------------------------------------------
(* Published bundles.                                                      *)

(* The files of a bundle have their own paths, and are its entries. *)
LEMMA BundleFiles ==
  ASSUME NEW files \in Bundles
  PROVE  /\ files \in Seq(File) /\ Len(files) \in 1 .. USIZE \div 2
         /\ \A i, j \in DOMAIN files : files[i].path = files[j].path => i = j
         /\ \A i \in DOMAIN files : CanonicalPath(files[i].path).ok
         /\ BundleHash(files) = Ok(TreeRoot(Leaves(files), 1, Len(files)))
<1> DEFINE entries == [i \in DOMAIN files |-> Entry(files[i])]
           failed == {i \in DOMAIN files : ~entries[i].ok}
           family == [i \in 1 .. Len(files) |-> entries[i].val.path]
           paths == {entries[i].val.path : i \in DOMAIN files}
<1>1. files \in Seq(File) /\ SortedEntries(files) = Ok(files) /\ Len(files) <= USIZE \div 2
  BY GuestAssumption
<1>2. SortedEntries(files).ok
  BY <1>1 DEF Ok
<1>3. files # <<>>
  BY <1>2 DEF SortedEntries, Err
<1>4. DOMAIN files = 1 .. Len(files) /\ Len(files) \in Nat \ {0}
  BY <1>1, <1>3
<1>5. failed = {}
  <2> SUFFICES ASSUME failed # {} PROVE FALSE
    OBVIOUS
  <2>1. SortedEntries(files) = entries[CHOOSE i \in failed : \A j \in failed : i <= j]
    BY <1>3 DEF SortedEntries
  <2>2. failed \in SUBSET Nat
    BY <1>4
  <2>3. PICK k \in failed : \A j \in failed : k <= j
    <3> HIDE DEF failed
    <3> QED BY <2>2, LeastNatural
  <2>4. (CHOOSE i \in failed : \A j \in failed : i <= j) \in failed
    <3> HIDE DEF failed
    <3> QED BY <2>3
  <2> QED BY <1>2, <2>1, <2>4
<1>6. ~(Cardinality(paths) < Len(files))
  BY <1>2, <1>3, <1>5 DEF SortedEntries, Err
<1>7. paths = {family[i] : i \in 1 .. Len(files)}
  BY <1>4
<1>8. ASSUME NEW i \in DOMAIN files, NEW j \in DOMAIN files, files[i].path = files[j].path, i # j
      PROVE  FALSE
  <2>1. /\ entries[i].val.path = CanonicalPath(files[i].path).val
        /\ entries[j].val.path = CanonicalPath(files[j].path).val
    BY <1>5, EntryPath
  <2>2. family[i] = family[j]
    BY <1>4, <1>8, <2>1
  <2> HIDE DEF family, paths
  <2> QED BY <1>4, <1>6, <1>7, <1>8, <2>2, FamilyWithDuplicate
<1>9. BundleHash(files) = Ok(TreeRoot(Leaves(files), 1, Len(files)))
  BY <1>1 DEF BundleHash, AndThen, Ok
<1>10. \A i \in DOMAIN files : CanonicalPath(files[i].path).ok
  <2> SUFFICES ASSUME NEW i \in DOMAIN files PROVE CanonicalPath(files[i].path).ok
    OBVIOUS
  <2>1. Entry(files[i]).ok
    BY <1>5
  <2> QED BY <2>1, EntryPath
<1> QED BY <1>1, <1>4, <1>8, <1>9, <1>10

-----------------------------------------------------------------------------
(* Openings.                                                               *)

(* What is read of a file is a file of the bundle, under its own name. *)
IsFileOf(file, files) ==
  /\ CanonicalPath(file.path).ok
  /\ \E j \in DOMAIN files :
       files[j].path = CanonicalPath(file.path).val /\ files[j].content = file.content

LEMMA VerifiedIsPublished ==
  ASSUME NEW files \in Bundles, NEW o \in Carried, VerifyOpening(BundleHash(files).val, o).ok
  PROVE  IsFileOf(o, files)
<1>1. files \in Seq(File) /\ Len(files) \in 1 .. USIZE \div 2
  BY BundleFiles
<1>2. o.index \in Nat /\ o.size \in Nat /\ Len(o.proof) \in Nat
  BY GuestAssumption
<1>3. VerifyOpening(TreeRoot(Leaves(files), 1, Len(files)), o).ok
  BY BundleFiles DEF Ok
<1>4. /\ CanonicalPath(o.path).ok
      /\ \E j \in DOMAIN files :
           files[j].path = CanonicalPath(o.path).val /\ files[j].content = o.content
  BY <1>1, <1>2, <1>3, VerifiedIsEntry
<1> QED BY <1>4 DEF IsFileOf

(***************************************************************************)
(* Two published bundles of the same root are the same files: a journal    *)
(* that holds a root leaves no doubt which bundle it means, whatever the   *)
(* sizes of the two (bundle.rs:3-8).                                       *)
(***************************************************************************)
THEOREM RootIdentifiesBundle ==
  ASSUME NEW files \in Bundles, NEW other \in Bundles, BundleHash(files) = BundleHash(other)
  PROVE  files = other
<1>1. PICK a, b : a = Leaves(files) /\ b = Leaves(other)
  OBVIOUS
<1>2. /\ Len(a) = Len(files) /\ Len(b) = Len(other)
      /\ Len(files) \in 1 .. USIZE \div 2 /\ Len(other) \in 1 .. USIZE \div 2
      /\ \A j \in 1 .. Len(files) : a[j] = LeafHash(files[j].path, files[j].content)
      /\ \A j \in 1 .. Len(other) : b[j] = LeafHash(other[j].path, other[j].content)
  BY <1>1, BundleFiles, EntryLeaves
<1>3. TreeRoot(a, 1, Len(a)) = TreeRoot(b, 1, Len(b))
  <2>1. /\ BundleHash(files) = Ok(TreeRoot(a, 1, Len(a)))
        /\ BundleHash(other) = Ok(TreeRoot(b, 1, Len(b)))
    BY <1>1, <1>2, BundleFiles
  <2>2. Ok(TreeRoot(a, 1, Len(a))) = Ok(TreeRoot(b, 1, Len(b)))
    BY <2>1, Zenon
  <2>3. \A x, y : Ok(x) = Ok(y) => x = y
    BY DEF Ok
  <2> QED BY <2>2, <2>3
<1>4. /\ \A j \in 1 .. Len(a) : \E p, c : a[j] = LeafHash(p, c)
      /\ \A j \in 1 .. Len(b) : \E p, c : b[j] = LeafHash(p, c)
  BY <1>2
<1>5. Len(a) \in 1 .. USIZE \div 2 /\ Len(b) \in 1 .. USIZE \div 2
  BY <1>2
<1>6. Len(a) = Len(b) /\ \A j \in 1 .. Len(a) : a[j] = b[j]
  BY <1>3, <1>4, <1>5, RootsIdentifyLeaves
<1>7. ASSUME NEW j \in 1 .. Len(files)
      PROVE  files[j].path = other[j].path /\ files[j].content = other[j].content
  <2>1. LeafHash(files[j].path, files[j].content) = LeafHash(other[j].path, other[j].content)
    BY <1>2, <1>6
  <2> QED BY <2>1 DEF LeafHash
<1>8. files \in Seq(File) /\ other \in Seq(File) /\ Len(files) = Len(other)
  BY <1>2, <1>6, BundleFiles
<1>9. ASSUME NEW j \in 1 .. Len(files) PROVE files[j] = other[j]
  <2>1. files[j] \in File /\ other[j] \in File
    BY <1>8
  <2>2. \A f, g \in File : f.path = g.path /\ f.content = g.content => f = g
    BY DEF File
  <2> QED BY <1>7, <2>1, <2>2
<1> QED BY <1>8, <1>9

(***************************************************************************)
(* An opening of any file of any published bundle verifies against the     *)
(* bundle's root: a host that holds the bundle can always give the guest   *)
(* what its rule reads (bundle.rs:374-401, 426-439).                       *)
(***************************************************************************)
THEOREM PublishedFilesOpen ==
  ASSUME NEW files \in Bundles, NEW path, OpenFile(files, path).ok
  PROVE  VerifyOpening(BundleHash(files).val, OpenFile(files, path).val).ok
<1>1. files \in Seq(File) /\ Len(files) \in 1 .. USIZE \div 2 /\ Len(files) <= USIZE \div 2
      /\ BundleHash(files) = Ok(TreeRoot(Leaves(files), 1, Len(files)))
  BY BundleFiles, GuestAssumption
<1>2. SortedEntries(files) = Ok(files) /\ SortedEntries(files).val = files /\ BundleHash(files).ok
  BY <1>1, GuestAssumption DEF Ok
<1>3. DOMAIN files = 1 .. Len(files)
  BY <1>1
<1>4. ASSUME NEW j \in DOMAIN files PROVE CanonicalPath(files[j].path) = Ok(files[j].path)
  <2>1. PICK i \in DOMAIN files : files[j] = Entry(files[i]).val /\ files[i] \in File /\ Entry(files[i]).ok
    <3>1. PICK entries : entries = SortedEntries(files).val
      OBVIOUS
    <3>2. /\ \A i \in DOMAIN files : files[i] \in File /\ Entry(files[i]).ok
          /\ \A k \in 1 .. Len(files) : \E i \in DOMAIN files : entries[k] = Entry(files[i]).val
      BY <1>1, <1>2, <3>1, PublishedList
    <3>3. entries = files
      BY <1>2, <3>1
    <3> QED BY <1>3, <3>2, <3>3
  <2>2. PICK f \in File : f = files[i] /\ Entry(f).ok
    BY <2>1
  <2>3. CanonicalPath(f.path).ok /\ Entry(f).val.path = CanonicalPath(f.path).val
    BY <2>2, EntryPath
  <2>4. f.path \in Seq(Nat)
    BY DEF File
  <2>5. files[j].path = CanonicalPath(f.path).val
    BY <2>1, <2>2, <2>3
  <2> QED BY <2>3, <2>4, <2>5, CanonicalAgain
<1>5. VerifyOpening(TreeRoot(Leaves(files), 1, Len(files)), OpenFile(files, path).val) = Ok("verified")
  BY <1>1, <1>2, <1>4, OpenedVerifies
<1> QED BY <1>1, <1>5 DEF Ok

(* The path of a table is determined by its name. *)
LEMMA TablePaths ==
  ASSUME NEW path \in Seq(Nat), IsTablePath(path)
  PROVE  /\ path = <<PARAMETERS, SLASH>> \o TableName(path)
         /\ BACKSLASH \notin ToSet(TableName(path)) => BACKSLASH \notin ToSet(path)
<1> DEFINE name == TableName(path)
<1>1. Len(path) \in Nat /\ Len(path) > 2 /\ path[1] = PARAMETERS /\ path[2] = SLASH
  BY DEF IsTablePath
<1>2. name = [i \in 1 .. Len(path) - 2 |-> path[i + 2]]
  BY <1>1 DEF TableName
<1>3. /\ Len(name) = Len(path) - 2 /\ name \in Seq(Nat)
      /\ \A i \in 1 .. Len(name) : name[i] = path[i + 2]
  BY <1>1, <1>2
<1> HIDE DEF name
<1>4. path = <<PARAMETERS, SLASH>> \o name
  <2> DEFINE joined == <<PARAMETERS, SLASH>> \o name
  <2>1. <<PARAMETERS, SLASH>> \in Seq(Nat)
    BY DEF PARAMETERS, SLASH
  <2>2. /\ joined \in Seq(Nat) /\ Len(joined) = 2 + Len(name)
        /\ joined[1] = PARAMETERS /\ joined[2] = SLASH
        /\ \A i \in 1 .. Len(name) : joined[i + 2] = name[i]
    BY <1>3, <2>1
  <2> HIDE DEF joined
  <2>3. ASSUME NEW i \in 1 .. Len(path) PROVE path[i] = joined[i]
    <3>1. CASE i = 1 \/ i = 2
      BY <1>1, <2>2, <3>1
    <3>2. CASE i > 2
      <4>1. i - 2 \in 1 .. Len(name) /\ (i - 2) + 2 = i
        BY <1>3, <3>2
      <4>2. name[i - 2] = path[i] /\ joined[i] = name[i - 2]
        BY <1>3, <2>2, <4>1
      <4> QED BY <4>2
    <3> QED BY <3>1, <3>2
  <2>4. path = joined
    <3>1. /\ Len(path) = Len(joined) /\ joined \in Seq(Nat) /\ path \in Seq(Nat)
          /\ \A i \in 1 .. Len(path) : path[i] = joined[i]
      BY <1>1, <1>3, <2>2, <2>3
    <3> QED BY <3>1, SeqEqual, Zenon
  <2> QED BY <2>4 DEF joined
<1>5. BACKSLASH \notin ToSet(name) => BACKSLASH \notin ToSet(path)
  <2> SUFFICES ASSUME NEW i \in 1 .. Len(path), path[i] = BACKSLASH
               PROVE  \E k \in DOMAIN name : name[k] = BACKSLASH
    BY DEF ToSet
  <2>1. i # 1 /\ i # 2
    BY <1>1 DEF PARAMETERS, SLASH, BACKSLASH
  <2>2. i - 2 \in DOMAIN name /\ name[i - 2] = path[i]
    <3>1. i - 2 \in 1 .. Len(name) /\ (i - 2) + 2 = i
      BY <1>1, <1>3, <2>1
    <3> QED BY <1>3, <3>1
  <2> QED BY <2>2
<1> QED BY <1>4, <1>5 DEF name

LEMMA MaxOfPositions ==
  ASSUME NEW n \in Nat, NEW S \in SUBSET (1 .. n), S # {}
  PROVE  Max(S) \in S
<1> DEFINE T == {n - i : i \in S}
<1>1. T \in SUBSET Nat /\ T # {}
  <2>1. \A i \in S : i \in 1 .. n /\ n - i \in Nat
    OBVIOUS
  <2> QED BY <2>1
<1>2. PICK k \in T : \A m \in T : k <= m
  <2> HIDE DEF T
  <2> QED BY <1>1, LeastNatural
<1>3. PICK i \in S : k = n - i
  OBVIOUS
<1>4. \A j \in S : i >= j
  BY <1>2, <1>3
<1> QED BY <1>4 DEF Max

LEMMA MinOfPositions ==
  ASSUME NEW n \in Nat, NEW S \in SUBSET (1 .. n), S # {}
  PROVE  Min(S) \in S
<1>1. PICK i \in S : \A j \in S : i <= j
  BY LeastNatural
<1> QED BY <1>1 DEF Min

(* A table is one of the files of its name. *)
LEMMA TablesAreFiles ==
  ASSUME NEW files, DOMAIN files = 1 .. Len(files), Len(files) \in Nat,
         NEW name
  PROVE  LET named == {i \in DOMAIN files : IsTablePath(files[i].path) /\ TableName(files[i].path) = name}
         IN  /\ name \in DOMAIN CollectTables(files) <=> named # {}
             /\ named # {} => \E i \in named : CollectTables(files)[name] = files[i].content
<1> DEFINE tables == {i \in DOMAIN files : IsTablePath(files[i].path)}
           named == {i \in DOMAIN files : IsTablePath(files[i].path) /\ TableName(files[i].path) = name}
           chosen == {i \in tables : TableName(files[i].path) = name}
<1>1. chosen = named
  OBVIOUS
<1>2. name \in DOMAIN CollectTables(files) <=> name \in {TableName(files[i].path) : i \in tables}
  BY DEF CollectTables
<1>3. name \in DOMAIN CollectTables(files) => CollectTables(files)[name] = files[Max(chosen)].content
  BY DEF CollectTables
<1>4. named # {} => Max(named) \in named
  BY MaxOfPositions
<1> QED BY <1>1, <1>2, <1>3, <1>4

(* What a list of files opened from a bundle builds is part of what the    *)
(* whole bundle builds.                                                    *)
LEMMA OpenedIsPart ==
  ASSUME NEW files \in Bundles,
         NEW opened, DOMAIN opened = 1 .. Len(opened), Len(opened) \in Nat,
         \A i \in DOMAIN opened : opened[i].path \in Seq(Nat) /\ IsFileOf(opened[i], files),
         FromFiles(opened).ok
  PROVE  LET part == FromFiles(opened).val
             whole == FromFiles(files)
         IN  /\ whole.ok /\ part.rules = whole.val.rules /\ part.rules \in DOMAIN Programs
             /\ whole.val.tables = CollectTables(files) /\ part.tables = CollectTables(opened)
             /\ \A name \in DOMAIN part.tables : BACKSLASH \notin ToSet(name) =>
                  /\ name \in DOMAIN whole.val.tables
                  /\ part.tables[name] = whole.val.tables[name]
<1> DEFINE RulesOf(list) == {i \in DOMAIN list : list[i].path = RULES}
           text == opened[Min(RulesOf(opened))].content
<1>1. /\ DOMAIN files = 1 .. Len(files) /\ Len(files) \in Nat
      /\ \A j \in DOMAIN files : files[j].path \in Seq(Nat)
      /\ \A i, j \in DOMAIN files : files[i].path = files[j].path => i = j
  <2>1. /\ files \in Seq(File) /\ Len(files) \in Nat
        /\ \A i, j \in DOMAIN files : files[i].path = files[j].path => i = j
    BY BundleFiles
  <2>2. DOMAIN files = 1 .. Len(files) /\ \A j \in DOMAIN files : files[j] \in File
    BY <2>1
  <2>3. \A file \in File : file.path \in Seq(Nat)
    BY DEF File
  <2> QED BY <2>1, <2>2, <2>3
<1>2. ASSUME NEW i \in DOMAIN opened, BACKSLASH \notin ToSet(opened[i].path)
      PROVE  \E j \in DOMAIN files :
               files[j].path = opened[i].path /\ files[j].content = opened[i].content
  BY <1>2, CanonicalIsItself DEF IsFileOf
<1>3. /\ RulesOf(opened) # {} /\ text \in DOMAIN Programs
      /\ FromFiles(opened).val = [rules |-> text, tables |-> CollectTables(opened)]
  BY DEF FromFiles, Ok, Err
<1>4. Min(RulesOf(opened)) \in RulesOf(opened)
  BY <1>3, MinOfPositions
<1>5. PICK r \in DOMAIN files : files[r].path = RULES /\ files[r].content = text
  <2>1. BACKSLASH \notin ToSet(RULES)
    BY DEF ToSet, RULES, BACKSLASH
  <2> QED BY <1>2, <1>4, <2>1
<1>6. /\ FromFiles(files).ok
      /\ FromFiles(files).val = [rules |-> text, tables |-> CollectTables(files)]
  <2>1. RulesOf(files) = {r}
    BY <1>1, <1>5
  <2>2. Min(RulesOf(files)) = r
    BY <1>1, <2>1, MinOfPositions
  <2>3. files[Min(RulesOf(files))].content \in DOMAIN Programs /\ RulesOf(files) # {}
    BY <1>3, <1>5, <2>1, <2>2
  <2> QED BY <1>5, <2>2, <2>3 DEF FromFiles, Ok
<1>7. ASSUME NEW name \in DOMAIN CollectTables(opened), BACKSLASH \notin ToSet(name)
      PROVE  /\ name \in DOMAIN CollectTables(files)
             /\ CollectTables(opened)[name] = CollectTables(files)[name]
  <2>1. PICK i \in DOMAIN opened :
          /\ IsTablePath(opened[i].path) /\ TableName(opened[i].path) = name
          /\ CollectTables(opened)[name] = opened[i].content
    BY TablesAreFiles
  <2>2. BACKSLASH \notin ToSet(opened[i].path)
    BY <1>7, <2>1, TablePaths
  <2>3. PICK j \in DOMAIN files :
          files[j].path = opened[i].path /\ files[j].content = opened[i].content
    BY <1>2, <2>2
  <2> DEFINE named == {k \in DOMAIN files : IsTablePath(files[k].path) /\ TableName(files[k].path) = name}
  <2>4. j \in named
    BY <2>1, <2>3
  <2>5. \A k \in named : k = j
    <3> SUFFICES ASSUME NEW k \in named PROVE k = j
      OBVIOUS
    <3>1. files[k].path = <<PARAMETERS, SLASH>> \o name
      BY <1>1, TablePaths
    <3>2. files[j].path = <<PARAMETERS, SLASH>> \o name
      BY <1>1, <2>4, TablePaths
    <3> QED BY <1>1, <3>1, <3>2
  <2>6. /\ name \in DOMAIN CollectTables(files)
        /\ \E k \in named : CollectTables(files)[name] = files[k].content
    <3> HIDE DEF named
    <3>1. named # {}
      BY <2>4
    <3> QED BY <1>1, <3>1, TablesAreFiles DEF named
  <2> QED BY <2>1, <2>3, <2>5, <2>6
<1> QED BY <1>3, <1>6, <1>7

-----------------------------------------------------------------------------
(* The journal.                                                            *)

(* Concatenation, under a name the steps below leave unexpanded. *)
Cat(s, t) == s \o t

LEMMA SameSequence ==
  ASSUME NEW s, NEW t, IsSequence(s), IsSequence(t), Len(s) = Len(t),
         \A i \in 1 .. Len(s) : s[i] = t[i]
  PROVE  s = t
<1>1. s = [i \in 1 .. Len(s) |-> s[i]] /\ t = [i \in 1 .. Len(s) |-> t[i]]
  BY SequenceReads
<1>2. [i \in 1 .. Len(s) |-> s[i]] = [i \in 1 .. Len(s) |-> t[i]]
  OBVIOUS
<1> QED BY <1>1, <1>2

LEMMA CatReads ==
  ASSUME NEW s, NEW t, IsSequence(s), IsSequence(t)
  PROVE  /\ IsSequence(Cat(s, t)) /\ Len(Cat(s, t)) = Len(s) + Len(t)
         /\ \A i \in 1 .. Len(s) : Cat(s, t)[i] = s[i]
         /\ \A i \in 1 .. Len(t) : Cat(s, t)[i + Len(s)] = t[i]
<1>1. PICK A : s \in Seq(A) /\ t \in Seq(A)
  <2>1. PICK B, C : s \in Seq(B) /\ t \in Seq(C)
    BY DEF IsSequence
  <2>2. B \subseteq B \cup C /\ C \subseteq B \cup C
    OBVIOUS
  <2>3. s \in Seq(B \cup C) /\ t \in Seq(B \cup C)
    BY <2>1, <2>2, SeqMonotonic
  <2> QED BY <2>3
<1>2. Len(s) \in Nat /\ Len(t) \in Nat
  BY <1>1
<1>3. /\ s \o t \in Seq(A) /\ Len(s \o t) = Len(s) + Len(t)
      /\ \A i \in 1 .. Len(s) + Len(t) : (s \o t)[i] = IF i <= Len(s) THEN s[i] ELSE t[i - Len(s)]
  BY <1>1, ConcatProperties
<1>4. ASSUME NEW i \in 1 .. Len(t) PROVE (s \o t)[i + Len(s)] = t[i]
  <2>1. i + Len(s) \in 1 .. Len(s) + Len(t) /\ ~(i + Len(s) <= Len(s)) /\ (i + Len(s)) - Len(s) = i
    BY <1>2
  <2> QED BY <1>3, <2>1
<1>5. ASSUME NEW i \in 1 .. Len(s) PROVE (s \o t)[i] = s[i]
  BY <1>2, <1>3
<1>6. IsSequence(s \o t)
  BY <1>3 DEF IsSequence
<1> QED BY <1>3, <1>4, <1>5, <1>6 DEF Cat

(* Two sequences that begin with as long a part and go on alike. *)
LEMMA SameParts ==
  ASSUME NEW s, NEW t, NEW u, NEW v,
         IsSequence(s), IsSequence(t), IsSequence(u), IsSequence(v),
         Len(s) = Len(t), Cat(s, u) = Cat(t, v)
  PROVE  s = t /\ u = v
<1>1. Len(s) \in Nat /\ Len(t) \in Nat /\ Len(u) \in Nat /\ Len(v) \in Nat
  BY SequenceReads
<1>2. /\ Len(Cat(s, u)) = Len(s) + Len(u) /\ Len(Cat(t, v)) = Len(t) + Len(v)
      /\ \A i \in 1 .. Len(s) : Cat(s, u)[i] = s[i]
      /\ \A i \in 1 .. Len(t) : Cat(t, v)[i] = t[i]
      /\ \A i \in 1 .. Len(u) : Cat(s, u)[i + Len(s)] = u[i]
      /\ \A i \in 1 .. Len(v) : Cat(t, v)[i + Len(t)] = v[i]
  BY CatReads
<1>3. Len(u) = Len(v)
  BY <1>1, <1>2
<1>4. s = t
  BY <1>2, SameSequence
<1>5. u = v
  <2>1. \A i \in 1 .. Len(u) : u[i] = v[i]
    BY <1>2, <1>3
  <2> QED BY <1>3, <2>1, SameSequence
<1> QED BY <1>4, <1>5

LEMMA FieldReads ==
  ASSUME NEW b \in Seq(Nat)
  PROVE  /\ IsSequence(Field(b)) /\ Len(Field(b)) = 1 + Len(b) /\ Field(b)[1] = Len(b)
         /\ \A i \in 1 .. Len(b) : Field(b)[i + 1] = b[i]
<1>1. Len(b) \in Nat /\ <<Len(b)>> \in Seq(Nat)
  OBVIOUS
<1>2. IsSequence(b) /\ IsSequence(<<Len(b)>>)
  BY <1>1 DEF IsSequence
<1>3. Field(b) = Cat(<<Len(b)>>, b)
  BY DEF Field, Cat
<1>4. Len(<<Len(b)>>) = 1 /\ <<Len(b)>>[1] = Len(b)
  OBVIOUS
<1>5. PICK x : x = <<Len(b)>>
  OBVIOUS
<1>6. /\ IsSequence(Cat(x, b)) /\ Len(Cat(x, b)) = Len(x) + Len(b)
      /\ \A i \in 1 .. Len(x) : Cat(x, b)[i] = x[i]
      /\ \A i \in 1 .. Len(b) : Cat(x, b)[i + Len(x)] = b[i]
  <2>1. IsSequence(x) /\ IsSequence(b)
    BY <1>2, <1>5
  <2> QED BY <2>1, CatReads
<1>7. Len(x) = 1 /\ x[1] = Len(b) /\ 1 \in 1 .. 1
  BY <1>4, <1>5
<1>8. Field(b) = Cat(x, b)
  BY <1>3, <1>5
<1> QED BY <1>6, <1>7, <1>8

(* A field is read back from its encoding, and what follows it. *)
LEMMA SameFields ==
  ASSUME NEW b \in Seq(Nat), NEW c \in Seq(Nat), NEW u, NEW v,
         IsSequence(u), IsSequence(v), Cat(Field(b), u) = Cat(Field(c), v)
  PROVE  b = c /\ u = v
<1>1. PICK x, y : x = Field(b) /\ y = Field(c)
  OBVIOUS
<1>2. /\ IsSequence(x) /\ Len(x) = 1 + Len(b) /\ x[1] = Len(b)
      /\ \A i \in 1 .. Len(b) : x[i + 1] = b[i]
  BY <1>1, FieldReads
<1>3. /\ IsSequence(y) /\ Len(y) = 1 + Len(c) /\ y[1] = Len(c)
      /\ \A i \in 1 .. Len(c) : y[i + 1] = c[i]
  BY <1>1, FieldReads
<1>4. Cat(x, u) = Cat(y, v)
  BY <1>1
<1>5. 1 \in 1 .. Len(x) /\ 1 \in 1 .. Len(y) /\ Len(b) \in Nat /\ Len(c) \in Nat
  BY <1>2, <1>3
<1>6. Len(b) = Len(c)
  <2>1. Cat(x, u)[1] = x[1] /\ Cat(y, v)[1] = y[1]
    BY <1>2, <1>3, <1>5, CatReads
  <2> QED BY <1>2, <1>3, <1>4, <2>1
<1>7. x = y /\ u = v
  <2>1. Len(x) = Len(y)
    BY <1>2, <1>3, <1>6
  <2> QED BY <1>2, <1>3, <1>4, <2>1, SameParts
<1>8. \A i \in 1 .. Len(b) : b[i] = c[i]
  BY <1>2, <1>3, <1>6, <1>7
<1>9. IsSequence(b) /\ IsSequence(c)
  BY DEF IsSequence
<1>10. b = c
  BY <1>6, <1>8, <1>9, SameSequence
<1> QED BY <1>7, <1>10

LEMMA SameContexts ==
  ASSUME NEW c \in Context, NEW d \in Context,
         c.sector = d.sector, c.route = d.route, c.cn_code = d.cn_code, c.period = d.period
  PROVE  c = d
<1>1. /\ c = [sector |-> c.sector, route |-> c.route, cn_code |-> c.cn_code, period |-> c.period]
      /\ d = [sector |-> d.sector, route |-> d.route, cn_code |-> d.cn_code, period |-> d.period]
  BY Zenon DEF Context
<1> QED BY <1>1

(* No two journals are encoded alike: the fields are read back one after   *)
(* the other.                                                              *)
LEMMA CanonicalBytesInjective ==
  ASSUME NEW j, NEW k, j.context \in Context, k.context \in Context,
         CanonicalBytes(j) = CanonicalBytes(k)
  PROVE  j.root = k.root /\ j.output = k.output /\ j.context = k.context
<1>1. PICK h, g : h = <<j.root, j.output>> /\ g = <<k.root, k.output>>
  OBVIOUS
<1>2. IsSequence(h) /\ IsSequence(g) /\ Len(h) = Len(g)
  <2>1. h \in Seq({j.root, j.output}) /\ g \in Seq({k.root, k.output}) /\ Len(h) = Len(g)
    BY <1>1
  <2> QED BY <2>1 DEF IsSequence
<1>3. PICK b1, b2, b3, b4, c1, c2, c3, c4 :
        /\ b1 = j.context.sector /\ b2 = j.context.route /\ b3 = j.context.cn_code /\ b4 = j.context.period
        /\ c1 = k.context.sector /\ c2 = k.context.route /\ c3 = k.context.cn_code /\ c4 = k.context.period
  OBVIOUS
<1>4. /\ b1 \in Seq(Nat) /\ b2 \in Seq(Nat) /\ b3 \in Seq(Nat) /\ b4 \in Seq(Nat)
      /\ c1 \in Seq(Nat) /\ c2 \in Seq(Nat) /\ c3 \in Seq(Nat) /\ c4 \in Seq(Nat)
  BY <1>3 DEF Context
<1>5. Cat(h, Cat(Field(b1), Cat(Field(b2), Cat(Field(b3), Field(b4))))) =
        Cat(g, Cat(Field(c1), Cat(Field(c2), Cat(Field(c3), Field(c4)))))
  BY <1>1, <1>3, Zenon DEF CanonicalBytes, Cat
<1>6. PICK u4, u3, u2, u1, v4, v3, v2, v1 :
        /\ u4 = Field(b4) /\ u3 = Cat(Field(b3), u4) /\ u2 = Cat(Field(b2), u3) /\ u1 = Cat(Field(b1), u2)
        /\ v4 = Field(c4) /\ v3 = Cat(Field(c3), v4) /\ v2 = Cat(Field(c2), v3) /\ v1 = Cat(Field(c1), v2)
  OBVIOUS
<1>7. IsSequence(u4) /\ IsSequence(v4)
  BY <1>4, <1>6, FieldReads
<1>8. IsSequence(u3) /\ IsSequence(v3)
  BY <1>4, <1>6, <1>7, FieldReads, CatReads
<1>9. IsSequence(u2) /\ IsSequence(v2)
  BY <1>4, <1>6, <1>8, FieldReads, CatReads
<1>10. IsSequence(u1) /\ IsSequence(v1)
  BY <1>4, <1>6, <1>9, FieldReads, CatReads
<1>11. h = g /\ u1 = v1
  <2>1. Cat(h, u1) = Cat(g, v1)
    BY <1>5, <1>6, Zenon
  <2> QED BY <1>2, <1>10, <2>1, SameParts
<1>12. b1 = c1 /\ u2 = v2
  <2>1. Cat(Field(b1), u2) = Cat(Field(c1), v2)
    BY <1>6, <1>11, Zenon
  <2> QED BY <1>4, <1>9, <2>1, SameFields
<1>13. b2 = c2 /\ u3 = v3
  <2>1. Cat(Field(b2), u3) = Cat(Field(c2), v3)
    BY <1>6, <1>12, Zenon
  <2> QED BY <1>4, <1>8, <2>1, SameFields
<1>14. b3 = c3 /\ u4 = v4
  <2>1. Cat(Field(b3), u4) = Cat(Field(c3), v4)
    BY <1>6, <1>13, Zenon
  <2> QED BY <1>4, <1>7, <2>1, SameFields
<1>15. b4 = c4
  <2>1. IsSequence(<<>>)
    BY DEF IsSequence
  <2>2. Cat(Field(b4), <<>>) = Cat(Field(c4), <<>>)
    BY <1>6, <1>14
  <2> QED BY <1>4, <2>1, <2>2, SameFields
<1>16. j.context = k.context
  <2>1. /\ j.context.sector = k.context.sector /\ j.context.route = k.context.route
        /\ j.context.cn_code = k.context.cn_code /\ j.context.period = k.context.period
    BY <1>3, <1>12, <1>13, <1>14, <1>15
  <2> QED BY <2>1, SameContexts, Zenon
<1>17. j.root = k.root /\ j.output = k.output
  BY <1>1, <1>11
<1> QED BY <1>16, <1>17

-----------------------------------------------------------------------------
(* The guest.                                                              *)

(* The bundle is what the opened files build. *)
Built == FromFiles(Files).ok /\ bundle = FromFiles(Files).val

Output == AndThen(ParseInvocation(bundle.rules, witness.invocation),
                  LAMBDA parsed : Evaluate(bundle, parsed))

Evaluated == Output.ok /\ outcome = Output.val

(***************************************************************************)
(* The inductive invariant.  That the bundle is part of the published one  *)
(* does not follow from its own last value: it needs every opening read so *)
(* far to have been verified against the root that is still the witness's, *)
(* and bundle and outcome to be those of the openings and the invocation   *)
(* the guest still holds.                                                  *)
(***************************************************************************)
WitnessType == witness \in [root : Roots, openings : Seq(Carried), invocation : Invocations \cup {None}]

Verified ==
  /\ openings \in Seq(Carried) /\ Len(openings) <= Len(witness.openings)
  /\ \A i \in DOMAIN openings : VerifyOpening(witness.root, openings[i]).ok

Progress ==
  /\ pc \in {"host", "openings", "bundle", "outcome", "committed", "aborted"}
  /\ pc = "host" => openings = <<>>
  /\ pc # "host" => witness.invocation \in Invocations
  /\ pc \in {"host", "openings"} => bundle = None
  /\ bundle # None \/ pc \in {"bundle", "outcome"} => Built
  /\ pc = "outcome" => Evaluated
  /\ pc # "committed" => journal = NoJournal

Inv == WitnessType /\ Verified /\ Progress

LEMMA InvInit == Init => Inv
<1> SUFFICES ASSUME Init PROVE Inv
  OBVIOUS
<1>1. WitnessType
  BY DEF Init, WitnessType
<1>2. Verified
  BY DEF Init, Verified
<1>3. Progress
  BY Zenon DEF Init, Progress
<1> QED BY <1>1, <1>2, <1>3 DEF Inv

LEMMA InvNext == Inv /\ [Next]_vars => Inv'
<1> SUFFICES ASSUME Inv, [Next]_vars PROVE Inv'
  OBVIOUS
<1> USE DEF Inv
<1>1. ASSUME NEW o \in Carried, WriteOpening(o) PROVE Inv'
  <2>1. witness' = [witness EXCEPT !.openings = Append(@, o)]
    BY <1>1 DEF WriteOpening
  <2>2. /\ witness'.root = witness.root /\ witness'.invocation = witness.invocation
        /\ witness'.openings = Append(witness.openings, o)
        /\ WitnessType'
    <3>1. PICK longer : longer = Append(witness.openings, o)
      OBVIOUS
    <3>2. witness.openings \in Seq(Carried)
      BY DEF WitnessType
    <3>3. longer \in Seq(Carried)
      BY <3>1, <3>2
    <3>4. witness' = [witness EXCEPT !.openings = longer]
      BY <2>1, <3>1
    <3>5. /\ witness'.root = witness.root /\ witness'.invocation = witness.invocation
          /\ witness'.openings = longer /\ WitnessType'
      BY <3>3, <3>4 DEF WitnessType
    <3> QED BY <3>1, <3>5
  <2>3. openings' = <<>> /\ openings' = openings
    BY <1>1 DEF WriteOpening, Progress
  <2>4. Verified'
    BY <2>2, <2>3 DEF Verified, WitnessType
  <2>5. Progress'
    <3>1. bundle = None /\ pc = "host"
      BY <1>1 DEF WriteOpening, Progress
    <3> QED BY <1>1, <2>3, <3>1, Zenon DEF WriteOpening, Progress
  <2> QED BY <2>2, <2>4, <2>5
<1>2. ASSUME NEW invocation \in Invocations, Execute(invocation) PROVE Inv'
  <2>1. witness' = [witness EXCEPT !.invocation = invocation]
    BY <1>2 DEF Execute
  <2>2. /\ witness'.root = witness.root /\ witness'.invocation = invocation
        /\ witness'.openings = witness.openings
        /\ WitnessType'
    BY <2>1 DEF WitnessType
  <2>3. openings' = openings
    BY <1>2 DEF Execute
  <2>4. Verified'
    BY <2>2, <2>3 DEF Verified
  <2>5. Progress'
    <3>1. bundle = None /\ pc = "host" /\ journal = NoJournal /\ bundle' = None /\ pc' = "openings"
          /\ journal' = NoJournal
      BY <1>2, Zenon DEF Execute, Progress
    <3> QED BY <2>2, <3>1, Zenon DEF Progress
  <2> QED BY <2>2, <2>4, <2>5
<1>3. CASE ReadOpening
  <2>1. /\ pc = "openings" /\ witness' = witness /\ bundle' = None /\ bundle = None
        /\ journal' = NoJournal /\ witness.invocation \in Invocations
        /\ pc' \in {"openings", "aborted"}
    BY <1>3, Zenon DEF ReadOpening, Progress
  <2>2. WitnessType'
    BY <2>1 DEF WitnessType
  <2>3. Verified'
    <3>1. CASE VerifyOpening(witness.root, NextOpening).ok
      <4>1. openings' = Append(openings, NextOpening) /\ Len(openings) < Len(witness.openings)
        BY <1>3, <3>1 DEF ReadOpening
      <4>2. NextOpening \in Carried
        BY <4>1 DEF NextOpening, WitnessType, Verified
      <4>3. /\ openings' \in Seq(Carried) /\ Len(openings') = Len(openings) + 1
            /\ \A i \in 1 .. Len(openings) : openings'[i] = openings[i]
            /\ openings'[Len(openings) + 1] = NextOpening
        BY <4>1, <4>2 DEF Verified
      <4>4. \A i \in DOMAIN openings' : VerifyOpening(witness'.root, openings'[i]).ok
        <5>1. DOMAIN openings' = 1 .. Len(openings) + 1 /\ DOMAIN openings = 1 .. Len(openings) /\ Len(openings) \in Nat
          BY <4>3 DEF Verified
        <5> SUFFICES ASSUME NEW i \in 1 .. Len(openings) + 1 PROVE VerifyOpening(witness.root, openings'[i]).ok
          BY <2>1, <5>1
        <5>2. CASE i \in 1 .. Len(openings)
          BY <4>3, <5>1, <5>2 DEF Verified
        <5>3. CASE i = Len(openings) + 1
          BY <3>1, <4>3, <5>3
        <5> QED BY <5>1, <5>2, <5>3
      <4>5. Len(openings') <= Len(witness'.openings)
        BY <2>1, <4>1, <4>3 DEF Verified, WitnessType
      <4> QED BY <4>3, <4>4, <4>5 DEF Verified
    <3>2. CASE ~VerifyOpening(witness.root, NextOpening).ok
      BY <1>3, <2>1, <3>2 DEF ReadOpening, Verified
    <3> QED BY <3>1, <3>2
  <2>4. Progress'
    BY <2>1, Zenon DEF Progress
  <2> QED BY <2>2, <2>3, <2>4
<1>4. CASE BuildBundle
  <2>1. /\ pc = "openings" /\ witness' = witness /\ openings' = openings /\ bundle = None
        /\ journal' = NoJournal /\ witness.invocation \in Invocations
    BY <1>4, Zenon DEF BuildBundle, Progress
  <2>2. WitnessType' /\ Verified'
    BY <2>1 DEF WitnessType, Verified
  <2>3. Progress'
    <3>1. CASE FromFiles(Files).ok
      <4>1. bundle' = FromFiles(Files).val /\ pc' = "bundle"
        BY <1>4, <3>1, Zenon DEF BuildBundle
      <4>2. Built'
        BY <2>1, <3>1, <4>1, Zenon DEF Built, Files
      <4> QED BY <2>1, <4>1, <4>2, Zenon DEF Progress
    <3>2. CASE ~FromFiles(Files).ok
      <4>1. bundle' = None /\ pc' = "aborted"
        BY <1>4, <2>1, <3>2, Zenon DEF BuildBundle
      <4> QED BY <2>1, <4>1, Zenon DEF Progress
    <3> QED BY <3>1, <3>2
  <2> QED BY <2>2, <2>3
<1>5. CASE EvaluateInvocation
  <2>1. /\ pc = "bundle" /\ witness' = witness /\ openings' = openings /\ bundle' = bundle
        /\ journal' = NoJournal /\ witness.invocation \in Invocations /\ Built
    BY <1>5, Zenon DEF EvaluateInvocation, Progress
  <2>2. WitnessType' /\ Verified' /\ Built'
    BY <2>1, Zenon DEF WitnessType, Verified, Built, Files
  <2>3. (pc' = "outcome" /\ Evaluated') \/ pc' = "aborted"
    <3>1. IF Output.ok THEN outcome' = Output.val /\ pc' = "outcome" ELSE pc' = "aborted"
      BY <1>5 DEF EvaluateInvocation, Output, AndThen
    <3>2. Output' = Output
      BY <2>1 DEF Output, AndThen
    <3> QED BY <3>1, <3>2, Zenon DEF Evaluated
  <2>4. Progress'
    BY <2>1, <2>2, <2>3, Zenon DEF Progress
  <2> QED BY <2>2, <2>4
<1>6. CASE CommitJournal
  <2>1. /\ pc' = "committed" /\ witness' = witness /\ openings' = openings /\ bundle' = bundle
        /\ witness.invocation \in Invocations /\ Built
    BY <1>6, Zenon DEF CommitJournal, Progress
  <2>2. WitnessType' /\ Verified' /\ Built'
    BY <2>1, Zenon DEF WitnessType, Verified, Built, Files
  <2>3. Progress'
    BY <2>1, <2>2, Zenon DEF Progress
  <2> QED BY <2>2, <2>3
<1>7. CASE UNCHANGED vars
  <2>1. /\ witness' = witness /\ openings' = openings /\ bundle' = bundle
        /\ pc' = pc /\ outcome' = outcome /\ journal' = journal
    BY <1>7 DEF vars
  <2>2. WitnessType' /\ Verified'
    BY <2>1, Zenon DEF WitnessType, Verified
  <2>3. Output' = Output
    BY <2>1 DEF Output, AndThen
  <2>4. Built' = Built /\ Evaluated' = Evaluated
    BY <2>1, <2>3, Zenon DEF Built, Evaluated, Files
  <2>5. Progress'
    BY <2>1, <2>4, Zenon DEF Progress
  <2> QED BY <2>2, <2>5
<1> QED BY <1>1, <1>2, <1>3, <1>4, <1>5, <1>6, <1>7, Zenon DEF Next

(***************************************************************************)
(* In every reachable state, whatever a host wrote, the openings the guest *)
(* holds have all been verified against the one root of the witness, and   *)
(* bundle, outcome and journal are those of these openings (main.rs:33-55).*)
(***************************************************************************)
THEOREM GuestInvariant == Spec => []Inv
BY InvInit, InvNext, PTL DEF Spec

LEMMA PublishedBundle ==
  ASSUME Inv
  PROVE  Published \in Bundles /\ BundleHash(Published).val = witness.root
<1>1. witness.root \in Roots
  BY DEF Inv, WitnessType
<1>2. \E files \in Bundles : BundleHash(files).val = witness.root
  BY <1>1 DEF Roots
<1> QED BY <1>2 DEF Published

LEMMA OpenedFiles ==
  ASSUME Inv
  PROVE  /\ DOMAIN Files = 1 .. Len(Files) /\ Len(Files) \in Nat
         /\ \A i \in DOMAIN Files : Files[i].path \in Seq(Nat) /\ IsFileOf(Files[i], Published)
<1>1. /\ openings \in Seq(Carried)
      /\ \A i \in DOMAIN openings : VerifyOpening(witness.root, openings[i]).ok
  BY DEF Inv, Verified
<1>2. DOMAIN openings = 1 .. Len(openings) /\ Len(openings) \in Nat
  BY <1>1
<1>3. /\ DOMAIN Files = 1 .. Len(openings) /\ Len(Files) = Len(openings)
      /\ \A i \in 1 .. Len(openings) :
           Files[i].path = openings[i].path /\ Files[i].content = openings[i].content
  BY <1>2 DEF Files
<1>4. ASSUME NEW i \in 1 .. Len(openings)
      PROVE  Files[i].path \in Seq(Nat) /\ IsFileOf(Files[i], Published)
  <2>1. openings[i] \in Carried /\ VerifyOpening(witness.root, openings[i]).ok
    BY <1>1, <1>2
  <2>2. IsFileOf(openings[i], Published)
    BY <2>1, PublishedBundle, VerifiedIsPublished
  <2>3. openings[i].path \in Seq(Nat)
    BY <2>1, GuestAssumption
  <2> QED BY <1>3, <2>2, <2>3 DEF IsFileOf
<1> QED BY <1>2, <1>3, <1>4

LEMMA BuiltIsPart ==
  ASSUME Inv, Built
  PROVE  LET whole == FromFiles(Published)
         IN  /\ whole.ok /\ bundle.rules = whole.val.rules /\ bundle.rules \in DOMAIN Programs
             /\ \A name \in DOMAIN bundle.tables : BACKSLASH \notin ToSet(name) =>
                  /\ name \in DOMAIN whole.val.tables
                  /\ bundle.tables[name] = whole.val.tables[name]
<1>1. PICK opened, files : opened = Files /\ files = Published
  OBVIOUS
<1>2. /\ DOMAIN opened = 1 .. Len(opened) /\ Len(opened) \in Nat
      /\ \A i \in DOMAIN opened : opened[i].path \in Seq(Nat) /\ IsFileOf(opened[i], files)
  BY <1>1, OpenedFiles, Zenon
<1>3. files \in Bundles
  BY <1>1, PublishedBundle
<1>4. FromFiles(opened).ok /\ bundle = FromFiles(opened).val
  BY <1>1 DEF Built
<1>5. /\ FromFiles(files).ok /\ bundle.rules = FromFiles(files).val.rules /\ bundle.rules \in DOMAIN Programs
      /\ \A name \in DOMAIN bundle.tables : BACKSLASH \notin ToSet(name) =>
           /\ name \in DOMAIN FromFiles(files).val.tables
           /\ bundle.tables[name] = FromFiles(files).val.tables[name]
  BY <1>2, <1>3, <1>4, OpenedIsPart
<1> QED BY <1>1, <1>5

(***************************************************************************)
(* Only authenticated bytes are evaluated, for published bundles of any    *)
(* size, any witness and openings of any shape: whatever the guest builds  *)
(* is a part of the one published bundle of the root (main.rs:3-8, 38-51). *)
(***************************************************************************)
THEOREM GuestEvaluatesPublishedFiles == Spec => []EvaluatesPublishedFiles
<1>1. Inv => EvaluatesPublishedFiles
  <2> SUFFICES ASSUME Inv, bundle # None PROVE EvaluatesPublishedFiles
    BY DEF EvaluatesPublishedFiles
  <2>1. Built
    BY Zenon DEF Inv, Progress
  <2> QED BY <2>1, BuiltIsPart, Zenon DEF EvaluatesPublishedFiles
<1> QED BY <1>1, GuestInvariant, PTL

-----------------------------------------------------------------------------
(* The guest implements Prover.                                            *)

LEMMA NativeJournals ==
  ASSUME NEW files, NEW invocation, NativeJournal(files, invocation).ok
  PROVE  \E output : NativeJournal(files, invocation) =
                       Ok(Journal(BundleHash(files).val, output, invocation.context))
<1> DEFINE built == FromFiles(files)
           parsed == ParseInvocation(built.val.rules, invocation)
           output == Evaluate(built.val, parsed.val)
<1>1. built.ok
  BY DEF NativeJournal, AndThen
<1>2. parsed.ok
  BY <1>1 DEF NativeJournal, AndThen
<1>3. output.ok
  BY <1>1, <1>2 DEF NativeJournal, AndThen
<1>4. NativeJournal(files, invocation) = Ok(Journal(BundleHash(files).val, output.val, parsed.val.context))
  BY <1>1, <1>2, <1>3 DEF NativeJournal, AndThen
<1>5. parsed.val = invocation
  BY <1>2 DEF ParseInvocation, Ok, Err
<1> QED BY <1>4, <1>5

LEMMA NativeRun ==
  ASSUME NEW files, NEW invocation, NEW output, FromFiles(files).ok,
         ParseInvocation(FromFiles(files).val.rules, invocation) = Ok(invocation),
         Evaluate(FromFiles(files).val, invocation) = Ok(output)
  PROVE  NativeJournal(files, invocation) =
           Ok(Journal(BundleHash(files).val, output, invocation.context))
<1>1. Ok(invocation).ok /\ Ok(invocation).val = invocation /\ Ok(output).ok /\ Ok(output).val = output
  BY DEF Ok
<1> QED BY <1>1, Zenon DEF NativeJournal, AndThen

LEMMA AuthenticShape ==
  ASSUME NEW j \in AuthenticJournals
  PROVE  j.context \in Context /\ j = Journal(j.root, j.output, j.context)
<1>1. PICK files \in Bundles, invocation \in Invocations :
        NativeJournal(files, invocation).ok /\ j = NativeJournal(files, invocation).val
  BY DEF AuthenticJournals
<1>2. PICK output : j = Journal(BundleHash(files).val, output, invocation.context)
  BY <1>1, NativeJournals DEF Ok
<1>3. invocation.context \in Context
  BY GuestAssumption
<1> QED BY <1>2, <1>3 DEF Journal

(* The bytes of a journal are those of no other. *)
LEMMA BytesDecode ==
  ASSUME NEW j \in AuthenticJournals
  PROVE  {k \in AuthenticJournals : CanonicalBytes(k) = CanonicalBytes(j)} = {j}
<1> SUFFICES ASSUME NEW k \in AuthenticJournals, CanonicalBytes(k) = CanonicalBytes(j) PROVE k = j
  OBVIOUS
<1>1. k.root = j.root /\ k.output = j.output /\ k.context = j.context
  BY AuthenticShape, CanonicalBytesInjective
<1> QED BY <1>1, AuthenticShape

LEMMA BytesAreCommitted ==
  ASSUME NEW j, j.context \in Context
  PROVE  CanonicalBytes(j) # NoJournal
<1>1. PICK h, b1, b2, b3, b4 :
        /\ h = <<j.root, j.output>> /\ b1 = j.context.sector /\ b2 = j.context.route
        /\ b3 = j.context.cn_code /\ b4 = j.context.period
  OBVIOUS
<1>2. b1 \in Seq(Nat) /\ b2 \in Seq(Nat) /\ b3 \in Seq(Nat) /\ b4 \in Seq(Nat)
  BY <1>1 DEF Context
<1>3. IsSequence(h) /\ Len(h) = 2
  <2>1. h \in Seq({j.root, j.output}) /\ Len(h) = 2
    BY <1>1
  <2> QED BY <2>1 DEF IsSequence
<1>4. PICK u3, u2, u1 :
        u3 = Cat(Field(b3), Field(b4)) /\ u2 = Cat(Field(b2), u3) /\ u1 = Cat(Field(b1), u2)
  OBVIOUS
<1>5. IsSequence(u3)
  BY <1>2, <1>4, FieldReads, CatReads
<1>6. IsSequence(u2)
  BY <1>2, <1>4, <1>5, FieldReads, CatReads
<1>7. IsSequence(u1)
  BY <1>2, <1>4, <1>6, FieldReads, CatReads
<1>8. CanonicalBytes(j) = Cat(h, u1)
  BY <1>1, <1>4, Zenon DEF CanonicalBytes, Cat
<1>9. Len(Cat(h, u1)) = 2 + Len(u1) /\ Len(u1) \in Nat
  <2>1. Len(Cat(h, u1)) = Len(h) + Len(u1)
    BY <1>3, <1>7, CatReads, Zenon
  <2>2. Len(u1) \in Nat
    BY <1>7, SequenceReads
  <2> QED BY <1>3, <2>1, <2>2
<1>10. Len(NoJournal) = 0
  BY DEF NoJournal
<1> QED BY <1>8, <1>9, <1>10

(* What the guest computed is what the native evaluator computes. *)
LEMMA OutcomeIsNative ==
  ASSUME Inv, Built, Evaluated, witness.invocation \in Invocations
  PROVE  NativeJournal(Published, witness.invocation) =
           Ok(Journal(witness.root, outcome, witness.invocation.context))
<1> DEFINE whole == FromFiles(Published)
           invocation == witness.invocation
           reads == Programs[bundle.rules][invocation.rule]
<1>1. /\ whole.ok /\ bundle.rules = whole.val.rules /\ bundle.rules \in DOMAIN Programs
      /\ \A name \in DOMAIN bundle.tables : BACKSLASH \notin ToSet(name) =>
           /\ name \in DOMAIN whole.val.tables
           /\ bundle.tables[name] = whole.val.tables[name]
  BY BuiltIsPart, Zenon
<1>2. ParseInvocation(bundle.rules, invocation).ok
  BY DEF Evaluated, Output, AndThen
<1>3. /\ ParseInvocation(bundle.rules, invocation) = Ok(invocation)
      /\ invocation.rule \in DOMAIN Programs[bundle.rules]
  BY <1>2 DEF ParseInvocation, Err
<1>4. Evaluate(bundle, invocation).ok /\ outcome = Evaluate(bundle, invocation).val
  BY <1>3 DEF Evaluated, Output, AndThen, Ok
<1>5. /\ ToSet(reads) \subseteq DOMAIN bundle.tables
      /\ outcome = [rules |-> bundle.rules, rule |-> invocation.rule,
                    cells |-> [i \in DOMAIN reads |-> bundle.tables[reads[i]]]]
  BY <1>4 DEF Evaluate, Ok, Err
<1>6. \A name \in ToSet(reads) : BACKSLASH \notin ToSet(name)
  BY <1>1, <1>3, GuestAssumption
<1>7. /\ ToSet(reads) \subseteq DOMAIN whole.val.tables
      /\ \A i \in DOMAIN reads : bundle.tables[reads[i]] = whole.val.tables[reads[i]]
  <2>1. \A i \in DOMAIN reads : reads[i] \in ToSet(reads)
    BY DEF ToSet
  <2> QED BY <1>1, <1>5, <1>6, <2>1
<1>8. Evaluate(whole.val, invocation) = Ok(outcome)
  <2>1. [i \in DOMAIN reads |-> bundle.tables[reads[i]]] = [i \in DOMAIN reads |-> whole.val.tables[reads[i]]]
    BY <1>7
  <2> QED BY <1>1, <1>5, <1>7, <2>1 DEF Evaluate
<1>9. BundleHash(Published).val = witness.root
  BY PublishedBundle
<1>10. ParseInvocation(whole.val.rules, invocation) = Ok(invocation)
  BY <1>1, <1>3
<1>11. NativeJournal(Published, invocation) =
         Ok(Journal(BundleHash(Published).val, outcome, invocation.context))
  <2>1. PICK files, given : files = Published /\ given = invocation
    OBVIOUS
  <2>2. /\ FromFiles(files).ok /\ ParseInvocation(FromFiles(files).val.rules, given) = Ok(given)
        /\ Evaluate(FromFiles(files).val, given) = Ok(outcome)
    BY <1>1, <1>8, <1>10, <2>1
  <2>3. NativeJournal(files, given) = Ok(Journal(BundleHash(files).val, outcome, given.context))
    BY <2>2, NativeRun
  <2> QED BY <2>1, <2>3
<1> QED BY <1>9, <1>11

LEMMA CommitDecodes ==
  ASSUME Inv, CommitJournal
  PROVE  Decoded = None /\ Decoded' \in AuthenticJournals
<1> DEFINE j == Journal(witness.root, outcome, witness.invocation.context)
<1>1. /\ journal = NoJournal /\ witness.invocation \in Invocations /\ Built /\ Evaluated
      /\ journal' = CanonicalBytes(j)
  BY Zenon DEF Inv, Progress, CommitJournal
<1>2. Published \in Bundles
  BY PublishedBundle
<1>3. NativeJournal(Published, witness.invocation) = Ok(j)
  BY <1>1, OutcomeIsNative
<1>4. j \in AuthenticJournals /\ j.context \in Context
  <2>1. <<Published, witness.invocation>> \in Bundles \X Invocations
    BY <1>1, <1>2
  <2>2. j \in AuthenticJournals
    <3> HIDE DEF j
    <3> QED BY <1>3, <2>1 DEF AuthenticJournals, Ok
  <2> QED BY <2>2, AuthenticShape
<1> HIDE DEF j
<1>5. journal' # NoJournal
  BY <1>1, <1>4, BytesAreCommitted
<1>6. {k \in AuthenticJournals : CanonicalBytes(k) = journal'} = {j}
  BY <1>1, <1>4, BytesDecode
<1>7. Cardinality({j}) = 1
  BY FS_Singleton
<1>8. Decoded' = j
  <2>1. Decoded' = (CHOOSE k \in {j} : TRUE)
    BY <1>5, <1>6, <1>7, Zenon DEF Decoded
  <2> QED BY <2>1
<1>9. Decoded = None
  BY <1>1, Zenon DEF Decoded
<1> QED BY <1>4, <1>8, <1>9

(***************************************************************************)
(* The guest implements Prover, for every value of the constants: at most  *)
(* one journal leaves an execution, its bytes are those of no other        *)
(* journal, and it is what a native run over the whole published bundle of *)
(* its root computes (main.rs:51-55, journal.rs:55-70).                    *)
(***************************************************************************)
THEOREM GuestImplementsProver == Spec => ImplementsProver
<1>1. Init => P!Init
  BY Zenon DEF Init, P!Init, Decoded
<1>2. Inv /\ [Next]_vars => [P!Commit]_Decoded
  <2> SUFFICES ASSUME Inv, [Next]_vars PROVE P!Commit \/ Decoded' = Decoded
    OBVIOUS
  <2>1. CASE CommitJournal
    BY <2>1, CommitDecodes, Zenon DEF P!Commit
  <2>2. CASE journal' = journal
    <3>1. Decoded' = Decoded
      BY <2>2 DEF Decoded
    <3> QED BY <3>1
  <2>3. CommitJournal \/ journal' = journal
    BY Zenon DEF Next, vars, WriteOpening, Execute, ReadOpening, BuildBundle, EvaluateInvocation
  <2> QED BY <2>1, <2>2, <2>3
<1> QED BY <1>1, <1>2, GuestInvariant, PTL DEF Spec, ImplementsProver, P!Spec

=============================================================================
