----------------------------- MODULE InvoiceProofs -----------------------------
(***************************************************************************)
(* What a bill may be relied on for, in ledgers of any length, days of any *)
(* number of records, any configuration and any measurements.              *)
(*                                                                         *)
(* Three parts: what the tree, the sums and the lists compute (data of any *)
(* size, by induction over sets of naturals and over the subsets of a      *)
(* finite set); the inductive invariant of Invoice; and, from both, that   *)
(* two programs which share no code agree.                                 *)
(***************************************************************************)
EXTENDS InvoiceProperties, WellFoundedInduction, SequenceTheorems, FiniteSetTheorems, TLAPS

-----------------------------------------------------------------------------
(* Induction over the naturals, as a fact about sets of them.              *)

\* A set of naturals has a least element: the order of the naturals is well founded.
LEMMA LeastNatural ==
  ASSUME NEW T \in SUBSET Nat, T # {}
  PROVE  \E n \in T : \A m \in T : n <= m
<1>1. IsWellFoundedOn(OpToRel(<, Nat), Nat)
  BY NatLessThanWellFounded
<1> DEFINE R == OpToRel(<, Nat)
<1>2. \A x, y \in Nat : <<y, x>> \in R <=> y < x
  BY DEF OpToRel
<1> HIDE DEF R
<1>3. IsWellFoundedOn(R, Nat)
  BY <1>1 DEF R
<1>4. PICK x \in T : \A y \in T : ~ (<<y, x>> \in R)
  BY <1>3, WFMin
<1>5. \A y \in T : ~ (y < x)
  BY <1>2, <1>4
<1> QED BY <1>5

\* The naturals are the only set of them that has zero and every successor.
LEMMA NatSetInduction ==
  ASSUME NEW S \in SUBSET Nat, 0 \in S, \A n \in S : n + 1 \in S
  PROVE  S = Nat
<1> SUFFICES ASSUME S # Nat PROVE FALSE
  OBVIOUS
<1>1. PICK n \in Nat \ S : \A m \in Nat \ S : n <= m
  BY LeastNatural
<1>2. n - 1 \in S
  BY <1>1
<1> QED BY <1>1, <1>2

\* The same, from all the smaller numbers.
LEMMA StrongSetInduction ==
  ASSUME NEW S \in SUBSET Nat, \A n \in Nat : 0..(n - 1) \subseteq S => n \in S
  PROVE  S = Nat
<1> SUFFICES ASSUME S # Nat PROVE FALSE
  OBVIOUS
<1>1. PICK n \in Nat \ S : \A m \in Nat \ S : n <= m
  BY LeastNatural
<1>2. 0..(n - 1) \subseteq S
  BY <1>1
<1> QED BY <1>1, <1>2

-----------------------------------------------------------------------------
(* The recursive definitions of Merkle define functions.                   *)

\* The levels of a tree (the lists that root and proof climb through, merkle.py) are
\* what their definition says: every finite part of them exists, and the parts agree.
LEMMA LevelsDef ==
  ASSUME NEW hashes
  PROVE  Levels(hashes) = [h \in Nat |-> IF h = 0 THEN hashes ELSE Above(Levels(hashes)[h - 1])]
<1> DEFINE Upto(n, g) == \A i \in 0..n : g[i] = IF i = 0 THEN hashes ELSE Above(g[i - 1])
<1> DEFINE S == {n \in Nat : \E g : Upto(n, g)}
<1>1. S = Nat
  <2>1. 0 \in S
    <3>1. Upto(0, [i \in {0} |-> hashes])
      OBVIOUS
    <3> QED BY <3>1
  <2>2. ASSUME NEW n \in S PROVE n + 1 \in S
    <3>1. PICK g : Upto(n, g)
      OBVIOUS
    <3> DEFINE gg == [i \in 0..(n + 1) |-> IF i = n + 1 THEN Above(g[n]) ELSE g[i]]
    <3>2. Upto(n + 1, gg)
      <4> SUFFICES ASSUME NEW i \in 0..(n + 1)
                   PROVE  gg[i] = IF i = 0 THEN hashes ELSE Above(gg[i - 1])
        OBVIOUS
      <4>1. CASE i = n + 1
        BY <4>1
      <4>2. CASE i \in 0..n
        BY <4>2, <3>1
      <4> QED BY <4>1, <4>2
    <3> HIDE DEF gg, Upto
    <3> QED BY <3>2
  <2> HIDE DEF Upto
  <2> QED BY <2>1, <2>2, NatSetInduction
<1>2. \A n \in Nat : \E g : Upto(n, g)
  BY <1>1
<1> DEFINE G(n) == CHOOSE g : Upto(n, g)
           f == [n \in Nat |-> G(n)[n]]
<1>3. ASSUME NEW n \in Nat PROVE Upto(n, G(n))
  <2> HIDE DEF Upto
  <2> QED BY <1>2
<1>4. ASSUME NEW n \in Nat PROVE G(n + 1)[n] = G(n)[n]
  <2> DEFINE U == {i \in Nat : i <= n => G(n + 1)[i] = G(n)[i]}
  <2>1. 0 \in U
    BY <1>3
  <2>2. ASSUME NEW i \in U PROVE i + 1 \in U
    <3> SUFFICES ASSUME i + 1 <= n PROVE G(n + 1)[i + 1] = G(n)[i + 1]
      OBVIOUS
    <3>1. Upto(n, G(n)) /\ Upto(n + 1, G(n + 1))
      BY <1>3
    <3> HIDE DEF G
    <3> QED BY <3>1
  <2> HIDE DEF G
  <2>3. U = Nat
    BY <2>1, <2>2, NatSetInduction
  <2> QED BY <2>3
<1>5. f = [h \in Nat |-> IF h = 0 THEN hashes ELSE Above(f[h - 1])]
  <2> SUFFICES ASSUME NEW h \in Nat PROVE f[h] = IF h = 0 THEN hashes ELSE Above(f[h - 1])
    OBVIOUS
  <2>1. Upto(h, G(h))
    BY <1>3
  <2>2. h # 0 => G(h)[h - 1] = G(h - 1)[h - 1]
    <3> SUFFICES ASSUME h # 0 PROVE G(h)[h - 1] = G(h - 1)[h - 1]
      OBVIOUS
    <3> HIDE DEF G
    <3>1. G(h - 1 + 1)[h - 1] = G(h - 1)[h - 1]
      BY <1>4
    <3> QED BY <3>1
  <2> HIDE DEF G
  <2> QED BY <2>1, <2>2
<1> HIDE DEF f
<1> QED BY <1>5 DEF Levels

\* The number of levels above one of a width, by the same construction.
LEMMA DepthDef ==
  depth = [w \in Nat |-> IF w <= 1 THEN 0 ELSE 1 + depth[(w + 1) \div 2]]
<1> DEFINE Upto(n, g) == \A i \in 0..n : g[i] = IF i <= 1 THEN 0 ELSE 1 + g[(i + 1) \div 2]
<1> DEFINE S == {n \in Nat : \E g : Upto(n, g)}
<1>1. S = Nat
  <2>1. 0 \in S
    <3>1. Upto(0, [i \in {0} |-> 0])
      OBVIOUS
    <3> QED BY <3>1
  <2>2. ASSUME NEW n \in S PROVE n + 1 \in S
    <3>1. PICK g : Upto(n, g)
      OBVIOUS
    <3> DEFINE gg == [i \in 0..(n + 1) |->
                        IF i <= 1 THEN 0 ELSE 1 + g[(i + 1) \div 2]]
    <3>2. Upto(n + 1, gg)
      <4> SUFFICES ASSUME NEW i \in 0..(n + 1)
                   PROVE  gg[i] = IF i <= 1 THEN 0 ELSE 1 + gg[(i + 1) \div 2]
        OBVIOUS
      <4>1. i > 1 => (i + 1) \div 2 \in 0..n
        OBVIOUS
      <4>2. i > 1 => gg[(i + 1) \div 2] = g[(i + 1) \div 2]
        BY <3>1, <4>1
      <4> QED BY <4>2
    <3> HIDE DEF gg, Upto
    <3> QED BY <3>2
  <2> HIDE DEF Upto
  <2> QED BY <2>1, <2>2, NatSetInduction
<1>2. \A n \in Nat : \E g : Upto(n, g)
  BY <1>1
<1> DEFINE G(n) == CHOOSE g : Upto(n, g)
           f == [n \in Nat |-> G(n)[n]]
<1>3. ASSUME NEW n \in Nat PROVE Upto(n, G(n))
  <2> HIDE DEF Upto
  <2> QED BY <1>2
<1>4. ASSUME NEW n \in Nat, NEW m \in 0..n PROVE G(n)[m] = G(m)[m]
  <2> DEFINE U == {i \in Nat : i <= m => G(n)[i] = G(m)[i]}
  <2>1. ASSUME NEW i \in Nat, 0..(i - 1) \subseteq U PROVE i \in U
    <3> SUFFICES ASSUME i <= m PROVE G(n)[i] = G(m)[i]
      OBVIOUS
    <3>1. Upto(n, G(n)) /\ Upto(m, G(m))
      BY <1>3
    <3> HIDE DEF G
    <3>2. i > 1 => (i + 1) \div 2 \in 0..(i - 1)
      OBVIOUS
    <3>3. i > 1 => G(n)[(i + 1) \div 2] = G(m)[(i + 1) \div 2]
      BY <2>1, <3>2
    <3> QED BY <3>1, <3>3
  <2> HIDE DEF G
  <2>2. U = Nat
    <3>1. \A i \in Nat : 0..(i - 1) \subseteq U => i \in U
      BY <2>1
    <3> HIDE DEF U
    <3>2. U \subseteq Nat
      BY DEF U
    <3> QED BY <3>1, <3>2, StrongSetInduction
  <2> QED BY <2>2
<1>5. f = [w \in Nat |-> IF w <= 1 THEN 0 ELSE 1 + f[(w + 1) \div 2]]
  <2> SUFFICES ASSUME NEW w \in Nat
               PROVE  f[w] = IF w <= 1 THEN 0 ELSE 1 + f[(w + 1) \div 2]
    OBVIOUS
  <2>1. Upto(w, G(w))
    BY <1>3
  <2>2. w > 1 => G(w)[(w + 1) \div 2] = G((w + 1) \div 2)[(w + 1) \div 2]
    <3> HIDE DEF G
    <3>1. w > 1 => (w + 1) \div 2 \in 0..w
      OBVIOUS
    <3> QED BY <1>4, <3>1
  <2> HIDE DEF G
  <2> QED BY <2>1, <2>2
<1> HIDE DEF f
<1> QED BY <1>5 DEF depth

\* The places above a leaf.
LEMMA AncestorsDef ==
  ASSUME NEW index
  PROVE  Ancestors(index) = [h \in Nat |-> IF h = 0 THEN index ELSE Ancestors(index)[h - 1] \div 2]
<1> DEFINE Upto(n, g) == \A i \in 0..n : g[i] = IF i = 0 THEN index ELSE g[i - 1] \div 2
<1> DEFINE S == {n \in Nat : \E g : Upto(n, g)}
<1>1. S = Nat
  <2>1. 0 \in S
    <3>1. Upto(0, [i \in {0} |-> index])
      OBVIOUS
    <3> QED BY <3>1
  <2>2. ASSUME NEW n \in S PROVE n + 1 \in S
    <3>1. PICK g : Upto(n, g)
      OBVIOUS
    <3> DEFINE gg == [i \in 0..(n + 1) |-> IF i = 0 THEN index ELSE g[i - 1] \div 2]
    <3>2. Upto(n + 1, gg)
      <4> SUFFICES ASSUME NEW i \in 0..(n + 1)
                   PROVE  gg[i] = IF i = 0 THEN index ELSE gg[i - 1] \div 2
        OBVIOUS
      <4>1. i # 0 => gg[i - 1] = g[i - 1]
        BY <3>1
      <4> QED BY <4>1
    <3> HIDE DEF gg, Upto
    <3> QED BY <3>2
  <2> HIDE DEF Upto
  <2> QED BY <2>1, <2>2, NatSetInduction
<1>2. \A n \in Nat : \E g : Upto(n, g)
  BY <1>1
<1> DEFINE G(n) == CHOOSE g : Upto(n, g)
           f == [n \in Nat |-> G(n)[n]]
<1>3. ASSUME NEW n \in Nat PROVE Upto(n, G(n))
  <2> HIDE DEF Upto
  <2> QED BY <1>2
<1>4. ASSUME NEW n \in Nat PROVE G(n + 1)[n] = G(n)[n]
  <2> DEFINE U == {i \in Nat : i <= n => G(n + 1)[i] = G(n)[i]}
  <2>1. 0 \in U
    <3>1. Upto(n, G(n)) /\ Upto(n + 1, G(n + 1))
      <4> HIDE DEF Upto, G
      <4> QED BY <1>3
    <3> HIDE DEF G
    <3> QED BY <3>1
  <2>2. ASSUME NEW i \in U PROVE i + 1 \in U
    <3> SUFFICES ASSUME i + 1 <= n PROVE G(n + 1)[i + 1] = G(n)[i + 1]
      OBVIOUS
    <3>1. Upto(n, G(n)) /\ Upto(n + 1, G(n + 1))
      <4> HIDE DEF Upto, G
      <4> QED BY <1>3
    <3> HIDE DEF G
    <3> QED BY <3>1
  <2> HIDE DEF G
  <2>3. U = Nat
    BY <2>1, <2>2, NatSetInduction
  <2> QED BY <2>3
<1>5. f = [h \in Nat |-> IF h = 0 THEN index ELSE f[h - 1] \div 2]
  <2> SUFFICES ASSUME NEW h \in Nat PROVE f[h] = IF h = 0 THEN index ELSE f[h - 1] \div 2
    OBVIOUS
  <2>1. Upto(h, G(h))
    BY <1>3
  <2>2. h # 0 => G(h)[h - 1] = G(h - 1)[h - 1]
    <3> SUFFICES ASSUME h # 0 PROVE G(h)[h - 1] = G(h - 1)[h - 1]
      OBVIOUS
    <3> HIDE DEF G
    <3>1. G(h - 1 + 1)[h - 1] = G(h - 1)[h - 1]
      BY <1>4
    <3> QED BY <3>1
  <2> HIDE DEF G
  <2> QED BY <2>1, <2>2
<1> HIDE DEF f
<1> QED BY <1>5 DEF Ancestors

\* The node that a step of a path makes of the one below it.
Joined(step, node) == IF step.side = "L" THEN Node(step.hash, node) ELSE Node(node, step.hash)

\* The nodes that a path makes of a leaf.
LEMMA ClimbDef ==
  ASSUME NEW leaf, NEW path
  PROVE  Climb(leaf, path) = [h \in Nat |-> IF h = 0 THEN leaf ELSE Joined(path[h], Climb(leaf, path)[h - 1])]
<1> DEFINE Upto(n, g) == \A i \in 0..n : g[i] = IF i = 0 THEN leaf ELSE Joined(path[i], g[i - 1])
<1> DEFINE S == {n \in Nat : \E g : Upto(n, g)}
<1>1. S = Nat
  <2>1. 0 \in S
    <3>1. Upto(0, [i \in {0} |-> leaf])
      OBVIOUS
    <3> QED BY <3>1
  <2>2. ASSUME NEW n \in S PROVE n + 1 \in S
    <3>1. PICK g : Upto(n, g)
      OBVIOUS
    <3> DEFINE gg == [i \in 0..(n + 1) |-> IF i = 0 THEN leaf ELSE Joined(path[i], g[i - 1])]
    <3>2. Upto(n + 1, gg)
      <4> SUFFICES ASSUME NEW i \in 0..(n + 1)
                   PROVE  gg[i] = IF i = 0 THEN leaf ELSE Joined(path[i], gg[i - 1])
        OBVIOUS
      <4>1. i # 0 => gg[i - 1] = g[i - 1]
        BY <3>1
      <4> QED BY <4>1
    <3> HIDE DEF gg, Upto
    <3> QED BY <3>2
  <2> HIDE DEF Upto
  <2> QED BY <2>1, <2>2, NatSetInduction
<1>2. \A n \in Nat : \E g : Upto(n, g)
  BY <1>1
<1> DEFINE G(n) == CHOOSE g : Upto(n, g)
           f == [n \in Nat |-> G(n)[n]]
<1>3. ASSUME NEW n \in Nat PROVE Upto(n, G(n))
  <2> HIDE DEF Upto
  <2> QED BY <1>2
<1>4. ASSUME NEW n \in Nat PROVE G(n + 1)[n] = G(n)[n]
  <2> DEFINE U == {i \in Nat : i <= n => G(n + 1)[i] = G(n)[i]}
  <2>1. 0 \in U
    BY <1>3
  <2>2. ASSUME NEW i \in U PROVE i + 1 \in U
    <3> SUFFICES ASSUME i + 1 <= n PROVE G(n + 1)[i + 1] = G(n)[i + 1]
      OBVIOUS
    <3>1. Upto(n, G(n)) /\ Upto(n + 1, G(n + 1))
      <4> HIDE DEF Upto, G
      <4> QED BY <1>3
    <3> HIDE DEF G
    <3> QED BY <3>1
  <2> HIDE DEF G
  <2>3. U = Nat
    BY <2>1, <2>2, NatSetInduction
  <2> QED BY <2>3
<1>5. f = [h \in Nat |-> IF h = 0 THEN leaf ELSE Joined(path[h], f[h - 1])]
  <2> SUFFICES ASSUME NEW h \in Nat PROVE f[h] = IF h = 0 THEN leaf ELSE Joined(path[h], f[h - 1])
    OBVIOUS
  <2>1. Upto(h, G(h))
    BY <1>3
  <2>2. h # 0 => G(h)[h - 1] = G(h - 1)[h - 1]
    <3> SUFFICES ASSUME h # 0 PROVE G(h)[h - 1] = G(h - 1)[h - 1]
      OBVIOUS
    <3> HIDE DEF G
    <3>1. G(h - 1 + 1)[h - 1] = G(h - 1)[h - 1]
      BY <1>4
    <3> QED BY <3>1
  <2> HIDE DEF G
  <2> QED BY <2>1, <2>2
<1> HIDE DEF f
<1> QED BY <1>5 DEF Climb, Joined

-----------------------------------------------------------------------------
(* The tree: levels, roots and proofs.                                     *)

\* A tree of one leaf or none has no level above; a wider one has one, and those above it.
LEMMA DepthFacts ==
  /\ \A w \in Nat : depth[w] \in Nat
  /\ \A w \in Nat : w <= 1 => depth[w] = 0
  /\ \A w \in Nat : w > 1 => depth[w] = 1 + depth[(w + 1) \div 2] /\ depth[w] > 0
<1>1. \A w \in Nat : depth[w] = IF w <= 1 THEN 0 ELSE 1 + depth[(w + 1) \div 2]
  <2> DEFINE d == [w \in Nat |-> IF w <= 1 THEN 0 ELSE 1 + depth[(w + 1) \div 2]]
  <2>1. depth = d
    BY DepthDef
  <2>2. \A w \in Nat : d[w] = IF w <= 1 THEN 0 ELSE 1 + depth[(w + 1) \div 2]
    OBVIOUS
  <2> HIDE DEF d
  <2> QED BY <2>1, <2>2
<1> DEFINE S == {w \in Nat : depth[w] \in Nat}
<1>2. S = Nat
  <2>1. ASSUME NEW w \in Nat, 0..(w - 1) \subseteq S PROVE w \in S
    <3>1. w > 1 => (w + 1) \div 2 \in 0..(w - 1)
      OBVIOUS
    <3>2. w > 1 => depth[(w + 1) \div 2] \in Nat
      BY <2>1, <3>1
    <3> QED BY <1>1, <3>2
  <2> QED
    <3>1. \A w \in Nat : 0..(w - 1) \subseteq S => w \in S
      BY <2>1
    <3>2. S \subseteq Nat
      OBVIOUS
    <3> HIDE DEF S
    <3> QED BY <3>1, <3>2, StrongSetInduction
<1>3. \A w \in Nat : depth[w] \in Nat
  BY <1>2
<1>4. ASSUME NEW w \in Nat, w > 1 PROVE depth[w] = 1 + depth[(w + 1) \div 2] /\ depth[w] > 0
  <2>1. (w + 1) \div 2 \in Nat
    BY <1>4
  <2> QED BY <1>1, <1>3, <1>4, <2>1
<1> QED BY <1>1, <1>3, <1>4

\* A list of at least one digest.
Digests(s) == Len(s) \in Nat \ {0} /\ s = [i \in 1..Len(s) |-> s[i]]

\* A level of odd width repeats its last digest.
LEMMA PaddedFacts ==
  ASSUME NEW s, Digests(s)
  PROVE  /\ Digests(Padded(s)) /\ Len(Padded(s)) % 2 = 0
         /\ Len(Padded(s)) \div 2 = (Len(s) + 1) \div 2
         /\ Len(Padded(s)) = 2 * ((Len(s) + 1) \div 2)
         /\ \A i \in 1..Len(s) : Padded(s)[i] = s[i]
<1> DEFINE U == {s[i] : i \in 1..Len(s)}
<1>1. s \in Seq(U) /\ s[Len(s)] \in U
  BY SMT DEF Digests
<1>2. CASE Len(s) % 2 = 1
  <2>1. Padded(s) = Append(s, s[Len(s)])
    BY <1>2 DEF Padded, Last
  <2>2. /\ Append(s, s[Len(s)]) \in Seq(U) /\ Len(Append(s, s[Len(s)])) = Len(s) + 1
        /\ \A i \in 1..Len(s) : Append(s, s[Len(s)])[i] = s[i]
    BY <1>1, AppendProperties
  <2>3. Digests(Append(s, s[Len(s)]))
    BY <2>2, LenProperties DEF Digests
  <2> QED BY <1>2, <2>1, <2>2, <2>3 DEF Digests
<1>3. CASE Len(s) % 2 = 0
  <2>1. Padded(s) = s
    BY <1>3 DEF Padded
  <2>2. Len(s) \in Nat
    BY DEF Digests
  <2>3. Len(s) = 2 * ((Len(s) + 1) \div 2) /\ Len(s) \div 2 = (Len(s) + 1) \div 2
    BY <1>3, <2>2
  <2> QED BY <1>3, <2>1, <2>3
<1> QED BY <1>2, <1>3 DEF Digests

\* The level above has a node for every two digests.
LEMMA AboveFacts ==
  ASSUME NEW s, Digests(s)
  PROVE  /\ Digests(Above(s)) /\ Len(Above(s)) = (Len(s) + 1) \div 2
         /\ \A j \in 1..((Len(s) + 1) \div 2) :
              Above(s)[j] = Node(Padded(s)[2 * j - 1], Padded(s)[2 * j])
<1> DEFINE n == (Len(s) + 1) \div 2
<1>1. Above(s) = [j \in 1..n |-> Node(Padded(s)[2 * j - 1], Padded(s)[2 * j])]
  BY PaddedFacts DEF Above
<1>2. n \in Nat \ {0}
  BY DEF Digests
<1> HIDE DEF n
<1>3. Len(Above(s)) = n
  BY <1>1, <1>2
<1>4. Digests(Above(s))
  BY <1>1, <1>2, <1>3 DEF Digests
<1> QED BY <1>1, <1>3, <1>4 DEF n

\* Every level is a list of digests, each made of the one below.
LEMMA LevelFacts ==
  ASSUME NEW s, Digests(s)
  PROVE  /\ Levels(s)[0] = s
         /\ \A h \in Nat : Digests(Levels(s)[h]) /\ Levels(s)[h + 1] = Above(Levels(s)[h])
<1> DEFINE L == Levels(s)
           e == [h \in Nat |-> IF h = 0 THEN s ELSE Above(L[h - 1])]
<1>1. L = e
  BY LevelsDef
<1>2. e[0] = s /\ \A h \in Nat : e[h + 1] = Above(L[h])
  OBVIOUS
<1> HIDE DEF e, L
<1>3. L[0] = s /\ \A h \in Nat : L[h + 1] = Above(L[h])
  BY <1>1, <1>2
<1> DEFINE S == {h \in Nat : Digests(L[h])}
<1>4. S = Nat
  <2>1. 0 \in S
    BY <1>3
  <2>2. ASSUME NEW h \in S PROVE h + 1 \in S
    <3>1. Digests(Above(L[h]))
      BY AboveFacts
    <3> QED BY <1>3, <3>1
  <2> QED BY <2>1, <2>2, NatSetInduction
<1>5. \A h \in Nat : Digests(L[h])
  BY <1>4
<1> QED BY <1>3, <1>5 DEF L

\* As far as the root, a level has the depth that is left.
LEMMA DepthOfLevels ==
  ASSUME NEW s, Digests(s)
  PROVE  /\ \A h \in 0..depth[Len(s)] : depth[Len(Levels(s)[h])] = depth[Len(s)] - h
         /\ Len(Levels(s)[depth[Len(s)]]) = 1
<1> DEFINE L == Levels(s)
<1>1. L[0] = s /\ \A h \in Nat : Len(L[h]) \in Nat \ {0} /\ Len(L[h + 1]) = (Len(L[h]) + 1) \div 2
  <2>1. L[0] = s /\ \A h \in Nat : Digests(L[h]) /\ L[h + 1] = Above(L[h])
    BY LevelFacts
  <2> SUFFICES ASSUME NEW h \in Nat
               PROVE  Len(L[h]) \in Nat \ {0} /\ Len(L[h + 1]) = (Len(L[h]) + 1) \div 2
    BY <2>1
  <2>2. Digests(L[h]) /\ L[h + 1] = Above(L[h])
    BY <2>1
  <2> HIDE DEF L
  <2>3. Len(Above(L[h])) = (Len(L[h]) + 1) \div 2
    BY <2>2, AboveFacts
  <2> QED BY <2>2, <2>3 DEF Digests
<1> HIDE DEF L
<1> DEFINE top == depth[Len(s)]
<1>0. top \in Nat
  BY DepthFacts DEF Digests
<1> DEFINE S == {h \in Nat : h <= top => depth[Len(L[h])] = top - h}
<1>2. S = Nat
  <2>1. 0 \in S
    BY <1>0, <1>1
  <2>2. ASSUME NEW h \in S PROVE h + 1 \in S
    <3> SUFFICES ASSUME h + 1 <= top PROVE depth[Len(L[h + 1])] = top - (h + 1)
      OBVIOUS
    <3> HIDE DEF top
    <3>1. depth[Len(L[h])] = top - h /\ Len(L[h]) \in Nat
      BY <1>0, <1>1
    <3>2. Len(L[h]) > 1
      BY <1>0, <3>1, DepthFacts
    <3>3. depth[Len(L[h])] = 1 + depth[Len(L[h + 1])]
      BY <1>1, <3>1, <3>2, DepthFacts
    <3>4. depth[Len(L[h + 1])] \in Nat
      BY <1>1, DepthFacts
    <3> QED BY <1>0, <3>1, <3>3, <3>4
  <2> QED
    <3> HIDE DEF top
    <3> QED BY <2>1, <2>2, NatSetInduction
<1>3. \A h \in 0..top : depth[Len(L[h])] = top - h
  <2> HIDE DEF top
  <2> QED BY <1>2, <1>0
<1>4. Len(L[top]) = 1
  <2> DEFINE w == Len(L[top])
  <2>1. w \in Nat \ {0}
    <3> HIDE DEF top
    <3> QED BY <1>0, <1>1
  <2>2. depth[w] = 0
    <3> HIDE DEF top
    <3>1. depth[Len(L[top])] = top - top
      BY <1>0, <1>3
    <3> QED BY <1>0, <3>1
  <2>3. \A v \in Nat : v > 1 => depth[v] > 0
    BY DepthFacts
  <2> HIDE DEF w
  <2>4. w = 1
    BY <2>1, <2>2, <2>3
  <2> QED BY <2>4 DEF w
<1> QED BY <1>3, <1>4 DEF L

\* The place above one of a level of n digests.
LEMMA HalfBelow ==
  ASSUME NEW n \in Nat, NEW a \in 0..(n - 1)
  PROVE  /\ a \div 2 \in 0..((n + 1) \div 2 - 1) /\ a \div 2 + 1 \in 1..((n + 1) \div 2)
         /\ a + 1 \in 1..n
OBVIOUS

\* A node is made of two digests only.
LEMMA NodeInjective ==
  ASSUME NEW a, NEW b, NEW c, NEW d, Node(a, b) = Node(c, d)
  PROVE  a = c /\ b = d
<1>1. Node(a, b).left = Node(c, d).left /\ Node(a, b).right = Node(c, d).right
  OBVIOUS
<1> QED BY <1>1 DEF Node

\* Two levels of one width with the same level above are the same.
LEMMA AboveInjective ==
  ASSUME NEW s, NEW t, Digests(s), Digests(t), Len(s) = Len(t), Above(s) = Above(t)
  PROVE  s = t
<1> DEFINE n == (Len(s) + 1) \div 2
<1>1. ASSUME NEW j \in 1..n
      PROVE  Padded(s)[2 * j - 1] = Padded(t)[2 * j - 1] /\ Padded(s)[2 * j] = Padded(t)[2 * j]
  <2>1. Above(s)[j] = Node(Padded(s)[2 * j - 1], Padded(s)[2 * j])
    BY AboveFacts
  <2>2. Above(t)[j] = Node(Padded(t)[2 * j - 1], Padded(t)[2 * j])
    BY AboveFacts
  <2>3. Node(Padded(s)[2 * j - 1], Padded(s)[2 * j]) = Node(Padded(t)[2 * j - 1], Padded(t)[2 * j])
    BY <2>1, <2>2
  <2> QED BY ONLY <2>3, NodeInjective
<1>2. ASSUME NEW i \in 1..Len(s) PROVE s[i] = t[i]
  <2>1. Padded(s)[i] = s[i] /\ Padded(t)[i] = t[i]
    BY PaddedFacts
  <2>2. Len(s) \in Nat /\ (i + 1) \div 2 \in 1..n
    BY DEF Digests
  <2>3. i = 2 * ((i + 1) \div 2) - 1 \/ i = 2 * ((i + 1) \div 2)
    OBVIOUS
  <2> HIDE DEF n
  <2> QED BY <1>1, <2>1, <2>2, <2>3
<1> QED BY <1>2 DEF Digests

\* Lists of one length with one root are one list.
LEMMA RootInjective ==
  ASSUME NEW s, NEW t, Digests(s), Digests(t), Len(s) = Len(t), merkle_root(s) = merkle_root(t)
  PROVE  s = t
<1> DEFINE L == Levels(s)
           M == Levels(t)
           top == depth[Len(s)]
<1>1. /\ L[0] = s /\ \A h \in Nat : Digests(L[h]) /\ L[h + 1] = Above(L[h])
      /\ M[0] = t /\ \A h \in Nat : Digests(M[h]) /\ M[h + 1] = Above(M[h])
  BY LevelFacts
<1>2. top \in Nat
  BY DepthFacts DEF Digests
<1>3. Len(L[top]) = 1 /\ Len(M[top]) = 1 /\ L[top][1] = M[top][1]
  BY DepthOfLevels DEF merkle_root
<1> HIDE DEF L, M, top
<1>4. \A h \in Nat : Len(L[h]) = Len(M[h])
  <2> DEFINE S == {h \in Nat : Len(L[h]) = Len(M[h])}
  <2>1. 0 \in S
    BY <1>1
  <2>2. ASSUME NEW h \in S PROVE h + 1 \in S
    <3>1. Len(Above(L[h])) = (Len(L[h]) + 1) \div 2 /\ Len(Above(M[h])) = (Len(M[h]) + 1) \div 2
      <4>1. Digests(L[h]) /\ Digests(M[h])
        BY <1>1
      <4> QED BY ONLY <4>1, AboveFacts
    <3>2. L[h + 1] = Above(L[h]) /\ M[h + 1] = Above(M[h]) /\ Len(L[h]) = Len(M[h])
      BY <1>1
    <3>3. Len(L[h + 1]) = Len(M[h + 1])
      BY ONLY <3>1, <3>2
    <3> QED BY <3>3
  <2>3. S = Nat
    BY <2>1, <2>2, NatSetInduction
  <2> QED BY <2>3
<1> DEFINE S == {h \in Nat : h <= top => L[top - h] = M[top - h]}
<1>5. S = Nat
  <2>1. L[top] = M[top]
    <3>1. Digests(L[top]) /\ Digests(M[top])
      BY <1>1, <1>2
    <3>2. L[top] = [i \in 1..1 |-> L[top][i]] /\ M[top] = [i \in 1..1 |-> M[top][i]]
      BY <1>3, <3>1 DEF Digests
    <3>3. \A i \in 1..1 : L[top][i] = M[top][i]
      BY <1>3
    <3> QED BY <3>2, <3>3
  <2>2. 0 \in S
    BY <1>2, <2>1
  <2>3. ASSUME NEW h \in S PROVE h + 1 \in S
    <3> SUFFICES ASSUME h + 1 <= top PROVE L[top - (h + 1)] = M[top - (h + 1)]
      OBVIOUS
    <3> DEFINE g == top - (h + 1)
    <3>1. g \in Nat /\ g + 1 = top - h
      BY <1>2
    <3>2. L[g + 1] = M[g + 1]
      BY <1>2, <3>1
    <3> HIDE DEF g
    <3>3. Digests(L[g]) /\ Digests(M[g]) /\ Len(L[g]) = Len(M[g]) /\ Above(L[g]) = Above(M[g])
      BY <1>1, <1>4, <3>1, <3>2
    <3>4. L[g] = M[g]
      BY <3>3, AboveInjective
    <3> QED BY <3>4 DEF g
  <2> QED BY <2>2, <2>3, NatSetInduction
<1>6. L[top - top] = M[top - top]
  BY <1>2, <1>5
<1>7. top - top = 0
  BY <1>2
<1> QED BY <1>1, <1>6, <1>7

\* A proof for the leaf at i leads that leaf to the root, and no other.
LEMMA ProofLeads ==
  ASSUME NEW s, Digests(s), NEW i \in 1..Len(s), NEW leaf
  PROVE  verify_proof(leaf, build_proof(s, i - 1), merkle_root(s)) <=> leaf = s[i]
<1> DEFINE L == Levels(s)
           A == Ancestors(i - 1)
           top == depth[Len(s)]
           path == build_proof(s, i - 1).path
           C == Climb(leaf, path)
<1>0. Len(s) \in Nat \ {0} /\ top \in Nat
  BY DepthFacts DEF Digests
<1>1. L[0] = s /\ \A h \in Nat : Digests(L[h]) /\ L[h + 1] = Above(L[h])
  BY LevelFacts
<1>2. Len(L[top]) = 1 /\ merkle_root(s) = L[top][1]
  BY DepthOfLevels DEF merkle_root
<1>3. A[0] = i - 1 /\ \A h \in Nat : A[h + 1] = A[h] \div 2
  <2> DEFINE e == [h \in Nat |-> IF h = 0 THEN i - 1 ELSE A[h - 1] \div 2]
  <2>1. A = e
    BY AncestorsDef
  <2>2. e[0] = i - 1 /\ \A h \in Nat : e[h + 1] = A[h] \div 2
    <3> HIDE DEF A
    <3> QED OBVIOUS
  <2> HIDE DEF e, A
  <2> QED BY <2>1, <2>2
<1>4. C[0] = leaf /\ \A h \in Nat : C[h + 1] = Joined(path[h + 1], C[h])
  <2> DEFINE e == [h \in Nat |-> IF h = 0 THEN leaf ELSE Joined(path[h], C[h - 1])]
  <2> HIDE DEF path
  <2>1. C = e
    BY ClimbDef
  <2>2. e[0] = leaf /\ \A h \in Nat : e[h + 1] = Joined(path[h + 1], C[h])
    <3> HIDE DEF C
    <3> QED OBVIOUS
  <2> HIDE DEF e, C
  <2> QED BY <2>1, <2>2
<1>5. /\ path = [h \in 1..top |-> Sibling(Padded(L[h - 1]), A[h - 1])]
      /\ build_proof(s, i - 1).index = i - 1 /\ build_proof(s, i - 1).leaf_count = Len(s)
  BY DEF build_proof
<1>6. Len(path) = top
  <2> HIDE DEF top, L, A, path
  <2> QED BY <1>0, <1>5
<1>7. verify_proof(leaf, build_proof(s, i - 1), merkle_root(s)) <=> C[top] = L[top][1]
  <2>1. i - 1 \in 0..(Len(s) - 1)
    BY <1>0
  <2>2. Len(build_proof(s, i - 1).path) = depth[build_proof(s, i - 1).leaf_count]
    BY <1>5, <1>6
  <2>3. Climb(leaf, build_proof(s, i - 1).path)[Len(build_proof(s, i - 1).path)] = C[top]
    BY <1>6
  <2> HIDE DEF C, path, top, L
  <2> QED BY <1>2, <1>5, <2>1, <2>2, <2>3 DEF verify_proof
<1>8. \A h \in 0..(top - 1) : path[h + 1] = Sibling(Padded(L[h]), A[h])
  <2> HIDE DEF top, L, A, path
  <2> QED BY <1>0, <1>5
<1> HIDE DEF L, A, top, path, C
<1>9. ASSUME NEW h \in Nat PROVE Len(Above(L[h])) = (Len(L[h]) + 1) \div 2 /\ Len(L[h]) \in Nat \ {0}
  BY <1>1, AboveFacts DEF Digests
<1> DEFINE S == {h \in Nat : A[h] \in 0..(Len(L[h]) - 1)}
<1>10. S = Nat
  <2>1. 0 \in S
    <3>1. A[0] = i - 1 /\ L[0] = s
      BY <1>1, <1>3
    <3>2. i - 1 \in 0..(Len(s) - 1)
      BY <1>0
    <3> QED BY <3>1, <3>2
  <2>2. ASSUME NEW h \in S PROVE h + 1 \in S
    <3>1. Len(L[h + 1]) = (Len(L[h]) + 1) \div 2 /\ Len(L[h]) \in Nat \ {0}
      BY <1>1, <1>9
    <3>2. A[h + 1] = A[h] \div 2 /\ A[h] \in 0..(Len(L[h]) - 1)
      BY <1>3
    <3>3. A[h] \div 2 \in 0..((Len(L[h]) + 1) \div 2 - 1)
      BY ONLY <3>1, <3>2, HalfBelow
    <3>4. A[h + 1] \in 0..(Len(L[h + 1]) - 1)
      BY ONLY <3>1, <3>2, <3>3
    <3> QED BY <3>4
  <2> QED BY <2>1, <2>2, NatSetInduction
<1> DEFINE T == {h \in Nat : h <= top => (C[h] = L[h][A[h] + 1] <=> leaf = s[i])}
<1>11. T = Nat
  <2>1. 0 \in T
    <3>1. A[0] + 1 = i
      BY <1>3
    <3> QED BY <1>1, <1>3, <1>4, <3>1
  <2>2. ASSUME NEW h \in T PROVE h + 1 \in T
    <3> SUFFICES ASSUME h + 1 <= top
                 PROVE  C[h + 1] = L[h + 1][A[h + 1] + 1] <=> leaf = s[i]
      OBVIOUS
    <3> DEFINE P == Padded(L[h])
               j == A[h] \div 2 + 1
    <3>0. h \in 0..(top - 1)
      BY <1>0
    <3>1. C[h] = L[h][A[h] + 1] <=> leaf = s[i]
      BY <1>0
    <3>2. A[h] \in 0..(Len(L[h]) - 1) /\ Len(L[h]) \in Nat \ {0} /\ Digests(L[h])
      BY <1>1, <1>9, <1>10
    <3>3. P[A[h] + 1] = L[h][A[h] + 1]
      <4>1. A[h] + 1 \in 1..Len(L[h])
        BY ONLY <3>2, HalfBelow
      <4> QED BY ONLY <3>2, <4>1, PaddedFacts DEF P
    <3>4. j \in 1..((Len(L[h]) + 1) \div 2)
      BY ONLY <3>2, HalfBelow DEF j
    <3>5. L[h + 1][A[h + 1] + 1] = Node(P[2 * j - 1], P[2 * j])
      <4>1. L[h + 1] = Above(L[h]) /\ A[h + 1] + 1 = j
        BY <1>1, <1>3
      <4>2. Above(L[h])[j] = Node(P[2 * j - 1], P[2 * j])
        <5> HIDE DEF j
        <5> QED BY ONLY <3>2, <3>4, AboveFacts DEF P
      <4> QED BY <4>1, <4>2
    <3>6. C[h + 1] = Joined(Sibling(P, A[h]), C[h])
      BY <1>4, <1>8, <3>0
    <3> HIDE DEF P
    <3>7. CASE A[h] % 2 = 0
      <4>1. 2 * j - 1 = A[h] + 1 /\ 2 * j = A[h] + 2
        BY <3>2, <3>7
      <4>2. C[h + 1] = Node(C[h], P[A[h] + 2])
        BY <3>6, <3>7 DEF Joined, Sibling
      <4>3. L[h + 1][A[h + 1] + 1] = Node(L[h][A[h] + 1], P[A[h] + 2])
        BY <3>3, <3>5, <4>1
      <4> QED BY <3>1, <4>2, <4>3, NodeInjective
    <3>8. CASE A[h] % 2 = 1
      <4>1. 2 * j - 1 = A[h] /\ 2 * j = A[h] + 1
        BY <3>2, <3>8
      <4>2. C[h + 1] = Node(P[A[h]], C[h])
        BY <3>6, <3>8 DEF Joined, Sibling
      <4>3. L[h + 1][A[h + 1] + 1] = Node(P[A[h]], L[h][A[h] + 1])
        BY <3>3, <3>5, <4>1
      <4> QED BY <3>1, <4>2, <4>3, NodeInjective
    <3> QED BY <3>2, <3>7, <3>8
  <2> QED BY <2>1, <2>2, NatSetInduction
<1>12. A[top] \in 0..0
  <2>1. A[top] \in 0..(Len(L[top]) - 1)
    BY <1>0, <1>10
  <2> QED BY <1>2, <2>1
<1>13. C[top] = L[top][A[top] + 1] <=> leaf = s[i]
  BY <1>0, <1>11
<1> QED BY <1>7, <1>12, <1>13

-----------------------------------------------------------------------------
(* The verifier's tree is the ledger's.                                    *)

\* The verifier counts the same levels.
LEMMA VDepth == V!depth = depth
<1> DEFINE e(g) == [w \in Nat |-> IF w > 1 THEN 1 + g[(w + 1) \div 2] ELSE 0]
<1>1. depth = e(depth)
  <2> DEFINE d == [w \in Nat |-> IF w <= 1 THEN 0 ELSE 1 + depth[(w + 1) \div 2]]
  <2>1. depth = d
    BY DepthDef
  <2>2. d = e(depth)
    OBVIOUS
  <2> HIDE DEF d, e
  <2> QED BY <2>1, <2>2
<1>2. V!depth = CHOOSE g : g = e(g)
  BY DEF V!depth
<1>3. V!depth = e(V!depth)
  <2> HIDE DEF e
  <2> QED BY <1>1, <1>2
<1>4. \A w \in Nat : V!depth[w] = IF w > 1 THEN 1 + V!depth[(w + 1) \div 2] ELSE 0
  <2> DEFINE v == V!depth
  <2>1. v = [w \in Nat |-> IF w > 1 THEN 1 + v[(w + 1) \div 2] ELSE 0]
    BY <1>3
  <2> HIDE DEF v
  <2>2. \A w \in Nat : v[w] = IF w > 1 THEN 1 + v[(w + 1) \div 2] ELSE 0
    BY <2>1
  <2> QED BY <2>2 DEF v
<1> DEFINE S == {w \in Nat : V!depth[w] = depth[w]}
<1>5. S = Nat
  <2>1. ASSUME NEW w \in Nat, 0..(w - 1) \subseteq S PROVE w \in S
    <3>1. w > 1 => (w + 1) \div 2 \in 0..(w - 1)
      OBVIOUS
    <3>2. w > 1 => V!depth[(w + 1) \div 2] = depth[(w + 1) \div 2]
      BY <2>1, <3>1
    <3>3. depth[w] = IF w > 1 THEN 1 + depth[(w + 1) \div 2] ELSE 0
      BY DepthFacts
    <3> QED BY <1>4, <3>2, <3>3
  <2>2. \A w \in Nat : 0..(w - 1) \subseteq S => w \in S
    BY <2>1
  <2>3. S \subseteq Nat
    OBVIOUS
  <2> HIDE DEF S
  <2> QED BY <2>2, <2>3, StrongSetInduction
<1>6. \A w \in Nat : V!depth[w] = depth[w]
  BY <1>5
<1> HIDE DEF e
<1>7. DOMAIN V!depth = Nat /\ DOMAIN depth = Nat
  BY <1>1, <1>3 DEF e
<1>8. V!depth = [w \in Nat |-> V!depth[w]] /\ depth = [w \in Nat |-> depth[w]]
  BY <1>1, <1>3 DEF e
<1> QED BY <1>6, <1>8

\* It pads and pairs a level as the ledger does.
LEMMA VNextLevel ==
  ASSUME NEW s, Digests(s)
  PROVE  V!NextLevel(s) = Above(s)
<1>1. Len(s) \in Nat /\ (Len(s) % 2 = 0 \/ Len(s) % 2 = 1)
  BY DEF Digests
<1>2. V!Even(s) = Padded(s)
  BY <1>1 DEF V!Even, Padded, Last, V!Last
<1>3. \A a, b : V!node(a, b) = Node(a, b)
  BY DEF V!node, Node
<1> QED BY <1>2, <1>3, PaddedFacts DEF V!NextLevel, Above

\* The two programs find the same root of the same digests (merkle.py and
\* hashguard_verify.py write the tree twice).
LEMMA VRoot ==
  ASSUME NEW s, Digests(s)
  PROVE  V!merkle_root(s) = merkle_root(s)
<1> DEFINE e(g) == [h \in Nat |-> IF h = 0 THEN s ELSE V!NextLevel(g[h - 1])]
           L == Levels(s)
           M == CHOOSE g : g = e(g)
<1>1. L[0] = s /\ \A h \in Nat : Digests(L[h]) /\ L[h + 1] = Above(L[h])
  BY LevelFacts
<1>2. L = e(L)
  <2> DEFINE d == [h \in Nat |-> IF h = 0 THEN s ELSE Above(L[h - 1])]
  <2>1. L = d
    BY LevelsDef
  <2> HIDE DEF L
  <2>2. \A h \in Nat : h # 0 => V!NextLevel(L[h - 1]) = Above(L[h - 1])
    BY <1>1, VNextLevel
  <2>3. d = e(L)
    BY <2>2
  <2> HIDE DEF d, e
  <2> QED BY <2>1, <2>3
<1>3. M = e(M)
  <2> HIDE DEF e, L
  <2> QED BY <1>2
<1>4. M[0] = s /\ \A h \in Nat : M[h + 1] = V!NextLevel(M[h])
  <2> HIDE DEF M
  <2>1. M = [h \in Nat |-> IF h = 0 THEN s ELSE V!NextLevel(M[h - 1])]
    BY <1>3
  <2> QED BY <2>1
<1> DEFINE S == {h \in Nat : M[h] = L[h]}
<1> HIDE DEF M, L, e
<1>5. S = Nat
  <2>1. 0 \in S
    BY <1>1, <1>4
  <2>2. ASSUME NEW h \in S PROVE h + 1 \in S
    <3>1. V!NextLevel(L[h]) = Above(L[h])
      BY <1>1, VNextLevel
    <3> QED BY <1>1, <1>4, <3>1
  <2> QED BY <2>1, <2>2, NatSetInduction
<1>6. depth[Len(s)] \in Nat
  BY DepthFacts DEF Digests
<1>7. V!merkle_root(s) = M[V!depth[Len(s)]][1]
  BY DEF V!merkle_root, M, e
<1> QED BY <1>5, <1>6, <1>7, VDepth DEF merkle_root, L

\* The verifier accepts every proof that the package accepts.
LEMMA VProof ==
  ASSUME NEW leaf, NEW proof, NEW root, proof.index \in Int, proof.leaf_count \in Nat,
         Len(proof.path) \in Nat, verify_proof(leaf, proof, root)
  PROVE  V!verify_proof(leaf, proof, root)
<1> DEFINE path == proof.path
           e(g) == [h \in Nat |->
             IF h > 0
             THEN IF path[h].side = "L" THEN V!node(path[h].hash, g[h - 1]) ELSE V!node(g[h - 1], path[h].hash)
             ELSE leaf]
           C == Climb(leaf, path)
           M == CHOOSE g : g = e(g)
<1>1. C[0] = leaf /\ \A h \in Nat : C[h + 1] = Joined(path[h + 1], C[h])
  <2> DEFINE d == [h \in Nat |-> IF h = 0 THEN leaf ELSE Joined(path[h], C[h - 1])]
  <2> HIDE DEF path
  <2>1. C = d
    BY ClimbDef
  <2>2. d[0] = leaf /\ \A h \in Nat : d[h + 1] = Joined(path[h + 1], C[h])
    <3> HIDE DEF C
    <3> QED OBVIOUS
  <2> HIDE DEF d, C
  <2> QED BY <2>1, <2>2
<1>2. C = e(C)
  <2> DEFINE d == [h \in Nat |-> IF h = 0 THEN leaf ELSE Joined(path[h], C[h - 1])]
  <2> HIDE DEF path
  <2>1. C = d
    BY ClimbDef
  <2>2. d = e(C)
    <3> HIDE DEF C
    <3> QED BY DEF Joined, V!node, Node
  <2> HIDE DEF d, e, C
  <2> QED BY <2>1, <2>2
<1> HIDE DEF path
<1>3. M = e(M)
  <2> HIDE DEF e, C
  <2> QED BY <1>2
<1>4. M[0] = leaf /\ \A h \in Nat : M[h + 1] = Joined(path[h + 1], M[h])
  <2> HIDE DEF M
  <2>1. M = [h \in Nat |->
             IF h > 0
             THEN IF path[h].side = "L" THEN V!node(path[h].hash, M[h - 1]) ELSE V!node(M[h - 1], path[h].hash)
             ELSE leaf]
    BY <1>3
  <2>2. \A a, b : V!node(a, b) = Node(a, b)
    BY DEF V!node, Node
  <2> QED BY <2>1, <2>2 DEF Joined
<1> DEFINE S == {h \in Nat : M[h] = C[h]}
<1> HIDE DEF M, C, e
<1>5. S = Nat
  <2>1. 0 \in S
    BY <1>1, <1>4
  <2>2. \A h \in S : h + 1 \in S
    BY <1>1, <1>4
  <2> QED BY <2>1, <2>2, NatSetInduction
<1>6. M[Len(path)] = root
  <2>1. C[Len(path)] = root /\ Len(path) \in Nat
    BY DEF verify_proof, C, path
  <2> QED BY <1>5, <2>1
<1>7. M = CHOOSE cur : cur = [h \in Nat |->
             IF h > 0
             THEN IF proof.path[h].side = "L"
                  THEN V!node(proof.path[h].hash, cur[h - 1])
                  ELSE V!node(cur[h - 1], proof.path[h].hash)
             ELSE leaf]
  BY DEF M, e, path
<1>8. 0 <= proof.index /\ proof.index < proof.leaf_count /\ Len(proof.path) = V!depth[proof.leaf_count]
  BY VDepth DEF verify_proof
<1> QED BY <1>6, <1>7, <1>8 DEF V!verify_proof, path

-----------------------------------------------------------------------------
(* A sum over a finite set.                                                *)

\* The element that a choice picks first.
Some(s) == CHOOSE x \in s : TRUE

\* The sums over the subsets of a domain, one step of their recursion.
SumStep(f, g) ==
  [s \in SUBSET DOMAIN f |-> IF s = {} THEN 0 ELSE f[Some(s)] + g[s \ {Some(s)}]]

\* The sum over each subset of the domain of f.
SumsOf(f) == CHOOSE g : g = SumStep(f, g)

\* The empty set is of no other size than zero.
LEMMA EmptyIsOfNone == ASSUME NEW n \in Nat PROVE Cardinality({}) # n + 1
<1>1. Cardinality({}) = 0
  BY FS_EmptySet
<1> QED BY <1>1

\* The fold of the community modules is the sum over the whole domain.
LEMMA SumIsOfAll ==
  ASSUME NEW f
  PROVE  SumOf(f) = SumsOf(f)[DOMAIN f]
BY DEF SumOf, FoldFunction, FoldFunctionOnSet, MapThenFoldSet, SumsOf, SumStep, Some

\* Over a finite domain the recursion defines a function.
LEMMA SumsDef ==
  ASSUME NEW f, IsFiniteSet(DOMAIN f)
  PROVE  SumsOf(f) = SumStep(f, SumsOf(f))
<1> DEFINE S == DOMAIN f
           Val(s, g) == IF s = {} THEN 0 ELSE f[Some(s)] + g[s \ {Some(s)}]
           Upto(n, g) == \A s \in SUBSET S : Cardinality(s) <= n => g[s] = Val(s, g)
           N == {n \in Nat : \E g : Upto(n, g)}
<1>0. \A s \in SUBSET S : IsFiniteSet(s) /\ Cardinality(s) \in Nat
  BY FS_Subset, FS_CardinalityType
<1>1. N = Nat
  <2>1. 0 \in N
    <3>1. \A s \in SUBSET S : Cardinality(s) <= 0 => s = {}
      BY <1>0, FS_EmptySet
    <3>2. Upto(0, [s \in SUBSET S |-> 0])
      BY <3>1
    <3> QED BY <3>2
  <2>2. ASSUME NEW n \in N PROVE n + 1 \in N
    <3>1. PICK g : Upto(n, g)
      OBVIOUS
    <3> DEFINE h == [s \in SUBSET S |-> Val(s, g)]
    <3>2. ASSUME NEW s \in SUBSET S, Cardinality(s) <= n + 1 PROVE h[s] = Val(s, h)
      <4>1. CASE s = {}
        BY <4>1
      <4>2. CASE s # {}
        <5> DEFINE x == Some(s)
        <5>1. x \in s
          BY <4>2 DEF Some
        <5>2. Cardinality(s \ {x}) = Cardinality(s) - 1
          BY <1>0, <5>1, FS_RemoveElement
        <5>3. g[s \ {x}] = Val(s \ {x}, g)
          <6>1. s \ {x} \in SUBSET S /\ Cardinality(s \ {x}) <= n
            BY <1>0, <3>2, <5>2
          <6> HIDE DEF x, Val
          <6> QED BY <3>1, <6>1
        <5>4. h[s \ {x}] = Val(s \ {x}, g)
          BY <5>1
        <5> HIDE DEF Val
        <5>5. h[s] = Val(s, g)
          OBVIOUS
        <5> QED BY <4>2, <5>3, <5>4, <5>5 DEF Val
      <4> QED BY <4>1, <4>2
    <3>3. Upto(n + 1, h)
      <4> HIDE DEF h, Val
      <4> QED BY <3>2
    <3> HIDE DEF h, Upto
    <3> QED BY <3>3
  <2> HIDE DEF Upto
  <2> QED BY <2>1, <2>2, NatSetInduction
<1>2. PICK g : Upto(Cardinality(S), g)
  <2> HIDE DEF Upto, S
  <2>1. Cardinality(S) \in Nat
    BY <1>0
  <2> QED BY <1>1, <2>1
<1>3. ASSUME NEW s \in SUBSET S PROVE g[s] = Val(s, g)
  <2>1. Cardinality(s) <= Cardinality(S)
    BY FS_Subset
  <2> QED BY <1>2, <2>1
<1> DEFINE h == [s \in SUBSET S |-> g[s]]
<1>4. h = SumStep(f, h)
  <2> SUFFICES ASSUME NEW s \in SUBSET S PROVE g[s] = Val(s, h)
    BY DEF SumStep
  <2>1. s # {} => h[s \ {Some(s)}] = g[s \ {Some(s)}]
    OBVIOUS
  <2> HIDE DEF h
  <2> QED BY <1>3, <2>1
<1> HIDE DEF h
<1> QED BY <1>4 DEF SumsOf

\* The sum of a finite set is that of any of its elements and of the rest.
LEMMA SumsFacts ==
  ASSUME NEW f, IsFiniteSet(DOMAIN f), \A x \in DOMAIN f : f[x] \in Int
  PROVE  /\ SumsOf(f)[{}] = 0
         /\ \A s \in SUBSET DOMAIN f : SumsOf(f)[s] \in Int
         /\ \A s \in SUBSET DOMAIN f : \A x \in s : SumsOf(f)[s] = f[x] + SumsOf(f)[s \ {x}]
<1> DEFINE G == SumsOf(f)
           S == DOMAIN f
<1>0. \A s \in SUBSET S : IsFiniteSet(s) /\ Cardinality(s) \in Nat
  BY FS_Subset, FS_CardinalityType
<1>1. \A s \in SUBSET S : G[s] = IF s = {} THEN 0 ELSE f[Some(s)] + G[s \ {Some(s)}]
  <2>1. G = SumStep(f, G)
    BY SumsDef
  <2> HIDE DEF G
  <2> QED BY <2>1 DEF SumStep
<1>2. \A s \in SUBSET S : s # {} => Some(s) \in s
  BY DEF Some
<1> HIDE DEF G
<1> DEFINE N == {n \in Nat : \A s \in SUBSET S : Cardinality(s) = n => G[s] \in Int}
<1>3. N = Nat
  <2>1. 0 \in N
    <3> SUFFICES ASSUME NEW s \in SUBSET S, Cardinality(s) = 0 PROVE G[s] \in Int
      OBVIOUS
    <3>1. s = {}
      BY <1>0, FS_EmptySet
    <3>2. G[s] = 0
      BY <1>1, <3>1
    <3> QED BY <3>2
  <2>2. ASSUME NEW n \in N PROVE n + 1 \in N
    <3> SUFFICES ASSUME NEW s \in SUBSET S, Cardinality(s) = n + 1 PROVE G[s] \in Int
      OBVIOUS
    <3>1. s # {}
      BY EmptyIsOfNone
    <3>2. Some(s) \in s
      BY <1>2, <3>1
    <3>3. Cardinality(s \ {Some(s)}) = n
      BY <1>0, <3>2, FS_RemoveElement
    <3>4. G[s \ {Some(s)}] \in Int /\ f[Some(s)] \in Int
      BY <3>2, <3>3
    <3> QED BY <1>1, <3>1, <3>4
  <2> HIDE DEF S
  <2> QED BY <2>1, <2>2, NatSetInduction
<1>4. \A s \in SUBSET S : G[s] \in Int
  BY <1>0, <1>3
<1> DEFINE M == {n \in Nat : \A s \in SUBSET S : Cardinality(s) = n => \A x \in s : G[s] = f[x] + G[s \ {x}]}
<1>5. M = Nat
  <2>1. 0 \in M
    <3> SUFFICES ASSUME NEW s \in SUBSET S, Cardinality(s) = 0 PROVE s = {}
      OBVIOUS
    <3> QED BY <1>0, FS_EmptySet
  <2>2. ASSUME NEW n \in M PROVE n + 1 \in M
    <3> SUFFICES ASSUME NEW s \in SUBSET S, Cardinality(s) = n + 1, NEW x \in s
                 PROVE  G[s] = f[x] + G[s \ {x}]
      OBVIOUS
    <3> DEFINE y == Some(s)
    <3>1. y \in s /\ s # {}
      BY <1>2
    <3>2. G[s] = f[y] + G[s \ {y}]
      BY <1>1, <3>1
    <3> HIDE DEF y
    <3>3. CASE x = y
      BY <3>2, <3>3
    <3>4. CASE x # y
      <4>1. Cardinality(s \ {x}) = n /\ Cardinality(s \ {y}) = n
        <5>1. IsFiniteSet(s) /\ x \in s /\ y \in s /\ Cardinality(s) = n + 1 /\ n \in Nat
          BY <1>0, <3>1
        <5>2. Cardinality(s \ {x}) = Cardinality(s) - 1
          BY ONLY <5>1, FS_RemoveElement
        <5>3. Cardinality(s \ {y}) = Cardinality(s) - 1
          BY ONLY <5>1, FS_RemoveElement
        <5> QED BY ONLY <5>1, <5>2, <5>3
      <4>2. G[s \ {y}] = f[x] + G[(s \ {y}) \ {x}]
        BY <3>4, <4>1
      <4>3. G[s \ {x}] = f[y] + G[(s \ {x}) \ {y}]
        BY <3>1, <3>4, <4>1
      <4>4. (s \ {x}) \ {y} = (s \ {y}) \ {x}
        OBVIOUS
      <4>5. f[x] \in Int /\ f[y] \in Int /\ G[(s \ {y}) \ {x}] \in Int
        BY <1>4, <3>1
      <4>6. \A a, b, c \in Int : a + (b + c) = b + (a + c)
        OBVIOUS
      <4>7. G[s] = f[y] + (f[x] + G[(s \ {y}) \ {x}])
        BY <3>2, <4>2
      <4>8. G[s \ {x}] = f[y] + G[(s \ {y}) \ {x}]
        BY <4>3, <4>4
      <4>9. f[y] + (f[x] + G[(s \ {y}) \ {x}]) = f[x] + (f[y] + G[(s \ {y}) \ {x}])
        BY ONLY <4>5, <4>6
      <4> QED BY <4>7, <4>8, <4>9
    <3> QED BY <3>3, <3>4
  <2> HIDE DEF S
  <2> QED BY <2>1, <2>2, NatSetInduction
<1>6. \A s \in SUBSET S : \A x \in s : G[s] = f[x] + G[s \ {x}]
  BY <1>0, <1>5
<1> QED BY <1>1, <1>4, <1>6 DEF G

\* The sum over a part of the set.
LEMMA SumOfPart ==
  ASSUME NEW f, IsFiniteSet(DOMAIN f), \A x \in DOMAIN f : f[x] \in Int,
         NEW T \in SUBSET DOMAIN f
  PROVE  SumOf([x \in T |-> f[x]]) = SumsOf(f)[T]
<1> DEFINE g == [x \in T |-> f[x]]
           F == SumsOf(f)
           G == SumsOf(g)
<1>0. IsFiniteSet(T) /\ DOMAIN g = T /\ \A x \in T : g[x] = f[x] /\ g[x] \in Int
  BY FS_Subset
<1> HIDE DEF g
<1>1. \A s \in SUBSET T : IsFiniteSet(s) /\ Cardinality(s) \in Nat
  BY <1>0, FS_Subset, FS_CardinalityType
<1>2. F[{}] = 0 /\ \A s \in SUBSET T : \A x \in s : F[s] = f[x] + F[s \ {x}]
  BY SumsFacts
<1>3. G[{}] = 0 /\ \A s \in SUBSET T : \A x \in s : G[s] = f[x] + G[s \ {x}]
  BY <1>0, SumsFacts
<1> HIDE DEF F, G
<1> DEFINE N == {n \in Nat : \A s \in SUBSET T : Cardinality(s) = n => F[s] = G[s]}
<1>4. N = Nat
  <2>1. 0 \in N
    <3> SUFFICES ASSUME NEW s \in SUBSET T, Cardinality(s) = 0 PROVE F[s] = G[s]
      OBVIOUS
    <3>1. s = {}
      BY <1>1, FS_EmptySet
    <3> QED BY <1>2, <1>3, <3>1
  <2>2. ASSUME NEW n \in N PROVE n + 1 \in N
    <3> SUFFICES ASSUME NEW s \in SUBSET T, Cardinality(s) = n + 1 PROVE F[s] = G[s]
      OBVIOUS
    <3>1. PICK x : x \in s
      BY EmptyIsOfNone
    <3>2. Cardinality(s \ {x}) = n
      <4>1. IsFiniteSet(s) /\ Cardinality(s \ {x}) = Cardinality(s) - 1
        BY <1>1, <3>1, FS_RemoveElement
      <4> QED BY <4>1
    <3>3. F[s \ {x}] = G[s \ {x}]
      BY <3>2
    <3> QED BY <1>2, <1>3, <3>1, <3>3
  <2> QED BY <2>1, <2>2, NatSetInduction
<1>5. F[T] = G[T]
  BY <1>1, <1>4
<1>6. SumOf(g) = G[T]
  BY <1>0, SumIsOfAll DEF G
<1> QED BY <1>5, <1>6 DEF g, F

-----------------------------------------------------------------------------
(* More of sums.                                                           *)

\* Induction over the subsets of a finite set, as a fact about sets of them.
LEMMA SubsetInduction ==
  ASSUME NEW S, IsFiniteSet(S), NEW G \in SUBSET SUBSET S, {} \in G,
         \A s \in SUBSET S : \A x \in s : s \ {x} \in G => s \in G
  PROVE  G = SUBSET S
<1>0. \A s \in SUBSET S : IsFiniteSet(s) /\ Cardinality(s) \in Nat
  BY FS_Subset, FS_CardinalityType
<1> DEFINE N == {n \in Nat : \A s \in SUBSET S : Cardinality(s) = n => s \in G}
<1>1. N = Nat
  <2>1. 0 \in N
    BY <1>0, FS_EmptySet
  <2>2. ASSUME NEW n \in N PROVE n + 1 \in N
    <3> SUFFICES ASSUME NEW s \in SUBSET S, Cardinality(s) = n + 1 PROVE s \in G
      OBVIOUS
    <3>1. PICK x : x \in s
      BY EmptyIsOfNone
    <3>2. Cardinality(s \ {x}) = n
      <4>1. IsFiniteSet(s) /\ Cardinality(s \ {x}) = Cardinality(s) - 1
        BY <1>0, <3>1, FS_RemoveElement
      <4> QED BY <4>1
    <3>3. s \ {x} \in G
      BY <3>2
    <3> QED BY <3>1, <3>3
  <2> QED BY <2>1, <2>2, NatSetInduction
<1> QED BY <1>0, <1>1

\* Terms that are zero do not count.
LEMMA SumWithoutZeros ==
  ASSUME NEW f, IsFiniteSet(DOMAIN f), \A x \in DOMAIN f : f[x] \in Int,
         NEW T \in SUBSET DOMAIN f, \A x \in DOMAIN f \ T : f[x] = 0
  PROVE  SumsOf(f)[DOMAIN f] = SumsOf(f)[T]
<1> DEFINE S == DOMAIN f
           F == SumsOf(f)
           G == {s \in SUBSET S : F[s] = F[s \cap T]}
<1>1. /\ F[{}] = 0
      /\ \A s \in SUBSET S : F[s] \in Int
      /\ \A s \in SUBSET S : \A x \in s : F[s] = f[x] + F[s \ {x}]
  BY SumsFacts
<1> HIDE DEF F
<1>2. {} \in G
  <2>1. {} \cap T = {}
    OBVIOUS
  <2> QED BY <2>1
<1>3. ASSUME NEW s \in SUBSET S, NEW x \in s, s \ {x} \in G PROVE s \in G
  <2>1. F[s] = f[x] + F[s \ {x}] /\ F[s \ {x}] = F[(s \ {x}) \cap T]
    BY <1>1, <1>3
  <2>2. CASE x \in T
    <3>1. F[s \cap T] = f[x] + F[(s \cap T) \ {x}] /\ (s \cap T) \ {x} = (s \ {x}) \cap T
      BY <1>1, <2>2
    <3> QED BY <2>1, <3>1
  <2>3. CASE x \notin T
    <3>1. f[x] = 0 /\ (s \ {x}) \cap T = s \cap T /\ F[s \cap T] \in Int
      BY <1>1, <2>3
    <3> QED BY <2>1, <3>1
  <2> QED BY <2>2, <2>3
<1>4. S \in G
  <2>1. G = SUBSET S
    <3> HIDE DEF S
    <3>1. IsFiniteSet(S) /\ G \in SUBSET SUBSET S
      BY DEF S
    <3> HIDE DEF G
    <3> QED BY <1>2, <1>3, <3>1, SubsetInduction
  <2> QED BY <2>1
<1>5. S \cap T = T
  OBVIOUS
<1> QED BY <1>4, <1>5 DEF F

\* Two sets apart.
LEMMA SumOfUnion ==
  ASSUME NEW f, IsFiniteSet(DOMAIN f), \A x \in DOMAIN f : f[x] \in Int,
         NEW A \in SUBSET DOMAIN f, NEW B \in SUBSET DOMAIN f, A \cap B = {}
  PROVE  SumsOf(f)[A \cup B] = SumsOf(f)[A] + SumsOf(f)[B]
<1> DEFINE S == DOMAIN f
           F == SumsOf(f)
           G == {s \in SUBSET A : F[s \cup B] = F[s] + F[B]}
<1>1. /\ F[{}] = 0
      /\ \A s \in SUBSET S : F[s] \in Int
      /\ \A s \in SUBSET S : \A x \in s : F[s] = f[x] + F[s \ {x}]
  BY SumsFacts
<1> HIDE DEF F
<1>2. {} \in G
  <2>1. {} \cup B = B /\ F[B] \in Int
    BY <1>1
  <2> QED BY <1>1, <2>1
<1>3. ASSUME NEW s \in SUBSET A, NEW x \in s, s \ {x} \in G PROVE s \in G
  <2>1. (s \cup B) \ {x} = (s \ {x}) \cup B /\ s \cup B \in SUBSET S /\ s \in SUBSET S
    OBVIOUS
  <2>2. F[s \cup B] = f[x] + F[(s \ {x}) \cup B] /\ F[s] = f[x] + F[s \ {x}]
    BY <1>1, <2>1
  <2>3. F[(s \ {x}) \cup B] = F[s \ {x}] + F[B]
    BY <1>3
  <2>4. f[x] \in Int /\ F[s \ {x}] \in Int /\ F[B] \in Int
    BY <1>1
  <2> QED BY <2>2, <2>3, <2>4
<1>4. G = SUBSET A
  <2>1. IsFiniteSet(A) /\ G \in SUBSET SUBSET A
    BY FS_Subset
  <2> HIDE DEF G
  <2> QED BY <1>2, <1>3, <2>1, SubsetInduction
<1> QED BY <1>4 DEF F

\* Terms that are no larger add up to no more.
LEMMA SumGrows ==
  ASSUME NEW f, NEW g, IsFiniteSet(DOMAIN f), DOMAIN g = DOMAIN f,
         \A x \in DOMAIN f : f[x] \in Int /\ g[x] \in Int /\ f[x] <= g[x]
  PROVE  SumsOf(f)[DOMAIN f] <= SumsOf(g)[DOMAIN f]
<1> DEFINE S == DOMAIN f
           F == SumsOf(f)
           H == SumsOf(g)
           G == {s \in SUBSET S : F[s] <= H[s]}
<1>1. /\ F[{}] = 0
      /\ \A s \in SUBSET S : F[s] \in Int
      /\ \A s \in SUBSET S : \A x \in s : F[s] = f[x] + F[s \ {x}]
  BY SumsFacts
<1>2. /\ H[{}] = 0
      /\ \A s \in SUBSET S : H[s] \in Int
      /\ \A s \in SUBSET S : \A x \in s : H[s] = g[x] + H[s \ {x}]
  BY SumsFacts
<1> HIDE DEF F, H
<1>3. {} \in G
  BY <1>1, <1>2
<1>4. ASSUME NEW s \in SUBSET S, NEW x \in s, s \ {x} \in G PROVE s \in G
  <2>1. F[s] = f[x] + F[s \ {x}] /\ H[s] = g[x] + H[s \ {x}] /\ F[s \ {x}] <= H[s \ {x}]
    BY <1>1, <1>2, <1>4
  <2>2. f[x] \in Int /\ g[x] \in Int /\ f[x] <= g[x] /\ F[s \ {x}] \in Int /\ H[s \ {x}] \in Int
    BY <1>1, <1>2
  <2> QED BY <2>1, <2>2
<1>5. G = SUBSET S
  <2>1. IsFiniteSet(S) /\ G \in SUBSET SUBSET S
    OBVIOUS
  <2> HIDE DEF G, S
  <2> QED BY <1>3, <1>4, <2>1, SubsetInduction
<1> QED BY <1>5 DEF F, H

\* The pairs of an index and one of the things it has.
Pairs(K, P) == UNION {{<<k, i>> : i \in P[k]} : k \in K}

\* Finitely many rows of finitely many.
LEMMA PairsAreFinite ==
  ASSUME NEW K, IsFiniteSet(K), NEW P, \A k \in K : IsFiniteSet(P[k])
  PROVE  IsFiniteSet(Pairs(K, P))
<1> DEFINE Row(k) == {<<k, i>> : i \in P[k]}
<1>1. \A k \in K : IsFiniteSet(Row(k))
  <2> SUFFICES ASSUME NEW k \in K PROVE IsFiniteSet(Row(k))
    OBVIOUS
  <2> DEFINE f == [i \in P[k] |-> <<k, i>>]
  <2>1. f \in Surjection(P[k], Row(k))
    BY DEF Surjection
  <2> HIDE DEF f
  <2> QED BY <2>1, FS_Surjection
<1> DEFINE rows == {Row(k) : k \in K}
           f == [k \in K |-> Row(k)]
<1>2. f \in Surjection(K, rows)
  BY DEF Surjection
<1> HIDE DEF f
<1>3. IsFiniteSet(rows)
  <2> HIDE DEF rows
  <2> QED BY <1>2, FS_Surjection
<1>4. \A r \in rows : IsFiniteSet(r)
  BY <1>1
<1>5. IsFiniteSet(UNION rows)
  <2> HIDE DEF rows
  <2> QED BY <1>3, <1>4, FS_UNION
<1> QED BY <1>5 DEF Pairs

\* A row of pairs, by its second parts.
LEMMA SumOfRow ==
  ASSUME NEW h, IsFiniteSet(DOMAIN h), \A t \in DOMAIN h : h[t] \in Int,
         NEW k, NEW S, IsFiniteSet(S), \A i \in S : <<k, i>> \in DOMAIN h
  PROVE  SumOf([i \in S |-> h[<<k, i>>]]) = SumsOf(h)[{<<k, i>> : i \in S}]
<1> DEFINE g == [i \in S |-> h[<<k, i>>]]
           R(s) == {<<k, i>> : i \in s}
           F == SumsOf(g)
           H == SumsOf(h)
           G == {s \in SUBSET S : F[s] = H[R(s)]}
<1>0. DOMAIN g = S /\ \A i \in S : g[i] = h[<<k, i>>] /\ g[i] \in Int
  OBVIOUS
<1> HIDE DEF g
<1>1. /\ F[{}] = 0
      /\ \A s \in SUBSET S : \A x \in s : F[s] = g[x] + F[s \ {x}]
  BY <1>0, SumsFacts
<1>2. /\ H[{}] = 0
      /\ \A s \in SUBSET DOMAIN h : \A x \in s : H[s] = h[x] + H[s \ {x}]
  BY SumsFacts
<1> HIDE DEF F, H
<1>3. {} \in G
  <2>1. R({}) = {}
    OBVIOUS
  <2> QED BY <1>1, <1>2, <2>1
<1>4. ASSUME NEW s \in SUBSET S, NEW x \in s, s \ {x} \in G PROVE s \in G
  <2>1. <<k, x>> \in R(s) /\ R(s) \in SUBSET DOMAIN h
    OBVIOUS
  <2>2. R(s) \ {<<k, x>>} = R(s \ {x})
    OBVIOUS
  <2>3. H[R(s)] = h[<<k, x>>] + H[R(s \ {x})]
    <3> HIDE DEF R
    <3> QED BY <1>2, <2>1, <2>2
  <2>4. F[s] = g[x] + F[s \ {x}] /\ F[s \ {x}] = H[R(s \ {x})] /\ g[x] = h[<<k, x>>]
    BY <1>0, <1>1, <1>4
  <2> QED BY <2>3, <2>4
<1>5. G = SUBSET S
  <2>1. G \in SUBSET SUBSET S
    OBVIOUS
  <2> HIDE DEF G
  <2> QED BY <1>3, <1>4, <2>1, SubsetInduction
<1>6. F[S] = H[R(S)]
  BY <1>5
<1>7. SumOf(g) = F[S]
  BY <1>0, SumIsOfAll DEF F
<1> QED BY <1>6, <1>7 DEF g, H

\* Row by row.
LEMMA SumOfRows ==
  ASSUME NEW K, IsFiniteSet(K), NEW P, \A k \in K : IsFiniteSet(P[k]),
         NEW h, DOMAIN h = Pairs(K, P), \A t \in DOMAIN h : h[t] \in Int
  PROVE  SumOf(h) = SumOf([k \in K |-> SumOf([i \in P[k] |-> h[<<k, i>>]])])
<1> DEFINE Row(k) == {<<k, i>> : i \in P[k]}
           g == [k \in K |-> SumOf([i \in P[k] |-> h[<<k, i>>]])]
           F == SumsOf(g)
           H == SumsOf(h)
           G == {s \in SUBSET K : F[s] = H[Pairs(s, P)]}
<1>0. /\ DOMAIN g = K /\ \A k \in K : g[k] = SumOf([i \in P[k] |-> h[<<k, i>>]])
  OBVIOUS
<1>a. IsFiniteSet(DOMAIN h)
  BY PairsAreFinite
<1>b. \A s \in SUBSET K : Pairs(s, P) \in SUBSET DOMAIN h
  BY DEF Pairs
<1>1. \A k \in K : Row(k) \in SUBSET DOMAIN h /\ g[k] = H[Row(k)]
  <2> SUFFICES ASSUME NEW k \in K PROVE Row(k) \in SUBSET DOMAIN h /\ g[k] = H[Row(k)]
    OBVIOUS
  <2>1. \A i \in P[k] : <<k, i>> \in DOMAIN h
    BY DEF Pairs
  <2>2. SumOf([i \in P[k] |-> h[<<k, i>>]]) = SumsOf(h)[{<<k, i>> : i \in P[k]}]
    BY <1>a, <2>1, SumOfRow
  <2> QED BY <1>0, <2>1, <2>2
<1> HIDE DEF g
<1>2. /\ H[{}] = 0
      /\ \A s \in SUBSET DOMAIN h : H[s] \in Int
      /\ \A A, B \in SUBSET DOMAIN h : A \cap B = {} => H[A \cup B] = H[A] + H[B]
  BY <1>a, SumsFacts, SumOfUnion
<1>3. /\ F[{}] = 0
      /\ \A s \in SUBSET K : \A x \in s : F[s] = g[x] + F[s \ {x}]
  <2>1. \A k \in DOMAIN g : g[k] \in Int
    <3> HIDE DEF H
    <3> QED BY <1>0, <1>1, <1>2
  <2>2. IsFiniteSet(DOMAIN g)
    BY <1>0
  <2>3. /\ F[{}] = 0
        /\ \A s \in SUBSET DOMAIN g : \A x \in s : F[s] = g[x] + F[s \ {x}]
    BY <2>1, <2>2, SumsFacts
  <2> QED BY <1>0, <2>3
<1>4. SumOf(h) = H[Pairs(K, P)] /\ SumOf(g) = F[K]
  BY <1>0, SumIsOfAll
<1> HIDE DEF F, H
<1>5. {} \in G
  <2>1. Pairs({}, P) = {}
    BY DEF Pairs
  <2> QED BY <1>2, <1>3, <2>1
<1>6. ASSUME NEW s \in SUBSET K, NEW x \in s, s \ {x} \in G PROVE s \in G
  <2>1. Pairs(s, P) = Row(x) \cup Pairs(s \ {x}, P)
    BY DEF Pairs
  <2>2. Row(x) \cap Pairs(s \ {x}, P) = {}
    BY DEF Pairs
  <2>3. Row(x) \in SUBSET DOMAIN h /\ Pairs(s \ {x}, P) \in SUBSET DOMAIN h /\ g[x] = H[Row(x)]
    BY <1>b, <1>1
  <2> HIDE DEF Row
  <2>4. H[Pairs(s, P)] = H[Row(x)] + H[Pairs(s \ {x}, P)]
    BY <1>2, <2>1, <2>2, <2>3
  <2>5. F[s] = g[x] + F[s \ {x}] /\ F[s \ {x}] = H[Pairs(s \ {x}, P)]
    BY <1>3, <1>6
  <2> QED BY <2>3, <2>4, <2>5
<1>7. G = SUBSET K
  <2>1. G \in SUBSET SUBSET K
    OBVIOUS
  <2> HIDE DEF G
  <2> QED BY <1>5, <1>6, <2>1, SubsetInduction
<1>8. F[K] = H[Pairs(K, P)]
  BY <1>7
<1> QED BY <1>4, <1>8 DEF g

-----------------------------------------------------------------------------
(* The inductive invariant of Invoice.                                     *)

\* A sequence, whatever its elements.
IsList(s) == Len(s) \in Nat /\ s = [i \in 1..Len(s) |-> s[i]]

\* The types of the variables, but for what is handed out.
InvoiceTypes ==
  /\ today \in Days /\ files \in [Days -> Seq(RecordLines)]
  /\ activation \in {Null} \cup {ActivationFrom(d) : d \in Days}
  /\ open_interval \in {Null} \cup Openings
  /\ executes \in BOOLEAN /\ repeated \in BOOLEAN /\ altered \in BOOLEAN

\* The line that was written before the one at i of a day, on that day or on another.
Earlier(day) == {e \in Written : e < day}

\* Null before the first line of all.
Prior(day, i) ==
  IF i > 1
  THEN files[day][i - 1]
  ELSE IF Earlier(day) = {} THEN Null ELSE Last(files[Max(Earlier(day))])

\* What a record has of the record before it.
Linked(line, prior) ==
  IF prior = Null
  THEN line.seq = 0 /\ line.prev = Null /\ line.body.reveal = Null
  ELSE /\ line.seq = prior.seq + 1 /\ line.prev = record_hash(prior)
       /\ line.body.reveal # Null =>
            /\ line.body.reveal.commit_seq = line.seq - 1
            /\ prior.body.commit = commit_hash(decision_snapshot(line.body), line.body.reveal.nonce)

\* Nothing is written of a day that has not begun.
NothingAhead == \A d \in Days : d > today => files[d] = <<>>

\* Every line follows the one written before it, over days without records too.
LinesFollow ==
  \A d \in Days : \A i \in DOMAIN files[d] :
    /\ files[d][i].id = files[d][i].seq /\ files[d][i].seq < next_seq
    /\ Linked(files[d][i], Prior(d, i))

\* Lines are numbered in the order of days and of their places in a day.
LinesRise ==
  \A d, e \in Days : \A i \in DOMAIN files[d], j \in DOMAIN files[e] :
    d < e \/ (d = e /\ i < j) => files[d][i].seq < files[e][j].seq

\* No line claims more than the farm draws in one poll, half a watt-hour of rounding included.
ClaimsBounded ==
  \A d \in Days : \A i \in DOMAIN files[d] : 3600 * files[d][i].body.claimed_wh <= MostWh + 1800

\* The interval that is open was committed by the last record, if anything is committed.
OpenIsCommitted ==
  open_interval # Null =>
    /\ ChainHead # Null
    /\ activation # Null =>
         ChainHead.body.commit = commit_hash(decision_snapshot(open_interval), open_interval.opened)

\* What the files keep, whatever was restarted or measured.
FilesInv == NothingAhead /\ next_seq \in 0..MaxRecords /\ LinesFollow /\ LinesRise /\ ClaimsBounded /\ OpenIsCommitted

\* The book as it was when its chain ended in prev.
BookAfter(prev) ==
  [Book EXCEPT !.seals = IF prev = GENESIS_SEAL THEN <<>> ELSE <<[seal_hash |-> prev]>>]

\* Every seal is the one its day has, of records that no longer change.
SealsOfDays ==
  \A k \in DOMAIN seals :
    /\ seals[k].day \in Written /\ seals[k].day < today /\ IsList(seals[k].prev_seal)
    /\ seals[k] = SealFor(BookAfter(seals[k].prev_seal), seals[k].day)

\* A second seal of the day that the seal at j is of repeats that seal or chains to it.
SealedTwice(j, k) ==
  /\ k = j + 1 /\ seals[j].day = seals[k].day
  /\ seals[j] = seals[k] \/ seals[k].prev_seal = seals[j].seal_hash

\* Days are sealed in order, but for one day that may be sealed twice in a row.
SealsRise ==
  \A j, k \in DOMAIN seals :
    j < k => seals[j].day < seals[k].day \/ (repeated /\ SealedTwice(j, k))

\* Every seal chains to the one before it, or repeats it.
SealsChained ==
  \A k \in DOMAIN seals :
    IF k = 1
    THEN seals[k].prev_seal = GENESIS_SEAL
    ELSE seals[k].prev_seal = seals[k - 1].seal_hash \/ seals[k] = seals[k - 1]

\* No day is sealed before an earlier one.
SealedFirst == \A k \in DOMAIN seals : \A d \in Written : d < seals[k].day => d \in SealedDays

\* What the seals keep; the first is made once all records are written.
SealsInv ==
  /\ IsList(seals) /\ (seals # <<>> => next_seq = MaxRecords)
  /\ SealsOfDays /\ SealsRise /\ SealsChained /\ SealedFirst

\* The bill of the month, and the seals it has entries of.
Bill == StatementOf(Book, Month)
BilledSeals == Sealed(Book, Month)

\* What the reader holds is the bill and the files, or one of them changed in one place.
HandedOut ==
  statement # Null =>
    /\ BilledSeals # {}
    /\ \/ statement = Bill /\ copy = files
       \/ altered /\ statement = Bill /\ copy \in ChangedRecords(files)
       \/ altered /\ statement \in ChangedStatements(Bill, files) /\ copy = files

\* The inductive invariant of Invoice.
IInv == InvoiceTypes /\ FilesInv /\ SealsInv /\ HandedOut

-----------------------------------------------------------------------------
(* Lists, and the ends of intervals.                                       *)

\* The elements of a sequence.
LEMMA SeqIsList ==
  ASSUME NEW X, NEW s \in Seq(X)
  PROVE  IsList(s) /\ \A i \in 1..Len(s) : s[i] \in X
BY DEF IsList

\* A list with one more element.
LEMMA ListAppended ==
  ASSUME NEW s, NEW e, IsList(s)
  PROVE  /\ IsList(Append(s, e)) /\ Len(Append(s, e)) = Len(s) + 1
         /\ Append(s, e)[Len(s) + 1] = e /\ Last(Append(s, e)) = e
         /\ \A i \in 1..Len(s) : Append(s, e)[i] = s[i]
<1> DEFINE U == {s[i] : i \in 1..Len(s)} \cup {e}
<1>0. s = [i \in 1..Len(s) |-> s[i]] /\ Len(s) \in Nat
  BY DEF IsList
<1>1. s \in Seq(U) /\ e \in U
  <2> DEFINE n == Len(s)
  <2>1. [i \in 1..n |-> s[i]] \in Seq(U)
    <3> HIDE DEF n
    <3>1. n \in Nat
      BY <1>0 DEF n
    <3>2. \A i \in 1..n : s[i] \in U
      BY DEF n
    <3> HIDE DEF U
    <3> QED BY <3>1, <3>2
  <2> QED BY <1>0, <2>1
<1> HIDE DEF U
<1>2. Append(s, e) \in Seq(U)
  BY <1>1, AppendProperties
<1>3. IsList(Append(s, e))
  BY <1>2, SeqIsList
<1>4. Len(Append(s, e)) = Len(s) + 1 /\ Append(s, e)[Len(s) + 1] = e /\ \A i \in 1..Len(s) : Append(s, e)[i] = s[i]
  BY <1>1, AppendProperties
<1>5. Last(Append(s, e)) = e
  BY <1>4 DEF Last
<1> QED BY <1>3, <1>4, <1>5

\* The ends of a list.
LEMMA ListFacts ==
  ASSUME NEW s, IsList(s)
  PROVE  /\ DOMAIN s = 1..Len(s) /\ Len(s) \in Nat
         /\ s # <<>> <=> Len(s) > 0
         /\ s # <<>> => Last(s) = s[Len(s)] /\ Len(s) \in DOMAIN s /\ 1 \in DOMAIN s
<1>1. s = [i \in 1..Len(s) |-> s[i]] /\ Len(s) \in Nat
  BY DEF IsList
<1>2. DOMAIN s = 1..Len(s)
  BY <1>1
<1>3. Len(s) = 0 => s = <<>>
  BY <1>1
<1>4. s = <<>> => Len(s) = 0
  OBVIOUS
<1> QED BY <1>1, <1>2, <1>3, <1>4 DEF Last

\* A set of integers between two bounds has a first and a last.
LEMMA IntervalEnds ==
  ASSUME NEW a \in Int, NEW b \in Int, NEW S \in SUBSET (a..b), S # {}
  PROVE  /\ Max(S) \in S /\ \A x \in S : x <= Max(S)
         /\ Min(S) \in S /\ \A x \in S : Min(S) <= x
<1>1. \E x \in S : \A y \in S : x >= y
  <2> DEFINE T == {n \in Nat : b - n \in S}
  <2>1. T # {}
    <3>1. PICK x \in S : TRUE
      OBVIOUS
    <3>2. b - x \in Nat /\ b - (b - x) = x
      OBVIOUS
    <3> QED BY <3>1, <3>2
  <2>2. PICK n \in T : \A m \in T : n <= m
    BY <2>1, LeastNatural
  <2>3. \A y \in S : b - n >= y
    <3> SUFFICES ASSUME NEW y \in S PROVE b - n >= y
      OBVIOUS
    <3>1. b - y \in Nat /\ b - (b - y) = y
      OBVIOUS
    <3>2. b - y \in T
      BY <3>1
    <3> QED BY <2>2, <3>1, <3>2
  <2> QED BY <2>3
<1>2. \E x \in S : \A y \in S : x <= y
  <2> DEFINE T == {n \in Nat : a + n \in S}
  <2>1. T # {}
    <3>1. PICK x \in S : TRUE
      OBVIOUS
    <3>2. x - a \in Nat /\ a + (x - a) = x
      OBVIOUS
    <3> QED BY <3>1, <3>2
  <2>2. PICK n \in T : \A m \in T : n <= m
    BY <2>1, LeastNatural
  <2>3. \A y \in S : a + n <= y
    <3> SUFFICES ASSUME NEW y \in S PROVE a + n <= y
      OBVIOUS
    <3>1. y - a \in Nat /\ a + (y - a) = y
      OBVIOUS
    <3>2. y - a \in T
      BY <3>1
    <3> QED BY <2>2, <3>1, <3>2
  <2> QED BY <2>3
<1>3. Max(S) \in S /\ \A x \in S : Max(S) >= x
  BY <1>1 DEF Max
<1>4. Min(S) \in S /\ \A x \in S : Min(S) <= x
  BY <1>2 DEF Min
<1> QED BY <1>3, <1>4

\* So has a set of days.
LEMMA DaysEnds ==
  ASSUME NEW S \in SUBSET Days, S # {}
  PROVE  /\ Max(S) \in S /\ \A x \in S : x <= Max(S)
         /\ Min(S) \in S /\ \A x \in S : Min(S) <= x
<1>1. PICK a, b \in Days : Days = a..b
  BY InvoiceDays
<1>2. a \in Int /\ b \in Int
  BY InvoiceDays
<1> QED BY <1>1, <1>2, IntervalEnds

-----------------------------------------------------------------------------
(* The files: what a poll writes.                                          *)

\* The lines of a day.
LEMMA FileFacts ==
  ASSUME InvoiceTypes, NEW d \in Days
  PROVE  /\ IsList(files[d]) /\ DOMAIN files[d] = 1..Len(files[d]) /\ Len(files[d]) \in Nat
         /\ \A i \in DOMAIN files[d] : files[d][i] \in RecordLines /\ files[d][i] # Null
         /\ files[d] # <<>> => /\ Len(files[d]) \in DOMAIN files[d] /\ 1 \in DOMAIN files[d]
                              /\ Last(files[d]) = files[d][Len(files[d])]
<1>1. files[d] \in Seq(RecordLines)
  BY DEF InvoiceTypes
<1>2. IsList(files[d]) /\ \A i \in 1..Len(files[d]) : files[d][i] \in RecordLines
  BY <1>1, SeqIsList
<1>3. Null \notin RecordLines
  BY InvoiceNull
<1> QED BY <1>2, <1>3, ListFacts

\* The last line of the last file, from which the next number is taken.
LEMMA HeadFacts ==
  ASSUME InvoiceTypes
  PROVE  /\ Written = {} => ChainHead = Null /\ next_seq = 0
         /\ Written # {} => /\ Max(Written) \in Written /\ \A d \in Written : d <= Max(Written)
                           /\ ChainHead = Last(files[Max(Written)]) /\ ChainHead # Null
                           /\ ChainHead \in RecordLines /\ next_seq = ChainHead.seq + 1
         /\ next_seq \in Nat
<1>1. CASE Written = {}
  BY <1>1 DEF ChainHead, next_seq
<1>2. CASE Written # {}
  <2> DEFINE m == Max(Written)
  <2>1. m \in Written /\ \A d \in Written : d <= m
    BY <1>2, DaysEnds DEF Written
  <2>2. m \in Days /\ files[m] # <<>>
    BY <2>1 DEF Written
  <2>3. ChainHead = Last(files[m])
    BY <1>2 DEF ChainHead
  <2> HIDE DEF m
  <2>4. Last(files[m]) \in RecordLines /\ Last(files[m]) # Null
    BY <2>2, FileFacts
  <2>5. next_seq = ChainHead.seq + 1
    BY <2>3, <2>4 DEF next_seq
  <2>6. ChainHead.seq \in Nat
    BY <2>3, <2>4 DEF RecordLines
  <2> QED BY <1>2, <2>1, <2>3, <2>4, <2>5, <2>6 DEF m
<1> QED BY <1>1, <1>2

\* What is read of the files stays as long as they do.
LEMMA FilesSame ==
  ASSUME files' = files
  PROVE  /\ Written' = Written /\ ChainHead' = ChainHead /\ next_seq' = next_seq
         /\ \A d \in Days : Earlier(d)' = Earlier(d)
         /\ \A d \in Days : \A i \in DOMAIN files[d] : Prior(d, i)' = Prior(d, i)
<1>1. Written' = Written
  BY DEF Written
<1>2. ChainHead' = ChainHead
  BY <1>1 DEF ChainHead
<1>3. next_seq' = next_seq
  BY <1>2 DEF next_seq
<1>4. \A d \in Days : Earlier(d)' = Earlier(d)
  BY <1>1 DEF Earlier
<1>5. \A d \in Days : \A i \in DOMAIN files[d] : Prior(d, i)' = Prior(d, i)
  BY <1>4 DEF Prior
<1> QED BY <1>1, <1>2, <1>3, <1>4, <1>5

-----------------------------------------------------------------------------
(* The line a poll writes.                                                 *)

\* Rounding half to even adds half a unit at most.
LEMMA HalfEvenBounds ==
  ASSUME NEW n \in Nat, NEW d \in Nat, d > 0
  PROVE  /\ HalfEven(n, d) \in Nat /\ 2 * (d * HalfEven(n, d)) <= 2 * n + d
<1> DEFINE q == n \div d
           r == n % d
<1>1. q \in Nat /\ r \in 0..(d - 1) /\ n = d * q + r
  BY SMTT(30)
<1>2. HalfEven(n, d) = q \/ (HalfEven(n, d) = q + 1 /\ 2 * r >= d)
  BY <1>1 DEF HalfEven
<1>3. d * q \in Int /\ d * (q + 1) = d * q + d
  BY <1>1
<1> HIDE DEF q, r
<1>4. CASE HalfEven(n, d) = q
  <2>1. 2 * (d * q) <= 2 * n + d
    BY <1>1, <1>3
  <2> QED BY <1>1, <1>4, <2>1
<1>5. CASE HalfEven(n, d) = q + 1 /\ 2 * r >= d
  <2>1. 2 * (d * q + d) <= 2 * n + d
    BY <1>1, <1>3, <1>5
  <2>2. 2 * (d * (q + 1)) <= 2 * n + d
    BY <1>3, <2>1
  <2> QED BY <1>1, <1>5, <2>2
<1> QED BY <1>2, <1>4, <1>5

\* A product grows with its second factor.
LEMMA ProductGrows ==
  ASSUME NEW a \in Nat, NEW b \in Nat, NEW c \in Nat, b <= c
  PROVE  a * b \in Nat /\ a * b <= a * c
<1>1. a * c = a * b + a * (c - b)
  OBVIOUS
<1>2. a * (c - b) \in Nat /\ a * b \in Nat
  OBVIOUS
<1> QED BY <1>1, <1>2

\* The interval a decision opens, and its commitment.
LEMMA OpeningFacts ==
  ASSUME InvoiceTypes, NEW decision \in Decisions
  PROVE  /\ Opening(decision) \in Openings /\ Opening(decision) # Null
         /\ decision_snapshot(Opening(decision)) \in [DecisionFields -> {"MINE", "PAUSE"} \cup Int]
         /\ Commitment(decision) \in Commitments \cup {Null}
         /\ activation # Null =>
              Commitment(decision) = commit_hash(decision_snapshot(Opening(decision)), next_seq)
<1>1. Opening(decision) \in Openings /\ Opening(decision).opened = next_seq
  BY InvoiceInputs, HeadFacts DEF Opening, Openings, InvoiceTypes
<1>2. decision_snapshot(Opening(decision)) \in [DecisionFields -> {"MINE", "PAUSE"} \cup Int]
  <2> DEFINE o == Opening(decision)
  <2>1. o.action \in {"MINE", "PAUSE"} /\ o.price \in Int /\ o.opened \in Int
    BY <1>1 DEF Openings
  <2> HIDE DEF o
  <2>2. \A field \in DecisionFields : o[field] \in {"MINE", "PAUSE"} \cup Int
    BY <2>1, InvoiceFields
  <2> QED BY <2>2 DEF decision_snapshot, o
<1>3. activation # Null =>
        Commitment(decision) = commit_hash(decision_snapshot(Opening(decision)), next_seq)
  BY DEF Commitment
<1>4. commit_hash(decision_snapshot(Opening(decision)), next_seq) \in Commitments
  <2> DEFINE s == decision_snapshot(Opening(decision))
  <2> HIDE DEF s
  <2> QED BY <1>2, HeadFacts DEF commit_hash, Commitments, s
<1>5. Commitment(decision) \in Commitments \cup {Null}
  BY <1>3, <1>4 DEF Commitment
<1>6. Opening(decision) # Null
  BY <1>1, InvoiceNull
<1> QED BY <1>1, <1>2, <1>3, <1>5, <1>6

\* What an interval may claim, whatever the clock read.
LEMMA ClaimFacts ==
  ASSUME NEW elapsed \in Int
  PROVE  /\ to_wh(Watts, Claimable(elapsed), 1) \in Nat
         /\ 3600 * to_wh(Watts, Claimable(elapsed), 1) <= MostWh + 1800
         /\ to_micro(Hourly, Claimable(elapsed), 1) \in Nat
<1> DEFINE s == Claimable(elapsed)
<1>1. s \in Nat /\ s <= PollSeconds /\ PollSeconds \in Nat /\ Watts \in Nat /\ Hourly \in Nat
  BY InvoiceAmounts DEF Claimable, Clamp
<1> HIDE DEF s
<1>2. Watts * s \in Nat /\ Watts * s <= MostWh /\ Hourly * s \in Nat /\ MostWh \in Nat
  BY <1>1, ProductGrows DEF MostWh
<1>3. Watts * s * 1 = Watts * s /\ Hourly * s * 1 = Hourly * s
  BY <1>2
<1>4. /\ HalfEven(Watts * s, 3600) \in Nat /\ HalfEven(Hourly * s, 3600) \in Nat
      /\ 2 * (3600 * HalfEven(Watts * s, 3600)) <= 2 * (Watts * s) + 3600
  BY <1>2, HalfEvenBounds
<1>5. 3600 * HalfEven(Watts * s, 3600) <= MostWh + 1800
  BY <1>2, <1>4
<1> QED BY <1>3, <1>4, <1>5 DEF to_wh, to_micro, s

\* The line of a poll is a record.
LEMMA LineFacts ==
  ASSUME InvoiceTypes, NEW decision \in Decisions, NEW read \in Measurements
  PROVE  /\ Line(decision, read) \in RecordLines
         /\ Line(decision, read).id = next_seq /\ Line(decision, read).seq = next_seq
         /\ Line(decision, read).prev = LastHash
         /\ Line(decision, read).body.commit = Commitment(decision)
         /\ 3600 * Line(decision, read).body.claimed_wh <= MostWh + 1800
<1> DEFINE body == IF open_interval = Null THEN FirstInterval(decision, read) ELSE ClosedInterval(decision, read)
<1>1. /\ read.elapsed \in Int /\ read.baseline_gh \in Int \cup {Null} /\ read.observed_gh \in Int \cup {Null}
      /\ next_seq \in Nat /\ executes \in BOOLEAN
  BY InvoiceInputs, HeadFacts DEF InvoiceTypes
<1>2. Commitment(decision) \in Commitments \cup {Null}
  BY OpeningFacts
<1>3. MostWh \in Nat
  BY InvoiceAmounts DEF MostWh
<1>4. ASSUME open_interval = Null
      PROVE  body \in Intervals /\ body.commit = Commitment(decision) /\ 3600 * body.claimed_wh <= MostWh + 1800
  <2>1. FirstInterval(decision, read) \in Intervals
    BY <1>1, <1>2 DEF FirstInterval, Intervals
  <2>2. 3600 * FirstInterval(decision, read).claimed_wh <= MostWh + 1800
    BY <1>3 DEF FirstInterval
  <2>3. FirstInterval(decision, read).commit = Commitment(decision)
    BY DEF FirstInterval
  <2>4. body = FirstInterval(decision, read)
    BY <1>4
  <2> HIDE DEF body
  <2> QED BY <2>1, <2>2, <2>3, <2>4
<1>5. ASSUME open_interval # Null
      PROVE  body \in Intervals /\ body.commit = Commitment(decision) /\ 3600 * body.claimed_wh <= MostWh + 1800
  <2>1. open_interval \in Openings
    BY <1>5 DEF InvoiceTypes
  <2>2. /\ open_interval.action \in {"MINE", "PAUSE"} /\ open_interval.price \in Int
        /\ open_interval.executed \in BOOLEAN /\ open_interval.opened \in Nat
    BY <2>1 DEF Openings
  <2> DEFINE wh == IF open_interval.action = "PAUSE" THEN to_wh(Watts, Claimable(read.elapsed), 1) ELSE 0
             lost == IF open_interval.action = "PAUSE" THEN to_micro(Hourly, Claimable(read.elapsed), 1) ELSE 0
             reveal == IF activation = Null
                       THEN Null
                       ELSE [commit_seq |-> next_seq - 1, nonce |-> open_interval.opened]
  <2>3. wh \in Nat /\ 3600 * wh <= MostWh + 1800 /\ lost \in Nat
    BY <1>1, <1>3, ClaimFacts
  <2>4. reveal \in Reveals \cup {Null}
    BY <1>1, <2>2 DEF Reveals
  <2>5. ClosedInterval(decision, read) =
          [action |-> open_interval.action, executed |-> open_interval.executed,
           price |-> open_interval.price, opened |-> open_interval.opened,
           baseline_gh |-> read.baseline_gh, observed_gh |-> read.observed_gh,
           claimed_wh |-> wh, claimed_mining_lost |-> lost,
           commit |-> Commitment(decision), reveal |-> reveal]
    BY DEF ClosedInterval
  <2> HIDE DEF wh, lost, reveal
  <2>6. ClosedInterval(decision, read) \in Intervals
    BY <1>1, <1>2, <2>2, <2>3, <2>4, <2>5 DEF Intervals
  <2>7. /\ ClosedInterval(decision, read).claimed_wh = wh
        /\ ClosedInterval(decision, read).commit = Commitment(decision)
    BY <2>5
  <2>8. body = ClosedInterval(decision, read)
    BY <1>5
  <2> HIDE DEF body
  <2> QED BY <2>3, <2>6, <2>7, <2>8
<1>6. body \in Intervals /\ body.commit = Commitment(decision) /\ 3600 * body.claimed_wh <= MostWh + 1800
  BY <1>4, <1>5
<1>7. LastHash \in [leaf : Nat] \cup {Null}
  <2>1. ChainHead # Null => ChainHead.id \in Nat
    BY HeadFacts DEF RecordLines
  <2> QED BY <2>1 DEF LastHash, record_hash, Leaf
<1>8. Line(decision, read) = [seq |-> next_seq, prev |-> LastHash, id |-> next_seq, body |-> body]
  BY DEF Line
<1> HIDE DEF body
<1> QED BY <1>1, <1>6, <1>7, <1>8 DEF RecordLines

\* The line of a poll is linked to the head it was appended after.
LEMMA LineIsLinked ==
  ASSUME InvoiceTypes, OpenIsCommitted, NEW decision \in Decisions, NEW read \in Measurements
  PROVE  Linked(Line(decision, read), ChainHead)
<1> DEFINE line == Line(decision, read)
<1>0. line.seq = next_seq /\ line.prev = LastHash
  BY LineFacts
<1>1. line.body = IF open_interval = Null THEN FirstInterval(decision, read) ELSE ClosedInterval(decision, read)
  BY DEF Line
<1> HIDE DEF line
<1>2. CASE ChainHead = Null
  <2>1. open_interval = Null
    BY <1>2 DEF OpenIsCommitted
  <2>2. line.body.reveal = Null
    BY <1>1, <2>1 DEF FirstInterval
  <2> QED BY <1>0, <1>2, <2>2 DEF Linked, LastHash, next_seq, line
<1>3. CASE ChainHead # Null
  <2>1. line.seq = ChainHead.seq + 1 /\ line.prev = record_hash(ChainHead)
    BY <1>0, <1>3 DEF next_seq, LastHash
  <2>2. ASSUME line.body.reveal # Null
        PROVE  /\ line.body.reveal.commit_seq = line.seq - 1
               /\ ChainHead.body.commit = commit_hash(decision_snapshot(line.body), line.body.reveal.nonce)
    <3>1. open_interval # Null
      BY <1>1, <2>2 DEF FirstInterval
    <3>2. activation # Null
      BY <1>1, <2>2, <3>1 DEF ClosedInterval
    <3>3. line.body.reveal = [commit_seq |-> next_seq - 1, nonce |-> open_interval.opened]
      BY <1>1, <3>1, <3>2 DEF ClosedInterval
    <3>4. /\ line.body.action = open_interval.action /\ line.body.price = open_interval.price
          /\ line.body.opened = open_interval.opened
      BY <1>1, <3>1 DEF ClosedInterval
    <3>5. decision_snapshot(line.body) = decision_snapshot(open_interval)
      BY <3>4, InvoiceFields DEF decision_snapshot
    <3>6. ChainHead.body.commit = commit_hash(decision_snapshot(open_interval), open_interval.opened)
      BY <3>1, <3>2 DEF OpenIsCommitted
    <3> QED BY <1>0, <3>3, <3>5, <3>6
  <2> QED BY <1>3, <2>1, <2>2 DEF Linked, line
<1> QED BY <1>2, <1>3

\* What a poll leaves: the files it found, and its line as the new head.
LEMMA PollFiles ==
  ASSUME InvoiceTypes, NothingAhead, NEW decision \in Decisions, NEW read \in Measurements,
         Poll(decision, read)
  PROVE  /\ files' \in [Days -> Seq(RecordLines)] /\ InvoiceTypes'
         /\ \A d \in Days : d # today => files'[d] = files[d]
         /\ DOMAIN files'[today] = 1..(Len(files[today]) + 1)
         /\ files'[today][Len(files[today]) + 1] = Line(decision, read)
         /\ \A d \in Days : \A i \in DOMAIN files[d] : i \in DOMAIN files'[d] /\ files'[d][i] = files[d][i]
         /\ Written' = Written \cup {today} /\ ChainHead' = Line(decision, read)
         /\ next_seq' = next_seq + 1
<1> DEFINE line == Line(decision, read)
           n == Len(files[today])
<1>0. today \in Days /\ files \in [Days -> Seq(RecordLines)]
  BY DEF InvoiceTypes
<1>1. line \in RecordLines /\ line.seq = next_seq
  BY LineFacts
<1>2. files' = [files EXCEPT ![today] = Append(@, line)]
  BY DEF Poll
<1> HIDE DEF line
<1>3. files'[today] = Append(files[today], line) /\ \A d \in Days : d # today => files'[d] = files[d]
  BY <1>0, <1>2
<1>4. files' \in [Days -> Seq(RecordLines)]
  <2>1. Append(files[today], line) \in Seq(RecordLines)
    BY <1>0, <1>1
  <2> QED BY <1>0, <1>2, <2>1
<1>5. IsList(files[today]) /\ n \in Nat /\ DOMAIN files[today] = 1..n
  BY <1>0, FileFacts
<1>6. /\ IsList(files'[today]) /\ Len(files'[today]) = n + 1 /\ files'[today][n + 1] = line
      /\ Last(files'[today]) = line /\ \A i \in 1..n : files'[today][i] = files[today][i]
  BY <1>3, <1>5, ListAppended
<1>7. DOMAIN files'[today] = 1..(n + 1) /\ files'[today] # <<>>
  BY <1>5, <1>6, ListFacts
<1>8. \A d \in Days : \A i \in DOMAIN files[d] : i \in DOMAIN files'[d] /\ files'[d][i] = files[d][i]
  <2> SUFFICES ASSUME NEW d \in Days, NEW i \in DOMAIN files[d]
               PROVE  i \in DOMAIN files'[d] /\ files'[d][i] = files[d][i]
    OBVIOUS
  <2> HIDE DEF n
  <2>1. CASE d = today
    BY <1>5, <1>6, <1>7, <2>1
  <2>2. CASE d # today
    BY <1>3, <2>2
  <2> QED BY <2>1, <2>2
<1>9. Written' = Written \cup {today}
  BY <1>0, <1>3, <1>7 DEF Written
<1>10. Max(Written') = today
  <2> DEFINE W == Written'
  <2>1. W \in SUBSET Days /\ W # {} /\ today \in W
    BY <1>0, <1>9 DEF Written
  <2>2. \A d \in W : d <= today
    <3> SUFFICES ASSUME NEW d \in W PROVE d <= today
      OBVIOUS
    <3>1. d = today \/ d \in Written
      BY <1>9
    <3>2. d \in Int /\ today \in Int
      BY <1>0, <2>1, InvoiceDays
    <3> QED BY <3>1, <3>2 DEF NothingAhead, Written
  <2> HIDE DEF W
  <2>3. Max(W) \in W /\ today <= Max(W)
    BY <2>1, DaysEnds
  <2>4. Max(W) \in Int /\ today \in Int
    BY <2>1, <2>3, InvoiceDays
  <2>5. Max(W) = today
    BY <2>2, <2>3, <2>4
  <2> QED BY <2>5 DEF W
<1>11. ChainHead' = line
  BY <1>6, <1>9, <1>10 DEF ChainHead
<1>12. next_seq' = next_seq + 1
  <2>1. line # Null
    BY <1>1, InvoiceNull
  <2> QED BY <1>1, <1>11, <2>1 DEF next_seq
<1>13. InvoiceTypes'
  <2>1. Opening(decision) \in Openings
    BY OpeningFacts
  <2> QED BY <1>4, <2>1 DEF InvoiceTypes, Poll
<1> QED BY <1>3, <1>4, <1>6, <1>7, <1>8, <1>9, <1>11, <1>12, <1>13 DEF line, n

\* A poll leaves the line before each older line where it was.
LEMMA PriorAfterPoll ==
  ASSUME InvoiceTypes, NothingAhead, NEW decision \in Decisions, NEW read \in Measurements,
         Poll(decision, read)
  PROVE  /\ \A d \in Days : \A i \in DOMAIN files[d] : Prior(d, i)' = Prior(d, i)
         /\ \A n \in Nat, d \in Days :
              n = Len(files[today]) /\ d = today => Prior(d, n + 1)' = ChainHead
<1>0. today \in Days /\ Days \subseteq Int /\ today' = today
  BY InvoiceDays DEF InvoiceTypes, Poll
<1>1. \A d \in Days : d <= today => Earlier(d)' = Earlier(d) /\ \A e \in Earlier(d) : files'[e] = files[e]
  <2> SUFFICES ASSUME NEW d \in Days, d <= today
               PROVE  Earlier(d)' = Earlier(d) /\ \A e \in Earlier(d) : files'[e] = files[e]
    OBVIOUS
  <2>1. Written' = Written \cup {today}
    BY PollFiles
  <2>2. \A e \in Earlier(d) : e \in Days /\ e # today
    BY <1>0 DEF Earlier, Written
  <2>3. Earlier(d)' = Earlier(d)
    BY <1>0, <2>1 DEF Earlier
  <2> QED BY <2>2, <2>3, PollFiles
<1>2. \A d \in Days : d <= today =>
        IF Earlier(d)' = {} THEN Earlier(d) = {} ELSE Earlier(d) # {} /\ Last(files[Max(Earlier(d))])' = Last(files[Max(Earlier(d))])
  <2> SUFFICES ASSUME NEW d \in Days, d <= today, Earlier(d) # {}
               PROVE  Last(files[Max(Earlier(d))])' = Last(files[Max(Earlier(d))])
    BY <1>1
  <2>1. Max(Earlier(d)) \in Earlier(d)
    BY DaysEnds DEF Earlier, Written
  <2>2. Earlier(d)' = Earlier(d) /\ files'[Max(Earlier(d))] = files[Max(Earlier(d))]
    BY <1>1, <2>1
  <2> QED BY <2>2
<1>3. ASSUME NEW d \in Days, NEW i \in DOMAIN files[d] PROVE Prior(d, i)' = Prior(d, i)
  <2>1. d <= today
    <3>1. files[d] # <<>>
      BY <1>3
    <3> QED BY <1>0, <3>1 DEF NothingAhead
  <2>2. CASE i > 1
    <3>1. i - 1 \in DOMAIN files[d]
      BY <1>3, <2>2, FileFacts
    <3>2. files'[d][i - 1] = files[d][i - 1]
      BY <3>1, PollFiles
    <3> QED BY <2>2, <3>2 DEF Prior
  <2>3. CASE ~ i > 1
    BY <1>2, <2>1, <2>3 DEF Prior
  <2> QED BY <2>2, <2>3
<1>4. ASSUME NEW n \in Nat, NEW d \in Days, n = Len(files[today]), d = today
      PROVE  Prior(d, n + 1)' = ChainHead
  <2>0. d \in Int /\ DOMAIN files[d] = 1..n
    BY <1>0, <1>4, FileFacts
  <2>1. CASE n > 0
    <3>1. Written # {} /\ Max(Written) = d
      <4>1. d \in Written
        BY <2>0, <2>1 DEF Written
      <4>2. Max(Written) \in Written /\ d <= Max(Written)
        BY <4>1, DaysEnds DEF Written
      <4>3. Max(Written) \in Int /\ ~ (Max(Written) > d)
        BY <1>0, <1>4, <4>2 DEF Written, NothingAhead
      <4> QED BY <2>0, <4>1, <4>2, <4>3
    <3>2. ChainHead = files[d][n]
      BY <1>4, <3>1 DEF ChainHead, Last
    <3>3. files'[d][n] = files[d][n]
      <4>1. n \in DOMAIN files[d]
        BY <2>0, <2>1
      <4> QED BY <4>1, PollFiles
    <3>4. Prior(d, n + 1)' = files'[d][n]
      <4>1. n + 1 > 1 /\ (n + 1) - 1 = n
        BY <2>1
      <4> QED BY <4>1 DEF Prior
    <3> QED BY <3>2, <3>3, <3>4
  <2>2. CASE n = 0
    <3>1. Earlier(d) = Written
      <4>1. files[d] = <<>>
        <5>1. IsList(files[d]) /\ Len(files[d]) = 0
          BY <1>4, <2>2, FileFacts
        <5> QED BY <5>1, ListFacts
      <4>2. \A e \in Written : e \in Int /\ e # d /\ ~ (e > d)
        BY <1>0, <1>4, <4>1 DEF Written, NothingAhead
      <4>3. \A e \in Written : e < d
        BY <2>0, <4>2
      <4> QED BY <4>3 DEF Earlier
    <3>2. ~ (n + 1 > 1)
      BY <2>2
    <3>3. Prior(d, n + 1)' = IF Earlier(d)' = {} THEN Null ELSE Last(files[Max(Earlier(d))])'
      BY <3>2 DEF Prior
    <3>4. d <= today
      BY <1>4, <2>0
    <3>5. ChainHead = IF Earlier(d) = {} THEN Null ELSE Last(files[Max(Earlier(d))])
      BY <3>1 DEF ChainHead
    <3> QED BY <1>1, <1>2, <3>3, <3>4, <3>5
  <2> QED BY <2>1, <2>2
<1> QED BY <1>3, <1>4

-----------------------------------------------------------------------------
(* Every step keeps the files in order.                                    *)

\* A poll keeps what the files keep.
LEMMA PollKeepsFiles ==
  ASSUME InvoiceTypes, FilesInv, NEW decision \in Decisions, NEW read \in Measurements,
         Poll(decision, read)
  PROVE  FilesInv'
<1> DEFINE line == Line(decision, read)
           n == Len(files[today])
<1>0. NothingAhead /\ next_seq \in 0..MaxRecords /\ LinesFollow /\ LinesRise /\ ClaimsBounded /\ OpenIsCommitted
  BY DEF FilesInv
<1>1. /\ today \in Days /\ Days \subseteq Int /\ today' = today /\ next_seq \in Nat /\ next_seq < MaxRecords
      /\ MaxRecords \in Nat
  BY InvoiceDays, InvoiceAmounts, HeadFacts DEF InvoiceTypes, Poll
<1>2. /\ \A d \in Days : d # today => files'[d] = files[d]
      /\ DOMAIN files'[today] = 1..(n + 1) /\ files'[today][n + 1] = line
      /\ \A d \in Days : \A i \in DOMAIN files[d] : i \in DOMAIN files'[d] /\ files'[d][i] = files[d][i]
      /\ ChainHead' = line /\ next_seq' = next_seq + 1
  BY <1>0, PollFiles
<1>3. /\ line \in RecordLines /\ line.id = next_seq /\ line.seq = next_seq
      /\ line.body.commit = Commitment(decision)
      /\ 3600 * line.body.claimed_wh <= MostWh + 1800
  BY LineFacts
<1>4. n \in Nat /\ DOMAIN files[today] = 1..n
  BY <1>1, FileFacts
<1>5. Linked(line, ChainHead)
  BY <1>0, LineIsLinked
<1> HIDE DEF line
\* A line of the new files is one of the old, or the one that was written.
<1>6. ASSUME NEW d \in Days, NEW i \in DOMAIN files'[d]
      PROVE  (i \in DOMAIN files[d] /\ files'[d][i] = files[d][i]) \/ (d = today /\ i = n + 1 /\ files'[d][i] = line)
  <2> HIDE DEF n
  <2>1. CASE d = today
    <3>1. i \in 1..n \/ i = n + 1
      BY <1>2, <1>4, <1>6, <2>1
    <3> QED BY <1>2, <1>4, <2>1, <3>1
  <2>2. CASE d # today
    BY <1>2, <1>6, <2>2
  <2> QED BY <2>1, <2>2
<1>7. NothingAhead'
  BY <1>0, <1>1, <1>2 DEF NothingAhead
<1>8. (next_seq \in 0..MaxRecords)'
  BY <1>1, <1>2 DEF Poll
<1>9. LinesFollow'
  <2> SUFFICES ASSUME NEW d \in Days, NEW i \in DOMAIN files'[d]
               PROVE  /\ files'[d][i].id = files'[d][i].seq /\ files'[d][i].seq < next_seq'
                      /\ Linked(files'[d][i], Prior(d, i)')
    BY DEF LinesFollow, Linked
  <2>1. CASE i \in DOMAIN files[d] /\ files'[d][i] = files[d][i]
    <3>1. /\ files[d][i].id = files[d][i].seq /\ files[d][i].seq < next_seq
          /\ Linked(files[d][i], Prior(d, i))
      BY <1>0, <2>1 DEF LinesFollow
    <3>2. Prior(d, i)' = Prior(d, i)
      BY <1>0, <2>1, PriorAfterPoll
    <3>3. files[d][i].seq \in Int
      BY <2>1, FileFacts DEF RecordLines
    <3> QED BY <1>1, <1>2, <2>1, <3>1, <3>2, <3>3
  <2>2. CASE d = today /\ i = n + 1 /\ files'[d][i] = line
    <3>1. Prior(d, i)' = ChainHead
      <4>1. \A m \in Nat, e \in Days : m = Len(files[today]) /\ e = today => Prior(e, m + 1)' = ChainHead
        BY <1>0, PriorAfterPoll
      <4>2. PICK m \in Nat : m = n
        BY <1>4
      <4>3. Prior(d, m + 1)' = ChainHead
        BY <2>2, <4>1, <4>2
      <4>4. i = m + 1
        BY <2>2, <4>2
      <4> QED BY <4>3, <4>4 DEF Prior
    <3> QED BY <1>1, <1>2, <1>3, <1>5, <2>2, <3>1
  <2> QED BY <1>6, <2>1, <2>2
<1>10. LinesRise'
  <2> SUFFICES ASSUME NEW d \in Days, NEW e \in Days, NEW i \in DOMAIN files'[d], NEW j \in DOMAIN files'[e],
                      d < e \/ (d = e /\ i < j)
               PROVE  files'[d][i].seq < files'[e][j].seq
    BY DEF LinesRise
  <2>0. d \in Int /\ e \in Int
    BY <1>1
  <2>1. CASE i \in DOMAIN files[d] /\ files'[d][i] = files[d][i] /\ j \in DOMAIN files[e] /\ files'[e][j] = files[e][j]
    BY <1>0, <2>1 DEF LinesRise
  <2>2. CASE i \in DOMAIN files[d] /\ files'[d][i] = files[d][i] /\ files'[e][j] = line
    BY <1>0, <1>3, <2>2 DEF LinesFollow
  <2>3. CASE d = today /\ i = n + 1 /\ files'[d][i] = line
    <3>1. e = today
      <4>1. e >= today /\ files'[e] # <<>>
        BY <1>1, <2>0, <2>3
      <4> QED BY <1>1, <1>7, <2>0, <4>1 DEF NothingAhead
    <3>2. j \in 1..(n + 1) /\ i < j
      BY <1>1, <1>2, <2>0, <2>3, <3>1
    <3> QED BY <1>4, <2>3, <3>2
  <2> QED BY <1>6, <2>1, <2>2, <2>3
<1>11. ClaimsBounded'
  <2> SUFFICES ASSUME NEW d \in Days, NEW i \in DOMAIN files'[d]
               PROVE  3600 * files'[d][i].body.claimed_wh <= MostWh + 1800
    BY DEF ClaimsBounded, MostWh
  <2> QED BY <1>0, <1>3, <1>6 DEF ClaimsBounded
<1>12. OpenIsCommitted'
  <2>1. open_interval' = Opening(decision) /\ activation' = activation
    BY DEF Poll
  <2>2. ChainHead' # Null
    BY <1>2, <1>3, InvoiceNull
  <2>3. activation # Null => line.body.commit = commit_hash(decision_snapshot(Opening(decision)), next_seq)
    BY <1>3, OpeningFacts
  <2>4. Opening(decision).opened = next_seq
    BY DEF Opening
  <2> QED BY <1>2, <2>1, <2>2, <2>3, <2>4 DEF OpenIsCommitted
<1> QED BY <1>7, <1>8, <1>9, <1>10, <1>11, <1>12 DEF FilesInv

\* So does a step that leaves the files and the open interval.
LEMMA FilesInvSame ==
  ASSUME InvoiceTypes, FilesInv, files' = files, today' \in Days, today' >= today,
         open_interval' = Null \/ (open_interval' = open_interval /\ activation' = activation)
  PROVE  FilesInv'
<1>0. NothingAhead /\ next_seq \in 0..MaxRecords /\ LinesFollow /\ LinesRise /\ ClaimsBounded /\ OpenIsCommitted
  BY DEF FilesInv
<1>1. ChainHead' = ChainHead /\ next_seq' = next_seq
  BY FilesSame
<1>2. NothingAhead'
  <2>1. today \in Int /\ Days \subseteq Int
    BY InvoiceDays DEF InvoiceTypes
  <2> SUFFICES ASSUME NEW d \in Days, d > today' PROVE files[d] = <<>>
    BY DEF NothingAhead
  <2>2. d > today
    BY <2>1
  <2> QED BY <1>0, <2>2 DEF NothingAhead
<1>3. LinesFollow'
  <2> SUFFICES ASSUME NEW d \in Days, NEW i \in DOMAIN files[d]
               PROVE  /\ files[d][i].id = files[d][i].seq /\ files[d][i].seq < next_seq
                      /\ Linked(files[d][i], Prior(d, i)')
    BY <1>1 DEF LinesFollow, Linked
  <2>1. Prior(d, i)' = Prior(d, i)
    BY FilesSame
  <2> QED BY <1>0, <2>1 DEF LinesFollow
<1>4. LinesRise'
  BY <1>0 DEF LinesRise
<1>5. ClaimsBounded'
  BY <1>0 DEF ClaimsBounded, MostWh
<1>6. OpenIsCommitted'
  BY <1>0, <1>1 DEF OpenIsCommitted
<1>7. (next_seq \in 0..MaxRecords)'
  BY <1>0, <1>1
<1> QED BY <1>2, <1>3, <1>4, <1>5, <1>6, <1>7 DEF FilesInv

\* The empty ledger.
LEMMA InitFiles == Init => InvoiceTypes /\ FilesInv
<1> SUFFICES ASSUME Init PROVE InvoiceTypes /\ FilesInv
  OBVIOUS
<1>1. today \in Days /\ today = Min(Days)
  <2>1. Days # {}
    BY InvoiceDays
  <2> QED BY <2>1, DaysEnds DEF Init
<1>2. files = [d \in Days |-> <<>>] /\ \A d \in Days : files[d] = <<>> /\ DOMAIN files[d] = {}
  BY DEF Init
<1>3. InvoiceTypes
  <2>1. files \in [Days -> Seq(RecordLines)]
    BY <1>2
  <2> QED BY <1>1, <2>1 DEF InvoiceTypes, Init
<1>4. Written = {}
  BY <1>2 DEF Written
<1>5. next_seq = 0 /\ MaxRecords \in Nat
  BY <1>3, <1>4, HeadFacts, InvoiceAmounts
<1>6. NothingAhead /\ LinesFollow /\ LinesRise /\ ClaimsBounded
  BY <1>2 DEF NothingAhead, LinesFollow, LinesRise, ClaimsBounded
<1>7. OpenIsCommitted
  BY DEF Init, OpenIsCommitted
<1> QED BY <1>3, <1>5, <1>6, <1>7 DEF FilesInv

\* Every step keeps the files in order.
LEMMA NextFiles ==
  ASSUME InvoiceTypes, FilesInv, [Next]_vars
  PROVE  InvoiceTypes' /\ FilesInv'
<1>0. today \in Days /\ Days \subseteq Int
  BY InvoiceDays DEF InvoiceTypes
<1>1. CASE \E decision \in Decisions, read \in Measurements : Relevant(decision, read) /\ Poll(decision, read)
  BY <1>1, PollFiles, PollKeepsFiles DEF FilesInv
<1>2. CASE \E mode \in BOOLEAN : Restart(mode)
  <2>1. PICK mode \in BOOLEAN : Restart(mode)
    BY <1>2
  <2>2. InvoiceTypes'
    BY <1>0, <2>1 DEF Restart, InvoiceTypes
  <2> QED BY <1>0, <2>1, <2>2, FilesInvSame DEF Restart
<1>3. CASE Midnight
  <2>1. today' = today + 1 /\ today < Max(Days)
    BY <1>3 DEF Midnight
  <2>2. today' \in Days
    <3>1. PICK a, b \in Days : Days = a..b
      BY InvoiceDays
    <3>2. Max(Days) \in Days
      BY <1>0, DaysEnds
    <3> QED BY <1>0, <2>1, <3>1, <3>2
  <2>3. InvoiceTypes'
    BY <1>3, <2>2 DEF Midnight, InvoiceTypes
  <2> QED BY <1>0, <1>3, <2>1, <2>2, <2>3, FilesInvSame DEF Midnight
<1>4. CASE SealDay
  <2>1. InvoiceTypes'
    BY <1>4 DEF SealDay, InvoiceTypes
  <2> QED BY <1>0, <1>4, <2>1, FilesInvSame DEF SealDay
<1>5. CASE SealAgain
  <2>1. InvoiceTypes'
    BY <1>5 DEF SealAgain, InvoiceTypes
  <2> QED BY <1>0, <1>5, <2>1, FilesInvSame DEF SealAgain
<1>6. CASE Issue
  <2>1. InvoiceTypes'
    BY <1>6 DEF Issue, InvoiceTypes
  <2> QED BY <1>0, <1>6, <2>1, FilesInvSame DEF Issue
<1>7. CASE Differs
  <2>1. InvoiceTypes'
    BY <1>7 DEF Differs, InvoiceTypes
  <2> QED BY <1>0, <1>7, <2>1, FilesInvSame DEF Differs
<1>8. CASE UNCHANGED vars
  <2>1. InvoiceTypes'
    BY <1>8 DEF vars, InvoiceTypes
  <2> QED BY <1>0, <1>8, <2>1, FilesInvSame DEF vars
<1> QED BY <1>1, <1>2, <1>3, <1>4, <1>5, <1>6, <1>7, <1>8 DEF Next

-----------------------------------------------------------------------------
(* The seals.                                                              *)

\* What seal_day chains the next seal to.
PrevSeal(book) == IF book.seals = <<>> THEN GENESIS_SEAL ELSE Last(book.seals).seal_hash

\* A body with its signature, and the body of a signed one.
LEMMA SignedRecord ==
  ASSUME NEW body, NEW signature, "signature" \notin DOMAIN body, body = [field \in DOMAIN body |-> body[field]]
  PROVE  /\ DOMAIN WithSignature(body, signature) = DOMAIN body \cup {"signature"}
         /\ WithSignature(body, signature).signature = signature
         /\ \A field \in DOMAIN body : WithSignature(body, signature)[field] = body[field]
         /\ BodyForSigning(WithSignature(body, signature)) = body
<1> DEFINE s == WithSignature(body, signature)
<1>1. s = [field \in DOMAIN body \cup {"signature"} |-> IF field = "signature" THEN signature ELSE body[field]]
  BY DEF WithSignature
<1> HIDE DEF s
<1>2. DOMAIN s = DOMAIN body \cup {"signature"} /\ s.signature = signature
  BY <1>1
<1>3. \A field \in DOMAIN body : s[field] = body[field]
  BY <1>1
<1>4. BodyForSigning(s) = body
  <2>1. DOMAIN s \ {"signature"} = DOMAIN body
    BY <1>2
  <2>2. BodyForSigning(s) = [field \in DOMAIN body |-> s[field]]
    BY <2>1 DEF BodyForSigning
  <2>3. [field \in DOMAIN body |-> s[field]] = [field \in DOMAIN body |-> body[field]]
    BY <1>3
  <2> QED BY <2>2, <2>3
<1> QED BY <1>2, <1>3, <1>4 DEF s

\* What a seal says of its day (ledger.py, seal_day).
LEMMA SealFields ==
  ASSUME NEW book, NEW day, NEW s, s = SealFor(book, day)
  PROVE  /\ s.day = day /\ s.prev_seal = PrevSeal(book)
         /\ s.merkle_root = merkle_root(leaves(book.files[day]))
         /\ s.leaf_count = Len(book.files[day])
         /\ s.seal_hash = Append(s.prev_seal, merkle_root(leaves(book.files[day])))
         /\ s.first_seq = book.files[day][1].seq /\ s.last_seq = Last(book.files[day]).seq
         /\ s.rule = seal_rule_for(day, FromDay(book))
         /\ s.farm_id = IF s.rule = SEAL_RULE_FARM_BOUND THEN book.farm_id ELSE Null
<1> DEFINE root == merkle_root(leaves(book.files[day]))
           rule == seal_rule_for(day, FromDay(book))
           farm == IF rule = SEAL_RULE_FARM_BOUND THEN book.farm_id ELSE Null
           audit == Audit([i \in Executed(book, day) |-> ClaimOf(book.files[day][i])], book.margin_ppm)
           prev == PrevSeal(book)
           count == Len(book.files[day])
           first == book.files[day][1].seq
           last == Last(book.files[day]).seq
           chained == Append(prev, root)
           body == SealBody(book, day)
<1>1. body = [day |-> day, prev_seal |-> prev, merkle_root |-> root, leaf_count |-> count,
              first_seq |-> first, last_seq |-> last, seal_hash |-> chained,
              corroboration |-> audit, rule |-> rule, farm_id |-> farm]
  BY DEF SealBody, PrevSeal, seal_hash
<1>2. s = WithSignature(body, Signed(body))
  BY DEF SealFor
<1> HIDE DEF root, rule, farm, audit, prev, count, first, last, chained, body
<1>3. "signature" \notin DOMAIN body /\ body = [field \in DOMAIN body |-> body[field]]
  BY <1>1
<1>4. /\ s.signature = Signed(body) /\ BodyForSigning(s) = body
      /\ \A field \in DOMAIN body : s[field] = body[field]
  <2> DEFINE sig == Signed(body)
             w == WithSignature(body, sig)
  <2>1. s = w
    BY <1>2
  <2> HIDE DEF sig
  <2>2. w.signature = sig
    BY <1>3, SignedRecord
  <2>4. \A field \in DOMAIN body : w[field] = body[field]
    BY <1>3 DEF WithSignature
  <2>3. BodyForSigning(w) = body
    BY <1>3, SignedRecord
  <2> HIDE DEF w
  <2> QED BY <2>1, <2>2, <2>3, <2>4 DEF sig
<1>5. /\ s.day = day /\ s.prev_seal = prev /\ s.merkle_root = root /\ s.leaf_count = count
      /\ s.first_seq = first /\ s.last_seq = last /\ s.seal_hash = chained
      /\ s.corroboration = audit /\ s.rule = rule /\ s.farm_id = farm
  BY <1>1, <1>4
<1> QED BY <1>5 DEF root, rule, farm, prev, count, first, last, chained

\* It is signed over all that it says.
LEMMA SealSigned ==
  ASSUME NEW book, NEW day, NEW s, s = SealFor(book, day)
  PROVE  /\ s.signature = Signed(BodyForSigning(s))
         /\ BodyForSigning(s) = [day |-> s.day, prev_seal |-> s.prev_seal, merkle_root |-> s.merkle_root,
               leaf_count |-> s.leaf_count, first_seq |-> s.first_seq, last_seq |-> s.last_seq,
               seal_hash |-> s.seal_hash, corroboration |-> s.corroboration, rule |-> s.rule,
               farm_id |-> s.farm_id]
<1> DEFINE root == merkle_root(leaves(book.files[day]))
           rule == seal_rule_for(day, FromDay(book))
           farm == IF rule = SEAL_RULE_FARM_BOUND THEN book.farm_id ELSE Null
           audit == Audit([i \in Executed(book, day) |-> ClaimOf(book.files[day][i])], book.margin_ppm)
           prev == PrevSeal(book)
           count == Len(book.files[day])
           first == book.files[day][1].seq
           last == Last(book.files[day]).seq
           chained == Append(prev, root)
           body == SealBody(book, day)
<1>1. body = [day |-> day, prev_seal |-> prev, merkle_root |-> root, leaf_count |-> count,
              first_seq |-> first, last_seq |-> last, seal_hash |-> chained,
              corroboration |-> audit, rule |-> rule, farm_id |-> farm]
  BY DEF SealBody, PrevSeal, seal_hash
<1>2. s = WithSignature(body, Signed(body))
  BY DEF SealFor
<1> HIDE DEF root, rule, farm, audit, prev, count, first, last, chained, body
<1>3. "signature" \notin DOMAIN body /\ body = [field \in DOMAIN body |-> body[field]]
  BY <1>1
<1>4. /\ s.signature = Signed(body) /\ BodyForSigning(s) = body
      /\ \A field \in DOMAIN body : s[field] = body[field]
  <2> DEFINE sig == Signed(body)
             w == WithSignature(body, sig)
  <2>1. s = w
    BY <1>2
  <2> HIDE DEF sig
  <2>2. w.signature = sig
    BY <1>3, SignedRecord
  <2>4. \A field \in DOMAIN body : w[field] = body[field]
    BY <1>3 DEF WithSignature
  <2>3. BodyForSigning(w) = body
    BY <1>3, SignedRecord
  <2> HIDE DEF w
  <2> QED BY <2>1, <2>2, <2>3, <2>4 DEF sig
<1>5. /\ s.day = day /\ s.prev_seal = prev /\ s.merkle_root = root /\ s.leaf_count = count
      /\ s.first_seq = first /\ s.last_seq = last /\ s.seal_hash = chained
      /\ s.corroboration = audit /\ s.rule = rule /\ s.farm_id = farm
  BY <1>1, <1>4
<1> QED BY <1>1, <1>4, <1>5

\* The seal of a day depends on the chain only through its end.
LEMMA SealAfter ==
  ASSUME NEW day
  PROVE  /\ SealFor(Book, day) = SealFor(BookAfter(PrevSeal(Book)), day)
         /\ \A read : SealFor(BookWith(read), day) = SealFor(BookAfter(PrevSeal(BookWith(read))), day)
         /\ \A prev : /\ PrevSeal(BookAfter(prev)) = prev /\ BookAfter(prev).files = files
                      /\ BookAfter(prev).activation = activation /\ BookAfter(prev).farm_id = FarmId
                      /\ BookAfter(prev).margin_ppm = MarginPpm
<1>1. ASSUME NEW prev PROVE PrevSeal(BookAfter(prev)) = prev
  <2>1. Last(<<[seal_hash |-> prev]>>).seal_hash = prev
    BY DEF Last
  <2>2. <<[seal_hash |-> prev]>> # <<>>
    OBVIOUS
  <2>3. BookAfter(prev).seals = IF prev = GENESIS_SEAL THEN <<>> ELSE <<[seal_hash |-> prev]>>
    BY DEF BookAfter, Book
  <2> QED BY <2>1, <2>2, <2>3 DEF PrevSeal
<1>2. ASSUME NEW prev
      PROVE  /\ BookAfter(prev).files = files /\ BookAfter(prev).activation = activation
             /\ BookAfter(prev).farm_id = FarmId /\ BookAfter(prev).margin_ppm = MarginPpm
  BY DEF BookAfter, Book
<1>3. ASSUME NEW read
      PROVE  SealBody(BookWith(read), day) = SealBody(BookAfter(PrevSeal(BookWith(read))), day)
  <2> DEFINE w == BookWith(read)
             b == BookAfter(PrevSeal(w))
  <2>1. PrevSeal(b) = PrevSeal(w)
    BY <1>1
  <2>2. /\ b.files = w.files /\ b.activation = w.activation /\ b.farm_id = w.farm_id
        /\ b.margin_ppm = w.margin_ppm
    BY <1>2 DEF BookWith, Book
  <2> HIDE DEF b, w
  <2>3. FromDay(b) = FromDay(w)
    BY <2>2 DEF FromDay
  <2>4. Executed(b, day) = Executed(w, day)
    BY <2>2 DEF Executed
  <2>5. SealBody(w, day) = SealBody(b, day)
    BY <2>1, <2>2, <2>3, <2>4 DEF SealBody, PrevSeal
  <2> QED BY <2>5 DEF w, b
<1>4. BookWith(seals) = Book
  BY DEF BookWith, Book
<1>5. SealBody(Book, day) = SealBody(BookAfter(PrevSeal(Book)), day)
  BY <1>3, <1>4
<1> QED BY <1>1, <1>2, <1>3, <1>5 DEF SealFor

\* The book, and the bill, stay as long as what they are read from does.
LEMMA BookSame ==
  ASSUME files' = files, seals' = seals, activation' = activation
  PROVE  Book' = Book /\ Bill' = Bill /\ BilledSeals' = BilledSeals /\ FarmId' = FarmId /\ \A prev : BookAfter(prev)' = BookAfter(prev)
<1>1. FarmId' = FarmId
  BY DEF FarmId
<1>2. Book' = Book
  BY <1>1 DEF Book
<1> QED BY <1>1, <1>2 DEF Bill, BilledSeals, BookAfter

\* So does the seal of a day.
LEMMA BookAfterSame ==
  ASSUME files' = files, activation' = activation
  PROVE  \A prev, day : SealFor(BookAfter(prev), day)' = SealFor(BookAfter(prev), day)
<1>1. FarmId' = FarmId
  BY DEF FarmId
<1> SUFFICES ASSUME NEW prev, NEW day PROVE SealFor(BookAfter(prev), day)' = SealFor(BookAfter(prev), day)
  OBVIOUS
<1>2. BookAfter(prev)' = BookAfter(prev)
  BY <1>1 DEF BookAfter, Book
<1> QED BY <1>2

\* A step that leaves files, seals and activation keeps what the seals keep.
LEMMA SealsSame ==
  ASSUME SealsInv, InvoiceTypes, files' = files, activation' = activation, seals' = seals, repeated' = repeated,
         today' \in Days, today' >= today
  PROVE  SealsInv'
<1>1. Written' = Written /\ next_seq' = next_seq /\ SealedDays' = SealedDays
  BY FilesSame DEF SealedDays
<1>2. \A prev, day : SealFor(BookAfter(prev), day)' = SealFor(BookAfter(prev), day)
  BY BookAfterSame
<1>3. SealsOfDays'
  <2> SUFFICES ASSUME NEW k \in DOMAIN seals
               PROVE  /\ seals[k].day \in Written /\ seals[k].day < today' /\ IsList(seals[k].prev_seal)
                      /\ seals[k] = SealFor(BookAfter(seals[k].prev_seal), seals[k].day)'
    BY <1>1 DEF SealsOfDays, IsList
  <2>1. /\ seals[k].day \in Written /\ seals[k].day < today /\ IsList(seals[k].prev_seal)
        /\ seals[k] = SealFor(BookAfter(seals[k].prev_seal), seals[k].day)
    BY DEF SealsInv, SealsOfDays
  <2>2. seals[k].day \in Int /\ today \in Int /\ today' \in Int
    BY <2>1, InvoiceDays DEF Written, InvoiceTypes
  <2>3. SealFor(BookAfter(seals[k].prev_seal), seals[k].day)' = SealFor(BookAfter(seals[k].prev_seal), seals[k].day)
    BY <1>2
  <2> QED BY <2>1, <2>2, <2>3
<1>4. SealsRise' /\ SealsChained' /\ SealedFirst' /\ IsList(seals)'
  BY <1>1 DEF SealsInv, SealsRise, SealedTwice, SealsChained, SealedFirst, IsList
<1> QED BY <1>1, <1>3, <1>4 DEF SealsInv

\* A ledger without seals.
LEMMA NoSeals == ASSUME seals = <<>> PROVE SealsInv
<1>1. IsList(seals) /\ DOMAIN seals = {}
  BY DEF IsList
<1> QED BY <1>1 DEF SealsInv, SealsOfDays, SealsRise, SealsChained, SealedFirst

\* The day of a seal, and its place in the chain.
LEMMA SealOfDayFacts ==
  ASSUME SealsInv, InvoiceTypes, NEW k \in DOMAIN seals
  PROVE  /\ seals[k].day \in Days /\ seals[k].day \in Int /\ files[seals[k].day] # <<>> /\ seals[k].day < today
         /\ IsList(seals[k].prev_seal) /\ IsList(seals[k].seal_hash)
         /\ seals[k].seal_hash = Append(seals[k].prev_seal, merkle_root(leaves(files[seals[k].day])))
         /\ seals[k].seal_hash # seals[k].prev_seal
<1>1. /\ seals[k].day \in Written /\ seals[k].day < today /\ IsList(seals[k].prev_seal)
      /\ seals[k] = SealFor(BookAfter(seals[k].prev_seal), seals[k].day)
  BY DEF SealsInv, SealsOfDays
<1>2. BookAfter(seals[k].prev_seal).files = files
  BY SealAfter
<1>3. seals[k].seal_hash = Append(seals[k].prev_seal, merkle_root(leaves(files[seals[k].day])))
  <2> DEFINE b == BookAfter(seals[k].prev_seal)
             d == seals[k].day
  <2>1. b.files = files /\ seals[k] = SealFor(b, d)
    BY <1>1, <1>2
  <2> HIDE DEF b, d
  <2>2. seals[k].seal_hash = Append(seals[k].prev_seal, merkle_root(leaves(b.files[d])))
    BY ONLY <2>1, SealFields
  <2> QED BY <2>1, <2>2 DEF d
<1>4. IsList(seals[k].seal_hash) /\ Len(seals[k].seal_hash) = Len(seals[k].prev_seal) + 1
  BY <1>1, <1>3, ListAppended
<1>5. Len(seals[k].prev_seal) \in Nat
  BY <1>1 DEF IsList
<1>6. seals[k].seal_hash # seals[k].prev_seal
  BY <1>4, <1>5
<1> QED BY <1>1, <1>3, <1>4, <1>6, InvoiceDays DEF Written

\* Sealing the first day that waits keeps what the seals keep.
LEMMA SealDayKeepsSeals ==
  ASSUME SealsInv, InvoiceTypes, SealDay
  PROVE  SealsInv'
<1> DEFINE p == Min(Pending)
           s == SealFor(Book, p)
           n == Len(seals)
<1>0. /\ files' = files /\ activation' = activation /\ repeated' = repeated /\ today' = today
      /\ seals' = Append(seals, s) /\ next_seq = MaxRecords
  BY DEF SealDay
<1>1. p \in Pending /\ \A d \in Pending : p <= d
  BY DaysEnds DEF SealDay, Pending, Written
<1>2. p \in Written /\ p < today /\ p \notin SealedDays /\ p \in Int
  BY <1>1, InvoiceDays DEF Pending, Written
<1>3. IsList(seals) /\ SealsOfDays /\ SealsRise /\ SealsChained /\ SealedFirst
  BY DEF SealsInv
<1>4. DOMAIN seals = 1..n /\ n \in Nat
  BY <1>3, ListFacts
<1>5. s.day = p /\ s.prev_seal = PrevSeal(Book)
  <2>1. s = SealFor(Book, p)
    OBVIOUS
  <2> HIDE DEF p, s
  <2> QED BY ONLY <2>1, SealFields
<1>6. s = SealFor(BookAfter(s.prev_seal), p)
  BY <1>5, SealAfter
<1> HIDE DEF p, s
<1>7. /\ IsList(seals') /\ DOMAIN seals' = 1..(n + 1) /\ seals'[n + 1] = s
      /\ \A k \in 1..n : seals'[k] = seals[k]
  BY <1>0, <1>3, <1>4, ListAppended, ListFacts
<1>8. IsList(s.prev_seal) /\ (n > 0 => s.prev_seal = seals[n].seal_hash) /\ (n = 0 => s.prev_seal = GENESIS_SEAL)
  <2>1. CASE n = 0
    <3>1. seals = <<>>
      BY <1>3, <2>1, ListFacts
    <3>2. s.prev_seal = <<>>
      BY <1>5, <3>1 DEF PrevSeal, Book, GENESIS_SEAL
    <3> QED BY <2>1, <3>2 DEF IsList, GENESIS_SEAL
  <2>2. CASE n > 0
    <3>1. seals # <<>> /\ Last(seals) = seals[n] /\ n \in DOMAIN seals
      BY <1>3, <2>2, ListFacts
    <3>2. s.prev_seal = seals[n].seal_hash
      BY <1>5, <3>1 DEF PrevSeal, Book
    <3> QED BY <2>2, <3>1, <3>2, SealOfDayFacts
  <2> QED BY <1>4, <2>1, <2>2
<1>9. Written' = Written /\ next_seq' = next_seq
  BY <1>0, FilesSame
<1>10. SealedDays' = SealedDays \cup {p}
  <2>1. \A k \in DOMAIN seals' : k \in DOMAIN seals \/ k = n + 1
    BY <1>4, <1>7
  <2>2. \A k \in DOMAIN seals : k \in DOMAIN seals' /\ seals'[k].day = seals[k].day
    BY <1>4, <1>7
  <2>3. n + 1 \in DOMAIN seals' /\ seals'[n + 1].day = p
    BY <1>4, <1>5, <1>7
  <2> HIDE DEF n
  <2> QED BY <1>4, <1>7, <2>1, <2>2, <2>3 DEF SealedDays
<1>11. \A k \in 1..n : seals[k].day < p
  <2> SUFFICES ASSUME NEW k \in 1..n PROVE seals[k].day < p
    OBVIOUS
  <2>1. seals[k].day \in Int /\ seals[k].day \in SealedDays
    BY <1>4, SealOfDayFacts DEF SealedDays
  <2>2. p # seals[k].day /\ ~ (p < seals[k].day)
    BY <1>2, <1>3, <1>4, <2>1 DEF SealedFirst
  <2> QED BY <1>2, <2>1, <2>2
<1>12. SealsOfDays'
  <2> SUFFICES ASSUME NEW k \in DOMAIN seals'
               PROVE  /\ seals'[k].day \in Written /\ seals'[k].day < today /\ IsList(seals'[k].prev_seal)
                      /\ (seals[k] = SealFor(BookAfter(seals[k].prev_seal), seals[k].day))'
    BY <1>0, <1>9 DEF SealsOfDays, IsList
  <2>1. \A prev, day : SealFor(BookAfter(prev), day)' = SealFor(BookAfter(prev), day)
    BY <1>0, BookAfterSame
  <2>2. CASE k \in 1..n
    <3>1. seals'[k] = seals[k] /\ k \in DOMAIN seals
      BY <1>4, <1>7, <2>2
    <3>2. /\ seals[k].day \in Written /\ seals[k].day < today /\ IsList(seals[k].prev_seal)
          /\ seals[k] = SealFor(BookAfter(seals[k].prev_seal), seals[k].day)
      BY <1>3, <3>1 DEF SealsOfDays
    <3> QED BY <2>1, <3>1, <3>2
  <2>3. CASE k = n + 1
    <3>1. seals'[k] = s
      BY <1>7, <2>3
    <3> QED BY <1>2, <1>5, <1>6, <1>8, <2>1, <3>1
  <2> QED BY <1>4, <1>7, <2>2, <2>3
<1>13. SealsRise'
  <2> SUFFICES ASSUME NEW j \in DOMAIN seals', NEW k \in DOMAIN seals', j < k
               PROVE  seals'[j].day < seals'[k].day \/ (repeated' /\ SealedTwice(j, k)')
    BY DEF SealsRise
  <2>1. j \in 1..n /\ seals'[j] = seals[j]
    BY <1>4, <1>7
  <2>2. CASE k \in 1..n
    BY <1>0, <1>3, <1>4, <1>7, <2>1, <2>2 DEF SealsRise, SealedTwice
  <2>3. CASE k = n + 1
    BY <1>5, <1>7, <1>11, <2>1, <2>3
  <2> QED BY <1>4, <1>7, <2>2, <2>3
<1>14. SealsChained'
  <2> SUFFICES ASSUME NEW k \in DOMAIN seals'
               PROVE  IF k = 1
                      THEN seals'[k].prev_seal = GENESIS_SEAL
                      ELSE seals'[k].prev_seal = seals'[k - 1].seal_hash \/ seals'[k] = seals'[k - 1]
    BY DEF SealsChained
  <2>1. CASE k \in 1..n
    <3>1. k # 1 => k - 1 \in 1..n
      BY <1>4, <2>1
    <3> QED BY <1>3, <1>4, <1>7, <2>1, <3>1 DEF SealsChained
  <2>2. CASE k = n + 1
    <3>1. n > 0 => n \in 1..n
      BY <1>4
    <3> QED BY <1>4, <1>7, <1>8, <2>2, <3>1
  <2> QED BY <1>4, <1>7, <2>1, <2>2
<1>15. SealedFirst'
  <2> SUFFICES ASSUME NEW k \in DOMAIN seals', NEW d \in Written, d < seals'[k].day
               PROVE  d \in SealedDays \/ d = p
    BY <1>9, <1>10 DEF SealedFirst
  <2>1. CASE k \in 1..n
    BY <1>3, <1>4, <1>7, <2>1 DEF SealedFirst
  <2>2. CASE k = n + 1
    <3>1. d < p
      BY <1>5, <1>7, <2>2
    <3>2. d \in Int /\ today \in Int
      BY InvoiceDays DEF Written, InvoiceTypes
    <3>3. d < today /\ d \notin Pending
      BY <1>1, <1>2, <3>1, <3>2
    <3> QED BY <3>3 DEF Pending
  <2> QED BY <1>4, <1>7, <2>1, <2>2
<1> QED BY <1>0, <1>7, <1>9, <1>12, <1>13, <1>14, <1>15 DEF SealsInv, IsList, SealDay

\* What another process seals of the day that was sealed last.
LEMMA SecondSeal ==
  ASSUME SealsInv, InvoiceTypes, ~ repeated, seals # <<>>, NEW read \in {Front(seals), seals}
  PROVE  LET last == seals[Len(seals)]
             s == SealFor(BookWith(read), last.day) IN
         s = last \/ (s.day = last.day /\ s.prev_seal = last.seal_hash
                       /\ s = SealFor(BookAfter(s.prev_seal), s.day))
<1> DEFINE n == Len(seals)
           last == seals[n]
           day == last.day
           prev == PrevSeal(BookWith(read))
           s == SealFor(BookWith(read), day)
<1>1. IsList(seals) /\ SealsOfDays /\ SealsRise /\ SealsChained
  BY DEF SealsInv
<1>2. DOMAIN seals = 1..n /\ n \in Nat /\ n > 0 /\ Last(seals) = last /\ n \in DOMAIN seals
  BY <1>1, ListFacts
<1>3. last = SealFor(BookAfter(last.prev_seal), day)
  BY <1>1, <1>2 DEF SealsOfDays
<1>4. s = SealFor(BookAfter(prev), day)
  BY SealAfter
<1>5. prev = IF read = <<>> THEN GENESIS_SEAL ELSE Last(read).seal_hash
  BY DEF PrevSeal, BookWith, Book
<1>6. CASE read = seals
  <2>1. prev = last.seal_hash
    BY <1>2, <1>5, <1>6
  <2>2. s.day = day /\ s.prev_seal = prev
    <3> DEFINE w == BookWith(read)
    <3>1. s = SealFor(w, day) /\ prev = PrevSeal(w)
      OBVIOUS
    <3> HIDE DEF w, day, s, prev
    <3> QED BY ONLY <3>1, SealFields
  <2> QED BY <1>4, <2>1, <2>2
<1>7. CASE read # seals
  <2>1. read = Front(seals)
    BY <1>7
  <2> HIDE DEF prev, s
  <2>2. prev = last.prev_seal
    <3>1. CASE n = 1
      <4>1. read = <<>>
        BY <1>2, <2>1, <3>1 DEF Front
      <4> QED BY <1>1, <1>2, <1>5, <3>1, <4>1 DEF SealsChained
    <3>2. CASE n # 1
      <4>1. n - 1 \in DOMAIN seals /\ n - 1 < n /\ n - 1 \in Nat \ {0}
        BY <1>2, <3>2
      <4>2. read = [k \in 1..(n - 1) |-> seals[k]]
        BY <2>1 DEF Front
      <4>3. Len(read) = n - 1 /\ read # <<>> /\ read[n - 1] = seals[n - 1]
        BY <4>1, <4>2
      <4>4. Last(read) = seals[n - 1]
        BY <4>3 DEF Last
      <4>5. seals[n - 1].day < seals[n].day
        BY <1>1, <1>2, <4>1 DEF SealsRise
      <4>6. seals[n - 1].day \in Int /\ seals[n - 1] # seals[n]
        BY <1>2, <4>1, <4>5, SealOfDayFacts
      <4>7. seals[n].prev_seal = seals[n - 1].seal_hash
        <5> HIDE DEF n
        <5>1. seals[n].prev_seal = seals[n - 1].seal_hash \/ seals[n] = seals[n - 1]
          BY <1>1, <1>2, <3>2 DEF SealsChained
        <5> QED BY <4>6, <5>1
      <4>8. prev = seals[n - 1].seal_hash
        BY <1>5, <4>3, <4>4
      <4> QED BY <4>7, <4>8
    <3> QED BY <3>1, <3>2
  <2>3. s = last
    BY <1>3, <1>4, <2>2
  <2> QED BY <2>3 DEF s
<1> QED BY <1>6, <1>7

\* So does sealing the last one again.
LEMMA SealAgainKeepsSeals ==
  ASSUME SealsInv, InvoiceTypes, SealAgain
  PROVE  SealsInv'
<1> DEFINE n == Len(seals)
<1>0. /\ files' = files /\ activation' = activation /\ today' = today /\ ~ repeated /\ repeated'
      /\ seals # <<>>
  BY DEF SealAgain
<1>1. PICK read \in {Front(seals), seals} :
        seals' = Append(seals, SealFor(BookWith(read), Last(seals).day))
  BY DEF SealAgain
<1>3. /\ IsList(seals) /\ SealsOfDays /\ SealsRise /\ SealsChained /\ SealedFirst /\ next_seq = MaxRecords
  BY <1>0 DEF SealsInv
<1>4. DOMAIN seals = 1..n /\ n \in Nat /\ n > 0 /\ Last(seals) = seals[n] /\ n \in 1..n
  BY <1>0, <1>3, ListFacts
<1> DEFINE s == SealFor(BookWith(read), Last(seals).day)
<1>5. s = seals[n] \/ (s.day = seals[n].day /\ s.prev_seal = seals[n].seal_hash
                          /\ s = SealFor(BookAfter(s.prev_seal), s.day))
  BY <1>0, <1>4, SecondSeal
<1> HIDE DEF s
<1>7. /\ IsList(seals') /\ DOMAIN seals' = 1..(n + 1) /\ seals'[n + 1] = s
      /\ \A k \in 1..n : seals'[k] = seals[k]
  BY <1>1, <1>3, <1>4, ListAppended, ListFacts DEF s
<1>9. Written' = Written /\ next_seq' = next_seq /\ MaxRecords' = MaxRecords
  BY <1>0, FilesSame
<1> HIDE DEF n
<1>8. \A k \in DOMAIN seals' : \E j \in DOMAIN seals : seals'[k].day = seals[j].day
  BY <1>4, <1>5, <1>7
<1>10. SealedDays' = SealedDays
  <2>1. \A k \in DOMAIN seals : k \in DOMAIN seals' /\ seals'[k] = seals[k]
    BY <1>4, <1>7
  <2> QED BY <1>8, <2>1 DEF SealedDays
<1>12. SealsOfDays'
  <2> SUFFICES ASSUME NEW k \in DOMAIN seals'
               PROVE  /\ seals'[k].day \in Written /\ seals'[k].day < today /\ IsList(seals'[k].prev_seal)
                      /\ (seals[k] = SealFor(BookAfter(seals[k].prev_seal), seals[k].day))'
    BY <1>0, <1>9 DEF SealsOfDays, IsList
  <2>1. \A prev, day : SealFor(BookAfter(prev), day)' = SealFor(BookAfter(prev), day)
    BY <1>0, BookAfterSame
  <2>2. \A j \in DOMAIN seals :
          /\ seals[j].day \in Written /\ seals[j].day < today /\ IsList(seals[j].prev_seal)
          /\ seals[j] = SealFor(BookAfter(seals[j].prev_seal), seals[j].day)
    BY <1>3 DEF SealsOfDays
  <2>3. CASE \E j \in DOMAIN seals : seals'[k] = seals[j]
    BY <2>1, <2>2, <2>3
  <2>4. CASE seals'[k] = s /\ s.day = seals[n].day /\ s.prev_seal = seals[n].seal_hash
             /\ s = SealFor(BookAfter(s.prev_seal), s.day)
    <3>1. n \in DOMAIN seals /\ IsList(seals[n].seal_hash)
      BY <1>4, SealOfDayFacts
    <3> QED BY <2>1, <2>2, <2>4, <3>1
  <2> QED BY <1>4, <1>5, <1>7, <2>3, <2>4
<1>13. SealsRise'
  <2> SUFFICES ASSUME NEW j \in DOMAIN seals', NEW k \in DOMAIN seals', j < k
               PROVE  seals'[j].day < seals'[k].day \/ SealedTwice(j, k)'
    BY <1>0 DEF SealsRise
  <2>1. j \in 1..n /\ seals'[j] = seals[j]
    BY <1>4, <1>7
  <2>2. CASE k \in 1..n
    BY <1>0, <1>3, <1>4, <1>7, <2>1, <2>2 DEF SealsRise
  <2>3. CASE k = n + 1
    <3>1. seals'[k] = s /\ s.day = seals[n].day
      BY <1>5, <1>7, <2>3
    <3>2. CASE j = n
      BY <1>4, <1>5, <2>1, <2>3, <3>1, <3>2 DEF SealedTwice
    <3>3. CASE j # n
      <4>1. seals[j].day < seals[n].day
        BY <1>0, <1>3, <1>4, <2>1, <3>3 DEF SealsRise
      <4> QED BY <2>1, <3>1, <4>1
    <3> QED BY <3>2, <3>3
  <2> QED BY <1>4, <1>7, <2>2, <2>3
<1>14. SealsChained'
  <2> SUFFICES ASSUME NEW k \in DOMAIN seals'
               PROVE  IF k = 1
                      THEN seals'[k].prev_seal = GENESIS_SEAL
                      ELSE seals'[k].prev_seal = seals'[k - 1].seal_hash \/ seals'[k] = seals'[k - 1]
    BY DEF SealsChained
  <2>1. CASE k \in 1..n
    <3>1. k # 1 => k - 1 \in 1..n
      BY <1>4, <2>1
    <3> QED BY <1>3, <1>4, <1>7, <2>1, <3>1 DEF SealsChained
  <2>2. CASE k = n + 1
    <3>1. k # 1 /\ k - 1 = n
      BY <1>4, <2>2
    <3>2. seals'[k] = s /\ seals'[k - 1] = seals[n]
      BY <1>4, <1>7, <2>2, <3>1
    <3> QED BY <1>5, <3>1, <3>2
  <2> QED BY <1>4, <1>7, <2>1, <2>2
<1>15. SealedFirst'
  BY <1>3, <1>8, <1>9, <1>10 DEF SealedFirst
<1> QED BY <1>3, <1>7, <1>9, <1>12, <1>13, <1>14, <1>15 DEF SealsInv, IsList

-----------------------------------------------------------------------------
(* The hand-over, and the invariant of the whole.                          *)

\* What was handed out stays with the reader.
LEMMA HandedOutSame ==
  ASSUME HandedOut, files' = files, seals' = seals, activation' = activation,
         statement' = statement, copy' = copy, altered' = altered
  PROVE  HandedOut'
BY BookSame DEF HandedOut

\* Every step keeps the seals and the hand-over in order.
LEMMA NextHandedOut ==
  ASSUME IInv, [Next]_vars
  PROVE  SealsInv' /\ HandedOut'
<1>0. SealsInv /\ InvoiceTypes /\ HandedOut /\ today \in Int /\ next_seq \in Nat /\ MaxRecords \in Nat
  BY InvoiceDays, InvoiceAmounts, HeadFacts DEF IInv, InvoiceTypes
<1>00. (seals # <<>> => next_seq = MaxRecords) /\ (statement # Null => seals # <<>>)
  BY <1>0 DEF SealsInv, HandedOut, BilledSeals, Sealed, Book
<1>1. CASE \E decision \in Decisions, read \in Measurements : Relevant(decision, read) /\ Poll(decision, read)
  <2>1. next_seq < MaxRecords /\ seals' = seals /\ statement' = statement
    BY <1>1 DEF Poll
  <2>2. seals' = <<>> /\ statement' = Null
    BY <1>0, <1>00, <2>1
  <2> QED BY <2>2, NoSeals DEF HandedOut, SealsInv, IsList, SealsOfDays, SealsRise, SealsChained, SealedFirst
<1>2. CASE \E mode \in BOOLEAN : Restart(mode)
  <2>1. next_seq < MaxRecords /\ seals' = seals /\ statement' = statement
    BY <1>2 DEF Restart
  <2>2. seals' = <<>> /\ statement' = Null
    BY <1>0, <1>00, <2>1
  <2> QED BY <2>2, NoSeals DEF HandedOut, SealsInv, IsList, SealsOfDays, SealsRise, SealsChained, SealedFirst
<1>3. CASE Midnight
  <2>1. InvoiceTypes'
    BY <1>3, NextFiles DEF IInv
  <2>2. today' >= today /\ today' \in Days
    BY <1>0, <1>3, <2>1 DEF Midnight, InvoiceTypes
  <2> QED BY <1>0, <1>3, <2>2, SealsSame, HandedOutSame DEF Midnight
<1>4. CASE SealDay
  <2>1. statement' = Null
    BY <1>4 DEF SealDay
  <2> QED BY <1>0, <1>4, <2>1, SealDayKeepsSeals DEF HandedOut
<1>5. CASE SealAgain
  <2>1. statement' = Null
    BY <1>5 DEF SealAgain
  <2> QED BY <1>0, <1>5, <2>1, SealAgainKeepsSeals DEF HandedOut
<1>6. CASE Issue
  <2>1. SealsInv'
    BY <1>0, <1>6, SealsSame DEF Issue, InvoiceTypes
  <2>2. BilledSeals # {}
    BY <1>6 DEF Issue, SealedDays, BilledSeals, Sealed, Book
  <2>3. statement' = Bill /\ copy' = files /\ Bill' = Bill /\ BilledSeals' = BilledSeals
    BY <1>6, BookSame DEF Issue, Bill
  <2> QED BY <1>6, <2>1, <2>2, <2>3 DEF HandedOut, Issue
<1>7. CASE Differs
  <2>1. SealsInv'
    BY <1>0, <1>7, SealsSame DEF Differs, InvoiceTypes
  <2>2. statement = Bill /\ copy = files /\ BilledSeals # {}
    BY <1>0, <1>7 DEF HandedOut, Differs
  <2>3. Bill' = Bill /\ files' = files /\ BilledSeals' = BilledSeals /\ altered'
    BY <1>7, BookSame DEF Differs
  <2>4. \/ copy' \in ChangedRecords(files) /\ statement' = Bill
        \/ statement' \in ChangedStatements(Bill, files) /\ copy' = files
    BY <1>7, <2>2 DEF Differs
  <2> QED BY <2>1, <2>2, <2>3, <2>4 DEF HandedOut
<1>8. CASE UNCHANGED vars
  <2>1. SealsInv'
    BY <1>0, <1>8, SealsSame DEF vars, InvoiceTypes
  <2> QED BY <1>0, <1>8, <2>1, HandedOutSame DEF vars
<1> QED BY <1>1, <1>2, <1>3, <1>4, <1>5, <1>6, <1>7, <1>8 DEF Next

\* The files are chained and their claims bounded and committed, the seals say what the
\* files say, and the reader holds the bill of both, changed in one place at most: in every
\* state of every behaviour of polls, restarts, seals and hand-overs.
THEOREM InvoiceInvariant == Spec => []IInv
<1>1. Init => IInv
  <2> SUFFICES ASSUME Init PROVE IInv
    OBVIOUS
  <2>1. SealsInv /\ HandedOut
    BY NoSeals DEF Init, HandedOut
  <2> QED BY <2>1, InitFiles DEF IInv
<1>2. IInv /\ [Next]_vars => IInv'
  <2> SUFFICES ASSUME IInv, [Next]_vars PROVE IInv'
    OBVIOUS
  <2>1. InvoiceTypes' /\ FilesInv'
    BY NextFiles DEF IInv
  <2>2. SealsInv' /\ HandedOut'
    BY NextHandedOut
  <2> QED BY <2>1, <2>2 DEF IInv
<1> QED BY <1>1, <1>2, PTL DEF Spec

-----------------------------------------------------------------------------
(* What is billed of a record.                                             *)

\* A product grows with its first factor.
LEMMA TimesGrows ==
  ASSUME NEW a \in Int, NEW b \in Int, NEW c \in Nat, a <= b
  PROVE  a * c \in Int /\ b * c \in Int /\ a * c <= b * c
<1>1. b * c = a * c + (b - a) * c
  OBVIOUS
<1>2. (b - a) * c \in Nat /\ a * c \in Int
  OBVIOUS
<1> QED BY <1>1, <1>2

\* Whole division rounds down.
LEMMA FloorBelow ==
  ASSUME NEW x \in Int, NEW d \in Nat, d > 0
  PROVE  x \div d \in Int /\ (x \div d) * d <= x
BY SMTT(30)

\* What is billed of a claim is no more than the share that went dark (attest.py).
LEMMA BilledShare ==
  ASSUME NEW claim, claim.claimed_wh \in Nat,
         claim.baseline_gh \in Int \cup {Null}, claim.observed_gh \in Int \cup {Null},
         billable_wh(claim) > 0, Null \notin Int
  PROVE  /\ claim.baseline_gh \in Int /\ claim.observed_gh \in Int
         /\ billable_wh(claim) \in Int /\ billable_wh(claim) <= claim.claimed_wh
         /\ billable_wh(claim) * claim.baseline_gh <= claim.claimed_wh * (claim.baseline_gh - claim.observed_gh)
         /\ 20 * claim.observed_gh <= 19 * claim.baseline_gh
<1> DEFINE b == claim.baseline_gh
           o == claim.observed_gh
           c == claim.claimed_wh
           F == dark_fraction_ppm(b, o)
           C == corroborated_wh(claim)
           wh == billable_wh(claim)
<1>1. C = IF F = Null THEN 0 ELSE IF F < 50000 THEN 0 ELSE (c * F) \div 1000000
  BY DEF corroborated_wh, MIN_DARK_FRACTION_PPM, PPM
<1>2. wh = IF c <= C THEN c ELSE C
  BY DEF billable_wh
<1>3. c \in Nat /\ wh > 0 /\ b \in Int \cup {Null} /\ o \in Int \cup {Null}
  OBVIOUS
<1>4. F = IF b = Null \/ o = Null THEN Null
          ELSE IF b <= 0 THEN Null ELSE Clamp(((b - o) * 1000000) \div b, 0, 1000000)
  BY DEF dark_fraction_ppm, PPM
<1> HIDE DEF b, o, c, F, C, wh
<1>5. F # Null /\ ~ (F < 50000)
  <2> SUFFICES ASSUME F = Null \/ F < 50000 PROVE FALSE
    OBVIOUS
  <2>1. C = 0
    BY <1>1
  <2> QED BY <1>2, <1>3, <2>1
<1>6. b \in Int /\ o \in Int /\ b > 0 /\ b \in Nat
  BY <1>3, <1>4, <1>5
<1> DEFINE Q == ((b - o) * 1000000) \div b
<1>7. Q \in Int /\ Q * b <= (b - o) * 1000000
  <2> DEFINE x == (b - o) * 1000000
  <2>1. x \in Int
    BY <1>6
  <2> HIDE DEF x
  <2>2. x \div b \in Int /\ (x \div b) * b <= x
    BY <1>6, <2>1, FloorBelow
  <2> QED BY <2>2 DEF x
<1>8. F = Clamp(Q, 0, 1000000)
  BY <1>4, <1>5
<1> HIDE DEF Q
<1>9. F \in Nat /\ F <= Q /\ F >= 50000
  BY <1>5, <1>7, <1>8 DEF Clamp
<1>10. F * b \in Int /\ F * b <= (b - o) * 1000000
  <2>1. F * b <= Q * b /\ F * b \in Int /\ Q * b \in Int
    BY <1>6, <1>7, <1>9, TimesGrows
  <2>2. (b - o) * 1000000 \in Int
    BY <1>6
  <2> QED BY <1>7, <2>1, <2>2
<1>11. 20 * o <= 19 * b
  <2>1. 50000 * b <= F * b /\ 50000 * b \in Int
    BY <1>6, <1>9, TimesGrows
  <2> QED BY <1>6, <1>10, <2>1
<1>12. c * F \in Nat
  BY <1>3, <1>9
<1>13. C = (c * F) \div 1000000 /\ C \in Int /\ C * 1000000 <= c * F
  <2>1. C = (c * F) \div 1000000
    BY <1>1, <1>5
  <2> QED BY <1>12, <2>1
<1>14. wh \in Nat /\ wh <= c /\ wh <= C
  BY <1>2, <1>3, <1>13
<1>15. wh * 1000000 <= c * F
  BY <1>12, <1>13, <1>14
<1>16. (wh * 1000000) * b <= (c * F) * b /\ (wh * 1000000) * b \in Int /\ (c * F) * b \in Int
  <2>1. wh * 1000000 \in Int
    BY <1>14
  <2> QED BY <1>6, <1>12, <1>15, <2>1, TimesGrows
<1>17. (F * b) * c <= ((b - o) * 1000000) * c /\ ((b - o) * 1000000) * c \in Int
  <2>1. (b - o) * 1000000 \in Int
    BY <1>6
  <2> QED BY <1>3, <1>10, <2>1, TimesGrows
<1>18. (c * F) * b = (F * b) * c
  BY <1>3, <1>6, <1>9
<1>19. (wh * 1000000) * b = 1000000 * (wh * b) /\ wh * b \in Int
  BY <1>6, <1>14
<1>20. ((b - o) * 1000000) * c = 1000000 * (c * (b - o)) /\ c * (b - o) \in Int
  BY <1>3, <1>6
<1>21. wh * b <= c * (b - o)
  BY <1>16, <1>17, <1>18, <1>19, <1>20
<1> QED BY <1>6, <1>11, <1>14, <1>21 DEF b, o, c, wh

\* The interval that a line records.
LEMMA BodyFacts ==
  ASSUME InvoiceTypes, NEW d \in Days, NEW i \in DOMAIN files[d]
  PROVE  /\ files[d][i].body \in Intervals /\ files[d][i].seq \in Nat /\ files[d][i].id \in Nat
         /\ files[d][i].body.claimed_wh \in Nat /\ files[d][i].body.claimed_mining_lost \in Nat
         /\ files[d][i].body.price \in Int
         /\ files[d][i].body.baseline_gh \in Int \cup {Null}
         /\ files[d][i].body.observed_gh \in Int \cup {Null}
         /\ files[d][i].body.executed \in BOOLEAN
<1>1. files[d][i] \in RecordLines
  BY FileFacts
<1>2. files[d][i].body \in Intervals /\ files[d][i].seq \in Nat /\ files[d][i].id \in Nat
  BY <1>1 DEF RecordLines
<1> QED BY <1>2 DEF Intervals

\* The claim that is audited is that of the recorded interval.
LEMMA ClaimIsOfBody ==
  ASSUME NEW line
  PROVE  /\ ClaimOf(line).claimed_wh = line.body.claimed_wh
         /\ ClaimOf(line).baseline_gh = line.body.baseline_gh
         /\ ClaimOf(line).observed_gh = line.body.observed_gh
         /\ ClaimOf(line).seq = line.seq
BY DEF ClaimOf

\* A reveal that reproduces its commitment was decided on the line before.
LEMMA RevealedWasDecided ==
  ASSUME InvoiceTypes, NEW d \in Days, NEW i \in DOMAIN files[d], StateOf(files, d, i) = REVEALED
  PROVE  /\ files[d][i].body.reveal # Null
         /\ \E e \in Days : \E j \in DOMAIN files[e] :
              /\ files[e][j].seq = files[d][i].seq - 1
              /\ files[e][j].body.commit.decision = decision_snapshot(files[d][i].body)
<1> DEFINE line == files[d][i]
           p == Predecessor(files, d, i)
<1>1. reveal_state(line, p) = REVEALED
  BY DEF StateOf
<1>2. p = Null \/ \E e \in Days : \E j \in DOMAIN files[e] : p = files[e][j]
  <2>1. CASE i = 1
    <3>1. p = record_before(files, d)
      BY <2>1 DEF Predecessor
    <3>2. DOMAIN files = Days
      BY DEF InvoiceTypes
    <3>3. ASSUME d - 1 \in Days, files[d - 1] # <<>>
          PROVE  \E e \in Days : \E j \in DOMAIN files[e] : Last(files[d - 1]) = files[e][j]
      <4>1. Len(files[d - 1]) \in DOMAIN files[d - 1] /\ Last(files[d - 1]) = files[d - 1][Len(files[d - 1])]
        BY <3>3, FileFacts
      <4> QED BY <3>3, <4>1
    <3> QED BY <3>1, <3>2, <3>3 DEF record_before
  <2>2. CASE i # 1
    <3>1. i - 1 \in DOMAIN files[d]
      BY <2>2, FileFacts
    <3> QED BY <2>2, <3>1 DEF Predecessor
  <2> QED BY <2>1, <2>2
<1> HIDE DEF line, p
<1>3. /\ line.body.reveal # Null /\ Committed(p) /\ p.seq = line.seq - 1 /\ Reproduces(line, p)
  <2>1. REVEALED # UNREVEALED /\ REVEALED # LEGACY /\ REVEALED # MISMATCHED
    BY DEF REVEALED, UNREVEALED, LEGACY, MISMATCHED
  <2>2. line.body.reveal # Null
    <3> SUFFICES ASSUME line.body.reveal = Null PROVE FALSE
      OBVIOUS
    <3>1. reveal_state(line, p) \in {UNREVEALED, LEGACY}
      BY DEF reveal_state
    <3> QED BY <1>1, <2>1, <3>1
  <2>3. reveal_state(line, p) =
          IF /\ Committed(p) /\ line.body.reveal.commit_seq = line.seq - 1
             /\ p.seq = line.seq - 1 /\ Reproduces(line, p)
          THEN REVEALED
          ELSE MISMATCHED
    BY <2>2 DEF reveal_state
  <2> QED BY <1>1, <2>1, <2>2, <2>3
<1>4. p # Null /\ p.body.commit.decision = decision_snapshot(line.body)
  BY <1>3 DEF Committed, Reproduces, commit_hash
<1> QED BY <1>2, <1>3, <1>4 DEF line

\* An activation names the farm, from a day on, and is signed.
LEMMA ActivationFacts ==
  ASSUME InvoiceTypes, activation # Null
  PROVE  /\ activation.from_day \in Int /\ activation.from_day # Null
         /\ activation.farm_id = Farm /\ FarmId = Farm /\ Farm # Null
         /\ activation.signature = Signed([from_day |-> activation.from_day, farm_id |-> activation.farm_id])
<1>1. PICK e \in Days : activation = ActivationFrom(e)
  BY DEF InvoiceTypes
<1>2. /\ activation.from_day = e /\ activation.farm_id = Farm
      /\ activation.signature = Signed([from_day |-> e, farm_id |-> Farm])
  BY <1>1 DEF ActivationFrom
<1>3. e \in Int /\ e # Null
  BY InvoiceDays, InvoiceNull
<1> QED BY <1>2, <1>3, InvoiceNull DEF FarmId

\* Only written days are sealed.
LEMMA SealedDaysAreDays == IInv => SealedDays \subseteq Written
<1> SUFFICES ASSUME IInv, NEW k \in DOMAIN seals PROVE seals[k].day \in Written
  BY DEF SealedDays
<1> QED BY DEF IInv, SealsInv, SealsOfDays

\* BilledIsWitnessed of a state.
LEMMA BilledIsWitnessedNow == IInv => BilledIsWitnessed
<1> SUFFICES ASSUME IInv, statement # Null, NEW d \in SealedDays \cap Month, NEW i \in Billed(Book, d)
             PROVE  LET body == files[d][i].body
                        wh == billable_wh(ClaimOf(files[d][i])) IN
                    /\ body.action = "PAUSE" /\ body.executed
                    /\ 3600 * wh <= MostWh + 1800
                    /\ wh * body.baseline_gh <= body.claimed_wh * (body.baseline_gh - body.observed_gh)
                    /\ 20 * body.observed_gh <= 19 * body.baseline_gh
                    /\ activation # Null /\ d >= activation.from_day =>
                         /\ body.reveal # Null
                         /\ \E e \in Days : \E j \in DOMAIN files[e] :
                              /\ files[e][j].seq = files[d][i].seq - 1
                              /\ files[e][j].body.commit.decision = decision_snapshot(body)
  BY DEF BilledIsWitnessed
<1> DEFINE line == files[d][i]
           wh == billable_wh(ClaimOf(line))
<1>0. InvoiceTypes /\ FilesInv
  BY DEF IInv
<1>1. d \in Days
  BY SealedDaysAreDays DEF Written
<1>2. Book.files = files /\ FromDay(Book) = IF activation = Null THEN Null ELSE activation.from_day
  BY DEF Book, FromDay
<1>3. i \in Audited(Book, d) /\ wh > 0
  BY <1>2 DEF Billed
<1>4. /\ i \in Executed(Book, d)
      /\ seal_rule_for(d, FromDay(Book)) = SEAL_RULE_FARM_BOUND => StateOf(files, d, i) = REVEALED
  BY <1>2, <1>3 DEF Audited
<1>5. i \in DOMAIN files[d] /\ line.body.action = "PAUSE" /\ line.body.executed
  BY <1>2, <1>4 DEF Executed, Paused
<1>6. /\ line.body.claimed_wh \in Nat /\ line.body.baseline_gh \in Int \cup {Null}
      /\ line.body.observed_gh \in Int \cup {Null}
  BY <1>0, <1>1, <1>5, BodyFacts
<1>7. 3600 * line.body.claimed_wh <= MostWh + 1800 /\ MostWh \in Nat
  BY <1>0, <1>1, <1>5, InvoiceAmounts DEF FilesInv, ClaimsBounded, MostWh
<1> HIDE DEF line
<1>8. /\ wh \in Int /\ wh <= line.body.claimed_wh
      /\ wh * line.body.baseline_gh <= line.body.claimed_wh * (line.body.baseline_gh - line.body.observed_gh)
      /\ 20 * line.body.observed_gh <= 19 * line.body.baseline_gh
  <2> DEFINE claim == ClaimOf(line)
  <2>1. /\ claim.claimed_wh = line.body.claimed_wh /\ claim.baseline_gh = line.body.baseline_gh
        /\ claim.observed_gh = line.body.observed_gh
    BY ClaimIsOfBody
  <2>2. billable_wh(claim) > 0 /\ Null \notin Int
    BY <1>3, InvoiceNull
  <2> HIDE DEF claim
  <2>3. /\ billable_wh(claim) \in Int /\ billable_wh(claim) <= claim.claimed_wh
        /\ billable_wh(claim) * claim.baseline_gh <= claim.claimed_wh * (claim.baseline_gh - claim.observed_gh)
        /\ 20 * claim.observed_gh <= 19 * claim.baseline_gh
    BY <1>6, <2>1, <2>2, BilledShare
  <2> QED BY <2>1, <2>3 DEF claim
<1> HIDE DEF wh
<1>9. 3600 * wh <= MostWh + 1800
  BY <1>6, <1>7, <1>8
<1>10. ASSUME activation # Null, d >= activation.from_day
       PROVE  /\ line.body.reveal # Null
              /\ \E e \in Days : \E j \in DOMAIN files[e] :
                   /\ files[e][j].seq = line.seq - 1
                   /\ files[e][j].body.commit.decision = decision_snapshot(line.body)
  <2>1. activation.from_day # Null
    BY <1>0, <1>10, ActivationFacts
  <2>2. seal_rule_for(d, FromDay(Book)) = SEAL_RULE_FARM_BOUND
    BY <1>2, <1>10, <2>1 DEF seal_rule_for
  <2> QED BY <1>0, <1>1, <1>4, <1>5, <2>2, RevealedWasDecided DEF line
<1> QED BY <1>5, <1>8, <1>9, <1>10 DEF line, wh

\* BilledIsWitnessed: whatever the meters and the clock read, what is billed of a record
\* was acted on, was measured, is within one poll and, once seals are farm-bound, was
\* committed on the line before.
THEOREM BilledWasWitnessed == Spec => []BilledIsWitnessed
BY InvoiceInvariant, BilledIsWitnessedNow, PTL

\* A changed copy has the same days.
LEMMA ChangedFiles ==
  ASSUME InvoiceTypes, NEW records \in ChangedRecords(files)
  PROVE  DOMAIN records = Days
<1>1. DOMAIN files = Days
  BY DEF InvoiceTypes
<1> QED BY <1>1 DEF ChangedRecords

\* InvoiceTypeOK of a state.
LEMMA InvoiceTypeOKNow == IInv => InvoiceTypeOK
<1> SUFFICES ASSUME IInv PROVE InvoiceTypeOK
  OBVIOUS
<1>1. InvoiceTypes /\ next_seq \in 0..MaxRecords /\ HandedOut
  BY DEF IInv, FilesInv
<1>2. \A d \in Days : \A i \in DOMAIN files[d] :
        files[d][i].seq \in Nat /\ files[d][i].body.claimed_wh \in Nat
  BY <1>1, BodyFacts
<1>3. SealedDays \subseteq Days
  BY SealedDaysAreDays DEF Written
<1>4. statement # Null => DOMAIN copy = Days
  <2>1. DOMAIN files = Days
    BY <1>1 DEF InvoiceTypes
  <2> QED BY <1>1, <2>1, ChangedFiles DEF HandedOut
<1> QED BY <1>1, <1>2, <1>3, <1>4 DEF InvoiceTypeOK, InvoiceTypes

\* InvoiceTypeOK: no claim is negative, for any configuration and any clock.
THEOREM InvoiceTypeCorrect == Spec => []InvoiceTypeOK
BY InvoiceInvariant, InvoiceTypeOKNow, PTL

-----------------------------------------------------------------------------
(* What the bill says.                                                     *)

\* What the signature of the bill covers.
BillBody == StatementBody(Book, Month)

\* The claims that its auditor is given.
ClaimsBilled ==
  LET ClaimAt(t) == ClaimOf(files[seals[t[1]].day][t[2]]) IN
  [t \in Targets(Book, BilledSeals, Audited) |-> ClaimAt(t)]

\* Its counts of reveals.
StatesBilled == [state \in {REVEALED, UNREVEALED, MISMATCHED, LEGACY} |->
     SumOf([k \in BilledSeals |-> Cardinality(InState(Book, seals[k].day, state))])]

\* Its count of claims that were never committed.
UncommittedBilled ==
  SumOf([k \in BilledSeals |-> Cardinality(Executed(Book, seals[k].day) \ Audited(Book, seals[k].day))])

\* Its proofs.
ProofsBilled == [t \in First(Targets(Book, BilledSeals, Billed), MaxProofs) |->
                 ProofOf(Book, seals[t[1]].day, t[2])]

\* The body of the bill, field by field.
LEMMA BillBodyIs ==
  BillBody = [farm_id |-> FarmId, activation |-> activation, fee_bp |-> FeeBp,
              days |-> [k \in BilledSeals |-> DayEntry(Book, seals[k])],
              corroboration |-> Audit(ClaimsBilled, MarginPpm),
              commit_reveal |-> StatesBilled, uncommitted |-> UncommittedBilled,
              totals |-> Totals(Book, BilledSeals), proofs |-> ProofsBilled]
<1>1. /\ Book.seals = seals /\ Book.files = files /\ Book.farm_id = FarmId /\ Book.activation = activation
      /\ Book.fee_bp = FeeBp /\ Book.margin_ppm = MarginPpm
  BY DEF Book
<1> QED BY <1>1 DEF BillBody, StatementBody, BilledSeals, ClaimsBilled, StatesBilled, UncommittedBilled,
     ProofsBilled

\* The bill, field by field.
LEMMA BillFacts ==
  /\ Bill.farm_id = FarmId /\ Bill.activation = activation /\ Bill.fee_bp = FeeBp
  /\ Bill.days = [k \in BilledSeals |-> DayEntry(Book, seals[k])]
  /\ Bill.corroboration = Audit(ClaimsBilled, MarginPpm)
  /\ Bill.uncommitted = UncommittedBilled
  /\ Bill.totals = Totals(Book, BilledSeals) /\ Bill.proofs = ProofsBilled
  /\ Bill.signature = IF FarmId = Null THEN Null ELSE Signed(BodyForSigning(Bill))
  /\ DOMAIN Bill = DOMAIN BillBody \cup {"signature"} /\ Bill = [field \in DOMAIN Bill |-> Bill[field]]
<1> DEFINE sig == IF FarmId = Null THEN Null ELSE Signed(BillBody)
<1>1. Bill = WithSignature(BillBody, sig)
  BY DEF Bill, StatementOf, BillBody, Book
<1>2. "signature" \notin DOMAIN BillBody /\ BillBody = [field \in DOMAIN BillBody |-> BillBody[field]]
  BY BillBodyIs
<1> HIDE DEF sig
<1>3. Bill.signature = sig /\ BodyForSigning(Bill) = BillBody /\ DOMAIN Bill = DOMAIN BillBody \cup {"signature"}
  BY <1>1, <1>2, SignedRecord
<1>4. \A field \in DOMAIN BillBody : Bill[field] = BillBody[field]
  BY <1>1, <1>2 DEF WithSignature
<1>5. Bill = [field \in DOMAIN Bill |-> Bill[field]]
  BY <1>1 DEF WithSignature
<1> DEFINE days == [k \in BilledSeals |-> DayEntry(Book, seals[k])]
           audit == Audit(ClaimsBilled, MarginPpm)
           totals == Totals(Book, BilledSeals)
<1>6. BillBody = [farm_id |-> FarmId, activation |-> activation, fee_bp |-> FeeBp, days |-> days,
                  corroboration |-> audit, commit_reveal |-> StatesBilled,
                  uncommitted |-> UncommittedBilled, totals |-> totals, proofs |-> ProofsBilled]
  BY BillBodyIs
<1> HIDE DEF days, audit, totals
<1>7. /\ Bill.farm_id = FarmId /\ Bill.activation = activation /\ Bill.fee_bp = FeeBp
      /\ Bill.days = days /\ Bill.corroboration = audit /\ Bill.uncommitted = UncommittedBilled
      /\ Bill.totals = totals /\ Bill.proofs = ProofsBilled
  BY <1>4, <1>6
<1> QED BY <1>3, <1>5, <1>7 DEF sig, days, audit, totals

\* An entry of the bill repeats its seal.
LEMMA EntryFacts ==
  ASSUME SealsInv, InvoiceTypes, NEW k \in BilledSeals, NEW entry, entry = DayEntry(Book, seals[k])
  PROVE  /\ k \in DOMAIN seals /\ seals[k].day \in Month
         /\ entry.day = seals[k].day /\ entry.seal_hash = seals[k].seal_hash
         /\ entry.prev_seal = seals[k].prev_seal /\ entry.merkle_root = seals[k].merkle_root
         /\ entry.leaf_count = seals[k].leaf_count /\ entry.signature = seals[k].signature
         /\ entry.rule = seals[k].rule /\ entry.corroboration = seals[k].corroboration
<1>1. k \in DOMAIN seals /\ seals[k].day \in Month
  BY DEF BilledSeals, Sealed, Book
<1> DEFINE s == seals[k]
           gross == Nets(Book, s.day, ClaimedNet, Executed(Book, s.day))
           billable == Nets(Book, s.day, BillableNet, Billed(Book, s.day))
<1>2. entry = [day |-> s.day, seal_hash |-> s.seal_hash, prev_seal |-> s.prev_seal,
               merkle_root |-> s.merkle_root, leaf_count |-> s.leaf_count,
               signature |-> s.signature, rule |-> s.rule, corroboration |-> s.corroboration,
               gross |-> gross, billable |-> billable]
  BY DEF DayEntry
<1> HIDE DEF s, gross, billable
<1>3. /\ entry.day = s.day /\ entry.seal_hash = s.seal_hash
      /\ entry.prev_seal = s.prev_seal /\ entry.merkle_root = s.merkle_root
      /\ entry.leaf_count = s.leaf_count /\ entry.signature = s.signature
      /\ entry.rule = s.rule /\ entry.corroboration = s.corroboration
  BY <1>2
<1> QED BY <1>1, <1>3 DEF s

\* A seal of the ledger says of its day what the files say now.
LEMMA SealSaysOfDay ==
  ASSUME SealsInv, InvoiceTypes, NEW k \in DOMAIN seals
  PROVE  /\ seals[k].merkle_root = merkle_root(leaves(files[seals[k].day]))
         /\ seals[k].leaf_count = Len(files[seals[k].day])
         /\ seals[k].first_seq = files[seals[k].day][1].seq
         /\ seals[k].last_seq = Last(files[seals[k].day]).seq
         /\ seals[k].seal_hash = Append(seals[k].prev_seal, seals[k].merkle_root)
         /\ seals[k].rule = seal_rule_for(seals[k].day, FromDay(Book))
         /\ seals[k].farm_id = IF seals[k].rule = SEAL_RULE_FARM_BOUND THEN FarmId ELSE Null
         /\ seals[k].signature = Signed(BodyForSigning(seals[k]))
         /\ BodyForSigning(seals[k]) = [day |-> seals[k].day, prev_seal |-> seals[k].prev_seal,
               merkle_root |-> seals[k].merkle_root, leaf_count |-> seals[k].leaf_count,
               first_seq |-> seals[k].first_seq, last_seq |-> seals[k].last_seq,
               seal_hash |-> seals[k].seal_hash, corroboration |-> seals[k].corroboration,
               rule |-> seals[k].rule, farm_id |-> seals[k].farm_id]
<1> DEFINE b == BookAfter(seals[k].prev_seal)
           s == seals[k]
           d == s.day
<1>1. s = SealFor(b, d)
  BY DEF SealsInv, SealsOfDays
<1>2. b.files = files /\ b.activation = Book.activation /\ b.farm_id = FarmId
  BY SealAfter DEF Book
<1> HIDE DEF b, s, d
<1>3. FromDay(b) = FromDay(Book)
  BY <1>2 DEF FromDay
<1>4. /\ s.merkle_root = merkle_root(leaves(b.files[d]))
      /\ s.leaf_count = Len(b.files[d])
      /\ s.seal_hash = Append(s.prev_seal, merkle_root(leaves(b.files[d])))
      /\ s.first_seq = b.files[d][1].seq /\ s.last_seq = Last(b.files[d]).seq
      /\ s.rule = seal_rule_for(d, FromDay(b))
      /\ s.farm_id = IF s.rule = SEAL_RULE_FARM_BOUND THEN b.farm_id ELSE Null
  BY ONLY <1>1, SealFields
<1>5. /\ s.signature = Signed(BodyForSigning(s))
      /\ BodyForSigning(s) = [day |-> s.day, prev_seal |-> s.prev_seal, merkle_root |-> s.merkle_root,
               leaf_count |-> s.leaf_count, first_seq |-> s.first_seq, last_seq |-> s.last_seq,
               seal_hash |-> s.seal_hash, corroboration |-> s.corroboration, rule |-> s.rule,
               farm_id |-> s.farm_id]
  BY ONLY <1>1, SealSigned
<1>6. /\ s.merkle_root = merkle_root(leaves(files[d])) /\ s.leaf_count = Len(files[d])
      /\ s.seal_hash = Append(s.prev_seal, s.merkle_root)
      /\ s.first_seq = files[d][1].seq /\ s.last_seq = Last(files[d]).seq
      /\ s.rule = seal_rule_for(d, FromDay(Book))
      /\ s.farm_id = IF s.rule = SEAL_RULE_FARM_BOUND THEN FarmId ELSE Null
  BY <1>2, <1>3, <1>4
<1> QED BY <1>5, <1>6 DEF s, d

-----------------------------------------------------------------------------
(* Proofs of records.                                                      *)

\* The leaves of a day are the hashes of its lines.
LEMMA LeavesFacts ==
  ASSUME NEW lines, IsList(lines)
  PROVE  /\ DOMAIN leaves(lines) = DOMAIN lines /\ Len(leaves(lines)) = Len(lines)
         /\ \A i \in DOMAIN lines : leaves(lines)[i] = Leaf(lines[i].id)
         /\ lines # <<>> => Digests(leaves(lines))
<1> DEFINE n == Len(lines)
           f == leaves(lines)
<1>1. DOMAIN lines = 1..n /\ n \in Nat /\ (lines # <<>> => n > 0)
  BY ListFacts
<1> HIDE DEF n
<1>2. f = [i \in 1..n |-> record_hash(lines[i])]
  BY <1>1 DEF leaves
<1> HIDE DEF f
<1>3. Len(f) = n /\ DOMAIN f = 1..n /\ \A i \in 1..n : f[i] = Leaf(lines[i].id)
  BY <1>1, <1>2 DEF record_hash
<1>4. f = [i \in 1..n |-> f[i]]
  BY <1>2
<1> QED BY <1>1, <1>3, <1>4 DEF f, n, Digests

\* No two lines of a day have the same hash.
LEMMA IdsDiffer ==
  ASSUME InvoiceTypes, FilesInv, NEW d \in Days, NEW i \in DOMAIN files[d], NEW j \in DOMAIN files[d],
         files[d][i].id = files[d][j].id
  PROVE  i = j
<1>1. LinesRise /\ LinesFollow
  BY DEF FilesInv
<1>2. files[d][i].seq = files[d][j].seq /\ files[d][i].seq \in Nat
  BY <1>1, BodyFacts DEF LinesFollow
<1>3. i \in Nat /\ j \in Nat
  BY FileFacts
<1>4. ~ (i < j) /\ ~ (j < i)
  BY <1>1, <1>2 DEF LinesRise
<1> QED BY <1>3, <1>4

\* ProofsAreOfTheirRecords of a state.
LEMMA ProofsAreOfTheirRecordsNow == IInv => ProofsAreOfTheirRecords
<1> SUFFICES ASSUME IInv, statement # Null, ~ altered, NEW k \in DOMAIN statement.days,
                    NEW i \in DOMAIN leaves(files[statement.days[k].day]),
                    NEW j \in DOMAIN leaves(files[statement.days[k].day])
             PROVE  verify_proof(leaves(files[statement.days[k].day])[j],
                                 build_proof(leaves(files[statement.days[k].day]), i - 1),
                                 statement.days[k].merkle_root) <=> i = j
  BY DEF ProofsAreOfTheirRecords
<1>0. InvoiceTypes /\ FilesInv /\ SealsInv /\ HandedOut
  BY DEF IInv
<1>1. statement = Bill
  BY <1>0 DEF HandedOut
<1>2. k \in BilledSeals /\ statement.days[k] = DayEntry(Book, seals[k])
  BY <1>1, BillFacts
<1> DEFINE d == statement.days[k].day
           hashes == leaves(files[d])
<1>3. /\ k \in DOMAIN seals /\ d = seals[k].day /\ statement.days[k].merkle_root = seals[k].merkle_root
  BY <1>0, <1>2, EntryFacts
<1>4. d \in Days /\ files[d] # <<>>
  BY <1>0, <1>3, SealOfDayFacts
<1>5. statement.days[k].merkle_root = merkle_root(hashes)
  BY <1>0, <1>3, SealSaysOfDay
<1> HIDE DEF d
<1>6. /\ DOMAIN hashes = DOMAIN files[d] /\ Digests(hashes)
      /\ \A m \in DOMAIN files[d] : hashes[m] = Leaf(files[d][m].id)
  BY <1>0, <1>4, FileFacts, LeavesFacts
<1>7. i \in DOMAIN files[d] /\ j \in DOMAIN files[d]
  BY <1>6 DEF d
<1> HIDE DEF hashes
<1>8. i \in 1..Len(hashes)
  BY <1>6, <1>7 DEF Digests
<1>9. verify_proof(hashes[j], build_proof(hashes, i - 1), merkle_root(hashes)) <=> hashes[j] = hashes[i]
  BY <1>6, <1>8, ProofLeads
<1>10. hashes[j] = hashes[i] <=> i = j
  <2>1. \A a, b : Leaf(a) = Leaf(b) => a = b
    BY DEF Leaf
  <2> QED BY <1>0, <1>4, <1>6, <1>7, <2>1, IdsDiffer
<1> QED BY <1>5, <1>9, <1>10 DEF hashes, d

\* ProofsAreOfTheirRecords: in a day of any length the proof of a record leads to the sealed
\* root from that record and from no other (merkle.py, proof and verify).
THEOREM ProofsNameTheirRecords == Spec => []ProofsAreOfTheirRecords
BY InvoiceInvariant, ProofsAreOfTheirRecordsNow, PTL

-----------------------------------------------------------------------------
(* What the reader may hold.                                               *)

\* The billed month is one of days.
LEMMA MonthFacts == Month \subseteq Days /\ Days \subseteq Int
<1>1. PICK first, last \in Days : Month = first..last
  BY InvoiceDays
<1>2. PICK a, b \in Days : Days = a..b
  BY InvoiceDays
<1> QED BY <1>1, <1>2, InvoiceDays

\* A day of the copy is that of the ledger, or has a record of another hash, or another
\* number of records.
LEMMA CopyCases ==
  ASSUME InvoiceTypes, NEW records, records = files \/ records \in ChangedRecords(files), NEW d \in Days
  PROVE  \/ records[d] = files[d]
         \/ /\ IsList(records[d]) /\ Len(records[d]) = Len(files[d])
            /\ \E i \in DOMAIN files[d] : i \in DOMAIN records[d] /\ records[d][i].id = MaxRecords
         \/ IsList(records[d]) /\ Len(records[d]) # Len(files[d])
<1>0. DOMAIN files = Days /\ Month \subseteq Days
  BY MonthFacts DEF InvoiceTypes
<1>1. CASE records = files
  BY <1>1
<1>2. CASE \E p \in Lines(files) :
             records = [files EXCEPT ![p[1]][p[2]] = Retyped(@, 2 * @.body.claimed_wh + 1)]
  <2>1. PICK p \in Lines(files) :
             records = [files EXCEPT ![p[1]][p[2]] = Retyped(@, 2 * @.body.claimed_wh + 1)]
    BY <1>2
  <2>a. PICK e \in Month : \E i \in DOMAIN files[e] : p = <<e, i>>
    BY <2>1 DEF Lines
  <2>2. PICK i \in DOMAIN files[e] : p = <<e, i>>
    BY <2>a
  <2>3. p[1] = e /\ p[2] = i
    BY <2>2
  <2> DEFINE x == Retyped(files[e][i], 2 * files[e][i].body.claimed_wh + 1)
  <2>4. records = [files EXCEPT ![e] = [files[e] EXCEPT ![i] = x]]
    BY <2>1, <2>3
  <2>5. x.id = MaxRecords
    <3>1. files[e][i] \in RecordLines
      BY <1>0, FileFacts
    <3>2. "id" \in DOMAIN files[e][i]
      BY <3>1 DEF RecordLines
    <3> QED BY <3>2 DEF Retyped
  <2> HIDE DEF x
  <2>6. CASE d # e
    BY <1>0, <2>4, <2>6
  <2>7. CASE d = e
    <3>1. records[d] = [files[d] EXCEPT ![i] = x]
      BY <1>0, <2>4, <2>7
    <3>2. DOMAIN files[d] = 1..Len(files[d]) /\ Len(files[d]) \in Nat /\ i \in DOMAIN files[d]
      BY <2>2, <2>7, FileFacts
    <3> DEFINE n == Len(files[d])
               g == records[d]
    <3>3. g = [m \in 1..n |-> IF m = i THEN x ELSE files[d][m]] /\ n \in Nat
      BY <3>1, <3>2
    <3> HIDE DEF n, g
    <3>4. Len(g) = n /\ g = [m \in 1..Len(g) |-> g[m]]
      BY <3>3
    <3>5. i \in DOMAIN g /\ g[i].id = MaxRecords
      BY <2>5, <3>2, <3>3 DEF n
    <3> QED BY <3>2, <3>3, <3>4, <3>5 DEF g, n, IsList
  <2> QED BY <2>6, <2>7
<1>3. CASE \E e \in Month : files[e] # <<>> /\ records = [files EXCEPT ![e] = Front(@)]
  <2>1. PICK e \in Month : files[e] # <<>> /\ records = [files EXCEPT ![e] = Front(@)]
    BY <1>3
  <2>2. CASE d = e
    <3> DEFINE n == Len(files[d])
    <3>1. files[d] \in Seq(RecordLines) /\ n \in Nat /\ n > 0
      BY <2>1, <2>2, FileFacts, ListFacts DEF InvoiceTypes
    <3>2. records[d] = SubSeq(files[d], 1, n - 1)
      BY <1>0, <2>1, <2>2 DEF Front
    <3>3. SubSeq(files[d], 1, n - 1) \in Seq(RecordLines) /\ Len(SubSeq(files[d], 1, n - 1)) = n - 1
      <4>1. n - 1 \in 0..Len(files[d])
        BY <3>1
      <4>2. 1..(n - 1) \subseteq 1..Len(files[d])
        BY <3>1
      <4>3. \A m \in 1..(n - 1) : files[d][m] \in RecordLines
        BY <2>2, <4>2, FileFacts
      <4>4. SubSeq(files[d], 1, n - 1) = [m \in 1..(n - 1) |-> files[d][m]]
        BY <3>1
      <4> HIDE DEF n
      <4>5. n - 1 \in Nat
        BY <3>1
      <4> QED BY <4>3, <4>4, <4>5
    <3> HIDE DEF n
    <3>4. IsList(records[d]) /\ Len(records[d]) # n
      <4> DEFINE g == SubSeq(files[d], 1, n - 1)
      <4>1. g \in Seq(RecordLines) /\ Len(g) = n - 1 /\ records[d] = g
        BY <3>2, <3>3
      <4> HIDE DEF g
      <4>2. IsList(g)
        BY <4>1, SeqIsList
      <4> QED BY <3>1, <4>1, <4>2
    <3> USE DEF n
    <3> QED BY <3>4
  <2>3. CASE d # e
    BY <1>0, <2>1, <2>3
  <2> QED BY <2>2, <2>3
<1>4. CASE \E e \in Month : files[e] # <<>> /\ records = [files EXCEPT ![e] = Append(@, Last(@))]
  <2>1. PICK e \in Month : files[e] # <<>> /\ records = [files EXCEPT ![e] = Append(@, Last(@))]
    BY <1>4
  <2>2. CASE d = e
    <3>1. records[d] = Append(files[d], Last(files[d]))
      BY <1>0, <2>1, <2>2
    <3>2. IsList(files[d]) /\ Len(files[d]) \in Nat
      BY FileFacts
    <3>3. IsList(records[d]) /\ Len(records[d]) = Len(files[d]) + 1
      BY <3>1, <3>2, ListAppended
    <3> QED BY <3>2, <3>3
  <2>3. CASE d # e
    BY <1>0, <2>1, <2>3
  <2> QED BY <2>2, <2>3
<1> QED BY <1>1, <1>2, <1>3, <1>4 DEF ChangedRecords

\* Repeating an entry adds none that was not there.
LEMMA RepeatedDays ==
  ASSUME SealsInv, BilledSeals # {}, NEW k \in DOMAIN LastRepeated(Bill.days)
  PROVE  \E m \in BilledSeals : LastRepeated(Bill.days)[k] = Bill.days[m]
<1> DEFINE days == Bill.days
<1>1. DOMAIN days = BilledSeals
  BY BillFacts
<1> DEFINE last == Max(BilledSeals)
           n == Len(seals)
<1>2. BilledSeals \in SUBSET (1..n) /\ n \in Int /\ 1 \in Int
  BY ListFacts DEF SealsInv, BilledSeals, Sealed, Book
<1> HIDE DEF days, n
<1>3. last \in BilledSeals
  BY <1>2, IntervalEnds
<1>4. LastRepeated(days) =
        [j \in BilledSeals \cup {last + 1} |-> IF j > last THEN days[last] ELSE days[j]]
  BY <1>1 DEF LastRepeated
<1> HIDE DEF last
<1>5. k \in BilledSeals \cup {last + 1}
  BY <1>4 DEF days
<1>6. last + 1 > last
  BY <1>2, <1>3
<1> QED BY <1>3, <1>4, <1>5, <1>6 DEF days

\* The bill changed in one place, in the ways that ChangedStatements lists.
Retotalled(bill, more, fee) ==
  [bill EXCEPT !.totals.billable = more, !.totals.fee = fee, !.totals.keeps = more - fee]
Surcharged(bill) == [bill EXCEPT !.totals.fee = @ + 1, !.totals.keeps = @ - 1]
EntryRepeated(bill) == [bill EXCEPT !.days = LastRepeated(@)]
Miscounted(bill) == [bill EXCEPT !.uncommitted = @ + 1]
EntryLeftOut(bill, k) == [bill EXCEPT !.days = Without(@, k)]
TreeEnlarged(bill, j) == [bill EXCEPT !.proofs[j].proof.leaf_count = @ + 1]
ShownFor(bill, j, line) == [bill EXCEPT !.proofs[j].record = line, !.proofs[j].leaf = record_hash(line)]

\* The ways in which a bill may have been changed, one by one.
LEMMA BillChanges ==
  ASSUME NEW bill, NEW changed \in ChangedStatements(bill, files)
  PROVE  \/ \E more, fee : /\ more = bill.totals.billable + 100 /\ fee = fee_micro_eur(more, FeeBp)
                           /\ changed = Retotalled(bill, more, fee)
         \/ changed = Surcharged(bill) \/ changed = EntryRepeated(bill) \/ changed = Miscounted(bill)
         \/ \E k \in DOMAIN bill.days : changed = EntryLeftOut(bill, k)
         \/ \E j \in DOMAIN bill.proofs : changed = TreeEnlarged(bill, j)
         \/ \E j \in DOMAIN bill.proofs, p \in Lines(files) : changed = ShownFor(bill, j, files[p[1]][p[2]])
<1> DEFINE more == bill.totals.billable + 100
           fee == fee_micro_eur(more, FeeBp)
<1>1. ChangedStatements(bill, files) =
        {Retotalled(bill, more, fee), Surcharged(bill), EntryRepeated(bill), Miscounted(bill)}
        \cup {EntryLeftOut(bill, k) : k \in DOMAIN bill.days} \cup {TreeEnlarged(bill, j) : j \in DOMAIN bill.proofs}
        \cup UNION {ShownForAnother(bill, j, files) : j \in DOMAIN bill.proofs}
  BY Zenon DEF ChangedStatements, Retotalled, Surcharged, EntryRepeated, Miscounted, EntryLeftOut, TreeEnlarged
<1>2. \A j : ShownForAnother(bill, j, files) = {ShownFor(bill, j, files[p[1]][p[2]]) : p \in Lines(files)}
  BY DEF ShownForAnother, ShownFor
<1>3. more = bill.totals.billable + 100 /\ fee = fee_micro_eur(more, FeeBp)
  OBVIOUS
<1> HIDE DEF more, fee
<1> QED BY <1>1, <1>2, <1>3

\* Whatever was changed of a statement, its farm, its activation and each of its entries
\* are of the ledger.
LEMMA StatementFacts ==
  ASSUME IInv, statement # Null
  PROVE  /\ statement.activation = activation /\ statement.farm_id = FarmId
         /\ V!FromDay(statement) = FromDay(Book)
         /\ \A k \in DOMAIN statement.days :
              \E m \in BilledSeals : statement.days[k] = DayEntry(Book, seals[m])
<1> DEFINE days == [k \in BilledSeals |-> DayEntry(Book, seals[k])]
<1>0. SealsInv /\ InvoiceTypes /\ HandedOut /\ BilledSeals # {}
  BY DEF IInv, HandedOut
<1>1. /\ Bill.activation = activation /\ Bill.farm_id = FarmId /\ Bill.days = days
      /\ {"activation", "farm_id", "days", "totals", "uncommitted", "proofs"} \subseteq DOMAIN Bill
  <2>1. {"activation", "farm_id", "days", "totals", "uncommitted", "proofs"} \subseteq DOMAIN BillBody
    BY BillBodyIs
  <2> QED BY <2>1, BillFacts
<1>2. DOMAIN days = BilledSeals /\ \A k \in BilledSeals : days[k] = DayEntry(Book, seals[k])
  OBVIOUS
<1> HIDE DEF days
<1>3. statement = Bill \/ statement \in ChangedStatements(Bill, files)
  BY <1>0 DEF HandedOut
<1>4. /\ statement.activation = activation /\ statement.farm_id = FarmId
      /\ \/ statement.days = days \/ statement.days = LastRepeated(days)
         \/ \E k \in DOMAIN days : statement.days = Without(days, k)
  <2> DEFINE Goal == /\ statement.activation = activation /\ statement.farm_id = FarmId
                     /\ \/ statement.days = days \/ statement.days = LastRepeated(days)
                        \/ \E k \in DOMAIN days : statement.days = Without(days, k)
  <2>1. CASE statement = Bill
    BY <1>1, <2>1
  <2>2. ASSUME NEW more, NEW fee, statement = Retotalled(Bill, more, fee) PROVE Goal
    BY <1>1, <2>2 DEF Retotalled
  <2>3. statement = EntryRepeated(Bill) => Goal
    BY <1>1 DEF EntryRepeated
  <2>4. statement = Miscounted(Bill) => Goal
    BY <1>1 DEF Miscounted
  <2>5. ASSUME NEW k \in DOMAIN Bill.days, statement = EntryLeftOut(Bill, k) PROVE Goal
    BY <1>1, <2>5 DEF EntryLeftOut
  <2>6. ASSUME NEW j, statement = TreeEnlarged(Bill, j) PROVE Goal
    BY <1>1, <2>6 DEF TreeEnlarged
  <2>7. ASSUME NEW j, NEW line, statement = ShownFor(Bill, j, line) PROVE Goal
    BY <1>1, <2>7 DEF ShownFor
  <2>8. statement = Surcharged(Bill) => Goal
    BY <1>1 DEF Surcharged
  <2> HIDE DEF Goal
  <2>9. statement \in ChangedStatements(Bill, files) => Goal
    BY <2>2, <2>3, <2>4, <2>5, <2>6, <2>7, <2>8, BillChanges
  <2>10. Goal
    BY <1>3, <2>1, <2>9 DEF Goal
  <2> QED BY <2>10 DEF Goal
<1>5. \A k \in DOMAIN statement.days : \E m \in BilledSeals : statement.days[k] = days[m]
  <2>1. CASE statement.days = days
    BY <1>2, <2>1
  <2>2. CASE statement.days = LastRepeated(days)
    BY <1>0, <1>1, <2>2, RepeatedDays
  <2>3. CASE \E k \in DOMAIN days : statement.days = Without(days, k)
    BY <1>2, <2>3 DEF Without
  <2> QED BY <1>4, <2>1, <2>2, <2>3
<1>6. V!FromDay(statement) = FromDay(Book)
  BY <1>4 DEF V!FromDay, FromDay, Book
<1> QED BY <1>2, <1>4, <1>5, <1>6

\* The seal that the package is given for an entry is the seal the entry repeats.
LEMMA HandedSeal ==
  ASSUME IInv, statement # Null, NEW k \in DOMAIN statement.days
  PROVE  /\ Handed(k) \in DOMAIN seals /\ statement.days[k].day = seals[Handed(k)].day
         /\ \E m \in BilledSeals : statement.days[k] = DayEntry(Book, seals[m]) /\ seals[m] = seals[Handed(k)]
<1>0. SealsInv /\ InvoiceTypes
  BY DEF IInv
<1>1. PICK m \in BilledSeals : statement.days[k] = DayEntry(Book, seals[m])
  BY StatementFacts
<1> DEFINE d == statement.days[k].day
           h == Handed(k)
<1>2. m \in DOMAIN seals /\ seals[m].day = d /\ seals[m].seal_hash = statement.days[k].seal_hash
  BY <1>0, <1>1, EntryFacts
<1>3. h \in DOMAIN seals /\ seals[h].day = d /\ seals[h].seal_hash = seals[m].seal_hash
  BY <1>2 DEF Handed
<1> HIDE DEF h
<1>4. seals[m] = seals[h]
  <2>1. m \in Nat /\ h \in Nat
    BY <1>0, <1>2, <1>3, ListFacts DEF SealsInv
  <2>2. seals[m].day \in Int
    BY <1>0, <1>2, SealOfDayFacts
  <2>3. m < h \/ h < m \/ m = h
    BY <2>1
  <2>4. seals[m].prev_seal # seals[m].seal_hash /\ seals[h].prev_seal # seals[h].seal_hash
    BY <1>0, <1>2, <1>3, SealOfDayFacts
  <2> QED BY <1>0, <1>2, <1>3, <2>2, <2>3, <2>4 DEF SealsInv, SealsRise, SealedTwice
<1> QED BY <1>1, <1>3, <1>4 DEF h

\* The lines of one day follow one another.
LEMMA FileChained ==
  ASSUME InvoiceTypes, FilesInv, NEW d \in Days, NEW i \in 2..Len(files[d])
  PROVE  files[d][i].seq = files[d][i - 1].seq + 1 /\ files[d][i].prev = record_hash(files[d][i - 1])
<1>1. i \in DOMAIN files[d] /\ i - 1 \in DOMAIN files[d] /\ i > 1
  BY FileFacts
<1>2. Prior(d, i) = files[d][i - 1] /\ files[d][i - 1] # Null
  BY <1>1, FileFacts DEF Prior
<1>3. Linked(files[d][i], Prior(d, i))
  BY <1>1 DEF FilesInv, LinesFollow
<1> QED BY <1>2, <1>3 DEF Linked

-----------------------------------------------------------------------------
(* The day of an entry, as both programs check it.                         *)

\* The package accepts a seal of the ledger over lines of its length and its root.
LEMMA MineAccepts ==
  ASSUME SealsInv, InvoiceTypes, NEW h \in DOMAIN seals, NEW lines
  PROVE  verify_seal(seals[h], lines, FarmId, FromDay(Book))
           <=> /\ Len(lines) = seals[h].leaf_count
               /\ merkle_root(leaves(lines)) = seals[h].merkle_root
<1> DEFINE s == seals[h]
           root == merkle_root(leaves(lines))
<1>1. /\ s.seal_hash = Append(s.prev_seal, s.merkle_root)
      /\ s.rule = seal_rule_for(s.day, FromDay(Book))
      /\ s.farm_id = IF s.rule = SEAL_RULE_FARM_BOUND THEN FarmId ELSE Null
      /\ s.signature = Signed(BodyForSigning(s))
  BY SealSaysOfDay
<1> HIDE DEF s, root
<1>2. verify_seal(s, lines, FarmId, FromDay(Book)) <=> Len(lines) = s.leaf_count /\ root = s.merkle_root
  BY <1>1 DEF verify_seal, seal_hash, root
<1> QED BY <1>2 DEF s, root

\* The verifier's words for the same hashes.
LEMMA VLeaves ==
  ASSUME NEW lines
  PROVE  [i \in DOMAIN lines |-> V!record_hash(lines[i])] = leaves(lines)
BY DEF leaves, record_hash, Leaf, V!record_hash

\* What the verifier needs of a day before it can accept it.
LEMMA TheirsNeeds ==
  ASSUME NEW k, NEW lines, lines = copy[statement.days[k].day], IsList(lines), lines # <<>>, NEW reader,
         V!DayFails(statement, k, copy, reader) \ {"chains to the previous sealed day"} = {}
  PROVE  /\ Len(lines) = statement.days[k].leaf_count
         /\ merkle_root(leaves(lines)) = statement.days[k].merkle_root
<1> DEFINE entry == statement.days[k]
           hashes == [i \in DOMAIN lines |-> V!record_hash(lines[i])]
           A == V!Unless(Len(lines) = entry.leaf_count, "record count matches the seal")
           B == V!Unless(V!merkle_root(hashes) = entry.merkle_root, "sealed Merkle root")
           F == V!DayFails(statement, k, copy, reader)
<1>1. A \subseteq F /\ B \subseteq F
  BY DEF V!DayFails
<1>0. F \ {"chains to the previous sealed day"} = {}
  OBVIOUS
<1> HIDE DEF F
<1>a. \A label \in F : label = "chains to the previous sealed day"
  BY <1>0
<1>2. "record count matches the seal" \notin F /\ "sealed Merkle root" \notin F
  BY ONLY <1>a
<1>3. Len(lines) = entry.leaf_count /\ V!merkle_root(hashes) = entry.merkle_root
  BY <1>1, <1>2 DEF V!Unless
<1>4. V!merkle_root(hashes) = merkle_root(leaves(lines))
  BY VLeaves, LeavesFacts, VRoot
<1> QED BY <1>3, <1>4

\* The records of an entry as the ledger has them: the verifier finds nothing wrong.
LEMMA TheirsAccepts ==
  ASSUME IInv, statement # Null, NEW k \in DOMAIN statement.days, NEW checks \in BOOLEAN,
         copy[statement.days[k].day] = files[statement.days[k].day]
  PROVE  V!DayFails(statement, k, copy, Reader(checks)) \subseteq {"chains to the previous sealed day"}
<1>0. SealsInv /\ InvoiceTypes /\ FilesInv
  BY DEF IInv
<1>1. PICK m \in BilledSeals : statement.days[k] = DayEntry(Book, seals[m])
  BY StatementFacts
<1> DEFINE entry == statement.days[k]
           s == seals[m]
           d == entry.day
           lines == copy[d]
           hashes == [i \in DOMAIN lines |-> V!record_hash(lines[i])]
<1>2. /\ m \in DOMAIN seals /\ entry.day = s.day /\ entry.seal_hash = s.seal_hash
      /\ entry.prev_seal = s.prev_seal /\ entry.merkle_root = s.merkle_root
      /\ entry.leaf_count = s.leaf_count /\ entry.signature = s.signature
      /\ entry.rule = s.rule /\ entry.corroboration = s.corroboration
  BY <1>0, <1>1, EntryFacts
<1>3. d \in Days /\ files[d] # <<>> /\ lines = files[d]
  BY <1>0, <1>2, SealOfDayFacts
<1>4. IsList(lines) /\ Len(lines) \in Nat
  BY <1>0, <1>3, FileFacts
<1>5. /\ s.merkle_root = merkle_root(leaves(lines)) /\ s.leaf_count = Len(lines)
      /\ s.first_seq = lines[1].seq /\ s.last_seq = Last(lines).seq
      /\ s.seal_hash = Append(s.prev_seal, s.merkle_root)
      /\ s.rule = seal_rule_for(s.day, FromDay(Book))
      /\ s.farm_id = IF s.rule = SEAL_RULE_FARM_BOUND THEN FarmId ELSE Null
      /\ s.signature = Signed(BodyForSigning(s))
      /\ BodyForSigning(s) = [day |-> s.day, prev_seal |-> s.prev_seal,
               merkle_root |-> s.merkle_root, leaf_count |-> s.leaf_count,
               first_seq |-> s.first_seq, last_seq |-> s.last_seq,
               seal_hash |-> s.seal_hash, corroboration |-> s.corroboration,
               rule |-> s.rule, farm_id |-> s.farm_id]
  BY <1>0, <1>2, <1>3, SealSaysOfDay
<1>6. V!check_chain(lines) = {}
  <2>1. \A i \in 2..Len(lines) : /\ lines[i].seq = lines[i - 1].seq + 1
                                 /\ lines[i].prev = V!record_hash(lines[i - 1])
    BY <1>0, <1>3, FileChained DEF record_hash, Leaf, V!record_hash
  <2> QED BY <2>1 DEF V!check_chain, V!Unless
<1>7. V!merkle_root(hashes) = entry.merkle_root
  BY <1>2, <1>3, <1>4, <1>5, VLeaves, LeavesFacts, VRoot
<1>8. V!seal_hash(entry.prev_seal, V!merkle_root(hashes)) = entry.seal_hash
  BY <1>2, <1>5, <1>7 DEF V!seal_hash
<1>9. V!RuleAndSignature(statement, entry, lines, Reader(checks)) = {}
  <2>1. statement.farm_id = FarmId /\ V!FromDay(statement) = FromDay(Book)
    BY StatementFacts
  <2>2. entry.rule = V!rule_for(entry.day, V!FromDay(statement))
    BY <1>2, <1>5, <2>1 DEF V!rule_for, seal_rule_for, SEAL_RULE_FARM_BOUND, SEAL_RULE_LEGACY,
       V!RULE_FARM_BOUND, V!RULE_LEGACY
  <2>a. entry.rule = s.rule /\ statement.farm_id = FarmId
    BY <1>2, <2>1
  <2>b. s.farm_id = IF entry.rule = V!RULE_FARM_BOUND THEN statement.farm_id ELSE Null
    BY <1>5, <2>a DEF SEAL_RULE_FARM_BOUND, V!RULE_FARM_BOUND
  <2>c. /\ s.day = entry.day /\ s.prev_seal = entry.prev_seal /\ s.merkle_root = entry.merkle_root
        /\ s.leaf_count = entry.leaf_count /\ s.first_seq = lines[1].seq /\ s.last_seq = Last(lines).seq
        /\ s.seal_hash = entry.seal_hash /\ s.corroboration = entry.corroboration /\ s.rule = entry.rule
    BY <1>2, <1>5
  <2>d. BodyForSigning(s) = [day |-> s.day, prev_seal |-> s.prev_seal,
               merkle_root |-> s.merkle_root, leaf_count |-> s.leaf_count,
               first_seq |-> s.first_seq, last_seq |-> s.last_seq,
               seal_hash |-> s.seal_hash, corroboration |-> s.corroboration,
               rule |-> s.rule, farm_id |-> s.farm_id]
    BY <1>5
  <2>3. V!SealedBody(entry, lines, statement.farm_id, entry.rule) = BodyForSigning(s)
    <3> DEFINE first == lines[1].seq
               last == Last(lines).seq
               farm == IF entry.rule = V!RULE_FARM_BOUND THEN statement.farm_id ELSE Null
    <3>1. V!SealedBody(entry, lines, statement.farm_id, entry.rule) =
            [day |-> entry.day, prev_seal |-> entry.prev_seal, merkle_root |-> entry.merkle_root,
             leaf_count |-> entry.leaf_count, first_seq |-> first, last_seq |-> last,
             seal_hash |-> entry.seal_hash, corroboration |-> entry.corroboration, rule |-> entry.rule,
             farm_id |-> farm]
      BY DEF V!SealedBody, V!Last, Last
    <3>2. /\ s.day = entry.day /\ s.prev_seal = entry.prev_seal /\ s.merkle_root = entry.merkle_root
          /\ s.leaf_count = entry.leaf_count /\ s.first_seq = first /\ s.last_seq = last
          /\ s.seal_hash = entry.seal_hash /\ s.corroboration = entry.corroboration /\ s.rule = entry.rule
          /\ s.farm_id = farm
      BY <2>b, <2>c
    <3> HIDE DEF entry, lines, s, d, first, last, farm
    <3>3. BodyForSigning(s) =
            [day |-> entry.day, prev_seal |-> entry.prev_seal, merkle_root |-> entry.merkle_root,
             leaf_count |-> entry.leaf_count, first_seq |-> first, last_seq |-> last,
             seal_hash |-> entry.seal_hash, corroboration |-> entry.corroboration, rule |-> entry.rule,
             farm_id |-> farm]
      BY ONLY <2>d, <3>2
    <3> QED BY <3>1, <3>3
  <2>4. entry.signature = [body |-> V!SealedBody(entry, lines, statement.farm_id, entry.rule)]
    BY <1>2, <1>5, <2>3 DEF Signed
  <2> HIDE DEF entry, lines
  <2> QED BY <2>2, <2>4 DEF V!RuleAndSignature, V!SignatureFails, V!Unless
<1>10. Len(lines) = entry.leaf_count
  BY <1>2, <1>5
<1>11. lines # <<>>
  BY <1>3
<1>12. V!DayFails(statement, k, copy, Reader(checks)) =
         UNION {V!check_chain(lines),
                V!Unless(Len(lines) = entry.leaf_count, "record count matches the seal"),
                V!Unless(V!merkle_root(hashes) = entry.merkle_root, "sealed Merkle root"),
                V!Unless(V!seal_hash(entry.prev_seal, V!merkle_root(hashes)) = entry.seal_hash, "seal_hash"),
                V!Unless(V!ChainsTo(statement, k, copy), "chains to the previous sealed day"),
                V!RuleAndSignature(statement, entry, lines, Reader(checks))}
  BY <1>11 DEF V!DayFails
<1> HIDE DEF entry, lines, hashes
<1>13. V!Unless(V!ChainsTo(statement, k, copy), "chains to the previous sealed day")
          \subseteq {"chains to the previous sealed day"}
  BY DEF V!Unless
<1>14. /\ V!Unless(Len(lines) = entry.leaf_count, "record count matches the seal") = {}
       /\ V!Unless(V!merkle_root(hashes) = entry.merkle_root, "sealed Merkle root") = {}
       /\ V!Unless(V!seal_hash(entry.prev_seal, V!merkle_root(hashes)) = entry.seal_hash, "seal_hash") = {}
  BY <1>7, <1>8, <1>10 DEF V!Unless
<1> QED
  <2> DEFINE A == V!check_chain(lines)
             B == V!Unless(Len(lines) = entry.leaf_count, "record count matches the seal")
             C == V!Unless(V!merkle_root(hashes) = entry.merkle_root, "sealed Merkle root")
             D == V!Unless(V!seal_hash(entry.prev_seal, V!merkle_root(hashes)) = entry.seal_hash, "seal_hash")
             E == V!Unless(V!ChainsTo(statement, k, copy), "chains to the previous sealed day")
             F == V!RuleAndSignature(statement, entry, lines, Reader(checks))
  <2>1. /\ A = {} /\ B = {} /\ C = {} /\ D = {} /\ F = {} /\ E \subseteq {"chains to the previous sealed day"}
        /\ V!DayFails(statement, k, copy, Reader(checks)) = UNION {A, B, C, D, E, F}
    BY <1>6, <1>9, <1>12, <1>13, <1>14
  <2> HIDE DEF A, B, C, D, E, F
  <2> QED BY <2>1

\* A record retyped has another hash than the records of the ledger.
LEMMA RetypedRoot ==
  ASSUME InvoiceTypes, FilesInv, NEW d \in Days, NEW lines, IsList(lines), files[d] # <<>>,
         Len(lines) = Len(files[d]),
         NEW i \in DOMAIN files[d], i \in DOMAIN lines, lines[i].id = MaxRecords
  PROVE  merkle_root(leaves(lines)) # merkle_root(leaves(files[d]))
<1>1. IsList(files[d]) /\ Len(files[d]) \in Nat /\ Len(files[d]) > 0
  BY FileFacts, ListFacts
<1>2. lines # <<>>
  BY <1>1, ListFacts
<1>3. /\ Digests(leaves(lines)) /\ Digests(leaves(files[d])) /\ Len(leaves(lines)) = Len(leaves(files[d]))
      /\ leaves(lines)[i] = Leaf(lines[i].id) /\ leaves(files[d])[i] = Leaf(files[d][i].id)
  BY <1>1, <1>2, LeavesFacts
<1>4. files[d][i].id # MaxRecords
  <2>1. files[d][i].id = files[d][i].seq /\ files[d][i].seq < next_seq /\ next_seq <= MaxRecords
    BY DEF FilesInv, LinesFollow
  <2>2. files[d][i].seq \in Nat /\ next_seq \in Nat /\ MaxRecords \in Nat
    BY BodyFacts, HeadFacts, InvoiceAmounts
  <2> QED BY <2>1, <2>2
<1>5. leaves(lines) # leaves(files[d])
  BY <1>3, <1>4 DEF Leaf
<1> QED BY <1>3, <1>5, RootInjective

\* BothVerifiersAgree of a state.
LEMMA BothVerifiersAgreeNow == IInv => BothVerifiersAgree
<1> SUFFICES ASSUME IInv, statement # Null, NEW k \in DOMAIN statement.days,
                    copy[statement.days[k].day] # <<>>
             PROVE  (/\ verify_chain(copy[statement.days[k].day])
                     /\ verify_seal(seals[Handed(k)], copy[statement.days[k].day], FarmId, FromDay(Book)))
                    <=> V!DayFails(statement, k, copy, Reader(TRUE)) \ {"chains to the previous sealed day"} = {}
  BY DEF BothVerifiersAgree
<1>0. SealsInv /\ InvoiceTypes /\ FilesInv /\ HandedOut
  BY DEF IInv
<1>1. PICK m \in BilledSeals : statement.days[k] = DayEntry(Book, seals[m]) /\ seals[m] = seals[Handed(k)]
  BY HandedSeal
<1> DEFINE entry == statement.days[k]
           d == entry.day
           lines == copy[d]
           s == seals[Handed(k)]
<1>2. /\ Handed(k) \in DOMAIN seals /\ d = s.day /\ entry.merkle_root = s.merkle_root
      /\ entry.leaf_count = s.leaf_count
  BY <1>0, <1>1, HandedSeal, EntryFacts
<1>3. d \in Days /\ files[d] # <<>>
  BY <1>0, <1>2, SealOfDayFacts
<1>4. s.merkle_root = merkle_root(leaves(files[d])) /\ s.leaf_count = Len(files[d])
  BY <1>0, <1>2, SealSaysOfDay
<1>5. verify_seal(s, lines, FarmId, FromDay(Book))
        <=> Len(lines) = Len(files[d]) /\ merkle_root(leaves(lines)) = s.merkle_root
  BY <1>0, <1>2, <1>4, MineAccepts
<1>6. copy = files \/ copy \in ChangedRecords(files)
  BY <1>0 DEF HandedOut
<1>7. CASE lines = files[d]
  <2>1. verify_chain(lines)
    BY <1>0, <1>3, <1>7, FileChained DEF verify_chain
  <2>2. V!DayFails(statement, k, copy, Reader(TRUE)) \ {"chains to the previous sealed day"} = {}
    BY <1>7, TheirsAccepts
  <2> QED BY <1>4, <1>5, <1>7, <2>1, <2>2
<1>8. CASE lines # files[d]
  <2>1. IsList(lines) /\ ~ (Len(lines) = Len(files[d]) /\ merkle_root(leaves(lines)) = s.merkle_root)
    BY <1>0, <1>3, <1>4, <1>6, <1>8, CopyCases, RetypedRoot
  <2>2. V!DayFails(statement, k, copy, Reader(TRUE)) \ {"chains to the previous sealed day"} # {}
    <3> HIDE DEF lines
    <3> SUFFICES ASSUME V!DayFails(statement, k, copy, Reader(TRUE)) \ {"chains to the previous sealed day"} = {}
                 PROVE  FALSE
      OBVIOUS
    <3>1. lines = copy[statement.days[k].day] /\ lines # <<>>
      BY DEF lines
    <3> QED BY <1>2, <1>4, <2>1, <3>1, TheirsNeeds
  <2> QED BY <1>5, <2>1, <2>2
<1> QED BY <1>7, <1>8

\* BothVerifiersAgree: for every day of every hand-over, changed or not, verify_chain and
\* verify_seal of ledger.py accept what hashguard_verify.py accepts and nothing else.
THEOREM VerifiersAgree == Spec => []BothVerifiersAgree
BY InvoiceInvariant, BothVerifiersAgreeNow, PTL

-----------------------------------------------------------------------------
(* The verifier's arithmetic is the ledger's, record by record.            *)

\* The two programs add up alike,
LEMMA VSum == ASSUME NEW f PROVE V!Sum(f) = SumOf(f)
BY DEF V!Sum, SumOf, V!FoldFunction, FoldFunction, V!FoldFunctionOnSet, FoldFunctionOnSet,
       V!MapThenFoldSet, MapThenFoldSet

\* round half to even alike,
LEMMA VHalfEven ==
  ASSUME NEW n \in Int, NEW d \in Nat, d > 0
  PROVE  V!half_even(n, d) = HalfEven(n, d) /\ HalfEven(n, d) \in Int
<1> DEFINE q == n \div d
           r == n % d
<1>1. q \in Int /\ r \in Int /\ (q % 2 = 0 \/ q % 2 = 1)
  BY SMTT(30)
<1>2. V!half_even(n, d) = q + IF 2 * r > d \/ (2 * r = d /\ q % 2 # 0) THEN 1 ELSE 0
  BY DEF V!half_even
<1>3. HalfEven(n, d) = IF 2 * r > d \/ (2 * r = d /\ q % 2 = 1) THEN q + 1 ELSE q
  BY DEF HalfEven
<1> HIDE DEF q, r
<1> QED BY <1>1, <1>2, <1>3

\* and price energy alike.
LEMMA VEnergy ==
  ASSUME NEW wh \in Int, NEW price \in Int
  PROVE  /\ V!energy_cost_micro_eur(wh, price) = energy_cost_micro_eur(wh, price)
         /\ energy_cost_micro_eur(wh, price) \in Int
<1> DEFINE n == wh * price
<1>1. n \in Int
  OBVIOUS
<1> HIDE DEF n
<1>2. V!half_even(n, 1000) = HalfEven(n, 1000) /\ HalfEven(n, 1000) \in Int
  BY <1>1, VHalfEven
<1> QED BY <1>2 DEF n, V!energy_cost_micro_eur, energy_cost_micro_eur

\* What is witnessed of a claim, and what is billed of it.
LEMMA VWitnessed ==
  ASSUME NEW body, NEW claim, claim.claimed_wh = body.claimed_wh, claim.baseline_gh = body.baseline_gh,
         claim.observed_gh = body.observed_gh, body.claimed_wh \in Nat,
         body.baseline_gh \in Int \cup {Null}, body.observed_gh \in Int \cup {Null}, Null \notin Int
  PROVE  /\ V!corroborated_wh(body) = corroborated_wh(claim) /\ corroborated_wh(claim) \in Nat
         /\ V!Payable(body) = billable_wh(claim) /\ billable_wh(claim) \in Nat
         /\ billable_wh(claim) <= corroborated_wh(claim)
<1> DEFINE b == body.baseline_gh
           o == body.observed_gh
           c == body.claimed_wh
           Q == ((b - o) * 1000000) \div b
           C == corroborated_wh(claim)
           D == V!corroborated_wh(body)
           W == billable_wh(claim)
           F == dark_fraction_ppm(claim.baseline_gh, claim.observed_gh)
<1>1. F = IF b = Null \/ o = Null THEN Null ELSE IF b <= 0 THEN Null ELSE Clamp(Q, 0, 1000000)
  BY DEF dark_fraction_ppm, PPM
<1>2. C = IF F = Null THEN 0 ELSE IF F < 50000 THEN 0 ELSE (c * F) \div 1000000
  BY DEF corroborated_wh, MIN_DARK_FRACTION_PPM, PPM
<1> DEFINE G == V!Most(0, V!Least(1000000, Q))
<1>3. D = IF b = Null \/ o = Null THEN 0
          ELSE IF b <= 0 THEN 0 ELSE IF G < 50000 THEN 0 ELSE (c * G) \div 1000000
  BY DEF V!corroborated_wh, V!MIN_DARK_FRACTION_PPM, V!PPM
<1>4. c \in Nat /\ b \in Int \cup {Null} /\ o \in Int \cup {Null} /\ Null \notin Int
  OBVIOUS
<1>5. b \in Int /\ o \in Int /\ b > 0 => Q \in Int
  <2> SUFFICES ASSUME b \in Int, o \in Int, b > 0 PROVE Q \in Int
    OBVIOUS
  <2> DEFINE x == (b - o) * 1000000
  <2>1. x \in Int /\ b \in Nat
    OBVIOUS
  <2> HIDE DEF x, b, o
  <2>2. x \div b \in Int
    BY <2>1, FloorBelow
  <2> QED BY <2>2 DEF x
<1>6. W = IF c <= C THEN c ELSE C
  BY DEF billable_wh
<1>7. V!Payable(body) = IF c < D THEN c ELSE D
  BY DEF V!Payable, V!Least
<1> HIDE DEF b, o, c, Q, C, D, W, F
<1>8. CASE b = Null \/ o = Null \/ ~ (b > 0)
  <2>1. C = 0 /\ D = 0
    BY <1>1, <1>2, <1>3, <1>4, <1>8
  <2> QED BY <1>4, <1>6, <1>7, <2>1 DEF C, D, W
<1>9. CASE b # Null /\ o # Null /\ b > 0
  <2>1. Q \in Int /\ F = Clamp(Q, 0, 1000000)
    BY <1>1, <1>4, <1>5, <1>9
  <2>2. G = F /\ F \in Nat
    BY <2>1 DEF Clamp, V!Most, V!Least
  <2> HIDE DEF G
  <2>3. F # Null
    BY <1>4, <2>2
  <2>4. D = C
    BY <1>2, <1>3, <1>4, <1>9, <2>2, <2>3
  <2>5. C \in Nat
    <3>1. c * F \in Nat
      BY <1>4, <2>2
    <3>2. (c * F) \div 1000000 \in Nat
      BY <3>1
    <3> QED BY <1>2, <3>2
  <2> QED BY <1>4, <1>6, <1>7, <2>4, <2>5 DEF C, D, W
<1> QED BY <1>8, <1>9

\* The lines of a day, in the verifier's words.
LEMMA VLine ==
  ASSUME InvoiceTypes, NEW d \in Days, NEW i \in DOMAIN files[d], NEW line, line = files[d][i]
  PROVE  /\ V!Net(line.body) = ClaimedNet(line) /\ ClaimedNet(line) \in Int
         /\ V!corroborated_wh(line.body) = corroborated_wh(ClaimOf(line))
         /\ corroborated_wh(ClaimOf(line)) \in Nat
         /\ V!Payable(line.body) = billable_wh(ClaimOf(line)) /\ billable_wh(ClaimOf(line)) \in Nat
         /\ billable_wh(ClaimOf(line)) <= corroborated_wh(ClaimOf(line))
         /\ V!PayableNet(line.body) = IF billable_wh(ClaimOf(line)) > 0 THEN BillableNet(line) ELSE 0
         /\ V!PayableNet(line.body) \in Int
<1> DEFINE c == line.body.claimed_wh
           p == line.body.price
           lost == line.body.claimed_mining_lost
           W == billable_wh(ClaimOf(line))
           E == V!Payable(line.body)
<1>1. c \in Nat /\ p \in Int /\ lost \in Nat
  BY BodyFacts
<1>2. /\ V!corroborated_wh(line.body) = corroborated_wh(ClaimOf(line)) /\ corroborated_wh(ClaimOf(line)) \in Nat
      /\ E = W /\ W \in Nat
      /\ W <= corroborated_wh(ClaimOf(line))
  <2> DEFINE body == line.body
             claim == ClaimOf(line)
  <2>1. /\ claim.claimed_wh = body.claimed_wh /\ claim.baseline_gh = body.baseline_gh
        /\ claim.observed_gh = body.observed_gh /\ body.claimed_wh \in Nat
        /\ body.baseline_gh \in Int \cup {Null} /\ body.observed_gh \in Int \cup {Null} /\ Null \notin Int
    BY BodyFacts, ClaimIsOfBody, InvoiceNull
  <2> HIDE DEF body, claim
  <2>2. /\ V!corroborated_wh(body) = corroborated_wh(claim) /\ corroborated_wh(claim) \in Nat
        /\ V!Payable(body) = billable_wh(claim) /\ billable_wh(claim) \in Nat
        /\ billable_wh(claim) <= corroborated_wh(claim)
    BY ONLY <2>1, VWitnessed
  <2> QED BY <2>2 DEF body, claim
<1>3. V!Net(line.body) = V!energy_cost_micro_eur(c, p) - lost
  BY DEF V!Net
<1>4. ClaimedNet(line) = energy_cost_micro_eur(c, p) - lost
  BY DEF ClaimedNet
<1>5. V!Net(line.body) = ClaimedNet(line) /\ ClaimedNet(line) \in Int
  <2> HIDE DEF c, p, lost
  <2> QED BY <1>1, <1>3, <1>4, VEnergy
<1> DEFINE most == IF c > 1 THEN c ELSE 1
<1>6. V!PayableNet(line.body) = IF E <= 0 THEN 0 ELSE V!energy_cost_micro_eur(E, p) - (lost * E) \div most
  BY DEF V!PayableNet, V!AtLeastOne
<1>7. BillableNet(line) = energy_cost_micro_eur(W, p) - ((lost * W) \div most)
  BY DEF BillableNet
<1>8. most \in Nat /\ most > 0
  BY <1>1
<1> HIDE DEF c, p, lost, W, E, most
<1>9. (lost * W) \div most \in Int
  <2>1. lost * W \in Int
    BY <1>1, <1>2
  <2> QED BY <1>8, <2>1, FloorBelow
<1>10. /\ V!PayableNet(line.body) = IF W > 0 THEN BillableNet(line) ELSE 0
       /\ V!PayableNet(line.body) \in Int
  <2>a. W \in Int /\ p \in Int
    BY <1>1, <1>2
  <2>1. V!energy_cost_micro_eur(W, p) = energy_cost_micro_eur(W, p) /\ energy_cost_micro_eur(W, p) \in Int
    BY ONLY <2>a, VEnergy
  <2> QED BY <1>2, <1>6, <1>7, <1>9, <2>1
<1> QED BY <1>2, <1>5, <1>10 DEF E, W

-----------------------------------------------------------------------------
(* Records whose day, and whose day before, are those of the ledger.       *)

\* The reader has the records of a day, and of the day before it, as the ledger has them.
SameAt(records, d) ==
  DOMAIN records = Days /\ records[d] = files[d] /\ (d - 1 \in Days => records[d - 1] = files[d - 1])

\* Then it judges each reveal of the day as the ledger does,
LEMMA VState ==
  ASSUME InvoiceTypes, NEW d \in Days, NEW i \in DOMAIN files[d], NEW records, SameAt(records, d)
  PROVE  V!StateOf(records, d, i) = StateOf(files, d, i)
<1> DEFINE line == files[d][i]
           p == Predecessor(files, d, i)
<1>1. DOMAIN files = Days /\ line # Null
  BY FileFacts DEF InvoiceTypes
<1>2. V!previous_record(records, d) = record_before(files, d)
  BY <1>1 DEF SameAt, V!previous_record, record_before, V!Last, Last
<1>3. V!StateOf(records, d, i) = V!reveal_state(line, p)
  BY <1>2 DEF V!StateOf, Predecessor, SameAt
<1> HIDE DEF line, p
<1>4. V!reveal_state(line, p) = reveal_state(line, p)
  <2>1. V!CommitOf(p) # Null <=> Committed(p)
    BY DEF V!CommitOf, Committed
  <2>2. line.body.commit = Null <=> ~ Committed(line)
    BY <1>1 DEF Committed
  <2>3. CASE line.body.reveal = Null
    BY <2>1, <2>2, <2>3 DEF V!reveal_state, reveal_state, UNREVEALED, LEGACY
  <2>4. CASE line.body.reveal # Null
    <3>1. V!Opens(line, p) <=> /\ Committed(p) /\ line.body.reveal.commit_seq = line.seq - 1
                               /\ p.seq = line.seq - 1 /\ Reproduces(line, p)
      BY <2>1 DEF V!Opens, Reproduces, V!commit_hash, commit_hash, V!decision_snapshot, decision_snapshot
    <3> QED BY <2>4, <3>1 DEF V!reveal_state, reveal_state, REVEALED, MISMATCHED
  <2> QED BY <2>3, <2>4
<1> QED BY <1>3, <1>4 DEF StateOf, line, p

\* and bills the same of its lines.
LEMMA VPicks ==
  ASSUME InvoiceTypes, NEW d \in Days, NEW records, SameAt(records, d)
  PROVE  /\ V!Pauses(records, d, TRUE) = Executed(Book, d)
         /\ V!Pauses(records, d, FALSE) = Advised(Book, d)
         /\ V!Unproven(records, FromDay(Book), d) = Executed(Book, d) \ Audited(Book, d)
         /\ V!Proven(records, FromDay(Book), d) = Audited(Book, d)
<1>1. records[d] = files[d] /\ Book.files = files
  BY DEF SameAt, Book
<1>2. \A i \in DOMAIN files[d] : files[d][i].body.executed \in BOOLEAN
  BY BodyFacts
<1>3. V!Pauses(records, d, TRUE) = Executed(Book, d)
  BY <1>1, <1>2 DEF V!Pauses, Executed, Paused
<1>4. V!Pauses(records, d, FALSE) = Advised(Book, d)
  BY <1>1, <1>2 DEF V!Pauses, Advised, Paused
<1>5. \A i \in DOMAIN files[d] : V!StateOf(records, d, i) = StateOf(files, d, i)
  BY VState
<1>6. V!rule_for(d, FromDay(Book)) = V!RULE_FARM_BOUND
        <=> seal_rule_for(d, FromDay(Book)) = SEAL_RULE_FARM_BOUND
  BY DEF V!rule_for, seal_rule_for, SEAL_RULE_FARM_BOUND, SEAL_RULE_LEGACY, V!RULE_FARM_BOUND, V!RULE_LEGACY
<1>7. \A i \in Executed(Book, d) : i \in DOMAIN files[d]
  BY <1>1 DEF Executed
<1>8. V!Unproven(records, FromDay(Book), d) = Executed(Book, d) \ Audited(Book, d)
  BY <1>1, <1>3, <1>5, <1>6, <1>7 DEF V!Unproven, Audited, REVEALED
<1>9. Audited(Book, d) \subseteq Executed(Book, d)
  BY DEF Audited
<1> QED BY <1>3, <1>4, <1>8, <1>9 DEF V!Proven

-----------------------------------------------------------------------------
(* The sums of a day, and of a month.                                      *)

\* The amounts of a day.
GrossOf == [d \in Days |-> Nets(Book, d, ClaimedNet, Executed(Book, d))]
AdvisoryOf == [d \in Days |-> Nets(Book, d, ClaimedNet, Advised(Book, d))]
BillableOf == [d \in Days |-> Nets(Book, d, BillableNet, Billed(Book, d))]

\* What is picked of a day is some of its lines.
LEMMA PicksFacts ==
  ASSUME InvoiceTypes, NEW d \in Days
  PROVE  /\ Executed(Book, d) \in SUBSET DOMAIN files[d] /\ Advised(Book, d) \in SUBSET DOMAIN files[d]
         /\ Audited(Book, d) \in SUBSET Executed(Book, d) /\ Billed(Book, d) \in SUBSET Audited(Book, d)
         /\ \A S \in SUBSET DOMAIN files[d] : IsFiniteSet(S)
<1>1. Book.files = files
  BY DEF Book
<1>2. IsFiniteSet(DOMAIN files[d])
  <2> DEFINE n == Len(files[d])
  <2>1. n \in Int /\ DOMAIN files[d] = 1..n /\ 1 \in Int
    BY FileFacts
  <2> HIDE DEF n
  <2> QED BY <2>1, FS_Interval
<1> QED BY <1>1, <1>2, FS_Subset DEF Executed, Advised, Audited, Billed

\* What the verifier adds up over some lines of a day is what the ledger does,
LEMMA NetsOfClaims ==
  ASSUME InvoiceTypes, NEW d \in Days, NEW S \in SUBSET DOMAIN files[d], NEW records, records[d] = files[d]
  PROVE  /\ V!Sum([i \in S |-> V!Net(records[d][i].body)]) = Nets(Book, d, ClaimedNet, S)
         /\ Nets(Book, d, ClaimedNet, S) \in Int
<1> DEFINE f == [i \in S |-> ClaimedNet(files[d][i])]
<1>1. \A i \in S : V!Net(files[d][i].body) = ClaimedNet(files[d][i]) /\ ClaimedNet(files[d][i]) \in Int
  BY VLine
<1>2. [i \in S |-> V!Net(records[d][i].body)] = f
  BY <1>1
<1>3. IsFiniteSet(S)
  BY PicksFacts
<1>4. SumOf(f) \in Int
  <2>1. DOMAIN f = S /\ \A i \in S : f[i] \in Int
    BY <1>1
  <2> HIDE DEF f
  <2> QED BY <1>3, <2>1, SumIsOfAll, SumsFacts
<1>5. Nets(Book, d, ClaimedNet, S) = SumOf(f)
  BY DEF Nets, Book
<1> HIDE DEF f
<1> QED BY <1>2, <1>4, <1>5, VSum

\* although it also adds the lines of which nothing is billed.
LEMMA NetsOfBilled ==
  ASSUME InvoiceTypes, NEW d \in Days, NEW records, records[d] = files[d]
  PROVE  /\ V!Sum([i \in Audited(Book, d) |-> V!PayableNet(records[d][i].body)])
              = Nets(Book, d, BillableNet, Billed(Book, d))
         /\ Nets(Book, d, BillableNet, Billed(Book, d)) \in Int
<1> DEFINE S == Audited(Book, d)
           T == Billed(Book, d)
           f == [i \in S |-> V!PayableNet(files[d][i].body)]
           g == [i \in T |-> BillableNet(files[d][i])]
<1>1. /\ S \in SUBSET DOMAIN files[d] /\ IsFiniteSet(S)
      /\ T = {i \in S : billable_wh(ClaimOf(files[d][i])) > 0}
  BY PicksFacts DEF Billed, Book
<1> HIDE DEF S, T
<1>2. \A i \in S : /\ V!PayableNet(files[d][i].body) \in Int
                   /\ V!PayableNet(files[d][i].body) =
                        IF billable_wh(ClaimOf(files[d][i])) > 0 THEN BillableNet(files[d][i]) ELSE 0
  BY <1>1, VLine
<1>3. DOMAIN f = S /\ \A i \in S : f[i] \in Int
  BY <1>2
<1>4. T \in SUBSET DOMAIN f /\ \A i \in DOMAIN f \ T : f[i] = 0
  BY <1>1, <1>2
<1>5. g = [i \in T |-> f[i]]
  BY <1>1, <1>2
<1>6. Nets(Book, d, BillableNet, T) = SumOf(g)
  BY DEF Nets, Book
<1>7. V!Sum([i \in S |-> V!PayableNet(records[d][i].body)]) = SumOf(f)
  BY VSum
<1> HIDE DEF f, g
<1>8. IsFiniteSet(DOMAIN f)
  BY <1>1, <1>3
<1>9. SumOf(f) = SumsOf(f)[T] /\ SumsOf(f)[T] \in Int
  BY <1>3, <1>4, <1>8, SumIsOfAll, SumsFacts, SumWithoutZeros
<1>10. SumOf(g) = SumsOf(f)[T]
  BY <1>3, <1>4, <1>5, <1>8, SumOfPart
<1> QED BY <1>6, <1>7, <1>9, <1>10 DEF S, T

\* The verifier adds up what the ledger added up, day by day.
LEMMA AgainIs ==
  ASSUME InvoiceTypes, NEW st, NEW records, V!FromDay(st) = FromDay(Book),
         \A k \in DOMAIN st.days : st.days[k].day \in Days /\ SameAt(records, st.days[k].day)
  PROVE  /\ V!Again(st, records).gross = SumOf([k \in DOMAIN st.days |-> GrossOf[st.days[k].day]])
         /\ V!Again(st, records).advisory = SumOf([k \in DOMAIN st.days |-> AdvisoryOf[st.days[k].day]])
         /\ V!Again(st, records).billable = SumOf([k \in DOMAIN st.days |-> BillableOf[st.days[k].day]])
<1> DEFINE K == DOMAIN st.days
           D(k) == st.days[k].day
<1>1. \A k \in K : /\ V!Pauses(records, D(k), TRUE) = Executed(Book, D(k))
                   /\ V!Pauses(records, D(k), FALSE) = Advised(Book, D(k))
                   /\ V!Proven(records, V!FromDay(st), D(k)) = Audited(Book, D(k))
                   /\ D(k) \in Days /\ records[D(k)] = files[D(k)]
  BY VPicks DEF SameAt
<1>2. V!Again(st, records).gross =
        V!Sum([k \in K |-> V!Sum([i \in V!Pauses(records, D(k), TRUE) |-> V!Net(records[D(k)][i].body)])])
  BY DEF V!Again, V!OverDays
<1>3. V!Again(st, records).advisory =
        V!Sum([k \in K |-> V!Sum([i \in V!Pauses(records, D(k), FALSE) |-> V!Net(records[D(k)][i].body)])])
  BY DEF V!Again, V!OverDays
<1>4. V!Again(st, records).billable =
        V!Sum([k \in K |-> V!Sum([i \in V!Proven(records, V!FromDay(st), D(k)) |->
                                    V!PayableNet(records[D(k)][i].body)])])
  BY DEF V!Again, V!OverDays
<1>5. ASSUME NEW k \in K
      PROVE  /\ V!Sum([i \in V!Pauses(records, D(k), TRUE) |-> V!Net(records[D(k)][i].body)]) = GrossOf[D(k)]
             /\ V!Sum([i \in V!Pauses(records, D(k), FALSE) |-> V!Net(records[D(k)][i].body)]) = AdvisoryOf[D(k)]
             /\ V!Sum([i \in V!Proven(records, V!FromDay(st), D(k)) |-> V!PayableNet(records[D(k)][i].body)])
                  = BillableOf[D(k)]
  <2> DEFINE d == D(k)
  <2>1. /\ V!Pauses(records, d, TRUE) = Executed(Book, d) /\ V!Pauses(records, d, FALSE) = Advised(Book, d)
        /\ V!Proven(records, V!FromDay(st), d) = Audited(Book, d) /\ d \in Days /\ records[d] = files[d]
    BY <1>1
  <2> HIDE DEF d
  <2>2. V!Sum([i \in Executed(Book, d) |-> V!Net(records[d][i].body)]) = Nets(Book, d, ClaimedNet, Executed(Book, d))
    BY <2>1, PicksFacts, NetsOfClaims
  <2>3. V!Sum([i \in Advised(Book, d) |-> V!Net(records[d][i].body)]) = Nets(Book, d, ClaimedNet, Advised(Book, d))
    BY <2>1, PicksFacts, NetsOfClaims
  <2>4. V!Sum([i \in Audited(Book, d) |-> V!PayableNet(records[d][i].body)]) = Nets(Book, d, BillableNet, Billed(Book, d))
    BY <2>1, NetsOfBilled
  <2>5. /\ GrossOf[d] = Nets(Book, d, ClaimedNet, Executed(Book, d))
        /\ AdvisoryOf[d] = Nets(Book, d, ClaimedNet, Advised(Book, d))
        /\ BillableOf[d] = Nets(Book, d, BillableNet, Billed(Book, d))
    BY <2>1 DEF GrossOf, AdvisoryOf, BillableOf
  <2>6. /\ V!Sum([i \in V!Pauses(records, d, TRUE) |-> V!Net(records[d][i].body)]) = GrossOf[d]
        /\ V!Sum([i \in V!Pauses(records, d, FALSE) |-> V!Net(records[d][i].body)]) = AdvisoryOf[d]
        /\ V!Sum([i \in V!Proven(records, V!FromDay(st), d) |-> V!PayableNet(records[d][i].body)]) = BillableOf[d]
    BY <2>1, <2>2, <2>3, <2>4, <2>5
  <2> QED BY <2>6 DEF d
<1> HIDE DEF K
<1>6. /\ V!Again(st, records).gross = V!Sum([k \in K |-> GrossOf[D(k)]])
      /\ V!Again(st, records).advisory = V!Sum([k \in K |-> AdvisoryOf[D(k)]])
      /\ V!Again(st, records).billable = V!Sum([k \in K |-> BillableOf[D(k)]])
  BY <1>2, <1>3, <1>4, <1>5
<1> QED BY <1>6, VSum DEF K

\* The totals of a bill.
LEMMA TotalsAre ==
  ASSUME InvoiceTypes, NEW sealed \in SUBSET DOMAIN seals, \A k \in sealed : seals[k].day \in Days,
         NEW totals, totals = Totals(Book, sealed)
  PROVE  /\ totals.gross = SumOf([k \in sealed |-> GrossOf[seals[k].day]])
         /\ totals.advisory = SumOf([k \in sealed |-> AdvisoryOf[seals[k].day]])
         /\ totals.billable = SumOf([k \in sealed |-> BillableOf[seals[k].day]])
         /\ totals.fee = fee_micro_eur(totals.billable, FeeBp)
         /\ totals.keeps = client_keeps_micro_eur(totals.billable, FeeBp)
         /\ totals = [gross |-> totals.gross, billable |-> totals.billable, advisory |-> totals.advisory,
                      fee |-> totals.fee, keeps |-> totals.keeps]
<1> DEFINE G == SumOf([k \in sealed |-> Nets(Book, seals[k].day, ClaimedNet, Executed(Book, seals[k].day))])
           A == SumOf([k \in sealed |-> Nets(Book, seals[k].day, ClaimedNet, Advised(Book, seals[k].day))])
           B == SumOf([k \in sealed |-> Nets(Book, seals[k].day, BillableNet, Billed(Book, seals[k].day))])
<1>1. totals = [gross |-> G, billable |-> B, advisory |-> A, fee |-> fee_micro_eur(B, FeeBp),
                keeps |-> client_keeps_micro_eur(B, FeeBp)]
  <2>1. Book.seals = seals /\ Book.fee_bp = FeeBp
    BY DEF Book
  <2> QED BY <2>1 DEF Totals
<1>2. G = SumOf([k \in sealed |-> GrossOf[seals[k].day]])
  <2>1. \A k \in sealed : Nets(Book, seals[k].day, ClaimedNet, Executed(Book, seals[k].day)) = GrossOf[seals[k].day]
    BY DEF GrossOf
  <2>2. [k \in sealed |-> Nets(Book, seals[k].day, ClaimedNet, Executed(Book, seals[k].day))] =
          [k \in sealed |-> GrossOf[seals[k].day]]
    BY <2>1
  <2> QED BY <2>2
<1>3. A = SumOf([k \in sealed |-> AdvisoryOf[seals[k].day]])
  <2>1. \A k \in sealed : Nets(Book, seals[k].day, ClaimedNet, Advised(Book, seals[k].day)) = AdvisoryOf[seals[k].day]
    BY DEF AdvisoryOf
  <2>2. [k \in sealed |-> Nets(Book, seals[k].day, ClaimedNet, Advised(Book, seals[k].day))] =
          [k \in sealed |-> AdvisoryOf[seals[k].day]]
    BY <2>1
  <2> QED BY <2>2
<1>4. B = SumOf([k \in sealed |-> BillableOf[seals[k].day]])
  <2>1. \A k \in sealed : Nets(Book, seals[k].day, BillableNet, Billed(Book, seals[k].day)) = BillableOf[seals[k].day]
    BY DEF BillableOf
  <2>2. [k \in sealed |-> Nets(Book, seals[k].day, BillableNet, Billed(Book, seals[k].day))] =
          [k \in sealed |-> BillableOf[seals[k].day]]
    BY <2>1
  <2> QED BY <2>2
<1> HIDE DEF G, A, B
<1>5. /\ totals.gross = G /\ totals.billable = B /\ totals.advisory = A /\ totals.fee = fee_micro_eur(B, FeeBp)
      /\ totals.keeps = client_keeps_micro_eur(B, FeeBp)
  BY <1>1
<1> QED BY <1>1, <1>2, <1>3, <1>4, <1>5

\* The amounts of a day are whole numbers.
LEMMA AmountsAreIntegers ==
  ASSUME InvoiceTypes, NEW d \in Days
  PROVE  GrossOf[d] \in Int /\ AdvisoryOf[d] \in Int /\ BillableOf[d] \in Int
<1>1. /\ Nets(Book, d, ClaimedNet, Executed(Book, d)) \in Int
      /\ Nets(Book, d, ClaimedNet, Advised(Book, d)) \in Int
      /\ Nets(Book, d, BillableNet, Billed(Book, d)) \in Int
  <2>1. files[d] = files[d] /\ Executed(Book, d) \in SUBSET DOMAIN files[d] /\ Advised(Book, d) \in SUBSET DOMAIN files[d]
    BY PicksFacts
  <2> QED BY <2>1, NetsOfClaims, NetsOfBilled
<1> QED BY <1>1 DEF GrossOf, AdvisoryOf, BillableOf

-----------------------------------------------------------------------------
(* What a bill that passes was made of.                                    *)

\* Records are changed only on days of the month that have some.
LEMMA CopyOutside ==
  ASSUME InvoiceTypes, NEW records \in ChangedRecords(files), NEW d \in Days, d \notin Month \/ files[d] = <<>>
  PROVE  records[d] = files[d]
<1>0. DOMAIN files = Days /\ Month \subseteq Days /\ (files[d] = <<>> => DOMAIN files[d] = {})
  BY MonthFacts, FileFacts DEF InvoiceTypes
<1>1. CASE \E p \in Lines(files) :
             records = [files EXCEPT ![p[1]][p[2]] = Retyped(@, 2 * @.body.claimed_wh + 1)]
  <2>1. PICK p \in Lines(files) :
             records = [files EXCEPT ![p[1]][p[2]] = Retyped(@, 2 * @.body.claimed_wh + 1)]
    BY <1>1
  <2>2. p[1] \in Month /\ p[2] \in DOMAIN files[p[1]]
    BY DEF Lines
  <2> QED BY <1>0, <2>1, <2>2
<1>2. CASE \E e \in Month : files[e] # <<>> /\ records = [files EXCEPT ![e] = Front(@)]
  BY <1>0, <1>2
<1>3. CASE \E e \in Month : files[e] # <<>> /\ records = [files EXCEPT ![e] = Append(@, Last(@))]
  BY <1>0, <1>3
<1> QED BY <1>1, <1>2, <1>3 DEF ChangedRecords

\* The entries of a statement, its totals, and the copy it comes with.
LEMMA StatementDays ==
  ASSUME IInv, statement # Null
  PROVE  /\ statement.fee_bp = FeeBp
         /\ \/ statement.days = Bill.days
            \/ statement.days = LastRepeated(Bill.days)
            \/ \E k \in BilledSeals : statement.days = Without(Bill.days, k) /\ statement.totals = Bill.totals
         /\ DOMAIN copy = Days
         /\ copy = files \/ (statement = Bill /\ copy \in ChangedRecords(files))
<1>0. InvoiceTypes /\ HandedOut
  BY DEF IInv
<1>1. /\ Bill.fee_bp = FeeBp /\ DOMAIN Bill.days = BilledSeals
      /\ {"fee_bp", "days", "totals", "uncommitted", "proofs"} \subseteq DOMAIN Bill
  <2>1. {"fee_bp", "days", "totals", "uncommitted", "proofs"} \subseteq DOMAIN BillBody
    BY BillBodyIs
  <2> QED BY <2>1, BillFacts
<1>2. statement = Bill \/ statement \in ChangedStatements(Bill, files)
  BY <1>0 DEF HandedOut
<1> DEFINE Goal == /\ statement.fee_bp = FeeBp
                   /\ \/ statement.days = Bill.days
                      \/ statement.days = LastRepeated(Bill.days)
                      \/ \E k \in BilledSeals : statement.days = Without(Bill.days, k) /\ statement.totals = Bill.totals
<1>3. CASE statement = Bill
  BY <1>0, <1>1, <1>3, ChangedFiles DEF HandedOut, InvoiceTypes
<1>4. CASE statement \in ChangedStatements(Bill, files)
  <2>1. ASSUME NEW more, NEW fee, statement = Retotalled(Bill, more, fee) PROVE Goal
    BY <1>1, <2>1 DEF Retotalled
  <2>2. statement = Surcharged(Bill) => Goal
    BY <1>1 DEF Surcharged
  <2>3. statement = EntryRepeated(Bill) => Goal
    BY <1>1 DEF EntryRepeated
  <2>4. statement = Miscounted(Bill) => Goal
    BY <1>1 DEF Miscounted
  <2>5. ASSUME NEW k \in DOMAIN Bill.days, statement = EntryLeftOut(Bill, k) PROVE Goal
    BY <1>1, <2>5 DEF EntryLeftOut
  <2>6. ASSUME NEW j, statement = TreeEnlarged(Bill, j) PROVE Goal
    BY <1>1, <2>6 DEF TreeEnlarged
  <2>7. ASSUME NEW j, NEW line, statement = ShownFor(Bill, j, line) PROVE Goal
    BY <1>1, <2>7 DEF ShownFor
  <2> HIDE DEF Goal
  <2>8. Goal
    BY <1>4, <2>1, <2>2, <2>3, <2>4, <2>5, <2>6, <2>7, BillChanges
  <2>9. copy = files \/ statement = Bill
    BY <1>0 DEF HandedOut
  <2>10. DOMAIN copy = Days /\ (copy = files \/ (statement = Bill /\ copy \in ChangedRecords(files)))
    BY <1>0, ChangedFiles DEF HandedOut, InvoiceTypes
  <2> QED BY <2>8, <2>10 DEF Goal
<1> QED BY <1>2, <1>3, <1>4

\* The entries of a statement are kept by positions.
LEMMA StatementKeys ==
  ASSUME IInv, statement # Null
  PROVE  /\ DOMAIN statement.days \in SUBSET Int /\ IsFiniteSet(BilledSeals)
         /\ BilledSeals \in SUBSET (1..Len(seals)) /\ Len(seals) \in Nat
<1>0. SealsInv /\ BilledSeals # {}
  BY DEF IInv, HandedOut
<1> DEFINE n == Len(seals)
           last == Max(BilledSeals)
<1>1. BilledSeals \in SUBSET (1..n) /\ n \in Nat
  BY <1>0, ListFacts DEF SealsInv, BilledSeals, Sealed, Book
<1> HIDE DEF n
<1>2. IsFiniteSet(BilledSeals)
  <2>1. IsFiniteSet(1..n)
    BY <1>1, FS_Interval
  <2> QED BY <1>1, <2>1, FS_Subset
<1>3. last \in BilledSeals
  <2>1. n \in Int /\ 1 \in Int
    BY <1>1
  <2> QED BY <1>0, <1>1, <2>1, IntervalEnds
<1>4. DOMAIN Bill.days = BilledSeals
  BY BillFacts
<1>5. DOMAIN LastRepeated(Bill.days) = BilledSeals \cup {last + 1}
  <2> DEFINE days == Bill.days
  <2>1. DOMAIN days = BilledSeals
    BY <1>4
  <2> HIDE DEF days
  <2>2. DOMAIN LastRepeated(days) = BilledSeals \cup {last + 1}
    BY <2>1 DEF LastRepeated
  <2> QED BY <2>2 DEF days
<1> HIDE DEF last
<1>6. \A k : DOMAIN Without(Bill.days, k) \subseteq BilledSeals
  BY <1>4 DEF Without
<1>7. DOMAIN statement.days \subseteq Int
  <2>1. last \in Int /\ BilledSeals \subseteq Int
    BY <1>1, <1>3
  <2>2. last + 1 \in Int
    BY <2>1
  <2>3. \/ statement.days = Bill.days \/ statement.days = LastRepeated(Bill.days)
        \/ \E k \in BilledSeals : statement.days = Without(Bill.days, k)
    BY StatementDays
  <2> QED BY <1>4, <1>5, <1>6, <2>1, <2>2, <2>3
<1> QED BY <1>1, <1>2, <1>7 DEF n

\* The days of a statement whose checks all pass are those of the ledger.
LEMMA AcceptedDays ==
  ASSUME IInv, statement # Null, FailuresFor(FALSE) = {}, NEW k \in DOMAIN statement.days
  PROVE  /\ statement.days[k].day \in Days /\ copy[statement.days[k].day] = files[statement.days[k].day]
         /\ copy[statement.days[k].day] # <<>> /\ V!ChainsTo(statement, k, copy)
<1>0. SealsInv /\ InvoiceTypes /\ FilesInv /\ HandedOut
  BY DEF IInv
<1> DEFINE entry == statement.days[k]
           d == entry.day
           lines == copy[d]
           F == V!DayFails(statement, k, copy, Reader(FALSE))
<1>1. PICK m \in BilledSeals : entry = DayEntry(Book, seals[m])
  BY StatementFacts
<1>2. /\ m \in DOMAIN seals /\ d = seals[m].day /\ entry.merkle_root = seals[m].merkle_root
      /\ entry.leaf_count = seals[m].leaf_count
  BY <1>0, <1>1, EntryFacts
<1>3. d \in Days /\ files[d] # <<>>
  BY <1>0, <1>2, SealOfDayFacts
<1>4. entry.merkle_root = merkle_root(leaves(files[d])) /\ entry.leaf_count = Len(files[d])
  BY <1>0, <1>2, SealSaysOfDay
<1>5. F = {}
  BY DEF FailuresFor, V!Failures
<1>6. lines # <<>>
  <2> SUFFICES ASSUME lines = <<>> PROVE F = {"records present"}
    BY <1>5
  <2> QED BY DEF V!DayFails
<1>7. V!ChainsTo(statement, k, copy)
  <2>1. V!Unless(V!ChainsTo(statement, k, copy), "chains to the previous sealed day") \subseteq F
    BY <1>6 DEF V!DayFails
  <2> HIDE DEF F
  <2> QED BY <1>5, <2>1 DEF V!Unless
<1>8. copy = files \/ copy \in ChangedRecords(files)
  BY <1>0 DEF HandedOut
<1>9. IsList(lines)
  BY <1>0, <1>3, <1>8, CopyCases, FileFacts
<1>10. Len(lines) = entry.leaf_count /\ merkle_root(leaves(lines)) = entry.merkle_root
  <2>1. F \ {"chains to the previous sealed day"} = {}
    BY <1>5
  <2>2. lines = copy[statement.days[k].day]
    OBVIOUS
  <2> HIDE DEF lines
  <2>3. V!DayFails(statement, k, copy, Reader(FALSE)) \ {"chains to the previous sealed day"} = {}
    BY <2>1
  <2> QED BY <1>6, <1>9, <2>2, <2>3, TheirsNeeds
<1>11. lines = files[d]
  BY <1>0, <1>3, <1>4, <1>8, <1>10, CopyCases, RetypedRoot
<1> QED BY <1>3, <1>6, <1>7, <1>11

\* The records before a day of the statement are those of the ledger too.
LEMMA AcceptedSame ==
  ASSUME IInv, statement # Null, FailuresFor(FALSE) = {}, NEW k \in DOMAIN statement.days
  PROVE  SameAt(copy, statement.days[k].day)
<1>0. SealsInv /\ InvoiceTypes /\ FilesInv /\ HandedOut
  BY DEF IInv
<1> DEFINE d == statement.days[k].day
<1>1. d \in Days /\ copy[d] = files[d] /\ DOMAIN copy = Days
  BY AcceptedDays, StatementDays
<1>2. PICK m \in BilledSeals : statement.days[k] = DayEntry(Book, seals[m])
  BY StatementFacts
<1>3. m \in DOMAIN seals /\ d = seals[m].day
  BY <1>0, <1>2, EntryFacts
<1>4. ASSUME d - 1 \in Days, copy[d - 1] # files[d - 1] PROVE FALSE
  <2> DEFINE e == d - 1
  <2>1. statement = Bill /\ copy \in ChangedRecords(files)
    BY <1>4, StatementDays
  <2>2. e \in Month /\ files[e] # <<>>
    BY <1>0, <1>4, <2>1, CopyOutside
  <2>3. e \in Written /\ e < seals[m].day
    <3>1. d \in Int
      BY <1>1, MonthFacts
    <3> HIDE DEF d
    <3>2. d - 1 < d
      BY <3>1
    <3> QED BY <1>3, <1>4, <2>2, <3>2 DEF Written
  <2> HIDE DEF e, d
  <2>4. e \in SealedDays
    BY <1>0, <1>3, <2>3 DEF SealsInv, SealedFirst
  <2>5. PICK j \in DOMAIN seals : seals[j].day = e
    BY <2>4 DEF SealedDays
  <2>6. j \in BilledSeals
    BY <2>2, <2>5 DEF BilledSeals, Sealed, Book
  <2>7. j \in DOMAIN statement.days /\ statement.days[j] = DayEntry(Book, seals[j])
    BY <2>1, <2>6, BillFacts
  <2>8. statement.days[j].day = e
    BY <1>0, <2>5, <2>6, <2>7, EntryFacts
  <2>9. copy[e] = files[e]
    BY <2>7, <2>8, AcceptedDays
  <2> QED BY <1>4, <2>9 DEF e, d
<1> QED BY <1>1, <1>4 DEF SameAt

\* A seal that is repeated does not chain to itself.
LEMMA Unchained ==
  ASSUME IInv, statement # Null, NEW j \in DOMAIN statement.days, NEW k \in DOMAIN statement.days, j < k,
         \A m \in DOMAIN statement.days : m < k => m <= j,
         statement.days[j] = statement.days[k], copy[statement.days[j].day] # <<>>
  PROVE  ~ V!ChainsTo(statement, k, copy)
<1> DEFINE before == {m \in DOMAIN statement.days : m < k /\ copy[statement.days[m].day] # <<>>}
           last == V!Max(before)
<1>1. before \in SUBSET Int /\ j \in before /\ \A m \in before : m <= j
  BY StatementKeys
<1>2. last = j
  <2> HIDE DEF before
  <2>1. last = CHOOSE x \in before : \A y \in before : x >= y
    BY DEF V!Max
  <2>2. last \in before /\ \A y \in before : last >= y
    <3>1. \A y \in before : j >= y
      BY <1>1
    <3> HIDE DEF last
    <3> QED BY <1>1, <2>1, <3>1
  <2> HIDE DEF last
  <2>3. last \in Int /\ j \in Int /\ last <= j /\ j <= last
    BY <1>1, <2>2
  <2> QED BY <2>3
<1>3. V!ChainsTo(statement, k, copy) <=>
        before = {} \/ statement.days[k].prev_seal = statement.days[last].seal_hash
  BY DEF V!ChainsTo
<1>4. PICK m \in BilledSeals : statement.days[k] = DayEntry(Book, seals[m])
  BY StatementFacts
<1>5. statement.days[k].prev_seal # statement.days[k].seal_hash
  <2>0. SealsInv /\ InvoiceTypes
    BY DEF IInv
  <2>1. /\ m \in DOMAIN seals /\ statement.days[k].prev_seal = seals[m].prev_seal
        /\ statement.days[k].seal_hash = seals[m].seal_hash
    BY <1>4, <2>0, EntryFacts
  <2> QED BY <2>0, <2>1, SealOfDayFacts
<1> HIDE DEF before, last
<1> QED BY <1>1, <1>2, <1>3, <1>5

-----------------------------------------------------------------------------
(* An accepted bill is supported.                                          *)

\* A second seal of a day comes right after the first, and is the same unless it chains to it.
LEMMA Twins ==
  ASSUME SealsInv, InvoiceTypes, ~ Rechained, NEW k \in BilledSeals, k \notin SealedOnce
  PROVE  k - 1 \in BilledSeals /\ seals[k - 1] = seals[k]
<1>1. k \in DOMAIN seals /\ seals[k].day \in Month
  BY DEF BilledSeals, Sealed, Book
<1>2. DOMAIN seals = 1..Len(seals) /\ Len(seals) \in Nat
  BY ListFacts DEF SealsInv
<1>3. PICK j \in 1..(k - 1) : seals[j].day = seals[k].day
  BY <1>1 DEF SealedOnce
<1>4. j \in DOMAIN seals /\ j < k /\ j \in Int /\ k \in Int
  BY <1>1, <1>2
<1>5. seals[k].day \in Int
  BY <1>1, SealOfDayFacts
<1>6. k = j + 1 /\ seals[j] = seals[k]
  BY <1>1, <1>3, <1>4, <1>5 DEF SealsInv, SealsRise, SealedTwice, Rechained
<1>7. j = k - 1
  BY <1>4, <1>6
<1> QED BY <1>1, <1>4, <1>6, <1>7 DEF BilledSeals, Sealed, Book

\* A repeated seal whose repetition is billed as well: the statement is not accepted.
LEMMA TwinsAreCaught ==
  ASSUME IInv, statement # Null, FailuresFor(FALSE) = {},
         NEW j \in DOMAIN statement.days, NEW k \in DOMAIN statement.days, k = j + 1,
         statement.days[j] = statement.days[k]
  PROVE  FALSE
<1>1. DOMAIN statement.days \subseteq Int
  BY StatementKeys
<1>2. j < k /\ \A m \in DOMAIN statement.days : m < k => m <= j
  BY <1>1
<1>3. copy[statement.days[j].day] # <<>> /\ V!ChainsTo(statement, k, copy)
  BY AcceptedDays
<1> QED BY <1>2, <1>3, Unchained

\* An entry repeated at the end does not chain.
LEMMA RepeatedIsCaught ==
  ASSUME IInv, statement # Null, FailuresFor(FALSE) = {}, statement.days = LastRepeated(Bill.days)
  PROVE  FALSE
<1> DEFINE days == Bill.days
           last == Max(BilledSeals)
           n == Len(seals)
<1>1. BilledSeals \in SUBSET (1..n) /\ n \in Int /\ 1 \in Int /\ BilledSeals # {}
  BY StatementKeys DEF IInv, HandedOut
<1>2. DOMAIN days = BilledSeals
  BY BillFacts
<1> HIDE DEF days, n
<1>3. last \in BilledSeals /\ \A m \in BilledSeals : m <= last
  BY <1>1, IntervalEnds
<1>4. statement.days = [j \in BilledSeals \cup {last + 1} |-> IF j > last THEN days[last] ELSE days[j]]
  BY <1>2 DEF LastRepeated, days
<1> HIDE DEF last
<1>5. last \in Int /\ last + 1 > last /\ ~ (last > last)
  BY <1>1, <1>3
<1>6. last \in DOMAIN statement.days /\ last + 1 \in DOMAIN statement.days
      /\ statement.days[last] = days[last] /\ statement.days[last + 1] = days[last]
  BY <1>3, <1>4, <1>5
<1> QED BY <1>6, TwinsAreCaught

\* The amounts of a day, added up over entries and over seals of the same days.
LEMMA SumsOverDays ==
  ASSUME IInv, statement # Null, NEW amount, \A d \in Days : amount[d] \in Int,
         NEW K \in SUBSET DOMAIN statement.days, K \subseteq BilledSeals,
         \A k \in K : statement.days[k] = Bill.days[k]
  PROVE  SumOf([k \in K |-> amount[statement.days[k].day]]) = SumOf([k \in K |-> amount[seals[k].day]])
<1>1. \A k \in K : statement.days[k].day = seals[k].day
  <2> SUFFICES ASSUME NEW k \in K PROVE statement.days[k].day = seals[k].day
    OBVIOUS
  <2>0. SealsInv /\ InvoiceTypes
    BY DEF IInv
  <2>1. k \in BilledSeals /\ statement.days[k] = DayEntry(Book, seals[k])
    BY BillFacts
  <2> QED BY <2>0, <2>1, EntryFacts
<1>2. [k \in K |-> amount[statement.days[k].day]] = [k \in K |-> amount[seals[k].day]]
  BY <1>1
<1> QED BY <1>2

\* Leaving out the one or the other of two equal seals leaves the same sum.
LEMMA EitherTwin ==
  ASSUME NEW f, IsFiniteSet(DOMAIN f), \A x \in DOMAIN f : f[x] \in Int,
         NEW a \in DOMAIN f, NEW b \in DOMAIN f, f[a] = f[b]
  PROVE  SumOf([x \in DOMAIN f \ {a} |-> f[x]]) = SumOf([x \in DOMAIN f \ {b} |-> f[x]])
<1> DEFINE S == DOMAIN f
           F == SumsOf(f)
<1>1. /\ \A s \in SUBSET S : F[s] \in Int
      /\ \A s \in SUBSET S : \A x \in s : F[s] = f[x] + F[s \ {x}]
  BY SumsFacts
<1>2. SumOf([x \in S \ {a} |-> f[x]]) = F[S \ {a}] /\ SumOf([x \in S \ {b} |-> f[x]]) = F[S \ {b}]
  <2>1. S \ {a} \in SUBSET DOMAIN f /\ S \ {b} \in SUBSET DOMAIN f
    OBVIOUS
  <2> QED BY <2>1, SumOfPart
<1> HIDE DEF F
<1>3. F[S] = f[a] + F[S \ {a}] /\ F[S] = f[b] + F[S \ {b}] /\ f[a] \in Int
      /\ F[S \ {a}] \in Int /\ F[S \ {b}] \in Int
  BY <1>1
<1>4. f[a] = f[b]
  OBVIOUS
<1>5. F[S \ {a}] = F[S \ {b}]
  <2> HIDE DEF S
  <2> QED BY ONLY <1>3, <1>4
<1> QED BY <1>2, <1>5

\* The verifier's sum over the entries is the sum over the first seals of the billed days, or
\* the totals of the bill are those and nobody retyped them.
LEMMA AcceptedSums ==
  ASSUME IInv, statement # Null, ~ Rechained, FailuresFor(FALSE) = {}
  PROVE  \/ BilledSeals \cap SealedOnce = BilledSeals /\ statement.totals = Bill.totals
         \/ \A amount : (\A d \in Days : amount[d] \in Int) =>
              SumOf([k \in DOMAIN statement.days |-> amount[statement.days[k].day]])
              = SumOf([k \in BilledSeals \cap SealedOnce |-> amount[seals[k].day]])
<1>0. SealsInv /\ InvoiceTypes
  BY DEF IInv
<1>a. Bill.days = [k \in BilledSeals |-> DayEntry(Book, seals[k])] /\ DOMAIN Bill.days = BilledSeals
  BY BillFacts
<1>b. BilledSeals \in SUBSET Int /\ IsFiniteSet(BilledSeals)
  BY StatementKeys
<1>c. \A k \in BilledSeals : k \in DOMAIN seals /\ seals[k].day \in Days
  BY <1>0, SealOfDayFacts DEF BilledSeals, Sealed, Book
<1> DEFINE Once == BilledSeals \cap SealedOnce
<1>1. CASE statement.days = Bill.days
  <2>1. Once = BilledSeals
    <3> SUFFICES ASSUME NEW k \in BilledSeals, k \notin SealedOnce PROVE FALSE
      OBVIOUS
    <3>1. k - 1 \in BilledSeals /\ seals[k - 1] = seals[k]
      BY <1>0, Twins
    <3>2. statement.days[k - 1] = statement.days[k] /\ k = (k - 1) + 1
      BY <1>1, <1>a, <1>b, <3>1
    <3> QED BY <1>1, <1>a, <3>1, <3>2, TwinsAreCaught
  <2>2. ASSUME NEW amount, \A d \in Days : amount[d] \in Int
        PROVE  SumOf([k \in DOMAIN statement.days |-> amount[statement.days[k].day]])
               = SumOf([k \in Once |-> amount[seals[k].day]])
    <3> DEFINE K == DOMAIN statement.days
    <3>1. K = BilledSeals /\ \A k \in K : statement.days[k] = Bill.days[k]
      BY <1>1, <1>a
    <3> HIDE DEF K
    <3>2. SumOf([k \in K |-> amount[statement.days[k].day]]) = SumOf([k \in K |-> amount[seals[k].day]])
      BY <2>2, <3>1, SumsOverDays DEF K
    <3> QED BY <2>1, <3>1, <3>2 DEF K
  <2> HIDE DEF Once
  <2> QED BY <2>2 DEF Once
<1>2. CASE statement.days = LastRepeated(Bill.days)
  BY <1>2, RepeatedIsCaught
<1>3. CASE \E k \in BilledSeals : statement.days = Without(Bill.days, k) /\ statement.totals = Bill.totals
  <2>1. PICK out \in BilledSeals : statement.days = Without(Bill.days, out) /\ statement.totals = Bill.totals
    BY <1>3
  <2> DEFINE K == BilledSeals \ {out}
  <2>2. DOMAIN statement.days = K /\ \A k \in K : statement.days[k] = Bill.days[k]
    BY <1>a, <2>1 DEF Without
  <2>3. CASE Once = BilledSeals
    BY <2>1, <2>3
  <2>4. CASE Once # BilledSeals
    <3>1. PICK k \in BilledSeals : k \notin SealedOnce
      BY <2>4
    <3>2. \A m \in BilledSeals : m \notin SealedOnce =>
            m - 1 \in BilledSeals /\ seals[m - 1] = seals[m] /\ (out = m \/ out = m - 1)
      <4> SUFFICES ASSUME NEW m \in BilledSeals, m \notin SealedOnce
                   PROVE  m - 1 \in BilledSeals /\ seals[m - 1] = seals[m] /\ (out = m \/ out = m - 1)
        OBVIOUS
      <4>1. m - 1 \in BilledSeals /\ seals[m - 1] = seals[m]
        BY <1>0, Twins
      <4>2. ASSUME out # m, out # m - 1 PROVE FALSE
        <5>1. m \in K /\ m - 1 \in K /\ m = (m - 1) + 1
          BY <1>b, <4>1, <4>2
        <5>2. statement.days[m - 1] = statement.days[m]
          BY <1>a, <2>2, <4>1, <5>1
        <5> QED BY <2>2, <5>1, <5>2, TwinsAreCaught
      <4> QED BY <4>1, <4>2
    <3>3. Once = BilledSeals \ {k}
      <4> SUFFICES ASSUME NEW m \in BilledSeals, m \notin SealedOnce, m # k PROVE FALSE
        BY <3>1
      <4>1. m \in Int /\ k \in Int /\ out \in Int
        BY <1>b
      <4>2. /\ m - 1 \in BilledSeals /\ seals[m - 1] = seals[m] /\ (out = m \/ out = m - 1)
            /\ k - 1 \in BilledSeals /\ seals[k - 1] = seals[k] /\ (out = k \/ out = k - 1)
        BY <3>1, <3>2
      <4>3. m = k - 1 \/ k = m - 1
        BY <4>1, <4>2
      <4>4. \A a, b \in BilledSeals : b = a + 2 => seals[a].day # seals[b].day
        <5> SUFFICES ASSUME NEW a \in BilledSeals, NEW b \in BilledSeals, b = a + 2 PROVE seals[a].day # seals[b].day
          OBVIOUS
        <5>1. a \in Int /\ b \in Int /\ a < b /\ ~ (b = a + 1)
          BY <1>b
        <5>2. seals[a].day < seals[b].day
          BY <1>0, <1>c, <5>1 DEF SealsInv, SealsRise, SealedTwice
        <5>3. seals[a].day \in Int /\ seals[b].day \in Int
          BY <1>0, <1>c, SealOfDayFacts
        <5> QED BY <5>2, <5>3
      <4>5. CASE m = k - 1
        <5>1. k = (m - 1) + 2 /\ seals[m - 1] = seals[k]
          BY <4>1, <4>2, <4>5
        <5> QED BY <4>2, <4>4, <5>1
      <4>6. CASE k = m - 1
        <5>1. m = (k - 1) + 2 /\ seals[k - 1] = seals[m]
          BY <4>1, <4>2, <4>6
        <5> QED BY <4>2, <4>4, <5>1
      <4> QED BY <4>3, <4>5, <4>6
    <3>4. /\ seals[k - 1] = seals[k] /\ (out = k \/ out = k - 1) /\ k - 1 \in BilledSeals
      BY <3>1, <3>2
    <3>5. ASSUME NEW amount, \A d \in Days : amount[d] \in Int
          PROVE  SumOf([m \in DOMAIN statement.days |-> amount[statement.days[m].day]])
                 = SumOf([m \in Once |-> amount[seals[m].day]])
      <4>1. SumOf([m \in K |-> amount[statement.days[m].day]]) = SumOf([m \in K |-> amount[seals[m].day]])
        BY <2>2, <3>5, SumsOverDays
      <4> DEFINE f == [m \in BilledSeals |-> amount[seals[m].day]]
      <4>2. DOMAIN f = BilledSeals /\ \A m \in BilledSeals : f[m] \in Int /\ f[m] = amount[seals[m].day]
        BY <1>c, <3>5
      <4>3. f[out] = f[k]
        BY <3>1, <3>4, <4>2
      <4> HIDE DEF f
      <4>4. SumOf([m \in BilledSeals \ {out} |-> f[m]]) = SumOf([m \in BilledSeals \ {k} |-> f[m]])
        <5>1. IsFiniteSet(DOMAIN f) /\ (\A m \in DOMAIN f : f[m] \in Int) /\ out \in DOMAIN f /\ k \in DOMAIN f
          BY <1>b, <2>1, <3>1, <4>2
        <5>2. SumOf([m \in DOMAIN f \ {out} |-> f[m]]) = SumOf([m \in DOMAIN f \ {k} |-> f[m]])
          BY ONLY <4>3, <5>1, EitherTwin
        <5> QED BY <4>2, <5>2
      <4>5. /\ [m \in BilledSeals \ {out} |-> f[m]] = [m \in K |-> amount[seals[m].day]]
            /\ [m \in BilledSeals \ {k} |-> f[m]] = [m \in BilledSeals \ {k} |-> amount[seals[m].day]]
        BY <4>2
      <4> HIDE DEF K, Once
      <4> QED BY <2>2, <3>3, <4>1, <4>4, <4>5
    <3> HIDE DEF Once
    <3> QED BY <3>5 DEF Once
  <2> QED BY <2>3, <2>4
<1> QED BY <1>1, <1>2, <1>3, StatementDays

\* The fee, which both programs round down, and what it leaves.
LEMMA VFee ==
  ASSUME NEW billable \in Int
  PROVE  /\ V!FeeOf(billable, FeeBp) = fee_micro_eur(billable, FeeBp) /\ fee_micro_eur(billable, FeeBp) \in Int
         /\ client_keeps_micro_eur(billable, FeeBp) = billable - fee_micro_eur(billable, FeeBp)
<1> DEFINE x == billable * FeeBp
           share == x \div 10000
<1>1. share \in Int
  <2>1. x \in Int
    BY InvoiceAmounts
  <2> HIDE DEF x
  <2> QED BY <2>1, FloorBelow
<1>2. V!FeeOf(billable, FeeBp) = IF billable > 0 THEN share ELSE 0
  BY DEF V!FeeOf
<1>3. fee_micro_eur(billable, FeeBp) = IF billable <= 0 THEN 0 ELSE share
  BY DEF fee_micro_eur, FeeBase
<1>4. client_keeps_micro_eur(billable, FeeBp) =
        IF billable <= 0 THEN billable ELSE billable - fee_micro_eur(billable, FeeBp)
  BY DEF client_keeps_micro_eur
<1> HIDE DEF x, share
<1> QED BY <1>1, <1>2, <1>3, <1>4

\* The totals of a statement are five amounts, those of the bill being whole numbers.
LEMMA BillTotals ==
  ASSUME IInv, BilledSeals # {}
  PROVE  /\ Bill.totals = [gross |-> Bill.totals.gross, billable |-> Bill.totals.billable,
                           advisory |-> Bill.totals.advisory, fee |-> Bill.totals.fee,
                           keeps |-> Bill.totals.keeps]
         /\ Bill.totals.gross = SumOf([k \in BilledSeals |-> GrossOf[seals[k].day]])
         /\ Bill.totals.advisory = SumOf([k \in BilledSeals |-> AdvisoryOf[seals[k].day]])
         /\ Bill.totals.billable = SumOf([k \in BilledSeals |-> BillableOf[seals[k].day]])
         /\ Bill.totals.gross \in Int /\ Bill.totals.billable \in Int /\ Bill.totals.advisory \in Int
         /\ Bill.totals.fee = fee_micro_eur(Bill.totals.billable, FeeBp) /\ Bill.totals.fee \in Int
         /\ Bill.totals.keeps = Bill.totals.billable - Bill.totals.fee /\ Bill.totals.keeps \in Int
<1>0. SealsInv /\ InvoiceTypes
  BY DEF IInv
<1>1. BilledSeals \in SUBSET DOMAIN seals /\ \A k \in BilledSeals : seals[k].day \in Days
  BY <1>0, SealOfDayFacts DEF BilledSeals, Sealed, Book
<1>2. IsFiniteSet(BilledSeals)
  <2> DEFINE n == Len(seals)
  <2>1. BilledSeals \in SUBSET (1..n) /\ n \in Int /\ 1 \in Int
    BY <1>0, ListFacts DEF SealsInv, BilledSeals, Sealed, Book
  <2> HIDE DEF n
  <2> QED BY <2>1, FS_Interval, FS_Subset
<1> DEFINE totals == Bill.totals
<1>3. totals = Totals(Book, BilledSeals)
  BY BillFacts
<1> HIDE DEF totals
<1>4. /\ totals.gross = SumOf([k \in BilledSeals |-> GrossOf[seals[k].day]])
      /\ totals.advisory = SumOf([k \in BilledSeals |-> AdvisoryOf[seals[k].day]])
      /\ totals.billable = SumOf([k \in BilledSeals |-> BillableOf[seals[k].day]])
      /\ totals.fee = fee_micro_eur(totals.billable, FeeBp)
      /\ totals.keeps = client_keeps_micro_eur(totals.billable, FeeBp)
      /\ totals = [gross |-> totals.gross, billable |-> totals.billable, advisory |-> totals.advisory,
                   fee |-> totals.fee, keeps |-> totals.keeps]
  BY <1>0, <1>1, <1>3, TotalsAre
<1>5. ASSUME NEW amount, \A d \in Days : amount[d] \in Int
      PROVE  SumOf([k \in BilledSeals |-> amount[seals[k].day]]) \in Int
  <2> DEFINE f == [k \in BilledSeals |-> amount[seals[k].day]]
  <2>1. DOMAIN f = BilledSeals /\ \A k \in BilledSeals : f[k] \in Int
    BY <1>1, <1>5
  <2> HIDE DEF f
  <2>2. SumOf(f) \in Int
    BY <1>2, <2>1, SumIsOfAll, SumsFacts
  <2> QED BY <2>2 DEF f
<1>6. totals.gross \in Int /\ totals.billable \in Int /\ totals.advisory \in Int
  BY <1>0, <1>4, <1>5, AmountsAreIntegers
<1>7. totals.fee \in Int /\ totals.keeps = totals.billable - totals.fee
  BY <1>4, <1>6, VFee
<1>8. totals.keeps \in Int
  BY <1>6, <1>7
<1> QED BY <1>4, <1>6, <1>7, <1>8 DEF totals

\* The totals of a statement are five amounts, changed or not.
LEMMA StatementTotals ==
  ASSUME IInv, statement # Null
  PROVE  /\ statement.totals = [gross |-> statement.totals.gross, billable |-> statement.totals.billable,
                                advisory |-> statement.totals.advisory, fee |-> statement.totals.fee,
                                keeps |-> statement.totals.keeps]
         /\ statement.totals.keeps \in Int
<1>0. HandedOut /\ BilledSeals # {}
  BY DEF IInv, HandedOut
<1> DEFINE old == Bill.totals
           new == statement.totals
           gross == Bill.totals.gross
           advisory == Bill.totals.advisory
           billable == Bill.totals.billable
           f0 == Bill.totals.fee
           k0 == Bill.totals.keeps
<1>1. /\ old = [gross |-> gross, billable |-> billable, advisory |-> advisory, fee |-> f0, keeps |-> k0]
      /\ gross \in Int /\ billable \in Int /\ advisory \in Int /\ f0 \in Int /\ k0 \in Int
  BY <1>0, BillTotals
<1>2. {"days", "totals", "uncommitted", "proofs"} \subseteq DOMAIN Bill
  <2>1. {"days", "totals", "uncommitted", "proofs"} \subseteq DOMAIN BillBody
    BY BillBodyIs
  <2> QED BY <2>1, BillFacts
<1>3. statement = Bill \/ statement \in ChangedStatements(Bill, files)
  BY <1>0 DEF HandedOut
<1> HIDE DEF gross, advisory, billable, f0, k0
<1> DEFINE R(b, f, keeps) ==
             [gross |-> gross, billable |-> b, advisory |-> advisory, fee |-> f, keeps |-> keeps]
           Goal == \E b, f, keeps : keeps \in Int /\ new = R(b, f, keeps)
<1>4. statement = Bill => new = old
  OBVIOUS
<1>b. old = R(billable, f0, k0) /\ k0 \in Int
  BY <1>1
<1> HIDE DEF old, new
<1>c. new = old => Goal
  BY <1>b
<1>5. ASSUME statement \in ChangedStatements(Bill, files) PROVE Goal
  <2>1. ASSUME NEW more, NEW fee, statement = Retotalled(Bill, more, fee), more \in Int, fee \in Int PROVE Goal
    <3>1. new = [old EXCEPT !.billable = more, !.fee = fee, !.keeps = more - fee]
      BY <1>2, <2>1 DEF Retotalled, old, new
    <3>2. new = R(more, fee, more - fee)
      BY <1>b, <3>1
    <3>3. more - fee \in Int
      BY <2>1
    <3> HIDE DEF R
    <3> QED BY <3>2, <3>3
  <2>2. statement = Surcharged(Bill) => Goal
    <3> SUFFICES ASSUME statement = Surcharged(Bill) PROVE Goal
      OBVIOUS
    <3>1. new = [old EXCEPT !.fee = @ + 1, !.keeps = @ - 1]
      BY <1>2 DEF Surcharged, old, new
    <3>2. new = R(billable, f0 + 1, k0 - 1)
      BY <1>b, <3>1
    <3>3. k0 - 1 \in Int
      BY <1>1
    <3> HIDE DEF R
    <3> QED BY <3>2, <3>3
  <2> HIDE DEF Goal
  <2>3. statement = EntryRepeated(Bill) => Goal
    BY <1>c, <1>2 DEF EntryRepeated, old, new
  <2>4. statement = Miscounted(Bill) => Goal
    BY <1>c, <1>2 DEF Miscounted, old, new
  <2>5. ASSUME NEW k \in DOMAIN Bill.days, statement = EntryLeftOut(Bill, k) PROVE Goal
    BY <1>c, <1>2, <2>5 DEF EntryLeftOut, old, new
  <2>6. ASSUME NEW j, statement = TreeEnlarged(Bill, j) PROVE Goal
    BY <1>c, <1>2, <2>6 DEF TreeEnlarged, old, new
  <2>7. ASSUME NEW j, NEW line, statement = ShownFor(Bill, j, line) PROVE Goal
    BY <1>c, <1>2, <2>7 DEF ShownFor, old, new
  <2>8. \A more, fee : more = Bill.totals.billable + 100 /\ fee = fee_micro_eur(more, FeeBp) => more \in Int /\ fee \in Int
    <3>1. billable + 100 \in Int
      BY <1>1
    <3> QED BY <3>1, VFee DEF billable
  <2>9. Goal
    BY <1>5, <2>1, <2>2, <2>3, <2>4, <2>5, <2>6, <2>7, <2>8, BillChanges
  <2> QED BY <2>9 DEF Goal
<1>6. Goal
  <2> HIDE DEF Goal
  <2> QED BY <1>3, <1>4, <1>5, <1>c
<1>7. /\ new = [gross |-> new.gross, billable |-> new.billable, advisory |-> new.advisory, fee |-> new.fee,
               keeps |-> new.keeps]
      /\ new.keeps \in Int
  <2>1. PICK b, f, keeps : keeps \in Int /\ new = R(b, f, keeps)
    BY <1>6
  <2> QED BY <2>1
<1> QED BY <1>7 DEF new

\* AcceptedBillIsSupported of a state.
LEMMA AcceptedBillIsSupportedNow == IInv => AcceptedBillIsSupported
<1> SUFFICES ASSUME IInv, statement # Null, ~ Rechained, FailuresFor(FALSE) = {}
             PROVE  statement.totals = Supported
  BY DEF AcceptedBillIsSupported
<1>0. SealsInv /\ InvoiceTypes /\ BilledSeals # {}
  BY DEF IInv, HandedOut
<1> DEFINE Once == BilledSeals \cap SealedOnce
           S == Supported
           t == statement.totals
           again == V!Again(statement, copy)
<1>1. S = Totals(Book, Once)
  BY DEF Supported, BilledSeals
<1>2. CASE Once = BilledSeals /\ statement.totals = Bill.totals
  BY <1>1, <1>2, BillFacts
<1>3. CASE \A amount : (\A d \in Days : amount[d] \in Int) =>
              SumOf([k \in DOMAIN statement.days |-> amount[statement.days[k].day]])
              = SumOf([k \in Once |-> amount[seals[k].day]])
  <2>1. V!ArithmeticFails(statement) = {} /\ V!RecomputedFails(statement, copy) = {}
    BY DEF FailuresFor, V!Failures
  <2>2. again.gross = t.gross /\ again.billable = t.billable /\ again.advisory = t.advisory
    BY <2>1 DEF V!RecomputedFails, V!Unless
  <2>3. t.fee = V!FeeOf(t.billable, FeeBp) /\ t.fee + t.keeps = t.billable
    BY <2>1, StatementDays DEF V!ArithmeticFails, V!Unless
  <2>4. /\ again.gross = SumOf([k \in DOMAIN statement.days |-> GrossOf[statement.days[k].day]])
        /\ again.advisory = SumOf([k \in DOMAIN statement.days |-> AdvisoryOf[statement.days[k].day]])
        /\ again.billable = SumOf([k \in DOMAIN statement.days |-> BillableOf[statement.days[k].day]])
    <3>1. V!FromDay(statement) = FromDay(Book)
      BY StatementFacts
    <3>2. \A k \in DOMAIN statement.days : statement.days[k].day \in Days /\ SameAt(copy, statement.days[k].day)
      BY AcceptedDays, AcceptedSame
    <3> QED BY <1>0, <3>1, <3>2, AgainIs
  <2>5. Once \in SUBSET DOMAIN seals /\ \A k \in Once : seals[k].day \in Days
    BY <1>0, SealOfDayFacts DEF BilledSeals, Sealed, Book
  <2> HIDE DEF S, t, again, Once
  <2>6. /\ S.gross = SumOf([k \in Once |-> GrossOf[seals[k].day]])
        /\ S.advisory = SumOf([k \in Once |-> AdvisoryOf[seals[k].day]])
        /\ S.billable = SumOf([k \in Once |-> BillableOf[seals[k].day]])
        /\ S.fee = fee_micro_eur(S.billable, FeeBp)
        /\ S.keeps = client_keeps_micro_eur(S.billable, FeeBp)
        /\ S = [gross |-> S.gross, billable |-> S.billable, advisory |-> S.advisory, fee |-> S.fee, keeps |-> S.keeps]
    BY <1>0, <1>1, <2>5, TotalsAre
  <2>7. t.gross = S.gross /\ t.billable = S.billable /\ t.advisory = S.advisory
    BY <1>0, <1>3, <2>2, <2>4, <2>6, AmountsAreIntegers
  <2>8. S.billable \in Int
    <3> DEFINE f == [k \in Once |-> BillableOf[seals[k].day]]
    <3>1. DOMAIN f = Once /\ \A k \in Once : f[k] \in Int
      BY <1>0, <2>5, AmountsAreIntegers
    <3>2. IsFiniteSet(Once)
      BY StatementKeys, FS_Subset DEF Once
    <3>3. S.billable = SumOf(f)
      BY <2>6
    <3> HIDE DEF f
    <3> QED BY <3>1, <3>2, <3>3, SumIsOfAll, SumsFacts
  <2>9. /\ t = [gross |-> t.gross, billable |-> t.billable, advisory |-> t.advisory, fee |-> t.fee, keeps |-> t.keeps]
        /\ t.keeps \in Int
    BY StatementTotals DEF t
  <2>10. t.fee = S.fee /\ S.fee \in Int /\ S.keeps = S.billable - S.fee
    BY <2>3, <2>6, <2>7, <2>8, VFee
  <2>11. t.keeps = S.keeps
    BY <2>3, <2>7, <2>8, <2>9, <2>10
  <2>12. t = S
    BY ONLY <2>6, <2>7, <2>9, <2>10, <2>11
  <2> QED BY <2>12 DEF t, S
<1> QED BY <1>2, <1>3, AcceptedSums

\* AcceptedBillIsSupported: a bill that the independent verifier passes has the totals of
\* the sealed records, each day once, whatever one place of the hand-over was changed and
\* although a day may have been sealed twice, as long as the second seal does not chain to
\* the first (NoDayBilledTwice: then the day is billed twice, and the bill accepted).
THEOREM AcceptedBillsAreSupported == Spec => []AcceptedBillIsSupported
BY InvoiceInvariant, AcceptedBillIsSupportedNow, PTL

-----------------------------------------------------------------------------
(* An honest hand-over.                                                    *)

\* Without a day that has no records between two that have some, the line before a
\* line is where both programs look for it.
LEMMA PredecessorIsPrior ==
  ASSUME InvoiceTypes, ~ Gap, NEW d \in Days, NEW i \in DOMAIN files[d]
  PROVE  Predecessor(files, d, i) = Prior(d, i)
<1>0. DOMAIN files = Days /\ d \in Int /\ files[d] # <<>> /\ i \in 1..Len(files[d])
  BY FileFacts, MonthFacts DEF InvoiceTypes
<1>1. CASE i # 1
  BY <1>0, <1>1 DEF Predecessor, Prior
<1>2. CASE i = 1 /\ Earlier(d) = {}
  <2>1. \A e \in Days : e < d => files[e] = <<>>
    BY <1>2 DEF Earlier, Written
  <2>2. d - 1 \in Days => files[d - 1] = <<>>
    <3>1. d - 1 < d
      BY <1>0
    <3> QED BY <2>1, <3>1
  <2>3. record_before(files, d) = Null
    BY <1>0, <2>2 DEF record_before
  <2> QED BY <1>2, <2>3 DEF Predecessor, Prior
<1>3. CASE i = 1 /\ Earlier(d) # {}
  <2> DEFINE M == Max(Earlier(d))
  <2>1. Earlier(d) \in SUBSET Days
    BY DEF Earlier, Written
  <2>2. M \in Earlier(d) /\ \A e \in Earlier(d) : e <= M
    BY <1>3, <2>1, DaysEnds
  <2> HIDE DEF M
  <2>3. M \in Days /\ M \in Int /\ files[M] # <<>> /\ M < d
    BY <2>2, MonthFacts DEF Earlier, Written
  <2>4. d - 1 \in Days
    <3>1. PICK a, b \in Days : Days = a..b
      BY InvoiceDays
    <3>2. a \in Int /\ b \in Int
      BY MonthFacts
    <3>3. a <= M /\ d <= b /\ a <= d - 1 /\ d - 1 <= b
      BY <1>0, <2>3, <3>1, <3>2
    <3> QED BY <1>0, <3>1, <3>2, <3>3
  <2>5. M = d - 1
    <3> SUFFICES ASSUME M # d - 1 PROVE FALSE
      OBVIOUS
    <3>1. M < d - 1 /\ d - 1 < d
      BY <1>0, <2>3
    <3>2. files[d - 1] # <<>>
      BY <1>0, <2>3, <2>4, <3>1 DEF Gap
    <3>3. d - 1 \in Earlier(d)
      BY <2>4, <3>1, <3>2 DEF Earlier, Written
    <3>4. d - 1 <= M
      BY <2>2, <3>3
    <3> QED BY <1>0, <2>3, <3>1, <3>4
  <2>6. record_before(files, d) = Last(files[M])
    BY <1>0, <2>3, <2>4, <2>5 DEF record_before
  <2> QED BY <1>3, <2>6 DEF Predecessor, Prior, M
<1> QED BY <1>1, <1>2, <1>3

\* Then every reveal reproduces the commitment of the line before it.
LEMMA NothingMismatched ==
  ASSUME InvoiceTypes, FilesInv, ~ Gap, NEW d \in Days, NEW i \in DOMAIN files[d]
  PROVE  StateOf(files, d, i) # MISMATCHED
<1> DEFINE line == files[d][i]
           p == Prior(d, i)
           snapshot == decision_snapshot(line.body)
<1>1. StateOf(files, d, i) = reveal_state(line, p)
  BY PredecessorIsPrior DEF StateOf
<1>2. Linked(line, p)
  BY DEF FilesInv, LinesFollow
<1>3. line.body \in Intervals /\ line.seq \in Nat
  BY BodyFacts
<1> HIDE DEF line, p
<1>4. CASE line.body.reveal = Null
  <2>1. reveal_state(line, p) = UNREVEALED \/ reveal_state(line, p) = LEGACY
    BY <1>4 DEF reveal_state
  <2> QED BY <1>1, <2>1 DEF UNREVEALED, LEGACY, MISMATCHED
<1>5. CASE line.body.reveal # Null
  <2>1. /\ p # Null /\ line.seq = p.seq + 1 /\ line.body.reveal.commit_seq = line.seq - 1
        /\ p.body.commit = commit_hash(snapshot, line.body.reveal.nonce)
    BY <1>2, <1>5 DEF Linked
  <2>2. snapshot \in [DecisionFields -> {"MINE", "PAUSE"} \cup Int] /\ line.body.reveal.nonce \in Nat
    <3> DEFINE o == line.body
    <3>1. o.action \in {"MINE", "PAUSE"} /\ o.price \in Int /\ o.opened \in Int /\ o.reveal \in Reveals
      BY <1>3, <1>5 DEF Intervals
    <3>2. o.reveal.nonce \in Nat
      BY <3>1 DEF Reveals
    <3> HIDE DEF o
    <3>3. \A field \in DecisionFields : o[field] \in {"MINE", "PAUSE"} \cup Int
      BY <3>1, InvoiceFields
    <3> QED BY <3>2, <3>3 DEF decision_snapshot, o
  <2> HIDE DEF snapshot
  <2>3. commit_hash(snapshot, line.body.reveal.nonce) \in Commitments
    <3> DEFINE nonce == line.body.reveal.nonce
    <3>1. nonce \in Nat
      BY <2>2
    <3> HIDE DEF nonce
    <3>2. commit_hash(snapshot, nonce) \in Commitments
      BY <2>2, <3>1 DEF commit_hash, Commitments
    <3> QED BY <3>2 DEF nonce
  <2>4. p.body.commit # Null
    BY <2>1, <2>3, InvoiceNull
  <2>5. p.seq = line.seq - 1
    <3>1. p \in RecordLines
      <4>1. DOMAIN files[d] = 1..Len(files[d]) /\ Len(files[d]) \in Nat
        BY FileFacts
      <4>2. CASE i > 1
        <5>1. i - 1 \in DOMAIN files[d]
          BY <4>1, <4>2
        <5> QED BY <4>2, <5>1, FileFacts DEF p, Prior
      <4>3. CASE ~ (i > 1)
        <5>1. Earlier(d) # {} /\ p = Last(files[Max(Earlier(d))])
          BY <2>1, <4>3 DEF p, Prior
        <5>2. Earlier(d) \in SUBSET Days
          BY DEF Earlier, Written
        <5> DEFINE M == Max(Earlier(d))
        <5>3. M \in Earlier(d)
          BY <5>1, <5>2, DaysEnds
        <5> HIDE DEF M
        <5>4. M \in Days /\ files[M] # <<>>
          BY <5>3 DEF Earlier, Written
        <5>5. Last(files[M]) \in RecordLines
          BY <5>4, FileFacts
        <5> QED BY <5>1, <5>5 DEF M
      <4> QED BY <4>2, <4>3
    <3>2. p.seq \in Nat
      BY <3>1 DEF RecordLines
    <3> QED BY <1>3, <2>1, <3>2
  <2>6. reveal_state(line, p) = REVEALED
    BY <1>5, <2>1, <2>4, <2>5 DEF reveal_state, Committed, Reproduces, snapshot
  <2> QED BY <1>1, <2>6 DEF REVEALED, MISMATCHED
<1> QED BY <1>4, <1>5

\* An honest statement is the bill, over days that were sealed in order and once.
LEMMA HonestFacts ==
  ASSUME IInv, Honest
  PROVE  /\ statement = Bill /\ copy = files /\ ~ repeated /\ ~ Gap /\ BilledSeals # {}
         /\ SealsInv /\ InvoiceTypes /\ FilesInv
         /\ DOMAIN Bill.days = BilledSeals /\ BilledSeals \in SUBSET Int /\ IsFiniteSet(BilledSeals)
         /\ \A k \in BilledSeals : /\ k \in DOMAIN seals /\ seals[k].day \in Month /\ seals[k].day \in Days
                                   /\ seals[k].day \in Int /\ files[seals[k].day] # <<>>
                                   /\ Bill.days[k] = DayEntry(Book, seals[k]) /\ Bill.days[k].day = seals[k].day
         /\ \A j, k \in DOMAIN seals : j < k => seals[j].day < seals[k].day
<1>1. SealsInv /\ InvoiceTypes /\ FilesInv /\ HandedOut
  BY DEF IInv
<1>2. statement # Null /\ ~ altered /\ ~ repeated /\ ~ Gap
  BY DEF Honest
<1>3. statement = Bill /\ copy = files /\ BilledSeals # {}
  BY <1>1, <1>2 DEF HandedOut
<1>4. DOMAIN Bill.days = BilledSeals /\ \A k \in BilledSeals : Bill.days[k] = DayEntry(Book, seals[k])
  BY BillFacts
<1>5. \A k \in BilledSeals : /\ k \in DOMAIN seals /\ seals[k].day \in Month /\ Bill.days[k].day = seals[k].day
  BY <1>1, <1>4, EntryFacts
<1>6. \A k \in BilledSeals : seals[k].day \in Days /\ seals[k].day \in Int /\ files[seals[k].day] # <<>>
  BY <1>1, <1>5, SealOfDayFacts
<1>7. \A j, k \in DOMAIN seals : j < k => seals[j].day < seals[k].day
  BY <1>1, <1>2 DEF SealsInv, SealsRise
<1>8. BilledSeals \in SUBSET Int /\ IsFiniteSet(BilledSeals)
  BY <1>2, StatementKeys
<1> QED BY <1>1, <1>2, <1>3, <1>4, <1>5, <1>6, <1>7, <1>8

\* Every entry chains to the one before it.
LEMMA HonestChains ==
  ASSUME IInv, Honest, NEW k \in BilledSeals
  PROVE  V!ChainsTo(statement, k, copy)
<1> DEFINE before == {j \in DOMAIN statement.days : j < k /\ copy[statement.days[j].day] # <<>>}
           last == V!Max(before)
<1>1. /\ statement = Bill /\ copy = files /\ DOMAIN statement.days = BilledSeals
      /\ BilledSeals \in SUBSET Int /\ SealsInv /\ InvoiceTypes
  BY HonestFacts
<1>2. V!ChainsTo(statement, k, copy) <=>
        before = {} \/ statement.days[k].prev_seal = statement.days[last].seal_hash
  BY DEF V!ChainsTo
<1>3. before = {j \in BilledSeals : j < k}
  BY <1>1, HonestFacts
<1>4. DOMAIN seals = 1..Len(seals) /\ Len(seals) \in Nat
  BY <1>1, ListFacts DEF SealsInv
<1> HIDE DEF before
<1>5. CASE before # {}
  <2>1. PICK j \in BilledSeals : j < k
    BY <1>3, <1>5
  <2>2. j \in DOMAIN seals /\ k \in DOMAIN seals /\ j \in Int /\ k \in Int /\ seals[j].day \in Month /\ seals[k].day \in Month
    BY <1>4, HonestFacts
  <2>3. k - 1 \in DOMAIN seals /\ j <= k - 1 /\ k - 1 < k
    BY <1>4, <2>1, <2>2
  <2>4. seals[k - 1].day \in Int /\ seals[j].day \in Int /\ seals[k].day \in Int
    BY <1>1, <2>2, <2>3, SealOfDayFacts
  <2>5. seals[j].day <= seals[k - 1].day /\ seals[k - 1].day < seals[k].day
    <3>1. j = k - 1 \/ j < k - 1
      BY <2>2, <2>3
    <3>2. seals[k - 1].day < seals[k].day
      BY <2>2, <2>3, HonestFacts
    <3>3. j < k - 1 => seals[j].day < seals[k - 1].day
      BY <2>2, <2>3, HonestFacts
    <3> QED BY <2>4, <3>1, <3>2, <3>3
  <2>6. seals[k - 1].day \in Month
    <3>1. PICK a, b \in Days : Month = a..b
      BY InvoiceDays
    <3>2. a \in Int /\ b \in Int
      BY MonthFacts
    <3>3. a <= seals[j].day /\ seals[k].day <= b
      BY <2>2, <2>4, <3>1, <3>2
    <3>4. a <= seals[k - 1].day /\ seals[k - 1].day <= b
      BY <2>4, <2>5, <3>2, <3>3
    <3> QED BY <2>4, <3>1, <3>2, <3>4
  <2>7. k - 1 \in BilledSeals
    BY <2>3, <2>6 DEF BilledSeals, Sealed, Book
  <2>8. k - 1 \in before /\ \A m \in before : m <= k - 1
    BY <1>1, <1>3, <2>2, <2>3, <2>7
  <2>9. last = k - 1
    <3>1. last = CHOOSE x \in before : \A y \in before : x >= y
      BY DEF V!Max
    <3>2. before \subseteq Int
      BY <1>1, <1>3
    <3>3. \A y \in before : k - 1 >= y
      BY <2>2, <2>8, <3>2
    <3> HIDE DEF last
    <3>4. last \in before /\ \A y \in before : last >= y
      BY <2>8, <3>1, <3>3
    <3>5. last \in Int /\ k - 1 \in Int /\ last <= k - 1 /\ last >= k - 1
      BY <2>2, <2>8, <3>2, <3>4
    <3> QED BY <3>5
  <2> HIDE DEF last
  <2>10. statement.days[k] = DayEntry(Book, seals[k]) /\ statement.days[last] = DayEntry(Book, seals[k - 1])
    BY <1>1, <2>7, <2>9, HonestFacts
  <2>11. statement.days[k].prev_seal = seals[k].prev_seal /\ statement.days[last].seal_hash = seals[k - 1].seal_hash
    BY <1>1, <2>7, <2>10, EntryFacts
  <2>12. seals[k].prev_seal = seals[k - 1].seal_hash
    <3>1. k # 1 /\ seals[k] # seals[k - 1]
      BY <1>4, <2>3, <2>4, <2>5
    <3> QED BY <1>1, <2>2, <3>1 DEF SealsInv, SealsChained
  <2> QED BY <1>2, <2>11, <2>12
<1> QED BY <1>2, <1>5

\* The proofs of a bill lead to the sealed roots, for the verifier too.
LEMMA HonestInclusion ==
  ASSUME IInv, Honest, NEW t \in DOMAIN statement.proofs
  PROVE  V!InclusionFails(statement, statement.proofs[t]) = {}
<1> DEFINE item == statement.proofs[t]
           k == t[1]
           i == t[2]
           d == seals[k].day
           lines == files[d]
           hashes == leaves(lines)
<1>1. /\ statement = Bill /\ DOMAIN statement.days = BilledSeals
      /\ SealsInv /\ InvoiceTypes /\ FilesInv
  BY HonestFacts
<1>2. Bill.proofs = ProofsBilled
  BY BillFacts
<1>3. t \in Targets(Book, BilledSeals, Billed) /\ item = ProofOf(Book, d, i)
  BY <1>1, <1>2 DEF ProofsBilled, First
<1>4. k \in BilledSeals /\ i \in Billed(Book, d)
  BY <1>3 DEF Targets, Book
<1>5. /\ k \in DOMAIN seals /\ d \in Days /\ d \in Int /\ lines # <<>>
      /\ statement.days[k] = DayEntry(Book, seals[k]) /\ statement.days[k].day = d
  BY <1>1, <1>4, HonestFacts
<1>6. i \in DOMAIN lines
  BY <1>1, <1>4, <1>5, PicksFacts
<1>7. /\ item.day = d /\ item.record = lines[i] /\ item.leaf = record_hash(lines[i])
      /\ item.proof = build_proof(hashes, i - 1)
  BY <1>3 DEF ProofOf, Book
<1> HIDE DEF item, d
<1>8. V!EntryOf(statement, d) = statement.days[k]
  <2> DEFINE same == {m \in DOMAIN statement.days : statement.days[m].day = d}
  <2>1. same = {k}
    <3>1. k \in same
      BY <1>1, <1>4, <1>5
    <3>2. ASSUME NEW m \in same, m # k PROVE FALSE
      <4>1. m \in BilledSeals /\ m \in DOMAIN seals /\ seals[m].day = d /\ m \in Int /\ k \in Int
        BY <1>1, <1>4, HonestFacts
      <4>2. m < k \/ k < m
        BY <3>2, <4>1
      <4>3. seals[m].day < seals[k].day \/ seals[k].day < seals[m].day
        BY <1>5, <4>1, <4>2, HonestFacts
      <4> QED BY <1>5, <4>1, <4>3 DEF d
    <3> QED BY <3>1, <3>2
  <2>2. k \in Int
    BY <1>4, HonestFacts
  <2>3. V!Max({k}) = k
    BY <2>2 DEF V!Max
  <2> HIDE DEF same
  <2>4. V!EntryOf(statement, d) = statement.days[V!Max(same)]
    BY DEF V!EntryOf, same
  <2> QED BY <2>1, <2>3, <2>4
<1>9. /\ statement.days[k].leaf_count = Len(lines) /\ statement.days[k].merkle_root = merkle_root(hashes)
  BY <1>1, <1>4, <1>5, EntryFacts, SealSaysOfDay DEF d
<1>10. /\ Digests(hashes) /\ DOMAIN hashes = DOMAIN lines /\ Len(hashes) = Len(lines) /\ hashes[i] = Leaf(lines[i].id)
       /\ DOMAIN lines = 1..Len(lines)
  BY <1>1, <1>5, <1>6, FileFacts, LeavesFacts
<1> HIDE DEF lines, hashes, k, i
<1>11. verify_proof(hashes[i], item.proof, merkle_root(hashes))
  <2>1. i \in 1..Len(hashes)
    BY <1>6, <1>10
  <2> QED BY <1>7, <1>10, <2>1, ProofLeads
<1>12. item.proof.index = i - 1 /\ item.proof.leaf_count = Len(lines) /\ Len(lines) \in Nat
       /\ Len(item.proof.path) = depth[Len(lines)]
  <2>1. item.proof.index = i - 1 /\ item.proof.leaf_count = Len(hashes)
    BY <1>7 DEF build_proof
  <2>2. Len(item.proof.path) = depth[item.proof.leaf_count]
    BY <1>11 DEF verify_proof
  <2>3. Len(lines) \in Nat
    BY <1>1, <1>5, FileFacts DEF lines
  <2> QED BY <1>10, <2>1, <2>2, <2>3
<1>13. V!verify_proof(hashes[i], item.proof, merkle_root(hashes))
  <2>1. item.proof.index \in Int /\ item.proof.leaf_count \in Nat /\ Len(item.proof.path) \in Nat
    BY <1>6, <1>10, <1>12, DepthFacts
  <2> QED BY <1>11, <2>1, VProof
<1>14. V!record_hash(item.record) = hashes[i] /\ V!record_hash(item.record) = item.leaf
  BY <1>7, <1>10 DEF V!record_hash, record_hash, Leaf
<1>15. \E m \in DOMAIN statement.days : statement.days[m].day = item.day
  BY <1>1, <1>4, <1>5, <1>7
<1> QED BY <1>7, <1>8, <1>9, <1>12, <1>13, <1>14, <1>15 DEF V!InclusionFails, V!Unless, item

\* The energies of the audited lines, added up over all of them and day by day.
LEMMA SumOfTargets ==
  ASSUME InvoiceTypes, NEW K \in SUBSET DOMAIN seals, IsFiniteSet(K), \A k \in K : seals[k].day \in Days,
         NEW wh, \A d \in Days : \A i \in DOMAIN files[d] : wh[d][i] \in Int
  PROVE  /\ SumOf([t \in Targets(Book, K, Audited) |-> wh[seals[t[1]].day][t[2]]])
            = SumOf([k \in K |-> SumOf([i \in Audited(Book, seals[k].day) |-> wh[seals[k].day][i]])])
         /\ IsFiniteSet(Targets(Book, K, Audited))
         /\ \A t \in Targets(Book, K, Audited) :
              seals[t[1]].day \in Days /\ t[2] \in DOMAIN files[seals[t[1]].day]
<1> DEFINE P == [k \in K |-> Audited(Book, seals[k].day)]
           T == Targets(Book, K, Audited)
           h == [t \in T |-> wh[seals[t[1]].day][t[2]]]
<1>1. T = Pairs(K, P)
  BY DEF Targets, Pairs, Book
<1>2. \A k \in K : P[k] \in SUBSET DOMAIN files[seals[k].day] /\ IsFiniteSet(P[k])
  <2> SUFFICES ASSUME NEW k \in K PROVE P[k] \in SUBSET DOMAIN files[seals[k].day] /\ IsFiniteSet(P[k])
    OBVIOUS
  <2> DEFINE d == seals[k].day
  <2>1. d \in Days
    OBVIOUS
  <2> HIDE DEF d
  <2>2. Audited(Book, d) \in SUBSET DOMAIN files[d] /\ IsFiniteSet(Audited(Book, d))
    BY <2>1, PicksFacts
  <2> QED BY <2>2 DEF d
<1>3. \A t \in T : seals[t[1]].day \in Days /\ t[2] \in DOMAIN files[seals[t[1]].day]
  <2> SUFFICES ASSUME NEW t \in T PROVE seals[t[1]].day \in Days /\ t[2] \in DOMAIN files[seals[t[1]].day]
    OBVIOUS
  <2> HIDE DEF P, T
  <2>1. PICK k \in K : t \in {<<k, i>> : i \in P[k]}
    BY <1>1 DEF Pairs
  <2>2. PICK i \in P[k] : t = <<k, i>>
    BY <2>1
  <2>3. t[1] = k /\ t[2] = i
    BY <2>2
  <2> QED BY <1>2, <2>3
<1>4. DOMAIN h = Pairs(K, P) /\ \A t \in DOMAIN h : h[t] \in Int
  BY <1>1, <1>3
<1>5. IsFiniteSet(T)
  <2> HIDE DEF P
  <2> QED BY <1>1, <1>2, PairsAreFinite
<1>6. SumOf(h) = SumOf([k \in K |-> SumOf([i \in P[k] |-> h[<<k, i>>]])])
  <2>1. \A k \in K : IsFiniteSet(P[k])
    BY <1>2
  <2> HIDE DEF P, h, T
  <2>2. IsFiniteSet(K) /\ DOMAIN h = Pairs(K, P) /\ \A t \in DOMAIN h : h[t] \in Int
    BY <1>4
  <2> QED BY ONLY <2>1, <2>2, SumOfRows
<1>7. \A k \in K : [i \in P[k] |-> h[<<k, i>>]] = [i \in Audited(Book, seals[k].day) |-> wh[seals[k].day][i]]
  <2> SUFFICES ASSUME NEW k \in K
               PROVE [i \in P[k] |-> h[<<k, i>>]] = [i \in Audited(Book, seals[k].day) |-> wh[seals[k].day][i]]
    OBVIOUS
  <2>1. \A i \in P[k] : <<k, i>> \in T
    BY <1>1 DEF Pairs
  <2>2. \A i \in P[k] : h[<<k, i>>] = wh[seals[k].day][i]
    BY <2>1
  <2>3. P[k] = Audited(Book, seals[k].day)
    OBVIOUS
  <2> HIDE DEF P, h
  <2> QED BY <2>2, <2>3
<1>8. [k \in K |-> SumOf([i \in P[k] |-> h[<<k, i>>]])]
        = [k \in K |-> SumOf([i \in Audited(Book, seals[k].day) |-> wh[seals[k].day][i]])]
  <2> HIDE DEF P, h
  <2> QED BY <1>7
<1> HIDE DEF P
<1> QED BY <1>3, <1>5, <1>6, <1>8

\* The energy of a line: what is claimed of it, what is witnessed, and what is billed.
ClaimedOf == [d \in Days |-> [i \in DOMAIN files[d] |-> ClaimOf(files[d][i]).claimed_wh]]
WitnessedOf == [d \in Days |-> [i \in DOMAIN files[d] |-> corroborated_wh(ClaimOf(files[d][i]))]]
PayableOf == [d \in Days |-> [i \in DOMAIN files[d] |-> billable_wh(ClaimOf(files[d][i]))]]

\* The verifier reads the same energies, and bills none that was not witnessed.
LEMMA EnergiesAreNaturals ==
  ASSUME InvoiceTypes, NEW d \in Days, NEW i \in DOMAIN files[d]
  PROVE  /\ ClaimedOf[d][i] = files[d][i].body.claimed_wh /\ ClaimedOf[d][i] \in Nat
         /\ WitnessedOf[d][i] = V!corroborated_wh(files[d][i].body) /\ WitnessedOf[d][i] \in Nat
         /\ PayableOf[d][i] = V!Payable(files[d][i].body) /\ PayableOf[d][i] \in Nat
         /\ PayableOf[d][i] <= WitnessedOf[d][i]
<1>1. /\ ClaimedOf[d][i] = ClaimOf(files[d][i]).claimed_wh
      /\ WitnessedOf[d][i] = corroborated_wh(ClaimOf(files[d][i]))
      /\ PayableOf[d][i] = billable_wh(ClaimOf(files[d][i]))
  BY DEF ClaimedOf, WitnessedOf, PayableOf
<1> DEFINE line == files[d][i]
<1>2. /\ V!corroborated_wh(line.body) = corroborated_wh(ClaimOf(line)) /\ corroborated_wh(ClaimOf(line)) \in Nat
      /\ V!Payable(line.body) = billable_wh(ClaimOf(line)) /\ billable_wh(ClaimOf(line)) \in Nat
      /\ billable_wh(ClaimOf(line)) <= corroborated_wh(ClaimOf(line))
  BY VLine
<1>3. ClaimOf(line).claimed_wh = line.body.claimed_wh /\ line.body.claimed_wh \in Nat
  BY BodyFacts, ClaimIsOfBody
<1> QED BY <1>1, <1>2, <1>3

\* What the auditor of the bill reports.
LEMMA AuditIs ==
  ASSUME IInv, Honest
  PROVE  LET audit == Audit(ClaimsBilled, MarginPpm)
             Rows(wh) == SumOf([k \in BilledSeals |-> SumOf([i \in Audited(Book, seals[k].day) |-> wh[seals[k].day][i]])]) IN
         /\ audit.claimed_wh = Rows(ClaimedOf) /\ audit.corroborated_wh = Rows(WitnessedOf)
         /\ audit.billable_wh = Rows(PayableOf)
         /\ audit.billable_wh <= audit.corroborated_wh
<1> DEFINE audit == Audit(ClaimsBilled, MarginPpm)
           Rows(wh) == SumOf([k \in BilledSeals |-> SumOf([i \in Audited(Book, seals[k].day) |-> wh[seals[k].day][i]])])
           T == Targets(Book, BilledSeals, Audited)
           All(wh) == [t \in T |-> wh[seals[t[1]].day][t[2]]]
<1>1. /\ InvoiceTypes /\ BilledSeals \in SUBSET DOMAIN seals /\ IsFiniteSet(BilledSeals)
      /\ \A k \in BilledSeals : seals[k].day \in Days
  BY HonestFacts
<1>2. \A d \in Days : \A i \in DOMAIN files[d] :
        ClaimedOf[d][i] \in Int /\ WitnessedOf[d][i] \in Int /\ PayableOf[d][i] \in Int
        /\ PayableOf[d][i] <= WitnessedOf[d][i]
  <2> SUFFICES ASSUME NEW d \in Days, NEW i \in DOMAIN files[d]
               PROVE  ClaimedOf[d][i] \in Int /\ WitnessedOf[d][i] \in Int /\ PayableOf[d][i] \in Int
                      /\ PayableOf[d][i] <= WitnessedOf[d][i]
    OBVIOUS
  <2>1. ClaimedOf[d][i] \in Nat /\ WitnessedOf[d][i] \in Nat /\ PayableOf[d][i] \in Nat
        /\ PayableOf[d][i] <= WitnessedOf[d][i]
    BY <1>1, EnergiesAreNaturals
  <2> QED BY <2>1
<1>3. SumOf(All(ClaimedOf)) = Rows(ClaimedOf)
  BY <1>1, <1>2, SumOfTargets
<1>4. SumOf(All(WitnessedOf)) = Rows(WitnessedOf)
  BY <1>1, <1>2, SumOfTargets
<1>5. SumOf(All(PayableOf)) = Rows(PayableOf)
  BY <1>1, <1>2, SumOfTargets
<1>6. IsFiniteSet(T) /\ \A t \in T : seals[t[1]].day \in Days /\ t[2] \in DOMAIN files[seals[t[1]].day]
  BY <1>1, <1>2, SumOfTargets
<1> HIDE DEF T, Rows
<1>7. ClaimsBilled = [t \in T |-> ClaimOf(files[seals[t[1]].day][t[2]])]
  BY DEF ClaimsBilled, T
<1>8. /\ [t \in DOMAIN ClaimsBilled |-> ClaimsBilled[t].claimed_wh] = All(ClaimedOf)
      /\ [t \in DOMAIN ClaimsBilled |-> corroborated_wh(ClaimsBilled[t])] = All(WitnessedOf)
      /\ [t \in DOMAIN ClaimsBilled |-> billable_wh(ClaimsBilled[t])] = All(PayableOf)
  <2>1. DOMAIN ClaimsBilled = T
    BY <1>7
  <2>2. \A t \in T : /\ ClaimsBilled[t].claimed_wh = ClaimedOf[seals[t[1]].day][t[2]]
                     /\ corroborated_wh(ClaimsBilled[t]) = WitnessedOf[seals[t[1]].day][t[2]]
                     /\ billable_wh(ClaimsBilled[t]) = PayableOf[seals[t[1]].day][t[2]]
    BY <1>6, <1>7 DEF ClaimedOf, WitnessedOf, PayableOf
  <2> QED BY <2>1, <2>2
<1>9. /\ audit.claimed_wh = SumOf([t \in DOMAIN ClaimsBilled |-> ClaimsBilled[t].claimed_wh])
      /\ audit.corroborated_wh = SumOf([t \in DOMAIN ClaimsBilled |-> corroborated_wh(ClaimsBilled[t])])
      /\ audit.billable_wh = SumOf([t \in DOMAIN ClaimsBilled |-> billable_wh(ClaimsBilled[t])])
  BY DEF Audit, report, Submitted
<1> HIDE DEF audit
<1>10. SumOf(All(PayableOf)) <= SumOf(All(WitnessedOf))
  <2> DEFINE f == All(PayableOf)
             g == All(WitnessedOf)
  <2>1. DOMAIN f = T /\ DOMAIN g = T /\ \A t \in T : f[t] \in Int /\ g[t] \in Int /\ f[t] <= g[t]
    BY <1>2, <1>6
  <2> HIDE DEF f, g
  <2>2. SumsOf(f)[T] <= SumsOf(g)[T]
    BY <1>6, <2>1, SumGrows
  <2>3. SumOf(f) = SumsOf(f)[T] /\ SumOf(g) = SumsOf(g)[T]
    BY <2>1, SumIsOfAll
  <2> QED BY <2>2, <2>3 DEF f, g
<1> HIDE DEF All
<1> QED BY <1>3, <1>4, <1>5, <1>8, <1>9, <1>10 DEF audit, Rows

\* The verifier adds the same energies up, and counts the same claims out.
LEMMA AgainCounts ==
  ASSUME IInv, Honest
  PROVE  LET again == V!Again(statement, copy)
             Rows(wh) == SumOf([k \in BilledSeals |-> SumOf([i \in Audited(Book, seals[k].day) |-> wh[seals[k].day][i]])]) IN
         /\ again.claimed_wh = Rows(ClaimedOf) /\ again.corroborated_wh = Rows(WitnessedOf)
         /\ again.billable_wh = Rows(PayableOf)
         /\ again.uncommitted = UncommittedBilled /\ again.mismatched = 0
<1> DEFINE again == V!Again(statement, copy)
           Rows(wh) == SumOf([k \in BilledSeals |-> SumOf([i \in Audited(Book, seals[k].day) |-> wh[seals[k].day][i]])])
           D(k) == statement.days[k].day
           from == V!FromDay(statement)
<1>1. /\ InvoiceTypes /\ FilesInv /\ ~ Gap /\ copy = files /\ DOMAIN statement.days = BilledSeals
      /\ DOMAIN files = Days /\ IsFiniteSet(BilledSeals)
      /\ \A k \in BilledSeals : D(k) = seals[k].day /\ seals[k].day \in Days
  <2>1. InvoiceTypes
    BY HonestFacts
  <2> QED BY <2>1, HonestFacts DEF InvoiceTypes
<1>2. from = FromDay(Book)
  BY StatementFacts DEF Honest
<1>3. /\ again.claimed_wh = V!Sum([k \in BilledSeals |->
             V!Sum([i \in V!Proven(copy, from, D(k)) |-> copy[D(k)][i].body.claimed_wh])])
      /\ again.corroborated_wh = V!Sum([k \in BilledSeals |->
             V!Sum([i \in V!Proven(copy, from, D(k)) |-> V!corroborated_wh(copy[D(k)][i].body)])])
      /\ again.billable_wh = V!Sum([k \in BilledSeals |->
             V!Sum([i \in V!Proven(copy, from, D(k)) |-> V!Payable(copy[D(k)][i].body)])])
      /\ again.uncommitted = V!Sum([k \in BilledSeals |-> Cardinality(V!Unproven(copy, from, D(k)))])
      /\ again.mismatched = V!Sum([k \in BilledSeals |->
             Cardinality({i \in DOMAIN copy[D(k)] : V!StateOf(copy, D(k), i) = "mismatched"})])
  <2> DEFINE K == DOMAIN statement.days
  <2>1. again.claimed_wh = V!Sum([k \in K |->
             V!Sum([i \in V!Proven(copy, from, D(k)) |-> copy[D(k)][i].body.claimed_wh])])
    BY DEF V!Again, V!OverDays
  <2>2. again.corroborated_wh = V!Sum([k \in K |->
             V!Sum([i \in V!Proven(copy, from, D(k)) |-> V!corroborated_wh(copy[D(k)][i].body)])])
    BY DEF V!Again, V!OverDays
  <2>3. again.billable_wh = V!Sum([k \in K |->
             V!Sum([i \in V!Proven(copy, from, D(k)) |-> V!Payable(copy[D(k)][i].body)])])
    BY DEF V!Again, V!OverDays
  <2>4. again.uncommitted = V!Sum([k \in K |-> Cardinality(V!Unproven(copy, from, D(k)))])
    BY DEF V!Again, V!OverDays, V!Cardinality, Cardinality
  <2>5. again.mismatched = V!Sum([k \in K |->
             Cardinality({i \in DOMAIN copy[D(k)] : V!StateOf(copy, D(k), i) = "mismatched"})])
    BY DEF V!Again, V!OverDays, V!Cardinality, Cardinality
  <2>6. K = BilledSeals
    BY <1>1
  <2> HIDE DEF again, D, from, K
  <2> QED BY <2>1, <2>2, <2>3, <2>4, <2>5, <2>6
<1> HIDE DEF again
<1>4. ASSUME NEW k \in BilledSeals
      PROVE  /\ [i \in V!Proven(copy, from, D(k)) |-> copy[D(k)][i].body.claimed_wh]
                  = [i \in Audited(Book, seals[k].day) |-> ClaimedOf[seals[k].day][i]]
             /\ [i \in V!Proven(copy, from, D(k)) |-> V!corroborated_wh(copy[D(k)][i].body)]
                  = [i \in Audited(Book, seals[k].day) |-> WitnessedOf[seals[k].day][i]]
             /\ [i \in V!Proven(copy, from, D(k)) |-> V!Payable(copy[D(k)][i].body)]
                  = [i \in Audited(Book, seals[k].day) |-> PayableOf[seals[k].day][i]]
             /\ V!Unproven(copy, from, D(k)) = Executed(Book, seals[k].day) \ Audited(Book, seals[k].day)
             /\ {i \in DOMAIN copy[D(k)] : V!StateOf(copy, D(k), i) = "mismatched"} = {}
  <2> DEFINE d == seals[k].day
             S == Audited(Book, d)
  <2>1. d \in Days /\ D(k) = d /\ copy = files
    BY <1>1
  <2>2. SameAt(copy, d)
    BY <1>1 DEF SameAt
  <2> HIDE DEF d, D
  <2>3. V!Proven(copy, from, d) = S /\ V!Unproven(copy, from, d) = Executed(Book, d) \ S
    BY <1>1, <1>2, <2>1, <2>2, VPicks
  <2>4. \A i \in S : i \in DOMAIN files[d]
    BY <1>1, <2>1, PicksFacts
  <2> HIDE DEF S
  <2>5. \A i \in S : /\ ClaimedOf[d][i] = files[d][i].body.claimed_wh
                     /\ WitnessedOf[d][i] = V!corroborated_wh(files[d][i].body)
                     /\ PayableOf[d][i] = V!Payable(files[d][i].body)
    BY <1>1, <2>1, <2>4, EnergiesAreNaturals
  <2>6. \A i \in DOMAIN files[d] : V!StateOf(copy, d, i) # "mismatched"
    <3> SUFFICES ASSUME NEW i \in DOMAIN files[d] PROVE V!StateOf(copy, d, i) # "mismatched"
      OBVIOUS
    <3>1. V!StateOf(copy, d, i) = StateOf(files, d, i)
      BY <1>1, <2>1, <2>2, VState
    <3>2. StateOf(files, d, i) # MISMATCHED
      BY <1>1, <2>1, NothingMismatched
    <3> QED BY <3>1, <3>2 DEF MISMATCHED
  <2>7. {i \in DOMAIN files[d] : V!StateOf(copy, d, i) = "mismatched"} = {}
    BY <2>6
  <2>8. /\ [i \in V!Proven(copy, from, d) |-> copy[d][i].body.claimed_wh] = [i \in S |-> ClaimedOf[d][i]]
        /\ [i \in V!Proven(copy, from, d) |-> V!corroborated_wh(copy[d][i].body)] = [i \in S |-> WitnessedOf[d][i]]
        /\ [i \in V!Proven(copy, from, d) |-> V!Payable(copy[d][i].body)] = [i \in S |-> PayableOf[d][i]]
    BY <2>1, <2>3, <2>5
  <2> QED BY <2>1, <2>3, <2>7, <2>8 DEF d, S
<1> HIDE DEF D, from
<1>5. again.claimed_wh = Rows(ClaimedOf)
  <2>1. \A k \in BilledSeals : V!Sum([i \in V!Proven(copy, from, D(k)) |-> copy[D(k)][i].body.claimed_wh])
                                = SumOf([i \in Audited(Book, seals[k].day) |-> ClaimedOf[seals[k].day][i]])
    BY <1>4, VSum
  <2> QED BY <1>3, <2>1, VSum
<1>6. again.corroborated_wh = Rows(WitnessedOf)
  <2>1. \A k \in BilledSeals : V!Sum([i \in V!Proven(copy, from, D(k)) |-> V!corroborated_wh(copy[D(k)][i].body)])
                                = SumOf([i \in Audited(Book, seals[k].day) |-> WitnessedOf[seals[k].day][i]])
    BY <1>4, VSum
  <2> QED BY <1>3, <2>1, VSum
<1>7. again.billable_wh = Rows(PayableOf)
  <2>1. \A k \in BilledSeals : V!Sum([i \in V!Proven(copy, from, D(k)) |-> V!Payable(copy[D(k)][i].body)])
                                = SumOf([i \in Audited(Book, seals[k].day) |-> PayableOf[seals[k].day][i]])
    BY <1>4, VSum
  <2> QED BY <1>3, <2>1, VSum
<1>8. again.uncommitted = UncommittedBilled
  <2>1. \A k \in BilledSeals : Cardinality(V!Unproven(copy, from, D(k)))
                                = Cardinality(Executed(Book, seals[k].day) \ Audited(Book, seals[k].day))
    BY <1>4
  <2> QED BY <1>3, <2>1, VSum DEF UncommittedBilled
<1>9. again.mismatched = 0
  <2> DEFINE f == [k \in BilledSeals |->
             Cardinality({i \in DOMAIN copy[D(k)] : V!StateOf(copy, D(k), i) = "mismatched"})]
             none == {}
  <2>1. DOMAIN f = BilledSeals /\ \A k \in BilledSeals : f[k] = 0
    BY <1>4, FS_EmptySet
  <2>2. again.mismatched = SumOf(f)
    BY <1>3, VSum
  <2> HIDE DEF f
  <2>3. IsFiniteSet(DOMAIN f) /\ (\A x \in DOMAIN f : f[x] \in Int) /\ none \in SUBSET DOMAIN f
        /\ \A x \in DOMAIN f \ none : f[x] = 0
    BY <1>1, <2>1
  <2> HIDE DEF none
  <2>4. SumsOf(f)[DOMAIN f] = SumsOf(f)[none]
    BY <2>3, SumWithoutZeros
  <2>5. SumsOf(f)[none] = 0
    BY <2>3, SumsFacts DEF none
  <2> QED BY <2>2, <2>4, <2>5, SumIsOfAll
<1> HIDE DEF Rows
<1> QED BY <1>5, <1>6, <1>7, <1>8, <1>9 DEF again, Rows

\* The money and the energy of an honest statement, from the raw records.
LEMMA HonestAmounts ==
  ASSUME IInv, Honest
  PROVE  V!RecomputedFails(statement, copy) = {} /\ V!ArithmeticFails(statement) \subseteq {V!BillableExceedsGross}
<1> DEFINE again == V!Again(statement, copy)
           t == statement.totals
           audit == statement.corroboration
<1>0. /\ InvoiceTypes /\ statement = Bill /\ BilledSeals # {} /\ copy = files
      /\ DOMAIN statement.days = BilledSeals
  BY HonestFacts
<1>1. \A k \in BilledSeals : statement.days[k].day = seals[k].day /\ seals[k].day \in Days
  BY HonestFacts
<1>2. /\ t.gross = SumOf([k \in BilledSeals |-> GrossOf[seals[k].day]])
      /\ t.advisory = SumOf([k \in BilledSeals |-> AdvisoryOf[seals[k].day]])
      /\ t.billable = SumOf([k \in BilledSeals |-> BillableOf[seals[k].day]])
      /\ t.billable \in Int /\ t.fee = fee_micro_eur(t.billable, FeeBp) /\ t.fee \in Int
      /\ t.keeps = t.billable - t.fee
  BY <1>0, BillTotals
<1>3. /\ again.gross = SumOf([k \in BilledSeals |-> GrossOf[statement.days[k].day]])
      /\ again.advisory = SumOf([k \in BilledSeals |-> AdvisoryOf[statement.days[k].day]])
      /\ again.billable = SumOf([k \in BilledSeals |-> BillableOf[statement.days[k].day]])
  <2>1. V!FromDay(statement) = FromDay(Book)
    BY StatementFacts DEF Honest
  <2>2. \A k \in DOMAIN statement.days : statement.days[k].day \in Days /\ SameAt(copy, statement.days[k].day)
    BY <1>0, <1>1 DEF SameAt, InvoiceTypes
  <2> QED BY <1>0, <2>1, <2>2, AgainIs
<1> HIDE DEF again, t
<1>4. again.gross = t.gross /\ again.advisory = t.advisory /\ again.billable = t.billable
  <2>1. /\ [k \in BilledSeals |-> GrossOf[statement.days[k].day]] = [k \in BilledSeals |-> GrossOf[seals[k].day]]
        /\ [k \in BilledSeals |-> AdvisoryOf[statement.days[k].day]] = [k \in BilledSeals |-> AdvisoryOf[seals[k].day]]
        /\ [k \in BilledSeals |-> BillableOf[statement.days[k].day]] = [k \in BilledSeals |-> BillableOf[seals[k].day]]
    BY <1>1
  <2> QED BY <1>2, <1>3, <2>1
<1>5. t.fee = V!FeeOf(t.billable, FeeBp) /\ statement.fee_bp = FeeBp
  <2>1. statement.fee_bp = FeeBp
    BY <1>0, BillFacts
  <2> QED BY <1>2, <2>1, VFee
<1>6. audit = Audit(ClaimsBilled, MarginPpm) /\ statement.uncommitted = UncommittedBilled
  BY <1>0, BillFacts
<1> HIDE DEF audit
<1>7. /\ again.claimed_wh = audit.claimed_wh /\ again.corroborated_wh = audit.corroborated_wh
      /\ again.billable_wh = audit.billable_wh /\ audit.billable_wh <= audit.corroborated_wh
  BY <1>6, AuditIs, AgainCounts DEF again
<1>8. again.mismatched = 0 /\ again.uncommitted = statement.uncommitted
  BY <1>6, AgainCounts DEF again
<1>9. V!RecomputedFails(statement, copy) = {}
  BY <1>4, <1>5, <1>7, <1>8 DEF V!RecomputedFails, V!Unless, again, t, audit
<1>10. V!ArithmeticFails(statement) \subseteq {V!BillableExceedsGross}
  <2>1. t.fee + t.keeps = t.billable
    BY <1>2
  <2>2. t.billable >= 0 \/ t.fee = 0
    BY <1>2 DEF fee_micro_eur
  <2> QED BY <1>5, <2>1, <2>2 DEF V!ArithmeticFails, V!Unless, t
<1> QED BY <1>9, <1>10

\* The signatures of an honest statement, and the farm it names.
LEMMA HonestSignatures ==
  ASSUME IInv, Honest, NEW checks \in BOOLEAN
  PROVE  /\ V!ActivationFails(statement, Reader(checks)) = {}
         /\ V!FarmFails(statement, Reader(checks)) = {}
         /\ V!DocumentFails(statement, Reader(checks)) = {}
<1>1. InvoiceTypes /\ statement = Bill
  BY HonestFacts
<1>2. /\ statement.activation = activation /\ statement.farm_id = FarmId
      /\ statement.signature = IF FarmId = Null THEN Null ELSE Signed(BodyForSigning(statement))
  BY <1>1, BillFacts
<1>3. V!ActivationFails(statement, Reader(checks)) = {}
  <2>1. CASE activation = Null
    BY <1>2, <2>1 DEF V!ActivationFails
  <2>2. CASE activation # Null
    <3>1. /\ FarmId # Null /\ activation.farm_id = FarmId
          /\ activation.signature = [body |-> [from_day |-> activation.from_day, farm_id |-> activation.farm_id]]
      BY <1>1, <2>2, ActivationFacts DEF Signed
    <3> QED BY <1>2, <3>1 DEF V!ActivationFails, V!SignatureFails, V!Unless
  <2> QED BY <2>1, <2>2
<1>4. V!FarmFails(statement, Reader(checks)) = {}
  BY <1>2 DEF V!FarmFails, V!Unless, Reader
<1>5. V!DocumentFails(statement, Reader(checks)) = {}
  <2> DEFINE body == [field \in (DOMAIN statement \ {"signature"}) |-> statement[field]]
  <2>1. body = BodyForSigning(statement)
    BY DEF BodyForSigning
  <2> HIDE DEF body
  <2>2. V!DocumentFails(statement, Reader(checks)) =
          IF statement.signature = Null THEN {}
          ELSE IF statement.farm_id = Null THEN {"a signed statement names the farm"}
          ELSE V!SignatureFails(Reader(checks), statement.signature, body, "statement signed")
    BY DEF V!DocumentFails, body
  <2>3. statement.signature = Null \/ (statement.farm_id # Null /\ statement.signature = [body |-> body])
    BY <1>2, <2>1 DEF Signed
  <2> QED BY <2>2, <2>3 DEF V!SignatureFails, V!Unless
<1> QED BY <1>3, <1>4, <1>5

\* The days of an honest statement.
LEMMA HonestDays ==
  ASSUME IInv, Honest, NEW k \in DOMAIN statement.days, NEW checks \in BOOLEAN
  PROVE  V!DayFails(statement, k, copy, Reader(checks)) = {}
<1> DEFINE F == V!DayFails(statement, k, copy, Reader(checks))
           label == "chains to the previous sealed day"
           lines == copy[statement.days[k].day]
<1>1. k \in BilledSeals /\ copy = files /\ statement # Null
  BY HonestFacts DEF Honest
<1>2. F \subseteq {label}
  BY <1>1, TheirsAccepts
<1>3. V!ChainsTo(statement, k, copy)
  BY <1>1, HonestChains
<1>4. lines # <<>>
  <2>1. statement.days[k].day = seals[k].day /\ files[seals[k].day] # <<>>
    BY <1>1, HonestFacts
  <2> QED BY <1>1, <2>1
<1>5. label \notin F
  <2>1. V!Unless(V!ChainsTo(statement, k, copy), label) = {}
    BY <1>3 DEF V!Unless
  <2>2. "chains to the previous sealed day" # "chain unbroken"
        /\ "chains to the previous sealed day" # "record count matches the seal"
        /\ "chains to the previous sealed day" # "sealed Merkle root"
        /\ "chains to the previous sealed day" # "seal_hash"
        /\ "chains to the previous sealed day" # "rule its date requires"
        /\ "chains to the previous sealed day" # "seal signed"
    OBVIOUS
  <2> QED BY <1>3, <1>4, <2>2 DEF V!DayFails, V!Unless, V!check_chain, V!RuleAndSignature, V!SignatureFails
<1> HIDE DEF F
<1> QED BY <1>2, <1>5 DEF F

\* HonestStatementVerifies of a state.
LEMMA HonestStatementVerifiesNow == IInv => HonestStatementVerifies
<1> SUFFICES ASSUME IInv, Honest, NEW checks \in BOOLEAN
             PROVE  FailuresFor(checks) \subseteq {V!BillableExceedsGross}
  BY DEF HonestStatementVerifies
<1> DEFINE R == Reader(checks)
<1>1. /\ V!ActivationFails(statement, R) = {} /\ V!FarmFails(statement, R) = {}
      /\ V!DocumentFails(statement, R) = {}
  BY HonestSignatures
<1>2. V!RecomputedFails(statement, copy) = {} /\ V!ArithmeticFails(statement) \subseteq {V!BillableExceedsGross}
  BY HonestAmounts
<1>3. \A k \in DOMAIN statement.days : V!DayFails(statement, k, copy, R) = {}
  BY HonestDays
<1>4. \A t \in DOMAIN statement.proofs : V!InclusionFails(statement, statement.proofs[t]) = {}
  BY HonestInclusion
<1> HIDE DEF R
<1>5. FailuresFor(checks) = V!Failures(statement, copy, R)
  BY DEF FailuresFor, R
<1> QED BY <1>1, <1>2, <1>3, <1>4, <1>5 DEF V!Failures

\* HonestStatementVerifies, in every state of every behaviour: the two programs agree on
\* every hash, total and count of a statement that nobody changed, but for the one check
\* that is too strong.
THEOREM HonestStatementsVerify == Spec => []HonestStatementVerifies
BY InvoiceInvariant, HonestStatementVerifiesNow, PTL
=============================================================================
