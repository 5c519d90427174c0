------------------------- MODULE MerkleTreeTheorems -------------------------
(***************************************************************************)
(* Facts about the Merkle tree for every number of leaves: what a proof of *)
(* inclusion computes, and from which leaf.                                *)
(*                                                                         *)
(* The tree, the path of a leaf and the check of a proof are recursive     *)
(* functions.  Induction over them is the induction of the naturals on the *)
(* set of the levels at which a fact holds.                                *)
(***************************************************************************)
EXTENDS MerkleTree, TLAPS, SequenceTheorems, NaturalsInduction, WellFoundedInduction

(* A sequence of whatever it holds.                                        *)
IsList(s) == s \in Seq({s[k] : k \in DOMAIN s})

(* What a list is made of.                                                 *)
LEMMA ListFacts ==
  ASSUME NEW s, IsList(s)
  PROVE  Len(s) \in Nat /\ DOMAIN s = 1..Len(s)
BY DEF IsList

(* Any sequence is one.                                                    *)
LEMMA SequenceIsList ==
  ASSUME NEW S, NEW t \in Seq(S)
  PROVE  IsList(t)
<1> DEFINE T == {t[k] : k \in DOMAIN t}
<1>1. PICK n \in Nat : t \in [1..n -> S]
  BY SeqDef
<1>2. t \in [1..n -> T]
  BY <1>1
<1>3. t \in Seq(T)
  BY <1>2, SeqDef
<1>. QED  BY <1>3 DEF IsList

(* Append keeps a list and what it holds (Constitute, RecordClosure).      *)
LEMMA ListAppend ==
  ASSUME NEW s, IsList(s), NEW e
  PROVE  /\ IsList(Append(s, e))
         /\ DOMAIN Append(s, e) = 1..(Len(s) + 1)
         /\ Len(Append(s, e)) = Len(s) + 1
         /\ \A k \in DOMAIN s : Append(s, e)[k] = s[k]
         /\ Append(s, e)[Len(s) + 1] = e
<1> DEFINE T == {s[k] : k \in DOMAIN s} \union {e}
           t == Append(s, e)
<1>1. s \in Seq(T) /\ e \in T
  BY DEF IsList
<1>2. t \in Seq(T)
  BY <1>1, AppendProperties
<1>3. Len(t) = Len(s) + 1 /\ (\A k \in 1..Len(s) : t[k] = s[k]) /\ t[Len(s) + 1] = e
  BY <1>1, AppendProperties
<1>4. Len(s) \in Nat /\ DOMAIN s = 1..Len(s) /\ DOMAIN t = 1..Len(t)
  BY <1>1, <1>2
<1>5. IsList(t)
  BY <1>2, SequenceIsList
<1>. QED  BY <1>3, <1>4, <1>5

(* A function over 1..n is a sequence of length n.                         *)
LEMMA FunctionIsList ==
  ASSUME NEW s, NEW n \in Nat, DOMAIN s = 1..n, s = [k \in DOMAIN s |-> s[k]]
  PROVE  IsList(s) /\ Len(s) = n
<1> DEFINE T == {s[k] : k \in DOMAIN s}
<1>1. s \in [1..n -> T]
  OBVIOUS
<1> HIDE DEF T
<1>2. s \in Seq(T) /\ Len(s) = n
  BY <1>1
<1>. QED  BY <1>2 DEF IsList, T

-----------------------------------------------------------------------------
(* A set that holds 0 and the successor of each of its naturals holds them *)
(* all: a least natural out of it would be the successor of one in it.     *)
LEMMA NaturalsIn ==
  ASSUME NEW S, 0 \in S, \A n \in Nat : n \in S => n + 1 \in S
  PROVE  \A n \in Nat : n \in S
<1> DEFINE R == OpToRel(<, Nat)  T == Nat \ S
<1>1. IsWellFoundedOn(R, Nat)
  BY NatLessThanWellFounded
<1>2. \A x, y \in Nat : y < x => <<y, x>> \in R
  BY DEF OpToRel
<1> HIDE DEF R
<1>3. SUFFICES ASSUME T # {} PROVE FALSE
  OBVIOUS
<1>4. T \subseteq Nat
  OBVIOUS
<1> HIDE DEF T
<1>5. PICK m \in T : \A y \in T : ~ (<<y, m>> \in R)
  BY <1>1, <1>3, <1>4, WFMin
<1>6. m \in Nat /\ m \notin S
  BY DEF T
<1>7. m # 0
  BY <1>6
<1>8. m - 1 \in Nat /\ m - 1 < m /\ (m - 1) + 1 = m
  BY <1>6, <1>7
<1>9. m - 1 \notin T
  BY <1>2, <1>5, <1>6, <1>8
<1>10. m - 1 \in S
  BY <1>8, <1>9 DEF T
<1>. QED  BY <1>6, <1>8, <1>10

-----------------------------------------------------------------------------
(***************************************************************************)
(* The recursive functions are the functions that their equations say.     *)
(***************************************************************************)

(* The levels of the tree: an approximation up to m extends to m + 1.      *)
LEMMA LayersDefined ==
  ASSUME NEW leaves, Len(leaves) \in Nat
  PROVE  Layers(leaves) =
           [n \in 0..Len(leaves) |->
              IF n = 0 THEN leaves ELSE LevelAbove(Layers(leaves)[n - 1])]
<1> DEFINE Tower(g, m) ==
             g = [n \in 0..m |-> IF n = 0 THEN leaves ELSE LevelAbove(g[n - 1])]
           S == {m \in Nat : \E g : Tower(g, m)}
<1>1. 0 \in S
  <2> DEFINE g == [n \in 0..0 |-> leaves]
  <2>1. Tower(g, 0)
    OBVIOUS
  <2>. QED  BY <2>1
<1>2. ASSUME NEW m \in Nat, m \in S PROVE m + 1 \in S
  <2>1. PICK h : Tower(h, m)
    BY <1>2
  <2>2. DOMAIN h = 0..m /\ h[0] = leaves /\ \A n \in 1..m : h[n] = LevelAbove(h[n - 1])
    BY <2>1
  <2> DEFINE g == [n \in 0..(m + 1) |-> IF n = m + 1 THEN LevelAbove(h[m]) ELSE h[n]]
             r == [n \in 0..(m + 1) |-> IF n = 0 THEN leaves ELSE LevelAbove(g[n - 1])]
  <2>3. ASSUME NEW n \in 0..(m + 1) PROVE g[n] = r[n]
    <3>1. CASE n = 0
      BY <2>2, <3>1
    <3>2. CASE n \in 1..m
      <4>1. n # m + 1 /\ n # 0 /\ n - 1 \in 0..(m + 1) /\ n - 1 # m + 1
        BY <3>2
      <4>2. g[n] = h[n] /\ g[n - 1] = h[n - 1]
        BY <4>1
      <4>. QED  BY <2>2, <3>2, <4>1, <4>2
    <3>3. CASE n = m + 1
      <4>1. m \in 0..(m + 1) /\ m # m + 1 /\ n # 0 /\ n - 1 = m
        BY <3>3
      <4>2. g[m] = h[m]
        BY <4>1
      <4>. QED  BY <3>3, <4>1, <4>2
    <3>. QED  BY <3>1, <3>2, <3>3
  <2>4. g = r
    BY <2>3
  <2>5. Tower(g, m + 1)
    BY <2>4
  <2> HIDE DEF g
  <2>. QED  BY <2>5
<1> HIDE DEF Tower
<1>3. \A m \in Nat : m \in S
  <2> HIDE DEF S
  <2>. QED  BY <1>1, <1>2, NaturalsIn
<1>4. \E g : Tower(g, Len(leaves))
  BY <1>3
<1>. QED  BY <1>4, Zenon DEF Layers, Tower
(* The index over a leaf, level by level.                                  *)
LEMMA IndicesDefined ==
  ASSUME NEW leafIndex, NEW height \in Nat
  PROVE  Indices(leafIndex, height) =
           [n \in 0..height |->
              IF n = 0 THEN leafIndex ELSE (Indices(leafIndex, height)[n - 1] + 1) \div 2]
<1> DEFINE Climb(g, m) ==
             g = [n \in 0..m |-> IF n = 0 THEN leafIndex ELSE (g[n - 1] + 1) \div 2]
           S == {m \in Nat : \E g : Climb(g, m)}
<1>1. 0 \in S
  <2> DEFINE g == [n \in 0..0 |-> leafIndex]
  <2>1. Climb(g, 0)
    OBVIOUS
  <2>. QED  BY <2>1
<1>2. ASSUME NEW m \in Nat, m \in S PROVE m + 1 \in S
  <2>1. PICK h : Climb(h, m)
    BY <1>2
  <2>2. DOMAIN h = 0..m /\ h[0] = leafIndex /\ \A n \in 1..m : h[n] = (h[n - 1] + 1) \div 2
    BY <2>1
  <2> DEFINE g == [n \in 0..(m + 1) |-> IF n = m + 1 THEN (h[m] + 1) \div 2 ELSE h[n]]
             r == [n \in 0..(m + 1) |-> IF n = 0 THEN leafIndex ELSE (g[n - 1] + 1) \div 2]
  <2>3. ASSUME NEW n \in 0..(m + 1) PROVE g[n] = r[n]
    <3>1. CASE n = 0
      BY <2>2, <3>1
    <3>2. CASE n \in 1..m
      <4>1. n # m + 1 /\ n # 0 /\ n - 1 \in 0..(m + 1) /\ n - 1 # m + 1
        BY <3>2
      <4>2. g[n] = h[n] /\ g[n - 1] = h[n - 1]
        BY <4>1
      <4>. QED  BY <2>2, <3>2, <4>1, <4>2
    <3>3. CASE n = m + 1
      <4>1. m \in 0..(m + 1) /\ m # m + 1 /\ n # 0 /\ n - 1 = m
        BY <3>3
      <4>2. g[m] = h[m]
        BY <4>1
      <4>. QED  BY <3>3, <4>1, <4>2
    <3>. QED  BY <3>1, <3>2, <3>3
  <2>4. g = r
    BY <2>3
  <2>5. Climb(g, m + 1)
    BY <2>4
  <2> HIDE DEF g
  <2>. QED  BY <2>5
<1> HIDE DEF Climb
<1>3. \A m \in Nat : m \in S
  <2> HIDE DEF S
  <2>. QED  BY <1>1, <1>2, NaturalsIn
<1>4. \E g : Climb(g, height)
  BY <1>3
<1>. QED  BY <1>4, Zenon DEF Indices, Climb

(* The sibling of one level, where there is one.                           *)
WithSibling(level, index, path) ==
  IF Sibling(index) <= Len(level) THEN Append(path, level[Sibling(index)]) ELSE path

(* The siblings gathered up to each level.                                 *)
Path(leaves, leafIndex) ==
  CHOOSE g : g = [n \in 0..Len(leaves) |->
                    IF n = 0 THEN << >>
                    ELSE IF Sibling(Indices(leafIndex, Len(leaves))[n - 1]) <= Len(Layers(leaves)[n - 1])
                         THEN Append(g[n - 1], Layers(leaves)[n - 1][Sibling(Indices(leafIndex, Len(leaves))[n - 1])])
                         ELSE g[n - 1]]

(* getProof returns what was gathered at the top.                          *)
LEMMA PathDefined ==
  ASSUME NEW leaves, Len(leaves) \in Nat, NEW leafIndex
  PROVE  /\ GetProof(leaves, leafIndex) = Path(leaves, leafIndex)[Len(leaves)]
         /\ Path(leaves, leafIndex) =
              [n \in 0..Len(leaves) |->
                 IF n = 0 THEN << >>
                 ELSE WithSibling(Layers(leaves)[n - 1], Indices(leafIndex, Len(leaves))[n - 1],
                                  Path(leaves, leafIndex)[n - 1])]
<1> DEFINE Up(n, path) == WithSibling(Layers(leaves)[n], Indices(leafIndex, Len(leaves))[n], path)
           Gather(g, m) == g = [n \in 0..m |-> IF n = 0 THEN << >> ELSE Up(n - 1, g[n - 1])]
           S == {m \in Nat : \E g : Gather(g, m)}
<1> HIDE DEF Up
<1>1. 0 \in S
  <2> DEFINE g == [n \in 0..0 |-> << >>]
  <2>1. Gather(g, 0)
    OBVIOUS
  <2>. QED  BY <2>1
<1>2. ASSUME NEW m \in Nat, m \in S PROVE m + 1 \in S
  <2>1. PICK h : Gather(h, m)
    BY <1>2
  <2>2. DOMAIN h = 0..m /\ h[0] = << >> /\ \A n \in 1..m : h[n] = Up(n - 1, h[n - 1])
    BY <2>1
  <2> DEFINE g == [n \in 0..(m + 1) |-> IF n = m + 1 THEN Up(m, h[m]) ELSE h[n]]
             r == [n \in 0..(m + 1) |-> IF n = 0 THEN << >> ELSE Up(n - 1, g[n - 1])]
  <2>3. ASSUME NEW n \in 0..(m + 1) PROVE g[n] = r[n]
    <3>1. CASE n = 0
      BY <2>2, <3>1
    <3>2. CASE n \in 1..m
      <4>1. n # m + 1 /\ n # 0 /\ n - 1 \in 0..(m + 1) /\ n - 1 # m + 1
        BY <3>2
      <4>2. g[n] = h[n] /\ g[n - 1] = h[n - 1]
        BY <4>1
      <4>. QED  BY <2>2, <3>2, <4>1, <4>2
    <3>3. CASE n = m + 1
      <4>1. m \in 0..(m + 1) /\ m # m + 1 /\ n # 0 /\ n - 1 = m
        BY <3>3
      <4>2. g[m] = h[m]
        BY <4>1
      <4>. QED  BY <3>3, <4>1, <4>2
    <3>. QED  BY <3>1, <3>2, <3>3
  <2>4. g = r
    BY <2>3
  <2>5. Gather(g, m + 1)
    BY <2>4
  <2> HIDE DEF g
  <2>. QED  BY <2>5
<1> HIDE DEF Gather
<1>3. \A m \in Nat : m \in S
  <2> HIDE DEF S
  <2>. QED  BY <1>1, <1>2, NaturalsIn
<1>4. \E g : Gather(g, Len(leaves))
  BY <1>3
<1>5. Gather(Path(leaves, leafIndex), Len(leaves))
  BY <1>4, Zenon DEF Path, Gather, Up, WithSibling
<1>6. GetProof(leaves, leafIndex) = Path(leaves, leafIndex)[Len(leaves)]
  BY Zenon DEF GetProof, Path
<1>. QED  BY <1>5, <1>6 DEF Gather, Up

(* What is computed after each sibling of a proof.                         *)
Computed(leaf, proof) ==
  CHOOSE g : g = [n \in 0..Len(proof) |-> IF n = 0 THEN leaf ELSE HashPair(g[n - 1], proof[n])]

(* processProof returns what was computed last.                            *)
LEMMA ComputedDefined ==
  ASSUME NEW leaf, NEW proof, Len(proof) \in Nat
  PROVE  /\ ProcessProof(leaf, proof) = Computed(leaf, proof)[Len(proof)]
         /\ Computed(leaf, proof) =
              [n \in 0..Len(proof) |->
                 IF n = 0 THEN leaf ELSE HashPair(Computed(leaf, proof)[n - 1], proof[n])]
<1> DEFINE Rise(g, m) ==
             g = [n \in 0..m |-> IF n = 0 THEN leaf ELSE HashPair(g[n - 1], proof[n])]
           S == {m \in Nat : \E g : Rise(g, m)}
<1>1. 0 \in S
  <2> DEFINE g == [n \in 0..0 |-> leaf]
  <2>1. Rise(g, 0)
    OBVIOUS
  <2>. QED  BY <2>1
<1>2. ASSUME NEW m \in Nat, m \in S PROVE m + 1 \in S
  <2>1. PICK h : Rise(h, m)
    BY <1>2
  <2>2. DOMAIN h = 0..m /\ h[0] = leaf /\ \A n \in 1..m : h[n] = HashPair(h[n - 1], proof[n])
    BY <2>1
  <2> DEFINE g == [n \in 0..(m + 1) |-> IF n = m + 1 THEN HashPair(h[m], proof[m + 1]) ELSE h[n]]
             r == [n \in 0..(m + 1) |-> IF n = 0 THEN leaf ELSE HashPair(g[n - 1], proof[n])]
  <2>3. ASSUME NEW n \in 0..(m + 1) PROVE g[n] = r[n]
    <3>1. CASE n = 0
      BY <2>2, <3>1
    <3>2. CASE n \in 1..m
      <4>1. n # m + 1 /\ n # 0 /\ n - 1 \in 0..(m + 1) /\ n - 1 # m + 1
        BY <3>2
      <4>2. g[n] = h[n] /\ g[n - 1] = h[n - 1]
        BY <4>1
      <4>. QED  BY <2>2, <3>2, <4>1, <4>2
    <3>3. CASE n = m + 1
      <4>1. m \in 0..(m + 1) /\ m # m + 1 /\ n # 0 /\ n - 1 = m
        BY <3>3
      <4>2. g[m] = h[m]
        BY <4>1
      <4>. QED  BY <3>3, <4>1, <4>2
    <3>. QED  BY <3>1, <3>2, <3>3
  <2>4. g = r
    BY <2>3
  <2>5. Rise(g, m + 1)
    BY <2>4
  <2> HIDE DEF g
  <2>. QED  BY <2>5
<1> HIDE DEF Rise
<1>3. \A m \in Nat : m \in S
  <2> HIDE DEF S
  <2>. QED  BY <1>1, <1>2, NaturalsIn
<1>4. \E g : Rise(g, Len(proof))
  BY <1>3
<1>5. Rise(Computed(leaf, proof), Len(proof))
  BY <1>4, Zenon DEF Computed, Rise
<1>6. ProcessProof(leaf, proof) = Computed(leaf, proof)[Len(proof)]
  BY Zenon DEF ProcessProof, Computed
<1>. QED  BY <1>5, <1>6 DEF Rise
-----------------------------------------------------------------------------
(***************************************************************************)
(* One level and one sibling                                               *)
(***************************************************************************)

(* The digest of a sorted pair does not tell its halves apart, and gives   *)
(* each of them back when the other one is known.                          *)
LEMMA PairFacts ==
  ASSUME NEW a, NEW b, NEW c
  PROVE  /\ HashPair(a, b) = HashPair(b, a)
         /\ HashPair(a, c) = HashPair(b, c) => a = b
<1>1. {a, b} = {b, a}
  OBVIOUS
<1>2. ASSUME {a, c} = {b, c} PROVE a = b
  <2>1. a \in {b, c} /\ b \in {a, c}
    BY <1>2
  <2>. QED  BY <2>1
<1>3. HashPair(a, c) = HashPair(b, c) => {a, c} = {b, c}
  BY DEF HashPair
<1>. QED  BY <1>1, <1>2, <1>3 DEF HashPair

(* What stands above position i of a level: the digest of the pair with    *)
(* the sibling, or the same digest where there is none.                    *)
LEMMA OneLevelUp ==
  ASSUME NEW s, IsList(s), NEW i \in 1..Len(s)
  PROVE  /\ IsList(LevelAbove(s))
         /\ Len(LevelAbove(s)) = (Len(s) + 1) \div 2
         /\ (i + 1) \div 2 \in 1..Len(LevelAbove(s))
         /\ Sibling(i) \in Nat
         /\ Sibling(i) <= Len(s) => LevelAbove(s)[(i + 1) \div 2] = HashPair(s[i], s[Sibling(i)])
         /\ ~ (Sibling(i) <= Len(s)) => LevelAbove(s)[(i + 1) \div 2] = s[i]
<1> DEFINE u == LevelAbove(s)
           N == Len(s)
           M == (N + 1) \div 2
           j == (i + 1) \div 2
<1>1. N \in Nat
  BY ListFacts
<1>2. M \in Nat /\ j \in 1..M
  BY <1>1
<1>3. DOMAIN u = 1..M /\ u = [k \in DOMAIN u |-> u[k]]
  BY DEF LevelAbove
<1>4. IsList(u) /\ Len(u) = M
  BY <1>2, <1>3, FunctionIsList
<1>5. u[j] = IF 2 * j <= N THEN HashPair(s[2 * j - 1], s[2 * j]) ELSE s[2 * j - 1]
  BY <1>2 DEF LevelAbove
<1>6. CASE i % 2 = 1
  <2>1. i = 2 * j - 1 /\ Sibling(i) = 2 * j
    BY <1>1, <1>6 DEF Sibling
  <2>2. Sibling(i) \in Nat
    BY <2>1, <1>6 DEF Sibling
  <2> HIDE DEF u, j
  <2>3. Sibling(i) <= N => u[j] = HashPair(s[i], s[Sibling(i)])
    BY <1>5, <2>1
  <2>4. ~ (Sibling(i) <= N) => u[j] = s[i]
    BY <1>5, <2>1
  <2>. QED  BY <1>2, <1>4, <2>2, <2>3, <2>4 DEF u, j
<1>7. CASE i % 2 # 1
  <2>1. i = 2 * j /\ Sibling(i) = 2 * j - 1
    BY <1>1, <1>7 DEF Sibling
  <2>2. Sibling(i) \in Nat /\ Sibling(i) <= N /\ 2 * j <= N
    BY <1>1, <1>7, <2>1 DEF Sibling
  <2> HIDE DEF u, j
  <2>3. u[j] = HashPair(s[Sibling(i)], s[i])
    BY <1>5, <2>1, <2>2
  <2>4. u[j] = HashPair(s[i], s[Sibling(i)])
    BY <2>3, PairFacts
  <2>. QED  BY <1>2, <1>4, <2>2, <2>4 DEF u, j
<1>. QED  BY <1>6, <1>7

(* A proof without a sibling leads to the leaf itself.                     *)
LEMMA ProcessNothing ==
  ASSUME NEW leaf
  PROVE  ProcessProof(leaf, << >>) = leaf
<1>1. ASSUME NEW p, Len(p) \in Nat, Len(p) = 0 PROVE ProcessProof(leaf, p) = leaf
  <2> DEFINE c == Computed(leaf, p)
  <2>1. /\ ProcessProof(leaf, p) = c[Len(p)]
        /\ c = [n \in 0..Len(p) |-> IF n = 0 THEN leaf ELSE HashPair(c[n - 1], p[n])]
    BY ONLY Len(p) \in Nat, ComputedDefined
  <2> HIDE DEF c
  <2>2. 0 \in 0..Len(p)
    BY <1>1
  <2>3. c[0] = leaf
    BY <2>1, <2>2
  <2>. QED  BY <1>1, <2>1, <2>3
<1>2. Len(<< >>) = 0
  OBVIOUS
<1>. QED  BY <1>1, <1>2

(* One sibling more is one digest more.                                    *)
LEMMA ProcessOneMore ==
  ASSUME NEW leaf, NEW p, IsList(p), NEW s
  PROVE  ProcessProof(leaf, Append(p, s)) = HashPair(ProcessProof(leaf, p), s)
<1> DEFINE q == Append(p, s)
           c == Computed(leaf, p)
           d == Computed(leaf, q)
           S == {n \in Nat : n \in 0..Len(p) => d[n] = c[n]}
<1>1. Len(p) \in Nat
  BY ListFacts
<1>2. Len(q) = Len(p) + 1 /\ DOMAIN p = 1..Len(p)
  BY ListAppend, ListFacts
<1>3. (\A k \in 1..Len(p) : q[k] = p[k]) /\ q[Len(p) + 1] = s
  BY <1>2, ListAppend
<1> HIDE DEF q
<1>4. /\ ProcessProof(leaf, p) = c[Len(p)]
      /\ c = [n \in 0..Len(p) |-> IF n = 0 THEN leaf ELSE HashPair(c[n - 1], p[n])]
  BY <1>1, ComputedDefined
<1>5. /\ ProcessProof(leaf, q) = d[Len(q)]
      /\ d = [n \in 0..Len(q) |-> IF n = 0 THEN leaf ELSE HashPair(d[n - 1], q[n])]
  BY <1>1, <1>2, ComputedDefined
<1> HIDE DEF c, d
<1>6. 0 \in S
  <2>1. 0 \in 0..Len(p) /\ 0 \in 0..Len(q)
    BY <1>1, <1>2
  <2>2. c[0] = leaf
    BY <1>4, <2>1
  <2>3. d[0] = leaf
    BY <1>5, <2>1
  <2>. QED  BY <2>2, <2>3
<1>7. ASSUME NEW n \in Nat, n \in S PROVE n + 1 \in S
  <2>1. SUFFICES ASSUME n + 1 \in 0..Len(p) PROVE d[n + 1] = c[n + 1]
    OBVIOUS
  <2>2. /\ n \in 0..Len(p) /\ n + 1 \in 1..Len(p) /\ n + 1 # 0 /\ (n + 1) - 1 = n
        /\ n + 1 \in 0..Len(q)
    BY <1>1, <1>2, <2>1
  <2>3. d[n] = c[n]
    BY <1>7, <2>2
  <2>4. c[n + 1] = HashPair(c[n], p[n + 1])
    BY <1>4, <2>1, <2>2
  <2>5. d[n + 1] = HashPair(d[n], q[n + 1])
    BY <1>5, <2>2
  <2>. QED  BY <1>3, <2>2, <2>3, <2>4, <2>5
<1>8. \A n \in Nat : n \in S
  <2> HIDE DEF S
  <2>. QED  BY <1>6, <1>7, NaturalsIn
<1>9. d[Len(p)] = c[Len(p)]
  BY <1>1, <1>8
<1>10. Len(p) + 1 \in 0..Len(q) /\ Len(p) + 1 # 0 /\ (Len(p) + 1) - 1 = Len(p)
  BY <1>1, <1>2
<1>11. d[Len(p) + 1] = HashPair(d[Len(p)], q[Len(p) + 1])
  BY <1>5, <1>10
<1>. QED  BY <1>2, <1>3, <1>4, <1>5, <1>9, <1>11 DEF q
-----------------------------------------------------------------------------
(***************************************************************************)
(* A proof leads from one leaf to the root                                 *)
(***************************************************************************)

(* Two leaves that a proof leads to the same root are one leaf: whatever   *)
(* the siblings are, MerkleUtil.verifyProof accepts no other leaf with     *)
(* them than the one they were computed for.                               *)
THEOREM ProofOfOneLeaf ==
  ASSUME NEW a, NEW b, NEW p, IsList(p), NEW root,
         VerifyProof(a, p, root), VerifyProof(b, p, root)
  PROVE  a = b
<1> DEFINE c == Computed(a, p)
           d == Computed(b, p)
           S == {n \in Nat : n \in 0..Len(p) /\ c[n] = d[n] => a = b}
<1>1. Len(p) \in Nat
  BY ListFacts
<1>2. /\ ProcessProof(a, p) = c[Len(p)]
      /\ c = [n \in 0..Len(p) |-> IF n = 0 THEN a ELSE HashPair(c[n - 1], p[n])]
  BY <1>1, ComputedDefined
<1>3. /\ ProcessProof(b, p) = d[Len(p)]
      /\ d = [n \in 0..Len(p) |-> IF n = 0 THEN b ELSE HashPair(d[n - 1], p[n])]
  BY <1>1, ComputedDefined
<1> HIDE DEF c, d
<1>4. 0 \in S
  <2>1. 0 \in 0..Len(p)
    BY <1>1
  <2>2. c[0] = a
    BY <1>2, <2>1
  <2>3. d[0] = b
    BY <1>3, <2>1
  <2>. QED  BY <2>2, <2>3
<1>5. ASSUME NEW n \in Nat, n \in S PROVE n + 1 \in S
  <2>1. SUFFICES ASSUME n + 1 \in 0..Len(p), c[n + 1] = d[n + 1] PROVE a = b
    OBVIOUS
  <2>2. n \in 0..Len(p) /\ n + 1 # 0 /\ (n + 1) - 1 = n
    BY <1>1, <2>1
  <2>3. c[n + 1] = HashPair(c[n], p[n + 1])
    BY <1>2, <2>1, <2>2
  <2>4. d[n + 1] = HashPair(d[n], p[n + 1])
    BY <1>3, <2>1, <2>2
  <2>5. c[n] = d[n]
    <3> DEFINE x == c[n]  y == d[n]  s == p[n + 1]
    <3>1. HashPair(x, s) = HashPair(y, s)
      BY <2>1, <2>3, <2>4
    <3> HIDE DEF x, y, s
    <3>2. x = y
      BY <3>1, PairFacts
    <3>. QED  BY <3>2 DEF x, y
  <2>. QED  BY <1>5, <2>2, <2>5
<1>6. \A n \in Nat : n \in S
  <2> HIDE DEF S
  <2>. QED  BY <1>4, <1>5, NaturalsIn
<1>7. c[Len(p)] = d[Len(p)]
  BY <1>2, <1>3 DEF VerifyProof
<1>8. Len(p) \in 0..Len(p)
  BY <1>1
<1>. QED  BY <1>1, <1>6, <1>7, <1>8

(* What holds at each level: a path is over a digest of the level, the     *)
(* siblings gathered so far lead to it, and the levels shrink to one       *)
(* digest.                                                                 *)
Reached(leaf, level, index, path, bound) ==
  /\ IsList(level)
  /\ index \in 1..Len(level)
  /\ Len(level) <= bound \/ Len(level) = 1
  /\ IsList(path)
  /\ ProcessProof(leaf, path) = level[index]

(* One level up.                                                           *)
LEMMA ReachedAbove ==
  ASSUME NEW leaf, NEW level, NEW index, NEW path, NEW bound \in Nat,
         Reached(leaf, level, index, path, bound + 1)
  PROVE  Reached(leaf, LevelAbove(level), (index + 1) \div 2, WithSibling(level, index, path), bound)
<1> DEFINE u == LevelAbove(level)
           j == (index + 1) \div 2
           q == WithSibling(level, index, path)
<1>1. /\ IsList(level) /\ index \in 1..Len(level) /\ IsList(path)
      /\ ProcessProof(leaf, path) = level[index]
      /\ Len(level) <= bound + 1 \/ Len(level) = 1
  BY DEF Reached
<1>2. Len(level) \in Nat
  BY <1>1, ListFacts
<1>3. /\ IsList(u) /\ Len(u) = (Len(level) + 1) \div 2 /\ j \in 1..Len(u)
      /\ Sibling(index) <= Len(level) => u[j] = HashPair(level[index], level[Sibling(index)])
      /\ ~ (Sibling(index) <= Len(level)) => u[j] = level[index]
  BY <1>1, OneLevelUp
<1> HIDE DEF u, j
<1>4. Len(u) <= bound \/ Len(u) = 1
  BY <1>1, <1>2, <1>3
<1>5. IsList(q) /\ ProcessProof(leaf, q) = u[j]
  <2>1. CASE Sibling(index) <= Len(level)
    <3>1. q = Append(path, level[Sibling(index)])
      BY <2>1 DEF WithSibling
    <3> HIDE DEF q
    <3>. QED  BY <1>1, <1>3, <2>1, <3>1, ListAppend, ProcessOneMore
  <2>2. CASE ~ (Sibling(index) <= Len(level))
    <3>1. q = path
      BY <2>2 DEF WithSibling
    <3>. QED  BY <1>1, <1>3, <2>2, <3>1
  <2>. QED  BY <2>1, <2>2
<1>. QED  BY <1>3, <1>4, <1>5 DEF Reached, u, j

(* The proof of each leaf leads to the root, for any number of leaves and  *)
(* any place, an orphan promoted at any levels included                    *)
(* (MerkleUtil.getProof and verifyProof).                                  *)
THEOREM ProofLeadsToRoot ==
  ASSUME NEW leaves, IsList(leaves), NEW k \in 1..Len(leaves)
  PROVE  /\ IsList(GetProof(leaves, k))
         /\ VerifyProof(leaves[k], GetProof(leaves, k), Root(leaves))
<1> DEFINE N == Len(leaves)
           layers == Layers(leaves)
           indices == Indices(k, N)
           path == Path(leaves, k)
           S == {n \in Nat : n \in 0..N => Reached(leaves[k], layers[n], indices[n], path[n], N - n)}
<1>1. N \in Nat /\ N # 0 /\ k \in 1..N
  BY ListFacts
<1>2. layers = [n \in 0..N |-> IF n = 0 THEN leaves ELSE LevelAbove(layers[n - 1])]
  BY <1>1, LayersDefined
<1>3. indices = [n \in 0..N |-> IF n = 0 THEN k ELSE (indices[n - 1] + 1) \div 2]
  BY <1>1, IndicesDefined
<1>4. /\ GetProof(leaves, k) = path[N]
      /\ path = [n \in 0..N |-> IF n = 0 THEN << >>
                                ELSE WithSibling(layers[n - 1], indices[n - 1], path[n - 1])]
  BY <1>1, PathDefined
<1>5. Root(leaves) = layers[N][1]
  BY DEF Root
<1> HIDE DEF N, layers, indices, path
<1>6. 0 \in S
  <2>1. 0 \in 0..N /\ N - 0 = N
    BY <1>1
  <2>2. layers[0] = leaves
    BY <1>2, <2>1
  <2>3. indices[0] = k
    BY <1>3, <2>1
  <2>4. path[0] = << >>
    BY <1>4, <2>1
  <2>5. IsList(<< >>)
    <3>1. << >> \in Seq({})
      OBVIOUS
    <3>. QED  BY <3>1, SequenceIsList
  <2>6. Len(leaves) <= N
    BY <1>1 DEF N
  <2>7. Reached(leaves[k], leaves, k, << >>, N)
    BY <1>1, <2>5, <2>6, ProcessNothing DEF Reached, N
  <2>. QED  BY <2>1, <2>2, <2>3, <2>4, <2>7
<1>7. ASSUME NEW n \in Nat, n \in S PROVE n + 1 \in S
  <2>1. SUFFICES ASSUME n + 1 \in 0..N
                 PROVE  Reached(leaves[k], layers[n + 1], indices[n + 1], path[n + 1], N - (n + 1))
    OBVIOUS
  <2>2. /\ n \in 0..N /\ n + 1 # 0 /\ (n + 1) - 1 = n
        /\ N - (n + 1) \in Nat /\ (N - (n + 1)) + 1 = N - n
    BY <1>1, <2>1
  <2>3. Reached(leaves[k], layers[n], indices[n], path[n], N - n)
    BY <1>7, <2>2
  <2>4. layers[n + 1] = LevelAbove(layers[n])
    BY <1>2, <2>1, <2>2
  <2>5. indices[n + 1] = (indices[n] + 1) \div 2
    BY <1>3, <2>1, <2>2
  <2>6. path[n + 1] = WithSibling(layers[n], indices[n], path[n])
    BY <1>4, <2>1, <2>2
  <2>. QED  BY <2>2, <2>3, <2>4, <2>5, <2>6, ReachedAbove
<1>8. \A n \in Nat : n \in S
  <2> HIDE DEF S
  <2>. QED  BY <1>6, <1>7, NaturalsIn
<1>9. Reached(leaves[k], layers[N], indices[N], path[N], N - N)
  BY <1>1, <1>8
<1>10. Len(layers[N]) = 1 /\ indices[N] = 1
  <2>1. IsList(layers[N]) /\ indices[N] \in 1..Len(layers[N])
        /\ (Len(layers[N]) <= N - N \/ Len(layers[N]) = 1)
    BY <1>9 DEF Reached
  <2>2. Len(layers[N]) \in Nat
    BY <2>1, ListFacts
  <2>3. Len(layers[N]) = 1
    BY <1>1, <2>1, <2>2
  <2>. QED  BY <2>1, <2>3
<1>11. IsList(path[N]) /\ ProcessProof(leaves[k], path[N]) = layers[N][1]
  BY <1>9, <1>10 DEF Reached
<1>. QED  BY <1>4, <1>5, <1>11 DEF VerifyProof
(* No level of a tree is empty.                                            *)
LEMMA LayersInhabited ==
  ASSUME NEW leaves, IsList(leaves), Len(leaves) # 0, NEW n \in 0..Len(leaves)
  PROVE  IsList(Layers(leaves)[n]) /\ Len(Layers(leaves)[n]) # 0
<1> DEFINE N == Len(leaves)
           layers == Layers(leaves)
           S == {m \in Nat : m \in 0..N => IsList(layers[m]) /\ Len(layers[m]) # 0}
<1>1. N \in Nat
  BY ListFacts
<1>2. layers = [m \in 0..N |-> IF m = 0 THEN leaves ELSE LevelAbove(layers[m - 1])]
  BY <1>1, LayersDefined
<1>3. N = Len(leaves)
  OBVIOUS
<1> HIDE DEF N, layers
<1>4. 0 \in S
  <2>1. 0 \in 0..N
    BY <1>1
  <2>2. layers[0] = leaves
    BY <1>2, <2>1
  <2>. QED  BY <2>2
<1>5. ASSUME NEW m \in Nat, m \in S PROVE m + 1 \in S
  <2>1. SUFFICES ASSUME m + 1 \in 0..N
                 PROVE  IsList(layers[m + 1]) /\ Len(layers[m + 1]) # 0
    OBVIOUS
  <2>2. m \in 0..N /\ m + 1 # 0 /\ (m + 1) - 1 = m
    BY <1>1, <2>1
  <2>3. layers[m + 1] = LevelAbove(layers[m])
    BY <1>2, <2>1, <2>2
  <2>4. IsList(layers[m]) /\ Len(layers[m]) # 0
    BY <1>5, <2>2
  <2> DEFINE s == layers[m]
  <2>5. IsList(s) /\ Len(s) # 0
    BY <2>4
  <2> HIDE DEF s
  <2>6. 1 \in 1..Len(s)
    BY <2>5, ListFacts
  <2>7. IsList(LevelAbove(s)) /\ (1 + 1) \div 2 \in 1..Len(LevelAbove(s))
    BY <2>5, <2>6, OneLevelUp
  <2>8. Len(LevelAbove(s)) # 0
    BY <2>7
  <2>. QED  BY <2>3, <2>7, <2>8 DEF s
<1>6. \A m \in Nat : m \in S
  <2> HIDE DEF S
  <2>. QED  BY <1>4, <1>5, NaturalsIn
<1>7. n \in Nat /\ n \in 0..N
  BY <1>3
<1>. QED  BY <1>6, <1>7 DEF layers

(* A digest computed on the way of a proof that stands in a level comes    *)
(* from a digest of the level below: from the pair it hashes, or from the  *)
(* orphan it repeats.                                                      *)
LEMMA FromBelow ==
  ASSUME NEW s, IsList(s), NEW j \in 1..Len(LevelAbove(s)), Len(s) # 0
  PROVE  \/ \E i \in 1..Len(s) : LevelAbove(s)[j] = s[i]
         \/ \E i, k \in 1..Len(s) : LevelAbove(s)[j] = HashPair(s[i], s[k])
<1>1. Len(s) \in Nat /\ 1 \in 1..Len(s)
  BY ListFacts
<1>2. Len(LevelAbove(s)) = (Len(s) + 1) \div 2
  BY <1>1, OneLevelUp
<1>3. j \in 1..((Len(s) + 1) \div 2)
  BY <1>2
<1>4. LevelAbove(s)[j] = IF 2 * j <= Len(s) THEN HashPair(s[2 * j - 1], s[2 * j]) ELSE s[2 * j - 1]
  BY <1>3 DEF LevelAbove
<1>5. 2 * j - 1 \in 1..Len(s)
  BY <1>1, <1>3
<1>6. 2 * j <= Len(s) => 2 * j \in 1..Len(s)
  BY <1>1, <1>3
<1>. QED  BY <1>4, <1>5, <1>6

(* Nothing but a leaf of the tree has a proof: whatever the siblings given *)
(* with it, a fingerprint whose leaf leads to the root is the fingerprint  *)
(* of a leaf.  It rests on the second hash of toLeaf, which keeps the leaf *)
(* of a fingerprint apart from every inner node.                           *)
THEOREM ProvenIsInTree ==
  ASSUME NEW leaves, IsList(leaves), Len(leaves) # 0,
         \A k \in 1..Len(leaves) : \E y : leaves[k] = ToLeaf(y),
         NEW x, NEW p, IsList(p), VerifyProof(ToLeaf(x), p, Root(leaves))
  PROVE  \E k \in 1..Len(leaves) : leaves[k] = ToLeaf(x)
<1> DEFINE N == Len(leaves)
           L == Len(p)
           layers == Layers(leaves)
           c == Computed(ToLeaf(x), p)
           Listed == \E k \in 1..Len(leaves) : leaves[k] = ToLeaf(x)
           S == {n \in Nat : n \in 0..N =>
                   \A m \in 0..L : \A j \in 1..Len(layers[n]) : c[m] = layers[n][j] => Listed}
<1>1. N \in Nat /\ L \in Nat /\ N # 0
  BY ListFacts
<1>2. layers = [n \in 0..N |-> IF n = 0 THEN leaves ELSE LevelAbove(layers[n - 1])]
  BY <1>1, LayersDefined
<1>3. /\ ProcessProof(ToLeaf(x), p) = c[L]
      /\ c = [n \in 0..L |-> IF n = 0 THEN ToLeaf(x) ELSE HashPair(c[n - 1], p[n])]
  BY <1>1, ComputedDefined
<1>4. Root(leaves) = layers[N][1]
  BY DEF Root
<1>5. \A y, a, b : ToLeaf(y) # HashPair(a, b)
  BY DEF ToLeaf, HashPair
<1>6. \A n \in 0..N : IsList(layers[n]) /\ Len(layers[n]) # 0
  BY LayersInhabited
<1>7. c[L] = layers[N][1]
  BY <1>3, <1>4 DEF VerifyProof
<1>8. \A k \in 1..N : \E y : leaves[k] = ToLeaf(y)
  OBVIOUS
<1>9. (\E k \in 1..N : leaves[k] = ToLeaf(x)) => Listed
  OBVIOUS
<1>10. N = Len(leaves)
  OBVIOUS
<1> HIDE DEF N, L, layers, c, Listed
<1>11. c[0] = ToLeaf(x)
  <2>1. 0 \in 0..L
    BY <1>1
  <2>. QED  BY <1>3, <2>1
<1>12. ASSUME NEW m \in 0..L, m # 0 PROVE m - 1 \in 0..L /\ c[m] = HashPair(c[m - 1], p[m])
  <2>1. m - 1 \in 0..L
    BY <1>1, <1>12
  <2>. QED  BY <1>3, <1>12, <2>1
<1>13. 0 \in S
  <2>1. 0 \in 0..N
    BY <1>1
  <2>2. layers[0] = leaves
    BY <1>2, <2>1
  <2>3. ASSUME NEW m \in 0..L, NEW j \in 1..N, c[m] = leaves[j] PROVE Listed
    <3>1. CASE m = 0
      BY <1>9, <1>11, <2>3, <3>1
    <3>2. CASE m # 0
      <4>1. c[m] = HashPair(c[m - 1], p[m])
        BY <1>12, <3>2
      <4>2. PICK y : leaves[j] = ToLeaf(y)
        BY <1>8
      <4>. QED  BY <1>5, <2>3, <4>1, <4>2
    <3>. QED  BY <3>1, <3>2
  <2>. QED  BY <1>10, <2>2, <2>3
<1>14. ASSUME NEW n \in Nat, n \in S PROVE n + 1 \in S
  <2>1. SUFFICES ASSUME n + 1 \in 0..N, NEW m \in 0..L, NEW j \in 1..Len(layers[n + 1]),
                        c[m] = layers[n + 1][j]
                 PROVE  Listed
    OBVIOUS
  <2>2. n \in 0..N /\ n + 1 # 0 /\ (n + 1) - 1 = n
    BY <1>1, <2>1
  <2> DEFINE s == layers[n]
  <2>3. IsList(s) /\ Len(s) # 0
    BY <1>6, <2>2
  <2>4. layers[n + 1] = LevelAbove(s)
    BY <1>2, <2>1, <2>2
  <2>5. \A l \in 0..L : \A i \in 1..Len(s) : c[l] = s[i] => Listed
    BY <1>14, <2>2
  <2> HIDE DEF s
  <2>6. j \in 1..Len(LevelAbove(s)) /\ c[m] = LevelAbove(s)[j]
    BY <2>1, <2>4
  <2>7. \/ \E i \in 1..Len(s) : LevelAbove(s)[j] = s[i]
        \/ \E i, k \in 1..Len(s) : LevelAbove(s)[j] = HashPair(s[i], s[k])
    BY <2>3, <2>6, FromBelow
  <2>8. CASE \E i \in 1..Len(s) : LevelAbove(s)[j] = s[i]
    BY <2>5, <2>6, <2>8
  <2>9. CASE \E i, k \in 1..Len(s) : LevelAbove(s)[j] = HashPair(s[i], s[k])
    <3>1. PICK i, k \in 1..Len(s) : c[m] = HashPair(s[i], s[k])
      BY <2>6, <2>9
    <3>2. m # 0
      BY <1>5, <1>11, <3>1
    <3>3. m - 1 \in 0..L /\ c[m] = HashPair(c[m - 1], p[m])
      BY <1>12, <3>2
    <3>4. {c[m - 1], p[m]} = {s[i], s[k]}
      <4> DEFINE P == {c[m - 1], p[m]}  Q == {s[i], s[k]}
      <4>1. <<"node", P>> = <<"node", Q>>
        BY <3>1, <3>3, Zenon DEF HashPair
      <4> HIDE DEF P, Q
      <4>2. P = Q
        BY <4>1
      <4>. QED  BY <4>2 DEF P, Q
    <3>5. c[m - 1] = s[i] \/ c[m - 1] = s[k]
      <4>1. c[m - 1] \in {s[i], s[k]}
        BY <3>4
      <4>. QED  BY <4>1
    <3>. QED  BY <2>5, <3>3, <3>5
  <2>. QED  BY <2>7, <2>8, <2>9
<1>15. \A n \in Nat : n \in S
  <2> HIDE DEF S
  <2>. QED  BY <1>13, <1>14, NaturalsIn
<1>16. N \in 0..N /\ L \in 0..L
  BY <1>1
<1>17. 1 \in 1..Len(layers[N])
  <2>1. IsList(layers[N]) /\ Len(layers[N]) # 0
    BY <1>6, <1>16
  <2>2. Len(layers[N]) \in Nat
    BY <2>1, ListFacts
  <2>. QED  BY <2>1, <2>2
<1>. QED  BY <1>1, <1>7, <1>15, <1>16, <1>17 DEF Listed
=============================================================================
