--------------------------- MODULE ChainStateProofs ---------------------------
(***************************************************************************)
(* The proofs about the chain state: which blocks are passed on, what a    *)
(* reorganisation reads and writes, and what that keeps of memory, of the  *)
(* files and databases, and of the disk.                                   *)
(***************************************************************************)
EXTENDS ChainState, ChainCoinsProofs

-----------------------------------------------------------------------------
(* Branches *)

\* The way from f up to b, f itself as its 0-th block.
PathOf(f, b) == ByHeight(Chain[b] \ Chain[f])
Point(f, b, i) == IF i = 0 THEN f ELSE PathOf(f, b)[i]

\* The blocks of b's chain above f are those of greater height.
LEMMA AboveIs ==
  ASSUME NEW b \in Blocks, NEW f \in Chain[b]
  PROVE  /\ f \in Blocks /\ nHeight[f] \in Nat /\ nHeight[b] \in Nat /\ nHeight[f] <= nHeight[b]
         /\ Chain[f] \subseteq Chain[b] /\ Chain[b] \subseteq Blocks
         /\ \A c \in Chain[b] : c \in Chain[f] <=> nHeight[c] <= nHeight[f]
<1>1. f \in Blocks /\ Chain[f] \subseteq Chain[b] /\ b \in Chain[b] /\ f \in Chain[f]
  BY Ancestors
<1>2. \A c \in Chain[b] : c \in Blocks /\ nHeight[c] \in Nat
  BY SameChain
<1>3. Chain[b] \subseteq Blocks
  BY <1>2
<1>4. nHeight[f] <= nHeight[b]
  <2>1. f # b => nHeight[f] < nHeight[b]
    BY Ancestors
  <2> QED
    BY <1>1, <1>2, <2>1
<1>5. ASSUME NEW c \in Chain[b]
      PROVE  c \in Chain[f] <=> nHeight[c] <= nHeight[f]
  <2>1. nHeight[c] <= nHeight[f] => c \in Chain[f]
    BY ChainOrder
  <2>2. c \in Chain[f] /\ c # f => nHeight[c] < nHeight[f]
    BY <1>1, Ancestors
  <2> QED
    BY <1>2, <2>1, <2>2
<1> QED
  BY <1>1, <1>2, <1>3, <1>4, <1>5

\* Above f there is one of each height, up to b's.
LEMMA Counting ==
  ASSUME NEW f \in Blocks, NEW b \in Blocks, f \in Chain[b]
  PROVE  /\ IsFiniteSet(Chain[b] \ Chain[f])
         /\ Cardinality(Chain[b] \ Chain[f]) = nHeight[b] - nHeight[f]
         /\ \A i \in 1..(nHeight[b] - nHeight[f]) :
              \E c \in Chain[b] \ Chain[f] : nHeight[c] = nHeight[f] + i
<1> DEFINE Right(c) ==
             /\ IsFiniteSet(Chain[c] \ Chain[f])
             /\ Cardinality(Chain[c] \ Chain[f]) = nHeight[c] - nHeight[f]
             /\ \A i \in 1..(nHeight[c] - nHeight[f]) :
                  \E d \in Chain[c] \ Chain[f] : nHeight[d] = nHeight[f] + i
           S == {c \in Blocks : f \in Chain[c] => Right(c)}
<1>0. nHeight \in [Blocks -> Nat \ {0}]
  BY Heights
<1>1. Right(f)
  <2>1. Chain[f] \ Chain[f] = {}
    OBVIOUS
  <2>2. nHeight[f] - nHeight[f] = 0 /\ 1..0 = {}
    BY <1>0
  <2>3. IsFiniteSet({}) /\ Cardinality({}) = 0
    BY FS_EmptySet
  <2> QED
    BY <2>1, <2>2, <2>3
<1>2. Base \in S
  <2>1. Base \in Blocks /\ Chain[Base] = {Base}
    BY Chains, TreeAssumption
  <2>2. f \in Chain[Base] => f = Base
    BY <2>1
  <2> QED
    BY <1>1, <2>1, <2>2
<1>3. ASSUME NEW c \in Blocks \ {Base}, Parent[c] \in S
      PROVE  c \in S
  <2> SUFFICES ASSUME f \in Chain[c] PROVE Right(c)
    OBVIOUS
  <2>1. CASE f = c
    BY <1>1, <2>1
  <2>2. CASE f # c
    <3> DEFINE p == Parent[c]
               A == Chain[p] \ Chain[f]
    <3>1. p \in Blocks /\ Chain[c] = Chain[p] \cup {c} /\ nHeight[c] = nHeight[p] + 1
      BY Chains, Heights, TreeAssumption
    <3>2. c \notin Chain[f] /\ c \notin A
      <4>1. c \in Chain[c] /\ c \notin Chain[p]
        BY Ancestors, SameChain
      <4>2. f \in Chain[p] /\ Chain[f] \subseteq Chain[p]
        BY <2>2, <3>1, Ancestors
      <4> QED
        BY <4>1, <4>2
    <3>3. Chain[c] \ Chain[f] = A \cup {c}
      BY <3>1, <3>2
    <3>4. Right(p) /\ nHeight[f] <= nHeight[p]
      <4>1. f \in Chain[p]
        BY <2>2, <3>1
      <4> QED
        BY <1>3, <3>1, <4>1, AboveIs
    <3>5. IsFiniteSet(A \cup {c}) /\ Cardinality(A \cup {c}) = Cardinality(A) + 1
      BY <3>2, <3>4, FS_AddElement
    <3>6. nHeight[c] \in Nat /\ nHeight[f] \in Nat /\ nHeight[p] \in Nat
      BY <1>0, <3>1
    <3>7. ASSUME NEW i \in 1..(nHeight[c] - nHeight[f])
          PROVE  \E d \in Chain[c] \ Chain[f] : nHeight[d] = nHeight[f] + i
      <4>1. CASE i \in 1..(nHeight[p] - nHeight[f])
        BY <3>3, <3>4, <4>1
      <4>2. CASE i \notin 1..(nHeight[p] - nHeight[f])
        <5>1. nHeight[c] = nHeight[f] + i
          BY <3>1, <3>4, <3>6, <4>2
        <5> QED
          BY <3>3, <5>1
      <4> QED
        BY <4>1, <4>2
    <3>8. Cardinality(A \cup {c}) = nHeight[c] - nHeight[f]
      <4> DEFINE k == Cardinality(A)
      <4>1. k = nHeight[p] - nHeight[f]
        BY <3>4
      <4>2. Cardinality(A \cup {c}) = k + 1
        BY <3>5
      <4> HIDE DEF k
      <4> QED
        BY <3>1, <3>6, <4>1, <4>2
    <3>9. IsFiniteSet(Chain[c] \ Chain[f])
      BY <3>3, <3>5
    <3>10. Cardinality(Chain[c] \ Chain[f]) = nHeight[c] - nHeight[f]
      BY <3>3, <3>8
    <3> QED
      BY <3>7, <3>9, <3>10
  <2> QED
    BY <2>1, <2>2
<1>4. b \in S
  <2> HIDE DEF S
  <2> QED
    BY <1>2, <1>3, TreeInduction
<1> QED
  BY <1>4

\* The path above f is one block per height, each the child of the one before.
LEMMA PathIs ==
  ASSUME NEW b \in Blocks, NEW f \in Chain[b]
  PROVE  /\ Len(PathOf(f, b)) = nHeight[b] - nHeight[f] /\ Len(PathOf(f, b)) \in Nat
         /\ PathOf(f, b) \in Seq(Blocks \ {Base})
         /\ \A i \in 1..Len(PathOf(f, b)) :
              /\ PathOf(f, b)[i] \in Chain[b] \ Chain[f]
              /\ PathOf(f, b)[i] \in Blocks \ {Base}
              /\ nHeight[PathOf(f, b)[i]] = nHeight[f] + i
         /\ \A c \in Chain[b] \ Chain[f] :
              /\ nHeight[c] - nHeight[f] \in 1..Len(PathOf(f, b))
              /\ c = PathOf(f, b)[nHeight[c] - nHeight[f]]
<1> DEFINE S == Chain[b] \ Chain[f]
           n == nHeight[b] - nHeight[f]
           p == PathOf(f, b)
           Rank(c) == Cardinality(LowerThan(S, c))
<1>1. /\ f \in Blocks /\ nHeight[f] \in Nat /\ nHeight[b] \in Nat /\ nHeight[f] <= nHeight[b]
      /\ Chain[f] \subseteq Chain[b] /\ Chain[b] \subseteq Blocks
      /\ \A c \in Chain[b] : c \in Chain[f] <=> nHeight[c] <= nHeight[f]
  BY AboveIs
<1>2. Cardinality(S) = n /\ n \in Nat
  <2>1. f \in Blocks
    BY <1>1
  <2>2. Cardinality(Chain[b] \ Chain[f]) = nHeight[b] - nHeight[f]
    BY <1>1, <2>1, Counting
  <2>3. n \in Nat
    BY <1>1
  <2> QED
    BY <2>2, <2>3
<1>3. ASSUME NEW c \in S
      PROVE  Rank(c) = nHeight[c] - nHeight[f] - 1 /\ nHeight[c] - nHeight[f] \in 1..n
  <2>1. /\ c \in Blocks /\ nHeight[c] \in Nat /\ nHeight[c] <= nHeight[b]
        /\ nHeight[c] > nHeight[f]
    <3>1. c \in Chain[b]
      OBVIOUS
    <3>2. c \in Blocks /\ nHeight[c] \in Nat /\ nHeight[c] <= nHeight[b]
      BY <3>1, AboveIs
    <3> QED
      BY <1>1, <3>1, <3>2
  <2>2. c # Base
    BY <1>1, Ancestors
  <2> DEFINE q == Parent[c]
  <2>3. /\ q \in Chain[b] /\ q \in Blocks /\ nHeight[q] \in Nat /\ nHeight[c] = nHeight[q] + 1
        /\ f \in Chain[q]
    <3>1. q \in Chain[b] /\ nHeight[c] = nHeight[q] + 1
      BY <2>2, SameChain
    <3>2. q \in Blocks /\ nHeight[q] \in Nat
      BY <3>1, SameChain
    <3>3. nHeight[f] <= nHeight[q]
      BY <1>1, <2>1, <3>1, <3>2
    <3> QED
      BY <3>1, <3>2, <3>3, ChainOrder
  <2>4. LowerThan(S, c) = Chain[q] \ Chain[f]
    <3>1. \A d \in Chain[b] : d \in Chain[q] <=> nHeight[d] <= nHeight[q]
      BY <2>3, AboveIs
    <3>2. \A d \in Chain[b] : nHeight[d] \in Nat
      BY SameChain
    <3>3. \A d \in S : nHeight[d] < nHeight[c] <=> d \in Chain[q]
      BY <2>3, <3>1, <3>2
    <3>4. Chain[q] \subseteq Chain[b]
      BY <2>3, Ancestors
    <3> QED
      BY <3>3, <3>4 DEF LowerThan
  <2>5. Cardinality(Chain[q] \ Chain[f]) = nHeight[q] - nHeight[f]
    BY <1>1, <2>3, Counting
  <2>6. Rank(c) = nHeight[q] - nHeight[f]
    BY <2>4, <2>5
  <2> HIDE DEF q, Rank
  <2> QED
    BY <1>1, <2>1, <2>3, <2>6
<1>4. \A c, d \in S : nHeight[c] = nHeight[d] => c = d
  BY SameChain
<1>5. p = [i \in 1..n |-> CHOOSE c \in S : Rank(c) = i - 1]
  BY <1>2 DEF PathOf, ByHeight
<1>6. ASSUME NEW i \in 1..n
      PROVE  p[i] \in S /\ nHeight[p[i]] = nHeight[f] + i
  <2>1. PICK c \in S : nHeight[c] = nHeight[f] + i
    <3>1. f \in Blocks
      BY <1>1
    <3> QED
      BY <3>1, Counting
  <2>2. Rank(c) = i - 1
    <3>1. Rank(c) = nHeight[c] - nHeight[f] - 1
      BY <1>3
    <3> HIDE DEF Rank
    <3> QED
      BY <1>1, <2>1, <3>1
  <2>3. p[i] \in S /\ Rank(p[i]) = i - 1
    <3> HIDE DEF Rank, p
    <3> QED
      BY <1>5, <2>2
  <2>4. Rank(p[i]) = nHeight[p[i]] - nHeight[f] - 1 /\ nHeight[p[i]] - nHeight[f] \in 1..n
    BY <1>3, <2>3
  <2>5. nHeight[p[i]] \in Nat
    <3>1. p[i] \in Chain[b]
      BY <2>3
    <3> QED
      BY <3>1, SameChain
  <2> HIDE DEF Rank, p
  <2> QED
    BY <1>1, <2>3, <2>4, <2>5
<1>7. Base \in Chain[f]
  BY <1>1, Ancestors
<1>8. \A i \in 1..n : p[i] \in Blocks \ {Base}
  BY <1>1, <1>6, <1>7
<1>9. ASSUME NEW c \in S
      PROVE  nHeight[c] - nHeight[f] \in 1..n /\ c = p[nHeight[c] - nHeight[f]]
  <2> DEFINE i == nHeight[c] - nHeight[f]
  <2>1. i \in 1..n
    BY <1>3
  <2>2. nHeight[c] \in Nat
    <3>1. c \in Chain[b]
      OBVIOUS
    <3> QED
      BY <3>1, SameChain
  <2>3. nHeight[f] + i = nHeight[c]
    BY <1>1, <2>2
  <2> HIDE DEF i, p
  <2>4. p[i] \in S /\ nHeight[p[i]] = nHeight[c]
    BY <1>6, <2>1, <2>3
  <2>5. c = p[i]
    BY <1>4, <2>4
  <2> QED
    BY <2>1, <2>5 DEF i
<1>10. p \in Seq(Blocks \ {Base}) /\ Len(p) = n
  <2> HIDE DEF S, n, Rank
  <2>1. p \in [1..n -> Blocks \ {Base}]
    <3> HIDE DEF p
    <3> QED
      BY <1>5, <1>8
  <2> QED
    BY <1>2, <2>1
<1> HIDE DEF p
<1> QED
  BY <1>2, <1>6, <1>8, <1>9, <1>10 DEF p

LEMMA PathCovers ==
  ASSUME NEW b \in Blocks, NEW f \in Chain[b]
  PROVE  \A c \in Chain[b] \ Chain[f] : \E i \in 1..Len(PathOf(f, b)) : c = PathOf(f, b)[i]
<1>1. ASSUME NEW c \in Chain[b] \ Chain[f]
      PROVE  LET i == nHeight[c] - nHeight[f] IN i \in 1..Len(PathOf(f, b)) /\ c = PathOf(f, b)[i]
  BY PathIs
<1> QED
  BY <1>1

\* The points of the path, from f to b.
LEMMA PointsAre ==
  ASSUME NEW b \in Blocks, NEW f \in Chain[b]
  PROVE  /\ Point(f, b, 0) = f
         /\ Point(f, b, Len(PathOf(f, b))) = b
         /\ \A i \in 0..Len(PathOf(f, b)) : Point(f, b, i) \in Chain[b] /\ Point(f, b, i) \in Blocks
         /\ \A i \in 1..Len(PathOf(f, b)) :
              /\ Point(f, b, i) = PathOf(f, b)[i]
              /\ Point(f, b, i) \in Blocks \ {Base}
              /\ Point(f, b, i) \in Chain[b] \ Chain[f]
              /\ Parent[Point(f, b, i)] = Point(f, b, i - 1)
<1> DEFINE p == PathOf(f, b)
           n == Len(p)
<1>1. /\ f \in Blocks /\ nHeight[f] \in Nat /\ nHeight[b] \in Nat /\ nHeight[f] <= nHeight[b]
      /\ Chain[f] \subseteq Chain[b] /\ Chain[b] \subseteq Blocks
      /\ \A c \in Chain[b] : c \in Chain[f] <=> nHeight[c] <= nHeight[f]
  BY AboveIs
<1>2. /\ n = nHeight[b] - nHeight[f] /\ n \in Nat
      /\ \A i \in 1..n : /\ p[i] \in Chain[b] \ Chain[f]
                         /\ p[i] \in Blocks \ {Base}
                         /\ nHeight[p[i]] = nHeight[f] + i
      /\ \A c \in Chain[b] \ Chain[f] :
           nHeight[c] - nHeight[f] \in 1..n /\ c = p[nHeight[c] - nHeight[f]]
  BY PathIs
<1> HIDE DEF p, n
<1>3. \A c, d \in Chain[b] : nHeight[c] = nHeight[d] => c = d
  BY SameChain
<1>4. b \in Chain[b]
  BY Ancestors
<1>5. Point(f, b, 0) = f
  BY DEF Point
<1>6. \A i \in 1..n : Point(f, b, i) = p[i]
  BY DEF Point, p
<1>7. Point(f, b, n) = b
  <2>1. CASE n = 0
    <3>1. nHeight[b] = nHeight[f]
      BY <1>1, <1>2, <2>1
    <3> QED
      BY <1>3, <1>4, <1>5, <2>1, <3>1
  <2>2. CASE n # 0
    <3>1. n \in 1..n
      BY <1>2, <2>2
    <3>2. p[n] \in Chain[b] /\ nHeight[p[n]] = nHeight[f] + n
      BY <1>2, <3>1
    <3>3. nHeight[p[n]] = nHeight[b]
      BY <1>1, <1>2, <3>2
    <3> QED
      BY <1>3, <1>4, <1>6, <3>1, <3>2, <3>3
  <2> QED
    BY <2>1, <2>2
<1>8. ASSUME NEW i \in 0..n
      PROVE  Point(f, b, i) \in Chain[b] /\ Point(f, b, i) \in Blocks
  <2>1. i = 0 \/ i \in 1..n
    BY <1>2
  <2> QED
    BY <1>1, <1>2, <1>5, <1>6, <2>1
<1>9. ASSUME NEW i \in 1..n
      PROVE  Parent[p[i]] = Point(f, b, i - 1)
  <2> DEFINE q == Parent[p[i]]
  <2>1. q \in Chain[b] /\ nHeight[p[i]] = nHeight[q] + 1 /\ nHeight[q] \in Nat
    BY <1>2, SameChain
  <2>2. nHeight[q] = nHeight[f] + (i - 1)
    <3> HIDE DEF q
    <3> QED
      BY <1>1, <1>2, <2>1
  <2> HIDE DEF q
  <2>3. CASE i = 1
    <3>1. nHeight[q] = nHeight[f]
      BY <1>1, <2>2, <2>3
    <3>2. f \in Chain[b]
      OBVIOUS
    <3>3. q = f /\ i - 1 = 0
      BY <1>3, <2>1, <2>3, <3>1, <3>2
    <3> QED
      BY <1>5, <3>3 DEF q
  <2>4. CASE i # 1
    <3> DEFINE j == i - 1
    <3>1. j \in 1..n
      BY <1>2, <2>4
    <3>2. nHeight[q] = nHeight[f] + j
      BY <2>2
    <3> HIDE DEF j
    <3>3. p[j] \in Chain[b] /\ nHeight[p[j]] = nHeight[f] + j
      BY <1>2, <3>1
    <3>4. q = p[j]
      BY <1>3, <2>1, <3>2, <3>3
    <3>5. q = Point(f, b, j)
      BY <1>6, <3>1, <3>4
    <3> QED
      BY <3>5 DEF q, j
  <2> QED
    BY <2>3, <2>4
<1>10. ASSUME NEW i \in 1..n
       PROVE  /\ Point(f, b, i) = p[i]
              /\ Point(f, b, i) \in Blocks \ {Base}
              /\ Point(f, b, i) \in Chain[b] \ Chain[f]
              /\ Parent[Point(f, b, i)] = Point(f, b, i - 1)
  BY <1>2, <1>6, <1>9
<1> QED
  BY <1>5, <1>7, <1>8, <1>10 DEF p, n

\* A set of blocks has a highest one.
LEMMA Highest ==
  ASSUME NEW R, R \subseteq Blocks, R # {}
  PROVE  \E f \in R : \A c \in R : nHeight[c] <= nHeight[f]
<1> DEFINE H == {nHeight[c] : c \in R}
<1>0. \A c \in R : nHeight[c] \in Nat
  BY Heights
<1>1. IsFiniteSet(R)
  BY FS_Subset, TreeAssumption
<1>2. IsFiniteSet(H)
  <2> DEFINE g == [c \in R |-> nHeight[c]]
  <2>1. g \in Surjection(R, H)
    BY DEF Surjection
  <2> HIDE DEF g, H
  <2> QED
    BY <1>1, <2>1, FS_Surjection
<1>3. H \subseteq Int /\ H # {}
  <2>1. \A c \in R : nHeight[c] \in Int
    BY <1>0
  <2> QED
    BY <2>1
<1>4. Max(H) \in H /\ \A y \in H : Max(H) >= y
  <2> HIDE DEF H
  <2>1. H \in SUBSET H
    OBVIOUS
  <2> QED
    BY <1>2, <1>3, <2>1, MaxIsMember
<1>5. PICK f \in R : nHeight[f] = Max(H)
  BY <1>4
<1>6. \A c \in R : nHeight[f] >= nHeight[c]
  BY <1>4, <1>5
<1>7. \A c \in R : nHeight[c] <= nHeight[f]
  BY <1>0, <1>6
<1> QED
  BY <1>7

\* A part of a chain that holds what is above its blocks, but not Base, is a branch.
LEMMA UpperPart ==
  ASSUME NEW b \in Blocks, NEW S \in SUBSET Chain[b], Base \notin S,
         \A c \in S : \A d \in Chain[b] : nHeight[c] <= nHeight[d] => d \in S
  PROVE  \E f \in Chain[b] : S = Chain[b] \ Chain[f]
<1> DEFINE R == Chain[b] \ S
<1>0. \A c \in Chain[b] : c \in Blocks /\ nHeight[c] \in Nat
  BY SameChain
<1>1. R \subseteq Blocks /\ R # {}
  BY <1>0, Ancestors
<1>5. PICK f \in R : \A c \in R : nHeight[f] >= nHeight[c]
  <2> HIDE DEF R
  <2>1. PICK f \in R : \A c \in R : nHeight[c] <= nHeight[f]
    BY <1>1, Highest
  <2>2. \A c \in R : nHeight[c] \in Nat
    BY <1>1, Heights
  <2> QED
    BY <2>1, <2>2
<1>6. ASSUME NEW c \in Chain[b]
      PROVE  c \in Chain[f] <=> nHeight[c] <= nHeight[f]
  BY <1>5, AboveIs
<1>7. f \in Chain[b] /\ f \notin S
  BY <1>5
<1>8. Chain[f] \subseteq Chain[b]
  BY <1>7, Ancestors
<1>9. ASSUME NEW c \in Chain[b]
      PROVE  c \in S <=> c \notin Chain[f]
  <2>1. ASSUME c \in S, nHeight[c] <= nHeight[f] PROVE FALSE
    BY <1>7, <2>1
  <2>2. ASSUME c \notin S, ~(nHeight[c] <= nHeight[f]) PROVE FALSE
    <3>1. nHeight[f] >= nHeight[c]
      BY <1>5, <2>2
    <3>2. nHeight[f] \in Nat /\ nHeight[c] \in Nat
      BY <1>0, <1>7
    <3> QED
      BY <2>2, <3>1, <3>2
  <2> QED
    BY <1>6, <2>1, <2>2
<1> QED
  BY <1>7, <1>9

\* Two chains have part of a chain in common, up to where they fork.
IsFork(f, a, b) == f \in Chain[a] /\ f \in Chain[b] /\ Chain[a] \cap Chain[b] = Chain[f]

LEMMA ForkExists ==
  ASSUME NEW a \in Blocks, NEW b \in Blocks
  PROVE  /\ \E f \in Blocks : IsFork(f, a, b)
         /\ \A f : IsFork(f, a, b) =>
              /\ f \in Blocks
              /\ Chain[b] \ Chain[a] = Chain[b] \ Chain[f]
              /\ Chain[a] \ Chain[b] = Chain[a] \ Chain[f]
<1> DEFINE S == {c \in Blocks : \E f \in Blocks : IsFork(f, a, c)}
<1>1. Base \in S
  <2>1. Base \in Blocks /\ Chain[Base] = {Base} /\ Base \in Chain[a]
    BY Chains, Ancestors, TreeAssumption
  <2> QED
    BY <2>1 DEF IsFork
<1>2. ASSUME NEW c \in Blocks \ {Base}, Parent[c] \in S
      PROVE  c \in S
  <2>1. Chain[c] = Chain[Parent[c]] \cup {c} /\ c \in Chain[c]
    BY Chains, Ancestors
  <2>2. CASE c \in Chain[a]
    <3>1. Chain[c] \subseteq Chain[a]
      BY <2>2, Ancestors
    <3> QED
      BY <2>1, <2>2, <3>1 DEF IsFork
  <2>3. CASE c \notin Chain[a]
    <3>1. PICK f \in Blocks : IsFork(f, a, Parent[c])
      BY <1>2
    <3>2. IsFork(f, a, c)
      BY <2>1, <2>3, <3>1 DEF IsFork
    <3> QED
      BY <3>2
  <2> QED
    BY <2>2, <2>3
<1>3. b \in S
  <2> HIDE DEF S
  <2> QED
    BY <1>1, <1>2, TreeInduction
<1>4. ASSUME NEW f, IsFork(f, a, b)
      PROVE  /\ f \in Blocks
             /\ Chain[b] \ Chain[a] = Chain[b] \ Chain[f]
             /\ Chain[a] \ Chain[b] = Chain[a] \ Chain[f]
  <2>1. f \in Blocks
    BY <1>4, Ancestors DEF IsFork
  <2> QED
    BY <1>4, <2>1 DEF IsFork
<1> QED
  BY <1>3, <1>4

-----------------------------------------------------------------------------
(* What a reorganisation reads *)

Stops == {"no", "abort", "error", "invalid"}
Undone == [stop : Stops, view : Views]

\* The files hold, of the undo data of a block, what connecting it has written.
FilesRight(f) == \A b \in DOMAIN f.undo \ {Base} : f.undo[b] = BlockUndo(b)

\* All that is needed to disconnect b can be read.
Undoable(b) == b \in files.data /\ index[b].undo /\ b \in DOMAIN files.undo

\* A step of Disconnected.
UndoneStep(done, b) ==
  LET one == DisconnectBlock(done.view, b, files.undo[b])
  IN IF done.stop # "no" THEN done
     ELSE IF b \notin files.data THEN [done EXCEPT !.stop = "abort"]
     ELSE IF ~index[b].undo \/ b \notin DOMAIN files.undo \/ ~one.clean
     THEN [done EXCEPT !.stop = "error"]
     ELSE [done EXCEPT !.view = one.view]

UndoneSteps(s) == [p \in Undone \X (1..Len(s)) |-> UndoneStep(p[1], s[p[2]])]

\* The cases of a step, with what it reads.
LEMMA UndoneStepIs ==
  ASSUME FilesRight(files),
         NEW done \in Undone, NEW b \in Blocks \ {Base}
  PROVE  /\ UndoneStep(done, b) \in Undone
         /\ done.stop # "no" => UndoneStep(done, b) = done
         /\ done.stop = "no" /\ ~Undoable(b) => UndoneStep(done, b).stop \in {"abort", "error"}
         /\ done.stop = "no" /\ Undoable(b) /\ ValidChain[b] /\ Same(done.view, Unspent[b]) =>
              /\ UndoneStep(done, b).stop = "no"
              /\ Same(UndoneStep(done, b).view, Unspent[Parent[b]])
<1> DEFINE one == DisconnectBlock(done.view, b, files.undo[b])
<1>1. done.stop \in Stops /\ done.view \in Views
  BY DEF Undone
<1>2. ASSUME b \in DOMAIN files.undo
      PROVE  /\ one \in Disconnections
             /\ ValidChain[b] /\ Same(done.view, Unspent[b]) =>
                  one.clean /\ Same(one.view, Unspent[Parent[b]])
  <2>1. files.undo[b] = BlockUndo(b)
    BY <1>2 DEF FilesRight
  <2> QED
    BY <1>1, <2>1, DisconnectBlockIs
<1>3. UndoneStep(done, b) =
        IF done.stop # "no" THEN done
        ELSE IF b \notin files.data THEN [done EXCEPT !.stop = "abort"]
        ELSE IF ~index[b].undo \/ b \notin DOMAIN files.undo \/ ~one.clean
        THEN [done EXCEPT !.stop = "error"]
        ELSE [done EXCEPT !.view = one.view]
  BY DEF UndoneStep
<1> HIDE DEF one
<1>4. CASE done.stop # "no"
  BY <1>3, <1>4
<1>5. CASE done.stop = "no" /\ b \notin files.data
  <2>1. UndoneStep(done, b) = [done EXCEPT !.stop = "abort"]
    BY <1>3, <1>5
  <2> QED
    BY <1>1, <1>5, <2>1 DEF Undone, Stops, Undoable
<1>6. CASE /\ done.stop = "no" /\ b \in files.data
           /\ ~index[b].undo \/ b \notin DOMAIN files.undo \/ ~one.clean
  <2>1. UndoneStep(done, b) = [done EXCEPT !.stop = "error"]
    BY <1>3, <1>6
  <2>2. UndoneStep(done, b) \in Undone /\ UndoneStep(done, b).stop = "error"
    BY <1>1, <2>1 DEF Undone, Stops
  <2>3. Undoable(b) => ~one.clean /\ b \in DOMAIN files.undo
    BY <1>6 DEF Undoable
  <2> QED
    BY <1>2, <1>6, <2>2, <2>3
<1>7. CASE /\ done.stop = "no" /\ b \in files.data
           /\ ~(~index[b].undo \/ b \notin DOMAIN files.undo \/ ~one.clean)
  <2>1. UndoneStep(done, b) = [done EXCEPT !.view = one.view]
    BY <1>3, <1>7
  <2>2. b \in DOMAIN files.undo /\ Undoable(b)
    BY <1>7 DEF Undoable
  <2>3. one.view \in Views
    BY <1>2, <2>2 DEF Disconnections
  <2>4. UndoneStep(done, b) \in Undone /\ UndoneStep(done, b).stop = "no"
        /\ UndoneStep(done, b).view = one.view
    BY <1>1, <1>7, <2>1, <2>3 DEF Undone, Stops
  <2> QED
    BY <1>2, <1>7, <2>2, <2>4
<1> QED
  BY <1>4, <1>5, <1>6, <1>7


\* Disconnected is a fold of its steps.
LEMMA UndoneTrace ==
  ASSUME FilesRight(files),
         NEW s \in Seq(Blocks \ {Base}), NEW base \in Undone
  PROVE  /\ Traced(Undone, Len(s), base, UndoneSteps(s), FoldLeft(UndoneStep, base, s))
         /\ Len(s) \in Nat
<1> DEFINE D == Undone
           n == Len(s)
           G == UndoneSteps(s)
           f == CHOOSE f : f = [S \in SUBSET DOMAIN s |->
                                  IF S = {} THEN base
                                  ELSE LET x == Max(S) IN UndoneStep(f[S \ {x}], s[x])]
<1>1. n \in Nat /\ DOMAIN s = 1..n /\ \A i \in 1..n : s[i] \in Blocks \ {Base}
  OBVIOUS
<1>2. FoldLeft(UndoneStep, base, s) = f[1..n]
  BY <1>1 DEF FoldLeft, MapThenFoldSet
<1>3. G \in [D \X (1..n) -> D]
  BY <1>1, UndoneStepIs DEF UndoneSteps
<1>4. \A v \in D, i \in 1..n : G[<<v, i>>] = UndoneStep(v, s[i])
  BY DEF UndoneSteps
<1>0. n \in Nat /\ DOMAIN s = 1..n /\ base \in D
  BY <1>1
<1> HIDE DEF n, G, D
<1>6. f = [S \in SUBSET (1..n) |->
             IF S = {} THEN base ELSE LET x == Max(S) IN UndoneStep(f[S \ {x}], s[x])]
  <2>1. IsFiniteSet(1..n) /\ 1..n \subseteq Int
    BY <1>0, FS_Interval
  <2>2. PICK g \in [SUBSET (1..n) -> D] : FoldsOn(g, SUBSET (1..n), base, G)
    BY <1>0, <1>3, <2>1, FoldExists
  <2>3. ASSUME NEW S \in SUBSET (1..n)
        PROVE  g[S] = IF S = {} THEN base ELSE LET x == Max(S) IN UndoneStep(g[S \ {x}], s[x])
    <3>1. S # {} => Max(S) \in 1..n
      BY <2>1, MaxIsMember
    <3> QED
      BY <1>4, <2>2, <3>1 DEF FoldsOn
  <2>4. g = [S \in SUBSET (1..n) |->
               IF S = {} THEN base ELSE LET x == Max(S) IN UndoneStep(g[S \ {x}], s[x])]
    <3>1. g = [S \in SUBSET (1..n) |-> g[S]]
      OBVIOUS
    <3> QED
      BY <2>3, <3>1
  <2> DEFINE IsFold(q) ==
               q = [S \in SUBSET (1..n) |->
                      IF S = {} THEN base
                      ELSE LET x == Max(S) IN UndoneStep(q[S \ {x}], s[x])]
  <2>5. f = CHOOSE q : IsFold(q)
    BY <1>0
  <2>6. IsFold(g)
    BY <2>4
  <2> HIDE DEF f, IsFold
  <2>7. IsFold(f)
    BY <2>5, <2>6
  <2> QED
    BY <2>7 DEF IsFold
<1> HIDE DEF f
<1>7. FoldsIn(f, D, n, base, G)
  <2>1. f[{}] = base
    BY <1>6
  <2> SUFFICES ASSUME NEW S \in SUBSET (1..n), S # {}, f[S \ {Max(S)}] \in D
               PROVE  f[S] = G[<<f[S \ {Max(S)}], Max(S)>>]
    BY <2>1 DEF FoldsIn
  <2>2. IsFiniteSet(1..n) /\ 1..n \subseteq Int
    BY <1>0, FS_Interval
  <2>3. Max(S) \in 1..n
    BY <2>2, MaxIsMember
  <2>4. f[S] = UndoneStep(f[S \ {Max(S)}], s[Max(S)])
    BY <1>6
  <2> QED
    BY <1>4, <2>3, <2>4
<1>8. EndsTrace(f, D, n, base, G)
  <2>1. StepOn(G, D, n)
    BY <1>3 DEF StepOn
  <2> QED
    BY <1>0, <1>7, <2>1, FoldTrace
<1> QED
  BY <1>1, <1>2, <1>8 DEF EndsTrace, Traced, n, G, D


\* A path from its end.
LEMMA Backwards ==
  ASSUME NEW S, NEW p \in Seq(S)
  PROVE  /\ Reverse(p) \in Seq(S) /\ Len(Reverse(p)) = Len(p) /\ Len(p) \in Nat
         /\ \A k \in 1..Len(p) : /\ Reverse(p)[k] = p[(Len(p) - k) + 1]
                                 /\ (Len(p) - k) + 1 \in 1..Len(p)
BY DEF Reverse

\* What SetBestChain has to disconnect and to connect.
LEMMA BranchesAre ==
  ASSUME coinsTip.best \in Blocks, NEW new \in Blocks,
         NEW f, IsFork(f, coinsTip.best, new)
  PROVE  /\ vDisconnect(new) = Reverse(PathOf(f, coinsTip.best))
         /\ vConnect(new) = PathOf(f, new)
<1>1. /\ Chain[new] \ Chain[coinsTip.best] = Chain[new] \ Chain[f]
      /\ Chain[coinsTip.best] \ Chain[new] = Chain[coinsTip.best] \ Chain[f]
  <2> DEFINE tip == coinsTip.best
  <2>1. tip \in Blocks /\ IsFork(f, tip, new)
    OBVIOUS
  <2> HIDE DEF tip
  <2>2. /\ Chain[new] \ Chain[tip] = Chain[new] \ Chain[f]
        /\ Chain[tip] \ Chain[new] = Chain[tip] \ Chain[f]
    BY <2>1, ForkExists DEF IsFork
  <2> QED
    BY <2>2 DEF tip
<1> QED
  BY <1>1 DEF vDisconnect, vConnect, PathOf

\* The coins in memory are those of the chain up to their best block.
TipRight ==
  /\ coinsTip.best \in Blocks /\ ValidChain[coinsTip.best]
  /\ TipView \in Views /\ Same(TipView, Unspent[coinsTip.best])

\* All that is needed to leave the best chain for that of new can be read.
CanLeave(new) == \A b \in Chain[coinsTip.best] \ Chain[new] : Undoable(b)

\* Disconnecting gets back to the coins of the fork, unless something cannot be read.
LEMMA DisconnectedIs ==
  ASSUME FilesRight(files), TipRight, NEW new \in Blocks,
         NEW f, IsFork(f, coinsTip.best, new)
  PROVE  /\ Disconnected(new) \in Undone
         /\ Disconnected(new).stop \in {"no", "abort", "error"}
         /\ Disconnected(new).stop = "no" <=> CanLeave(new)
         /\ Disconnected(new).stop = "no" => Same(Disconnected(new).view, Unspent[f])
<1> DEFINE tip == coinsTip.best
           p == PathOf(f, tip)
           n == Len(p)
           s == Reverse(p)
           base == [stop |-> "no", view |-> TipView]
           r == Disconnected(new)
<1>1. tip \in Blocks /\ ValidChain[tip] /\ TipView \in Views /\ Same(TipView, Unspent[tip])
  BY DEF TipRight
<1>2. f \in Blocks /\ f \in Chain[tip] /\ Chain[tip] \ Chain[new] = Chain[tip] \ Chain[f]
  <2>1. IsFork(f, tip, new)
    OBVIOUS
  <2> HIDE DEF tip
  <2> QED
    BY <1>1, <2>1, ForkExists DEF IsFork
<1>3. r = FoldLeft(UndoneStep, base, s)
  <2>1. vDisconnect(new) = s
    BY <1>1, BranchesAre
  <2> QED
    BY <2>1 DEF Disconnected, UndoneStep
<1>4. base \in Undone
  BY <1>1 DEF Undone, Stops
<1>5. /\ p \in Seq(Blocks \ {Base}) /\ n \in Nat
      /\ \A i \in 1..n : p[i] \in Chain[tip] \ Chain[f]
      /\ \A c \in Chain[tip] \ Chain[f] : \E i \in 1..n : c = p[i]
  <2> HIDE DEF tip
  <2>1. /\ p \in Seq(Blocks \ {Base}) /\ n \in Nat
        /\ \A i \in 1..n : p[i] \in Chain[tip] \ Chain[f]
    BY <1>1, <1>2, PathIs DEF p, n
  <2>2. ASSUME NEW c \in Chain[tip] \ Chain[f]
        PROVE  \E i \in 1..n : c = p[i]
    <3>1. nHeight[c] - nHeight[f] \in 1..n /\ c = p[nHeight[c] - nHeight[f]]
      BY <1>1, <1>2, PathIs DEF p, n
    <3> QED
      BY <3>1
  <2> QED
    BY <2>1, <2>2
<1>6. /\ Point(f, tip, 0) = f /\ Point(f, tip, n) = tip
      /\ \A i \in 1..n : /\ Point(f, tip, i) = p[i] /\ p[i] \in Blocks \ {Base}
                         /\ Parent[p[i]] = Point(f, tip, i - 1)
  <2> DEFINE q == PathOf(f, tip)
             Linked(i) == /\ Point(f, tip, i) = q[i] /\ Point(f, tip, i) \in Blocks \ {Base}
                        /\ Parent[Point(f, tip, i)] = Point(f, tip, i - 1)
  <2> HIDE DEF tip
  <2>1. Point(f, tip, 0) = f /\ Point(f, tip, Len(q)) = tip /\ \A i \in 1..Len(q) : Linked(i)
    BY <1>1, <1>2, PointsAre
  <2>2. p = q
    BY DEF p, tip
  <2> HIDE DEF p, q
  <2> QED
    BY <2>1, <2>2 DEF n
<1> HIDE DEF tip, p, r
<1>7. /\ s \in Seq(Blocks \ {Base}) /\ Len(s) = n
      /\ \A k \in 1..n : s[k] = p[(n - k) + 1] /\ (n - k) + 1 \in 1..n
  BY <1>5, Backwards
<1> HIDE DEF n, s, base
<1>8. Traced(Undone, n, base, UndoneSteps(s), r)
  BY <1>3, <1>4, <1>7, UndoneTrace
<1>9. PICK g : Trace(g, Undone, n, base, UndoneSteps(s)) /\ r = g[n]
  BY <1>8 DEF Traced
<1>10. ASSUME NEW k \in 1..n
       PROVE  /\ g[k - 1] \in Undone /\ g[k] \in Undone
              /\ g[k] = UndoneStep(g[k - 1], s[k])
  <2>1. StepOf(g, Undone, UndoneSteps(s), k)
    BY <1>5, <1>9, TraceSteps
  <2> DEFINE d == g[k - 1]
             e == g[k]
  <2>2. d \in Undone /\ e \in Undone /\ e = UndoneSteps(s)[<<d, k>>]
    BY <2>1 DEF StepOf
  <2>3. k \in 1..Len(s)
    BY <1>7
  <2> HIDE DEF d, e
  <2>4. UndoneSteps(s)[<<d, k>>] = UndoneStep(d, s[k])
    BY <2>2, <2>3 DEF UndoneSteps
  <2> QED
    BY <2>2, <2>4 DEF d, e
<1>11. g[0] = base
  BY <1>9 DEF Trace
<1> DEFINE Ready(k) == \A i \in 1..n : i > n - k => Undoable(p[i])
           Right(k) == /\ g[k] \in Undone
                       /\ g[k].stop \in {"no", "abort", "error"}
                       /\ g[k].stop = "no" <=> Ready(k)
                       /\ g[k].stop = "no" => Same(g[k].view, Unspent[Point(f, tip, n - k)])
           N == {k \in 0..n : Right(k)}
<1>12. 0 \in N
  <2>1. Ready(0)
    BY <1>5
  <2>2. n - 0 = n /\ 0 \in 0..n
    BY <1>5
  <2>3. base.stop = "no" /\ base.view = TipView
    BY DEF base
  <2>4. Same(g[0].view, Unspent[Point(f, tip, n - 0)])
    BY <1>1, <1>6, <1>11, <2>2, <2>3
  <2> QED
    BY <1>4, <1>11, <2>1, <2>2, <2>3, <2>4
<1>13. ASSUME NEW k \in 1..n, k - 1 \in N
       PROVE  k \in N
  <2> DEFINE i == (n - k) + 1
             b == p[i]
             d == g[k - 1]
  <2>1. i \in 1..n /\ n - (k - 1) = i /\ i - 1 = n - k /\ k \in 0..n
    BY <1>5
  <2>2. s[k] = b
    BY <1>7
  <2>3. d \in Undone /\ g[k] = UndoneStep(d, b) /\ g[k] \in Undone
    BY <1>10, <2>2
  <2>4. /\ d.stop \in {"no", "abort", "error"}
        /\ d.stop = "no" <=> Ready(k - 1)
        /\ d.stop = "no" => Same(d.view, Unspent[Point(f, tip, i)])
    BY <1>13, <2>1
  <2>5. Ready(k) <=> Ready(k - 1) /\ Undoable(b)
    <3>1. \A j \in 1..n : j > n - k <=> (j > n - (k - 1) \/ j = i)
      <4>1. n \in Nat
        BY <1>5
      <4> QED
        BY <4>1
    <3> HIDE DEF i
    <3> QED
      BY <2>1, <3>1
  <2> HIDE DEF Ready
  <2>6. b \in Blocks \ {Base} /\ Point(f, tip, i) = b /\ Parent[b] = Point(f, tip, n - k)
        /\ b \in Chain[tip]
    BY <1>5, <1>6, <2>1
  <2>7. ValidChain[b]
    BY <1>1, <2>6, ValidGrows
  <2> HIDE DEF i, b, d
  <2>8. /\ d.stop # "no" => g[k] = d
        /\ d.stop = "no" /\ ~Undoable(b) => g[k].stop \in {"abort", "error"}
        /\ d.stop = "no" /\ Undoable(b) /\ ValidChain[b] /\ Same(d.view, Unspent[b]) =>
             g[k].stop = "no" /\ Same(g[k].view, Unspent[Parent[b]])
    BY <2>3, <2>6, UndoneStepIs
  <2>9. /\ g[k].stop \in {"no", "abort", "error"}
        /\ g[k].stop = "no" <=> d.stop = "no" /\ Undoable(b)
        /\ g[k].stop = "no" => Same(g[k].view, Unspent[Parent[b]])
    BY <2>4, <2>6, <2>7, <2>8
  <2> QED
    BY <2>1, <2>3, <2>4, <2>5, <2>6, <2>9
<1>14. n \in N
  <2> HIDE DEF N
  <2>1. n \in 0..n
    BY <1>5
  <2> QED
    BY <1>5, <1>12, <1>13, <2>1, StepInduction
<1>15. Ready(n) <=> CanLeave(new)
  <2>1. \A i \in 1..n : i > n - n
    BY <1>5
  <2>2. Ready(n) <=> \A b \in Chain[tip] \ Chain[f] : Undoable(b)
    <3>1. Ready(n) <=> \A i \in 1..n : Undoable(p[i])
      BY <2>1
    <3> HIDE DEF Ready
    <3>2. ASSUME \A i \in 1..n : Undoable(p[i]), NEW b \in Chain[tip] \ Chain[f]
          PROVE  Undoable(b)
      <4>1. PICK i \in 1..n : b = p[i]
        BY <1>5
      <4> QED
        BY <3>2, <4>1
    <3> QED
      BY <1>5, <3>1, <3>2
  <2> QED
    BY <1>2, <2>2 DEF CanLeave, tip
<1>16. n - n = 0
  BY <1>5
<1> HIDE DEF Ready
<1> QED
  BY <1>6, <1>9, <1>14, <1>15, <1>16 DEF r

-----------------------------------------------------------------------------
(* What is read when the program starts *)

\* A step of VerifyDB.
VerifyStep(done, b) ==
  IF ~done.clean THEN done
  ELSE IF b \notin files.data \/ ~index[b].undo \/ b \notin DOMAIN files.undo
  THEN [done EXCEPT !.clean = FALSE]
  ELSE DisconnectBlock(done.view, b, files.undo[b])

VerifySteps(s) == [p \in Disconnections \X (1..Len(s)) |-> VerifyStep(p[1], s[p[2]])]

LEMMA VerifyStepIs ==
  ASSUME FilesRight(files),
         NEW done \in Disconnections, NEW b \in Blocks \ {Base}
  PROVE  /\ VerifyStep(done, b) \in Disconnections
         /\ ~done.clean => VerifyStep(done, b) = done
         /\ done.clean /\ ~Undoable(b) => ~VerifyStep(done, b).clean
         /\ done.clean /\ Undoable(b) /\ ValidChain[b] /\ Same(done.view, Unspent[b]) =>
              /\ VerifyStep(done, b).clean
              /\ Same(VerifyStep(done, b).view, Unspent[Parent[b]])
<1> DEFINE one == DisconnectBlock(done.view, b, files.undo[b])
<1>1. done.clean \in BOOLEAN /\ done.view \in Views
  BY DEF Disconnections
<1>2. ASSUME b \in DOMAIN files.undo
      PROVE  /\ one \in Disconnections
             /\ ValidChain[b] /\ Same(done.view, Unspent[b]) =>
                  one.clean /\ Same(one.view, Unspent[Parent[b]])
  <2>1. files.undo[b] = BlockUndo(b)
    BY <1>2 DEF FilesRight
  <2> QED
    BY <1>1, <2>1, DisconnectBlockIs
<1>3. VerifyStep(done, b) =
        IF ~done.clean THEN done
        ELSE IF b \notin files.data \/ ~index[b].undo \/ b \notin DOMAIN files.undo
        THEN [done EXCEPT !.clean = FALSE]
        ELSE one
  BY DEF VerifyStep
<1> HIDE DEF one
<1>4. CASE ~done.clean
  BY <1>3, <1>4
<1>5. CASE /\ done.clean
           /\ b \notin files.data \/ ~index[b].undo \/ b \notin DOMAIN files.undo
  <2>1. VerifyStep(done, b) = [done EXCEPT !.clean = FALSE]
    BY <1>3, <1>5
  <2>2. VerifyStep(done, b) \in Disconnections /\ ~VerifyStep(done, b).clean
    BY <1>1, <2>1 DEF Disconnections
  <2> QED
    BY <1>5, <2>2 DEF Undoable
<1>6. CASE /\ done.clean
           /\ ~(b \notin files.data \/ ~index[b].undo \/ b \notin DOMAIN files.undo)
  <2>1. VerifyStep(done, b) = one
    BY <1>3, <1>6
  <2>2. b \in DOMAIN files.undo /\ Undoable(b)
    BY <1>6 DEF Undoable
  <2> QED
    BY <1>2, <1>6, <2>1, <2>2
<1> QED
  BY <1>4, <1>5, <1>6


\* VerifyDB is a fold of its steps.
LEMMA VerifyTrace ==
  ASSUME FilesRight(files),
         NEW s \in Seq(Blocks \ {Base}), NEW base \in Disconnections
  PROVE  /\ Traced(Disconnections, Len(s), base, VerifySteps(s), FoldLeft(VerifyStep, base, s))
         /\ Len(s) \in Nat
<1> DEFINE D == Disconnections
           n == Len(s)
           G == VerifySteps(s)
           f == CHOOSE f : f = [S \in SUBSET DOMAIN s |->
                                  IF S = {} THEN base
                                  ELSE LET x == Max(S) IN VerifyStep(f[S \ {x}], s[x])]
<1>1. n \in Nat /\ DOMAIN s = 1..n /\ \A i \in 1..n : s[i] \in Blocks \ {Base}
  OBVIOUS
<1>2. FoldLeft(VerifyStep, base, s) = f[1..n]
  BY <1>1 DEF FoldLeft, MapThenFoldSet
<1>3. G \in [D \X (1..n) -> D]
  BY <1>1, VerifyStepIs DEF VerifySteps
<1>4. \A v \in D, i \in 1..n : G[<<v, i>>] = VerifyStep(v, s[i])
  BY DEF VerifySteps
<1>0. n \in Nat /\ DOMAIN s = 1..n /\ base \in D
  BY <1>1
<1> HIDE DEF n, G, D
<1>6. f = [S \in SUBSET (1..n) |->
             IF S = {} THEN base ELSE LET x == Max(S) IN VerifyStep(f[S \ {x}], s[x])]
  <2>1. IsFiniteSet(1..n) /\ 1..n \subseteq Int
    BY <1>0, FS_Interval
  <2>2. PICK g \in [SUBSET (1..n) -> D] : FoldsOn(g, SUBSET (1..n), base, G)
    BY <1>0, <1>3, <2>1, FoldExists
  <2>3. ASSUME NEW S \in SUBSET (1..n)
        PROVE  g[S] = IF S = {} THEN base ELSE LET x == Max(S) IN VerifyStep(g[S \ {x}], s[x])
    <3>1. S # {} => Max(S) \in 1..n
      BY <2>1, MaxIsMember
    <3> QED
      BY <1>4, <2>2, <3>1 DEF FoldsOn
  <2>4. g = [S \in SUBSET (1..n) |->
               IF S = {} THEN base ELSE LET x == Max(S) IN VerifyStep(g[S \ {x}], s[x])]
    <3>1. g = [S \in SUBSET (1..n) |-> g[S]]
      OBVIOUS
    <3> QED
      BY <2>3, <3>1
  <2> DEFINE IsFold(q) ==
               q = [S \in SUBSET (1..n) |->
                      IF S = {} THEN base
                      ELSE LET x == Max(S) IN VerifyStep(q[S \ {x}], s[x])]
  <2>5. f = CHOOSE q : IsFold(q)
    BY <1>0
  <2>6. IsFold(g)
    BY <2>4
  <2> HIDE DEF f, IsFold
  <2>7. IsFold(f)
    BY <2>5, <2>6
  <2> QED
    BY <2>7 DEF IsFold
<1> HIDE DEF f
<1>7. FoldsIn(f, D, n, base, G)
  <2>1. f[{}] = base
    BY <1>6
  <2> SUFFICES ASSUME NEW S \in SUBSET (1..n), S # {}, f[S \ {Max(S)}] \in D
               PROVE  f[S] = G[<<f[S \ {Max(S)}], Max(S)>>]
    BY <2>1 DEF FoldsIn
  <2>2. IsFiniteSet(1..n) /\ 1..n \subseteq Int
    BY <1>0, FS_Interval
  <2>3. Max(S) \in 1..n
    BY <2>2, MaxIsMember
  <2>4. f[S] = VerifyStep(f[S \ {Max(S)}], s[Max(S)])
    BY <1>6
  <2> QED
    BY <1>4, <2>3, <2>4
<1>8. EndsTrace(f, D, n, base, G)
  <2>1. StepOn(G, D, n)
    BY <1>3 DEF StepOn
  <2> QED
    BY <1>0, <1>7, <2>1, FoldTrace
<1> QED
  BY <1>1, <1>2, <1>8 DEF EndsTrace, Traced, n, G, D


\* Starting succeeds if all that is needed to undo the best chain can be read.
LEMMA VerifyDBIs ==
  ASSUME FilesRight(files),
         coinsDB.best \in Blocks, ValidChain[coinsDB.best], coinsDB.view = Unspent[coinsDB.best]
  PROVE  VerifyDB <=> \A b \in Chain[coinsDB.best] \ {Base} : Undoable(b)
<1> DEFINE tip == coinsDB.best
           p == PathOf(Base, tip)
           n == Len(p)
           s == Reverse(p)
           base == [clean |-> TRUE, view |-> coinsDB.view]
           r == FoldLeft(VerifyStep, base, s)
<1>1. /\ tip \in Blocks /\ ValidChain[tip] /\ coinsDB.view \in Views
      /\ Same(coinsDB.view, Unspent[tip])
  <2>1. Unspent[tip] \in Views
    <3> DEFINE v == Unspent[tip]
    <3>1. Base \in TxIds
      BY NamesApart, TreeAssumption
    <3> QED
      BY <3>1, UnspentIs
  <2> QED
    BY <2>1, SameIsEquivalence
<1>2. Base \in Chain[tip] /\ Chain[Base] = {Base}
  BY Ancestors, Chains
<1>3. VerifyDB <=> r.clean
  BY <1>2 DEF VerifyDB, VerifyStep, PathOf
<1>4. base \in Disconnections
  BY <1>1 DEF Disconnections
<1>5. /\ p \in Seq(Blocks \ {Base}) /\ n \in Nat
      /\ \A i \in 1..n : p[i] \in Chain[tip] \ Chain[Base]
      /\ \A c \in Chain[tip] \ Chain[Base] : \E i \in 1..n : c = p[i]
  <2> HIDE DEF tip
  <2>1. /\ p \in Seq(Blocks \ {Base}) /\ n \in Nat
        /\ \A i \in 1..n : p[i] \in Chain[tip] \ Chain[Base]
    BY <1>1, <1>2, PathIs DEF p, n
  <2>2. ASSUME NEW c \in Chain[tip] \ Chain[Base]
        PROVE  \E i \in 1..n : c = p[i]
    <3> DEFINE f == Base
    <3>1. tip \in Blocks /\ f \in Chain[tip] /\ c \in Chain[tip] \ Chain[f] /\ p = PathOf(f, tip)
      BY <1>1, <1>2 DEF p
    <3> HIDE DEF f, p
    <3>2. \A x \in Chain[tip] \ Chain[f] : \E i \in 1..Len(PathOf(f, tip)) : x = PathOf(f, tip)[i]
      BY <3>1, PathCovers
    <3> QED
      BY <3>1, <3>2 DEF n
  <2> QED
    BY <2>1, <2>2
<1>6. /\ Point(Base, tip, 0) = Base /\ Point(Base, tip, n) = tip
      /\ \A i \in 1..n : /\ Point(Base, tip, i) = p[i] /\ p[i] \in Blocks \ {Base}
                         /\ Parent[p[i]] = Point(Base, tip, i - 1)
  <2> HIDE DEF tip
  <2> QED
    BY <1>1, <1>2, PointsAre DEF p, n
<1>30. r = FoldLeft(VerifyStep, base, s)
  OBVIOUS
<1> HIDE DEF tip, p, r
<1>7. /\ s \in Seq(Blocks \ {Base}) /\ Len(s) = n
      /\ \A k \in 1..n : s[k] = p[(n - k) + 1] /\ (n - k) + 1 \in 1..n
  BY <1>5, Backwards
<1> HIDE DEF n, s, base
<1>8. Traced(Disconnections, n, base, VerifySteps(s), r)
  BY <1>30, <1>4, <1>7, VerifyTrace
<1>9. PICK g : Trace(g, Disconnections, n, base, VerifySteps(s)) /\ r = g[n]
  BY <1>8 DEF Traced
<1>10. ASSUME NEW k \in 1..n
       PROVE  /\ g[k - 1] \in Disconnections /\ g[k] \in Disconnections
              /\ g[k] = VerifyStep(g[k - 1], s[k])
  <2>1. StepOf(g, Disconnections, VerifySteps(s), k)
    BY <1>5, <1>9, TraceSteps
  <2> DEFINE d == g[k - 1]
             e == g[k]
  <2>2. d \in Disconnections /\ e \in Disconnections /\ e = VerifySteps(s)[<<d, k>>]
    BY <2>1 DEF StepOf
  <2>3. k \in 1..Len(s)
    BY <1>7
  <2> HIDE DEF d, e
  <2>4. VerifySteps(s)[<<d, k>>] = VerifyStep(d, s[k])
    BY <2>2, <2>3 DEF VerifySteps
  <2> QED
    BY <2>2, <2>4 DEF d, e
<1>11. g[0] = base
  BY <1>9 DEF Trace
<1> DEFINE Ready(k) == \A i \in 1..n : i > n - k => Undoable(p[i])
           Right(k) == /\ g[k] \in Disconnections
                       /\ g[k].clean <=> Ready(k)
                       /\ g[k].clean => Same(g[k].view, Unspent[Point(Base, tip, n - k)])
           N == {k \in 0..n : Right(k)}
<1>12. 0 \in N
  <2>1. Ready(0)
    BY <1>5
  <2>2. n - 0 = n /\ 0 \in 0..n
    BY <1>5
  <2>3. base.clean /\ base.view = coinsDB.view
    BY DEF base
  <2>4. Same(g[0].view, Unspent[Point(Base, tip, n - 0)])
    BY <1>1, <1>6, <1>11, <2>2, <2>3
  <2> QED
    BY <1>4, <1>11, <2>1, <2>2, <2>3, <2>4
<1>13. ASSUME NEW k \in 1..n, k - 1 \in N
       PROVE  k \in N
  <2> DEFINE i == (n - k) + 1
             b == p[i]
             d == g[k - 1]
  <2>1. i \in 1..n /\ n - (k - 1) = i /\ i - 1 = n - k /\ k \in 0..n
    BY <1>5
  <2>2. s[k] = b
    BY <1>7
  <2>3. d \in Disconnections /\ g[k] = VerifyStep(d, b) /\ g[k] \in Disconnections
    BY <1>10, <2>2
  <2>4. /\ d.clean <=> Ready(k - 1)
        /\ d.clean => Same(d.view, Unspent[Point(Base, tip, i)])
    BY <1>13, <2>1
  <2>5. Ready(k) <=> Ready(k - 1) /\ Undoable(b)
    <3>1. \A j \in 1..n : j > n - k <=> (j > n - (k - 1) \/ j = i)
      <4>1. n \in Nat
        BY <1>5
      <4> QED
        BY <4>1
    <3> HIDE DEF i
    <3> QED
      BY <2>1, <3>1
  <2> HIDE DEF Ready
  <2>6. b \in Blocks \ {Base} /\ Point(Base, tip, i) = b /\ Parent[b] = Point(Base, tip, n - k)
        /\ b \in Chain[tip]
    BY <1>5, <1>6, <2>1
  <2>7. ValidChain[b]
    BY <1>1, <2>6, ValidGrows
  <2> HIDE DEF i, b, d
  <2>8. /\ ~d.clean => g[k] = d
        /\ d.clean /\ ~Undoable(b) => ~g[k].clean
        /\ d.clean /\ Undoable(b) /\ ValidChain[b] /\ Same(d.view, Unspent[b]) =>
             g[k].clean /\ Same(g[k].view, Unspent[Parent[b]])
    <3> DEFINE e == VerifyStep(d, b)
    <3>1. /\ ~d.clean => e = d
          /\ d.clean /\ ~Undoable(b) => ~e.clean
          /\ d.clean /\ Undoable(b) /\ ValidChain[b] /\ Same(d.view, Unspent[b]) =>
               e.clean /\ Same(e.view, Unspent[Parent[b]])
      BY <2>3, <2>6, VerifyStepIs
    <3>2. g[k] = e
      BY <2>3
    <3> HIDE DEF e
    <3> QED
      BY <3>1, <3>2
  <2>9. /\ g[k].clean <=> d.clean /\ Undoable(b)
        /\ g[k].clean => Same(g[k].view, Unspent[Parent[b]])
    BY <2>4, <2>6, <2>7, <2>8
  <2> QED
    BY <2>1, <2>3, <2>4, <2>5, <2>6, <2>9
<1>14. n \in N
  <2> HIDE DEF N
  <2>1. n \in 0..n
    BY <1>5
  <2> QED
    BY <1>5, <1>12, <1>13, <2>1, StepInduction
<1>15. Ready(n) <=> \A b \in Chain[tip] \ {Base} : Undoable(b)
  <2>1. \A i \in 1..n : i > n - n
    BY <1>5
  <2>2. Ready(n) <=> \A i \in 1..n : Undoable(p[i])
    BY <2>1
  <2> HIDE DEF Ready
  <2>3. ASSUME \A i \in 1..n : Undoable(p[i]), NEW b \in Chain[tip] \ {Base}
        PROVE  Undoable(b)
    <3>1. PICK i \in 1..n : b = p[i]
      BY <1>2, <1>5
    <3> QED
      BY <2>3, <3>1
  <2> QED
    BY <1>2, <1>5, <2>2, <2>3
<1> HIDE DEF Ready
<1>16. r.clean <=> Ready(n)
  BY <1>9, <1>14
<1> QED
  BY <1>3, <1>15, <1>16 DEF tip

-----------------------------------------------------------------------------
(* What a reorganisation connects *)

LEMMA ConnectBlockType ==
  ASSUME NEW b \in Blocks, NEW view \in Views
  PROVE  ConnectBlock(view, b) \in Connections
<1> DEFINE n == Len(AllTxs(b))
           base == ConnectStart(view, b)
           G == ConnectSteps(b)
           r == ConnectBlock(view, b)
<1>1. Traced(Connections, n, base, G, r) /\ n \in Nat
  BY ConnectTrace
<1> HIDE DEF n, base, G, r
<1>2. PICK g : Trace(g, Connections, n, base, G) /\ r = g[n]
  BY <1>1 DEF Traced
<1>3. n \in 0..n
  BY <1>1
<1>4. g \in [0..n -> Connections]
  BY <1>2 DEF Trace
<1> QED
  BY <1>2, <1>3, <1>4 DEF r

Linked == [stop : Stops, view : Views, undo : Seq(Seq(Seq(Int)))]

\* A step of Connected.
LinkStep(done, b) ==
  LET one == ConnectBlock(done.view, b)
  IN IF done.stop # "no" THEN done
     ELSE IF b \notin files.data THEN [done EXCEPT !.stop = "abort"]
     ELSE IF ~one.ok THEN [done EXCEPT !.stop = "invalid"]
     ELSE [done EXCEPT !.view = one.view, !.undo = Append(@, one.undo)]

LinkSteps(s) == [p \in Linked \X (1..Len(s)) |-> LinkStep(p[1], s[p[2]])]

LEMMA LinkStepIs ==
  ASSUME NEW done \in Linked, NEW b \in Blocks \ {Base}
  PROVE  /\ LinkStep(done, b) \in Linked
         /\ done.stop # "no" => LinkStep(done, b) = done
         /\ done.stop = "no" /\ b \notin files.data =>
              LinkStep(done, b).stop = "abort" /\ LinkStep(done, b).undo = done.undo
         /\ /\ done.stop = "no" /\ b \in files.data
            /\ ValidChain[Parent[b]] /\ Same(done.view, Unspent[Parent[b]])
            => /\ ValidChain[b] => /\ LinkStep(done, b).stop = "no"
                                   /\ Same(LinkStep(done, b).view, Unspent[b])
                                   /\ LinkStep(done, b).undo = Append(done.undo, BlockUndo(b))
               /\ ~ValidChain[b] => /\ LinkStep(done, b).stop = "invalid"
                                    /\ LinkStep(done, b).undo = done.undo
<1> DEFINE one == ConnectBlock(done.view, b)
           next == LinkStep(done, b)
<1>1. done.stop \in Stops /\ done.view \in Views /\ done.undo \in Seq(Seq(Seq(Int)))
  BY DEF Linked
<1>2. /\ one \in Connections
      /\ ValidChain[Parent[b]] /\ Same(done.view, Unspent[Parent[b]]) =>
           /\ one.ok <=> ValidChain[b]
           /\ ValidChain[b] => Same(one.view, Unspent[b]) /\ one.undo = BlockUndo(b)
  <2>1. one \in Connections
    BY <1>1, ConnectBlockType
  <2>2. ASSUME ValidChain[Parent[b]], Same(done.view, Unspent[Parent[b]])
        PROVE  /\ one.ok <=> ValidChain[b]
               /\ ValidChain[b] => Same(one.view, Unspent[b]) /\ one.undo = BlockUndo(b)
    BY <1>1, <2>2, ConnectBlockIs
  <2> QED
    BY <2>1, <2>2
<1>3. next =
        IF done.stop # "no" THEN done
        ELSE IF b \notin files.data THEN [done EXCEPT !.stop = "abort"]
        ELSE IF ~one.ok THEN [done EXCEPT !.stop = "invalid"]
        ELSE [done EXCEPT !.view = one.view, !.undo = Append(done.undo, one.undo)]
  BY DEF LinkStep
<1> HIDE DEF one, next
<1>4. CASE done.stop # "no"
  <2>1. next = done
    BY <1>3, <1>4
  <2> QED
    BY <1>4, <2>1 DEF next
<1>5. CASE done.stop = "no" /\ b \notin files.data
  <2>1. next = [done EXCEPT !.stop = "abort"]
    BY <1>3, <1>5
  <2>2. next \in Linked /\ next.stop = "abort" /\ next.undo = done.undo
    BY <1>1, <2>1 DEF Linked, Stops
  <2> QED
    BY <1>5, <2>2 DEF next
<1>6. CASE done.stop = "no" /\ b \in files.data /\ ~one.ok
  <2>1. next = [done EXCEPT !.stop = "invalid"]
    BY <1>3, <1>6
  <2>2. next \in Linked /\ next.stop = "invalid" /\ next.undo = done.undo
    BY <1>1, <2>1 DEF Linked, Stops
  <2>3. ValidChain[Parent[b]] /\ Same(done.view, Unspent[Parent[b]]) => ~ValidChain[b]
    BY <1>2, <1>6
  <2> QED
    BY <1>6, <2>2, <2>3 DEF next
<1>7. CASE done.stop = "no" /\ b \in files.data /\ one.ok
  <2>1. next = [done EXCEPT !.view = one.view, !.undo = Append(done.undo, one.undo)]
    BY <1>3, <1>7
  <2>2. one.view \in Views /\ one.undo \in Seq(Seq(Int))
    BY <1>2 DEF Connections
  <2>3. Append(done.undo, one.undo) \in Seq(Seq(Seq(Int)))
    BY <1>1, <2>2
  <2>4. next = [stop |-> "no", view |-> one.view, undo |-> Append(done.undo, one.undo)]
    BY <1>1, <1>7, <2>1 DEF Linked
  <2>5. next \in Linked /\ next.stop = "no" /\ next.view = one.view
        /\ next.undo = Append(done.undo, one.undo)
    BY <2>2, <2>3, <2>4 DEF Linked, Stops
  <2>6. ValidChain[Parent[b]] /\ Same(done.view, Unspent[Parent[b]]) =>
          ValidChain[b] /\ Same(one.view, Unspent[b]) /\ one.undo = BlockUndo(b)
    BY <1>2, <1>7
  <2> QED
    BY <1>7, <2>5, <2>6 DEF next
<1> QED
  BY <1>4, <1>5, <1>6, <1>7


\* Connected is a fold of its steps.
LEMMA LinkTrace ==
  ASSUME NEW s \in Seq(Blocks \ {Base}), NEW base \in Linked
  PROVE  /\ Traced(Linked, Len(s), base, LinkSteps(s), FoldLeft(LinkStep, base, s))
         /\ Len(s) \in Nat
<1> DEFINE D == Linked
           n == Len(s)
           G == LinkSteps(s)
           f == CHOOSE f : f = [S \in SUBSET DOMAIN s |->
                                  IF S = {} THEN base
                                  ELSE LET x == Max(S) IN LinkStep(f[S \ {x}], s[x])]
<1>1. n \in Nat /\ DOMAIN s = 1..n /\ \A i \in 1..n : s[i] \in Blocks \ {Base}
  OBVIOUS
<1>2. FoldLeft(LinkStep, base, s) = f[1..n]
  BY <1>1 DEF FoldLeft, MapThenFoldSet
<1>3. G \in [D \X (1..n) -> D]
  BY <1>1, LinkStepIs DEF LinkSteps
<1>4. \A v \in D, i \in 1..n : G[<<v, i>>] = LinkStep(v, s[i])
  BY DEF LinkSteps
<1>0. n \in Nat /\ DOMAIN s = 1..n /\ base \in D
  BY <1>1
<1> HIDE DEF n, G, D
<1>6. f = [S \in SUBSET (1..n) |->
             IF S = {} THEN base ELSE LET x == Max(S) IN LinkStep(f[S \ {x}], s[x])]
  <2>1. IsFiniteSet(1..n) /\ 1..n \subseteq Int
    BY <1>0, FS_Interval
  <2>2. PICK g \in [SUBSET (1..n) -> D] : FoldsOn(g, SUBSET (1..n), base, G)
    BY <1>0, <1>3, <2>1, FoldExists
  <2>3. ASSUME NEW S \in SUBSET (1..n)
        PROVE  g[S] = IF S = {} THEN base ELSE LET x == Max(S) IN LinkStep(g[S \ {x}], s[x])
    <3>1. S # {} => Max(S) \in 1..n
      BY <2>1, MaxIsMember
    <3> QED
      BY <1>4, <2>2, <3>1 DEF FoldsOn
  <2>4. g = [S \in SUBSET (1..n) |->
               IF S = {} THEN base ELSE LET x == Max(S) IN LinkStep(g[S \ {x}], s[x])]
    <3>1. g = [S \in SUBSET (1..n) |-> g[S]]
      OBVIOUS
    <3> QED
      BY <2>3, <3>1
  <2> DEFINE IsFold(q) ==
               q = [S \in SUBSET (1..n) |->
                      IF S = {} THEN base
                      ELSE LET x == Max(S) IN LinkStep(q[S \ {x}], s[x])]
  <2>5. f = CHOOSE q : IsFold(q)
    BY <1>0
  <2>6. IsFold(g)
    BY <2>4
  <2> HIDE DEF f, IsFold
  <2>7. IsFold(f)
    BY <2>5, <2>6
  <2> QED
    BY <2>7 DEF IsFold
<1> HIDE DEF f
<1>7. FoldsIn(f, D, n, base, G)
  <2>1. f[{}] = base
    BY <1>6
  <2> SUFFICES ASSUME NEW S \in SUBSET (1..n), S # {}, f[S \ {Max(S)}] \in D
               PROVE  f[S] = G[<<f[S \ {Max(S)}], Max(S)>>]
    BY <2>1 DEF FoldsIn
  <2>2. IsFiniteSet(1..n) /\ 1..n \subseteq Int
    BY <1>0, FS_Interval
  <2>3. Max(S) \in 1..n
    BY <2>2, MaxIsMember
  <2>4. f[S] = LinkStep(f[S \ {Max(S)}], s[Max(S)])
    BY <1>6
  <2> QED
    BY <1>4, <2>3, <2>4
<1>8. EndsTrace(f, D, n, base, G)
  <2>1. StepOn(G, D, n)
    BY <1>3 DEF StepOn
  <2> QED
    BY <1>0, <1>7, <2>1, FoldTrace
<1> QED
  BY <1>1, <1>2, <1>8 DEF EndsTrace, Traced, n, G, D

\* All that is needed to go from the best chain to that of new can be read.
CanRead(new) ==
  /\ CanLeave(new)
  /\ \A b \in Chain[new] \ Chain[coinsTip.best] : b \in files.data

\* What connecting the first k blocks of p from start has come to, in done.
LinkedTo(start, p, k, done) ==
  /\ done \in Linked
  /\ Len(done.undo) <= k
  /\ \A i \in 1..Len(done.undo) : done.undo[i] = BlockUndo(p[i]) /\ ValidChain[p[i]]
  /\ done.stop = "no" <=> /\ start.stop = "no"
                          /\ \A i \in 1..k : p[i] \in files.data /\ ValidChain[p[i]]
  /\ done.stop = "no" => Len(done.undo) = k
  /\ done.stop = "invalid" => /\ Len(done.undo) < k
                              /\ ValidChain[Parent[p[Len(done.undo) + 1]]]
                              /\ ~ValidChain[p[Len(done.undo) + 1]]
  /\ start.stop = "no" /\ (\A i \in 1..k : p[i] \in files.data) => done.stop \in {"no", "invalid"}

LEMMA LinkedToNext ==
  ASSUME NEW start \in Undone, NEW p, NEW k \in Nat \ {0},
         NEW done, LinkedTo(start, p, k - 1, done),
         p[k] \in Blocks \ {Base},
         (\A i \in 1..(k - 1) : ValidChain[p[i]]) => ValidChain[Parent[p[k]]],
         done.stop = "no" => Same(done.view, Unspent[Parent[p[k]]])
  PROVE  /\ LinkedTo(start, p, k, LinkStep(done, p[k]))
         /\ LinkStep(done, p[k]).stop = "no" => Same(LinkStep(done, p[k]).view, Unspent[p[k]])
<1> DEFINE b == p[k]
           e == LinkStep(done, b)
           m == Len(done.undo)
           First(j) == \A i \in 1..j : p[i] \in files.data /\ ValidChain[p[i]]
           Read(j) == \A i \in 1..j : p[i] \in files.data
<1>1. /\ done \in Linked /\ m <= k - 1
      /\ \A i \in 1..m : done.undo[i] = BlockUndo(p[i]) /\ ValidChain[p[i]]
      /\ done.stop = "no" <=> start.stop = "no" /\ First(k - 1)
      /\ done.stop = "no" => m = k - 1
      /\ done.stop = "invalid" => /\ m < k - 1
                                  /\ ValidChain[Parent[p[m + 1]]]
                                  /\ ~ValidChain[p[m + 1]]
      /\ start.stop = "no" /\ Read(k - 1) => done.stop \in {"no", "invalid"}
  BY DEF LinkedTo
<1>2. m \in Nat /\ done.undo \in Seq(Seq(Seq(Int))) /\ done.stop \in Stops
  BY <1>1 DEF Linked
<1>3. /\ e \in Linked
      /\ done.stop # "no" => e = done
      /\ done.stop = "no" /\ b \notin files.data => e.stop = "abort" /\ e.undo = done.undo
      /\ /\ done.stop = "no" /\ b \in files.data
         /\ ValidChain[Parent[b]] /\ Same(done.view, Unspent[Parent[b]])
         => /\ ValidChain[b] => /\ e.stop = "no" /\ Same(e.view, Unspent[b])
                                /\ e.undo = Append(done.undo, BlockUndo(b))
            /\ ~ValidChain[b] => e.stop = "invalid" /\ e.undo = done.undo
  <2>1. b \in Blocks \ {Base}
    OBVIOUS
  <2> HIDE DEF b
  <2> QED
    BY <1>1, <2>1, LinkStepIs
<1>4. /\ First(k) <=> First(k - 1) /\ b \in files.data /\ ValidChain[b]
      /\ Read(k) <=> Read(k - 1) /\ b \in files.data
      /\ First(k - 1) => ValidChain[Parent[b]] /\ Read(k - 1)
  <2>1. \A j : j \in 1..k <=> j \in 1..(k - 1) \/ j = k
    BY UpToNext
  <2>2. (\A i \in 1..(k - 1) : ValidChain[p[i]]) => ValidChain[Parent[b]]
    OBVIOUS
  <2> QED
    BY <2>1, <2>2
<1>5. k - 1 < k /\ k \in Nat /\ (k - 1) + 1 = k
  OBVIOUS
<1> HIDE DEF e, First, Read
<1> SUFFICES /\ LinkedTo(start, p, k, e)
             /\ e.stop = "no" => Same(e.view, Unspent[b])
  BY DEF e
<1> SUFFICES /\ Len(e.undo) <= k
             /\ \A i \in 1..Len(e.undo) : e.undo[i] = BlockUndo(p[i]) /\ ValidChain[p[i]]
             /\ e.stop = "no" <=> start.stop = "no" /\ First(k)
             /\ e.stop = "no" => Len(e.undo) = k /\ Same(e.view, Unspent[b])
             /\ e.stop = "invalid" => /\ Len(e.undo) < k
                                      /\ ValidChain[Parent[p[Len(e.undo) + 1]]]
                                      /\ ~ValidChain[p[Len(e.undo) + 1]]
             /\ start.stop = "no" /\ Read(k) => e.stop \in {"no", "invalid"}
  BY <1>3 DEF LinkedTo, First, Read
<1>6. CASE done.stop # "no"
  <2>1. e = done
    BY <1>3, <1>6
  <2> HIDE DEF b, m
  <2>2. m <= k /\ (m < k - 1 => m < k)
    BY <1>1, <1>2, <1>5
  <2> QED
    BY <1>1, <1>4, <1>6, <2>1, <2>2 DEF m
<1>7. CASE done.stop = "no" /\ b \notin files.data
  <2>1. e.stop = "abort" /\ e.undo = done.undo
    BY <1>3, <1>7
  <2> HIDE DEF b, m
  <2>2. m <= k
    BY <1>1, <1>2, <1>5
  <2> QED
    BY <1>1, <1>4, <1>7, <2>1, <2>2 DEF m
<1>8. CASE done.stop = "no" /\ b \in files.data /\ ~ValidChain[b]
  <2>1. start.stop = "no" /\ First(k - 1) /\ ValidChain[Parent[b]] /\ m = k - 1
    BY <1>1, <1>4, <1>8
  <2>2. Same(done.view, Unspent[Parent[b]])
    BY <1>8
  <2>3. e.stop = "invalid" /\ e.undo = done.undo
    BY <1>3, <1>8, <2>1, <2>2
  <2>4. p[m + 1] = b
    BY <1>5, <2>1
  <2> HIDE DEF b, m
  <2>5. m <= k /\ m < k
    BY <1>2, <1>5, <2>1
  <2> QED
    BY <1>1, <1>4, <1>8, <2>1, <2>3, <2>4, <2>5 DEF m
<1>9. CASE done.stop = "no" /\ b \in files.data /\ ValidChain[b]
  <2>1. start.stop = "no" /\ First(k - 1) /\ ValidChain[Parent[b]] /\ m = k - 1
    BY <1>1, <1>4, <1>9
  <2>2. Same(done.view, Unspent[Parent[b]])
    BY <1>9
  <2>3. e.stop = "no" /\ Same(e.view, Unspent[b]) /\ e.undo = Append(done.undo, BlockUndo(b))
    BY <1>3, <1>9, <2>1, <2>2
  <2>4. Len(e.undo) = k /\ e.undo[k] = BlockUndo(b) /\ \A i \in 1..(k - 1) : e.undo[i] = done.undo[i]
    <3> DEFINE u == BlockUndo(b)
               s == done.undo
    <3>1. s \in Seq(Seq(Seq(Int))) /\ Len(s) = k - 1 /\ e.undo = Append(s, u)
      BY <1>2, <2>1, <2>3
    <3> HIDE DEF u, s
    <3>2. Len(e.undo) = k /\ e.undo[k] = u /\ \A i \in 1..(k - 1) : e.undo[i] = s[i]
      BY <1>5, <3>1
    <3> QED
      BY <3>2 DEF u, s
  <2>5. \A i \in 1..k : e.undo[i] = BlockUndo(p[i]) /\ ValidChain[p[i]]
    <3>1. \A j : j \in 1..k <=> j \in 1..(k - 1) \/ j = k
      BY UpToNext
    <3> QED
      BY <1>1, <1>9, <2>1, <2>4, <3>1
  <2>6. k <= k
    BY <1>5
  <2> HIDE DEF b, m
  <2> QED
    BY <1>4, <1>9, <2>1, <2>3, <2>4, <2>5, <2>6
<1>10. (done.stop # "no") \/ (done.stop = "no" /\ b \notin files.data)
       \/ (done.stop = "no" /\ b \in files.data /\ ~ValidChain[b])
       \/ (done.stop = "no" /\ b \in files.data /\ ValidChain[b])
  OBVIOUS
<1> QED
  BY <1>6, <1>7, <1>8, <1>9, <1>10

\* How Connected ends, and what it has connected.
LEMMA ConnectedIs ==
  ASSUME FilesRight(files), TipRight, NEW new \in Blocks
  PROVE  /\ LinkedTo(Disconnected(new), vConnect(new), Len(vConnect(new)), Connected(new))
         /\ Disconnected(new).stop = "no" <=> CanLeave(new)
         /\ Disconnected(new).stop \in {"no", "abort", "error"}
         /\ Connected(new).stop = "no" => Same(Connected(new).view, Unspent[new])
<1> DEFINE tip == coinsTip.best
           start == Disconnected(new)
           r == Connected(new)
           base == [stop |-> start.stop, view |-> start.view, undo |-> <<>>]
           s == vConnect(new)
           n == Len(s)
<1>1. tip \in Blocks /\ ValidChain[tip]
  BY DEF TipRight
<1>2. PICK f \in Blocks : IsFork(f, tip, new)
  <2> HIDE DEF tip
  <2> QED
    BY <1>1, ForkExists
<1>3. f \in Chain[new] /\ f \in Chain[tip]
  BY <1>2 DEF IsFork
<1>4. ValidChain[f]
  <2> HIDE DEF tip
  <2> QED
    BY <1>1, <1>3, ValidGrows
<1>5. /\ start \in Undone
      /\ start.stop \in {"no", "abort", "error"}
      /\ start.stop = "no" <=> CanLeave(new)
      /\ start.stop = "no" => Same(start.view, Unspent[f])
  BY <1>2, DisconnectedIs
<1>6. s = PathOf(f, new)
  BY <1>1, <1>2, BranchesAre
<1>7. r = FoldLeft(LinkStep, base, s)
  BY DEF Connected, LinkStep
<1> HIDE DEF start, r, s
<1>8. base \in Linked
  BY <1>5 DEF Undone, Linked, Stops
<1>9. s \in Seq(Blocks \ {Base}) /\ n \in Nat
  BY <1>3, <1>6, PathIs
<1>10. /\ Point(f, new, 0) = f /\ Point(f, new, n) = new
       /\ \A i \in 1..n : /\ Point(f, new, i) = s[i] /\ s[i] \in Blocks \ {Base}
                          /\ Parent[s[i]] = Point(f, new, i - 1)
  BY <1>3, <1>6, PointsAre
<1> HIDE DEF n, base
<1>11. Traced(Linked, n, base, LinkSteps(s), r)
  BY <1>7, <1>8, <1>9, LinkTrace DEF n
<1>12. PICK g : Trace(g, Linked, n, base, LinkSteps(s)) /\ r = g[n]
  BY <1>11 DEF Traced
<1>13. ASSUME NEW k \in 1..n
       PROVE  /\ g[k - 1] \in Linked /\ g[k] \in Linked
              /\ g[k] = LinkStep(g[k - 1], s[k])
  <2>1. StepOf(g, Linked, LinkSteps(s), k)
    BY <1>9, <1>12, TraceSteps
  <2> DEFINE d == g[k - 1]
             e == g[k]
  <2>2. d \in Linked /\ e \in Linked /\ e = LinkSteps(s)[<<d, k>>]
    BY <2>1 DEF StepOf
  <2>3. k \in 1..Len(s)
    BY DEF n
  <2> HIDE DEF d, e
  <2>4. LinkSteps(s)[<<d, k>>] = LinkStep(d, s[k])
    BY <2>2, <2>3 DEF LinkSteps
  <2> QED
    BY <2>2, <2>4 DEF d, e
<1>14. g[0] = base
  BY <1>12 DEF Trace
<1> DEFINE Right(k) == /\ LinkedTo(start, s, k, g[k])
                       /\ g[k].stop = "no" => Same(g[k].view, Unspent[Point(f, new, k)])
           N == {k \in 0..n : Right(k)}
<1>15. 0 \in N
  <2>1. base.stop = start.stop /\ base.view = start.view /\ base.undo = <<>> /\ Len(<<>>) = 0
    BY DEF base
  <2>2. \A i \in 1..0 : FALSE
    OBVIOUS
  <2>3. LinkedTo(start, s, 0, base)
    BY <1>5, <1>8, <2>1, <2>2 DEF LinkedTo
  <2>4. 0 \in 0..n
    BY <1>9
  <2> QED
    BY <1>5, <1>10, <1>14, <2>1, <2>3, <2>4
<1>16. ASSUME NEW k \in 1..n, k - 1 \in N
       PROVE  k \in N
  <2> DEFINE d == g[k - 1]
             b == s[k]
  <2>1. /\ LinkedTo(start, s, k - 1, d)
        /\ d.stop = "no" => Same(d.view, Unspent[Point(f, new, k - 1)])
    BY <1>16
  <2>2. b \in Blocks \ {Base} /\ Parent[b] = Point(f, new, k - 1) /\ Point(f, new, k) = b
    BY <1>10
  <2>3. (\A i \in 1..(k - 1) : ValidChain[s[i]]) => ValidChain[Parent[b]]
    <3>1. CASE k = 1
      <4>1. k - 1 = 0
        BY <3>1
      <4> QED
        BY <1>4, <1>10, <2>2, <4>1
    <3>2. CASE k # 1
      <4> DEFINE j == k - 1
      <4>1. j \in 1..(k - 1) /\ j \in 1..n
        BY <1>9, <3>2
      <4> HIDE DEF j
      <4>2. Point(f, new, j) = s[j]
        BY <1>10, <4>1
      <4>3. Parent[b] = s[j]
        BY <2>2, <4>2 DEF j
      <4> QED
        BY <4>1, <4>3
    <3> QED
      BY <3>1, <3>2
  <2>4. k \in Nat \ {0} /\ k \in 0..n
    BY <1>9
  <2>5. g[k] = LinkStep(d, b)
    BY <1>13
  <2> HIDE DEF d
  <2>6. d.stop = "no" => Same(d.view, Unspent[Parent[b]])
    BY <2>1, <2>2
  <2>7. /\ LinkedTo(start, s, k, LinkStep(d, s[k]))
        /\ LinkStep(d, s[k]).stop = "no" => Same(LinkStep(d, s[k]).view, Unspent[s[k]])
    BY <1>5, <2>1, <2>2, <2>3, <2>4, <2>6, LinkedToNext
  <2> QED
    BY <2>2, <2>4, <2>5, <2>7
<1>17. n \in N
  <2> HIDE DEF N
  <2>1. n \in 0..n
    BY <1>9
  <2> QED
    BY <1>9, <1>15, <1>16, <2>1, StepInduction
<1>18. LinkedTo(start, s, n, r) /\ (r.stop = "no" => Same(r.view, Unspent[new]))
  BY <1>10, <1>12, <1>17
<1> QED
  BY <1>5, <1>18 DEF start, r, s, n

\* All that is needed to go to the chain of new is there, and the chain is valid.
CanConnect(new) == CanRead(new) /\ ValidChain[new]

\* The same, with the blocks that are connected.
LEMMA ReorgIs ==
  ASSUME FilesRight(files), TipRight, NEW new \in Blocks
  PROVE  /\ Connected(new) \in Linked
         /\ Len(vConnect(new)) \in Nat /\ Len(Connected(new).undo) \in 0..Len(vConnect(new))
         /\ \A i \in 1..Len(vConnect(new)) :
              vConnect(new)[i] \in Chain[new] \ Chain[coinsTip.best]
         /\ \A i \in 1..Len(vConnect(new)) : vConnect(new)[i] \in Blocks \ {Base}
         /\ \A b \in Chain[new] \ Chain[coinsTip.best] :
              \E i \in 1..Len(vConnect(new)) : b = vConnect(new)[i]
         /\ \A i \in 1..Len(Connected(new).undo) :
              Connected(new).undo[i] = BlockUndo(vConnect(new)[i])
         /\ Connected(new).stop = "no" <=> CanConnect(new)
         /\ Connected(new).stop = "no" =>
              /\ Len(Connected(new).undo) = Len(vConnect(new))
              /\ Same(Connected(new).view, Unspent[new])
         /\ Connected(new).stop = "invalid" =>
              /\ Len(Connected(new).undo) + 1 \in 1..Len(vConnect(new))
              /\ ~ValidChain[vConnect(new)[Len(Connected(new).undo) + 1]]
         /\ CanRead(new) => Connected(new).stop \in {"no", "invalid"}
<1> DEFINE tip == coinsTip.best
           start == Disconnected(new)
           r == Connected(new)
           s == vConnect(new)
           n == Len(s)
           m == Len(r.undo)
<1>1. tip \in Blocks /\ ValidChain[tip]
  BY DEF TipRight
<1>2. PICK f \in Blocks : IsFork(f, tip, new)
  <2> HIDE DEF tip
  <2> QED
    BY <1>1, ForkExists
<1>3. f \in Chain[new] /\ f \in Chain[tip] /\ Chain[new] \ Chain[tip] = Chain[new] \ Chain[f]
  <2> HIDE DEF tip
  <2> QED
    BY <1>1, <1>2, ForkExists DEF IsFork
<1>4. ValidChain[f]
  <2> HIDE DEF tip
  <2> QED
    BY <1>1, <1>3, ValidGrows
<1>5. s = PathOf(f, new)
  BY <1>1, <1>2, BranchesAre
<1>6. /\ LinkedTo(start, s, n, r)
      /\ start.stop = "no" <=> CanLeave(new)
      /\ r.stop = "no" => Same(r.view, Unspent[new])
  BY ConnectedIs
<1> HIDE DEF start, r, s
<1>7. /\ n \in Nat
      /\ \A i \in 1..n : s[i] \in Chain[new] \ Chain[f] /\ s[i] \in Blocks \ {Base}
  BY <1>3, <1>5, PathIs
<1>8. ASSUME NEW c \in Chain[new] \ Chain[f]
      PROVE  \E i \in 1..n : c = s[i]
  <2> DEFINE q == PathOf(f, new)
  <2>1. nHeight[c] - nHeight[f] \in 1..Len(q) /\ c = q[nHeight[c] - nHeight[f]]
    BY <1>3, PathIs
  <2> HIDE DEF q
  <2>2. \E i \in 1..Len(q) : c = q[i]
    BY <2>1
  <2> QED
    BY <1>5, <2>2 DEF q
<1>9. (n = 0 => new = f) /\ (n # 0 => n \in 1..n /\ s[n] = new)
  <2>1. Point(f, new, 0) = f /\ Point(f, new, n) = new
    BY <1>3, <1>5, PointsAre
  <2>2. n # 0 => n \in 1..n
    BY <1>7
  <2>3. \A i \in 1..n : Point(f, new, i) = s[i]
    BY <1>3, <1>5, PointsAre
  <2> HIDE DEF n
  <2> QED
    BY <2>1, <2>2, <2>3
<1>10. (\A i \in 1..n : ValidChain[s[i]]) <=> ValidChain[new]
  <2>1. ASSUME \A i \in 1..n : ValidChain[s[i]] PROVE ValidChain[new]
    BY <1>4, <1>9, <2>1
  <2>2. ASSUME ValidChain[new], NEW i \in 1..n PROVE ValidChain[s[i]]
    BY <1>7, <2>2, ValidGrows
  <2>3. ValidChain[new] \in BOOLEAN /\ \A i \in 1..n : ValidChain[s[i]] \in BOOLEAN
    BY <1>7, ValidGrows
  <2> QED
    BY <2>1, <2>2, <2>3
<1>11. (\A i \in 1..n : s[i] \in files.data) <=> \A b \in Chain[new] \ Chain[tip] : b \in files.data
  <2>1. ASSUME \A i \in 1..n : s[i] \in files.data, NEW b \in Chain[new] \ Chain[tip]
        PROVE  b \in files.data
    <3>1. PICK i \in 1..n : b = s[i]
      BY <1>3, <1>8
    <3> QED
      BY <2>1, <3>1
  <2> QED
    BY <1>3, <1>7, <2>1
<1>12. /\ r \in Linked /\ m <= n
       /\ \A i \in 1..m : r.undo[i] = BlockUndo(s[i])
       /\ r.stop = "no" <=> start.stop = "no" /\ \A i \in 1..n : s[i] \in files.data /\ ValidChain[s[i]]
       /\ r.stop = "no" => m = n
       /\ r.stop = "invalid" => m < n /\ ~ValidChain[s[m + 1]]
       /\ start.stop = "no" /\ (\A i \in 1..n : s[i] \in files.data) => r.stop \in {"no", "invalid"}
  BY <1>6 DEF LinkedTo
<1>13. r.stop = "no" <=> CanConnect(new)
  BY <1>6, <1>10, <1>11, <1>12 DEF CanConnect, CanRead, tip
<1>14. CanRead(new) => r.stop \in {"no", "invalid"}
  BY <1>6, <1>11, <1>12 DEF CanRead, tip
<1>15. m \in 0..n /\ (m < n => m + 1 \in 1..n)
  <2>1. m \in Nat
    BY <1>12 DEF Linked
  <2> HIDE DEF m, n
  <2> QED
    BY <1>7, <1>12, <2>1
<1> HIDE DEF m, n
<1>16. /\ r \in Linked /\ n \in Nat /\ m \in 0..n
       /\ \A i \in 1..n : s[i] \in Chain[new] \ Chain[tip]
       /\ \A i \in 1..n : s[i] \in Blocks \ {Base}
       /\ \A b \in Chain[new] \ Chain[tip] : \E i \in 1..n : b = s[i]
       /\ \A i \in 1..m : r.undo[i] = BlockUndo(s[i])
       /\ r.stop = "no" => m = n /\ Same(r.view, Unspent[new])
       /\ r.stop = "invalid" => m + 1 \in 1..n /\ ~ValidChain[s[m + 1]]
  BY <1>3, <1>6, <1>7, <1>8, <1>12, <1>15
<1> QED
  BY <1>13, <1>14, <1>16 DEF r, s, n, m, tip

-----------------------------------------------------------------------------
(* The inductive invariant *)

\* An index: with a block it holds the one before; what is marked as failed is not valid.
EntriesRight(i) ==
  /\ i \in [DOMAIN i -> Status]
  /\ DOMAIN i \subseteq Blocks /\ Base \in DOMAIN i
  /\ \A b \in DOMAIN i \ {Base} : Parent[b] \in DOMAIN i
  /\ \A b \in DOMAIN i : i[b].failed # "no" => ~ValidChain[b]

\* Block and undo files: the undo data of a block is what connecting it has written.
FilesFit(f) ==
  /\ f = [data |-> f.data, undo |-> f.undo]
  /\ f.data \subseteq Blocks /\ DOMAIN f.undo \subseteq Blocks
  /\ FilesRight(f)

\* A coin database: the coins of the chain up to its best block, which is valid.
DBRight(db) ==
  /\ db.best \in Blocks /\ ValidChain[db.best]
  /\ db = [view |-> Unspent[db.best], best |-> db.best]

DiskRight(d) ==
  /\ d = [index |-> d.index, files |-> d.files, coinsDB |-> d.coinsDB]
  /\ EntriesRight(d.index) /\ FilesFit(d.files) /\ DBRight(d.coinsDB)

CacheFits(cache) == DOMAIN cache \subseteq TxIds /\ cache \in [DOMAIN cache -> Coins]

\* The coins seen through a cache.
Through(cache, db) ==
  [t \in TxIds |-> IF t \in DOMAIN cache THEN cache[t] ELSE db.view[t]]

TipFits(tip, db) ==
  /\ tip = [cache |-> tip.cache, best |-> tip.best]
  /\ CacheFits(tip.cache)
  /\ tip.best \in Blocks /\ ValidChain[tip.best]
  /\ Same(Through(tip.cache, db), Unspent[tip.best])

Stored ==
  /\ EntriesRight(index) /\ FilesFit(files) /\ DBRight(coinsDB) /\ DiskRight(disk)
  /\ TipFits(coinsTip, coinsDB)

\* The best block, that of the coins in memory unless a write has failed, and the candidates:
\* all that is not marked as failed.
BestRight ==
  /\ pindexBest \in Blocks /\ ValidChain[pindexBest]
  /\ setBlockIndexValid \subseteq Blocks
  /\ Serving => pindexBest = coinsTip.best
  /\ Running => /\ pindexBest \in Known /\ coinsTip.best \in Known
                /\ setBlockIndexValid = {b \in Known : index[b].failed = "no"}

\* What is still to be connected has more and more work, and the first of it can be.
AttachRight ==
  /\ pc \in {"set", "commit"} =>
       /\ vAttach # <<>>
       /\ \A i \in 1..Len(vAttach) : nChainWork[vAttach[i]] > nChainWork[pindexBest]
       /\ \A i, j \in 1..Len(vAttach) : i < j => nChainWork[vAttach[i]] < nChainWork[vAttach[j]]
  /\ pc = "commit" => CanConnect(Head(vAttach))

PCs == {"idle", "connect", "set", "commit", "orphans", "stopping", "off", "corrupt"}

\* Where the thread is, and what it holds: blocks that are known, or not, as the case may be.
ControlRight ==
  /\ pc \in PCs
  /\ accepting \in Known \cup {NoBlock}
  /\ vAttach \in Seq(Known) /\ vWorkQueue \in Seq(Known)
  /\ mapOrphanBlocks \subseteq Blocks /\ mapOrphanBlocks \cap Known = {}
  /\ pc \in {"idle", "orphans", "off", "corrupt"} => accepting = NoBlock
  /\ pc \in {"idle", "off", "corrupt"} => vWorkQueue = <<>>
  /\ pc \in {"connect", "set", "commit"} /\ accepting = NoBlock => vWorkQueue = <<>>
  /\ stops \in 0..MaxStops /\ unsynced \in BOOLEAN

ChainRight == Stored /\ BestRight /\ AttachRight /\ ControlRight

-----------------------------------------------------------------------------
(* What the steps do to the parts of the invariant *)

WithEntry(i, b) == [c \in DOMAIN i \cup {b} |-> IF c = b THEN NewStatus ELSE i[c]]

\* A new entry, whose predecessor is there.
LEMMA EntryAdded ==
  ASSUME NEW i, EntriesRight(i), NEW b \in Blocks \ {Base}, b \notin DOMAIN i,
         Parent[b] \in DOMAIN i
  PROVE  EntriesRight(WithEntry(i, b))
<1> DEFINE j == [c \in DOMAIN i \cup {b} |-> IF c = b THEN NewStatus ELSE i[c]]
<1> SUFFICES EntriesRight(j)
  BY DEF WithEntry
<1>1. DOMAIN j = DOMAIN i \cup {b}
  OBVIOUS
<1>2. NewStatus \in Status /\ NewStatus.failed = "no"
  BY DEF NewStatus, Status
<1>3. j[b] = NewStatus /\ \A c \in DOMAIN i : j[c] = i[c]
  OBVIOUS
<1>4. j \in [DOMAIN j -> Status]
  BY <1>1, <1>2 DEF EntriesRight
<1> HIDE DEF j
<1> QED
  BY <1>1, <1>2, <1>3, <1>4 DEF EntriesRight

\* Entries that change only what they say, and rightly.
LEMMA EntriesChanged ==
  ASSUME NEW i, EntriesRight(i), NEW j, j \in [DOMAIN i -> Status],
         \A b \in DOMAIN i : j[b].failed # "no" => i[b].failed # "no" \/ ~ValidChain[b]
  PROVE  EntriesRight(j)
<1>1. DOMAIN j = DOMAIN i
  OBVIOUS
<1> QED
  BY <1>1 DEF EntriesRight

\* With a block, the index has the whole chain of it.
LEMMA ChainIsKnown ==
  ASSUME NEW i, EntriesRight(i), NEW b \in DOMAIN i
  PROVE  Chain[b] \subseteq DOMAIN i
<1> DEFINE S == {c \in Blocks : c \in DOMAIN i => Chain[c] \subseteq DOMAIN i}
<1>1. Base \in S
  BY Chains, TreeAssumption DEF EntriesRight
<1>2. ASSUME NEW c \in Blocks \ {Base}, Parent[c] \in S
      PROVE  c \in S
  <2>1. c \in DOMAIN i => Parent[c] \in DOMAIN i
    BY DEF EntriesRight
  <2>2. Chain[c] = Chain[Parent[c]] \cup {c}
    BY Chains
  <2> QED
    BY <1>2, <2>1, <2>2
<1>3. b \in Blocks
  BY DEF EntriesRight
<1> HIDE DEF S
<1>4. b \in S
  BY <1>1, <1>2, <1>3, TreeInduction
<1> QED
  BY <1>4 DEF S

LEMMA DBIs ==
  ASSUME NEW db, DBRight(db)
  PROVE  /\ db.view = Unspent[db.best] /\ db.view \in Views
         /\ \A t \in TxIds : db.view[t].out = {} => db.view[t] = NoCoins
<1> DEFINE b == db.best
<1>1. b \in Blocks /\ db.view = Unspent[b]
  BY DEF DBRight
<1> HIDE DEF b
<1>2. Base \in TxIds
  BY NamesApart, TreeAssumption
<1>3. Unspent[b] \in Views /\ \A t \in TxIds : Unspent[b][t].out = {} => Unspent[b][t] = NoCoins
  BY <1>1, <1>2, UnspentIs
<1> QED
  BY <1>1, <1>3 DEF b

\* Two coins that are not used up are the same if height and outputs are.
LEMMA SameCoins ==
  ASSUME NEW c \in Coins, NEW d \in Coins, c.out = d.out, c.out # {} => c.nHeight = d.nHeight,
         d.out = {} => d = NoCoins
  PROVE  (IF IsPruned(c) THEN NoCoins ELSE c) = d
<1>1. c = [nHeight |-> c.nHeight, out |-> c.out] /\ d = [nHeight |-> d.nHeight, out |-> d.out]
  BY DEF Coins
<1>2. CASE c.out = {}
  BY <1>2 DEF IsPruned
<1>3. CASE c.out # {}
  <2>1. c.nHeight = d.nHeight /\ c.out = d.out
    BY <1>3
  <2> QED
    BY <1>1, <1>3, <2>1 DEF IsPruned
<1> QED
  BY <1>2, <1>3

\* A view that is the same as the coins of a chain is that, but for its empty entries.
LEMMA NormalIs ==
  ASSUME NEW view \in Views, NEW b \in Blocks,
         Same(view, Unspent[b])
  PROVE  Normal(view) = Unspent[b]
<1>1. Unspent[b] \in Views
  <2>1. Base \in TxIds
    BY NamesApart, TreeAssumption
  <2> QED
    BY <2>1, UnspentIs
<1>2. ASSUME NEW t \in TxIds
      PROVE  (IF IsPruned(view[t]) THEN NoCoins ELSE view[t]) = Unspent[b][t]
  <2> DEFINE c == view[t]
             d == Unspent[b][t]
  <2>1. c \in Coins /\ d \in Coins
    BY <1>1, ViewsHave
  <2>2. c.out = d.out /\ (c.out # {} => c.nHeight = d.nHeight)
    BY DEF Same
  <2>3. d.out = {} => d = NoCoins
    BY UnspentIs
  <2> HIDE DEF c, d
  <2>4. (IF IsPruned(c) THEN NoCoins ELSE c) = d
    BY <2>1, <2>2, <2>3, SameCoins
  <2> QED
    BY <2>4 DEF c, d
<1>3. Unspent[b] = [t \in TxIds |-> Unspent[b][t]]
  <2> DEFINE v == Unspent[b]
  <2>1. v \in Views
    BY <1>1
  <2> HIDE DEF v
  <2>2. v = [t \in TxIds |-> v[t]]
    BY <2>1 DEF Views
  <2> QED
    BY <2>2 DEF v
<1> QED
  BY <1>2, <1>3 DEF Normal

\* What is seen through a cache is a view.
LEMMA ThroughIs ==
  ASSUME NEW cache, CacheFits(cache), NEW db, db.view \in Views
  PROVE  Through(cache, db) \in Views
BY DEF Through, CacheFits, Views

\* An empty cache shows the database.
LEMMA ThroughNothing ==
  ASSUME NEW db, DBRight(db)
  PROVE  TipFits([cache |-> NoCache, best |-> db.best], db)
<1>1. db.view = Unspent[db.best] /\ db.view \in Views
  BY DBIs
<1>2. Through(NoCache, db) = db.view
  <2>1. DOMAIN NoCache = {}
    BY DEF NoCache
  <2>2. db.view = [t \in TxIds |-> db.view[t]]
    BY <1>1 DEF Views
  <2> QED
    BY <2>1, <2>2 DEF Through
<1>3. Same(Through(NoCache, db), Unspent[db.best])
  BY <1>1, <1>2, SameIsEquivalence
<1>4. CacheFits(NoCache)
  BY DEF CacheFits, NoCache
<1> QED
  BY <1>3, <1>4 DEF TipFits, DBRight

\* view.Flush: the cache now shows the view.
LEMMA CacheShows ==
  ASSUME CacheFits(coinsTip.cache), NEW view \in Views
  PROVE  /\ CacheFits(CacheAfter(view))
         /\ Through(CacheAfter(view), coinsDB) = view
<1> DEFINE old == coinsTip.cache
           changed == {t \in TxIds : view[t] # TipView[t]}
           cache == CacheAfter(view)
<1>1. cache = [t \in DOMAIN old \cup changed |-> view[t]] /\ DOMAIN cache = DOMAIN old \cup changed
  BY DEF CacheAfter
<1>2. DOMAIN old \subseteq TxIds /\ \A t \in TxIds : view[t] \in Coins
  BY ViewsHave DEF CacheFits
<1>3. \A t \in TxIds : t \notin DOMAIN old => TipView[t] = coinsDB.view[t]
  BY DEF TipView
<1> HIDE DEF old
<1>4. CacheFits(cache)
  <2>1. DOMAIN cache \subseteq TxIds
    BY <1>1, <1>2
  <2> HIDE DEF changed
  <2>2. cache \in [DOMAIN cache -> Coins]
    <3>1. \A t \in DOMAIN cache : cache[t] \in Coins
      BY <1>1, <1>2, <2>1
    <3> HIDE DEF cache
    <3>2. cache = [t \in DOMAIN cache |-> cache[t]]
      BY <1>1
    <3> QED
      BY <3>1, <3>2
  <2> HIDE DEF cache
  <2> QED
    BY <2>1, <2>2 DEF CacheFits
<1>5. ASSUME NEW t \in TxIds
      PROVE  (IF t \in DOMAIN cache THEN cache[t] ELSE coinsDB.view[t]) = view[t]
  <2>1. CASE t \in DOMAIN cache
    <3> HIDE DEF changed
    <3>1. cache[t] = view[t]
      BY <1>1, <2>1
    <3> HIDE DEF cache
    <3> QED
      BY <2>1, <3>1
  <2>2. CASE t \notin DOMAIN cache
    <3> HIDE DEF cache
    <3> QED
      BY <1>1, <1>3, <2>2
  <2> QED
    BY <2>1, <2>2
<1>6. view = [t \in TxIds |-> view[t]]
  BY DEF Views
<1> HIDE DEF cache
<1>7. Through(cache, coinsDB) = view
  BY <1>5, <1>6 DEF Through
<1> QED
  BY <1>4, <1>7 DEF cache

\* pcoinsTip->Flush: the database then has the coins of the chain of the new best block.
LEMMA FlushIs ==
  ASSUME DBRight(coinsDB), NEW cache, CacheFits(cache),
         NEW best \in Blocks, ValidChain[best], Same(Through(cache, coinsDB), Unspent[best])
  PROVE  DBRight([view |-> FlushedView(cache), best |-> best])
<1> DEFINE v == Through(cache, coinsDB)
<1>1. coinsDB.view \in Views
      /\ \A t \in TxIds : coinsDB.view[t].out = {} => coinsDB.view[t] = NoCoins
  BY DBIs
<1>2. v \in Views
  BY <1>1, ThroughIs
<1>3. ASSUME NEW t \in TxIds
      PROVE  (IF t \notin DOMAIN cache THEN coinsDB.view[t]
              ELSE IF IsPruned(cache[t]) THEN NoCoins ELSE cache[t])
             = (IF IsPruned(v[t]) THEN NoCoins ELSE v[t])
  BY <1>1 DEF Through, IsPruned
<1>4. FlushedView(cache) = Normal(v)
  <2> HIDE DEF v
  <2> QED
    BY <1>3 DEF FlushedView, Normal
<1>5. Normal(v) = Unspent[best]
  BY <1>2, NormalIs
<1> QED
  BY <1>4, <1>5 DEF DBRight

\* What is found on disk of the index is a version of it.
LEMMA IndexOnDiskIs ==
  ASSUME NEW S, NEW log \in Seq(S), log # <<>>, NEW fIBD, NEW i \in IndexOnDisk(log, fIBD)
  PROVE  i = disk.index \/ i \in S
<1>1. \A k \in 1..Len(log) : log[k] \in S
  OBVIOUS
<1>2. Len(log) \in 1..Len(log)
  OBVIOUS
<1>3. Last(log) \in S
  BY <1>1, <1>2 DEF Last
<1>4. \A x \in ToSet(log) : x \in S
  BY <1>1 DEF ToSet
<1> QED
  BY <1>3, <1>4 DEF IndexOnDisk

LEMMA IndexOnDiskOne ==
  ASSUME NEW e, NEW fIBD, NEW i \in IndexOnDisk(<<e>>, fIBD)
  PROVE  i = disk.index \/ i = e
<1>1. <<e>> \in Seq({e}) /\ <<e>> # <<>>
  OBVIOUS
<1> DEFINE log == <<e>>
           S == {e}
<1>2. log \in Seq(S) /\ log # <<>> /\ i \in IndexOnDisk(log, fIBD)
  BY <1>1
<1> HIDE DEF log, S
<1>3. i = disk.index \/ i \in S
  BY <1>2, IndexOnDiskIs
<1> QED
  BY <1>3 DEF S

LEMMA FilesOnDiskIs ==
  ASSUME NEW to, NEW fIBD, NEW f \in FilesOnDisk(to, fIBD)
  PROVE  f = disk.files \/ f = to
BY DEF FilesOnDisk

LEMMA CoinsOnDiskIs ==
  ASSUME NEW db, NEW c \in CoinsOnDisk(db)
  PROVE  c = disk.coinsDB \/ c = db
BY DEF CoinsOnDisk

\* Writing index and files.
LEMMA DiskWritten ==
  ASSUME DiskRight(disk), NEW i, EntriesRight(i), NEW f, FilesFit(f)
  PROVE  /\ DiskRight([disk EXCEPT !.index = i, !.files = f])
         /\ DiskRight([disk EXCEPT !.index = i])
         /\ [disk EXCEPT !.index = i, !.files = f].index = i
         /\ [disk EXCEPT !.index = i, !.files = f].files = f
         /\ [disk EXCEPT !.index = i, !.files = f].coinsDB = disk.coinsDB
         /\ [disk EXCEPT !.index = i].index = i
         /\ [disk EXCEPT !.index = i].files = disk.files
         /\ [disk EXCEPT !.index = i].coinsDB = disk.coinsDB
<1>1. disk = [index |-> disk.index, files |-> disk.files, coinsDB |-> disk.coinsDB]
  BY DEF DiskRight
<1>2. /\ [disk EXCEPT !.index = i, !.files = f]
           = [index |-> i, files |-> f, coinsDB |-> disk.coinsDB]
      /\ [disk EXCEPT !.index = i]
           = [index |-> i, files |-> disk.files, coinsDB |-> disk.coinsDB]
  <2> DEFINE i0 == disk.index
             f0 == disk.files
             c0 == disk.coinsDB
  <2>1. disk = [index |-> i0, files |-> f0, coinsDB |-> c0]
    BY <1>1
  <2> HIDE DEF i0, f0, c0
  <2> DEFINE r == [index |-> i0, files |-> f0, coinsDB |-> c0]
             q == [index |-> i, files |-> f0, coinsDB |-> c0]
  <2>4. [r EXCEPT !.index = i] = q
    OBVIOUS
  <2>5. [r EXCEPT !.index = i, !.files = f] = [q EXCEPT !.files = f]
    BY <2>4
  <2>6. [q EXCEPT !.files = f] = [index |-> i, files |-> f, coinsDB |-> c0]
    OBVIOUS
  <2>2. /\ [[index |-> i0, files |-> f0, coinsDB |-> c0] EXCEPT !.index = i, !.files = f]
             = [index |-> i, files |-> f, coinsDB |-> c0]
        /\ [[index |-> i0, files |-> f0, coinsDB |-> c0] EXCEPT !.index = i]
             = [index |-> i, files |-> f0, coinsDB |-> c0]
    BY <2>4, <2>5, <2>6
  <2>3. /\ [disk EXCEPT !.index = i, !.files = f] = [index |-> i, files |-> f, coinsDB |-> c0]
        /\ [disk EXCEPT !.index = i] = [index |-> i, files |-> f0, coinsDB |-> c0]
    BY <2>1, <2>2
  <2> QED
    BY <2>3 DEF i0, f0, c0
<1> QED
  BY <1>2 DEF DiskRight

DiskWith(i, f) == [disk EXCEPT !.index = i, !.files = f]

LEMMA DiskWithIs ==
  ASSUME DiskRight(disk), NEW i, EntriesRight(i), NEW f, FilesFit(f)
  PROVE  /\ DiskRight(DiskWith(i, f)) /\ DiskWith(i, f).index = i
         /\ DiskWith(i, f).files = f /\ DiskWith(i, f).coinsDB = disk.coinsDB
<1> DEFINE i0 == disk.index
           f0 == disk.files
           c0 == disk.coinsDB
<1>1. disk = [index |-> i0, files |-> f0, coinsDB |-> c0] /\ DBRight(c0)
  BY DEF DiskRight
<1> HIDE DEF i0, f0, c0
<1>2. [disk EXCEPT !.index = i] = [index |-> i, files |-> f0, coinsDB |-> c0]
  BY <1>1
<1>3. [[index |-> i, files |-> f0, coinsDB |-> c0] EXCEPT !.files = f]
        = [index |-> i, files |-> f, coinsDB |-> c0]
  OBVIOUS
<1>4. DiskWith(i, f) = [index |-> i, files |-> f, coinsDB |-> c0]
  BY <1>2, <1>3 DEF DiskWith
<1> QED
  BY <1>1, <1>4 DEF DiskRight, c0

\* A new block on disk.
LEMMA FilesAdded ==
  ASSUME NEW f, FilesFit(f), NEW b \in Blocks
  PROVE  /\ FilesFit([f EXCEPT !.data = @ \cup {b}])
         /\ [f EXCEPT !.data = @ \cup {b}].data = f.data \cup {b}
         /\ [f EXCEPT !.data = @ \cup {b}].undo = f.undo
<1>1. f = [data |-> f.data, undo |-> f.undo]
  BY DEF FilesFit
<1>2. [f EXCEPT !.data = @ \cup {b}] = [data |-> f.data \cup {b}, undo |-> f.undo]
  BY <1>1
<1> QED
  BY <1>2 DEF FilesFit, FilesRight

\* A sequence of blocks that are known stays one.
LEMMA StillKnown ==
  ASSUME NEW S, NEW T, S \subseteq T, NEW s \in Seq(S)
  PROVE  s \in Seq(T)
OBVIOUS

\* What AcceptBlock writes, and what of it reaches the disk.
AcceptWritten(b, fIBD) ==
  /\ Known' = Known \cup {b} /\ index'[b] = NewStatus /\ \A c \in Known : index'[c] = index[c]
  /\ files'.data = files.data \cup {b} /\ files'.undo = files.undo
  /\ disk'.index = disk.index \/ disk'.index = index'
  /\ ~fIBD => disk'.files = files'
  /\ disk'.coinsDB = disk.coinsDB
  /\ unsynced' = (unsynced \/ fIBD) /\ accepting' = b /\ pc' = "connect"
  /\ pindexBest' = pindexBest /\ coinsTip' = coinsTip /\ coinsDB' = coinsDB

LEMMA AcceptKeeps ==
  ASSUME ChainRight,
         NEW b \in Blocks \ {Base}, b \notin Known, Parent[b] \in Known, NEW fIBD \in BOOLEAN,
         pc \in {"idle", "orphans"}, AcceptBlock(b, fIBD),
         vWorkQueue' = vWorkQueue, mapOrphanBlocks' = mapOrphanBlocks \ {b}
  PROVE  ChainRight' /\ AcceptWritten(b, fIBD)
<1> DEFINE withBlock == [files EXCEPT !.data = @ \cup {b}]
           withEntry == [c \in Known \cup {b} |-> IF c = b THEN NewStatus ELSE index[c]]
<1>1. Stored /\ BestRight /\ AttachRight /\ ControlRight
  BY DEF ChainRight
<1>2. /\ files' = withBlock /\ index' = withEntry
      /\ setBlockIndexValid' = setBlockIndexValid \cup {b}
      /\ unsynced' = (unsynced \/ fIBD) /\ accepting' = b /\ pc' = "connect"
      /\ pindexBest' = pindexBest /\ coinsTip' = coinsTip /\ coinsDB' = coinsDB
      /\ vAttach' = vAttach /\ stops' = stops
  BY DEF AcceptBlock
<1>3. PICK i \in IndexOnDisk(<<withEntry>>, fIBD), f \in FilesOnDisk(withBlock, fIBD) :
        disk' = [disk EXCEPT !.index = i, !.files = f]
  BY DEF AcceptBlock
<1>4. EntriesRight(withEntry) /\ DOMAIN withEntry = Known \cup {b}
  <2>1. EntriesRight(index)
    BY <1>1 DEF Stored
  <2> DEFINE i0 == index
  <2>2. EntriesRight(i0) /\ b \notin DOMAIN i0 /\ Parent[b] \in DOMAIN i0
    BY <2>1 DEF Known
  <2> HIDE DEF i0
  <2>3. EntriesRight(WithEntry(i0, b))
    BY <2>2, EntryAdded
  <2> QED
    BY <2>3 DEF i0, Known, WithEntry
<1>5. FilesFit(withBlock)
  BY <1>1, FilesAdded DEF Stored
<1>13. withBlock.data = files.data \cup {b} /\ withBlock.undo = files.undo
  BY <1>1, FilesAdded DEF Stored
<1> HIDE DEF withBlock
<1>6. withEntry[b] = NewStatus /\ \A c \in Known : withEntry[c] = index[c]
  OBVIOUS
<1> HIDE DEF withEntry
<1>7. /\ DiskRight(disk') /\ disk'.coinsDB = disk.coinsDB
      /\ disk'.index = disk.index \/ disk'.index = withEntry
      /\ ~fIBD => disk'.files = withBlock
  <2>1. i = disk.index \/ i = withEntry
    BY IndexOnDiskOne
  <2>2. (f = disk.files \/ f = withBlock) /\ (~fIBD => f = withBlock)
    BY DEF FilesOnDisk
  <2>3. EntriesRight(i) /\ FilesFit(f) /\ DiskRight(disk)
    BY <1>1, <1>4, <1>5, <2>1, <2>2 DEF Stored, DiskRight
  <2>4. disk' = DiskWith(i, f)
    BY <1>3 DEF DiskWith
  <2>5. DiskRight(disk') /\ disk'.index = i /\ disk'.files = f /\ disk'.coinsDB = disk.coinsDB
    BY <2>3, <2>4, DiskWithIs
  <2> QED
    BY <2>1, <2>2, <2>5
<1>8. Stored'
  BY <1>1, <1>2, <1>4, <1>5, <1>7 DEF Stored
<1>9. Known' = Known \cup {b}
  BY <1>2, <1>4 DEF Known
<1>10. BestRight'
  <2>1. /\ pindexBest = coinsTip.best /\ pindexBest \in Known
        /\ setBlockIndexValid = {c \in Known : index[c].failed = "no"}
    BY <1>1 DEF BestRight, Serving, Running
  <2>2. NewStatus.failed = "no"
    BY DEF NewStatus
  <2>3. setBlockIndexValid' = {c \in Known' : index'[c].failed = "no"}
    BY <1>2, <1>6, <1>9, <2>1, <2>2
  <2> QED
    BY <1>1, <1>2, <1>9, <2>1, <2>3 DEF BestRight
<1>11. AttachRight'
  BY <1>2 DEF AttachRight
<1>12. ControlRight'
  <2>1. /\ vAttach \in Seq(Known) /\ vWorkQueue \in Seq(Known)
        /\ mapOrphanBlocks \subseteq Blocks /\ mapOrphanBlocks \cap Known = {}
        /\ stops \in 0..MaxStops /\ unsynced \in BOOLEAN
    BY <1>1 DEF ControlRight
  <2>2. vAttach' \in Seq(Known') /\ vWorkQueue' \in Seq(Known')
    BY <1>2, <1>9, <2>1, StillKnown
  <2>3. b # NoBlock
    BY StateAssumption
  <2>4. accepting' # NoBlock /\ accepting' \in Known' /\ unsynced' \in BOOLEAN
    BY <1>2, <1>9, <2>1, <2>3
  <2>5. mapOrphanBlocks' \subseteq Blocks /\ mapOrphanBlocks' \cap Known' = {}
    BY <1>9, <2>1
  <2> QED
    BY <1>2, <2>1, <2>2, <2>4, <2>5 DEF ControlRight, PCs
<1>14. AcceptWritten(b, fIBD)
  BY <1>2, <1>6, <1>7, <1>9, <1>13 DEF AcceptWritten
<1> QED
  BY <1>8, <1>10, <1>11, <1>12, <1>14 DEF ChainRight

-----------------------------------------------------------------------------
(* ConnectBestBlock *)

\* A sequence is one over any set that holds its members.
LEMMA SeqWithin ==
  ASSUME NEW S, NEW s \in Seq(S), NEW T, \A i \in 1..Len(s) : s[i] \in T
  PROVE  s \in Seq(T)
<1>1. s = [i \in 1..Len(s) |-> s[i]] /\ Len(s) \in Nat
  OBVIOUS
<1>2. s \in [1..Len(s) -> T]
  BY <1>1
<1> QED
  BY <1>1, <1>2

\* Of all candidates one is the best.
LEMMA CandidateIs ==
  ASSUME setBlockIndexValid \subseteq Blocks,
         setBlockIndexValid # {}
  PROVE  /\ Candidate \in setBlockIndexValid
         /\ \A c \in setBlockIndexValid \ {Candidate} : Below(c, Candidate)
<1> DEFINE T == setBlockIndexValid
           P == {S \in SUBSET T : S # {} => \E b \in S : \A c \in S \ {b} : Below(c, b)}
<1>0. \A b \in T : nChainWork[b] \in Nat /\ Hash[b] \in Nat
  BY Works, StateAssumption
<1>1. {} \in P
  OBVIOUS
<1>2. ASSUME NEW S \in SUBSET T, NEW x \in S, S \ {x} \in P
      PROVE  S \in P
  <2>1. CASE S = {x}
    BY <2>1
  <2>2. CASE S # {x}
    <3>1. PICK b \in S \ {x} : \A c \in (S \ {x}) \ {b} : Below(c, b)
      BY <1>2, <2>2
    <3>2. CASE Below(x, b)
      <4>1. \A c \in S \ {b} : Below(c, b)
        BY <3>1, <3>2
      <4> QED
        BY <4>1
    <3>3. CASE ~Below(x, b)
      <4>1. Below(b, x)
        <5>1. Hash[x] # Hash[b]
          BY <3>1, StateAssumption
        <5> QED
          BY <1>0, <3>1, <3>3, <5>1 DEF Below
      <4>2. \A c \in S \ {x} : Below(c, x)
        <5>1. ASSUME NEW c \in S, Below(c, b) PROVE Below(c, x)
          BY <1>0, <3>1, <4>1, <5>1 DEF Below
        <5> QED
          BY <3>1, <4>1, <5>1
      <4> QED
        BY <4>2
    <3> QED
      BY <3>2, <3>3
  <2> QED
    BY <2>1, <2>2
<1>3. IsFiniteSet(T)
  BY FS_Subset, TreeAssumption
<1> HIDE DEF P
<1>4. \A S \in SUBSET T : S \in P
  <2> HIDE DEF T
  <2> QED
    BY <1>1, <1>2, <1>3, RemoveInduction
<1>5. \E b \in T : \A c \in T \ {b} : Below(c, b)
  BY <1>4 DEF P
<1> QED
  BY <1>5 DEF Candidate

\* When it is better than the best block, it has more work than that.
LEMMA CandidateIsBetter ==
  ASSUME EntriesRight(index), BestRight, Running
  PROVE  /\ Candidate \in Known /\ index[Candidate].failed = "no" /\ Candidate \in Blocks
         /\ ~NothingBetter => nChainWork[Candidate] > nChainWork[pindexBest]
         /\ \A b \in setBlockIndexValid : nChainWork[b] <= nChainWork[Candidate]
<1>1. /\ pindexBest \in Blocks /\ ValidChain[pindexBest] /\ pindexBest \in Known
      /\ setBlockIndexValid = {b \in Known : index[b].failed = "no"}
      /\ setBlockIndexValid \subseteq Blocks
  BY DEF BestRight
<1>2. pindexBest \in setBlockIndexValid
  BY <1>1 DEF EntriesRight, Known
<1>3. /\ Candidate \in setBlockIndexValid
      /\ \A c \in setBlockIndexValid \ {Candidate} : Below(c, Candidate)
  BY <1>1, <1>2, CandidateIs
<1> HIDE DEF Candidate
<1>4. Candidate \in Blocks /\ \A b \in Blocks : nChainWork[b] \in Nat
  BY <1>1, <1>3, Works
<1>5. \A b \in setBlockIndexValid : nChainWork[b] <= nChainWork[Candidate]
  <2> SUFFICES ASSUME NEW b \in setBlockIndexValid
               PROVE  nChainWork[b] <= nChainWork[Candidate]
    OBVIOUS
  <2>1. b \in Blocks /\ nChainWork[b] \in Nat /\ nChainWork[Candidate] \in Nat
    BY <1>1, <1>4
  <2>2. b # Candidate => Below(b, Candidate)
    BY <1>3
  <2> QED
    BY <2>1, <2>2 DEF Below
<1>6. ~NothingBetter => nChainWork[Candidate] > nChainWork[pindexBest]
  <2>1. nChainWork[pindexBest] <= nChainWork[Candidate]
    BY <1>2, <1>5
  <2> QED
    BY <1>1, <1>4, <2>1 DEF NothingBetter
<1> QED
  BY <1>1, <1>3, <1>4, <1>5, <1>6

\* What ConnectBestBlock passes on: a part of the candidate's chain, up to it.
LEMMA AttachIs ==
  ASSUME EntriesRight(index), BestRight, Running, ~NothingBetter
  PROVE  /\ ByHeight(ToAttach(Candidate)) \in Seq(Known)
         /\ ByHeight(ToAttach(Candidate)) # <<>>
         /\ \A i \in 1..Len(ByHeight(ToAttach(Candidate))) :
              /\ ByHeight(ToAttach(Candidate))[i] \in Chain[Candidate]
              /\ nChainWork[ByHeight(ToAttach(Candidate))[i]] > nChainWork[pindexBest]
         /\ \A i, j \in 1..Len(ByHeight(ToAttach(Candidate))) :
              i < j => nChainWork[ByHeight(ToAttach(Candidate))[i]]
                       < nChainWork[ByHeight(ToAttach(Candidate))[j]]
         /\ ByHeight(ToAttach(Candidate))[Len(ByHeight(ToAttach(Candidate)))] = Candidate
<1> DEFINE b == Candidate
           S == ToAttach(b)
<1>1. /\ b \in Known /\ b \in Blocks /\ pindexBest \in Blocks
      /\ nChainWork[b] > nChainWork[pindexBest]
  BY CandidateIsBetter DEF BestRight
<1> HIDE DEF b
<1>2. \A c \in Blocks : nChainWork[c] \in Nat /\ nHeight[c] \in Nat
  BY Works, Heights
<1>3. S \in SUBSET Chain[b] /\ \A c \in S : nChainWork[c] > nChainWork[pindexBest]
  BY DEF ToAttach, Walk
<1>4. Base \notin S
  BY <1>1, <1>2, <1>3, Works
<1>5. \A c \in Chain[b] : c \in Blocks
  BY <1>1, SameChain
<1>6. ASSUME NEW c \in S, NEW d \in Chain[b], nHeight[c] <= nHeight[d]
      PROVE  d \in S
  <2>0. c \in Chain[b] /\ c \in Blocks /\ d \in Blocks
    BY <1>3, <1>5
  <2>1. \A e \in Chain[b] : HasNext(e) => nHeight[e] <= nHeight[c]
    BY DEF ToAttach, Walk
  <2>2. \A e \in Chain[b] : HasNext(e) => nHeight[e] <= nHeight[d]
    BY <1>2, <1>5, <1>6, <2>0, <2>1
  <2>3. nChainWork[c] <= nChainWork[d]
    <3>1. nHeight[c] = nHeight[d] => c = d
      BY <1>1, <2>0, SameChain
    <3>2. nHeight[c] < nHeight[d] => nChainWork[c] < nChainWork[d]
      BY <1>1, <2>0, SameChain
    <3> QED
      BY <1>2, <1>6, <2>0, <3>1, <3>2
  <2>4. nChainWork[d] > nChainWork[pindexBest]
    <3>1. nChainWork[c] > nChainWork[pindexBest]
      BY <1>3
    <3>2. /\ nChainWork[c] \in Nat /\ nChainWork[d] \in Nat /\ nChainWork[pindexBest] \in Nat
      BY <1>1, <1>2, <2>0
    <3> QED
      BY <2>3, <3>1, <3>2
  <2> QED
    BY <2>2, <2>4 DEF ToAttach, Walk
<1>7. b \in S
  <2>1. b \in Chain[b] /\ \A e \in Chain[b] : nHeight[e] <= nHeight[b]
    BY <1>1, AboveIs, Ancestors
  <2> QED
    BY <1>1, <2>1 DEF ToAttach, Walk
<1>8. PICK f \in Chain[b] : S = Chain[b] \ Chain[f]
  <2> HIDE DEF S
  <2> QED
    BY <1>1, <1>3, <1>4, <1>6, UpperPart
<1> DEFINE s == ByHeight(S)
           n == Len(s)
<1>9. s = PathOf(f, b)
  BY <1>8 DEF PathOf
<1> HIDE DEF S, s
<1>10. /\ n \in Nat /\ s \in Seq(Blocks \ {Base}) /\ nHeight[f] \in Nat
       /\ \A i \in 1..n : s[i] \in Chain[b] \ Chain[f] /\ nHeight[s[i]] = nHeight[f] + i
  <2>1. nHeight[f] \in Nat
    BY <1>2, <1>5
  <2> DEFINE q == PathOf(f, b)
             k == Len(q)
  <2>2. /\ k \in Nat /\ q \in Seq(Blocks \ {Base})
        /\ \A i \in 1..k : q[i] \in Chain[b] \ Chain[f] /\ nHeight[q[i]] = nHeight[f] + i
    <3>1. k \in Nat /\ q \in Seq(Blocks \ {Base})
      BY <1>1, PathIs
    <3>2. ASSUME NEW i \in 1..k
          PROVE  q[i] \in Chain[b] \ Chain[f] /\ nHeight[q[i]] = nHeight[f] + i
      BY <1>1, PathIs
    <3> HIDE DEF q, k
    <3> QED
      BY <3>1, <3>2
  <2> HIDE DEF q
  <2> QED
    BY <1>9, <2>1, <2>2 DEF q
<1>11. n # 0
  <2> DEFINE k == nHeight[b] - nHeight[f]
  <2>1. k \in 1..Len(PathOf(f, b))
    BY <1>1, <1>7, <1>8, PathIs
  <2> HIDE DEF k
  <2> QED
    BY <1>9, <1>10, <2>1
<1>12. s[n] = b
  <2>1. Point(f, b, n) = b
    BY <1>1, <1>9, PointsAre
  <2> HIDE DEF n
  <2> QED
    BY <1>9, <1>11, <2>1 DEF Point
<1>13. s \in Seq(Known)
  <2>1. Chain[b] \subseteq Known
    BY <1>1, ChainIsKnown DEF Known
  <2>2. \A i \in 1..n : s[i] \in Known
    BY <1>10, <2>1
  <2> HIDE DEF n
  <2>3. \A i \in 1..Len(s) : s[i] \in Known
    BY <2>2 DEF n
  <2> QED
    BY <1>10, <2>3, SeqWithin
<1>14. ASSUME NEW i \in 1..n
       PROVE  s[i] \in Chain[b] /\ nChainWork[s[i]] > nChainWork[pindexBest]
  BY <1>3, <1>8, <1>10
<1>15. ASSUME NEW i \in 1..n, NEW j \in 1..n, i < j
       PROVE  nChainWork[s[i]] < nChainWork[s[j]]
  <2>1. nHeight[s[i]] < nHeight[s[j]]
    <3>1. nHeight[s[i]] = nHeight[f] + i /\ nHeight[s[j]] = nHeight[f] + j
      BY <1>10
    <3> HIDE DEF n
    <3> QED
      BY <1>10, <1>15, <3>1
  <2>2. s[i] \in Chain[b] /\ s[j] \in Chain[b]
    BY <1>14
  <2> QED
    BY <1>1, <2>1, <2>2, SameChain
<1>16. s # <<>>
  BY <1>10, <1>11
<1> QED
  BY <1>12, <1>13, <1>14, <1>15, <1>16 DEF s, S, b, n

\* ConnectBestBlock returns.
LEMMA ReturnKeeps ==
  ASSUME ControlRight, NEW fOk \in BOOLEAN, Return(fOk), pc \in {"connect", "set", "commit"},
         Known' = Known, stops' = stops, unsynced' \in BOOLEAN
  PROVE  ControlRight' /\ AttachRight' /\ pc' \in {"idle", "orphans", "stopping"}
<1>1. /\ accepting \in Known \cup {NoBlock} /\ vWorkQueue \in Seq(Known)
      /\ mapOrphanBlocks \subseteq Blocks /\ mapOrphanBlocks \cap Known = {}
      /\ accepting = NoBlock => vWorkQueue = <<>>
      /\ stops \in 0..MaxStops
  BY DEF ControlRight
<1>2. vAttach' = <<>> /\ accepting' = NoBlock /\ mapOrphanBlocks' = mapOrphanBlocks
  BY DEF Return
<1>3. vAttach' \in Seq(Known')
  <2> HIDE DEF Known
  <2> QED
    BY <1>2
<1>4. CASE accepting = NoBlock
  <2>1. pc' \in {"idle", "stopping"} /\ vWorkQueue' = vWorkQueue
    BY <1>4 DEF Return
  <2> HIDE DEF Known
  <2> QED
    BY <1>1, <1>2, <1>3, <1>4, <2>1 DEF ControlRight, AttachRight, PCs
<1>5. CASE accepting # NoBlock
  <2>1. pc' = "orphans" /\ vWorkQueue' = IF fOk THEN Append(vWorkQueue, accepting) ELSE vWorkQueue
    BY <1>5 DEF Return, WorkQueueAfter
  <2> HIDE DEF Known
  <2>2. vWorkQueue' \in Seq(Known')
    <3>1. Append(vWorkQueue, accepting) \in Seq(Known)
      BY <1>1, <1>5
    <3> QED
      BY <1>1, <2>1, <3>1
  <2> QED
    BY <1>1, <1>2, <1>3, <2>1, <2>2 DEF ControlRight, AttachRight, PCs
<1> QED
  BY <1>4, <1>5

\* Nothing that is stored changes.
LEMMA StoredKept ==
  ASSUME Stored, index' = index, files' = files, coinsDB' = coinsDB, disk' = disk,
         coinsTip' = coinsTip
  PROVE  Stored' /\ Known' = Known
BY DEF Stored, Known

\* Nor the best block and the candidates.
LEMMA BestKept ==
  ASSUME BestRight, pindexBest' = pindexBest, setBlockIndexValid' = setBlockIndexValid,
         coinsTip' = coinsTip, index' = index, Serving
  PROVE  BestRight'
BY DEF BestRight, Known, Serving, Running

LEMMA DoneKeeps ==
  ASSUME ChainRight, ConnectBestDone
  PROVE  ChainRight'
<1>1. /\ Stored /\ BestRight /\ ControlRight
      /\ pc = "connect" /\ Return(TRUE)
      /\ index' = index /\ setBlockIndexValid' = setBlockIndexValid /\ pindexBest' = pindexBest
      /\ coinsTip' = coinsTip /\ files' = files /\ coinsDB' = coinsDB /\ disk' = disk
      /\ stops' = stops /\ unsynced' = unsynced
  BY DEF ChainRight, ConnectBestDone, durable, count
<1>2. Stored' /\ Known' = Known
  BY <1>1, StoredKept
<1>3. BestRight'
  BY <1>1, BestKept DEF Serving, Running
<1>4. ControlRight' /\ AttachRight'
  <2>1. unsynced' \in BOOLEAN
    BY <1>1 DEF ControlRight
  <2> QED
    BY <1>1, <1>2, <2>1, ReturnKeeps
<1> QED
  BY <1>2, <1>3, <1>4 DEF ChainRight

\* The blocks after a failed one are not valid either.
LEMMA MarkKeeps ==
  ASSUME ChainRight, MarkDescendantsFailed
  PROVE  /\ ChainRight'
         /\ Known' = Known
         /\ \A b \in Known : /\ index[b].failed # "no" => index'[b].failed # "no"
                             /\ index'[b].undo = index[b].undo
         /\ disk'.files = disk.files /\ disk'.coinsDB = disk.coinsDB
         /\ \/ disk'.index = disk.index
            \/ /\ DOMAIN disk'.index = Known
               /\ \A b \in Known : disk'.index[b].undo = index[b].undo
<1> DEFINE b == Candidate
           failed == CHOOSE c \in FailedBelow(b) : \A d \in FailedBelow(b) : nHeight[d] <= nHeight[c]
           top == nHeight[b]
           low == nHeight[failed]
           log == [k \in 1..(top - low) |-> MarkedAbove(top - k)]
<1>1. /\ Stored /\ BestRight /\ ControlRight
      /\ pc = "connect" /\ FailedBelow(b) # {} /\ Running
      /\ index' = MarkedAbove(low) /\ setBlockIndexValid' = setBlockIndexValid \ After(low)
      /\ pindexBest' = pindexBest /\ coinsTip' = coinsTip /\ files' = files /\ coinsDB' = coinsDB
      /\ pc' = pc /\ accepting' = accepting /\ vAttach' = vAttach
      /\ vWorkQueue' = vWorkQueue /\ mapOrphanBlocks' = mapOrphanBlocks
      /\ stops' = stops /\ unsynced' = unsynced
  BY DEF ChainRight, MarkDescendantsFailed, queueVars, count, Running
<1>2. PICK i \in IndexOnDisk(log, FALSE) : disk' = [disk EXCEPT !.index = i]
  BY DEF MarkDescendantsFailed
<1>3. EntriesRight(index)
  BY <1>1 DEF Stored
<1>4. b \in Known /\ b \in Blocks
  BY <1>1, <1>3, CandidateIsBetter
<1>20. index[b].failed = "no"
  BY <1>1, <1>3, CandidateIsBetter
<1>21. After(low) = {c \in Chain[b] : nHeight[c] > low}
  BY DEF After
<1>22. \A h : After(h) = {c \in Chain[b] : nHeight[c] > h}
  BY DEF After
<1> HIDE DEF b
<1>5. FailedBelow(b) \subseteq Chain[b] /\ Chain[b] \subseteq Known /\ Chain[b] \subseteq Blocks
  <2>1. Chain[b] \subseteq Known
    BY <1>3, <1>4, ChainIsKnown DEF Known
  <2>2. Chain[b] \subseteq Blocks
    BY <1>4, AboveIs, Ancestors
  <2> QED
    BY <2>1, <2>2 DEF FailedBelow, Walk
<1>6. failed \in FailedBelow(b)
  <2> DEFINE R == FailedBelow(b)
  <2>1. R \subseteq Blocks /\ R # {}
    BY <1>1, <1>5
  <2> HIDE DEF R
  <2>2. \E c \in R : \A d \in R : nHeight[d] <= nHeight[c]
    BY <2>1, Highest
  <2> QED
    BY <2>2 DEF R
<1> HIDE DEF failed
<1>7. ~ValidChain[failed] /\ index[failed].failed # "no" /\ failed \in Known
  <2>1. failed \in Known /\ index[failed].failed # "no"
    BY <1>5, <1>6 DEF FailedBelow
  <2> QED
    BY <1>3, <2>1 DEF EntriesRight, Known
<1>23. top \in Nat /\ low \in Nat /\ low < top
  <2>1. failed \in Chain[b] /\ failed \in Blocks
    BY <1>5, <1>6
  <2>2. top \in Nat /\ low \in Nat
    BY <1>4, <2>1, Heights
  <2>3. failed # b
    BY <1>7, <1>20
  <2>4. low < top
    BY <1>4, <2>1, <2>3, Ancestors
  <2> QED
    BY <2>2, <2>4
<1>8. \A c \in After(low) : c \in Known /\ c \in Blocks /\ ~ValidChain[c]
  <2> SUFFICES ASSUME NEW c \in Chain[b], nHeight[c] > nHeight[failed]
               PROVE  c \in Known /\ c \in Blocks /\ ~ValidChain[c]
    BY <1>21
  <2>1. failed \in Chain[b] /\ c \in Blocks /\ c \in Known /\ failed \in Blocks
    BY <1>5, <1>6
  <2>2. nHeight[failed] <= nHeight[c]
    <3>1. nHeight[failed] \in Nat /\ nHeight[c] \in Nat
      BY <2>1, Heights
    <3> QED
      BY <3>1
  <2>3. failed \in Chain[c]
    BY <1>4, <2>1, <2>2, ChainOrder
  <2> QED
    BY <1>7, <2>1, <2>3, ValidGrows
<1> HIDE DEF top, low
<1>9. \A c \in Known : index[c] \in Status
  BY <1>3 DEF EntriesRight, Known
<1>10. ASSUME NEW h, After(h) \subseteq After(low)
       PROVE  /\ DOMAIN MarkedAbove(h) = Known /\ EntriesRight(MarkedAbove(h))
              /\ \A c \in Known :
                   /\ MarkedAbove(h)[c].undo = index[c].undo
                   /\ MarkedAbove(h)[c].failed # "no" <=> c \in After(h) \/ index[c].failed # "no"
  <2> DEFINE S == After(h)
             marked == MarkedAbove(h)
  <2>1. marked = [c \in Known |-> IF c \in S THEN [index[c] EXCEPT !.failed = "child"] ELSE index[c]]
    BY DEF MarkedAbove
  <2>2. \A c \in S : c \in Known /\ ~ValidChain[c]
    BY <1>8, <1>10
  <2> HIDE DEF S, marked
  <2>3. \A c \in Known : /\ marked[c] \in Status /\ marked[c].undo = index[c].undo
                         /\ marked[c].failed # "no" <=> c \in S \/ index[c].failed # "no"
    <3> SUFFICES ASSUME NEW c \in Known
                 PROVE  /\ marked[c] \in Status /\ marked[c].undo = index[c].undo
                        /\ marked[c].failed # "no" <=> c \in S \/ index[c].failed # "no"
      OBVIOUS
    <3>1. marked[c] = IF c \in S THEN [index[c] EXCEPT !.failed = "child"] ELSE index[c]
      BY <2>1
    <3> DEFINE e == index[c]
               m == marked[c]
    <3>2. e \in Status
      BY <1>9
    <3> HIDE DEF e, m
    <3>3. m = IF c \in S THEN [e EXCEPT !.failed = "child"] ELSE e
      BY <3>1 DEF e, m
    <3>4. /\ m \in Status /\ m.undo = e.undo
          /\ m.failed # "no" <=> c \in S \/ e.failed # "no"
      BY <3>2, <3>3 DEF Status
    <3> QED
      BY <3>4 DEF e, m
  <2>4. DOMAIN marked = Known /\ marked = [c \in Known |-> marked[c]]
    BY <2>1
  <2>5. EntriesRight(marked)
    <3>1. marked \in [DOMAIN index -> Status]
      BY <2>3, <2>4 DEF Known
    <3>2. \A c \in DOMAIN index : marked[c].failed # "no" => index[c].failed # "no" \/ ~ValidChain[c]
      BY <2>2, <2>3 DEF Known
    <3> DEFINE e == index
    <3>3. EntriesRight(e) /\ marked \in [DOMAIN e -> Status]
          /\ \A c \in DOMAIN e : marked[c].failed # "no" => e[c].failed # "no" \/ ~ValidChain[c]
      BY <1>3, <3>1, <3>2
    <3> HIDE DEF e
    <3> QED
      BY <3>3, EntriesChanged
  <2> QED
    BY <2>3, <2>4, <2>5 DEF S, marked
<1>11. /\ DOMAIN MarkedAbove(low) = Known /\ EntriesRight(MarkedAbove(low))
       /\ \A c \in Known :
            /\ MarkedAbove(low)[c].undo = index[c].undo
            /\ MarkedAbove(low)[c].failed # "no" <=> c \in After(low) \/ index[c].failed # "no"
  BY <1>10
<1>12. i = disk.index \/ \E k \in 1..(top - low) : i = MarkedAbove(top - k)
  <2> DEFINE V == {MarkedAbove(top - k) : k \in 1..(top - low)}
  <2>1. log \in Seq(V) /\ log # <<>>
    <3>1. top - low \in Nat /\ 1 \in 1..(top - low)
      BY <1>23
    <3>2. \A k \in 1..(top - low) : MarkedAbove(top - k) \in V
      OBVIOUS
    <3> HIDE DEF V
    <3> DEFINE n == top - low
               F(k) == MarkedAbove(top - k)
    <3>3. n \in Nat /\ 1 \in 1..n /\ \A k \in 1..n : F(k) \in V
      BY <3>1, <3>2
    <3>4. log = [k \in 1..n |-> F(k)]
      OBVIOUS
    <3> HIDE DEF n, F, log
    <3> QED
      BY <3>3, <3>4
  <2> HIDE DEF log
  <2>2. i = disk.index \/ i \in V
    <3> HIDE DEF V
    <3> QED
      BY <2>1, IndexOnDiskIs
  <2> QED
    BY <2>2
<1>13. Known' = Known
  BY <1>1, <1>11 DEF Known
<1>24. i # disk.index => /\ DOMAIN i = Known /\ EntriesRight(i)
                        /\ \A c \in Known : i[c].undo = index[c].undo
  <2> SUFFICES ASSUME NEW k \in 1..(top - low), i = MarkedAbove(top - k)
               PROVE  /\ DOMAIN i = Known /\ EntriesRight(i)
                      /\ \A c \in Known : i[c].undo = index[c].undo
    BY <1>12
  <2>1. After(top - k) \subseteq After(low)
    <3> SUFFICES ASSUME NEW c \in Chain[b], nHeight[c] > top - k PROVE nHeight[c] > low
      BY <1>22
    <3>1. nHeight[c] \in Nat
      BY <1>5, Heights
    <3> QED
      BY <1>23, <3>1
  <2> QED
    BY <1>10, <2>1
<1>14. /\ disk'.index = i /\ DiskRight(disk')
       /\ disk'.files = disk.files /\ disk'.coinsDB = disk.coinsDB
  <2> DEFINE i0 == disk.index
             f0 == disk.files
             c0 == disk.coinsDB
  <2>2. disk = [index |-> i0, files |-> f0, coinsDB |-> c0]
        /\ EntriesRight(i) /\ FilesFit(f0) /\ DBRight(c0)
    BY <1>1, <1>24 DEF Stored, DiskRight
  <2> HIDE DEF i0, f0, c0
  <2>3. disk' = [index |-> i, files |-> f0, coinsDB |-> c0]
    BY <1>2, <2>2
  <2>4. DiskRight(disk') /\ disk'.index = i /\ disk'.files = f0 /\ disk'.coinsDB = c0
    BY <2>2, <2>3 DEF DiskRight
  <2> QED
    BY <2>4 DEF f0, c0
<1>15. Stored'
  BY <1>1, <1>11, <1>14 DEF Stored
<1>16. BestRight'
  <2>1. /\ pindexBest = coinsTip.best /\ pindexBest \in Known
        /\ setBlockIndexValid = {c \in Known : index[c].failed = "no"}
        /\ setBlockIndexValid \subseteq Blocks /\ pindexBest \in Blocks /\ ValidChain[pindexBest]
    BY <1>1 DEF BestRight, Serving
  <2>2. setBlockIndexValid' = {c \in Known' : index'[c].failed = "no"}
    BY <1>1, <1>11, <1>13, <2>1
  <2> QED
    BY <1>1, <1>13, <2>1, <2>2 DEF BestRight
<1>17. AttachRight'
  BY <1>1 DEF AttachRight
<1>18. ControlRight'
  BY <1>1, <1>13 DEF ControlRight
<1>19. \A c \in Known : /\ index[c].failed # "no" => index'[c].failed # "no"
                        /\ index'[c].undo = index[c].undo
  BY <1>1, <1>11
<1> QED
  BY <1>1, <1>13, <1>14, <1>15, <1>16, <1>17, <1>18, <1>19, <1>24 DEF ChainRight

LEMMA StartKeeps ==
  ASSUME ChainRight, ConnectBestStart
  PROVE  ChainRight'
<1>1. /\ Stored /\ BestRight /\ ControlRight
      /\ pc = "connect" /\ ~NothingBetter /\ Running
      /\ vAttach' = ByHeight(ToAttach(Candidate)) /\ pc' = "set"
      /\ index' = index /\ setBlockIndexValid' = setBlockIndexValid /\ pindexBest' = pindexBest
      /\ coinsTip' = coinsTip /\ files' = files /\ coinsDB' = coinsDB /\ disk' = disk
      /\ accepting' = accepting /\ vWorkQueue' = vWorkQueue /\ mapOrphanBlocks' = mapOrphanBlocks
      /\ stops' = stops /\ unsynced' = unsynced
  BY DEF ChainRight, ConnectBestStart, durable, count, queueVars, Running
<1>2. Stored' /\ Known' = Known
  BY <1>1, StoredKept
<1>3. BestRight'
  BY <1>1, BestKept DEF Serving, Running
<1> DEFINE s == ByHeight(ToAttach(Candidate))
<1>4. /\ s \in Seq(Known) /\ s # <<>>
      /\ \A i \in 1..Len(s) : nChainWork[s[i]] > nChainWork[pindexBest]
      /\ \A i, j \in 1..Len(s) : i < j => nChainWork[s[i]] < nChainWork[s[j]]
  <2>1. EntriesRight(index)
    BY <1>1 DEF Stored
  <2> QED
    BY <1>1, <2>1, AttachIs
<1> HIDE DEF s
<1>5. vAttach' = s
  BY <1>1 DEF s
<1>6. AttachRight'
  BY <1>1, <1>4, <1>5 DEF AttachRight
<1>7. ControlRight'
  BY <1>1, <1>2, <1>4, <1>5 DEF ControlRight, PCs
<1> QED
  BY <1>2, <1>3, <1>6, <1>7 DEF ChainRight

-----------------------------------------------------------------------------
(* SetBestChain *)

LEMMA TipIs ==
  ASSUME Stored
  PROVE  TipRight /\ TipView = Through(coinsTip.cache, coinsDB)
<1>1. TipView = Through(coinsTip.cache, coinsDB)
  BY DEF TipView, Through
<1>2. TipFits(coinsTip, coinsDB) /\ DBRight(coinsDB)
  BY DEF Stored
<1>3. TipView \in Views
  <2>1. coinsDB.view \in Views
    BY <1>2, DBIs
  <2>2. CacheFits(coinsTip.cache)
    BY <1>2 DEF TipFits
  <2> QED
    BY <1>1, <2>1, <2>2, ThroughIs
<1> QED
  BY <1>1, <1>2, <1>3 DEF TipFits, TipRight

\* The first n blocks of the branch have undo data, by the index.
LEMMA IndexWithIs ==
  ASSUME EntriesRight(index), NEW new, NEW n
  PROVE  /\ DOMAIN IndexWith(new, n) = Known
         /\ EntriesRight(IndexWith(new, n))
         /\ \A b \in Known :
              /\ IndexWith(new, n)[b].failed = index[b].failed
              /\ IndexWith(new, n)[b].undo <=> \/ index[b].undo
                                               \/ \E i \in 1..n : b = vConnect(new)[i]
<1> DEFINE blocks == {vConnect(new)[i] : i \in 1..n}
           j == IndexWith(new, n)
<1>1. j = [b \in Known |-> IF b \in blocks THEN [index[b] EXCEPT !.undo = TRUE] ELSE index[b]]
  BY DEF IndexWith
<1>2. \A b : b \in blocks <=> \E i \in 1..n : b = vConnect(new)[i]
  OBVIOUS
<1> HIDE DEF blocks, j
<1>3. \A b \in Known : index[b] \in Status
  BY DEF EntriesRight, Known
<1>4. ASSUME NEW b \in Known
      PROVE  /\ j[b] \in Status /\ j[b].failed = index[b].failed
             /\ j[b].undo <=> index[b].undo \/ b \in blocks
  <2> DEFINE e == index[b]
             m == j[b]
  <2>1. e \in Status
    BY <1>3
  <2>2. m = IF b \in blocks THEN [e EXCEPT !.undo = TRUE] ELSE e
    BY <1>1
  <2> HIDE DEF e, m
  <2>3. m \in Status /\ m.failed = e.failed /\ (m.undo <=> e.undo \/ b \in blocks)
    BY <2>1, <2>2 DEF Status
  <2> QED
    BY <2>3 DEF e, m
<1>5. DOMAIN j = Known
  BY <1>1
<1>6. EntriesRight(j)
  <2> DEFINE e == index
  <2>1. EntriesRight(e)
    OBVIOUS
  <2>2. j \in [DOMAIN e -> Status]
    <3>1. j = [b \in Known |-> j[b]]
      BY <1>1, <1>5
    <3> QED
      BY <1>4, <3>1 DEF Known
  <2>3. \A b \in DOMAIN e : j[b].failed # "no" => e[b].failed # "no"
    BY <1>4 DEF Known
  <2> HIDE DEF e
  <2> QED
    BY <2>1, <2>2, <2>3, EntriesChanged
<1> QED
  BY <1>2, <1>4, <1>5, <1>6 DEF j

\* The undo data that is written is right.
LEMMA FilesWithIs ==
  ASSUME FilesFit(files), NEW new, NEW undo, NEW m, DOMAIN undo = 1..m,
         \A i \in 1..m : undo[i] = BlockUndo(vConnect(new)[i]) /\ vConnect(new)[i] \in Blocks
  PROVE  /\ FilesFit(FilesWith(new, undo))
         /\ FilesWith(new, undo).data = files.data
         /\ DOMAIN files.undo \subseteq DOMAIN FilesWith(new, undo).undo
         /\ \A i \in 1..m : ~index[vConnect(new)[i]].undo =>
              vConnect(new)[i] \in DOMAIN FilesWith(new, undo).undo
<1> DEFINE path == vConnect(new)
           first == {i \in DOMAIN undo : ~index[path[i]].undo}
           At(b) == CHOOSE i \in first : path[i] = b
           U == {path[i] : i \in first}
           q == [b \in DOMAIN files.undo \cup U |-> IF b \in U THEN undo[At(b)] ELSE files.undo[b]]
           r == FilesWith(new, undo)
<1>1. files = [data |-> files.data, undo |-> files.undo]
  BY DEF FilesFit
<1>2. r = [files EXCEPT !.undo = q]
  BY DEF FilesWith
<1>3. U \subseteq Blocks
  OBVIOUS
<1>4. \A i \in 1..m : ~index[path[i]].undo => path[i] \in U
  OBVIOUS
<1>5. ASSUME NEW b \in U
      PROVE  undo[At(b)] = BlockUndo(b)
  <2>1. PICK i \in first : path[i] = b
    OBVIOUS
  <2>2. At(b) \in first /\ path[At(b)] = b
    BY <2>1
  <2> QED
    BY <2>2
<1>6. /\ DOMAIN q = DOMAIN files.undo \cup U
      /\ \A b \in U : q[b] = BlockUndo(b)
      /\ \A b \in DOMAIN files.undo : b \notin U => q[b] = files.undo[b]
  <2> HIDE DEF U, first, path
  <2> QED
    BY <1>5
<1> HIDE DEF q, U, first, path
<1>7. r = [data |-> files.data, undo |-> q]
  <2> DEFINE d0 == files.data
             u0 == files.undo
  <2>1. files = [data |-> d0, undo |-> u0]
    BY <1>1
  <2> HIDE DEF d0, u0
  <2>2. [files EXCEPT !.undo = q] = [data |-> d0, undo |-> q]
    BY <2>1
  <2> QED
    BY <1>2, <2>2 DEF d0
<1>8. r.data = files.data /\ r.undo = q
  BY <1>7
<1>9. FilesFit(r)
  <2>1. FilesRight(files) /\ files.data \subseteq Blocks /\ DOMAIN files.undo \subseteq Blocks
    BY DEF FilesFit
  <2>2. FilesRight(r)
    BY <1>6, <1>8, <2>1 DEF FilesRight
  <2> QED
    BY <1>3, <1>6, <1>7, <1>8, <2>1, <2>2 DEF FilesFit
<1> QED
  BY <1>4, <1>6, <1>8, <1>9 DEF path, r

\* The block that is not valid is marked.
LEMMA MarkedIs ==
  ASSUME NEW e, EntriesRight(e), NEW bad \in DOMAIN e, ~ValidChain[bad]
  PROVE  /\ EntriesRight(InvalidBlockFound(e, bad))
         /\ DOMAIN InvalidBlockFound(e, bad) = DOMAIN e
         /\ \A b \in DOMAIN e :
              /\ InvalidBlockFound(e, bad)[b].undo = e[b].undo
              /\ InvalidBlockFound(e, bad)[b].failed # "no" <=> b = bad \/ e[b].failed # "no"
<1> DEFINE j == InvalidBlockFound(e, bad)
<1>1. j = [e EXCEPT ![bad] = [e[bad] EXCEPT !.failed = "valid"]]
  BY DEF InvalidBlockFound
<1>2. \A b \in DOMAIN e : e[b] \in Status
  BY DEF EntriesRight
<1> HIDE DEF j
<1>3. DOMAIN j = DOMAIN e
  BY <1>1
<1>4. ASSUME NEW b \in DOMAIN e
      PROVE  /\ j[b] \in Status /\ j[b].undo = e[b].undo
             /\ j[b].failed # "no" <=> b = bad \/ e[b].failed # "no"
  <2> DEFINE c == e[b]
             m == j[b]
  <2>1. c \in Status
    BY <1>2
  <2>2. m = IF b = bad THEN [c EXCEPT !.failed = "valid"] ELSE c
    BY <1>1
  <2> HIDE DEF c, m
  <2>3. m \in Status /\ m.undo = c.undo /\ (m.failed # "no" <=> b = bad \/ c.failed # "no")
    BY <2>1, <2>2 DEF Status
  <2> QED
    BY <2>3 DEF c, m
<1>5. j \in [DOMAIN e -> Status]
  <2>1. j = [b \in DOMAIN e |-> j[b]]
    BY <1>1, <1>3
  <2> QED
    BY <1>4, <2>1
<1>6. EntriesRight(j)
  BY <1>4, <1>5, EntriesChanged
<1> QED
  BY <1>3, <1>4, <1>6 DEF j

\* An index that has no more than another: of blocks, and of undo data.
Lags(i, j) == DOMAIN i \subseteq DOMAIN j /\ \A b \in DOMAIN i : i[b].undo => j[b].undo

\* What is written by ConnectBranch: to index and files, and what of it reaches the disk.
BranchWritten(fIBD) ==
  /\ Known' = Known
  /\ EntriesRight(index') /\ FilesFit(files') /\ EntriesRight(disk'.index)
  /\ \A b \in Known : /\ index[b].undo => index'[b].undo
                      /\ index[b].failed # "no" => index'[b].failed # "no"
                      /\ index'[b].undo => index[b].undo \/ b \in DOMAIN files'.undo
  /\ files'.data = files.data /\ DOMAIN files.undo \subseteq DOMAIN files'.undo
  /\ DiskRight(disk') /\ disk'.coinsDB = disk.coinsDB
  /\ disk'.index = disk.index \/ (Lags(index, disk'.index) /\ Lags(disk'.index, index'))
  /\ disk'.files = disk.files \/ disk'.files = files'
  /\ ~fIBD => disk'.files = files'
  /\ unsynced' = (unsynced \/ fIBD)
  /\ pindexBest' = pindexBest /\ coinsTip' = coinsTip /\ coinsDB' = coinsDB
  /\ pool' = pool /\ mapOrphanTransactions' = mapOrphanTransactions
  /\ setBlockIndexValid' = {b \in Known : index'[b].failed = "no"}

\* How it ends.
BranchEnds ==
  \/ /\ pc' = "commit" /\ CanConnect(Head(vAttach))
     /\ \A b \in Chain[Head(vAttach)] \ Chain[coinsTip.best] : index'[b].undo
     /\ accepting' = accepting /\ vAttach' = vAttach
     /\ vWorkQueue' = vWorkQueue /\ mapOrphanBlocks' = mapOrphanBlocks
  \/ /\ pc' = "stopping" /\ ~CanRead(Head(vAttach))
     /\ accepting' = accepting /\ vAttach' = vAttach
     /\ vWorkQueue' = vWorkQueue /\ mapOrphanBlocks' = mapOrphanBlocks
  \/ /\ Return(FALSE)
     /\ \/ ~CanRead(Head(vAttach))
        \/ \E bad \in Chain[Head(vAttach)] : index'[bad].failed # "no"

LEMMA BranchIs ==
  ASSUME ChainRight,
         NEW fIBD \in BOOLEAN, ConnectBranch(fIBD)
  PROVE  BranchWritten(fIBD) /\ BranchEnds
<1> DEFINE new == Head(vAttach)
           done == Connected(new)
           path == vConnect(new)
           n == Len(done.undo)
           withUndo == FilesWith(new, done.undo)
           invalid == done.stop = "invalid"
           bad == path[n + 1]
           entries == IndexWith(new, n)
           withBad == IF invalid THEN InvalidBlockFound(entries, bad) ELSE entries
           V == {IndexWith(new, k) : k \in 1..n} \cup {withBad}
           log == [k \in 1..n |-> IndexWith(new, k)] \o <<withBad>>
<1>1. /\ Stored /\ BestRight /\ AttachRight /\ ControlRight
      /\ pc = "set" /\ Running
      /\ files' = withUndo /\ index' = withBad /\ unsynced' = (unsynced \/ fIBD)
      /\ setBlockIndexValid' = IF invalid THEN setBlockIndexValid \ {bad} ELSE setBlockIndexValid
      /\ pindexBest' = pindexBest /\ coinsTip' = coinsTip /\ coinsDB' = coinsDB
      /\ pool' = pool /\ mapOrphanTransactions' = mapOrphanTransactions /\ stops' = stops
  BY DEF ChainRight, ConnectBranch, poolVars, Running
<1>2. PICK i \in IndexOnDisk(log, fIBD), f \in FilesOnDisk(withUndo, fIBD) :
        disk' = [disk EXCEPT !.index = i, !.files = f]
  BY DEF ConnectBranch
<1>3. \/ /\ done.stop = "no" /\ pc' = "commit"
         /\ accepting' = accepting /\ vAttach' = vAttach
         /\ vWorkQueue' = vWorkQueue /\ mapOrphanBlocks' = mapOrphanBlocks
      \/ /\ done.stop = "abort" /\ pc' = "stopping"
         /\ accepting' = accepting /\ vAttach' = vAttach
         /\ vWorkQueue' = vWorkQueue /\ mapOrphanBlocks' = mapOrphanBlocks
      \/ done.stop \in {"error", "invalid"} /\ Return(FALSE)
  BY DEF ConnectBranch, queueVars
<1>4. EntriesRight(index) /\ FilesFit(files) /\ DiskRight(disk)
  BY <1>1 DEF Stored
<1>5. new \in Known /\ new \in Blocks
  <2>1. vAttach \in Seq(Known) /\ vAttach # <<>>
    BY <1>1 DEF AttachRight, ControlRight
  <2>2. Known \subseteq Blocks
    BY <1>4 DEF EntriesRight, Known
  <2> HIDE DEF Known
  <2>3. Head(vAttach) \in Known
    BY <2>1
  <2> QED
    BY <2>2, <2>3
<1> HIDE DEF new
<1>6. /\ done \in Linked
      /\ n \in 0..Len(path) /\ Len(path) \in Nat
      /\ \A k \in 1..Len(path) : path[k] \in Chain[new] /\ path[k] \in Blocks
      /\ \A k \in 1..n : done.undo[k] = BlockUndo(path[k])
      /\ done.stop = "no" <=> CanConnect(new)
      /\ done.stop = "no" =>
           \A b \in Chain[new] \ Chain[coinsTip.best] : \E k \in 1..n : b = path[k]
      /\ invalid => n + 1 \in 1..Len(path) /\ ~ValidChain[bad]
      /\ CanRead(new) => done.stop \in {"no", "invalid"}
  <2>1. FilesRight(files) /\ TipRight
    BY <1>1, <1>4, TipIs DEF FilesFit
  <2>2. /\ done \in Linked
        /\ Len(path) \in Nat /\ n \in 0..Len(path)
        /\ \A k \in 1..n : done.undo[k] = BlockUndo(path[k])
        /\ done.stop = "no" <=> CanConnect(new)
        /\ CanRead(new) => done.stop \in {"no", "invalid"}
    BY <1>5, <2>1, ReorgIs
  <2>3. \A k \in 1..Len(path) : path[k] \in Chain[new] /\ path[k] \in Blocks
    BY <1>5, <2>1, ReorgIs
  <2>4. done.stop = "no" => \A b \in Chain[new] \ Chain[coinsTip.best] : \E k \in 1..n : b = path[k]
    <3>1. /\ \A b \in Chain[new] \ Chain[coinsTip.best] : \E k \in 1..Len(path) : b = path[k]
          /\ done.stop = "no" => n = Len(path)
      BY <1>5, <2>1, ReorgIs
    <3> HIDE DEF done, path, n
    <3> QED
      BY <3>1
  <2>5. invalid => n + 1 \in 1..Len(path) /\ ~ValidChain[bad]
    BY <1>5, <2>1, ReorgIs
  <2> HIDE DEF done, path, n, invalid, bad
  <2> QED
    BY <2>2, <2>3, <2>4, <2>5
<1>7. Chain[new] \subseteq Known
  BY <1>4, <1>5, ChainIsKnown DEF Known
<1>8. DOMAIN done.undo = 1..n
  BY <1>6 DEF Linked
<1>9. \A k \in 1..n : k \in 1..Len(path)
  <2> HIDE DEF n, path
  <2> QED
    BY <1>6
<1>10. /\ FilesFit(withUndo) /\ withUndo.data = files.data
       /\ DOMAIN files.undo \subseteq DOMAIN withUndo.undo
       /\ \A k \in 1..n : ~index[path[k]].undo => path[k] \in DOMAIN withUndo.undo
  BY <1>4, <1>6, <1>8, <1>9, FilesWithIs
<1>11. ASSUME NEW k
       PROVE  /\ DOMAIN IndexWith(new, k) = Known /\ EntriesRight(IndexWith(new, k))
              /\ \A b \in Known :
                   /\ IndexWith(new, k)[b].failed = index[b].failed
                   /\ IndexWith(new, k)[b].undo <=>
                        index[b].undo \/ \E i_1 \in 1..k : b = path[i_1]
  BY <1>4, IndexWithIs
<1>12. invalid => bad \in Chain[new] /\ bad \in Known /\ ~ValidChain[bad]
  BY <1>6, <1>7
<1> HIDE DEF bad, path, n, done, withUndo, entries, withBad
<1>13. /\ DOMAIN withBad = Known /\ EntriesRight(withBad)
       /\ \A b \in Known :
            /\ withBad[b].failed # "no" <=> index[b].failed # "no" \/ (invalid /\ b = bad)
            /\ withBad[b].undo <=> index[b].undo \/ \E k \in 1..n : b = path[k]
  <2>1. /\ DOMAIN entries = Known /\ EntriesRight(entries)
        /\ \A b \in Known : /\ entries[b].failed = index[b].failed
                            /\ entries[b].undo <=> index[b].undo \/ \E k \in 1..n : b = path[k]
    BY <1>11 DEF entries
  <2>2. CASE invalid
    <3>1. withBad = InvalidBlockFound(entries, bad)
      BY <2>2 DEF withBad
    <3>2. /\ EntriesRight(withBad) /\ DOMAIN withBad = DOMAIN entries
          /\ \A b \in DOMAIN entries :
               /\ withBad[b].undo = entries[b].undo
               /\ withBad[b].failed # "no" <=> b = bad \/ entries[b].failed # "no"
      BY <1>12, <2>1, <2>2, <3>1, MarkedIs
    <3> QED
      BY <2>1, <2>2, <3>2
  <2>3. CASE ~invalid
    <3>1. withBad = entries
      BY <2>3 DEF withBad
    <3> QED
      BY <2>1, <2>3, <3>1
  <2> QED
    BY <2>2, <2>3
<1>14. i = disk.index \/ i \in V
  <2>1. log \in Seq(V) /\ log # <<>>
    <3>1. n \in Nat
      BY <1>6
    <3> DEFINE front == [k \in 1..n |-> IndexWith(new, k)]
    <3>2. front \in Seq(V)
      <4>1. \A k \in 1..n : IndexWith(new, k) \in V
        OBVIOUS
      <4> HIDE DEF V
      <4>2. front \in [1..n -> V]
        BY <4>1
      <4> QED
        BY <3>1, <4>2
    <3>3. <<withBad>> \in Seq(V) /\ Len(<<withBad>>) = 1
      OBVIOUS
    <3> HIDE DEF front, V
    <3>4. front \o <<withBad>> \in Seq(V) /\ front \o <<withBad>> # <<>>
      BY <3>2, <3>3
    <3> QED
      BY <3>4 DEF front
  <2> HIDE DEF log, V
  <2> QED
    BY <2>1, IndexOnDiskIs
<1>15. ASSUME i # disk.index
       PROVE  EntriesRight(i) /\ Lags(index, i) /\ Lags(i, withBad)
  <2>1. CASE i = withBad
    BY <1>13, <2>1 DEF Lags, Known
  <2>2. CASE i # withBad
    <3>1. PICK k \in 1..n : i = IndexWith(new, k)
      BY <1>14, <1>15, <2>2
    <3>2. /\ DOMAIN i = Known /\ EntriesRight(i)
          /\ \A b \in Known : i[b].undo <=> index[b].undo \/ \E i_1 \in 1..k : b = path[i_1]
      BY <1>11, <3>1
    <3>3. \A j \in 1..k : j \in 1..n
      BY <1>6, <3>1
    <3> QED
      BY <1>13, <3>2, <3>3 DEF Lags, Known
  <2> QED
    BY <2>1, <2>2
<1>16. /\ f = disk.files \/ f = withUndo
       /\ ~fIBD => f = withUndo
  BY DEF FilesOnDisk
<1>17. /\ DiskRight(disk') /\ disk'.index = i /\ disk'.files = f /\ disk'.coinsDB = disk.coinsDB
       /\ EntriesRight(i)
  <2>1. EntriesRight(i) /\ FilesFit(f)
    BY <1>4, <1>10, <1>15, <1>16 DEF DiskRight
  <2>2. disk' = DiskWith(i, f)
    BY <1>2 DEF DiskWith
  <2> QED
    BY <1>4, <2>1, <2>2, DiskWithIs
<1>18. Known' = Known
  BY <1>1, <1>13 DEF Known
<1>19. setBlockIndexValid' = {b \in Known : index'[b].failed = "no"}
  <2>1. setBlockIndexValid = {b \in Known : index[b].failed = "no"}
    BY <1>1 DEF BestRight
  <2> QED
    BY <1>1, <1>13, <2>1
<1>20. BranchWritten(fIBD)
  <2>1. \A b \in Known : withBad[b].undo => index[b].undo \/ b \in DOMAIN withUndo.undo
    <3> SUFFICES ASSUME NEW b \in Known, withBad[b].undo, ~index[b].undo
                 PROVE  b \in DOMAIN withUndo.undo
      OBVIOUS
    <3>1. PICK k \in 1..n : b = path[k]
      BY <1>13
    <3> QED
      BY <1>10, <3>1
  <2>2. \A b \in Known : /\ index[b].undo => withBad[b].undo
                         /\ index[b].failed # "no" => withBad[b].failed # "no"
    BY <1>13
  <2>3. disk'.index = disk.index \/ (Lags(index, disk'.index) /\ Lags(disk'.index, index'))
    <3>1. CASE i = disk.index
      BY <1>17, <3>1
    <3>2. CASE i # disk.index
      <4>1. Lags(index, i) /\ Lags(i, withBad) /\ disk'.index = i /\ index' = withBad
        BY <1>1, <1>15, <1>17, <3>2
      <4> QED
        BY <4>1 DEF Lags
    <3> QED
      BY <3>1, <3>2
  <2> QED
    BY <1>1, <1>10, <1>13, <1>16, <1>17, <1>18, <1>19, <2>1, <2>2, <2>3 DEF BranchWritten
<1>21. BranchEnds
  <2>1. CASE done.stop = "no"
    <3>1. \A b \in Chain[new] \ Chain[coinsTip.best] : index'[b].undo
      BY <1>1, <1>6, <1>7, <1>13, <2>1
    <3> QED
      BY <1>3, <1>6, <2>1, <3>1 DEF BranchEnds, new
  <2>2. CASE done.stop = "abort"
    BY <1>3, <1>6, <2>2 DEF BranchEnds, new
  <2>3. CASE done.stop = "error"
    <3>1. ~CanRead(new)
      BY <1>6, <2>3
    <3> QED
      BY <1>3, <2>3, <3>1 DEF BranchEnds, new
  <2>4. CASE invalid
    <3>1. bad \in Chain[new] /\ index'[bad].failed # "no"
      BY <1>1, <1>12, <1>13, <2>4
    <3> QED
      BY <1>3, <2>4, <3>1 DEF BranchEnds, new
  <2> QED
    BY <1>3, <2>1, <2>2, <2>3, <2>4
<1> QED
  BY <1>20, <1>21

\* What could be read still can.
LEMMA CanReadStays ==
  ASSUME Stored, BestRight, Running, NEW fIBD, BranchWritten(fIBD),
         NEW new, CanRead(new)
  PROVE  CanRead(new)'
<1>1. /\ \A b \in Known : index[b].undo => index'[b].undo
      /\ files'.data = files.data /\ DOMAIN files.undo \subseteq DOMAIN files'.undo
      /\ coinsTip' = coinsTip
  BY DEF BranchWritten
<1>2. Chain[coinsTip.best] \subseteq Known
  <2>1. coinsTip.best \in DOMAIN index /\ EntriesRight(index)
    BY DEF BestRight, Stored, Known
  <2> QED
    BY <2>1, ChainIsKnown DEF Known
<1> QED
  BY <1>1, <1>2 DEF CanRead, CanLeave, Undoable

LEMMA BranchKeeps ==
  ASSUME ChainRight,
         NEW fIBD \in BOOLEAN, ConnectBranch(fIBD)
  PROVE  ChainRight'
<1>1. /\ Stored /\ BestRight /\ AttachRight /\ ControlRight /\ pc = "set" /\ Running
      /\ BranchWritten(fIBD) /\ BranchEnds
  BY BranchIs DEF ChainRight, ConnectBranch, Running
<1>2. Stored'
  BY <1>1 DEF Stored, BranchWritten
<1>3. BestRight'
  <2>1. /\ pindexBest \in Blocks /\ ValidChain[pindexBest] /\ setBlockIndexValid \subseteq Blocks
        /\ pindexBest = coinsTip.best /\ pindexBest \in Known
    BY <1>1 DEF BestRight, Serving
  <2>2. /\ pindexBest' = pindexBest /\ coinsTip' = coinsTip /\ Known' = Known
        /\ setBlockIndexValid' = {b \in Known : index'[b].failed = "no"}
    BY <1>1 DEF BranchWritten
  <2>3. Known \subseteq Blocks
    BY <1>1 DEF Stored, EntriesRight, Known
  <2> QED
    BY <2>1, <2>2, <2>3 DEF BestRight
<1>4. Known' = Known /\ stops' = stops /\ unsynced' \in BOOLEAN /\ pindexBest' = pindexBest
  BY <1>1 DEF BranchWritten, ControlRight, ConnectBranch
<1>5. CASE pc' \in {"commit", "stopping"} /\ (pc' = "commit" => CanConnect(Head(vAttach)))
           /\ accepting' = accepting /\ vAttach' = vAttach
           /\ vWorkQueue' = vWorkQueue /\ mapOrphanBlocks' = mapOrphanBlocks
  <2>1. ControlRight'
    BY <1>1, <1>4, <1>5 DEF ControlRight, PCs
  <2>2. AttachRight'
    <3>1. pc' = "commit" => CanConnect(Head(vAttach))'
      <4>1. PICK new : new = Head(vAttach)
        OBVIOUS
      <4>2. ASSUME CanRead(new) PROVE CanRead(new)'
        BY <1>1, <4>2, CanReadStays
      <4>3. Head(vAttach') = new
        BY <1>5, <4>1
      <4>4. CanConnect(Head(vAttach)) => CanRead(new)' /\ ValidChain[new]
        BY <4>1, <4>2 DEF CanConnect
      <4> QED
        BY <1>5, <4>3, <4>4 DEF CanConnect, CanRead, CanLeave, Undoable
    <3> QED
      BY <1>1, <1>4, <1>5, <3>1 DEF AttachRight
  <2> QED
    BY <1>2, <1>3, <2>1, <2>2 DEF ChainRight
<1>6. CASE Return(FALSE)
  <2>1. ControlRight' /\ AttachRight'
    BY <1>1, <1>4, <1>6, ReturnKeeps
  <2> QED
    BY <1>2, <1>3, <2>1 DEF ChainRight
<1> QED
  BY <1>1, <1>5, <1>6 DEF BranchEnds

\* A write that fails leaves what a shorter branch would have.
LEMMA WriteFailsIs ==
  ASSUME ChainRight,
         NEW fIBD \in BOOLEAN, WriteFails(fIBD)
  PROVE  BranchWritten(fIBD)
<1> DEFINE new == Head(vAttach)
           done == Connected(new)
           undo == done.undo
           path == vConnect(new)
<1>1. /\ Stored /\ BestRight /\ AttachRight /\ ControlRight
      /\ pc = "set" /\ Running /\ unsynced' = (unsynced \/ fIBD)
      /\ setBlockIndexValid' = setBlockIndexValid
      /\ pindexBest' = pindexBest /\ coinsTip' = coinsTip /\ coinsDB' = coinsDB
      /\ pool' = pool /\ mapOrphanTransactions' = mapOrphanTransactions
  BY DEF ChainRight, WriteFails, poolVars, Running
<1>2. PICK k \in DOMAIN undo : \E n \in {k - 1, k} :
        /\ index' = IndexWith(new, k - 1)
        /\ files' = FilesWith(new, SubSeq(undo, 1, n))
        /\ \E i \in IndexOnDisk([j \in 1..k |-> IndexWith(new, j - 1)], fIBD),
              f \in FilesOnDisk(FilesWith(new, SubSeq(undo, 1, n)), fIBD) :
             disk' = [disk EXCEPT !.index = i, !.files = f]
  BY DEF WriteFails
<1>25. PICK n \in {k - 1, k} :
        /\ index' = IndexWith(new, k - 1)
        /\ files' = FilesWith(new, SubSeq(undo, 1, n))
        /\ \E i \in IndexOnDisk([j \in 1..k |-> IndexWith(new, j - 1)], fIBD),
              f \in FilesOnDisk(FilesWith(new, SubSeq(undo, 1, n)), fIBD) :
             disk' = [disk EXCEPT !.index = i, !.files = f]
  BY <1>2
<1> DEFINE withUndo == FilesWith(new, SubSeq(undo, 1, n))
           log == [j \in 1..k |-> IndexWith(new, j - 1)]
           V == {IndexWith(new, j - 1) : j \in 1..k}
<1>3. PICK i \in IndexOnDisk(log, fIBD), f \in FilesOnDisk(withUndo, fIBD) :
        disk' = [disk EXCEPT !.index = i, !.files = f]
  BY <1>25
<1>4. EntriesRight(index) /\ FilesFit(files) /\ DiskRight(disk)
  BY <1>1 DEF Stored
<1>5. new \in Known /\ new \in Blocks
  <2>1. vAttach \in Seq(Known) /\ vAttach # <<>>
    BY <1>1 DEF AttachRight, ControlRight
  <2>2. Known \subseteq Blocks
    BY <1>4 DEF EntriesRight, Known
  <2> HIDE DEF Known
  <2>3. Head(vAttach) \in Known
    BY <2>1
  <2> QED
    BY <2>2, <2>3
<1> HIDE DEF new
<1>6. /\ done \in Linked /\ Len(path) \in Nat /\ Len(undo) \in 0..Len(path)
      /\ \A j \in 1..Len(path) : path[j] \in Blocks
      /\ \A j \in 1..Len(undo) : undo[j] = BlockUndo(path[j])
  <2>1. FilesRight(files) /\ TipRight
    BY <1>1, <1>4, TipIs DEF FilesFit
  <2> QED
    BY <1>5, <2>1, ReorgIs
<1> HIDE DEF done, path
<1>7. undo \in Seq(Range(undo))
  BY <1>6 DEF Linked, Range
<1>8. k \in 1..Len(undo) /\ n \in 0..Len(undo) /\ k - 1 \in 0..n
  <2> HIDE DEF undo
  <2>1. Len(undo) \in Nat /\ k \in 1..Len(undo)
    BY <1>6, <1>7
  <2> QED
    BY <2>1
<1> DEFINE u == SubSeq(undo, 1, n)
<1>9. DOMAIN u = 1..n /\ \A j \in 1..n : u[j] = undo[j] /\ j \in 1..Len(undo) /\ j \in 1..Len(path)
  <2> HIDE DEF undo
  <2> QED
    BY <1>6, <1>7, <1>8
<1> HIDE DEF u
<1>10. \A j \in 1..n : u[j] = BlockUndo(path[j]) /\ path[j] \in Blocks
  BY <1>6, <1>9
<1>11. /\ FilesFit(withUndo) /\ withUndo.data = files.data
       /\ DOMAIN files.undo \subseteq DOMAIN withUndo.undo
       /\ \A j \in 1..n : ~index[path[j]].undo => path[j] \in DOMAIN withUndo.undo
  <2>1. withUndo = FilesWith(new, u)
    BY DEF u
  <2> QED
    BY <1>4, <1>9, <1>10, <2>1, FilesWithIs DEF path
<1> HIDE DEF withUndo, undo
<1>12. ASSUME NEW m
       PROVE  /\ DOMAIN IndexWith(new, m) = Known /\ EntriesRight(IndexWith(new, m))
              /\ \A b \in Known :
                   /\ IndexWith(new, m)[b].failed = index[b].failed
                   /\ IndexWith(new, m)[b].undo <=>
                        index[b].undo \/ \E j \in 1..m : b = path[j]
  BY <1>4, IndexWithIs DEF path
<1>13. i = disk.index \/ \E j \in 1..k : i = IndexWith(new, j - 1)
  <2>1. log \in Seq(V) /\ log # <<>>
    <3>1. k \in Nat /\ 1 \in 1..k /\ \A j \in 1..k : IndexWith(new, j - 1) \in V
      BY <1>8
    <3> DEFINE F(j) == IndexWith(new, j - 1)
    <3>2. log = [j \in 1..k |-> F(j)] /\ \A j \in 1..k : F(j) \in V
      BY <3>1
    <3> HIDE DEF F, log, V
    <3> QED
      BY <3>1, <3>2
  <2> HIDE DEF log
  <2>2. i = disk.index \/ i \in V
    <3> HIDE DEF V
    <3> QED
      BY <2>1, IndexOnDiskIs
  <2> QED
    BY <2>2
<1>14. ASSUME i # disk.index
       PROVE  EntriesRight(i) /\ Lags(index, i) /\ Lags(i, IndexWith(new, k - 1))
  <2>1. PICK j \in 1..k : i = IndexWith(new, j - 1)
    BY <1>13, <1>14
  <2>2. \A x \in 1..(j - 1) : x \in 1..(k - 1)
    BY <1>8, <2>1
  <2>3. /\ DOMAIN i = Known /\ EntriesRight(i)
        /\ \A b \in Known : i[b].undo <=> index[b].undo \/ \E x \in 1..(j - 1) : b = path[x]
    BY <1>12, <2>1
  <2>4. /\ DOMAIN IndexWith(new, k - 1) = Known
        /\ \A b \in Known : IndexWith(new, k - 1)[b].undo <=>
                              index[b].undo \/ \E x \in 1..(k - 1) : b = path[x]
    BY <1>12
  <2> QED
    BY <2>2, <2>3, <2>4 DEF Lags, Known
<1>15. /\ f = disk.files \/ f = withUndo
       /\ ~fIBD => f = withUndo
  BY DEF FilesOnDisk
<1>16. /\ DiskRight(disk') /\ disk'.index = i /\ disk'.files = f /\ disk'.coinsDB = disk.coinsDB
       /\ EntriesRight(i)
  <2>1. EntriesRight(i) /\ FilesFit(f)
    BY <1>4, <1>11, <1>14, <1>15 DEF DiskRight
  <2>2. disk' = DiskWith(i, f)
    BY <1>3 DEF DiskWith
  <2> QED
    BY <1>4, <2>1, <2>2, DiskWithIs
<1>17. index' = IndexWith(new, k - 1) /\ files' = withUndo
  BY <1>25 DEF withUndo
<1>18. /\ DOMAIN index' = Known /\ EntriesRight(index')
       /\ \A b \in Known : /\ index'[b].failed = index[b].failed
                           /\ index'[b].undo <=> index[b].undo \/ \E j \in 1..(k - 1) : b = path[j]
  BY <1>12, <1>17
<1>19. Known' = Known
  BY <1>18 DEF Known
<1>20. setBlockIndexValid' = {b \in Known : index'[b].failed = "no"}
  BY <1>1, <1>18 DEF BestRight
<1>21. \A b \in Known : index'[b].undo => index[b].undo \/ b \in DOMAIN files'.undo
  <2> SUFFICES ASSUME NEW b \in Known, index'[b].undo, ~index[b].undo
               PROVE  b \in DOMAIN withUndo.undo
    BY <1>17
  <2>1. PICK j \in 1..(k - 1) : b = path[j]
    BY <1>18
  <2>2. j \in 1..n
    BY <1>8, <2>1
  <2> QED
    BY <1>11, <2>1, <2>2
<1>22. disk'.index = disk.index \/ (Lags(index, disk'.index) /\ Lags(disk'.index, index'))
  <2>1. CASE i = disk.index
    BY <1>16, <2>1
  <2>2. CASE i # disk.index
    BY <1>14, <1>16, <1>17, <2>2
  <2> QED
    BY <2>1, <2>2
<1>23. /\ files'.data = files.data /\ DOMAIN files.undo \subseteq DOMAIN files'.undo
       /\ FilesFit(files') /\ EntriesRight(disk'.index)
       /\ disk'.files = disk.files \/ disk'.files = files'
       /\ ~fIBD => disk'.files = files'
  BY <1>11, <1>15, <1>16, <1>17
<1>24. \A b \in Known : /\ index[b].undo => index'[b].undo
                        /\ index[b].failed # "no" => index'[b].failed # "no"
  BY <1>18
<1> QED
  BY <1>1, <1>16, <1>18, <1>19, <1>20, <1>21, <1>22, <1>23, <1>24 DEF BranchWritten

LEMMA WriteFailsKeeps ==
  ASSUME ChainRight,
         NEW fIBD \in BOOLEAN, WriteFails(fIBD)
  PROVE  ChainRight'
<1>1. /\ Stored /\ BestRight /\ AttachRight /\ ControlRight /\ pc = "set" /\ Running
      /\ BranchWritten(fIBD) /\ stops < MaxStops
      /\ pc' = "stopping" /\ stops' = stops + 1 /\ accepting' = accepting /\ vAttach' = vAttach
      /\ vWorkQueue' = vWorkQueue /\ mapOrphanBlocks' = mapOrphanBlocks
  BY WriteFailsIs DEF ChainRight, WriteFails, Running, queueVars
<1>2. Stored'
  BY <1>1 DEF Stored, BranchWritten
<1>3. /\ pindexBest' = pindexBest /\ coinsTip' = coinsTip /\ Known' = Known
      /\ setBlockIndexValid' = {b \in Known : index'[b].failed = "no"}
      /\ unsynced' = (unsynced \/ fIBD)
  BY <1>1 DEF BranchWritten
<1>4. BestRight'
  <2>1. /\ pindexBest \in Blocks /\ ValidChain[pindexBest]
        /\ pindexBest = coinsTip.best /\ pindexBest \in Known
    BY <1>1 DEF BestRight, Serving
  <2>2. Known \subseteq Blocks
    BY <1>1 DEF Stored, EntriesRight, Known
  <2> QED
    BY <1>3, <2>1, <2>2 DEF BestRight
<1>5. stops' \in 0..MaxStops /\ unsynced' \in BOOLEAN
  <2>1. stops \in 0..MaxStops /\ unsynced \in BOOLEAN /\ MaxStops \in Nat
    BY <1>1, StateAssumption DEF ControlRight
  <2> QED
    BY <1>1, <1>3, <2>1
<1>6. ControlRight'
  BY <1>1, <1>3, <1>5 DEF ControlRight, PCs
<1>7. AttachRight'
  BY <1>1 DEF AttachRight
<1> QED
  BY <1>2, <1>4, <1>6, <1>7 DEF ChainRight

\* What Commit writes: the database or the cache, for the new best block.
CommitWritten(fFlush) ==
  LET new == Head(vAttach)
  IN /\ new \in Known /\ new \in Blocks /\ ValidChain[new] /\ CanRead(new)
     /\ nChainWork[new] > nChainWork[pindexBest]
     /\ pindexBest' = new /\ coinsTip'.best = new
     /\ TipFits(coinsTip', coinsDB') /\ DBRight(coinsDB')
     /\ index' = index /\ setBlockIndexValid' = setBlockIndexValid /\ files' = files
     /\ stops' = stops /\ mapOrphanTransactions' = mapOrphanTransactions
     /\ unsynced' = ~fFlush
     /\ fFlush => /\ coinsDB'.best = new
                  /\ disk'.index = index /\ disk'.files = files
                  /\ disk'.coinsDB = disk.coinsDB \/ disk'.coinsDB = coinsDB'
     /\ ~fFlush => coinsDB' = coinsDB /\ disk' = disk
     /\ DiskRight(disk')

LEMMA CommitIs ==
  ASSUME ChainRight,
         NEW fFlush \in BOOLEAN, Commit(fFlush)
  PROVE  CommitWritten(fFlush)
<1> DEFINE new == Head(vAttach)
           view == Connected(new).view
           cache == CacheAfter(view)
           db == [view |-> FlushedView(cache), best |-> new]
<1>1. /\ Stored /\ BestRight /\ AttachRight /\ ControlRight
      /\ pc = "commit"
      /\ pindexBest' = new /\ index' = index /\ setBlockIndexValid' = setBlockIndexValid
      /\ files' = files /\ mapOrphanTransactions' = mapOrphanTransactions /\ stops' = stops
  BY DEF ChainRight, Commit
<1>2. fFlush => /\ coinsTip' = [cache |-> NoCache, best |-> new]
                /\ coinsDB' = db /\ unsynced' = FALSE
                /\ \E c \in CoinsOnDisk(db) : disk' = DiskAfterFlush(c)
  BY DEF Commit
<1>3. ~fFlush => /\ coinsTip' = [cache |-> cache, best |-> new]
                 /\ coinsDB' = coinsDB /\ disk' = disk /\ unsynced' = TRUE
  BY DEF Commit
<1>4. EntriesRight(index) /\ FilesFit(files) /\ DiskRight(disk) /\ DBRight(coinsDB)
      /\ TipFits(coinsTip, coinsDB)
  BY <1>1 DEF Stored
<1>5. new \in Known /\ new \in Blocks /\ nChainWork[new] > nChainWork[pindexBest]
      /\ CanConnect(new)
  <2>1. /\ vAttach \in Seq(Known) /\ vAttach # <<>> /\ CanConnect(new)
        /\ \A i \in 1..Len(vAttach) : nChainWork[vAttach[i]] > nChainWork[pindexBest]
    BY <1>1 DEF AttachRight, ControlRight
  <2>2. Known \subseteq Blocks
    BY <1>4 DEF EntriesRight, Known
  <2> DEFINE w == nChainWork[pindexBest]
  <2> HIDE DEF Known, w
  <2>3. 1 \in 1..Len(vAttach) /\ Head(vAttach) = vAttach[1] /\ Head(vAttach) \in Known
    BY <2>1
  <2>4. nChainWork[new] > w
    BY <2>1, <2>3 DEF w
  <2> QED
    BY <2>1, <2>2, <2>3, <2>4 DEF w
<1> HIDE DEF new
<1>6. view \in Views /\ Same(view, Unspent[new]) /\ ValidChain[new] /\ CanRead(new)
  <2>1. FilesRight(files) /\ TipRight
    BY <1>1, <1>4, TipIs DEF FilesFit
  <2> DEFINE r == Connected(new)
  <2>2. r \in Linked /\ r.stop = "no" /\ Same(r.view, Unspent[new])
    BY <1>5, <2>1, ReorgIs
  <2> HIDE DEF r
  <2>3. r.view \in Views
    BY <2>2 DEF Linked
  <2> QED
    BY <1>5, <2>2, <2>3 DEF CanConnect, r
<1> HIDE DEF view
<1>7. CacheFits(cache) /\ Through(cache, coinsDB) = view
  <2>1. CacheFits(coinsTip.cache)
    BY <1>4 DEF TipFits
  <2> QED
    BY <1>6, <2>1, CacheShows
<1> HIDE DEF cache
<1>8. DBRight(db) /\ db.best = new
  <2>1. Same(Through(cache, coinsDB), Unspent[new])
    BY <1>6, <1>7
  <2> QED
    BY <1>4, <1>5, <1>6, <1>7, <2>1, FlushIs
<1> HIDE DEF db
<1>9. CASE fFlush
  <2>1. PICK c \in CoinsOnDisk(db) : disk' = DiskAfterFlush(c)
    BY <1>2, <1>9
  <2>2. c = disk.coinsDB \/ c = db
    BY CoinsOnDiskIs
  <2>3. disk' = [index |-> index, files |-> files, coinsDB |-> c]
    BY <2>1 DEF DiskAfterFlush
  <2>4. /\ disk'.index = index /\ disk'.files = files /\ disk'.coinsDB = c
        /\ disk' = [index |-> disk'.index, files |-> disk'.files, coinsDB |-> disk'.coinsDB]
    BY <2>3
  <2>5. DBRight(c)
    BY <1>4, <1>8, <2>2 DEF DiskRight
  <2>6. DiskRight(disk')
    BY <1>4, <2>4, <2>5 DEF DiskRight
  <2>7. TipFits(coinsTip', coinsDB')
    <3>1. TipFits([cache |-> NoCache, best |-> db.best], db)
      BY <1>8, ThroughNothing
    <3> QED
      BY <1>2, <1>8, <1>9, <3>1
  <2>8. coinsTip'.best = new
    BY <1>2, <1>9
  <2> QED
    BY <1>1, <1>2, <1>5, <1>6, <1>8, <1>9, <2>2, <2>4, <2>6, <2>7, <2>8 DEF CommitWritten, new
<1>10. CASE ~fFlush
  <2>1. coinsTip'.best = new /\ coinsTip'.cache = cache
        /\ coinsTip' = [cache |-> coinsTip'.cache, best |-> coinsTip'.best]
    BY <1>3, <1>10
  <2>2. TipFits(coinsTip', coinsDB')
    BY <1>3, <1>5, <1>6, <1>7, <1>10, <2>1 DEF TipFits
  <2> QED
    BY <1>1, <1>3, <1>4, <1>5, <1>6, <1>10, <2>1, <2>2 DEF CommitWritten, new
<1> QED
  BY <1>9, <1>10

\* What a Commit that fails leaves: the new coins in the cache, and nothing else but what is
\* synced.
FailWritten(fSynced) ==
  LET new == Head(vAttach)
  IN /\ new \in Known /\ coinsTip'.best = new
     /\ TipFits(coinsTip', coinsDB)
     /\ index' = index /\ setBlockIndexValid' = setBlockIndexValid /\ files' = files
     /\ pindexBest' = pindexBest /\ coinsDB' = coinsDB
     /\ stops' \in 0..MaxStops /\ unsynced' = ~fSynced
     /\ fSynced => disk'.index = index /\ disk'.files = files /\ disk'.coinsDB = disk.coinsDB
     /\ ~fSynced => disk' = disk
     /\ DiskRight(disk')
     /\ pc' = "stopping" /\ accepting' = accepting /\ vAttach' = vAttach
     /\ vWorkQueue' = vWorkQueue /\ mapOrphanBlocks' = mapOrphanBlocks
     /\ pool' = pool /\ mapOrphanTransactions' = mapOrphanTransactions

LEMMA CommitFailsIs ==
  ASSUME ChainRight,
         NEW fSynced \in BOOLEAN, CommitFails(fSynced)
  PROVE  FailWritten(fSynced)
<1> DEFINE new == Head(vAttach)
           view == Connected(new).view
           cache == CacheAfter(view)
<1>1. /\ Stored /\ BestRight /\ AttachRight /\ ControlRight
      /\ pc = "commit" /\ stops < MaxStops /\ stops' = stops + 1
      /\ coinsTip' = [cache |-> cache, best |-> new] /\ unsynced' = ~fSynced
      /\ index' = index /\ setBlockIndexValid' = setBlockIndexValid /\ files' = files
      /\ pindexBest' = pindexBest /\ coinsDB' = coinsDB
      /\ disk' = IF fSynced THEN DiskAfterFlush(disk.coinsDB) ELSE disk
      /\ pc' = "stopping" /\ accepting' = accepting /\ vAttach' = vAttach
      /\ vWorkQueue' = vWorkQueue /\ mapOrphanBlocks' = mapOrphanBlocks
      /\ pool' = pool /\ mapOrphanTransactions' = mapOrphanTransactions
  BY DEF ChainRight, CommitFails, poolVars, queueVars
<1>2. EntriesRight(index) /\ FilesFit(files) /\ DiskRight(disk) /\ DBRight(coinsDB)
      /\ TipFits(coinsTip, coinsDB)
  BY <1>1 DEF Stored
<1>3. new \in Known /\ new \in Blocks /\ CanConnect(new)
  <2>1. vAttach \in Seq(Known) /\ vAttach # <<>> /\ CanConnect(new)
    BY <1>1 DEF AttachRight, ControlRight
  <2>2. Known \subseteq Blocks
    BY <1>2 DEF EntriesRight, Known
  <2> HIDE DEF Known
  <2>3. Head(vAttach) \in Known
    BY <2>1
  <2> QED
    BY <2>1, <2>2, <2>3
<1> HIDE DEF new
<1>4. view \in Views /\ Same(view, Unspent[new]) /\ ValidChain[new]
  <2>1. FilesRight(files) /\ TipRight
    BY <1>1, <1>2, TipIs DEF FilesFit
  <2> DEFINE r == Connected(new)
  <2>2. r \in Linked /\ r.stop = "no" /\ Same(r.view, Unspent[new])
    BY <1>3, <2>1, ReorgIs
  <2> HIDE DEF r
  <2>3. r.view \in Views
    BY <2>2 DEF Linked
  <2> QED
    BY <1>3, <2>2, <2>3 DEF CanConnect, r
<1> HIDE DEF view
<1>5. CacheFits(cache) /\ Through(cache, coinsDB) = view
  <2>1. CacheFits(coinsTip.cache)
    BY <1>2 DEF TipFits
  <2> QED
    BY <1>4, <2>1, CacheShows
<1> HIDE DEF cache
<1>6. TipFits(coinsTip', coinsDB) /\ coinsTip'.best = new
  <2>1. /\ coinsTip'.best = new /\ coinsTip'.cache = cache
        /\ coinsTip' = [cache |-> coinsTip'.cache, best |-> coinsTip'.best]
    BY <1>1
  <2> QED
    BY <1>3, <1>4, <1>5, <2>1 DEF TipFits
<1>7. stops' \in 0..MaxStops
  <2>1. stops \in 0..MaxStops /\ MaxStops \in Nat
    BY <1>1, StateAssumption DEF ControlRight
  <2> QED
    BY <1>1, <2>1
<1>8. DiskRight(disk') /\ (fSynced => /\ disk'.index = index /\ disk'.files = files
                                      /\ disk'.coinsDB = disk.coinsDB)
  <2>1. CASE fSynced
    <3> DEFINE c == disk.coinsDB
    <3>1. disk' = [index |-> index, files |-> files, coinsDB |-> c] /\ DBRight(c)
      BY <1>1, <1>2, <2>1 DEF DiskAfterFlush, DiskRight
    <3> HIDE DEF c
    <3>2. /\ disk'.index = index /\ disk'.files = files /\ disk'.coinsDB = c
          /\ disk' = [index |-> disk'.index, files |-> disk'.files, coinsDB |-> disk'.coinsDB]
      BY <3>1
    <3>3. DiskRight(disk')
      BY <1>2, <3>1, <3>2 DEF DiskRight
    <3> QED
      BY <3>2, <3>3 DEF c
  <2>2. CASE ~fSynced
    BY <1>1, <1>2, <2>2
  <2> QED
    BY <2>1, <2>2
<1>9. ~fSynced => disk' = disk
  BY <1>1
<1> QED
  BY <1>1, <1>3, <1>6, <1>7, <1>8, <1>9 DEF FailWritten, new

LEMMA CommitFailsKeeps ==
  ASSUME ChainRight,
         NEW fSynced \in BOOLEAN, CommitFails(fSynced)
  PROVE  ChainRight'
<1>1. /\ Stored /\ BestRight /\ ControlRight /\ Running /\ FailWritten(fSynced)
  BY CommitFailsIs DEF ChainRight, CommitFails, Running
<1>2. Stored' /\ Known' = Known
  BY <1>1 DEF Stored, FailWritten, Known
<1>3. BestRight'
  BY <1>1, <1>2 DEF BestRight, FailWritten, Serving
<1>4. unsynced' \in BOOLEAN /\ pc' = "stopping"
  BY <1>1 DEF FailWritten
<1>5. ControlRight'
  BY <1>1, <1>2, <1>4 DEF ControlRight, FailWritten, PCs
<1>6. AttachRight'
  BY <1>4 DEF AttachRight
<1> QED
  BY <1>2, <1>3, <1>5, <1>6 DEF ChainRight

LEMMA CommitKeeps ==
  ASSUME ChainRight,
         NEW fFlush \in BOOLEAN, Commit(fFlush)
  PROVE  ChainRight'
<1> DEFINE new == Head(vAttach)
<1>1. /\ Stored /\ BestRight /\ AttachRight /\ ControlRight /\ pc = "commit" /\ Running
      /\ CommitWritten(fFlush)
  BY CommitIs DEF ChainRight, Commit, Running
<1>2. Stored' /\ Known' = Known
  BY <1>1 DEF Stored, CommitWritten, Known
<1>3. BestRight'
  <2>1. /\ setBlockIndexValid = {b \in Known : index[b].failed = "no"}
        /\ setBlockIndexValid \subseteq Blocks
    BY <1>1 DEF BestRight
  <2>2. /\ pindexBest' = new /\ coinsTip'.best = new /\ new \in Known /\ new \in Blocks
        /\ ValidChain[new] /\ index' = index /\ setBlockIndexValid' = setBlockIndexValid
    BY <1>1 DEF CommitWritten
  <2> HIDE DEF new
  <2> QED
    BY <1>2, <2>1, <2>2 DEF BestRight
<1>4. stops' = stops /\ unsynced' \in BOOLEAN /\ pindexBest' = new
  BY <1>1 DEF CommitWritten
<1>5. CASE Len(vAttach) > 1
  <2>1. /\ vAttach' = Tail(vAttach) /\ pc' = "set"
        /\ accepting' = accepting /\ vWorkQueue' = vWorkQueue
        /\ mapOrphanBlocks' = mapOrphanBlocks
    BY <1>5 DEF Commit, queueVars
  <2>2. /\ vAttach \in Seq(Known)
        /\ \A i, j \in 1..Len(vAttach) : i < j => nChainWork[vAttach[i]] < nChainWork[vAttach[j]]
    BY <1>1 DEF AttachRight, ControlRight
  <2> DEFINE s == vAttach'
  <2> HIDE DEF Known
  <2>3. /\ s \in Seq(Known) /\ Len(s) = Len(vAttach) - 1 /\ Len(s) \in Nat /\ s # <<>>
        /\ \A i \in 1..Len(s) : s[i] = vAttach[i + 1] /\ i + 1 \in 1..Len(vAttach)
        /\ 1 \in 1..Len(vAttach) /\ new = vAttach[1]
    <3>1. Len(vAttach) \in Nat /\ 1 \in 1..Len(vAttach) /\ vAttach # <<>>
      BY <1>5, <2>2
    <3>2. s \in Seq(Known) /\ Len(s) = Len(vAttach) - 1
      BY <2>1, <2>2, <3>1
    <3>3. Len(s) \in Nat /\ s # <<>>
      BY <1>5, <3>1, <3>2
    <3>4. \A i \in 1..Len(s) : s[i] = vAttach[i + 1] /\ i + 1 \in 1..Len(vAttach)
      BY <2>1, <2>2, <3>1, <3>2
    <3> QED
      BY <2>2, <3>1, <3>2, <3>3, <3>4
  <2> HIDE DEF s, new
  <2>4. \A i \in 1..Len(s) : nChainWork[new] < nChainWork[s[i]]
    <3> SUFFICES ASSUME NEW i \in 1..Len(s) PROVE nChainWork[new] < nChainWork[s[i]]
      OBVIOUS
    <3>1. 1 < i + 1 /\ 1 \in 1..Len(vAttach) /\ i + 1 \in 1..Len(vAttach)
      BY <2>3
    <3>2. nChainWork[vAttach[1]] < nChainWork[vAttach[i + 1]]
      BY <2>2, <3>1
    <3>3. vAttach[1] = new /\ vAttach[i + 1] = s[i]
      BY <2>3
    <3> QED
      BY <3>2, <3>3
  <2>5. \A i, j \in 1..Len(s) : i < j => nChainWork[s[i]] < nChainWork[s[j]]
    <3> SUFFICES ASSUME NEW i \in 1..Len(s), NEW j \in 1..Len(s), i < j
                 PROVE  nChainWork[s[i]] < nChainWork[s[j]]
      OBVIOUS
    <3>1. i + 1 < j + 1 /\ i + 1 \in 1..Len(vAttach) /\ j + 1 \in 1..Len(vAttach)
      BY <2>3
    <3>2. nChainWork[vAttach[i + 1]] < nChainWork[vAttach[j + 1]]
      BY <2>2, <3>1
    <3>3. vAttach[i + 1] = s[i] /\ vAttach[j + 1] = s[j]
      BY <2>3
    <3> QED
      BY <3>2, <3>3
  <2>6. \A i \in 1..Len(s) : nChainWork[s[i]] > nChainWork[new]
    <3> SUFFICES ASSUME NEW i \in 1..Len(s) PROVE nChainWork[s[i]] > nChainWork[new]
      OBVIOUS
    <3> DEFINE w == nChainWork[new]
               x == nChainWork[s[i]]
    <3>1. w < x
      BY <2>4
    <3> HIDE DEF w, x
    <3>2. x > w
      BY <3>1
    <3> QED
      BY <3>2 DEF w, x
  <2>7. AttachRight'
    BY <1>4, <2>1, <2>3, <2>5, <2>6 DEF AttachRight, s
  <2>8. ControlRight'
    BY <1>1, <1>2, <1>4, <2>1, <2>3 DEF ControlRight, PCs, s
  <2> QED
    BY <1>2, <1>3, <2>7, <2>8 DEF ChainRight
<1>6. CASE ~(Len(vAttach) > 1)
  <2>1. Return(TRUE)
    BY <1>6 DEF Commit
  <2>2. ControlRight' /\ AttachRight'
    BY <1>1, <1>2, <1>4, <2>1, ReturnKeeps
  <2> QED
    BY <1>2, <1>3, <2>2 DEF ChainRight
<1> QED
  BY <1>5, <1>6

-----------------------------------------------------------------------------
(* Stopping and starting *)

\* With the memory go the queues, and nothing is under way.
LEMMA LoseKeeps ==
  ASSUME BestRight, ControlRight, LoseMemory, stops' \in 0..MaxStops, unsynced' \in BOOLEAN,
         pindexBest' = pindexBest, setBlockIndexValid' = setBlockIndexValid
  PROVE  BestRight' /\ AttachRight' /\ ControlRight'
<1>1. /\ pc' = "off" /\ accepting' = NoBlock /\ vAttach' = <<>> /\ vWorkQueue' = <<>>
      /\ mapOrphanBlocks' = {}
  BY DEF LoseMemory
<1>2. BestRight'
  BY <1>1 DEF BestRight, Serving, Running
<1>3. AttachRight'
  BY <1>1 DEF AttachRight
<1>4. ControlRight'
  BY <1>1 DEF ControlRight, PCs
<1> QED
  BY <1>2, <1>3, <1>4

\* The database after Shutdown, and what of it is on disk.
ShutdownWritten ==
  /\ DBRight(coinsDB') /\ coinsDB'.best = coinsTip.best /\ coinsTip'.best = coinsTip.best
  /\ TipFits(coinsTip', coinsDB')
  /\ disk'.index = disk.index /\ disk'.files = disk.files
  /\ disk'.coinsDB = disk.coinsDB \/ disk'.coinsDB = coinsDB'
  /\ DiskRight(disk')
  /\ index' = index /\ files' = files /\ unsynced' = unsynced

LEMMA ShutdownIs ==
  ASSUME ChainRight, Shutdown
  PROVE  ShutdownWritten
<1> DEFINE db == [view |-> FlushedView(coinsTip.cache), best |-> coinsTip.best]
<1>1. /\ Stored
      /\ coinsDB' = db /\ coinsTip' = [cache |-> NoCache, best |-> coinsTip.best]
      /\ index' = index /\ files' = files /\ unsynced' = unsynced
  BY DEF ChainRight, Shutdown
<1>2. PICK c \in CoinsOnDisk(db) : disk' = [disk EXCEPT !.coinsDB = c]
  BY DEF Shutdown
<1>3. DiskRight(disk) /\ DBRight(coinsDB) /\ TipFits(coinsTip, coinsDB)
  BY <1>1 DEF Stored
<1>4. DBRight(db) /\ db.best = coinsTip.best
  <2> DEFINE cache == coinsTip.cache
             best == coinsTip.best
  <2>1. /\ CacheFits(cache) /\ best \in Blocks /\ ValidChain[best]
        /\ Same(Through(cache, coinsDB), Unspent[best])
    BY <1>3 DEF TipFits
  <2> HIDE DEF cache, best
  <2>2. DBRight([view |-> FlushedView(cache), best |-> best])
    BY <1>3, <2>1, FlushIs
  <2> QED
    BY <2>2 DEF cache, best
<1> HIDE DEF db
<1>5. TipFits(coinsTip', coinsDB') /\ coinsTip'.best = coinsTip.best
  <2>1. TipFits([cache |-> NoCache, best |-> db.best], db)
    BY <1>4, ThroughNothing
  <2> QED
    BY <1>1, <1>4, <2>1
<1>6. c = disk.coinsDB \/ c = db
  BY CoinsOnDiskIs
<1>7. /\ DiskRight(disk')
      /\ disk'.index = disk.index /\ disk'.files = disk.files /\ disk'.coinsDB = c
  <2> DEFINE i0 == disk.index
             f0 == disk.files
             c0 == disk.coinsDB
  <2>1. disk = [index |-> i0, files |-> f0, coinsDB |-> c0]
        /\ EntriesRight(i0) /\ FilesFit(f0) /\ DBRight(c)
    BY <1>3, <1>4, <1>6 DEF DiskRight
  <2> HIDE DEF i0, f0, c0
  <2>2. disk' = [index |-> i0, files |-> f0, coinsDB |-> c]
    BY <1>2, <2>1
  <2> QED
    BY <2>1, <2>2 DEF DiskRight, i0, f0
<1> QED
  BY <1>1, <1>4, <1>5, <1>6, <1>7 DEF ShutdownWritten

LEMMA ShutdownKeeps ==
  ASSUME ChainRight, Shutdown
  PROVE  ChainRight'
<1>1. /\ Stored /\ BestRight /\ ControlRight /\ LoseMemory /\ ShutdownWritten
      /\ pindexBest' = pindexBest /\ setBlockIndexValid' = setBlockIndexValid
  BY ShutdownIs DEF ChainRight, Shutdown
<1>2. Stored'
  BY <1>1 DEF Stored, ShutdownWritten
<1>3. stops' \in 0..MaxStops /\ unsynced' \in BOOLEAN
  <2>1. stops \in 0..MaxStops /\ unsynced \in BOOLEAN /\ MaxStops \in Nat
    BY <1>1, StateAssumption DEF ControlRight
  <2>2. stops' = stops \/ (stops' = stops + 1 /\ stops < MaxStops)
    BY DEF Shutdown
  <2> QED
    BY <1>1, <2>1, <2>2 DEF ShutdownWritten
<1> QED
  BY <1>1, <1>2, <1>3, LoseKeeps DEF ChainRight

LEMMA KillKeeps ==
  ASSUME ChainRight, Kill
  PROVE  ChainRight'
<1>1. /\ Stored /\ BestRight /\ ControlRight /\ LoseMemory
      /\ stops < MaxStops /\ stops' = stops + 1
      /\ coinsTip' = [cache |-> NoCache, best |-> coinsDB.best]
      /\ index' = index /\ setBlockIndexValid' = setBlockIndexValid /\ pindexBest' = pindexBest
      /\ files' = files /\ coinsDB' = coinsDB /\ disk' = disk /\ unsynced' = unsynced
  BY DEF ChainRight, Kill, durable
<1>2. TipFits(coinsTip', coinsDB')
  <2>1. DBRight(coinsDB)
    BY <1>1 DEF Stored
  <2> QED
    BY <1>1, <2>1, ThroughNothing
<1>3. Stored'
  BY <1>1, <1>2 DEF Stored
<1>4. stops' \in 0..MaxStops /\ unsynced' \in BOOLEAN
  <2>1. stops \in 0..MaxStops /\ unsynced \in BOOLEAN /\ MaxStops \in Nat
    BY <1>1, StateAssumption DEF ControlRight
  <2> QED
    BY <1>1, <2>1
<1> QED
  BY <1>1, <1>3, <1>4, LoseKeeps DEF ChainRight

LEMMA PowerLossKeeps ==
  ASSUME ChainRight, PowerLoss
  PROVE  ChainRight'
<1>1. /\ Stored /\ BestRight /\ ControlRight /\ LoseMemory
      /\ stops < MaxStops /\ stops' = stops + 1
      /\ coinsTip' = [cache |-> NoCache, best |-> coinsDB'.best]
      /\ index' = disk.index /\ files' = disk.files /\ coinsDB' = disk.coinsDB
      /\ setBlockIndexValid' = setBlockIndexValid /\ pindexBest' = pindexBest
      /\ disk' = disk /\ unsynced' = FALSE
  BY DEF ChainRight, PowerLoss
<1>2. DiskRight(disk) /\ DBRight(disk.coinsDB) /\ EntriesRight(disk.index) /\ FilesFit(disk.files)
  BY <1>1 DEF Stored, DiskRight
<1>3. TipFits(coinsTip', coinsDB')
  <2> DEFINE db == disk.coinsDB
  <2>1. DBRight(db) /\ coinsDB' = db
    BY <1>1, <1>2
  <2> HIDE DEF db
  <2> QED
    BY <1>1, <2>1, ThroughNothing
<1>4. Stored'
  BY <1>1, <1>2, <1>3 DEF Stored
<1>5. stops' \in 0..MaxStops /\ unsynced' \in BOOLEAN
  <2>1. stops \in 0..MaxStops /\ unsynced \in BOOLEAN /\ MaxStops \in Nat
    BY <1>1, StateAssumption DEF ControlRight
  <2>2. stops' \in 0..MaxStops
    BY <1>1, <2>1
  <2> QED
    BY <1>1, <2>2
<1> QED
  BY <1>1, <1>4, <1>5, LoseKeeps DEF ChainRight

LEMMA StartUpKeeps ==
  ASSUME ChainRight, StartUp
  PROVE  ChainRight'
<1>1. /\ Stored /\ BestRight /\ ControlRight /\ pc = "off"
      /\ setBlockIndexValid' = {b \in Known : index[b].failed = "no"}
      /\ pindexBest' = coinsDB.best
      /\ coinsTip' = [cache |-> NoCache, best |-> coinsDB.best]
      /\ pc' \in {"connect", "corrupt"} /\ (pc' = "connect" => coinsDB.best \in Known)
      /\ index' = index /\ files' = files /\ coinsDB' = coinsDB /\ disk' = disk
      /\ accepting' = accepting /\ vAttach' = vAttach
      /\ vWorkQueue' = vWorkQueue /\ mapOrphanBlocks' = mapOrphanBlocks
      /\ stops' = stops /\ unsynced' = unsynced
  BY DEF ChainRight, StartUp, durable, queueVars, count
<1>2. DBRight(coinsDB) /\ EntriesRight(index)
  BY <1>1 DEF Stored
<1>3. Stored' /\ Known' = Known
  <2>1. TipFits(coinsTip', coinsDB')
    BY <1>1, <1>2, ThroughNothing
  <2> QED
    BY <1>1, <2>1 DEF Stored, Known
<1>4. BestRight'
  <2>1. coinsDB.best \in Blocks /\ ValidChain[coinsDB.best] /\ Known \subseteq Blocks
    BY <1>2 DEF DBRight, EntriesRight, Known
  <2>2. coinsTip'.best = coinsDB.best
    BY <1>1
  <2> QED
    BY <1>1, <1>3, <2>1, <2>2 DEF BestRight, Serving, Running
<1>5. AttachRight'
  BY <1>1 DEF AttachRight
<1>6. ControlRight'
  BY <1>1, <1>3 DEF ControlRight, PCs
<1> QED
  BY <1>3, <1>4, <1>5, <1>6 DEF ChainRight

-----------------------------------------------------------------------------
(* The invariant *)

\* The steps that leave what is stored, the best block and the branch alone.
LEMMA OthersKeep ==
  ASSUME ChainRight, Serving,
         index' = index, setBlockIndexValid' = setBlockIndexValid, pindexBest' = pindexBest,
         coinsTip' = coinsTip, UNCHANGED durable, accepting' = accepting, vAttach' = vAttach,
         UNCHANGED count, ControlRight', pc' \in {"idle", "orphans"}
  PROVE  ChainRight'
<1>1. /\ Stored /\ BestRight
      /\ files' = files /\ coinsDB' = coinsDB /\ disk' = disk
  BY DEF ChainRight, durable
<1>2. Stored' /\ BestRight'
  BY <1>1, StoredKept, BestKept
<1>3. AttachRight'
  BY DEF AttachRight
<1> QED
  BY <1>2, <1>3 DEF ChainRight

LEMMA OrphanBlockKeeps ==
  ASSUME ChainRight, NEW b \in Blocks \ {Base}, ReceiveOrphanBlock(b)
  PROVE  ChainRight'
<1>1. /\ ControlRight /\ pc = "idle" /\ pc' = pc /\ Serving /\ b \notin Known
      /\ index' = index /\ setBlockIndexValid' = setBlockIndexValid /\ pindexBest' = pindexBest
      /\ coinsTip' = coinsTip /\ UNCHANGED durable /\ accepting' = accepting
      /\ vAttach' = vAttach /\ vWorkQueue' = vWorkQueue /\ UNCHANGED count
      /\ mapOrphanBlocks' = mapOrphanBlocks \cup {b}
  BY DEF ChainRight, ReceiveOrphanBlock, Serving, Running
<1>2. stops' = stops /\ unsynced' = unsynced /\ Known' = Known
  BY <1>1 DEF count, Known
<1>3. ControlRight'
  BY <1>1, <1>2 DEF ControlRight
<1> QED
  BY <1>1, <1>3, OthersKeep

LEMMA WorkQueueKeeps ==
  ASSUME ChainRight, NextInWorkQueue
  PROVE  ChainRight'
<1>1. /\ ControlRight /\ pc = "orphans" /\ pc' \in {"idle", "orphans"} /\ Serving
      /\ index' = index /\ setBlockIndexValid' = setBlockIndexValid /\ pindexBest' = pindexBest
      /\ coinsTip' = coinsTip /\ UNCHANGED durable /\ accepting' = accepting
      /\ vAttach' = vAttach /\ mapOrphanBlocks' = mapOrphanBlocks /\ UNCHANGED count
      /\ vWorkQueue = <<>> => vWorkQueue' = vWorkQueue
      /\ vWorkQueue # <<>> => vWorkQueue' = Tail(vWorkQueue) /\ pc' = pc
  BY DEF ChainRight, NextInWorkQueue, Serving, Running
<1>2. stops' = stops /\ unsynced' = unsynced /\ Known' = Known
  BY <1>1 DEF count, Known
<1>3. vWorkQueue' \in Seq(Known) /\ (pc' = "idle" => vWorkQueue' = <<>>)
  <2>1. vWorkQueue \in Seq(Known)
    BY <1>1 DEF ControlRight
  <2> HIDE DEF Known
  <2> QED
    BY <1>1, <2>1
<1>4. ControlRight'
  BY <1>1, <1>2, <1>3 DEF ControlRight, PCs
<1> QED
  BY <1>1, <1>4, OthersKeep

LEMMA TxKeeps ==
  ASSUME ChainRight, NEW t, ReceiveTx(t)
  PROVE  ChainRight'
<1>1. /\ ControlRight /\ pc = "idle" /\ pc' = pc /\ Serving
      /\ index' = index /\ setBlockIndexValid' = setBlockIndexValid /\ pindexBest' = pindexBest
      /\ coinsTip' = coinsTip /\ UNCHANGED durable /\ accepting' = accepting
      /\ vAttach' = vAttach /\ vWorkQueue' = vWorkQueue /\ mapOrphanBlocks' = mapOrphanBlocks
      /\ UNCHANGED count
  BY DEF ChainRight, ReceiveTx, Serving, Running, queueVars
<1>2. stops' = stops /\ unsynced' = unsynced /\ Known' = Known
  BY <1>1 DEF count, Known
<1>3. ControlRight'
  BY <1>1, <1>2 DEF ControlRight
<1> QED
  BY <1>1, <1>3, OthersKeep

LEMMA StutterKeeps ==
  ASSUME ChainRight, UNCHANGED vars
  PROVE  ChainRight'
<1>1. /\ index' = index /\ setBlockIndexValid' = setBlockIndexValid /\ pindexBest' = pindexBest
      /\ coinsTip' = coinsTip /\ files' = files /\ coinsDB' = coinsDB /\ disk' = disk
      /\ pc' = pc /\ accepting' = accepting /\ vAttach' = vAttach
      /\ vWorkQueue' = vWorkQueue /\ mapOrphanBlocks' = mapOrphanBlocks
      /\ stops' = stops /\ unsynced' = unsynced
  BY DEF vars, durable, queueVars, count
<1>2. Known' = Known
  BY <1>1 DEF Known
<1>3. Stored'
  BY <1>1, StoredKept DEF ChainRight
<1>4. BestRight'
  BY <1>1, <1>2 DEF ChainRight, BestRight, Serving, Running
<1>5. AttachRight'
  BY <1>1 DEF ChainRight, AttachRight, CanConnect, CanRead, CanLeave, Undoable
<1>6. ControlRight'
  BY <1>1, <1>2 DEF ChainRight, ControlRight
<1> QED
  BY <1>3, <1>4, <1>5, <1>6 DEF ChainRight

\* An orphan that is accepted is not known, and the one before it is.
LEMMA OrphanIsNext ==
  ASSUME ChainRight, NEW b \in Blocks, AcceptOrphanBlock(b)
  PROVE  /\ b \notin Known /\ Parent[b] \in Known /\ pc \in {"idle", "orphans"} /\ b # Base
         /\ vWorkQueue' = vWorkQueue /\ mapOrphanBlocks' = mapOrphanBlocks \ {b}
<1>1. /\ b \in OrphansLeft /\ pc = "orphans"
      /\ vWorkQueue' = vWorkQueue /\ mapOrphanBlocks' = mapOrphanBlocks \ {b}
  BY DEF AcceptOrphanBlock
<1>2. b \in mapOrphanBlocks /\ vWorkQueue # <<>> /\ Parent[b] = Head(vWorkQueue)
  BY <1>1 DEF OrphansLeft
<1>3. b \notin Known /\ Base \in Known
  BY <1>2 DEF ControlRight, ChainRight, Stored, EntriesRight, Known
<1>4. Parent[b] \in Known
  <2>1. vWorkQueue \in Seq(Known)
    BY DEF ChainRight, ControlRight
  <2> HIDE DEF Known
  <2>2. Head(vWorkQueue) \in Known
    BY <1>2, <2>1
  <2> QED
    BY <1>2, <2>2
<1> QED
  BY <1>1, <1>3, <1>4

LEMMA NextKeeps ==
  ASSUME ChainRight, [Next]_vars
  PROVE  ChainRight'
<1>0. InitialDownload \subseteq BOOLEAN /\ ControlRight
  BY StateAssumption DEF ChainRight
<1>1. ASSUME NEW b \in Blocks \ {Base}, ReceiveBlock(b) PROVE ChainRight'
  <2>1. PICK fIBD \in InitialDownload : AcceptBlock(b, fIBD)
    BY <1>1 DEF ReceiveBlock
  <2>2. /\ b \notin Known /\ Parent[b] \in Known /\ pc \in {"idle", "orphans"}
        /\ vWorkQueue' = vWorkQueue /\ mapOrphanBlocks' = mapOrphanBlocks \ {b}
    BY <1>1 DEF ReceiveBlock, queueVars
  <2>3. fIBD \in BOOLEAN
    BY <1>0
  <2> QED
    BY <2>1, <2>2, <2>3, AcceptKeeps
<1>2. ASSUME NEW b \in Blocks \ {Base}, ReceiveOrphanBlock(b) PROVE ChainRight'
  BY <1>2, OrphanBlockKeeps
<1>3. ASSUME NEW b \in Blocks \ {Base}, ReceiveKnownBlock(b) PROVE ChainRight'
  BY <1>3, StutterKeeps DEF ReceiveKnownBlock
<1>4. ASSUME NEW t \in Txs, ReceiveTx(t) PROVE ChainRight'
  BY <1>4, TxKeeps
<1>5. ASSUME NEW b \in Blocks, AcceptOrphanBlock(b) PROVE ChainRight'
  <2>1. PICK fIBD \in InitialDownload : AcceptBlock(b, fIBD)
    BY <1>5 DEF AcceptOrphanBlock
  <2>2. /\ b \notin Known /\ Parent[b] \in Known /\ pc \in {"idle", "orphans"} /\ b # Base
        /\ vWorkQueue' = vWorkQueue /\ mapOrphanBlocks' = mapOrphanBlocks \ {b}
    BY <1>5, OrphanIsNext
  <2>3. fIBD \in BOOLEAN
    BY <1>0
  <2> QED
    BY <2>1, <2>2, <2>3, AcceptKeeps
<1>6. ASSUME NextInWorkQueue PROVE ChainRight'
  BY <1>6, WorkQueueKeeps
<1>7. ASSUME ConnectBestDone PROVE ChainRight'
  BY <1>7, DoneKeeps
<1>8. ASSUME MarkDescendantsFailed PROVE ChainRight'
  BY <1>8, MarkKeeps
<1>9. ASSUME ConnectBestStart PROVE ChainRight'
  BY <1>9, StartKeeps
<1>10. ASSUME NEW fIBD \in InitialDownload, ConnectBranch(fIBD) PROVE ChainRight'
  BY <1>0, <1>10, BranchKeeps
<1>11. ASSUME Commit(TRUE) PROVE ChainRight'
  BY <1>11, CommitKeeps
<1>12. ASSUME Commit(FALSE) PROVE ChainRight'
  BY <1>12, CommitKeeps
<1>13. ASSUME Shutdown PROVE ChainRight'
  BY <1>13, ShutdownKeeps
<1>14. ASSUME Kill PROVE ChainRight'
  BY <1>14, KillKeeps
<1>15. ASSUME PowerLoss PROVE ChainRight'
  BY <1>15, PowerLossKeeps
<1>16. ASSUME StartUp PROVE ChainRight'
  BY <1>16, StartUpKeeps
<1>17. ASSUME UNCHANGED vars PROVE ChainRight'
  BY <1>17, StutterKeeps
<1>18. ASSUME NEW fIBD \in InitialDownload, WriteFails(fIBD) PROVE ChainRight'
  BY <1>0, <1>18, WriteFailsKeeps
<1>19. ASSUME NEW fSynced \in BOOLEAN, CommitFails(fSynced) PROVE ChainRight'
  BY <1>19, CommitFailsKeeps
<1> QED
  BY <1>1, <1>2, <1>3, <1>4, <1>5, <1>6, <1>7, <1>8, <1>9, <1>10, <1>11, <1>12, <1>13, <1>14,
     <1>15, <1>16, <1>17, <1>18, <1>19 DEF Next, Choose, SetBestChain

\* The coins of the chain of Base are those the node starts from.
LEMMA BaseUnspent ==
  /\ Unspent[Base] = [t \in TxIds |-> IF t \in BaseTxs THEN BaseCoins[t] ELSE NoCoins]
  /\ ValidChain[Base]
<1>1. Base \in Blocks /\ Chain[Base] = {Base} /\ Vtx[Base] = <<>>
  BY Chains, TreeAssumption, CoinsAssumption
<1>2. ToSet(Vtx[Base]) = {}
  BY <1>1 DEF ToSet
<1>3. ASSUME NEW t PROVE ~InChain(t, Base)
  BY <1>1, <1>2 DEF InChain
<1>4. ASSUME NEW o PROVE ~SpentInChain(o, Base)
  BY <1>1, <1>2 DEF SpentInChain
<1> DEFINE made(t) == IF InChain(t, Base) THEN CCoins(t, HeightInChain(t, Base))
                      ELSE IF t \in BaseTxs THEN BaseCoins[t] ELSE NoCoins
           left(t) == {n \in made(t).out : ~SpentInChain(<<t, n>>, Base)}
<1>5. Unspent[Base] = [t \in TxIds |-> IF left(t) = {} THEN NoCoins
                                       ELSE [made(t) EXCEPT !.out = left(t)]]
  BY <1>1 DEF Unspent
<1>6. ASSUME NEW t \in TxIds
      PROVE  (IF left(t) = {} THEN NoCoins ELSE [made(t) EXCEPT !.out = left(t)])
             = IF t \in BaseTxs THEN BaseCoins[t] ELSE NoCoins
  <2> DEFINE c == made(t)
             l == left(t)
  <2>1. c = IF t \in BaseTxs THEN BaseCoins[t] ELSE NoCoins
    BY <1>3
  <2>2. l = c.out
    BY <1>4
  <2> HIDE DEF c, l
  <2>3. CASE t \in BaseTxs
    <3>1. c \in [nHeight : Nat \ {0}, out : (SUBSET Nat) \ {{}}]
      BY <2>1, <2>3, CoinsAssumption
    <3>2. c = [nHeight |-> c.nHeight, out |-> c.out] /\ c.out # {}
      BY <3>1
    <3>3. [c EXCEPT !.out = l] = c
      BY <2>2, <3>2
    <3>4. (IF l = {} THEN NoCoins ELSE [c EXCEPT !.out = l]) = BaseCoins[t]
      BY <2>1, <2>2, <2>3, <3>2, <3>3
    <3> QED
      BY <2>3, <3>4 DEF c, l
  <2>4. CASE t \notin BaseTxs
    <3>1. l = {}
      BY <2>1, <2>2, <2>4 DEF NoCoins
    <3>2. (IF l = {} THEN NoCoins ELSE [c EXCEPT !.out = l]) = NoCoins
      BY <3>1
    <3> QED
      BY <2>4, <3>2 DEF c, l
  <2> QED
    BY <2>3, <2>4
<1>7. ValidChain[Base]
  BY <1>1 DEF ValidChain
<1> DEFINE F(t) == IF left(t) = {} THEN NoCoins ELSE [made(t) EXCEPT !.out = left(t)]
           G(t) == IF t \in BaseTxs THEN BaseCoins[t] ELSE NoCoins
<1>8. Unspent[Base] = [t \in TxIds |-> F(t)] /\ \A t \in TxIds : F(t) = G(t)
  BY <1>5, <1>6
<1> HIDE DEF F, made, left
<1>9. Unspent[Base] = [t \in TxIds |-> G(t)]
  BY <1>8
<1> QED
  BY <1>7, <1>9

LEMMA InitIsRight ==
  ASSUME Init
  PROVE  ChainRight
<1> DEFINE e == [NewStatus EXCEPT !.undo = TRUE]
           u == [b \in {Base} |-> <<>>]
           v == [t \in TxIds |-> IF t \in BaseTxs THEN BaseCoins[t] ELSE NoCoins]
<1>1. /\ index = [b \in {Base} |-> e] /\ setBlockIndexValid = {Base} /\ pindexBest = Base
      /\ files = [data |-> {Base}, undo |-> u]
      /\ coinsDB = [view |-> v, best |-> Base]
      /\ coinsTip = [cache |-> NoCache, best |-> Base]
      /\ disk = [index |-> index, files |-> files, coinsDB |-> coinsDB]
      /\ pc = "idle" /\ accepting = NoBlock /\ vAttach = <<>>
      /\ vWorkQueue = <<>> /\ mapOrphanBlocks = {} /\ stops = 0 /\ unsynced = FALSE
  BY DEF Init
<1>2. Base \in Blocks /\ ValidChain[Base] /\ Unspent[Base] = v
  BY BaseUnspent, TreeAssumption
<1>3. e \in Status /\ e.failed = "no"
  BY DEF NewStatus, Status
<1> HIDE DEF e, v
<1>4. Known = {Base} /\ index[Base] = e
  BY <1>1 DEF Known
<1>5. EntriesRight(index)
  BY <1>1, <1>2, <1>3, <1>4 DEF EntriesRight, Known
<1>6. FilesFit(files)
  <2>1. DOMAIN u = {Base}
    OBVIOUS
  <2> HIDE DEF u
  <2>2. files.data = {Base} /\ files.undo = u /\ files = [data |-> files.data, undo |-> files.undo]
    BY <1>1
  <2> QED
    BY <1>2, <2>1, <2>2 DEF FilesFit, FilesRight
<1>7. DBRight(coinsDB) /\ coinsDB.best = Base
  BY <1>1, <1>2 DEF DBRight
<1>8. DiskRight(disk)
  <2>1. /\ disk.index = index /\ disk.files = files /\ disk.coinsDB = coinsDB
        /\ disk = [index |-> disk.index, files |-> disk.files, coinsDB |-> disk.coinsDB]
    BY <1>1
  <2> QED
    BY <1>5, <1>6, <1>7, <2>1 DEF DiskRight
<1>9. TipFits(coinsTip, coinsDB) /\ coinsTip.best = Base
  BY <1>1, <1>7, ThroughNothing
<1>10. BestRight
  <2>1. {b \in {Base} : index[b].failed = "no"} = {Base}
    BY <1>3, <1>4
  <2> QED
    BY <1>1, <1>2, <1>4, <1>9, <2>1 DEF BestRight
<1>11. AttachRight
  BY <1>1 DEF AttachRight
<1>12. ControlRight
  <2>1. <<>> \in Seq(Known)
    OBVIOUS
  <2>2. 0 \in 0..MaxStops
    BY StateAssumption
  <2> QED
    BY <1>1, <2>1, <2>2 DEF ControlRight, PCs
<1> QED
  BY <1>5, <1>6, <1>7, <1>8, <1>9, <1>10, <1>11, <1>12 DEF ChainRight, Stored

\* The invariant: the coins in memory, in the database and on disk are those of the chain
\* of their best block, and nothing valid is marked as failed.
THEOREM ChainRightAlways == Spec => []ChainRight
<1>1. Init => ChainRight
  BY InitIsRight
<1>2. ChainRight /\ [Next]_vars => ChainRight'
  BY NextKeeps
<1> QED
  BY <1>1, <1>2, PTL DEF Spec

\* Whatever is reorganised, fails half-way, cannot be written, or is stopped: the coins in
\* memory, in the database and on disk are exactly those the chain up to their best block
\* leaves unspent; and those in memory have the best block of the node, until a failed write
\* makes it stop.  (DisconnectBlock, ConnectBlock, CCoinsViewCache)
THEOREM CoinsAlwaysFit == Spec => []CoinsAreThoseOfTheChain
<1>1. ASSUME ChainRight PROVE CoinsAreThoseOfTheChain
  <2>1. Stored /\ BestRight
    BY <1>1 DEF ChainRight
  <2>2. Normal(TipView) = Unspent[coinsTip.best]
    <3>1. TipRight /\ coinsTip.best \in Blocks
      BY <2>1, TipIs DEF Stored, TipFits
    <3>2. TipView \in Views /\ Same(TipView, Unspent[coinsTip.best])
      BY <3>1 DEF TipRight
    <3> QED
      BY <3>1, <3>2, NormalIs
  <2>5. Serving => coinsTip.best = pindexBest
    BY <2>1 DEF BestRight
  <2>3. DBRight(coinsDB) /\ DBRight(disk.coinsDB)
    BY <2>1 DEF Stored, DiskRight
  <2>4. coinsDB.view = Unspent[coinsDB.best] /\ disk.coinsDB.view = Unspent[disk.coinsDB.best]
    <3>1. ASSUME NEW db, DBRight(db) PROVE db.view = Unspent[db.best]
      BY <3>1, DBIs
    <3> QED
      BY <2>3, <3>1
  <2> QED
    BY <2>2, <2>4, <2>5 DEF CoinsAreThoseOfTheChain
<1> QED
  BY <1>1, ChainRightAlways, PTL

\* The best chain has no double spend and no missing or immature input, and only a block
\* whose chain has is ever marked as failed.  (ConnectBlock, InvalidBlockFound)
THEOREM VerdictsAlwaysRight == Spec => []VerdictsAreRight
<1>1. ChainRight => VerdictsAreRight
  BY DEF ChainRight, BestRight, Stored, EntriesRight, VerdictsAreRight, Known
<1> QED
  BY <1>1, ChainRightAlways, PTL

\* No step of a running node replaces the best block by one with as much work or less.
\* (SetBestChain)
THEOREM BestOnlyGetsBetter == Spec => BestOnlyImproves
<1>1. ASSUME ChainRight, [Next]_vars, Running, pindexBest' # pindexBest
      PROVE  nChainWork[pindexBest'] > nChainWork[pindexBest]
  <2>1. \E fFlush \in BOOLEAN : Commit(fFlush)
    BY <1>1 DEF Next, Choose, SetBestChain, ReceiveBlock, ReceiveOrphanBlock, ReceiveKnownBlock,
       AcceptBlock, ReceiveTx, AcceptOrphanBlock, NextInWorkQueue, ConnectBestDone,
       MarkDescendantsFailed, ConnectBestStart, ConnectBranch, WriteFails, CommitFails, Shutdown,
       Kill, PowerLoss, StartUp, Running, vars
  <2>2. PICK fFlush \in BOOLEAN : Commit(fFlush)
    BY <2>1
  <2>3. CommitWritten(fFlush)
    BY <1>1, <2>2, CommitIs
  <2> DEFINE new == Head(vAttach)
  <2>4. nChainWork[new] > nChainWork[pindexBest] /\ pindexBest' = new
    BY <2>3, Zenon DEF CommitWritten
  <2> HIDE DEF new
  <2> QED
    BY <2>4, Zenon
<1>2. ChainRight /\ [Next]_vars =>
        [(Running /\ pindexBest' # pindexBest) => nChainWork[pindexBest'] > nChainWork[pindexBest]]_vars
  BY <1>1
<1> QED
  BY <1>2, ChainRightAlways, PTL DEF Spec, BestOnlyImproves

-----------------------------------------------------------------------------
(* What is on disk *)

\* What the index says is there is in the files.
UndoThere(i, f) == \A b \in DOMAIN i : b \in f.data /\ (i[b].undo => b \in DOMAIN f.undo)

\* The chain of best can be read, and undone.
BestChainIn(best, i, f) ==
  /\ Chain[best] \subseteq DOMAIN i
  /\ \A b \in Chain[best] : i[b].undo /\ b \in f.data /\ b \in DOMAIN f.undo

\* The index on disk is never ahead of the one in memory, nor that of the files; and when
\* nothing has been left unsynced, the chain of the coins on disk is on disk.
OnDiskRight ==
  /\ Lags(disk.index, index)
  /\ UndoThere(index, files)
  /\ BestChainIn(coinsTip.best, index, files)
  /\ BestChainIn(coinsDB.best, index, files)
  /\ BestChainIn(disk.coinsDB.best, index, files)
  /\ pc = "commit" => BestChainIn(Head(vAttach), index, files)
  /\ ~unsynced => /\ disk.files = files
                  /\ BestChainIn(coinsTip.best, disk.index, disk.files)
                  /\ BestChainIn(coinsDB.best, disk.index, disk.files)
                  /\ BestChainIn(disk.coinsDB.best, disk.index, disk.files)

FilesGrow(f, g) == f.data \subseteq g.data /\ DOMAIN f.undo \subseteq DOMAIN g.undo

LEMMA LagsTransitive ==
  ASSUME NEW i, NEW j, NEW k, Lags(i, j), Lags(j, k)
  PROVE  Lags(i, k)
BY DEF Lags

LEMMA ChainInGrows ==
  ASSUME NEW best, NEW i, NEW j, NEW f, NEW h, BestChainIn(best, i, f), Lags(i, j), FilesGrow(f, h)
  PROVE  BestChainIn(best, j, h)
BY DEF BestChainIn, Lags, FilesGrow

\* Steps that only add to index and files, in memory and on disk, and leave the coins alone.
LEMMA GrowingKeeps ==
  ASSUME OnDiskRight,
         Lags(index, index'), FilesGrow(files, files'), UndoThere(index', files'),
         Lags(disk.index, disk'.index), Lags(disk'.index, index'),
         coinsTip'.best = coinsTip.best, coinsDB'.best = coinsDB.best,
         disk'.coinsDB = disk.coinsDB,
         ~unsynced' => ~unsynced /\ disk'.files = files',
         pc' = "commit" => BestChainIn(Head(vAttach'), index', files')
  PROVE  OnDiskRight'
<1> DEFINE a == coinsTip.best
           c == coinsDB.best
           d == disk.coinsDB.best
<1>1. BestChainIn(a, index, files) /\ BestChainIn(c, index, files) /\ BestChainIn(d, index, files)
  BY DEF OnDiskRight
<1>2. ~unsynced => /\ disk.files = files
                   /\ BestChainIn(a, disk.index, disk.files)
                   /\ BestChainIn(c, disk.index, disk.files)
                   /\ BestChainIn(d, disk.index, disk.files)
  BY DEF OnDiskRight
<1>3. coinsTip'.best = a /\ coinsDB'.best = c /\ disk'.coinsDB.best = d
  OBVIOUS
<1> HIDE DEF a, c, d
<1>4. /\ BestChainIn(a, index', files') /\ BestChainIn(c, index', files')
      /\ BestChainIn(d, index', files')
  BY <1>1, ChainInGrows
<1>5. ~unsynced' => /\ disk'.files = files'
                    /\ BestChainIn(a, disk'.index, disk'.files)
                    /\ BestChainIn(c, disk'.index, disk'.files)
                    /\ BestChainIn(d, disk'.index, disk'.files)
  <2> SUFFICES ASSUME ~unsynced'
               PROVE  /\ disk'.files = files'
                      /\ BestChainIn(a, disk'.index, disk'.files)
                      /\ BestChainIn(c, disk'.index, disk'.files)
                      /\ BestChainIn(d, disk'.index, disk'.files)
    OBVIOUS
  <2> DEFINE i == disk.index
             j == disk'.index
             f == disk.files
             h == disk'.files
  <2>1. BestChainIn(a, i, f) /\ BestChainIn(c, i, f) /\ BestChainIn(d, i, f)
        /\ Lags(i, j) /\ FilesGrow(f, h)
    BY <1>2
  <2> HIDE DEF i, j, f, h
  <2>2. BestChainIn(a, j, h) /\ BestChainIn(c, j, h) /\ BestChainIn(d, j, h)
    BY <2>1, ChainInGrows
  <2> QED
    BY <1>2, <2>2 DEF j, h
<1> QED
  BY <1>3, <1>4, <1>5 DEF OnDiskRight

LEMMA AcceptKeepsDisk ==
  ASSUME OnDiskRight, NEW b, b \notin Known, NEW fIBD \in BOOLEAN, AcceptWritten(b, fIBD)
  PROVE  OnDiskRight'
<1>1. /\ DOMAIN index' = DOMAIN index \cup {b} /\ index'[b] = NewStatus
      /\ \A c \in DOMAIN index : index'[c] = index[c]
      /\ files'.data = files.data \cup {b} /\ files'.undo = files.undo
      /\ disk'.index = disk.index \/ disk'.index = index'
      /\ unsynced' = (unsynced \/ fIBD)
      /\ ~fIBD => disk'.files = files'
      /\ coinsTip'.best = coinsTip.best /\ coinsDB'.best = coinsDB.best
      /\ disk'.coinsDB = disk.coinsDB /\ pc' = "connect"
  BY DEF AcceptWritten, Known
<1>2. Lags(disk.index, index) /\ UndoThere(index, files)
  BY DEF OnDiskRight
<1>3. Lags(index, index') /\ FilesGrow(files, files')
  BY <1>1 DEF Lags, FilesGrow
<1>4. UndoThere(index', files')
  <2>1. ~NewStatus.undo
    BY DEF NewStatus
  <2> QED
    BY <1>1, <1>2, <2>1 DEF UndoThere
<1>5. Lags(disk.index, index') /\ Lags(index', index') /\ Lags(disk.index, disk.index)
  BY <1>2, <1>3, LagsTransitive DEF Lags
<1>6. Lags(disk.index, disk'.index) /\ Lags(disk'.index, index')
  BY <1>1, <1>5
<1>7. ~unsynced' => ~unsynced /\ disk'.files = files'
  BY <1>1
<1> QED
  BY <1>1, <1>3, <1>4, <1>6, <1>7, GrowingKeeps

LEMMA BranchKeepsDisk ==
  ASSUME ChainRight, OnDiskRight, NEW fIBD \in BOOLEAN,
         pc = "set", BranchWritten(fIBD), BranchEnds
  PROVE  OnDiskRight'
<1>1. /\ DOMAIN index' = DOMAIN index
      /\ \A b \in DOMAIN index : /\ index[b].undo => index'[b].undo
                                 /\ index'[b].undo => index[b].undo \/ b \in DOMAIN files'.undo
      /\ files'.data = files.data /\ DOMAIN files.undo \subseteq DOMAIN files'.undo
      /\ disk'.index = disk.index \/ (Lags(index, disk'.index) /\ Lags(disk'.index, index'))
      /\ unsynced' = (unsynced \/ fIBD)
      /\ ~fIBD => disk'.files = files'
      /\ coinsTip'.best = coinsTip.best /\ coinsDB'.best = coinsDB.best
      /\ disk'.coinsDB = disk.coinsDB
  BY DEF BranchWritten, Known
<1>2. Lags(disk.index, index) /\ UndoThere(index, files) /\ BestChainIn(coinsTip.best, index, files)
  BY DEF OnDiskRight
<1>3. Lags(index, index') /\ FilesGrow(files, files')
  BY <1>1 DEF Lags, FilesGrow
<1>4. UndoThere(index', files')
  BY <1>1, <1>2 DEF UndoThere
<1>5. Lags(disk.index, disk'.index) /\ Lags(disk'.index, index')
  <2> DEFINE i == disk.index
             j == disk'.index
  <2>1. Lags(i, index) /\ Lags(i, i) /\ (j = i \/ (Lags(index, j) /\ Lags(j, index')))
    BY <1>1, <1>2 DEF Lags
  <2> HIDE DEF i, j
  <2>2. Lags(i, j) /\ Lags(j, index')
    BY <1>3, <2>1, LagsTransitive
  <2> QED
    BY <2>2 DEF i, j
<1>6. ~unsynced' => ~unsynced /\ disk'.files = files'
  BY <1>1
<1>7. ASSUME pc' = "commit" PROVE BestChainIn(Head(vAttach'), index', files')
  <2>1. /\ CanRead(Head(vAttach)) /\ vAttach' = vAttach
        /\ \A b \in Chain[Head(vAttach)] \ Chain[coinsTip.best] : index'[b].undo
    <3>1. Return(FALSE) => pc' # "commit"
      BY DEF Return
    <3> QED
      BY <1>7, <3>1 DEF BranchEnds, CanConnect
  <2> DEFINE new == Head(vAttach)
             tip == coinsTip.best
  <2>2. new \in DOMAIN index
    <3>1. vAttach \in Seq(Known) /\ vAttach # <<>>
      BY DEF ChainRight, AttachRight, ControlRight
    <3> HIDE DEF Known
    <3>2. Head(vAttach) \in Known
      BY <3>1
    <3> QED
      BY <3>2 DEF Known
  <2>3. EntriesRight(index)
    BY DEF ChainRight, Stored
  <2> HIDE DEF new
  <2>4. Chain[new] \subseteq DOMAIN index
    BY <2>2, <2>3, ChainIsKnown
  <2>5. BestChainIn(tip, index', files')
    BY <1>2, <1>3, ChainInGrows
  <2>6. \A b \in Chain[new] \ Chain[tip] : index'[b].undo /\ b \in files.data
    BY <2>1 DEF CanRead, new
  <2> HIDE DEF tip
  <2>7. \A b \in Chain[new] : index'[b].undo /\ b \in files'.data /\ b \in DOMAIN files'.undo
    <3>1. \A b \in Chain[new] \cap Chain[tip] :
            index'[b].undo /\ b \in files'.data /\ b \in DOMAIN files'.undo
      BY <2>5 DEF BestChainIn
    <3>2. \A b \in Chain[new] \ Chain[tip] :
            index'[b].undo /\ b \in files'.data /\ b \in DOMAIN files'.undo
      BY <1>1, <1>4, <2>4, <2>6 DEF UndoThere
    <3> QED
      BY <3>1, <3>2
  <2>8. BestChainIn(new, index', files')
    BY <1>1, <2>4, <2>7 DEF BestChainIn
  <2> QED
    BY <2>1, <2>8 DEF new
<1> QED
  BY <1>1, <1>3, <1>4, <1>5, <1>6, <1>7, GrowingKeeps

LEMMA MarkKeepsDisk ==
  ASSUME ChainRight, OnDiskRight,
         MarkDescendantsFailed
  PROVE  OnDiskRight'
<1>1. /\ DOMAIN index' = DOMAIN index
      /\ \A b \in DOMAIN index : index'[b].undo = index[b].undo
      /\ disk'.files = disk.files /\ disk'.coinsDB = disk.coinsDB
      /\ \/ disk'.index = disk.index
         \/ /\ DOMAIN disk'.index = DOMAIN index
            /\ \A b \in DOMAIN index : disk'.index[b].undo = index[b].undo
  BY MarkKeeps DEF Known
<1>2. /\ coinsTip' = coinsTip /\ files' = files /\ coinsDB' = coinsDB
      /\ pc' = "connect" /\ unsynced' = unsynced
  BY DEF MarkDescendantsFailed, count
<1>3. Lags(disk.index, index) /\ UndoThere(index, files) /\ (~unsynced => disk.files = files)
  BY DEF OnDiskRight
<1>4. Lags(index, index') /\ FilesGrow(files, files') /\ UndoThere(index', files')
  BY <1>1, <1>2, <1>3 DEF Lags, FilesGrow, UndoThere
<1>5. Lags(disk.index, disk'.index) /\ Lags(disk'.index, index')
  <2> DEFINE i == disk.index
             j == disk'.index
  <2>1. Lags(i, index) /\ Lags(i, i) /\ (j = i \/ (Lags(index, j) /\ Lags(j, index')))
    BY <1>1, <1>3 DEF Lags
  <2> HIDE DEF i, j
  <2>2. Lags(i, j) /\ Lags(j, index')
    BY <1>4, <2>1, LagsTransitive
  <2> QED
    BY <2>2 DEF i, j
<1> QED
  BY <1>1, <1>2, <1>3, <1>4, <1>5, GrowingKeeps

\* Steps that do not touch what is stored.
LEMMA StoredStays ==
  ASSUME OnDiskRight, index' = index, files' = files, disk' = disk, coinsTip' = coinsTip,
         coinsDB' = coinsDB, unsynced' = unsynced,
         pc' = "commit" => pc = "commit" /\ vAttach' = vAttach
  PROVE  OnDiskRight'
BY DEF OnDiskRight

LEMMA CommitKeepsDisk ==
  ASSUME OnDiskRight, NEW fFlush \in BOOLEAN, pc = "commit", CommitWritten(fFlush), pc' # "commit"
  PROVE  OnDiskRight'
<1> DEFINE new == Head(vAttach)
<1>1. /\ Lags(disk.index, index) /\ UndoThere(index, files)
      /\ BestChainIn(new, index, files) /\ BestChainIn(coinsDB.best, index, files)
      /\ BestChainIn(disk.coinsDB.best, index, files)
  BY DEF OnDiskRight
<1>2. /\ coinsTip'.best = new /\ index' = index /\ files' = files /\ unsynced' = ~fFlush
  BY DEF CommitWritten
<1>3. CASE fFlush
  <2>1. /\ coinsDB'.best = new /\ disk'.index = index /\ disk'.files = files
        /\ disk'.coinsDB = disk.coinsDB \/ disk'.coinsDB = coinsDB'
    BY <1>3 DEF CommitWritten
  <2>2. BestChainIn(disk'.coinsDB.best, index, files) /\ BestChainIn(coinsDB'.best, index, files)
    BY <1>1, <2>1
  <2>3. Lags(disk'.index, index')
    BY <1>2, <2>1 DEF Lags
  <2> HIDE DEF new
  <2> QED
    BY <1>1, <1>2, <2>1, <2>2, <2>3 DEF OnDiskRight
<1>4. CASE ~fFlush
  <2>1. coinsDB' = coinsDB /\ disk' = disk /\ unsynced'
    BY <1>2, <1>4 DEF CommitWritten
  <2> HIDE DEF new
  <2> QED
    BY <1>1, <1>2, <2>1 DEF OnDiskRight
<1> QED
  BY <1>3, <1>4

\* What fails after the sync leaves the new coins in memory, and what they need on disk.
LEMMA CommitFailsKeepsDisk ==
  ASSUME OnDiskRight, NEW fSynced \in BOOLEAN, pc = "commit", FailWritten(fSynced)
  PROVE  OnDiskRight'
<1> DEFINE new == Head(vAttach)
<1>1. /\ Lags(disk.index, index) /\ UndoThere(index, files)
      /\ BestChainIn(new, index, files) /\ BestChainIn(coinsDB.best, index, files)
      /\ BestChainIn(disk.coinsDB.best, index, files)
  BY DEF OnDiskRight
<1>2. /\ coinsTip'.best = new /\ index' = index /\ files' = files /\ coinsDB' = coinsDB
      /\ unsynced' = ~fSynced /\ pc' # "commit"
      /\ fSynced => disk'.index = index /\ disk'.files = files /\ disk'.coinsDB = disk.coinsDB
      /\ ~fSynced => disk' = disk
  BY DEF FailWritten
<1>3. Lags(index, index)
  BY DEF Lags
<1> HIDE DEF new
<1> QED
  BY <1>1, <1>2, <1>3 DEF OnDiskRight

LEMMA WriteFailsKeepsDisk ==
  ASSUME OnDiskRight, NEW fIBD \in BOOLEAN, BranchWritten(fIBD), pc' = "stopping"
  PROVE  OnDiskRight'
<1>1. /\ DOMAIN index' = DOMAIN index
      /\ \A b \in DOMAIN index : /\ index[b].undo => index'[b].undo
                                 /\ index'[b].undo => index[b].undo \/ b \in DOMAIN files'.undo
      /\ files'.data = files.data /\ DOMAIN files.undo \subseteq DOMAIN files'.undo
      /\ disk'.index = disk.index \/ (Lags(index, disk'.index) /\ Lags(disk'.index, index'))
      /\ unsynced' = (unsynced \/ fIBD)
      /\ ~fIBD => disk'.files = files'
      /\ coinsTip'.best = coinsTip.best /\ coinsDB'.best = coinsDB.best
      /\ disk'.coinsDB = disk.coinsDB
  BY DEF BranchWritten, Known
<1>2. Lags(disk.index, index) /\ UndoThere(index, files)
  BY DEF OnDiskRight
<1>3. Lags(index, index') /\ FilesGrow(files, files')
  BY <1>1 DEF Lags, FilesGrow
<1>4. UndoThere(index', files')
  BY <1>1, <1>2 DEF UndoThere
<1>5. Lags(disk.index, disk'.index) /\ Lags(disk'.index, index')
  <2> DEFINE i == disk.index
             j == disk'.index
  <2>1. Lags(i, index) /\ Lags(i, i) /\ (j = i \/ (Lags(index, j) /\ Lags(j, index')))
    BY <1>1, <1>2 DEF Lags
  <2> HIDE DEF i, j
  <2>2. Lags(i, j) /\ Lags(j, index')
    BY <1>3, <2>1, LagsTransitive
  <2> QED
    BY <2>2 DEF i, j
<1>6. ~unsynced' => ~unsynced /\ disk'.files = files'
  BY <1>1
<1> QED
  BY <1>1, <1>3, <1>4, <1>5, <1>6, GrowingKeeps

LEMMA ShutdownKeepsDisk ==
  ASSUME OnDiskRight, ShutdownWritten, pc' = "off"
  PROVE  OnDiskRight'
<1>1. /\ coinsDB'.best = coinsTip.best /\ coinsTip'.best = coinsTip.best
      /\ disk'.index = disk.index /\ disk'.files = disk.files
      /\ disk'.coinsDB = disk.coinsDB \/ disk'.coinsDB = coinsDB'
      /\ index' = index /\ files' = files /\ unsynced' = unsynced
  BY DEF ShutdownWritten
<1>2. BestChainIn(disk'.coinsDB.best, index, files)
  BY <1>1 DEF OnDiskRight
<1>3. ~unsynced => BestChainIn(disk'.coinsDB.best, disk.index, disk.files)
  BY <1>1 DEF OnDiskRight
<1> QED
  BY <1>1, <1>2, <1>3 DEF OnDiskRight

\* The cache goes: the coins are those of the database.
LEMMA CacheGoneKeepsDisk ==
  ASSUME OnDiskRight, coinsTip'.best = coinsDB.best, coinsDB' = coinsDB, index' = index,
         files' = files, disk' = disk, unsynced' = unsynced, pc' # "commit"
  PROVE  OnDiskRight'
BY DEF OnDiskRight

LEMMA PowerLossKeepsDisk ==
  ASSUME OnDiskRight, ~LossInDownload, PowerLoss
  PROVE  OnDiskRight'
<1>1. /\ ~unsynced /\ index' = disk.index /\ files' = disk.files /\ coinsDB' = disk.coinsDB
      /\ coinsTip'.best = disk.coinsDB.best /\ disk' = disk /\ pc' = "off"
  BY DEF PowerLoss, LoseMemory
<1>2. /\ Lags(disk.index, index) /\ UndoThere(index, files) /\ disk.files = files
      /\ BestChainIn(disk.coinsDB.best, disk.index, disk.files)
  BY <1>1 DEF OnDiskRight
<1>3. UndoThere(disk.index, files)
  BY <1>2 DEF UndoThere, Lags
<1>4. Lags(disk.index, disk.index)
  BY DEF Lags
<1> QED
  BY <1>1, <1>2, <1>3, <1>4 DEF OnDiskRight

\* The start finds everything VerifyDB asks for.
LEMMA StartUpSucceeds ==
  ASSUME ChainRight, OnDiskRight, StartUp
  PROVE  pc' = "connect"
<1>1. DBRight(coinsDB) /\ FilesRight(files)
  BY DEF ChainRight, Stored, FilesFit
<1>2. BestChainIn(coinsDB.best, index, files)
  BY DEF OnDiskRight
<1>3. coinsDB.best \in Blocks /\ ValidChain[coinsDB.best] /\ coinsDB.view = Unspent[coinsDB.best]
  BY <1>1, DBIs DEF DBRight
<1>4. coinsDB.best \in Known
  <2> DEFINE best == coinsDB.best
  <2>1. best \in Blocks /\ BestChainIn(best, index, files)
    BY <1>2, <1>3
  <2> HIDE DEF best
  <2>2. best \in Chain[best]
    BY <2>1, Ancestors
  <2> QED
    BY <2>1, <2>2 DEF BestChainIn, Known, best
<1>5. VerifyDB
  <2>1. \A b \in Chain[coinsDB.best] \ {Base} : Undoable(b)
    BY <1>2 DEF BestChainIn, Undoable
  <2> QED
    BY <1>1, <1>3, <2>1, VerifyDBIs
<1> QED
  BY <1>4, <1>5 DEF StartUp

LEMMA NextKeepsDisk ==
  ASSUME ~LossInDownload,
         ChainRight, OnDiskRight, pc # "corrupt", [Next]_vars
  PROVE  OnDiskRight' /\ pc' # "corrupt"
<1>0. InitialDownload \subseteq BOOLEAN /\ ControlRight
  BY StateAssumption DEF ChainRight
<1>1. ASSUME NEW b \in Blocks \ {Base}, b \notin Known, Parent[b] \in Known,
             pc \in {"idle", "orphans"},
             vWorkQueue' = vWorkQueue, mapOrphanBlocks' = mapOrphanBlocks \ {b},
             NEW fIBD \in InitialDownload, AcceptBlock(b, fIBD)
      PROVE  OnDiskRight' /\ pc' # "corrupt"
  <2>1. fIBD \in BOOLEAN
    BY <1>0
  <2>2. AcceptWritten(b, fIBD)
    BY <1>1, <2>1, AcceptKeeps
  <2>3. OnDiskRight'
    BY <1>1, <2>1, <2>2, AcceptKeepsDisk
  <2> QED
    BY <2>2, <2>3 DEF AcceptWritten
<1> DEFINE Untouched == /\ index' = index /\ files' = files /\ disk' = disk /\ coinsTip' = coinsTip
                        /\ coinsDB' = coinsDB /\ unsynced' = unsynced
<1>2. ASSUME Untouched, pc' = "commit" => pc = "commit" /\ vAttach' = vAttach, pc' # "corrupt"
      PROVE  OnDiskRight' /\ pc' # "corrupt"
  BY <1>2, StoredStays
<1>3. ASSUME NEW b \in Blocks \ {Base}, ReceiveBlock(b) PROVE OnDiskRight' /\ pc' # "corrupt"
  <2>1. PICK fIBD \in InitialDownload : AcceptBlock(b, fIBD)
    BY <1>3 DEF ReceiveBlock
  <2>2. /\ b \notin Known /\ Parent[b] \in Known /\ pc \in {"idle", "orphans"}
        /\ vWorkQueue' = vWorkQueue /\ mapOrphanBlocks' = mapOrphanBlocks \ {b}
    BY <1>3 DEF ReceiveBlock, queueVars
  <2> QED
    BY <1>1, <2>1, <2>2
<1>4. ASSUME NEW b \in Blocks, AcceptOrphanBlock(b) PROVE OnDiskRight' /\ pc' # "corrupt"
  <2>1. PICK fIBD \in InitialDownload : AcceptBlock(b, fIBD)
    BY <1>4 DEF AcceptOrphanBlock
  <2>2. /\ b \notin Known /\ Parent[b] \in Known /\ pc \in {"idle", "orphans"} /\ b # Base
        /\ vWorkQueue' = vWorkQueue /\ mapOrphanBlocks' = mapOrphanBlocks \ {b}
    BY <1>4, OrphanIsNext
  <2> QED
    BY <1>1, <2>1, <2>2
<1>5. ASSUME NEW b \in Blocks \ {Base}, ReceiveOrphanBlock(b) PROVE OnDiskRight' /\ pc' # "corrupt"
  BY <1>2, <1>5 DEF ReceiveOrphanBlock, durable, count
<1>6. ASSUME NEW t \in Txs, ReceiveTx(t) PROVE OnDiskRight' /\ pc' # "corrupt"
  BY <1>2, <1>6 DEF ReceiveTx, durable, count
<1>7. ASSUME NextInWorkQueue PROVE OnDiskRight' /\ pc' # "corrupt"
  BY <1>2, <1>7 DEF NextInWorkQueue, durable, count
<1>8. ASSUME ConnectBestDone PROVE OnDiskRight' /\ pc' # "corrupt"
  BY <1>2, <1>8 DEF ConnectBestDone, Return, durable, count
<1>9. ASSUME MarkDescendantsFailed PROVE OnDiskRight' /\ pc' # "corrupt"
  BY <1>9, MarkKeepsDisk DEF MarkDescendantsFailed
<1>10. ASSUME ConnectBestStart PROVE OnDiskRight' /\ pc' # "corrupt"
  BY <1>2, <1>10 DEF ConnectBestStart, durable, count
<1>11. ASSUME NEW fIBD \in InitialDownload, ConnectBranch(fIBD)
       PROVE  OnDiskRight' /\ pc' # "corrupt"
  <2>1. fIBD \in BOOLEAN /\ pc = "set"
    BY <1>0, <1>11 DEF ConnectBranch
  <2>2. BranchWritten(fIBD) /\ BranchEnds
    BY <1>11, <2>1, BranchIs
  <2>3. pc' # "corrupt"
    BY <2>2 DEF BranchEnds, Return
  <2> QED
    BY <2>1, <2>2, <2>3, BranchKeepsDisk
<1>12. ASSUME NEW fFlush \in BOOLEAN, Commit(fFlush) PROVE OnDiskRight' /\ pc' # "corrupt"
  <2>1. pc = "commit" /\ pc' # "commit" /\ pc' # "corrupt"
    BY <1>12 DEF Commit, Return
  <2>2. CommitWritten(fFlush)
    BY <1>12, CommitIs
  <2> QED
    BY <2>1, <2>2, CommitKeepsDisk
<1>13. ASSUME Shutdown PROVE OnDiskRight' /\ pc' # "corrupt"
  <2>1. pc' = "off"
    BY <1>13 DEF Shutdown, LoseMemory
  <2> QED
    BY <1>13, <2>1, ShutdownIs, ShutdownKeepsDisk
<1>14. ASSUME Kill PROVE OnDiskRight' /\ pc' # "corrupt"
  BY <1>14, CacheGoneKeepsDisk DEF Kill, LoseMemory, durable
<1>15. ASSUME PowerLoss PROVE OnDiskRight' /\ pc' # "corrupt"
  BY <1>15, PowerLossKeepsDisk DEF PowerLoss, LoseMemory
<1>16. ASSUME StartUp PROVE OnDiskRight' /\ pc' # "corrupt"
  <2>1. pc' = "connect"
    BY <1>16, StartUpSucceeds
  <2> QED
    BY <1>16, <2>1, CacheGoneKeepsDisk DEF StartUp, durable, count
<1>17. ASSUME UNCHANGED vars PROVE OnDiskRight' /\ pc' # "corrupt"
  BY <1>2, <1>17 DEF vars, durable, count
<1>18. ASSUME NEW b \in Blocks \ {Base}, ReceiveKnownBlock(b) PROVE OnDiskRight' /\ pc' # "corrupt"
  BY <1>17, <1>18 DEF ReceiveKnownBlock
<1>19. ASSUME NEW fIBD \in InitialDownload, WriteFails(fIBD)
       PROVE  OnDiskRight' /\ pc' # "corrupt"
  <2>1. fIBD \in BOOLEAN /\ pc' = "stopping"
    BY <1>0, <1>19 DEF WriteFails
  <2> QED
    BY <1>19, <2>1, WriteFailsIs, WriteFailsKeepsDisk
<1>20. ASSUME NEW fSynced \in BOOLEAN, CommitFails(fSynced)
       PROVE  OnDiskRight' /\ pc' # "corrupt"
  <2>1. pc = "commit" /\ pc' = "stopping"
    BY <1>20 DEF CommitFails
  <2> QED
    BY <1>20, <2>1, CommitFailsIs, CommitFailsKeepsDisk
<1> QED
  BY <1>3, <1>4, <1>5, <1>6, <1>7, <1>8, <1>9, <1>10, <1>11, <1>12, <1>13, <1>14, <1>15, <1>16,
     <1>17, <1>18, <1>19, <1>20 DEF Next, Choose, SetBestChain

LEMMA InitIsOnDisk ==
  ASSUME Init
  PROVE  OnDiskRight /\ pc # "corrupt"
<1> DEFINE e == [NewStatus EXCEPT !.undo = TRUE]
           u == [b \in {Base} |-> <<>>]
<1>1. /\ index = [b \in {Base} |-> e] /\ files = [data |-> {Base}, undo |-> u]
      /\ coinsDB.best = Base /\ coinsTip.best = Base
      /\ disk = [index |-> index, files |-> files, coinsDB |-> coinsDB]
      /\ pc = "idle"
  BY DEF Init
<1>2. e.undo /\ DOMAIN u = {Base}
  BY DEF NewStatus
<1> HIDE DEF e, u
<1>3. /\ DOMAIN index = {Base} /\ index[Base].undo /\ files.data = {Base} /\ DOMAIN files.undo = {Base}
      /\ disk.index = index /\ disk.files = files /\ disk.coinsDB.best = Base
  BY <1>1, <1>2
<1>4. Chain[Base] = {Base}
  BY Chains, TreeAssumption
<1>5. BestChainIn(Base, index, files) /\ UndoThere(index, files) /\ Lags(index, index)
  BY <1>3, <1>4 DEF BestChainIn, UndoThere, Lags
<1> QED
  BY <1>1, <1>3, <1>5 DEF OnDiskRight

\* A node that loses power only when the download has left nothing unsynced keeps the chain of
\* its coins on disk.
THEOREM OnDiskAlways == ASSUME ~LossInDownload PROVE Spec => [](OnDiskRight /\ pc # "corrupt")
<1>1. Init => OnDiskRight /\ pc # "corrupt"
  BY InitIsOnDisk, TreeAssumption
<1>2. ChainRight /\ (OnDiskRight /\ pc # "corrupt") /\ [Next]_vars
        => (OnDiskRight /\ pc # "corrupt")'
  BY NextKeepsDisk
<1> QED
  BY <1>1, <1>2, ChainRightAlways, PTL DEF Spec

\* Unless the initial download has left something unsynced, whenever the power fails the best
\* block of the coin database is in the index, and the blocks of its chain and their undo data
\* are on disk.  (SetBestChain)
THEOREM ChainAlwaysOnDisk == ASSUME ~LossInDownload PROVE Spec => []SyncedChainOnDisk
<1>1. OnDiskRight => SyncedChainOnDisk
  BY DEF OnDiskRight, BestChainIn, SyncedChainOnDisk, BestChainOnDisk
<1> QED
  BY <1>1, OnDiskAlways, PTL

\* Whenever and however often the node is stopped, interrupted, killed or loses power, VerifyDB
\* finds the database as it should be at the next start.
THEOREM DatabaseNeverCorrupt == ASSUME ~LossInDownload PROVE Spec => []NeverCorrupt
BY OnDiskAlways, PTL DEF NeverCorrupt

-----------------------------------------------------------------------------
(* The most work, and the orphans *)

\* A block that need not be looked at: it has no more work, or its chain has failed.
Worse(b) == nChainWork[b] <= nChainWork[pindexBest] \/ \E c \in Chain[b] : index[c].failed # "no"

\* Between two blocks there is nothing better, while one is connected nothing but that one;
\* at the start of the program the last block of the branch is the best there is.
WorkRight ==
  /\ pc \in {"idle", "orphans"} => \A b \in Known : Worse(b)
  /\ pc \in {"connect", "set", "commit"} /\ accepting # NoBlock
       => \A b \in Known \ {accepting} : Worse(b)
  /\ pc \in {"set", "commit"} /\ accepting # NoBlock => vAttach = <<accepting>>
  /\ pc \in {"set", "commit"} /\ accepting = NoBlock =>
       \A b \in setBlockIndexValid : nChainWork[b] <= nChainWork[vAttach[Len(vAttach)]]

\* An orphan whose predecessor is known will be looked at, or is not valid.
OrphansRight ==
  \A b \in mapOrphanBlocks : Parent[b] \in Known =>
    \/ \E i \in 1..Len(vWorkQueue) : Parent[b] = vWorkQueue[i]
    \/ Parent[b] = accepting
    \/ ~ValidChain[Parent[b]]

\* With what the start of the program and every step finds on disk, any block can be gone to.
LEMMA AllReadable ==
  ASSUME EntriesRight(index), OnDiskRight, NEW new \in Known
  PROVE  CanRead(new)
<1>1. Chain[new] \subseteq DOMAIN index
  BY ChainIsKnown DEF Known
<1>2. BestChainIn(coinsTip.best, index, files) /\ UndoThere(index, files)
  BY DEF OnDiskRight
<1> QED
  BY <1>1, <1>2 DEF CanRead, CanLeave, Undoable, BestChainIn, UndoThere

LEMMA WorseStays ==
  ASSUME EntriesRight(index),
         \A c \in Known : index[c].failed # "no" => index'[c].failed # "no",
         pindexBest \in Blocks, pindexBest' \in Blocks,
         nChainWork[pindexBest] <= nChainWork[pindexBest'],
         NEW b \in Known, Worse(b)
  PROVE  nChainWork[b] <= nChainWork[pindexBest'] \/ \E c \in Chain[b] : index'[c].failed # "no"
<1>1. CASE nChainWork[b] <= nChainWork[pindexBest]
  <2>1. b \in Blocks
    BY DEF EntriesRight, Known
  <2> DEFINE x == nChainWork[b]
             y == nChainWork[pindexBest]
             z == nChainWork[pindexBest']
  <2>2. x \in Nat /\ y \in Nat /\ z \in Nat /\ x <= y /\ y <= z
    BY <1>1, <2>1, Works
  <2> HIDE DEF x, y, z
  <2>3. x <= z
    BY <2>2
  <2> QED
    BY <2>3 DEF x, z
<1>2. CASE \E c \in Chain[b] : index[c].failed # "no"
  <2>1. Chain[b] \subseteq Known
    BY ChainIsKnown DEF Known
  <2> QED
    BY <1>2, <2>1
<1> QED
  BY <1>1, <1>2 DEF Worse

\* When nothing on the walk down from the candidate has failed, nothing of its chain has.
LEMMA NothingFailed ==
  ASSUME EntriesRight(index), BestRight, Running,
         FailedBelow(Candidate) = {}
  PROVE  \A c \in Chain[Candidate] : index[c].failed = "no"
<1> DEFINE b == Candidate
<1>1. b \in Known /\ b \in Blocks
  BY CandidateIsBetter
<1>2. pindexBest \in Blocks /\ ValidChain[pindexBest]
  BY DEF BestRight
<1> HIDE DEF b
<1> SUFFICES ASSUME NEW c \in Chain[b], index[c].failed # "no" PROVE FALSE
  BY DEF b
<1>3. Chain[b] \subseteq Known /\ Chain[b] \subseteq Blocks /\ ~ValidChain[c]
  <2>1. Chain[b] \subseteq Known
    BY <1>1, ChainIsKnown DEF Known
  <2> QED
    BY <1>1, <2>1, Ancestors DEF EntriesRight, Known
<1>4. c \notin Walk(b)
  BY DEF FailedBelow, b
<1>5. PICK d \in Chain[b] : HasNext(d) /\ ~(nHeight[d] <= nHeight[c])
  BY <1>4 DEF Walk
<1>6. d \in Chain[pindexBest]
  BY <1>2, <1>5, Ancestors DEF HasNext
<1>7. c \in Chain[d]
  <2>1. nHeight[c] \in Nat /\ nHeight[d] \in Nat /\ c \in Blocks /\ d \in Blocks
    BY <1>3, Heights
  <2>2. nHeight[c] <= nHeight[d]
    BY <1>5, <2>1
  <2> QED
    BY <1>1, <2>1, <2>2, ChainOrder
<1>8. c \in Chain[pindexBest]
  BY <1>2, <1>6, <1>7, Ancestors
<1> QED
  BY <1>2, <1>3, <1>8, ValidGrows

LEMMA StartKeepsWork ==
  ASSUME ChainRight, WorkRight, ConnectBestStart
  PROVE  WorkRight'
<1> DEFINE s == ByHeight(ToAttach(Candidate))
           n == Len(s)
<1>1. /\ Stored /\ BestRight /\ ControlRight
      /\ pc = "connect" /\ ~NothingBetter /\ Running /\ FailedBelow(Candidate) = {}
      /\ vAttach' = s /\ pc' = "set"
      /\ index' = index /\ setBlockIndexValid' = setBlockIndexValid /\ pindexBest' = pindexBest
      /\ accepting' = accepting
  BY DEF ChainRight, ConnectBestStart, Running
<1>2. EntriesRight(index) /\ Known' = Known
  BY <1>1 DEF Stored, Known
<1>3. /\ s \in Seq(Known) /\ s # <<>> /\ s[n] = Candidate
      /\ \A i \in 1..n : s[i] \in Chain[Candidate] /\ nChainWork[s[i]] > nChainWork[pindexBest]
      /\ \A i, j \in 1..n : i < j => nChainWork[s[i]] < nChainWork[s[j]]
  BY <1>1, <1>2, AttachIs
<1>4. Candidate \in Blocks /\ Candidate \in Known
      /\ \A b \in setBlockIndexValid : nChainWork[b] <= nChainWork[Candidate]
  BY <1>1, <1>2, CandidateIsBetter
<1>5. \A c \in Chain[Candidate] : index[c].failed = "no"
  BY <1>1, <1>2, NothingFailed
<1> HIDE DEF s
<1>6. n \in Nat /\ n \in 1..n /\ 1 \in 1..n /\ s = [i \in 1..n |-> s[i]] /\ \A i \in 1..n : s[i] \in Known
  <2> HIDE DEF Known
  <2> QED
    BY <1>3
<1> HIDE DEF n
<1>7. ASSUME accepting # NoBlock PROVE s = <<accepting>>
  <2>1. \A b \in Known \ {accepting} : Worse(b)
    BY <1>1, <1>7 DEF WorkRight
  <2>2. ASSUME NEW i \in 1..n PROVE s[i] = accepting
    <3> DEFINE c == s[i]
    <3>1. c \in Chain[Candidate] /\ c \in Known /\ c \in Blocks /\ nChainWork[c] > nChainWork[pindexBest]
      BY <1>2, <1>3, <1>6 DEF EntriesRight, Known
    <3> HIDE DEF c
    <3>2. Chain[c] \subseteq Chain[Candidate]
      BY <1>4, <3>1, Ancestors
    <3>3. ~(nChainWork[c] <= nChainWork[pindexBest])
      <4> DEFINE x == nChainWork[c]
                 y == nChainWork[pindexBest]
      <4>1. x \in Nat /\ y \in Nat /\ x > y
        BY <1>1, <3>1, Works DEF BestRight
      <4> HIDE DEF x, y
      <4>2. ~(x <= y)
        BY <4>1
      <4> QED
        BY <4>2 DEF x, y
    <3>4. ~Worse(c)
      BY <1>5, <3>2, <3>3 DEF Worse
    <3>5. c = accepting
      BY <2>1, <3>1, <3>4
    <3> QED
      BY <3>5 DEF c
  <2>3. n = 1
    <3> SUFFICES ASSUME n # 1 PROVE FALSE
      OBVIOUS
    <3>1. 1 < n
      BY <1>6
    <3>2. nChainWork[s[1]] < nChainWork[s[n]]
      BY <1>3, <1>6, <3>1
    <3>3. s[1] = s[n]
      BY <1>6, <2>2
    <3>4. s[n] \in Blocks
      BY <1>3, <1>4
    <3> DEFINE x == nChainWork[s[n]]
    <3>5. x \in Nat /\ x < x
      BY <3>2, <3>3, <3>4, Works
    <3> HIDE DEF x
    <3> QED
      BY <3>5
  <2>4. s = [i \in 1..1 |-> accepting]
    BY <1>6, <2>2, <2>3
  <2> HIDE DEF s
  <2> QED
    BY <2>4
<1>8. \A b \in Known : Worse(b)' <=> Worse(b)
  BY <1>1 DEF Worse
<1>9. accepting # NoBlock => \A b \in Known \ {accepting} : Worse(b)'
  BY <1>1, <1>8 DEF WorkRight
<1>10. \A b \in setBlockIndexValid : nChainWork[b] <= nChainWork[s[n]]
  BY <1>3, <1>4
<1> QED
  BY <1>1, <1>2, <1>7, <1>9, <1>10 DEF WorkRight, n

LEMMA AcceptKeepsWork ==
  ASSUME ChainRight, WorkRight, OrphansRight, OnDiskRight,
         NEW b \in Blocks \ {Base}, b \notin Known, pc \in {"idle", "orphans"},
         NEW fIBD \in BOOLEAN, AcceptWritten(b, fIBD),
         vWorkQueue' = vWorkQueue, mapOrphanBlocks' = mapOrphanBlocks \ {b}
  PROVE  WorkRight' /\ OrphansRight'
<1>1. /\ Known' = Known \cup {b} /\ \A c \in Known : index'[c] = index[c]
      /\ accepting' = b /\ pc' = "connect" /\ pindexBest' = pindexBest
  BY DEF AcceptWritten
<1>2. EntriesRight(index) /\ pindexBest \in Blocks /\ accepting = NoBlock
  BY DEF ChainRight, Stored, BestRight, ControlRight
<1>3. ASSUME NEW c \in Known PROVE Worse(c)'
  <2>1. Worse(c)
    BY DEF WorkRight
  <2>2. nChainWork[pindexBest] <= nChainWork[pindexBest']
    <3> DEFINE x == nChainWork[pindexBest]
    <3>1. x \in Nat /\ nChainWork[pindexBest'] = x
      BY <1>1, <1>2, Works
    <3> HIDE DEF x
    <3>2. x <= x
      BY <3>1
    <3> QED
      BY <3>1, <3>2 DEF x
  <2>3. nChainWork[c] <= nChainWork[pindexBest'] \/ \E d \in Chain[c] : index'[d].failed # "no"
    BY <1>1, <1>2, <2>1, <2>2, WorseStays
  <2> QED
    BY <2>3 DEF Worse
<1>4. WorkRight'
  BY <1>1, <1>3 DEF WorkRight
<1>5. OrphansRight'
  <2> SUFFICES ASSUME NEW c \in mapOrphanBlocks, Parent[c] \in Known \cup {b}
               PROVE  \/ \E i \in 1..Len(vWorkQueue) : Parent[c] = vWorkQueue[i]
                      \/ Parent[c] = b
                      \/ ~ValidChain[Parent[c]]
    BY <1>1 DEF OrphansRight
  <2>1. Parent[c] # b => Parent[c] \in Known /\ Parent[c] # NoBlock
    BY <1>2, StateAssumption DEF EntriesRight, Known
  <2> QED
    BY <1>2, <2>1 DEF OrphansRight
<1> QED
  BY <1>4, <1>5

\* All that is left when ConnectBestBlock returns to a node that goes on.
LEMMA ReturnKeepsWork ==
  ASSUME NEW fOk \in BOOLEAN, Return(fOk),
         accepting # NoBlock \/ fOk => \A b \in Known' : Worse(b)'
  PROVE  WorkRight'
<1>1. /\ accepting' = NoBlock
      /\ accepting = NoBlock => pc' = IF fOk THEN "idle" ELSE "stopping"
      /\ accepting # NoBlock => pc' = "orphans"
  BY DEF Return
<1> QED
  BY <1>1 DEF WorkRight

LEMMA ReturnKeepsOrphans ==
  ASSUME EntriesRight(index), ControlRight, OrphansRight,
         NEW fOk \in BOOLEAN, Return(fOk), Known' = Known,
         ~fOk /\ accepting # NoBlock => ~ValidChain[accepting]
  PROVE  OrphansRight'
<1>1. mapOrphanBlocks' = mapOrphanBlocks /\ vWorkQueue \in Seq(Known)
  BY DEF Return, ControlRight
<1> DEFINE q == vWorkQueue
           r == vWorkQueue'
<1>2. /\ accepting = NoBlock => r = q
      /\ accepting # NoBlock => r = IF fOk THEN Append(q, accepting) ELSE q
  BY DEF Return, WorkQueueAfter
<1> SUFFICES ASSUME NEW b \in mapOrphanBlocks, Parent[b] \in Known
             PROVE  (\E i \in 1..Len(r) : Parent[b] = r[i]) \/ ~ValidChain[Parent[b]]
  BY <1>1 DEF OrphansRight
<1>3. Parent[b] # NoBlock
  BY StateAssumption DEF EntriesRight, Known
<1>4. \/ \E i \in 1..Len(q) : Parent[b] = q[i]
      \/ Parent[b] = accepting
      \/ ~ValidChain[Parent[b]]
  BY DEF OrphansRight
<1> HIDE DEF q, r, Known
<1>5. q \in Seq(Known)
  BY <1>1 DEF q
<1>6. CASE accepting = NoBlock \/ ~fOk
  BY <1>2, <1>3, <1>4, <1>6
<1>7. CASE accepting # NoBlock /\ fOk
  <2>1. /\ r = Append(q, accepting) /\ Len(q) \in Nat /\ Len(r) = Len(q) + 1
        /\ r[Len(q) + 1] = accepting
        /\ \A i \in 1..Len(q) : r[i] = q[i]
    BY <1>2, <1>5, <1>7
  <2>2. \A i \in 1..Len(q) : i \in 1..Len(r)
    BY <2>1
  <2>3. Len(q) + 1 \in 1..Len(r)
    BY <2>1
  <2> QED
    BY <1>4, <2>1, <2>2, <2>3
<1> QED
  BY <1>6, <1>7

\* Nothing better: then everything is worse.
LEMMA DoneKeepsWork ==
  ASSUME ChainRight, WorkRight, OrphansRight,
         ConnectBestDone
  PROVE  WorkRight' /\ OrphansRight'
<1>1. /\ Stored /\ BestRight /\ ControlRight /\ Running /\ NothingBetter /\ Return(TRUE)
      /\ index' = index /\ pindexBest' = pindexBest
  BY DEF ChainRight, ConnectBestDone, Running
<1>2. EntriesRight(index) /\ Known' = Known
  BY <1>1 DEF Stored, Known
<1>3. /\ Candidate \in Blocks
      /\ \A b \in setBlockIndexValid : nChainWork[b] <= nChainWork[Candidate]
  BY <1>1, <1>2, CandidateIsBetter
<1>4. ASSUME NEW b \in Known PROVE Worse(b)
  <2>1. b \in Blocks /\ b \in Chain[b]
    BY <1>2, Ancestors DEF EntriesRight, Known
  <2>2. CASE index[b].failed # "no"
    BY <2>1, <2>2 DEF Worse
  <2>3. CASE index[b].failed = "no"
    <3>1. b \in setBlockIndexValid
      BY <1>1, <2>3 DEF BestRight
    <3>2. nChainWork[Candidate] = nChainWork[pindexBest]
      BY <1>1 DEF NothingBetter
    <3> QED
      BY <1>3, <3>1, <3>2 DEF Worse
  <2> QED
    BY <2>2, <2>3
<1>5. \A b \in Known' : Worse(b)'
  BY <1>1, <1>2, <1>4 DEF Worse
<1>6. WorkRight'
  BY <1>1, <1>5, ReturnKeepsWork
<1>7. OrphansRight'
  BY <1>1, <1>2, ReturnKeepsOrphans
<1> QED
  BY <1>6, <1>7

LEMMA MarkKeepsWork ==
  ASSUME ChainRight, WorkRight, OrphansRight,
         MarkDescendantsFailed
  PROVE  WorkRight' /\ OrphansRight'
<1>1. /\ Known' = Known /\ \A b \in Known : index[b].failed # "no" => index'[b].failed # "no"
  BY MarkKeeps
<1>2. /\ pc = "connect" /\ pc' = pc /\ accepting' = accepting /\ vWorkQueue' = vWorkQueue
      /\ mapOrphanBlocks' = mapOrphanBlocks /\ pindexBest' = pindexBest
  BY DEF MarkDescendantsFailed, queueVars
<1>3. EntriesRight(index) /\ pindexBest \in Blocks
  BY DEF ChainRight, Stored, BestRight
<1>4. ASSUME NEW c \in Known, Worse(c) PROVE Worse(c)'
  <2>2. nChainWork[pindexBest] <= nChainWork[pindexBest']
    <3> DEFINE x == nChainWork[pindexBest]
    <3>1. x \in Nat /\ nChainWork[pindexBest'] = x
      BY <1>2, <1>3, Works
    <3> HIDE DEF x
    <3>2. x <= x
      BY <3>1
    <3> QED
      BY <3>1, <3>2 DEF x
  <2>3. nChainWork[c] <= nChainWork[pindexBest'] \/ \E d \in Chain[c] : index'[d].failed # "no"
    BY <1>1, <1>2, <1>3, <1>4, <2>2, WorseStays
  <2> QED
    BY <2>3 DEF Worse
<1>5. WorkRight'
  BY <1>1, <1>2, <1>4 DEF WorkRight
<1>6. OrphansRight'
  BY <1>1, <1>2 DEF OrphansRight
<1> QED
  BY <1>5, <1>6

\* The branch: what is given up has failed.
LEMMA BranchKeepsWork ==
  ASSUME ChainRight, OnDiskRight, WorkRight,
         OrphansRight, pc = "set", NEW fIBD \in BOOLEAN, BranchWritten(fIBD), BranchEnds
  PROVE  WorkRight' /\ OrphansRight'
<1>1. /\ Known' = Known /\ EntriesRight(index')
      /\ \A b \in Known : index[b].failed # "no" => index'[b].failed # "no"
      /\ pindexBest' = pindexBest
      /\ setBlockIndexValid' = {b \in Known : index'[b].failed = "no"}
  BY DEF BranchWritten
<1>2. /\ EntriesRight(index) /\ pindexBest \in Blocks /\ ControlRight /\ Running
      /\ setBlockIndexValid = {b \in Known : index[b].failed = "no"}
      /\ vAttach \in Seq(Known) /\ vAttach # <<>>
  BY DEF ChainRight, Stored, BestRight, ControlRight, AttachRight, Running
<1>3. ASSUME NEW c \in Known, Worse(c) PROVE Worse(c)'
  <2>2. nChainWork[pindexBest] <= nChainWork[pindexBest']
    <3> DEFINE x == nChainWork[pindexBest]
    <3>1. x \in Nat /\ nChainWork[pindexBest'] = x
      BY <1>1, <1>2, Works
    <3> HIDE DEF x
    <3>2. x <= x
      BY <3>1
    <3> QED
      BY <3>1, <3>2 DEF x
  <2>3. nChainWork[c] <= nChainWork[pindexBest'] \/ \E d \in Chain[c] : index'[d].failed # "no"
    BY <1>1, <1>2, <1>3, <2>2, WorseStays
  <2> QED
    BY <2>3 DEF Worse
<1>4. CanRead(Head(vAttach))
  <2>1. Head(vAttach) \in Known
    <3> HIDE DEF Known
    <3> QED
      BY <1>2
  <2> QED
    BY <1>2, <2>1, AllReadable
<1>5. setBlockIndexValid' \subseteq setBlockIndexValid
  BY <1>1, <1>2
<1>6. CASE /\ pc' \in {"commit", "stopping"} /\ accepting' = accepting /\ vAttach' = vAttach
           /\ vWorkQueue' = vWorkQueue /\ mapOrphanBlocks' = mapOrphanBlocks
  <2>1. accepting # NoBlock => (\A b \in Known \ {accepting} : Worse(b)') /\ vAttach = <<accepting>>
    BY <1>3 DEF WorkRight
  <2>2. accepting = NoBlock =>
          \A b \in setBlockIndexValid' : nChainWork[b] <= nChainWork[vAttach[Len(vAttach)]]
    BY <1>5 DEF WorkRight
  <2>3. WorkRight'
    BY <1>1, <1>6, <2>1, <2>2 DEF WorkRight
  <2>4. OrphansRight'
    BY <1>1, <1>6 DEF OrphansRight
  <2> QED
    BY <2>3, <2>4
<1>7. CASE Return(FALSE) /\ \E bad \in Chain[Head(vAttach)] : index'[bad].failed # "no"
  <2>1. PICK bad \in Chain[Head(vAttach)] : index'[bad].failed # "no"
    BY <1>7
  <2>2. ASSUME accepting # NoBlock
        PROVE  ~ValidChain[accepting] /\ \A b \in Known : Worse(b)'
    <3>1. vAttach = <<accepting>> /\ \A b \in Known \ {accepting} : Worse(b)'
      BY <1>3, <2>2 DEF WorkRight
    <3>2. Head(vAttach) = accepting /\ accepting \in Known
      BY <1>2, <2>2, <3>1 DEF ControlRight
    <3>3. bad \in Chain[accepting]
      BY <2>1, <3>2
    <3>4. bad \in Known' /\ accepting \in Blocks
      <4>1. accepting \in Blocks /\ Chain[accepting] \subseteq Known
        BY <1>2, <3>2, ChainIsKnown DEF EntriesRight, Known
      <4> QED
        BY <1>1, <3>3, <4>1
    <3>5. ~ValidChain[bad]
      BY <1>1, <2>1, <3>4 DEF EntriesRight, Known
    <3>6. ~ValidChain[accepting]
      BY <3>3, <3>4, <3>5, ValidGrows
    <3>7. ASSUME NEW b \in Known PROVE Worse(b)'
      <4>1. CASE b = accepting
        <5>1. \E c \in Chain[b] : index'[c].failed # "no"
          BY <2>1, <3>3, <4>1
        <5> QED
          BY <5>1 DEF Worse
      <4>2. CASE b # accepting
        BY <3>1, <4>2
      <4> QED
        BY <4>1, <4>2
    <3> QED
      BY <3>6, <3>7
  <2>3. WorkRight'
    BY <1>1, <1>7, <2>2, ReturnKeepsWork
  <2>4. OrphansRight'
    BY <1>1, <1>2, <1>7, <2>2, ReturnKeepsOrphans
  <2> QED
    BY <2>3, <2>4
<1> QED
  BY <1>4, <1>6, <1>7 DEF BranchEnds

\* The best block is now the last of the branch, or there is more to connect.
LEMMA CommitKeepsWork ==
  ASSUME ChainRight, WorkRight, OrphansRight,
         NEW fFlush \in BOOLEAN, Commit(fFlush)
  PROVE  WorkRight' /\ OrphansRight'
<1> DEFINE new == Head(vAttach)
           n == Len(vAttach)
<1>1. /\ pc = "commit" /\ CommitWritten(fFlush)
  BY CommitIs DEF Commit
<1>2. /\ new \in Known /\ new \in Blocks /\ nChainWork[new] > nChainWork[pindexBest]
      /\ pindexBest' = new /\ index' = index /\ setBlockIndexValid' = setBlockIndexValid
      /\ Known' = Known
  BY <1>1 DEF CommitWritten, Known
<1>3. /\ EntriesRight(index) /\ pindexBest \in Blocks /\ ControlRight /\ Running
      /\ setBlockIndexValid = {b \in Known : index[b].failed = "no"}
      /\ vAttach \in Seq(Known) /\ vAttach # <<>>
  BY <1>1 DEF ChainRight, Stored, BestRight, ControlRight, AttachRight, Running
<1>4. n \in Nat /\ n \in 1..n /\ 1 \in 1..n /\ new = vAttach[1]
  <2> HIDE DEF Known
  <2> QED
    BY <1>3
<1> HIDE DEF new
<1>5. ASSUME NEW c \in Known, Worse(c) PROVE Worse(c)'
  <2>2. nChainWork[pindexBest] <= nChainWork[pindexBest']
    <3> DEFINE x == nChainWork[pindexBest]
               y == nChainWork[pindexBest']
    <3>1. x \in Nat /\ y \in Nat /\ y > x
      BY <1>2, <1>3, Works
    <3> HIDE DEF x, y
    <3>2. x <= y
      BY <3>1
    <3> QED
      BY <3>2 DEF x, y
  <2>3. nChainWork[c] <= nChainWork[pindexBest'] \/ \E d \in Chain[c] : index'[d].failed # "no"
    BY <1>2, <1>3, <1>5, <2>2, WorseStays
  <2> QED
    BY <2>3 DEF Worse
<1>6. CASE n > 1
  <2>1. /\ vAttach' = Tail(vAttach) /\ pc' = "set"
        /\ accepting' = accepting /\ vWorkQueue' = vWorkQueue /\ mapOrphanBlocks' = mapOrphanBlocks
    BY <1>6 DEF Commit, queueVars
  <2>2. accepting = NoBlock
    <3>1. accepting # NoBlock => vAttach = <<accepting>>
      BY <1>1 DEF WorkRight
    <3>2. Len(<<accepting>>) = 1
      OBVIOUS
    <3>3. accepting # NoBlock => n = 1
      BY <3>1, <3>2
    <3>4. n # 1
      <4> HIDE DEF n
      <4> QED
        BY <1>6
    <3> QED
      BY <3>3, <3>4
  <2>3. \A b \in setBlockIndexValid : nChainWork[b] <= nChainWork[vAttach[n]]
    BY <1>1, <2>2 DEF WorkRight
  <2>4. vAttach'[Len(vAttach')] = vAttach[n]
    <3> DEFINE s == vAttach
    <3> HIDE DEF Known
    <3>1. Len(Tail(s)) = Len(s) - 1 /\ Tail(s)[Len(s) - 1] = s[Len(s)]
      BY <1>3, <1>6
    <3> QED
      BY <2>1, <3>1
  <2>5. WorkRight'
    BY <1>2, <2>1, <2>2, <2>3, <2>4 DEF WorkRight
  <2>6. OrphansRight'
    BY <1>2, <2>1 DEF OrphansRight
  <2> QED
    BY <2>5, <2>6
<1>7. CASE ~(n > 1)
  <2>1. Return(TRUE)
    BY <1>7 DEF Commit
  <2>2. n = 1
    <3> HIDE DEF n
    <3> QED
      BY <1>4, <1>7
  <2>3. ASSUME NEW b \in Known PROVE Worse(b)'
    <3>1. b \in Blocks /\ b \in Chain[b]
      BY <1>3, Ancestors DEF EntriesRight, Known
    <3>2. CASE accepting # NoBlock /\ b # accepting
      BY <1>1, <1>5, <3>2 DEF WorkRight
    <3>3. CASE accepting # NoBlock /\ b = accepting
      <4>1. vAttach = <<accepting>>
        BY <1>1, <3>3 DEF WorkRight
      <4>2. pindexBest' = b
        BY <1>2, <1>4, <3>3, <4>1
      <4> DEFINE x == nChainWork[b]
      <4>3. x \in Nat /\ nChainWork[pindexBest'] = x
        BY <3>1, <4>2, Works
      <4> HIDE DEF x
      <4>4. x <= x
        BY <4>3
      <4>5. nChainWork[b] <= nChainWork[pindexBest']
        BY <4>3, <4>4 DEF x
      <4> QED
        BY <4>5 DEF Worse
    <3>4. CASE accepting = NoBlock /\ index[b].failed = "no"
      <4>1. b \in setBlockIndexValid
        BY <1>3, <3>4
      <4>2. nChainWork[b] <= nChainWork[vAttach[n]]
        BY <1>1, <3>4, <4>1 DEF WorkRight
      <4>3. nChainWork[b] <= nChainWork[pindexBest']
        BY <1>2, <1>4, <2>2, <4>2
      <4> QED
        BY <4>3 DEF Worse
    <3>5. CASE index[b].failed # "no"
      <4>1. \E c \in Chain[b] : index'[c].failed # "no"
        BY <1>2, <3>1, <3>5
      <4> QED
        BY <4>1 DEF Worse
    <3> QED
      BY <3>2, <3>3, <3>4, <3>5
  <2>4. WorkRight'
    BY <1>2, <2>1, <2>3, ReturnKeepsWork
  <2>5. OrphansRight'
    BY <1>2, <1>3, <2>1, ReturnKeepsOrphans
  <2> QED
    BY <2>4, <2>5
<1> QED
  BY <1>6, <1>7

\* A node that is off, and one that is started, has nothing under way.
LEMMA OffKeepsWork ==
  ASSUME pc' \in {"off", "corrupt", "connect"}, accepting' = NoBlock, mapOrphanBlocks' = {}
  PROVE  WorkRight' /\ OrphansRight'
BY DEF WorkRight, OrphansRight

\* One that has to stop takes up no more blocks.
LEMMA StoppingKeepsWork ==
  ASSUME OrphansRight, pc' = "stopping", accepting' = accepting, vWorkQueue' = vWorkQueue,
         mapOrphanBlocks' = mapOrphanBlocks, Known' = Known
  PROVE  WorkRight' /\ OrphansRight'
BY DEF WorkRight, OrphansRight

LEMMA WorkQueueKeepsWork ==
  ASSUME ChainRight, WorkRight, OrphansRight, NextInWorkQueue
  PROVE  WorkRight' /\ OrphansRight'
<1>1. /\ pc = "orphans" /\ pc' \in {"idle", "orphans"} /\ OrphansLeft = {}
      /\ index' = index /\ pindexBest' = pindexBest /\ accepting' = accepting
      /\ mapOrphanBlocks' = mapOrphanBlocks
      /\ vWorkQueue = <<>> => vWorkQueue' = vWorkQueue
      /\ vWorkQueue # <<>> => vWorkQueue' = Tail(vWorkQueue)
  BY DEF NextInWorkQueue
<1>2. Known' = Known /\ vWorkQueue \in Seq(Known)
  BY <1>1 DEF Known, ChainRight, ControlRight
<1>3. WorkRight'
  BY <1>1, <1>2 DEF WorkRight, Worse
<1> DEFINE q == vWorkQueue
           r == vWorkQueue'
<1>4. ASSUME NEW b \in mapOrphanBlocks, NEW i \in 1..Len(q), Parent[b] = q[i]
      PROVE  \E j \in 1..Len(r) : Parent[b] = r[j]
  <2>1. q # <<>> /\ Len(q) \in Nat
    BY <1>2
  <2>2. i # 1
    BY <1>1, <1>4, <2>1 DEF OrphansLeft
  <2>3. r = Tail(q)
    BY <1>1, <2>1
  <2> HIDE DEF q, r
  <2>4. q \in Seq(Known)
    BY <1>2 DEF q
  <2> HIDE DEF Known
  <2>5. Len(r) = Len(q) - 1 /\ \A j \in 1..Len(r) : r[j] = q[j + 1]
    BY <2>1, <2>3, <2>4
  <2>6. i - 1 \in 1..Len(r) /\ (i - 1) + 1 = i
    BY <2>1, <2>2, <2>5
  <2> QED
    BY <1>4, <2>5, <2>6
<1>5. OrphansRight'
  <2> HIDE DEF q, r
  <2> SUFFICES ASSUME NEW b \in mapOrphanBlocks, Parent[b] \in Known
               PROVE  \/ \E i \in 1..Len(r) : Parent[b] = r[i]
                      \/ Parent[b] = accepting
                      \/ ~ValidChain[Parent[b]]
    BY <1>1, <1>2 DEF OrphansRight, r
  <2> QED
    BY <1>4 DEF OrphansRight, q
<1> QED
  BY <1>3, <1>5

\* Messages that leave the chain alone.
LEMMA MessageKeepsWork ==
  ASSUME ChainRight, WorkRight, OrphansRight, index' = index, pindexBest' = pindexBest,
         setBlockIndexValid' = setBlockIndexValid, accepting' = accepting, vAttach' = vAttach,
         vWorkQueue' = vWorkQueue, pc' = pc,
         \A b \in mapOrphanBlocks' \ mapOrphanBlocks : Parent[b] \notin Known
  PROVE  WorkRight' /\ OrphansRight'
<1>1. Known' = Known
  BY DEF Known
<1>2. WorkRight'
  BY <1>1 DEF WorkRight, Worse
<1>3. OrphansRight'
  BY <1>1 DEF OrphansRight
<1> QED
  BY <1>2, <1>3

LEMMA NextKeepsWork ==
  ASSUME ChainRight, OnDiskRight,
         WorkRight, OrphansRight, [Next]_vars
  PROVE  WorkRight' /\ OrphansRight'
<1>0. InitialDownload \subseteq BOOLEAN /\ ControlRight
  BY StateAssumption DEF ChainRight
<1>1. ASSUME NEW b \in Blocks \ {Base}, b \notin Known, Parent[b] \in Known,
             pc \in {"idle", "orphans"},
             vWorkQueue' = vWorkQueue, mapOrphanBlocks' = mapOrphanBlocks \ {b},
             NEW fIBD \in InitialDownload, AcceptBlock(b, fIBD)
      PROVE  WorkRight' /\ OrphansRight'
  <2>1. fIBD \in BOOLEAN
    BY <1>0
  <2>2. AcceptWritten(b, fIBD)
    BY <1>1, <2>1, AcceptKeeps
  <2> QED
    BY <1>1, <2>1, <2>2, AcceptKeepsWork
<1>3. ASSUME NEW b \in Blocks \ {Base}, ReceiveBlock(b) PROVE WorkRight' /\ OrphansRight'
  <2>1. PICK fIBD \in InitialDownload : AcceptBlock(b, fIBD)
    BY <1>3 DEF ReceiveBlock
  <2>2. /\ b \notin Known /\ Parent[b] \in Known /\ pc \in {"idle", "orphans"}
        /\ vWorkQueue' = vWorkQueue /\ mapOrphanBlocks' = mapOrphanBlocks \ {b}
    BY <1>3 DEF ReceiveBlock, queueVars
  <2> QED
    BY <1>1, <2>1, <2>2
<1>4. ASSUME NEW b \in Blocks, AcceptOrphanBlock(b) PROVE WorkRight' /\ OrphansRight'
  <2>1. PICK fIBD \in InitialDownload : AcceptBlock(b, fIBD)
    BY <1>4 DEF AcceptOrphanBlock
  <2>2. /\ b \notin Known /\ Parent[b] \in Known /\ pc \in {"idle", "orphans"} /\ b # Base
        /\ vWorkQueue' = vWorkQueue /\ mapOrphanBlocks' = mapOrphanBlocks \ {b}
    BY <1>4, OrphanIsNext
  <2> QED
    BY <1>1, <2>1, <2>2
<1>5. ASSUME NEW b \in Blocks \ {Base}, ReceiveOrphanBlock(b) PROVE WorkRight' /\ OrphansRight'
  BY <1>5, MessageKeepsWork DEF ReceiveOrphanBlock
<1>6. ASSUME NEW t \in Txs, ReceiveTx(t) PROVE WorkRight' /\ OrphansRight'
  BY <1>6, MessageKeepsWork DEF ReceiveTx, queueVars
<1>7. ASSUME NextInWorkQueue PROVE WorkRight' /\ OrphansRight'
  BY <1>7, WorkQueueKeepsWork
<1>8. ASSUME ConnectBestDone PROVE WorkRight' /\ OrphansRight'
  BY <1>8, DoneKeepsWork
<1>9. ASSUME MarkDescendantsFailed PROVE WorkRight' /\ OrphansRight'
  BY <1>9, MarkKeepsWork
<1>10. ASSUME ConnectBestStart PROVE WorkRight' /\ OrphansRight'
  <2>1. WorkRight'
    BY <1>10, StartKeepsWork
  <2>2. OrphansRight'
    BY <1>10 DEF ConnectBestStart, queueVars, OrphansRight, Known
  <2> QED
    BY <2>1, <2>2
<1>11. ASSUME NEW fIBD \in InitialDownload, ConnectBranch(fIBD)
       PROVE  WorkRight' /\ OrphansRight'
  <2>1. fIBD \in BOOLEAN /\ pc = "set"
    BY <1>0, <1>11 DEF ConnectBranch
  <2>2. BranchWritten(fIBD) /\ BranchEnds
    BY <1>11, <2>1, BranchIs
  <2> QED
    BY <2>1, <2>2, BranchKeepsWork
<1>12. ASSUME NEW fFlush \in BOOLEAN, Commit(fFlush) PROVE WorkRight' /\ OrphansRight'
  BY <1>12, CommitKeepsWork
<1>13. ASSUME Shutdown \/ Kill \/ PowerLoss PROVE WorkRight' /\ OrphansRight'
  BY <1>13, OffKeepsWork DEF Shutdown, Kill, PowerLoss, LoseMemory
<1>14. ASSUME StartUp PROVE WorkRight' /\ OrphansRight'
  <2>1. pc = "off" /\ pc' \in {"connect", "corrupt"} /\ accepting' = NoBlock
        /\ index' = index /\ vWorkQueue' = vWorkQueue /\ mapOrphanBlocks' = mapOrphanBlocks
        /\ accepting' = accepting
    BY <1>0, <1>14 DEF StartUp, ControlRight, queueVars
  <2>2. WorkRight'
    BY <2>1 DEF WorkRight
  <2>3. OrphansRight'
    BY <2>1 DEF OrphansRight, Known
  <2> QED
    BY <2>2, <2>3
<1>15. ASSUME UNCHANGED vars PROVE WorkRight' /\ OrphansRight'
  BY <1>15, MessageKeepsWork DEF vars, queueVars
<1>16. ASSUME NEW b \in Blocks \ {Base}, ReceiveKnownBlock(b) PROVE WorkRight' /\ OrphansRight'
  BY <1>15, <1>16 DEF ReceiveKnownBlock
<1>17. ASSUME NEW fIBD \in InitialDownload, WriteFails(fIBD)
       PROVE  WorkRight' /\ OrphansRight'
  <2>1. fIBD \in BOOLEAN
    BY <1>0
  <2>2. Known' = Known
    BY <1>17, <2>1, WriteFailsIs DEF BranchWritten
  <2> QED
    BY <1>17, <2>2, StoppingKeepsWork DEF WriteFails, queueVars
<1>18. ASSUME NEW fSynced \in BOOLEAN, CommitFails(fSynced) PROVE WorkRight' /\ OrphansRight'
  <2>1. Known' = Known
    BY <1>18 DEF CommitFails, Known
  <2> QED
    BY <1>18, <2>1, StoppingKeepsWork DEF CommitFails, queueVars
<1> QED
  BY <1>3, <1>4, <1>5, <1>6, <1>7, <1>8, <1>9, <1>10, <1>11, <1>12, <1>13, <1>14, <1>15, <1>16,
     <1>17, <1>18 DEF Next, Choose, SetBestChain

\* Between two messages nothing that is known is better than the best block, and every orphan
\* is looked at in time.
THEOREM WorkAlwaysRight == ASSUME ~LossInDownload PROVE Spec => [](WorkRight /\ OrphansRight)
<1>1. Init => WorkRight /\ OrphansRight
  <2> SUFFICES ASSUME Init PROVE WorkRight /\ OrphansRight
    OBVIOUS
  <2>1. /\ pc = "idle" /\ Known = {Base} /\ pindexBest = Base /\ mapOrphanBlocks = {}
    BY DEF Init, Known
  <2>2. nChainWork[Base] <= nChainWork[Base]
    BY Works, TreeAssumption
  <2> QED
    BY <2>1, <2>2 DEF WorkRight, OrphansRight, Worse
<1>2. ChainRight /\ (OnDiskRight /\ pc # "corrupt") /\ (WorkRight /\ OrphansRight) /\ [Next]_vars
        => (WorkRight /\ OrphansRight)'
  BY NextKeepsWork
<1> QED
  BY <1>1, <1>2, ChainRightAlways, OnDiskAlways, PTL DEF Spec

\* Between two messages no valid chain that is known has more work than the best one,
\* whatever failed on the way.  (ConnectBestBlock)
THEOREM MostWorkIsBest == ASSUME ~LossInDownload PROVE Spec => []MostWork
<1>1. ASSUME ChainRight, WorkRight PROVE MostWork
  <2> SUFFICES ASSUME pc = "idle", NEW b \in Known, ValidChain[b]
               PROVE  nChainWork[b] <= nChainWork[pindexBest]
    BY DEF MostWork
  <2>1. EntriesRight(index)
    BY <1>1 DEF ChainRight, Stored
  <2>2. b \in Blocks /\ Chain[b] \subseteq Known
    BY <2>1, ChainIsKnown, TreeAssumption DEF EntriesRight, Known
  <2>3. \A c \in Chain[b] : index[c].failed = "no"
    BY <2>1, <2>2, ValidGrows DEF EntriesRight, Known
  <2>4. Worse(b)
    BY <1>1 DEF WorkRight
  <2> QED
    BY <2>3, <2>4 DEF Worse
<1>2. ChainRight /\ (WorkRight /\ OrphansRight) => MostWork
  BY <1>1
<1> QED
  BY <1>2, ChainRightAlways, WorkAlwaysRight, PTL

\* An orphan whose predecessor is known is left waiting only if its chain is not valid.
\* (ProcessBlock)
THEOREM OrphansNeverForgotten == ASSUME ~LossInDownload PROVE Spec => []NoOrphanLeftBehind
<1>1. ASSUME ChainRight, OrphansRight PROVE NoOrphanLeftBehind
  <2> SUFFICES ASSUME pc = "idle", NEW b \in mapOrphanBlocks, Parent[b] \in Known
               PROVE  ~ValidChain[b]
    BY DEF NoOrphanLeftBehind
  <2>1. /\ vWorkQueue = <<>> /\ accepting = NoBlock /\ b \in Blocks /\ b \notin Known
        /\ EntriesRight(index)
    BY <1>1 DEF ChainRight, Stored, ControlRight
  <2>2. b # Base /\ Parent[b] # NoBlock
    BY <2>1, StateAssumption DEF EntriesRight, Known
  <2>3. ~ValidChain[Parent[b]]
    <3>1. Len(vWorkQueue) = 0
      BY <2>1
    <3>2. ~\E i \in 1..Len(vWorkQueue) : Parent[b] = vWorkQueue[i]
      BY <3>1
    <3> QED
      BY <1>1, <2>1, <2>2, <3>2 DEF OrphansRight
  <2> QED
    BY <2>1, <2>2, <2>3, ValidGrows
<1>2. ChainRight /\ (WorkRight /\ OrphansRight) => NoOrphanLeftBehind
  BY <1>1
<1> QED
  BY <1>2, ChainRightAlways, WorkAlwaysRight, PTL

-----------------------------------------------------------------------------
(* The memory pool after a reorganisation *)

\* The transactions of the blocks of a branch, in order.
LEMMA LooseIs ==
  ASSUME NEW path \in Seq(Blocks)
  PROVE  /\ Loose(path) \in Seq(Txs)
         /\ InOrder(path, Loose(path), Len(path)) /\ Covers(path, Loose(path), Len(path))
<1> DEFINE seqs == [i \in DOMAIN path |-> Vtx[path[i]]]
           n == Len(path)
           D == Seq(Txs)
           G == FlatSteps(seqs, Txs)
           r == Loose(path)
<1>1. n \in Nat /\ DOMAIN path = 1..n /\ \A i \in 1..n : path[i] \in Blocks
  OBVIOUS
<1>2. \A i \in 1..n : Vtx[path[i]] \in D
  BY <1>1, BlockTxs
<1>3. /\ seqs \in Seq(D) /\ Len(seqs) = n
      /\ \A i \in 1..n : seqs[i] = Vtx[path[i]]
  BY <1>1, <1>2
<1>4. r = FlattenSeq(seqs)
  BY DEF Loose
<1> HIDE DEF seqs, n, r
<1>5. Traced(D, n, <<>>, G, r)
  BY <1>3, <1>4, FlatTrace
<1>6. PICK g : Trace(g, D, n, <<>>, G) /\ r = g[n]
  BY <1>5 DEF Traced
<1> DEFINE S == {i \in 0..n : g[i] \in D /\ InOrder(path, g[i], i) /\ Covers(path, g[i], i)}
<1>7. 0 \in S
  <2>1. g[0] = <<>> /\ Len(<<>>) = 0 /\ 1..0 = {}
    BY <1>6 DEF Trace
  <2>2. InOrder(path, <<>>, 0) /\ Covers(path, <<>>, 0)
    BY <2>1 DEF InOrder, Covers
  <2>3. <<>> \in D
    OBVIOUS
  <2> HIDE DEF D
  <2> QED
    BY <1>1, <2>1, <2>2, <2>3
<1>8. ASSUME NEW k \in 1..n, k - 1 \in S PROVE k \in S
  <2>1. g[k - 1] \in D /\ g[k] = G[<<g[k - 1], k>>]
    <3>1. StepOf(g, D, G, k)
      BY <1>1, <1>6, TraceSteps
    <3> QED
      BY <3>1 DEF StepOf
  <2>2. g[k] = g[k - 1] \o Vtx[path[k]]
    BY <1>3, <2>1 DEF FlatSteps
  <2>3. InOrder(path, g[k - 1], k - 1) /\ Covers(path, g[k - 1], k - 1)
    BY <1>8
  <2> DEFINE s == g[k - 1]
  <2>4. s \in Seq(Txs) /\ k \in 1..Len(path)
    BY <2>1 DEF n
  <2> HIDE DEF s
  <2>5. /\ s \o Vtx[path[k]] \in Seq(Txs)
        /\ InOrder(path, s \o Vtx[path[k]], k) /\ Covers(path, s \o Vtx[path[k]], k)
    BY <2>3, <2>4, LooseGrows DEF s
  <2>6. g[k] = s \o Vtx[path[k]]
    BY <2>2 DEF s
  <2>7. g[k] \in D /\ InOrder(path, g[k], k) /\ Covers(path, g[k], k)
    BY <2>5, <2>6
  <2>8. k \in 0..n
    BY <1>1
  <2> HIDE DEF D
  <2> QED
    BY <2>7, <2>8
<1>9. n \in S
  <2> HIDE DEF S
  <2>1. \A k \in 0..n : k \in S
    BY <1>1, <1>7, <1>8, StepInduction
  <2> QED
    BY <1>1, <2>1
<1> QED
  BY <1>6, <1>9 DEF r, n

\* What SetBestChain connects, lowest block first, and what it disconnects.
LEMMA PathsAre ==
  ASSUME coinsTip.best \in Blocks, NEW new \in Blocks
  PROVE  /\ vConnect(new) \in Seq(Blocks) /\ Reverse(vDisconnect(new)) \in Seq(Blocks)
         /\ \A i \in 1..Len(vConnect(new)) :
              vConnect(new)[i] \in Chain[new] \ Chain[coinsTip.best]
         /\ \A c \in Chain[new] \ Chain[coinsTip.best] :
              \E i \in 1..Len(vConnect(new)) : c = vConnect(new)[i]
         /\ \A i, j \in 1..Len(vConnect(new)) :
              i < j => nHeight[vConnect(new)[i]] < nHeight[vConnect(new)[j]]
         /\ \A c \in Chain[coinsTip.best] \ Chain[new] :
              \E i \in 1..Len(Reverse(vDisconnect(new))) : c = Reverse(vDisconnect(new))[i]
<1> DEFINE tip == coinsTip.best
<1>1. tip \in Blocks
  OBVIOUS
<1>2. PICK f : IsFork(f, tip, new)
  <2> HIDE DEF tip
  <2> QED
    BY <1>1, ForkExists
<1>3. vDisconnect(new) = Reverse(PathOf(f, tip)) /\ vConnect(new) = PathOf(f, new)
  BY <1>2, BranchesAre
<1> HIDE DEF tip
<1>4. /\ f \in Blocks /\ f \in Chain[tip] /\ f \in Chain[new]
      /\ Chain[new] \ Chain[tip] = Chain[new] \ Chain[f]
      /\ Chain[tip] \ Chain[new] = Chain[tip] \ Chain[f]
  <2>1. f \in Chain[tip] /\ f \in Chain[new] /\ Chain[tip] \cap Chain[new] = Chain[f]
    BY <1>2 DEF IsFork
  <2>2. f \in Blocks
    BY <1>1, <2>1, Ancestors
  <2> QED
    BY <2>1, <2>2
<1> DEFINE p == PathOf(f, new)
           q == PathOf(f, tip)
           m == Len(p)
           n == Len(q)
<1>5. /\ m \in Nat /\ p \in Seq(Blocks \ {Base})
      /\ \A i \in 1..m : p[i] \in Chain[new] \ Chain[f] /\ nHeight[p[i]] = nHeight[f] + i
      /\ \A c \in Chain[new] \ Chain[f] :
           nHeight[c] - nHeight[f] \in 1..m /\ c = p[nHeight[c] - nHeight[f]]
  BY <1>4, PathIs
<1>6. /\ n \in Nat /\ q \in Seq(Blocks \ {Base})
      /\ \A c \in Chain[tip] \ Chain[f] :
           nHeight[c] - nHeight[f] \in 1..n /\ c = q[nHeight[c] - nHeight[f]]
  BY <1>1, <1>4, PathIs
<1>7. nHeight[f] \in Nat
  BY <1>4, Heights
<1> HIDE DEF p, q
<1>8. p \in Seq(Blocks) /\ q \in Seq(Blocks)
  BY <1>5, <1>6
<1>9. \A i, j \in 1..m : i < j => nHeight[p[i]] < nHeight[p[j]]
  BY <1>5, <1>7
<1>10. /\ Reverse(q) \in Seq(Blocks) /\ Len(Reverse(q)) = n
       /\ Reverse(Reverse(q)) \in Seq(Blocks) /\ Len(Reverse(Reverse(q))) = n
       /\ \A i \in 1..n : Reverse(Reverse(q))[i] = q[i]
  <2> DEFINE r == Reverse(q)
             x == Reverse(r)
  <2>1. r \in Seq(Blocks) /\ Len(r) = n /\ \A k \in 1..n : r[k] = q[(n - k) + 1]
    BY <1>8, Backwards
  <2> HIDE DEF r
  <2>2. x \in Seq(Blocks) /\ Len(x) = n
        /\ \A k \in 1..n : x[k] = r[(n - k) + 1] /\ (n - k) + 1 \in 1..n
    BY <2>1, Backwards
  <2> HIDE DEF x, n
  <2>3. ASSUME NEW i \in 1..n PROVE x[i] = q[i]
    <3> DEFINE k == (n - i) + 1
    <3>1. k \in 1..n /\ (n - k) + 1 = i
      BY <1>6
    <3>2. x[i] = r[k]
      BY <2>2
    <3> HIDE DEF k
    <3> QED
      BY <2>1, <3>1, <3>2
  <2> QED
    BY <2>1, <2>2, <2>3 DEF r, x
<1> DEFINE y == Reverse(Reverse(q))
<1>11. Reverse(vDisconnect(new)) = y /\ vConnect(new) = p
  BY <1>3 DEF p, q
<1>12. \A c \in Chain[tip] \ Chain[new] : \E i \in 1..Len(y) : c = y[i]
  <2> SUFFICES ASSUME NEW c \in Chain[tip] \ Chain[new] PROVE \E i \in 1..Len(y) : c = y[i]
    OBVIOUS
  <2> DEFINE i == nHeight[c] - nHeight[f]
  <2>1. i \in 1..n /\ c = q[i]
    BY <1>4, <1>6
  <2> HIDE DEF i, n
  <2>2. y[i] = q[i] /\ i \in 1..Len(y)
    BY <1>10, <2>1
  <2> HIDE DEF y
  <2> QED
    BY <2>1, <2>2
<1>13. \A c \in Chain[new] \ Chain[tip] : \E i \in 1..m : c = p[i]
  BY <1>4, <1>5
<1>14. \A i \in 1..m : p[i] \in Chain[new] \ Chain[tip]
  BY <1>4, <1>5
<1>15. y \in Seq(Blocks)
  BY <1>10
<1> HIDE DEF y
<1> QED
  BY <1>8, <1>9, <1>11, <1>12, <1>13, <1>14, <1>15 DEF tip

\* No transaction that is connected spends one that is connected after it.
LEMMA NothingBehind ==
  ASSUME coinsTip.best \in Blocks,
         NEW new \in Blocks, ValidChain[new],
         NEW k \in 1..Len(Loose(vConnect(new))), NEW j \in 1..k,
         NEW o \in ToSet(Vin[Loose(vConnect(new))[j]])
  PROVE  o[1] # Loose(vConnect(new))[k]
<1> DEFINE path == vConnect(new)
           s == Loose(path)
           n == Len(path)
<1>1. /\ path \in Seq(Blocks)
      /\ \A i \in 1..n : path[i] \in Chain[new] \ Chain[coinsTip.best]
      /\ \A i, h \in 1..n : i < h => nHeight[path[i]] < nHeight[path[h]]
  BY PathsAre
<1>2. s \in Seq(Txs) /\ InOrder(path, s, n)
  <2> HIDE DEF path
  <2> QED
    BY <1>1, LooseIs
<1>3. n \in Nat /\ \A i \in 1..n : path[i] \in Chain[new] \ {Base} /\ path[i] \in Blocks
  <2>1. n \in Nat
    BY <1>1
  <2>2. Base \in Chain[coinsTip.best] /\ \A c \in Chain[new] : c \in Blocks
    BY Ancestors
  <2> HIDE DEF path, n
  <2> QED
    BY <1>1, <2>1, <2>2
<1>4. j \in 1..Len(s) /\ k \in 1..Len(s) /\ o \in ToSet(Vin[s[j]]) /\ s[k] \in Txs
  <2> DEFINE c == Len(s)
  <2>1. c \in Nat /\ k \in 1..c
    BY <1>2
  <2> HIDE DEF c
  <2>2. j \in 1..c
    BY <2>1
  <2> QED
    BY <1>2, <2>1, <2>2 DEF c
<1> HIDE DEF s, path, n
\* What is ahead of a transaction comes before it on its chain.
<1>5. ASSUME NEW t \in Txs, NEW m \in 1..n, NEW l \in 1..Len(Vtx[path[m]]), Ahead(path, t, m, l)
      PROVE  t \in Before(path[m], l)
  <2>1. path[m] \in Blocks \ {Base} /\ path[m] \in Chain[new]
    BY <1>3
  <2>2. l \in 1..(Len(Vtx[path[m]]) + 1)
    <3> DEFINE c == Len(Vtx[path[m]])
    <3>1. c \in Nat
      BY <2>1, BlockTxs
    <3> HIDE DEF c
    <3>2. l \in 1..c => l \in 1..(c + 1)
      BY <3>1
    <3> QED
      BY <3>2 DEF c
  <2>3. CASE \E i \in 1..(m - 1) : t \in ToSet(Vtx[path[i]])
    <3>1. PICK i \in 1..(m - 1) : t \in ToSet(Vtx[path[i]])
      BY <2>3
    <3>2. i \in 1..n /\ i < m
      BY <1>3
    <3>3. nHeight[path[i]] < nHeight[path[m]] /\ path[i] \in Chain[new] /\ path[i] \in Blocks
      BY <1>1, <1>3, <3>2 DEF n
    <3>4. nHeight[path[i]] \in Nat /\ nHeight[path[m]] \in Nat
      BY <2>1, <3>3, Heights
    <3>5. nHeight[path[i]] <= nHeight[path[m]] /\ path[i] # path[m]
      <4> DEFINE x == nHeight[path[i]]
                 y == nHeight[path[m]]
      <4>1. x \in Nat /\ y \in Nat /\ x < y
        BY <3>3, <3>4
      <4> HIDE DEF x, y
      <4>2. x <= y /\ x # y
        BY <4>1
      <4> QED
        BY <4>2 DEF x, y
    <3>6. path[i] \in Chain[path[m]]
      BY <2>1, <3>3, <3>5, ChainOrder
    <3>7. path[i] \in Chain[Parent[path[m]]]
      <4> DEFINE c == path[m]
      <4>1. c \in Blocks \ {Base} /\ path[i] \in Chain[c] /\ path[i] # c
        BY <2>1, <3>5, <3>6
      <4> HIDE DEF c
      <4>2. Chain[c] = Chain[Parent[c]] \cup {c}
        BY <4>1, ChainGrows
      <4>3. path[i] \in Chain[Parent[c]]
        BY <4>1, <4>2
      <4> QED
        BY <4>3 DEF c
    <3>8. t \notin Blocks
      BY CoinsAssumption
    <3>9. InChain(t, Parent[path[m]])
      BY <3>1, <3>7, <3>8 DEF InChain
    <3> QED
      BY <2>1, <2>2, <3>9, BeforeIs
  <2>4. CASE \E i \in 1..(l - 1) : t = Vtx[path[m]][i]
    BY <2>1, <2>2, <2>4, BeforeIs
  <2> QED
    BY <1>5, <2>3, <2>4 DEF Ahead
<1> SUFFICES ASSUME o[1] = s[k] PROVE FALSE
  BY DEF s, path
<1>6. PICK m \in 1..n : \E l \in 1..Len(Vtx[path[m]]) :
        s[k] = Vtx[path[m]][l] /\ \A i \in 1..(k - 1) : Ahead(path, s[i], m, l)
  BY <1>2, <1>4 DEF InOrder
<1>7. PICK l \in 1..Len(Vtx[path[m]]) :
        s[k] = Vtx[path[m]][l] /\ \A i \in 1..(k - 1) : Ahead(path, s[i], m, l)
  BY <1>6
<1>8. PICK d \in 1..n : \E e \in 1..Len(Vtx[path[d]]) :
        s[j] = Vtx[path[d]][e] /\ \A i \in 1..(j - 1) : Ahead(path, s[i], d, e)
  BY <1>2, <1>4 DEF InOrder
<1>9. PICK e \in 1..Len(Vtx[path[d]]) : s[j] = Vtx[path[d]][e]
  BY <1>8
<1>10. s[k] \in Before(path[d], e) /\ s[j] \notin Before(path[d], e)
  <2>1. path[d] \in Chain[new] \ {Base}
    BY <1>3
  <2>2. o[1] \in Txs /\ o \in ToSet(Vin[Vtx[path[d]][e]])
    BY <1>4, <1>9
  <2> QED
    BY <1>9, <2>1, <2>2, SpendsEarlier
<1>11. j \in 1..(k - 1)
  <2>1. j # k
    BY <1>10
  <2> QED
    BY <2>1
<1>12. s[j] \in Before(path[m], l)
  <2>1. s[j] \in Txs
    BY <1>2, <1>4
  <2> QED
    BY <1>5, <1>7, <1>11, <2>1
<1>13. /\ path[m] \in Chain[new] \ {Base} /\ path[d] \in Chain[new] \ {Base}
       /\ path[m] \in Blocks /\ path[d] \in Blocks
  BY <1>3
<1>14. nHeight[path[m]] < nHeight[path[d]] \/ (path[m] = path[d] /\ l < e)
  BY <1>7, <1>10, <1>13, PlaceOrder
<1>15. nHeight[path[d]] < nHeight[path[m]] \/ (path[d] = path[m] /\ e < l)
  BY <1>9, <1>12, <1>13, PlaceOrder
<1>16. nHeight[path[m]] \in Nat /\ nHeight[path[d]] \in Nat
  BY <1>13, Heights
<1> QED
  <2> DEFINE x == nHeight[path[m]]
             y == nHeight[path[d]]
  <2>1. x \in Nat /\ y \in Nat /\ (x < y \/ l < e) /\ (y < x \/ e < l) /\ (x < y \/ x = y) /\ (y < x \/ x = y)
    BY <1>14, <1>15, <1>16
  <2>2. e \in Int /\ l \in Int
    OBVIOUS
  <2> HIDE DEF x, y
  <2> QED
    BY <2>1, <2>2

-----------------------------------------------------------------------------
(* The pool after a reorganisation *)

\* The pool after the old branch is back and before the new one is connected.
PoolBack(view, new) == BackFrom(pool, view, new, Loose(Reverse(vDisconnect(new))))

\* PoolAfter is a fold over the new branch of one over the old branch.
LEMMA PoolTraces ==
  ASSUME coinsTip.best \in Blocks, NEW new \in Blocks,
         NEW view, pool \in GoodPools
  PROVE  LET r == Loose(Reverse(vDisconnect(new)))
             s == Loose(vConnect(new))
         IN /\ r \in Seq(Txs) /\ s \in Seq(Txs) /\ Len(r) \in Nat /\ Len(s) \in Nat
            /\ Traced(GoodPools, Len(r), pool, BackSteps(view, new, r), PoolBack(view, new))
            /\ PoolBack(view, new) \in GoodPools
            /\ Traced(GoodPools, Len(s), PoolBack(view, new), ConfirmSteps(s), PoolAfter(view, new))
            /\ PoolAfter(view, new) \in GoodPools
<1> DEFINE r == Loose(Reverse(vDisconnect(new)))
           s == Loose(vConnect(new))
           p == PoolBack(view, new)
           q == PoolAfter(view, new)
<1>1. r \in Seq(Txs) /\ s \in Seq(Txs)
  <2>1. vConnect(new) \in Seq(Blocks) /\ Reverse(vDisconnect(new)) \in Seq(Blocks)
    BY PathsAre
  <2> QED
    BY <2>1, LooseIs
<1>2. p = BackFrom(pool, view, new, r) /\ q = FoldLeft(Confirm, p, s)
  BY DEF PoolBack, PoolAfter, BackFrom
<1> HIDE DEF r, s, p, q
<1>3. ASSUME NEW n \in Nat, NEW base, NEW G, NEW x, Traced(GoodPools, n, base, G, x)
      PROVE  x \in GoodPools
  <2>1. PICK g : Trace(g, GoodPools, n, base, G) /\ x = g[n]
    BY <1>3 DEF Traced
  <2>2. g \in [0..n -> GoodPools] /\ n \in 0..n
    BY <2>1 DEF Trace
  <2> QED
    BY <2>1, <2>2
<1>4. Traced(GoodPools, Len(r), pool, BackSteps(view, new, r), p) /\ Len(r) \in Nat
  BY <1>1, <1>2, BackTrace
<1>5. p \in GoodPools
  BY <1>3, <1>4
<1>6. Traced(GoodPools, Len(s), p, ConfirmSteps(s), q) /\ Len(s) \in Nat
  BY <1>1, <1>2, <1>5, ConfirmTrace
<1>7. q \in GoodPools
  BY <1>3, <1>6
<1> QED
  BY <1>1, <1>4, <1>5, <1>6, <1>7 DEF r, s, p, q

\* An input of a transaction of p: the chain of b has it left, or p has what makes it.
Spendable(p, o, b) == IsLeft(o, b) \/ (o[1] \in p.mapTx /\ o[2] \in Vout[o[1]])

\* A coinbase of the chain of b that could be spent, at b or with less work.
Aged(c, b) ==
  /\ c \in Chain[b]
  /\ \E a \in Blocks : /\ nChainWork[a] <= nChainWork[b] /\ c \in Chain[a] \ {Base}
                       /\ (nHeight[a] + 1) - nHeight[c] >= COINBASE_MATURITY

\* All inputs of the pool's transactions are spendable.
PoolFitsChain(p, b) ==
  \A t \in p.mapTx : \A o \in ToSet(Vin[t]) : Spendable(p, o, b) /\ (o[1] \in Blocks => Aged(o[1], b))

LEMMA Between ==
  ASSUME NEW l \in Nat, NEW m \in Nat, NEW n \in Nat, m > l, n <= l
  PROVE  m > n /\ n <= m
OBVIOUS

\* No branch with more work leaves out a coinbase that could be spent already: there is no
\* reorganisation deeper than COINBASE_MATURITY.
MatureStays ==
  \A a, b \in Blocks : nChainWork[b] > nChainWork[a] =>
    \A t \in Txs : \A o \in ToSet(Vin[t]) :
      o[1] \in Chain[a] \ {Base} /\ (nHeight[a] + 1) - nHeight[o[1]] >= COINBASE_MATURITY
        => o[1] \in Chain[b]

\* The coins of a view of b's chain that are accepted are left by b's chain.
LEMMA AcceptedFits ==
  ASSUME NEW p \in GoodPools, NEW b \in Blocks,
         NEW view, Same(view, Unspent[b]), NEW t \in Txs, Acceptable(p, view, b, t),
         NEW o \in ToSet(Vin[t])
  PROVE  Spendable(p, o, b) /\ (o[1] \in Blocks => Aged(o[1], b))
<1>1. /\ o[2] \in view[o[1]].out \/ (o[1] \in p.mapTx /\ o[2] \in Vout[o[1]])
      /\ o[1] \in Blocks =>
           /\ o[2] \in view[o[1]].out
           /\ (nHeight[b] + 1) - view[o[1]].nHeight >= COINBASE_MATURITY
  BY AcceptableIs
<1>2. PICK u \in TxIds, m \in Nat : o = <<u, m>>
  BY InputsOf DEF IsOutpoint
<1>3. o[1] = u /\ o[2] = m
  BY <1>2
<1>4. /\ view[u].out = Unspent[b][u].out
      /\ view[u].out # {} => view[u].nHeight = Unspent[b][u].nHeight
  BY DEF Same
<1>5. m \in view[u].out => IsLeft(o, b)
  BY <1>3, <1>4 DEF IsLeft
<1>6. Spendable(p, o, b)
  BY <1>1, <1>3, <1>5 DEF Spendable
<1>7. ASSUME u \in Blocks PROVE Aged(u, b)
  <2>1. m \in Unspent[b][u].out /\ (nHeight[b] + 1) - view[u].nHeight >= COINBASE_MATURITY
    BY <1>1, <1>3, <1>4, <1>7
  <2>2. MadeIn(u, m, b)
    BY <2>1, UnspentIs
  <2>3. InChain(u, b)
    BY <1>7, <2>2, NamesApart DEF MadeIn
  <2>4. Unspent[b][u].nHeight = HeightInChain(u, b)
    BY <2>1, <2>3, UnspentIs
  <2>5. view[u].nHeight = nHeight[u]
    BY <1>4, <1>7, <2>1, <2>4 DEF HeightInChain
  <2>6. u \in Chain[b] \ {Base}
    BY <1>7, <2>3 DEF InChain
  <2>7. nChainWork[b] <= nChainWork[b]
    <3> DEFINE x == nChainWork[b]
    <3>1. x \in Nat
      BY Works
    <3> HIDE DEF x
    <3>2. x <= x
      BY <3>1
    <3> QED
      BY <3>2 DEF x
  <2> QED
    BY <2>1, <2>5, <2>6, <2>7 DEF Aged
<1> QED
  BY <1>3, <1>6, <1>7

\* As Spendable, or a transaction that is to be connected spends it.
Supported(p, o, a, b) == Spendable(p, o, b) \/ \E y \in Gained(a, b) : o \in ToSet(Vin[y])

\* What makes the output comes back after the k-th transaction.
Returning(r, k, o) == \E j \in (k + 1)..Len(r) : o[1] = r[j] /\ o[2] \in Vout[o[1]]

\* What the pool still spends when the old branch is left.
LEMMA LeavingFits ==
  ASSUME MatureStays, NEW a \in Blocks, NEW b \in Blocks,
         nChainWork[b] > nChainWork[a], NEW p \in GoodPools, PoolFitsChain(p, a),
         NEW t \in p.mapTx, NEW o \in ToSet(Vin[t])
  PROVE  /\ o[1] \in Blocks => Aged(o[1], b)
         /\ Supported(p, o, a, b) \/ (o[1] \in Gained(b, a) /\ o[2] \in Vout[o[1]])
<1>1. Spendable(p, o, a) /\ (o[1] \in Blocks => Aged(o[1], a))
  BY DEF PoolFitsChain
<1>2. t \in Txs /\ IsOutpoint(o)
  <2>1. t \in Txs
    BY PoolIs
  <2> QED
    BY <2>1, InputsOf
<1>3. ASSUME o[1] \in Blocks PROVE Aged(o[1], b)
  <2>1. PICK c \in Blocks : /\ nChainWork[c] <= nChainWork[a] /\ o[1] \in Chain[c] \ {Base}
                            /\ (nHeight[c] + 1) - nHeight[o[1]] >= COINBASE_MATURITY
    BY <1>1, <1>3 DEF Aged
  <2>2. nChainWork[b] > nChainWork[c] /\ nChainWork[c] <= nChainWork[b]
    <3> DEFINE x == nChainWork[a]
               y == nChainWork[b]
               z == nChainWork[c]
    <3>1. x \in Nat /\ y \in Nat /\ z \in Nat /\ y > x /\ z <= x
      BY <2>1, Works
    <3> HIDE DEF x, y, z
    <3>2. y > z /\ z <= y
      BY <3>1, Between, Zenon
    <3> QED
      BY <3>2 DEF x, y, z
  <2>3. o[1] \in Chain[b]
    BY <1>2, <2>1, <2>2 DEF MatureStays
  <2> QED
    BY <2>1, <2>2, <2>3 DEF Aged
<1>4. CASE o[1] \in p.mapTx /\ o[2] \in Vout[o[1]]
  BY <1>3, <1>4 DEF Supported, Spendable
<1>5. CASE IsLeft(o, a)
  <2>1. \/ IsLeft(o, b)
        \/ \E y \in Gained(a, b) : o \in ToSet(Vin[y])
        \/ o[1] \in Gained(b, a) /\ o[2] \in Vout[o[1]]
        \/ o[1] \in Blocks /\ o[1] \notin Chain[b]
    BY <1>2, <1>5, LeftStays
  <2>2. ~(o[1] \in Blocks /\ o[1] \notin Chain[b])
    BY <1>3 DEF Aged
  <2> QED
    BY <1>3, <2>1, <2>2 DEF Supported, Spendable
<1> QED
  BY <1>1, <1>4, <1>5 DEF Spendable

\* One transaction of the old branch.
LEMMA ResurrectFits ==
  ASSUME NEW a \in Blocks, NEW b \in Blocks,
         NEW view, Same(view, Unspent[b]), NEW p \in GoodPools,
         NEW r \in Seq(Txs), NEW k \in 1..Len(r),
         \A t \in p.mapTx : \A o \in ToSet(Vin[t]) :
           /\ o[1] \in Blocks => Aged(o[1], b)
           /\ Supported(p, o, a, b) \/ Returning(r, k - 1, o),
         NEW u \in Resurrect(p, view, b, r[k]).mapTx, NEW o \in ToSet(Vin[u])
  PROVE  /\ o[1] \in Blocks => Aged(o[1], b)
         /\ Supported(Resurrect(p, view, b, r[k]), o, a, b) \/ Returning(r, k, o)
<1> DEFINE w == r[k]
           q == Resurrect(p, view, b, w)
<1>1. w \in Txs
  OBVIOUS
<1> HIDE DEF w
<1>2. /\ u \in p.mapTx \/ (u = w /\ Acceptable(p, view, b, w) /\ p.mapTx \subseteq q.mapTx)
      /\ u \in p.mapTx => (o[2] \in Vout[o[1]] /\ (o[1] = w \/ o[1] \in p.mapTx) => o[1] \in q.mapTx)
  <2>1. u \in q.mapTx
    BY DEF w
  <2>2. /\ \A x \in q.mapTx :
             \/ x \in p.mapTx
             \/ x = w /\ Acceptable(p, view, b, w) /\ p.mapTx \subseteq q.mapTx
        /\ \A x \in q.mapTx \cap p.mapTx : \A i \in ToSet(Vin[x]) :
             i[2] \in Vout[i[1]] /\ (i[1] = w \/ i[1] \in p.mapTx) => i[1] \in q.mapTx
    BY <1>1, ResurrectIs
  <2> HIDE DEF q
  <2> QED
    BY <2>1, <2>2
<1> HIDE DEF q
<1>3. CASE u \in p.mapTx
  <2>1. /\ o[1] \in Blocks => Aged(o[1], b)
        /\ Supported(p, o, a, b) \/ Returning(r, k - 1, o)
    BY <1>3
  <2>2. CASE Supported(p, o, a, b)
    <3>1. Supported(q, o, a, b)
      BY <1>2, <1>3, <2>2 DEF Supported, Spendable
    <3> QED
      BY <2>1, <3>1 DEF q, w
  <2>3. CASE Returning(r, k - 1, o)
    <3>1. PICK j \in ((k - 1) + 1)..Len(r) : o[1] = r[j] /\ o[2] \in Vout[o[1]]
      BY <2>3 DEF Returning
    <3>2. CASE j = k
      <4>1. o[1] = w
        BY <3>1, <3>2 DEF w
      <4>2. Supported(q, o, a, b)
        BY <1>2, <1>3, <3>1, <4>1 DEF Supported, Spendable
      <4> QED
        BY <2>1, <4>2 DEF q, w
    <3>3. CASE j # k
      <4> DEFINE n == Len(r)
      <4>1. n \in Nat /\ k \in 1..n /\ j \in ((k - 1) + 1)..n
        OBVIOUS
      <4> HIDE DEF n
      <4>2. j \in (k + 1)..n
        BY <3>3, <4>1
      <4>3. Returning(r, k, o)
        BY <3>1, <4>2 DEF Returning, n
      <4> QED
        BY <2>1, <4>3
    <3> QED
      BY <3>2, <3>3
  <2> QED
    BY <2>1, <2>2, <2>3
<1>4. CASE u = w /\ Acceptable(p, view, b, w) /\ p.mapTx \subseteq q.mapTx
  <2>1. Spendable(p, o, b) /\ (o[1] \in Blocks => Aged(o[1], b))
    BY <1>1, <1>4, AcceptedFits
  <2>2. Supported(q, o, a, b)
    BY <1>4, <2>1 DEF Supported, Spendable
  <2> QED
    BY <2>1, <2>2 DEF q, w
<1> QED
  BY <1>2, <1>3, <1>4

\* When the old branch is back, every input is there, or about to be spent.
LEMMA BackFits ==
  ASSUME MatureStays, coinsTip.best \in Blocks,
         NEW new \in Blocks, nChainWork[new] > nChainWork[coinsTip.best],
         NEW view, Same(view, Unspent[new]),
         pool \in GoodPools, PoolFitsChain(pool, coinsTip.best)
  PROVE  \A t \in PoolBack(view, new).mapTx : \A o \in ToSet(Vin[t]) :
           /\ o[1] \in Blocks => Aged(o[1], new)
           /\ Supported(PoolBack(view, new), o, coinsTip.best, new)
<1> DEFINE tip == coinsTip.best
           r == Loose(Reverse(vDisconnect(new)))
           n == Len(r)
           D == GoodPools
           G == BackSteps(view, new, r)
           Fits(p, k) == \A t \in p.mapTx : \A o \in ToSet(Vin[t]) :
                           /\ o[1] \in Blocks => Aged(o[1], new)
                           /\ Supported(p, o, tip, new) \/ Returning(r, k, o)
<1>1. /\ r \in Seq(Txs) /\ n \in Nat
      /\ Traced(D, n, pool, G, PoolBack(view, new))
  BY PoolTraces
<1>2. PICK g : Trace(g, D, n, pool, G) /\ PoolBack(view, new) = g[n]
  BY <1>1 DEF Traced
<1>3. \A t \in Gained(new, tip) : \E j \in 1..n : t = r[j]
  <2> DEFINE path == Reverse(vDisconnect(new))
  <2>1. /\ path \in Seq(Blocks)
        /\ \A c \in Chain[tip] \ Chain[new] : \E i \in 1..Len(path) : c = path[i]
    BY PathsAre
  <2> HIDE DEF path, tip
  <2>2. Covers(path, Loose(path), Len(path))
    BY <2>1, LooseIs
  <2> SUFFICES ASSUME NEW t \in Gained(new, tip) PROVE \E j \in 1..Len(Loose(path)) : t = Loose(path)[j]
    BY DEF path
  <2>3. PICK c \in Chain[tip] \ Chain[new] : t \in ToSet(Vtx[c])
    BY DEF Gained
  <2>4. PICK i \in 1..Len(path) : c = path[i]
    BY <2>1
  <2> QED
    BY <2>2, <2>3, <2>4 DEF Covers
<1>4. pool \in D /\ tip \in Blocks /\ PoolFitsChain(pool, tip) /\ nChainWork[new] > nChainWork[tip]
  OBVIOUS
<1> HIDE DEF tip, r
<1>5. Fits(pool, 0)
  <2> SUFFICES ASSUME NEW t \in pool.mapTx, NEW o \in ToSet(Vin[t])
               PROVE  /\ o[1] \in Blocks => Aged(o[1], new)
                      /\ Supported(pool, o, tip, new) \/ Returning(r, 0, o)
    OBVIOUS
  <2>1. /\ o[1] \in Blocks => Aged(o[1], new)
        /\ Supported(pool, o, tip, new) \/ (o[1] \in Gained(new, tip) /\ o[2] \in Vout[o[1]])
    BY <1>4, LeavingFits
  <2>2. ASSUME o[1] \in Gained(new, tip), o[2] \in Vout[o[1]] PROVE Returning(r, 0, o)
    <3>1. PICK j \in 1..n : o[1] = r[j]
      BY <1>3, <2>2
    <3>2. j \in (0 + 1)..Len(r)
      BY <3>1
    <3> QED
      BY <2>2, <3>1, <3>2 DEF Returning
  <2> QED
    BY <2>1, <2>2
<1>6. ASSUME NEW k \in 1..n, g[k - 1] \in D, Fits(g[k - 1], k - 1)
      PROVE  g[k] \in D /\ Fits(g[k], k)
  <2>1. g[k] \in D /\ g[k] = G[<<g[k - 1], k>>]
    <3>1. StepOf(g, D, G, k)
      BY <1>1, <1>2, TraceSteps
    <3> QED
      BY <3>1 DEF StepOf
  <2>2. g[k] = Resurrect(g[k - 1], view, new, r[k])
    BY <1>6, <2>1 DEF BackSteps
  <2> DEFINE p == g[k - 1]
  <2>3. p \in D /\ Fits(p, k - 1)
    BY <1>6
  <2>4. k \in 1..Len(r)
    OBVIOUS
  <2>5. g[k] = Resurrect(p, view, new, r[k])
    BY <2>2
  <2> HIDE DEF p
  <2>6. \A t \in Resurrect(p, view, new, r[k]).mapTx : \A o \in ToSet(Vin[t]) :
           /\ o[1] \in Blocks => Aged(o[1], new)
           /\ Supported(Resurrect(p, view, new, r[k]), o, tip, new) \/ Returning(r, k, o)
    <3> SUFFICES ASSUME NEW t \in Resurrect(p, view, new, r[k]).mapTx, NEW o \in ToSet(Vin[t])
                 PROVE  /\ o[1] \in Blocks => Aged(o[1], new)
                        /\ Supported(Resurrect(p, view, new, r[k]), o, tip, new) \/ Returning(r, k, o)
      OBVIOUS
    <3> QED
      BY <1>1, <1>4, <2>3, <2>4, ResurrectFits
  <2> QED
    BY <2>1, <2>5, <2>6
<1> HIDE DEF n, Fits, G, D
<1> DEFINE S == {k \in 0..n : g[k] \in D /\ Fits(g[k], k)}
<1>7. n \in S
  <2>1. 0 \in S
    BY <1>1, <1>2, <1>4, <1>5 DEF Trace
  <2>2. ASSUME NEW k \in 1..n, k - 1 \in S PROVE k \in S
    BY <1>1, <1>6, <2>2
  <2> HIDE DEF S
  <2>3. \A k \in 0..n : k \in S
    BY <1>1, <2>1, <2>2, StepInduction
  <2> QED
    BY <1>1, <2>3
<1>8. Fits(g[n], n)
  BY <1>7
<1>9. \A o : ~Returning(r, n, o)
  BY <1>1 DEF Returning, n
<1> QED
  BY <1>2, <1>8, <1>9 DEF Fits, tip

\* The inputs of the pool's transactions are spendable, or spent by those of S.
FitsUntil(p, S, b) ==
  \A t \in p.mapTx : \A o \in ToSet(Vin[t]) :
    Spendable(p, o, b) \/ \E y \in S : o \in ToSet(Vin[y])

\* No transaction of S spends an output of w.
NoneSpends(S, w) == \A y \in S : \A o \in ToSet(Vin[y]) : o[1] # w

\* One transaction of the new branch.
LEMMA ConfirmFits ==
  ASSUME NEW a \in Blocks, NEW b \in Blocks, ValidChain[b],
         NEW p \in GoodPools, NEW w \in Gained(a, b), NEW done,
         NoneSpends(done \cup {w}, w), FitsUntil(p, Gained(a, b) \ done, b)
  PROVE  FitsUntil(Confirm(p, w), Gained(a, b) \ (done \cup {w}), b)
<1> SUFFICES ASSUME NEW u \in Confirm(p, w).mapTx, NEW o \in ToSet(Vin[u])
             PROVE  \/ Spendable(Confirm(p, w), o, b)
                    \/ \E y \in Gained(a, b) \ (done \cup {w}) : o \in ToSet(Vin[y])
  BY DEF FitsUntil
<1>0. Spendable(p, o, b) \/ \E y \in Gained(a, b) \ done : o \in ToSet(Vin[y])
  <2>1. u \in p.mapTx
    <3>1. w \in Txs
      BY DEF Gained
    <3> QED
      BY <3>1, ConfirmIs
  <2> QED
    BY <2>1 DEF FitsUntil
<1> DEFINE more == done \cup {w}
           q == Confirm(p, w)
<1>1. w \in Txs
  BY DEF Gained
<1>2. /\ q \in GoodPools /\ q.mapTx \subseteq p.mapTx \ {w}
      /\ o \notin ToSet(Vin[w])
      /\ o[2] \in Vout[o[1]] /\ o[1] \in p.mapTx => o[1] = w \/ o[1] \in q.mapTx
  <2>1. /\ q \in GoodPools /\ q.mapTx \subseteq p.mapTx \ {w}
        /\ \A t \in q.mapTx : \A i \in ToSet(Vin[t]) :
             /\ i \notin ToSet(Vin[w])
             /\ i[2] \in Vout[i[1]] /\ i[1] \in p.mapTx => i[1] = w \/ i[1] \in q.mapTx
    BY <1>1, ConfirmIs
  <2>2. u \in q.mapTx
    OBVIOUS
  <2> HIDE DEF q
  <2> QED
    BY <2>1, <2>2
<1>3. u \in p.mapTx /\ u \in Txs
  <2>1. u \in p.mapTx
    BY <1>2
  <2> QED
    BY <2>1, PoolIs
<1> HIDE DEF q
<1>4. CASE \E y \in Gained(a, b) \ done : o \in ToSet(Vin[y])
  BY <1>2, <1>4
<1>5. CASE IsLeft(o, b)
  BY <1>5 DEF Spendable
<1>6. CASE o[1] \in q.mapTx /\ o[2] \in Vout[o[1]]
  BY <1>6 DEF Spendable, q
<1>7. CASE o[1] = w /\ o[2] \in Vout[o[1]]
  <2>1. IsLeft(o, b) \/ \E y \in Gained(a, b) : o \in ToSet(Vin[y])
    <3>1. IsOutpoint(o)
      BY <1>3, InputsOf
    <3>2. o[1] \in Gained(a, b) /\ o[2] \in Vout[o[1]]
      BY <1>7
    <3>3. a \in Blocks /\ b \in Blocks /\ ValidChain[b]
      OBVIOUS
    <3> QED
      BY ONLY <3>1, <3>2, <3>3, GainedIsLeft
  <2>2. \A y \in more : o \notin ToSet(Vin[y])
    BY <1>7 DEF NoneSpends
  <2> QED
    BY <2>1, <2>2 DEF Spendable
<1> QED
  BY <1>0, <1>2, <1>3, <1>4, <1>5, <1>6, <1>7 DEF Spendable

\* When the new branch is there too, every input of the pool's transactions is.
LEMMA AfterFits ==
  ASSUME coinsTip.best \in Blocks,
         NEW new \in Blocks, ValidChain[new], NEW view, pool \in GoodPools,
         \A t \in PoolBack(view, new).mapTx : \A o \in ToSet(Vin[t]) :
           /\ o[1] \in Blocks => Aged(o[1], new)
           /\ Supported(PoolBack(view, new), o, coinsTip.best, new)
  PROVE  PoolAfter(view, new) \in GoodPools /\ PoolFitsChain(PoolAfter(view, new), new)
<1> DEFINE tip == coinsTip.best
           s == Loose(vConnect(new))
           n == Len(s)
           D == GoodPools
           base == PoolBack(view, new)
           q == PoolAfter(view, new)
           G == ConfirmSteps(s)
           Done(k) == {s[j] : j \in 1..k}
           Fits(p, k) == p.mapTx \subseteq base.mapTx
                         /\ FitsUntil(p, Gained(tip, new) \ Done(k), new)
<1>1. /\ s \in Seq(Txs) /\ n \in Nat /\ base \in D /\ q \in D
      /\ Traced(D, n, base, G, q)
  BY PoolTraces
<1>2. PICK g : Trace(g, D, n, base, G) /\ q = g[n]
  BY <1>1 DEF Traced
<1>3. /\ \A k \in 1..n : s[k] \in Gained(tip, new)
      /\ \A y \in Gained(tip, new) : y \in Done(n)
  <2> DEFINE path == vConnect(new)
  <2>1. /\ path \in Seq(Blocks)
        /\ \A i \in 1..Len(path) : path[i] \in Chain[new] \ Chain[tip]
        /\ \A c \in Chain[new] \ Chain[tip] : \E i \in 1..Len(path) : c = path[i]
    BY PathsAre
  <2>2. s = Loose(path)
    OBVIOUS
  <2> HIDE DEF path, tip, s
  <2>3. InOrder(path, s, Len(path)) /\ Covers(path, s, Len(path))
    BY <2>1, <2>2, LooseIs
  <2>4. ASSUME NEW k \in 1..n PROVE s[k] \in Gained(tip, new)
    <3>1. s[k] \in Txs
      BY <1>1
    <3>2. PICK m \in 1..Len(path) : \E l \in 1..Len(Vtx[path[m]]) : s[k] = Vtx[path[m]][l]
      BY <2>3 DEF InOrder
    <3>3. PICK l \in 1..Len(Vtx[path[m]]) : s[k] = Vtx[path[m]][l]
      BY <3>2
    <3>4. path[m] \in Blocks /\ path[m] \in Chain[new] \ Chain[tip]
      <4>1. path[m] \in Chain[new] \ Chain[tip]
        BY <2>1
      <4> QED
        BY <4>1, Ancestors
    <3> DEFINE c == path[m]
    <3>5. c \in Blocks /\ c \in Chain[new] \ Chain[tip] /\ l \in 1..Len(Vtx[c]) /\ s[k] = Vtx[c][l]
      BY <3>3, <3>4
    <3> HIDE DEF c
    <3>6. s[k] \in ToSet(Vtx[c])
      BY <3>5, BlockTxs
    <3> QED
      BY <3>1, <3>5, <3>6 DEF Gained
  <2>5. ASSUME NEW y \in Gained(tip, new) PROVE y \in Done(n)
    <3>1. PICK c \in Chain[new] \ Chain[tip] : y \in ToSet(Vtx[c])
      BY DEF Gained
    <3>2. PICK i \in 1..Len(path) : c = path[i]
      BY <2>1
    <3>3. \E k \in 1..n : y = s[k]
      BY <2>3, <3>1, <3>2 DEF Covers
    <3> QED
      BY <3>3
  <2> QED
    BY <2>4, <2>5
<1>4. \A k \in 1..n : \A j \in 1..k : \A o \in ToSet(Vin[s[j]]) : o[1] # s[k]
  BY NothingBehind
<1>5. /\ tip \in Blocks
      /\ \A t \in base.mapTx : \A o \in ToSet(Vin[t]) :
           (o[1] \in Blocks => Aged(o[1], new)) /\ Supported(base, o, tip, new)
  OBVIOUS
<1> HIDE DEF tip, s, base, q
<1>6. Fits(base, 0)
  <2> SUFFICES ASSUME NEW t \in base.mapTx, NEW o \in ToSet(Vin[t])
               PROVE  Spendable(base, o, new) \/ \E y \in Gained(tip, new) \ Done(0) : o \in ToSet(Vin[y])
    BY DEF FitsUntil
  <2>1. Done(0) = {}
    OBVIOUS
  <2>2. Supported(base, o, tip, new)
    BY <1>5
  <2> QED
    BY <2>1, <2>2 DEF Supported
<1>7. ASSUME NEW k \in 1..n, g[k - 1] \in D, Fits(g[k - 1], k - 1)
      PROVE  g[k] \in D /\ Fits(g[k], k)
  <2>1. g[k] \in D /\ g[k] = G[<<g[k - 1], k>>]
    <3>1. StepOf(g, D, G, k)
      BY <1>1, <1>2, TraceSteps
    <3> QED
      BY <3>1 DEF StepOf
  <2>2. g[k] = Confirm(g[k - 1], s[k])
    BY <1>7, <2>1 DEF ConfirmSteps
  <2> DEFINE p == g[k - 1]
             w == s[k]
             done == Done(k - 1)
             more == Done(k)
  <2>3. p \in D /\ Fits(p, k - 1) /\ g[k] = Confirm(p, w)
    BY <1>7, <2>2
  <2>4. w \in Gained(tip, new) /\ w \in Txs
    BY <1>3 DEF Gained
  <2>5. more = done \cup {w}
    <3>1. \A j \in 1..k : j = k \/ j \in 1..(k - 1)
      BY <1>1
    <3>2. k \in 1..k /\ \A j \in 1..(k - 1) : j \in 1..k
      BY <1>1
    <3> QED
      BY <3>1, <3>2
  <2>6. NoneSpends(more, w)
    BY <1>4 DEF NoneSpends
  <2>7. p.mapTx \subseteq base.mapTx /\ FitsUntil(p, Gained(tip, new) \ done, new)
    BY <2>3
  <2> HIDE DEF p, w, done, more, Done
  <2>8. Confirm(p, w).mapTx \subseteq p.mapTx
    BY <2>3, <2>4, ConfirmIs
  <2>9. FitsUntil(Confirm(p, w), Gained(tip, new) \ more, new)
    <3>1. NoneSpends(done \cup {w}, w)
      BY <2>5, <2>6
    <3>2. FitsUntil(Confirm(p, w), Gained(tip, new) \ (done \cup {w}), new)
      BY <1>5, <2>3, <2>4, <2>7, <3>1, ConfirmFits
    <3> QED
      BY <2>5, <3>2
  <2> QED
    BY <2>1, <2>3, <2>7, <2>8, <2>9 DEF more
<1> HIDE DEF n, Fits, G, D
<1> DEFINE S == {k \in 0..n : g[k] \in D /\ Fits(g[k], k)}
<1>8. n \in S
  <2>1. 0 \in S
    BY <1>1, <1>2, <1>6 DEF Trace
  <2>2. ASSUME NEW k \in 1..n, k - 1 \in S PROVE k \in S
    BY <1>1, <1>7, <2>2
  <2> HIDE DEF S
  <2>3. \A k \in 0..n : k \in S
    BY <1>1, <2>1, <2>2, StepInduction
  <2> QED
    BY <1>1, <2>3
<1>9. Fits(q, n)
  BY <1>2, <1>8
<1>10. PoolFitsChain(q, new)
  <2> SUFFICES ASSUME NEW t \in q.mapTx, NEW o \in ToSet(Vin[t])
               PROVE  Spendable(q, o, new) /\ (o[1] \in Blocks => Aged(o[1], new))
    BY DEF PoolFitsChain
  <2> HIDE DEF Done
  <2>1. t \in base.mapTx
        /\ (Spendable(q, o, new) \/ \E y \in Gained(tip, new) \ Done(n) : o \in ToSet(Vin[y]))
    BY <1>9 DEF Fits, FitsUntil
  <2> QED
    BY <1>3, <1>5, <2>1 DEF n
<1> QED
  BY <1>1, <1>10 DEF q, D

-----------------------------------------------------------------------------
(* The steps of the node, and the pool *)

\* The pool and the orphan transactions are well-formed.
PoolRight ==
  /\ pool \in GoodPools
  /\ mapOrphanTransactions \subseteq Txs /\ IsFiniteSet(mapOrphanTransactions)
  /\ Cardinality(mapOrphanTransactions) <= MaxOrphanTxs

\* The pool fits the best chain; a node that is stopped has none.
PoolOnChain == PoolFitsChain(pool, pindexBest) /\ (~Running => pool = NoPool)

\* A step that has nothing to do with the pool: the best block, too, is another one only when
\* the node starts.
Quiet ==
  /\ pool' = pool /\ mapOrphanTransactions' = mapOrphanTransactions
  /\ \/ pindexBest' = pindexBest /\ Running'
     \/ ~Running

Forgets == pool' = NoPool /\ mapOrphanTransactions' = {}

LEMMA PoolSteps ==
  ASSUME ControlRight, [Next]_vars
  PROVE  \/ Quiet \/ Forgets
         \/ \E t \in Txs : ReceiveTx(t)
         \/ \E fFlush \in BOOLEAN : Commit(fFlush)
<1>1. ASSUME NEW b, NEW fIBD, AcceptBlock(b, fIBD) PROVE Quiet
  BY <1>1 DEF AcceptBlock, Quiet, Running, poolVars
<1>2. ASSUME NEW b \in Blocks, ReceiveBlock(b) \/ AcceptOrphanBlock(b) PROVE Quiet
  BY <1>1, <1>2 DEF ReceiveBlock, AcceptOrphanBlock
<1>3. ASSUME NEW b \in Blocks, ReceiveOrphanBlock(b) PROVE Quiet
  BY <1>3 DEF ReceiveOrphanBlock, Quiet, Running, poolVars
<1>4. ASSUME UNCHANGED vars PROVE Quiet
  BY <1>4 DEF vars, poolVars, Quiet, Running
<1>5. ASSUME NEW b \in Blocks, ReceiveKnownBlock(b) PROVE Quiet
  BY <1>4, <1>5 DEF ReceiveKnownBlock
<1>6. ASSUME NextInWorkQueue PROVE Quiet
  BY <1>6 DEF NextInWorkQueue, Quiet, Running, poolVars
<1>7. ASSUME NEW fOk, Return(fOk) PROVE Running'
  BY <1>7 DEF Return, Running
<1>8. ASSUME ConnectBestDone PROVE Quiet
  BY <1>7, <1>8 DEF ConnectBestDone, Quiet, poolVars
<1>9. ASSUME MarkDescendantsFailed PROVE Quiet
  BY <1>9 DEF MarkDescendantsFailed, Quiet, Running, poolVars
<1>10. ASSUME ConnectBestStart PROVE Quiet
  BY <1>10 DEF ConnectBestStart, Quiet, Running, poolVars
<1>11. ASSUME NEW fIBD, ConnectBranch(fIBD) PROVE Quiet
  <2>1. pool' = pool /\ mapOrphanTransactions' = mapOrphanTransactions /\ pindexBest' = pindexBest
    BY <1>11 DEF ConnectBranch, poolVars
  <2>2. pc' \in {"commit", "stopping"} \/ Return(FALSE)
    BY <1>11 DEF ConnectBranch
  <2> QED
    BY <1>7, <2>1, <2>2 DEF Quiet, Running
<1>12. ASSUME Shutdown \/ Kill \/ PowerLoss PROVE Forgets
  <2>1. LoseMemory
    BY <1>12 DEF Shutdown, Kill, PowerLoss
  <2> QED
    BY <2>1 DEF LoseMemory, Forgets
<1>13. ASSUME StartUp PROVE Quiet
  BY <1>13 DEF StartUp, Quiet, Running, poolVars
<1>14. ASSUME NEW fIBD, WriteFails(fIBD) PROVE Quiet
  BY <1>14 DEF WriteFails, Quiet, Running, poolVars
<1>15. ASSUME NEW fSynced, CommitFails(fSynced) PROVE Quiet
  BY <1>15 DEF CommitFails, Quiet, Running, poolVars
<1> QED
  BY <1>2, <1>3, <1>4, <1>5, <1>6, <1>8, <1>9, <1>10, <1>11, <1>12, <1>13, <1>14, <1>15
     DEF Next, Choose, SetBestChain

\* A transaction that is received is added, or is not.
LEMMA ReceiveTxIs ==
  ASSUME pool \in GoodPools, NEW t \in Txs, ReceiveTx(t)
  PROVE  /\ pool' \in GoodPools
         /\ \/ pool' = pool
            \/ /\ Acceptable(pool, TipView, pindexBest, t)
               /\ pool'.mapTx = pool.mapTx \cup {t}
         /\ \/ mapOrphanTransactions' \subseteq mapOrphanTransactions
            \/ mapOrphanTransactions' \in LimitOrphanTxSize(mapOrphanTransactions \cup {t})
<1> DEFINE p == addUnchecked(pool, t)
<1>1. CASE Acceptable(pool, TipView, pindexBest, t) /\ ProcessOrphans(t, p)
  <2>1. t \notin pool.mapTx /\ ~HasConflict(pool, t)
    BY <1>1 DEF Acceptable
  <2>2. p \in GoodPools /\ p.mapTx = pool.mapTx \cup {t}
    BY <2>1, AddKeepsPool
  <2> HIDE DEF p
  <2>3. ~Acceptable(p, TipView, pindexBest, t)
    BY <2>2 DEF Acceptable
  <2>4. pool' = p /\ mapOrphanTransactions' \subseteq mapOrphanTransactions
    BY <1>1, <2>3 DEF ProcessOrphans
  <2> QED
    BY <1>1, <2>2, <2>4
<1>2. CASE /\ mapOrphanTransactions' \in LimitOrphanTxSize(mapOrphanTransactions \cup {t})
           /\ UNCHANGED pool
  BY <1>2
<1> QED
  BY <1>1, <1>2 DEF ReceiveTx

\* There are never too many orphan transactions.
LEMMA OrphanTxsAreFew ==
  ASSUME MaxOrphanTxs \in Nat, NEW held, IsFiniteSet(held),
         NEW m \in LimitOrphanTxSize(held)
  PROVE  m \subseteq held /\ IsFiniteSet(m) /\ Cardinality(m) <= MaxOrphanTxs
<1>1. CASE Cardinality(held) <= MaxOrphanTxs
  BY <1>1 DEF LimitOrphanTxSize
<1>2. CASE ~(Cardinality(held) <= MaxOrphanTxs)
  <2>1. m \in SUBSET held /\ Cardinality(m) = MaxOrphanTxs
    BY <1>2 DEF LimitOrphanTxSize, kSubset
  <2>2. MaxOrphanTxs <= MaxOrphanTxs
    OBVIOUS
  <2> QED
    BY <2>1, <2>2, FS_Subset
<1> QED
  BY <1>1, <1>2

\* What Commit makes of the pool.
LEMMA CommitPoolIs ==
  ASSUME ChainRight,
         NEW fFlush \in BOOLEAN, Commit(fFlush)
  PROVE  LET new == Head(vAttach)
             view == Connected(new).view
         IN /\ new \in Blocks /\ ValidChain[new] /\ Same(view, Unspent[new])
            /\ coinsTip.best \in Blocks /\ coinsTip.best = pindexBest /\ Running
            /\ nChainWork[new] > nChainWork[coinsTip.best]
            /\ pindexBest' = new /\ pool' = PoolAfter(view, new)
            /\ mapOrphanTransactions' = mapOrphanTransactions
            /\ Running'
<1> DEFINE new == Head(vAttach)
           r == Connected(new)
<1>1. /\ pc = "commit" /\ Running /\ pindexBest' = new /\ pool' = PoolAfter(r.view, new)
      /\ mapOrphanTransactions' = mapOrphanTransactions
      /\ pc' = "set" \/ Return(TRUE)
  BY DEF Commit, Running
<1>2. Running'
  BY <1>1 DEF Running, Return
<1>3. /\ Stored /\ BestRight /\ CanConnect(new) /\ CommitWritten(fFlush)
  BY <1>1, CommitIs DEF ChainRight, AttachRight
<1>4. new \in Blocks /\ nChainWork[new] > nChainWork[pindexBest] /\ ValidChain[new]
  BY <1>3 DEF CommitWritten
<1>5. pindexBest = coinsTip.best /\ pindexBest \in Blocks
  BY <1>1, <1>3 DEF BestRight, Serving
<1>6. FilesRight(files) /\ TipRight
  BY <1>3, TipIs DEF Stored, FilesFit
<1> HIDE DEF new
<1>7. r.stop = "no" /\ Same(r.view, Unspent[new])
  BY <1>3, <1>4, <1>6, ReorgIs
<1> HIDE DEF r
<1> QED
  BY <1>1, <1>2, <1>4, <1>5, <1>7 DEF new, r

LEMMA NextKeepsPool ==
  ASSUME ChainRight, PoolRight, [Next]_vars
  PROVE  PoolRight'
<1>0. MaxOrphanTxs \in Nat /\ ControlRight
  BY StateAssumption DEF ChainRight
<1>1. CASE Quiet
  BY <1>1 DEF PoolRight, Quiet
<1>2. CASE Forgets
  <2>1. IsFiniteSet({}) /\ Cardinality({}) = 0
    BY FS_EmptySet
  <2>2. 0 <= MaxOrphanTxs
    BY <1>0
  <2> QED
    BY <1>2, <2>1, <2>2, NothingIsPool DEF PoolRight, Forgets
<1>3. ASSUME NEW t \in Txs, ReceiveTx(t) PROVE PoolRight'
  <2> DEFINE old == mapOrphanTransactions
             m == mapOrphanTransactions'
  <2>1. /\ pool' \in GoodPools
        /\ m \subseteq old \/ m \in LimitOrphanTxSize(old \cup {t})
        /\ old \subseteq Txs /\ IsFiniteSet(old) /\ Cardinality(old) <= MaxOrphanTxs
    BY <1>3, ReceiveTxIs DEF PoolRight
  <2> HIDE DEF old, m
  <2>2. CASE m \subseteq old
    <3>1. IsFiniteSet(m) /\ Cardinality(m) <= Cardinality(old)
          /\ Cardinality(m) \in Nat /\ Cardinality(old) \in Nat
      BY <2>1, <2>2, FS_Subset, FS_CardinalityType
    <3>2. Cardinality(m) <= MaxOrphanTxs
      BY <1>0, <2>1, <3>1
    <3> QED
      BY <2>1, <2>2, <3>1, <3>2 DEF PoolRight, m
  <2>3. CASE m \in LimitOrphanTxSize(old \cup {t})
    <3> DEFINE held == old \cup {t}
    <3>1. IsFiniteSet(held) /\ held \subseteq Txs
      BY <2>1, FS_AddElement
    <3>2. m \in LimitOrphanTxSize(held)
      BY <2>3
    <3> HIDE DEF held
    <3>3. m \subseteq held /\ IsFiniteSet(m) /\ Cardinality(m) <= MaxOrphanTxs
      BY <1>0, <3>1, <3>2, OrphanTxsAreFew
    <3> QED
      BY <2>1, <3>1, <3>3 DEF PoolRight, m
  <2> QED
    BY <2>1, <2>2, <2>3
<1>4. ASSUME NEW fFlush \in BOOLEAN, Commit(fFlush) PROVE PoolRight'
  <2> DEFINE new == Head(vAttach)
             view == Connected(new).view
  <2>1. /\ new \in Blocks /\ coinsTip.best \in Blocks /\ pool' = PoolAfter(view, new)
        /\ mapOrphanTransactions' = mapOrphanTransactions
    BY <1>4, CommitPoolIs
  <2> HIDE DEF new, view
  <2>2. pool \in GoodPools
    BY DEF PoolRight
  <2>3. PoolAfter(view, new) \in GoodPools
    BY <2>1, <2>2, PoolTraces
  <2> QED
    BY <2>1, <2>3 DEF PoolRight
<1> QED
  BY <1>0, <1>1, <1>2, <1>3, <1>4, PoolSteps

LEMMA NextKeepsPoolOnChain ==
  ASSUME MatureStays,
         ChainRight, PoolRight, PoolOnChain, [Next]_vars
  PROVE  PoolOnChain'
<1>0. ControlRight /\ Stored /\ BestRight /\ pool \in GoodPools
  BY DEF ChainRight, PoolRight
<1>1. \A b : PoolFitsChain(NoPool, b)
  BY NothingIsPool DEF PoolFitsChain
<1>2. CASE Quiet
  <2>1. CASE pindexBest' = pindexBest /\ Running'
    BY <1>2, <2>1 DEF Quiet, PoolOnChain
  <2>2. CASE ~Running
    BY <1>1, <1>2, <2>2 DEF Quiet, PoolOnChain
  <2> QED
    BY <1>2, <2>1, <2>2 DEF Quiet
<1>3. CASE Forgets
  BY <1>1, <1>3 DEF Forgets, PoolOnChain
<1>4. ASSUME NEW t \in Txs, ReceiveTx(t) PROVE PoolOnChain'
  <2>1. /\ pc = "idle" /\ pc' = pc /\ pindexBest' = pindexBest /\ Running /\ Running'
    BY <1>4 DEF ReceiveTx, Running
  <2>2. CASE pool' = pool
    BY <2>1, <2>2 DEF PoolOnChain
  <2>3. CASE Acceptable(pool, TipView, pindexBest, t) /\ pool'.mapTx = pool.mapTx \cup {t}
    <3> DEFINE best == pindexBest
    <3>1. best \in Blocks /\ Same(TipView, Unspent[best])
      BY <1>0, <2>1, TipIs DEF BestRight, Serving, TipRight
    <3>2. PICK view : view = TipView
      OBVIOUS
    <3>3. PICK q : q = pool'
      OBVIOUS
    <3>4. PICK b : b = pindexBest
      OBVIOUS
    <3>5. b \in Blocks /\ Same(view, Unspent[b]) /\ Acceptable(pool, view, b, t)
      BY <2>3, <3>1, <3>2, <3>4
    <3>6. ASSUME NEW u \in q.mapTx, NEW o \in ToSet(Vin[u])
          PROVE  Spendable(q, o, b) /\ (o[1] \in Blocks => Aged(o[1], b))
      <4>1. q.mapTx = pool.mapTx \cup {t}
        BY <2>3, <3>3
      <4>2. Spendable(pool, o, b) /\ (o[1] \in Blocks => Aged(o[1], b))
        <5>1. CASE u = t
          BY <1>0, <3>5, <3>6, <5>1, AcceptedFits
        <5>2. CASE u \in pool.mapTx
          BY <3>4, <3>6, <5>2 DEF PoolOnChain, PoolFitsChain
        <5> QED
          BY <4>1, <5>1, <5>2
      <4> QED
        BY <4>1, <4>2 DEF Spendable
    <3>7. PoolFitsChain(q, b)
      BY <3>6 DEF PoolFitsChain
    <3>8. pindexBest' = b /\ pool' = q
      BY <2>1, <3>3, <3>4
    <3> QED
      BY <2>1, <3>7, <3>8 DEF PoolOnChain
  <2> QED
    BY <1>0, <1>4, <2>2, <2>3, ReceiveTxIs
<1>5. ASSUME NEW fFlush \in BOOLEAN, Commit(fFlush) PROVE PoolOnChain'
  <2> DEFINE new == Head(vAttach)
             view == Connected(new).view
  <2>1. /\ new \in Blocks /\ ValidChain[new] /\ Same(view, Unspent[new])
        /\ coinsTip.best \in Blocks /\ coinsTip.best = pindexBest
        /\ nChainWork[new] > nChainWork[coinsTip.best]
        /\ pindexBest' = new /\ pool' = PoolAfter(view, new) /\ Running'
    BY <1>5, CommitPoolIs
  <2> HIDE DEF new, view
  <2>2. PICK b, v : b = new /\ v = view
    OBVIOUS
  <2>3. /\ b \in Blocks /\ ValidChain[b] /\ Same(v, Unspent[b]) /\ nChainWork[b] > nChainWork[coinsTip.best]
        /\ PoolFitsChain(pool, coinsTip.best)
    BY <2>1, <2>2 DEF PoolOnChain
  <2>4. PICK q : q = PoolAfter(v, b)
    OBVIOUS
  <2>5. PoolFitsChain(q, b)
    <3>1. \A t \in PoolBack(v, b).mapTx : \A o \in ToSet(Vin[t]) :
            /\ o[1] \in Blocks => Aged(o[1], b)
            /\ Supported(PoolBack(v, b), o, coinsTip.best, b)
      BY <1>0, <2>1, <2>3, BackFits
    <3> QED
      BY <1>0, <2>1, <2>3, <2>4, <3>1, AfterFits
  <2>6. pindexBest' = b /\ pool' = q
    BY <2>1, <2>2, <2>4
  <2> QED
    BY <2>1, <2>5, <2>6 DEF PoolOnChain
<1> QED
  BY <1>0, <1>2, <1>3, <1>4, <1>5, PoolSteps

LEMMA InitPool ==
  ASSUME Init
  PROVE  PoolRight /\ PoolOnChain
<1>1. pool = NoPool /\ mapOrphanTransactions = {}
  BY DEF Init
<1>2. PoolFitsChain(NoPool, pindexBest)
  BY NothingIsPool DEF PoolFitsChain
<1>3. IsFiniteSet({}) /\ Cardinality({}) = 0 /\ 0 <= MaxOrphanTxs
  BY FS_EmptySet, StateAssumption
<1> QED
  BY <1>1, <1>2, <1>3, NothingIsPool DEF PoolRight, PoolOnChain

\* The two maps of the pool always agree, whatever is reorganised: no two of its transactions
\* spend the same output, and mapNextTx names who spends what; and the orphan transactions
\* are never too many.  (CTxMemPool, LimitOrphanTxSize)
THEOREM PoolRightAlways == Spec => []PoolRight
<1>1. Init => PoolRight
  BY InitPool
<1>2. ChainRight /\ PoolRight /\ [Next]_vars => PoolRight'
  BY NextKeepsPool
<1> QED
  BY <1>1, <1>2, ChainRightAlways, PTL DEF Spec

\* Every variable of the chain state has its type.
THEOREM TypesAlwaysRight == Spec => []TypeOK
<1>1. ASSUME ChainRight, PoolRight PROVE TypeOK
  <2>1. Stored /\ BestRight /\ ControlRight
    BY <1>1 DEF ChainRight
  <2>2. Known \subseteq Blocks /\ \A b \in Known : index[b] \in Status
    BY <2>1 DEF Stored, EntriesRight, Known
  <2>3. files.data \subseteq Blocks /\ DOMAIN files.undo \subseteq Blocks
    BY <2>1 DEF Stored, FilesFit
  <2>4. DOMAIN coinsTip.cache \subseteq TxIds /\ coinsTip.best \in Blocks
    BY <2>1 DEF Stored, TipFits, CacheFits
  <2>5. coinsDB.view \in Views /\ coinsDB.best \in Blocks
    BY <2>1, DBIs DEF Stored, DBRight
  <2>6. setBlockIndexValid \subseteq Blocks /\ pindexBest \in Blocks
    BY <2>1 DEF BestRight
  <2>7. /\ pc \in {"idle", "connect", "set", "commit", "orphans", "stopping", "off", "corrupt"}
        /\ accepting \in Blocks \cup {NoBlock} /\ mapOrphanBlocks \subseteq Blocks
        /\ stops \in 0..MaxStops /\ unsynced \in BOOLEAN
    BY <2>1, <2>2 DEF ControlRight, PCs
  <2>8. ToSet(vAttach) \subseteq Blocks /\ ToSet(vWorkQueue) \subseteq Blocks
    <3>1. vAttach \in Seq(Known) /\ vWorkQueue \in Seq(Known)
      BY <2>1 DEF ControlRight
    <3> HIDE DEF Known
    <3>2. ToSet(vAttach) \subseteq Known /\ ToSet(vWorkQueue) \subseteq Known
      BY <3>1 DEF ToSet
    <3> QED
      BY <2>2, <3>2
  <2>9. /\ pool.mapTx \subseteq Txs /\ mapOrphanTransactions \subseteq Txs
        /\ Cardinality(mapOrphanTransactions) <= MaxOrphanTxs
    BY <1>1, PoolIs DEF PoolRight
  <2> QED
    BY <2>2, <2>3, <2>4, <2>5, <2>6, <2>7, <2>8, <2>9 DEF TypeOK
<1> QED
  BY <1>1, ChainRightAlways, PoolRightAlways, PTL

\* Every input of a transaction of the pool is an output that the best chain has left, or one
\* of another transaction of the pool, after any reorganisation no deeper than
\* COINBASE_MATURITY, until a failed write makes the node stop.  (CTxMemPool, SetBestChain)
THEOREM PoolAlwaysConnects == ASSUME MatureStays PROVE Spec => []PoolConnects
<1>1. Init => PoolOnChain
  BY InitPool
<1>2. ChainRight /\ PoolRight /\ PoolOnChain /\ [Next]_vars => PoolOnChain'
  BY NextKeepsPoolOnChain
<1>3. ASSUME ChainRight, PoolRight, PoolOnChain PROVE PoolConnects
  <2> SUFFICES ASSUME Serving
               PROVE  /\ Agree(pool)
                      /\ \A t \in pool.mapTx : \A o \in ToSet(Vin[t]) :
                           o[2] \in TipView[o[1]].out \/ o[1] \in pool.mapTx
    BY DEF PoolConnects, Agree
  <2>1. Agree(pool) /\ pool.mapTx \subseteq Txs
    BY <1>3, PoolIs DEF PoolRight
  <2>2. Stored /\ BestRight
    BY <1>3 DEF ChainRight
  <2>3. TipRight /\ coinsTip.best = pindexBest
    BY <2>2, TipIs DEF BestRight
  <2>4. \A t \in TxIds : TipView[t].out = Unspent[pindexBest][t].out
    BY <2>3 DEF TipRight, Same
  <2>5. ASSUME NEW t \in pool.mapTx, NEW o \in ToSet(Vin[t])
        PROVE  o[2] \in TipView[o[1]].out \/ o[1] \in pool.mapTx
    <3>1. Spendable(pool, o, pindexBest)
      BY <1>3 DEF PoolOnChain, PoolFitsChain
    <3>2. o[1] \in TxIds
      <4>1. IsOutpoint(o)
        BY <2>1, <2>5, InputsOf, CoinsAssumption
      <4> QED
        BY <4>1 DEF IsOutpoint
    <3> QED
      BY <2>4, <3>1, <3>2 DEF Spendable, IsLeft
  <2> QED
    BY <2>1, <2>5
<1> QED
  BY <1>1, <1>2, <1>3, ChainRightAlways, PoolRightAlways, PTL DEF Spec
=============================================================================
