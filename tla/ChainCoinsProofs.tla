--------------------------- MODULE ChainCoinsProofs ---------------------------
(***************************************************************************)
(* Facts about the tree of blocks, about what ConnectBlock and             *)
(* DisconnectBlock do to a coin view, and about the operators on the pool. *)
(***************************************************************************)
EXTENDS TxPool, FiniteSetsExt, SumLemmas

-----------------------------------------------------------------------------
(* Folds *)

\* The greatest member of a finite set of integers is one of them.
LEMMA MaxIsMember ==
  ASSUME NEW T, T \subseteq Int, IsFiniteSet(T)
  PROVE  \A S \in SUBSET T : S # {} => Max(S) \in S /\ \A y \in S : Max(S) >= y
<1> DEFINE P == {S \in SUBSET T : S # {} => \E x \in S : \A y \in S : x >= y}
<1>1. {} \in P
  OBVIOUS
<1>2. ASSUME NEW S \in SUBSET T, NEW x \in S, S \ {x} \in P
      PROVE  S \in P
  <2>1. CASE S = {x}
    BY <2>1
  <2>2. CASE S # {x}
    <3>1. PICK z \in S \ {x} : \A y \in S \ {x} : z >= y
      BY <1>2, <2>2
    <3>2. CASE x >= z
      <4>1. \A y \in S : x >= y
        BY <3>1, <3>2
      <4> QED
        BY <4>1
    <3>3. CASE ~(x >= z)
      <4>1. \A y \in S : z >= y
        BY <3>1, <3>3
      <4> QED
        BY <4>1
    <3> QED
      BY <3>2, <3>3
  <2> QED
    BY <2>1, <2>2
<1> HIDE DEF P
<1>3. \A S \in SUBSET T : S \in P
  BY <1>1, <1>2, RemoveInduction
<1> QED
  BY <1>3 DEF P, Max

\* The greatest number up to i.
LEMMA MaxOfInterval ==
  ASSUME NEW i \in Nat \ {0}
  PROVE  Max(1..i) = i /\ (1..i) \ {i} = 1..(i - 1)
<1>1. i \in 1..i /\ \A y \in 1..i : i >= y
  OBVIOUS
<1>2. \A x \in 1..i : (\A y \in 1..i : x >= y) => x = i
  BY <1>1
<1> QED
  BY <1>1, <1>2 DEF Max

\* f folds base along 1..n by G, as FoldLeft does, on the sets of S.
FoldsOn(f, S, base, G) ==
  \A s \in S : f[s] = IF s = {} THEN base ELSE G[<<f[s \ {Max(s)}], Max(s)>>]

\* There is such a function on all subsets of a finite set of integers.
LEMMA FoldExists ==
  ASSUME NEW T, T \subseteq Int, IsFiniteSet(T),
         NEW D, NEW base \in D, NEW G \in [D \X T -> D]
  PROVE  \E f \in [SUBSET T -> D] : FoldsOn(f, SUBSET T, base, G)
<1> DEFINE N == {k \in Nat : \E f \in [Upto(T, k) -> D] : FoldsOn(f, Upto(T, k), base, G)}
<1>0. \A s \in SUBSET T : Cardinality(s) \in Nat /\ (Cardinality(s) = 0 => s = {})
  BY SubsetSize
<1>1. Cardinality(T) \in Nat
  BY FS_CardinalityType
<1>2. \A S \in SUBSET T : S # {} => Max(S) \in S
  BY MaxIsMember
<1>3. 0 \in N
  <2>1. \A s \in Upto(T, 0) : s = {}
    BY <1>0 DEF Upto
  <2> DEFINE f == [s \in Upto(T, 0) |-> base]
  <2>2. FoldsOn(f, Upto(T, 0), base, G) /\ f \in [Upto(T, 0) -> D]
    BY <2>1 DEF FoldsOn
  <2> QED
    BY <2>2
<1>4. ASSUME NEW k \in Nat, k \in N
      PROVE  k + 1 \in N
  <2>1. PICK g \in [Upto(T, k) -> D] : FoldsOn(g, Upto(T, k), base, G)
    BY <1>4
  <2> DEFINE h == [s \in Upto(T, k + 1) |->
                     IF s = {} THEN base ELSE G[<<g[s \ {Max(s)}], Max(s)>>]]
  <2>2. ASSUME NEW s \in Upto(T, k + 1), s # {}
        PROVE  s \ {Max(s)} \in Upto(T, k) /\ Max(s) \in T
    <3>1. Max(s) \in s /\ s \in SUBSET T
      BY <1>2, <2>2 DEF Upto
    <3>2. /\ Cardinality(s \ {Max(s)}) = Cardinality(s) - 1
          /\ Cardinality(s) \in Nat /\ Cardinality(s) <= k + 1
      BY <3>1, SubsetSize DEF Upto
    <3>3. Cardinality(s \ {Max(s)}) <= k
      BY <3>2
    <3> QED
      BY <3>1, <3>3 DEF Upto
  <2>3. ASSUME NEW s \in Upto(T, k)
        PROVE  h[s] = g[s]
    <3>1. s \in SUBSET T /\ Cardinality(s) \in Nat /\ Cardinality(s) <= k
      BY <1>0 DEF Upto
    <3>2. s \in Upto(T, k + 1)
      BY <3>1 DEF Upto
    <3> QED
      BY <2>1, <3>2 DEF FoldsOn
  <2>4. FoldsOn(h, Upto(T, k + 1), base, G)
    <3> SUFFICES ASSUME NEW s \in Upto(T, k + 1)
                 PROVE  h[s] = IF s = {} THEN base ELSE G[<<h[s \ {Max(s)}], Max(s)>>]
      BY DEF FoldsOn
    <3>1. CASE s = {}
      BY <3>1
    <3>2. CASE s # {}
      <4>1. h[s \ {Max(s)}] = g[s \ {Max(s)}]
        BY <2>2, <2>3, <3>2
      <4>2. h[s] = G[<<g[s \ {Max(s)}], Max(s)>>]
        BY <3>2
      <4> HIDE DEF h
      <4> QED
        BY <3>2, <4>1, <4>2
    <3> QED
      BY <3>1, <3>2
  <2>5. h \in [Upto(T, k + 1) -> D]
    <3> SUFFICES ASSUME NEW s \in Upto(T, k + 1), s # {}
                 PROVE  G[<<g[s \ {Max(s)}], Max(s)>>] \in D
      OBVIOUS
    <3> QED
      BY <2>2
  <2> HIDE DEF h
  <2>6. k + 1 \in Nat
    OBVIOUS
  <2> QED
    BY <2>4, <2>5, <2>6
<1> HIDE DEF N
<1>5. Cardinality(T) \in N
  BY <1>1, <1>3, <1>4, NatSetInduction
<1>6. \A s \in SUBSET T : Cardinality(s) <= Cardinality(T)
  BY FS_Subset
<1>7. Upto(T, Cardinality(T)) = SUBSET T
  BY <1>6 DEF Upto
<1> QED
  BY <1>5, <1>7 DEF N

\* The values of a fold along 1..n, one after the other.
Trace(g, D, n, base, G) ==
  /\ g \in [0..n -> D]
  /\ g[0] = base
  /\ \A i \in 1..n : g[i] = G[<<g[i - 1], i>>]

\* f folds by G where it stays in D.
FoldsIn(f, D, n, base, G) ==
  /\ f[{}] = base
  /\ \A s \in SUBSET (1..n) :
       s # {} /\ f[s \ {Max(s)}] \in D => f[s] = G[<<f[s \ {Max(s)}], Max(s)>>]

\* What it makes of all of 1..n is the end of a trace.
EndsTrace(f, D, n, base, G) == \E g : Trace(g, D, n, base, G) /\ f[1..n] = g[n]

StepOn(G, D, n) == G \in [D \X (1..n) -> D]

LEMMA FoldTrace ==
  ASSUME NEW D, NEW n \in Nat, NEW base \in D, NEW G, StepOn(G, D, n),
         NEW f, FoldsIn(f, D, n, base, G)
  PROVE  EndsTrace(f, D, n, base, G)
<1>0. G \in [D \X (1..n) -> D]
  BY DEF StepOn
<1> DEFINE g == [i \in 0..n |-> f[1..i]]
           N == {i \in Nat : i <= n => f[1..i] \in D}
<1>1. 0 \in N
  <2>1. f[1..0] = base
    <3>1. 1..0 = {}
      OBVIOUS
    <3> QED
      BY <3>1 DEF FoldsIn
  <2> QED
    BY <2>1
<1>2. ASSUME NEW i \in Nat, i + 1 <= n, f[1..i] \in D
      PROVE  f[1..(i + 1)] = G[<<f[1..i], i + 1>>] /\ f[1..(i + 1)] \in D
  <2>1. i + 1 \in Nat \ {0} /\ (i + 1) - 1 = i
    OBVIOUS
  <2>2. Max(1..(i + 1)) = i + 1 /\ (1..(i + 1)) \ {i + 1} = 1..i
    BY <2>1, MaxOfInterval
  <2>3. 1..(i + 1) \in SUBSET (1..n) /\ 1..(i + 1) # {} /\ i + 1 \in 1..n
    <3>1. i + 1 \in 1..(i + 1) /\ i + 1 \in 1..n
      BY <1>2
    <3>2. \A j \in 1..(i + 1) : j \in 1..n
      BY <1>2
    <3> QED
      BY <3>1, <3>2
  <2>4. f[1..(i + 1)] = G[<<f[1..i], i + 1>>]
    BY <1>2, <2>2, <2>3 DEF FoldsIn
  <2> QED
    BY <1>0, <1>2, <2>3, <2>4
<1>3. ASSUME NEW i \in Nat, i \in N
      PROVE  i + 1 \in N
  <2>1. i + 1 \in Nat /\ (i + 1 <= n => i <= n)
    OBVIOUS
  <2> QED
    BY <1>2, <1>3, <2>1
<1> HIDE DEF N
<1>4. \A i \in Nat : i \in N
  BY <1>1, <1>3, NatSetInduction
<1>5. \A i \in 0..n : f[1..i] \in D
  BY <1>4 DEF N
<1>6. g \in [0..n -> D]
  BY <1>5
<1>7. g[0] = base
  <2>1. 1..0 = {} /\ 0 \in 0..n
    OBVIOUS
  <2> QED
    BY <2>1 DEF FoldsIn
<1>8. ASSUME NEW i \in 1..n
      PROVE  g[i] = G[<<g[i - 1], i>>]
  <2>1. i - 1 \in Nat /\ (i - 1) + 1 = i /\ i - 1 \in 0..n /\ i \in 0..n /\ i <= n
    OBVIOUS
  <2>2. f[1..(i - 1)] \in D
    BY <1>5, <2>1
  <2>3. f[1..((i - 1) + 1)] = G[<<f[1..(i - 1)], (i - 1) + 1>>]
    BY <1>2, <2>1, <2>2
  <2> QED
    BY <2>1, <2>3
<1>9. f[1..n] = g[n]
  OBVIOUS
<1> HIDE DEF g
<1> QED
  BY <1>6, <1>7, <1>8, <1>9 DEF Trace, EndsTrace

\* A step of a trace.
StepOf(g, D, G, k) == g[k - 1] \in D /\ g[k] \in D /\ g[k] = G[<<g[k - 1], k>>]

LEMMA TraceSteps ==
  ASSUME NEW D, NEW n \in Nat, NEW base, NEW G, NEW g, Trace(g, D, n, base, G)
  PROVE  \A k \in 1..n : StepOf(g, D, G, k)
<1> TAKE k \in 1..n
<1>1. k - 1 \in 0..n /\ k \in 0..n
  OBVIOUS
<1>2. g[k - 1] \in D /\ g[k] \in D
  BY <1>1 DEF Trace
<1>3. g[k] = G[<<g[k - 1], k>>]
  BY DEF Trace
<1> QED
  BY <1>2, <1>3 DEF StepOf

\* Induction along one.
LEMMA StepInduction ==
  ASSUME NEW n \in Nat, NEW S, 0 \in S, \A k \in 1..n : k - 1 \in S => k \in S
  PROVE  \A k \in 0..n : k \in S
<1> DEFINE N == {i \in Nat : i <= n => i \in S}
<1>1. 0 \in N
  OBVIOUS
<1>2. ASSUME NEW i \in Nat, i \in N
      PROVE  i + 1 \in N
  <2>1. i + 1 \in Nat /\ (i + 1 <= n => i + 1 \in 1..n /\ i <= n /\ (i + 1) - 1 = i)
    OBVIOUS
  <2>2. i + 1 <= n => i + 1 \in S
    BY <1>2, <2>1
  <2> QED
    BY <2>1, <2>2
<1> HIDE DEF N
<1>3. \A i \in Nat : i \in N
  BY <1>1, <1>2, NatSetInduction
<1> QED
  BY <1>3 DEF N

-----------------------------------------------------------------------------
(* The tree of blocks *)

\* Induction along the tree, for a set instead of a predicate.
LEMMA TreeInduction ==
  ASSUME NEW S, Base \in S,
         \A b \in Blocks \ {Base} : Parent[b] \in S => b \in S
  PROVE  Blocks \subseteq S
<1>1. HoldsSuccessors(S \cap Blocks)
  BY TreeAssumption DEF HoldsSuccessors
<1>2. S \cap Blocks = Blocks
  BY <1>1, TreeAssumption
<1> QED
  BY <1>2

\* f gives Base v0 and each other block of D what G makes of its predecessor's.
Follows(f, D, v0, G) ==
  \A b \in D : f[b] = IF b = Base THEN v0 ELSE G[<<b, f[Parent[b]]>>]

\* D holds the predecessor of each of its blocks.
HoldsParents(D) == D \subseteq Blocks /\ \A b \in D \ {Base} : Parent[b] \in D

\* f is such a function on a part of the tree.
Partly(D, f, V, v0, G) == HoldsParents(D) /\ f \in [D -> V] /\ Follows(f, D, v0, G)

\* Two of them agree.
LEMMA PartsAgree ==
  ASSUME NEW V, NEW v0, NEW G, NEW b \in Blocks,
         NEW D, NEW f, Partly(D, f, V, v0, G), NEW E, NEW g, Partly(E, g, V, v0, G),
         b \in D, b \in E
  PROVE  f[b] = g[b]
<1> DEFINE S == {c \in Blocks : c \in D /\ c \in E => f[c] = g[c]}
<1>1. Base \in S
  BY TreeAssumption DEF Partly, Follows
<1>2. ASSUME NEW c \in Blocks \ {Base}, Parent[c] \in S
      PROVE  c \in S
  BY <1>2 DEF Partly, Follows, HoldsParents
<1> HIDE DEF S
<1>3. Blocks \subseteq S
  BY <1>1, <1>2, TreeInduction
<1> QED
  BY <1>3 DEF S

\* Every block is in a part on which there is one.
LEMMA PartExists ==
  ASSUME NEW V, NEW v0 \in V, NEW G \in [Blocks \X V -> V], NEW b \in Blocks
  PROVE  \E D, f : Partly(D, f, V, v0, G) /\ b \in D
<1> DEFINE S == {c \in Blocks : \E D, f : Partly(D, f, V, v0, G) /\ c \in D}
<1>1. Base \in S
  <2> DEFINE f == [c \in {Base} |-> v0]
  <2>1. Partly({Base}, f, V, v0, G)
    BY TreeAssumption DEF Partly, Follows, HoldsParents
  <2> QED
    BY <2>1, TreeAssumption
<1>2. ASSUME NEW c \in Blocks \ {Base}, Parent[c] \in S
      PROVE  c \in S
  <2>1. PICK D, f : Partly(D, f, V, v0, G) /\ Parent[c] \in D
    BY <1>2
  <2>2. CASE c \in D
    BY <2>1, <2>2
  <2>3. CASE c \notin D
    <3> DEFINE g == [d \in D \cup {c} |-> IF d = c THEN G[<<c, f[Parent[c]]>>] ELSE f[d]]
    <3>1. g \in [D \cup {c} -> V]
      BY <2>1 DEF Partly
    <3>2. HoldsParents(D \cup {c})
      BY <2>1 DEF Partly, HoldsParents
    <3>3. ASSUME NEW d \in D \cup {c}
          PROVE  g[d] = IF d = Base THEN v0 ELSE G[<<d, g[Parent[d]]>>]
      <4>1. CASE d = c
        BY <2>1, <2>3, <4>1
      <4>2. CASE d # c
        <5>1. d \in D /\ (d # Base => Parent[d] \in D)
          BY <2>1, <4>2 DEF Partly, HoldsParents
        <5>2. g[d] = f[d] /\ (d # Base => g[Parent[d]] = f[Parent[d]])
          BY <2>3, <5>1, <4>2
        <5> HIDE DEF g
        <5> QED
          BY <2>1, <5>1, <5>2 DEF Partly, Follows
      <4> QED
        BY <4>1, <4>2
    <3> HIDE DEF g
    <3>4. Partly(D \cup {c}, g, V, v0, G)
      BY <3>1, <3>2, <3>3 DEF Partly, Follows
    <3> QED
      BY <3>4
  <2> QED
    BY <2>2, <2>3
<1> HIDE DEF S
<1>3. Blocks \subseteq S
  BY <1>1, <1>2, TreeInduction
<1> QED
  BY <1>3 DEF S

\* There is such a function on the whole tree.
LEMMA TreeRecursion ==
  ASSUME NEW V, NEW v0 \in V, NEW G \in [Blocks \X V -> V]
  PROVE  \E h \in [Blocks -> V] : Follows(h, Blocks, v0, G)
<1> DEFINE IsAt(b, v) == \E D, f : Partly(D, f, V, v0, G) /\ b \in D /\ v = f[b]
           h == [b \in Blocks |-> CHOOSE v \in V : IsAt(b, v)]
<1>1. ASSUME NEW b \in Blocks, NEW D, NEW f, Partly(D, f, V, v0, G), b \in D
      PROVE  h[b] = f[b]
  <2>1. f[b] \in V /\ IsAt(b, f[b])
    BY <1>1 DEF Partly
  <2>2. \A v \in V : IsAt(b, v) => v = f[b]
    BY <1>1, PartsAgree
  <2> HIDE DEF IsAt
  <2> QED
    BY <2>1, <2>2
<1> HIDE DEF h
<1>2. ASSUME NEW b \in Blocks
      PROVE  /\ h[b] \in V
             /\ h[b] = IF b = Base THEN v0 ELSE G[<<b, h[Parent[b]]>>]
  <2>1. PICK D, f : Partly(D, f, V, v0, G) /\ b \in D
    BY PartExists
  <2>2. h[b] = f[b]
    BY <1>1, <2>1
  <2>3. b # Base => Parent[b] \in Blocks /\ Parent[b] \in D
    BY <2>1 DEF Partly, HoldsParents
  <2>4. b # Base => h[Parent[b]] = f[Parent[b]]
    BY <1>1, <2>1, <2>3
  <2> QED
    BY <2>1, <2>2, <2>4 DEF Partly, Follows
<1>3. h \in [Blocks -> V]
  <2>1. h = [b \in Blocks |-> h[b]]
    BY DEF h
  <2> QED
    BY <1>2, <2>1
<1>4. Follows(h, Blocks, v0, G)
  BY <1>2 DEF Follows
<1> QED
  BY <1>3, <1>4

\* The height of a block is one more than that of the block before it.
LEMMA Heights ==
  /\ nHeight \in [Blocks -> Nat \ {0}]
  /\ nHeight[Base] = 1
  /\ \A b \in Blocks \ {Base} : nHeight[b] = nHeight[Parent[b]] + 1
<1> DEFINE G == [p \in Blocks \X (Nat \ {0}) |-> p[2] + 1]
<1>1. G \in [Blocks \X (Nat \ {0}) -> Nat \ {0}] /\ 1 \in Nat \ {0}
  OBVIOUS
<1>2. \A b \in Blocks, v \in Nat \ {0} : G[<<b, v>>] = v + 1
  OBVIOUS
<1>3. Base \in Blocks /\ \A b \in Blocks \ {Base} : Parent[b] \in Blocks
  BY TreeAssumption
<1> HIDE DEF G
<1>4. PICK h \in [Blocks -> Nat \ {0}] : Follows(h, Blocks, 1, G)
  BY <1>1, TreeRecursion
<1>5. h = [b \in Blocks |-> IF b = Base THEN 1 ELSE h[Parent[b]] + 1]
  <2>1. ASSUME NEW b \in Blocks
        PROVE  h[b] = IF b = Base THEN 1 ELSE h[Parent[b]] + 1
    BY <1>2, <1>3, <1>4 DEF Follows
  <2>2. h = [b \in Blocks |-> h[b]]
    OBVIOUS
  <2> QED
    BY <2>1, <2>2
<1> DEFINE F == CHOOSE f : f = [b \in Blocks |-> IF b = Base THEN 1 ELSE f[Parent[b]] + 1]
<1>6. F = [b \in Blocks |-> IF b = Base THEN 1 ELSE F[Parent[b]] + 1]
  BY <1>5
<1>7. nHeight = F
  BY DEF nHeight
<1> HIDE DEF F
<1> DEFINE S == {b \in Blocks : F[b] \in Nat \ {0}}
<1>8. Base \in S
  BY <1>3, <1>6
<1>9. ASSUME NEW b \in Blocks \ {Base}, Parent[b] \in S
      PROVE  b \in S
  <2>1. F[b] = F[Parent[b]] + 1
    BY <1>6
  <2> QED
    BY <1>9, <2>1
<1> HIDE DEF S
<1>10. Blocks \subseteq S
  BY <1>8, <1>9, TreeInduction
<1>11. F \in [Blocks -> Nat \ {0}]
  BY <1>6, <1>10 DEF S
<1> QED
  BY <1>3, <1>6, <1>7, <1>11

\* The work up to a block is that up to the block before it and its own.
LEMMA Works ==
  /\ nChainWork \in [Blocks -> Nat]
  /\ nChainWork[Base] = 0
  /\ \A b \in Blocks \ {Base} :
       nChainWork[b] = nChainWork[Parent[b]] + BlockWork[b] /\ BlockWork[b] \in Nat \ {0}
<1> DEFINE G == [p \in Blocks \X Nat |-> p[2] + BlockWork[p[1]]]
<1>1. /\ Base \in Blocks /\ \A b \in Blocks \ {Base} : Parent[b] \in Blocks
      /\ \A b \in Blocks : BlockWork[b] \in Nat \ {0}
  BY TreeAssumption
<1>2. G \in [Blocks \X Nat -> Nat] /\ 0 \in Nat
  BY <1>1
<1>3. \A b \in Blocks, v \in Nat : G[<<b, v>>] = v + BlockWork[b]
  OBVIOUS
<1> HIDE DEF G
<1>4. PICK h \in [Blocks -> Nat] : Follows(h, Blocks, 0, G)
  BY <1>2, TreeRecursion
<1>5. h = [b \in Blocks |-> IF b = Base THEN 0 ELSE h[Parent[b]] + BlockWork[b]]
  <2>1. ASSUME NEW b \in Blocks
        PROVE  h[b] = IF b = Base THEN 0 ELSE h[Parent[b]] + BlockWork[b]
    BY <1>1, <1>3, <1>4 DEF Follows
  <2>2. h = [b \in Blocks |-> h[b]]
    OBVIOUS
  <2> QED
    BY <2>1, <2>2
<1> DEFINE F == CHOOSE f :
                  f = [b \in Blocks |-> IF b = Base THEN 0 ELSE f[Parent[b]] + BlockWork[b]]
<1>6. F = [b \in Blocks |-> IF b = Base THEN 0 ELSE F[Parent[b]] + BlockWork[b]]
  BY <1>5
<1>7. nChainWork = F
  BY DEF nChainWork
<1> HIDE DEF F
<1> DEFINE S == {b \in Blocks : F[b] \in Nat}
<1>8. Base \in S
  BY <1>1, <1>6
<1>9. ASSUME NEW b \in Blocks \ {Base}, Parent[b] \in S
      PROVE  b \in S
  <2>1. F[b] = F[Parent[b]] + BlockWork[b]
    BY <1>6
  <2> QED
    BY <1>1, <1>9, <2>1
<1> HIDE DEF S
<1>10. Blocks \subseteq S
  BY <1>8, <1>9, TreeInduction
<1>11. F \in [Blocks -> Nat]
  BY <1>6, <1>10 DEF S
<1> QED
  BY <1>1, <1>6, <1>7, <1>11

\* The chain of a block is that of the block before it and itself.
LEMMA Chains ==
  /\ Chain \in [Blocks -> SUBSET Blocks]
  /\ Chain[Base] = {Base}
  /\ \A b \in Blocks \ {Base} : Chain[b] = Chain[Parent[b]] \cup {b}
<1> DEFINE G == [p \in Blocks \X SUBSET Blocks |-> p[2] \cup {p[1]}]
<1>1. Base \in Blocks /\ \A b \in Blocks \ {Base} : Parent[b] \in Blocks
  BY TreeAssumption
<1>2. G \in [Blocks \X SUBSET Blocks -> SUBSET Blocks] /\ {Base} \in SUBSET Blocks
  BY <1>1
<1>3. \A b \in Blocks, v \in SUBSET Blocks : G[<<b, v>>] = v \cup {b}
  OBVIOUS
<1> HIDE DEF G
<1>4. PICK h \in [Blocks -> SUBSET Blocks] : Follows(h, Blocks, {Base}, G)
  BY <1>2, TreeRecursion
<1>5. h = [b \in Blocks |-> IF b = Base THEN {b} ELSE h[Parent[b]] \cup {b}]
  <2>1. ASSUME NEW b \in Blocks
        PROVE  h[b] = IF b = Base THEN {b} ELSE h[Parent[b]] \cup {b}
    BY <1>1, <1>3, <1>4 DEF Follows
  <2>2. h = [b \in Blocks |-> h[b]]
    OBVIOUS
  <2> QED
    BY <2>1, <2>2
<1> DEFINE F == CHOOSE f : f = [b \in Blocks |-> IF b = Base THEN {b} ELSE f[Parent[b]] \cup {b}]
<1>6. F = [b \in Blocks |-> IF b = Base THEN {b} ELSE F[Parent[b]] \cup {b}]
  BY <1>5
<1>7. Chain = F
  BY DEF Chain
<1> HIDE DEF F
<1> DEFINE S == {b \in Blocks : F[b] \subseteq Blocks}
<1>8. Base \in S
  BY <1>1, <1>6
<1>9. ASSUME NEW b \in Blocks \ {Base}, Parent[b] \in S
      PROVE  b \in S
  <2>1. F[b] = F[Parent[b]] \cup {b}
    BY <1>6
  <2> QED
    BY <1>9, <2>1
<1> HIDE DEF S
<1>10. Blocks \subseteq S
  BY <1>8, <1>9, TreeInduction
<1>11. F \in [Blocks -> SUBSET Blocks]
  BY <1>6, <1>10 DEF S
<1> QED
  BY <1>1, <1>6, <1>7, <1>11

\* What the chain of a block holds, and how high and heavy it is.
LEMMA Ancestors ==
  \A b \in Blocks :
    /\ b \in Chain[b] /\ Base \in Chain[b]
    /\ \A c \in Chain[b] : Chain[c] \subseteq Chain[b] /\ c \in Blocks
    /\ \A c \in Chain[b] \ {b} :
         nHeight[c] < nHeight[b] /\ nChainWork[c] < nChainWork[b]
<1> DEFINE S == {b \in Blocks :
                   /\ b \in Chain[b] /\ Base \in Chain[b]
                   /\ \A c \in Chain[b] : Chain[c] \subseteq Chain[b] /\ c \in Blocks
                   /\ \A c \in Chain[b] \ {b} :
                        nHeight[c] < nHeight[b] /\ nChainWork[c] < nChainWork[b]}
<1>1. Base \in S
  BY Chains, TreeAssumption
<1>2. ASSUME NEW b \in Blocks \ {Base}, Parent[b] \in S
      PROVE  b \in S
  <2> DEFINE a == Parent[b]
  <2>1. Chain[b] = Chain[a] \cup {b} /\ a \in Blocks
    BY <1>2, Chains
  <2>2. /\ a \in Chain[a] /\ Base \in Chain[a]
        /\ \A c \in Chain[a] : Chain[c] \subseteq Chain[a] /\ c \in Blocks
    BY <1>2
  <2>3. ASSUME NEW c \in Chain[b], c # b
        PROVE  nHeight[c] < nHeight[b] /\ nChainWork[c] < nChainWork[b]
    <3>1. nHeight[b] = nHeight[a] + 1 /\ nHeight[a] \in Nat
      BY <2>1, Heights
    <3>2. /\ nChainWork[b] = nChainWork[a] + BlockWork[b] /\ nChainWork[a] \in Nat
          /\ BlockWork[b] \in Nat \ {0}
      BY <2>1, Works
    <3>3. c \in Chain[a] /\ c \in Blocks
      BY <2>1, <2>2, <2>3
    <3>4. nHeight[c] \in Nat /\ nChainWork[c] \in Nat
      BY <3>3, Heights, Works
    <3>5. CASE c = a
      BY <3>1, <3>2, <3>5
    <3>6. CASE c # a
      <4>1. nHeight[c] < nHeight[a] /\ nChainWork[c] < nChainWork[a]
        BY <1>2, <3>3, <3>6
      <4> QED
        BY <3>1, <3>2, <3>4, <4>1
    <3> QED
      BY <3>5, <3>6
  <2> HIDE DEF a
  <2> QED
    BY <2>1, <2>2, <2>3
<1> HIDE DEF S
<1>3. Blocks \subseteq S
  BY <1>1, <1>2, TreeInduction
<1> QED
  BY <1>3 DEF S

\* Of two blocks of a chain, the one that is not higher is in the chain of the other.
LEMMA ChainOrder ==
  \A b \in Blocks : \A c, d \in Chain[b] : nHeight[c] <= nHeight[d] => c \in Chain[d]
<1> DEFINE S == {b \in Blocks : \A c, d \in Chain[b] : nHeight[c] <= nHeight[d] => c \in Chain[d]}
<1>1. Base \in S
  BY Chains, TreeAssumption
<1>2. ASSUME NEW b \in Blocks \ {Base}, Parent[b] \in S
      PROVE  b \in S
  <2>1. SUFFICES ASSUME NEW c \in Chain[b], NEW d \in Chain[b], nHeight[c] <= nHeight[d]
                 PROVE  c \in Chain[d]
    OBVIOUS
  <2>2. Chain[b] = Chain[Parent[b]] \cup {b}
    BY Chains
  <2>3. CASE d = b
    BY <2>3
  <2>4. CASE d # b
    <3>1. nHeight[d] < nHeight[b] /\ c \in Blocks /\ d \in Blocks
      BY <2>4, Ancestors
    <3>2. nHeight[c] \in Nat /\ nHeight[d] \in Nat /\ nHeight[b] \in Nat
      BY <3>1, Heights
    <3>3. c # b
      BY <2>1, <3>1, <3>2
    <3> QED
      BY <1>2, <2>1, <2>2, <2>4, <3>3
  <2> QED
    BY <2>3, <2>4
<1> HIDE DEF S
<1>3. Blocks \subseteq S
  BY <1>1, <1>2, TreeInduction
<1> QED
  BY <1>3 DEF S

\* Facts about the blocks of one chain that follow.
LEMMA SameChain ==
  ASSUME NEW b \in Blocks
  PROVE  /\ \A c \in Chain[b] : c \in Blocks /\ nHeight[c] \in Nat /\ nChainWork[c] \in Nat
         /\ \A c \in Chain[b] \ {Base} : /\ Parent[c] \in Chain[b]
                                         /\ nHeight[c] = nHeight[Parent[c]] + 1
                                         /\ Chain[c] = Chain[Parent[c]] \cup {c}
                                         /\ c \notin Chain[Parent[c]]
         /\ \A c, d \in Chain[b] : nHeight[c] = nHeight[d] => c = d
         /\ \A c, d \in Chain[b] : nHeight[c] < nHeight[d] => nChainWork[c] < nChainWork[d]
         /\ \A c, d \in Chain[b] : nChainWork[c] < nChainWork[d] => nHeight[c] < nHeight[d]
<1>1. \A c \in Chain[b] : c \in Blocks /\ Chain[c] \subseteq Chain[b]
  BY Ancestors
<1>2. \A c \in Blocks : nHeight[c] \in Nat /\ nChainWork[c] \in Nat
  BY Heights, Works
<1>3. ASSUME NEW c \in Chain[b] \ {Base}
      PROVE  /\ Parent[c] \in Chain[b] /\ nHeight[c] = nHeight[Parent[c]] + 1
             /\ Chain[c] = Chain[Parent[c]] \cup {c} /\ c \notin Chain[Parent[c]]
  <2>1. c \in Blocks /\ Chain[c] \subseteq Chain[b]
    BY <1>1
  <2>2. Parent[c] \in Blocks /\ Chain[c] = Chain[Parent[c]] \cup {c}
    BY <2>1, Chains, TreeAssumption
  <2>3. nHeight[c] = nHeight[Parent[c]] + 1
    BY <2>1, Heights
  <2>4. Parent[c] \in Chain[Parent[c]]
    BY <2>2, Ancestors
  <2>5. ASSUME c \in Chain[Parent[c]]
        PROVE  FALSE
    <3>1. c # Parent[c]
      BY <1>2, <2>2, <2>3
    <3>2. nHeight[c] < nHeight[Parent[c]]
      BY <2>2, <2>5, <3>1, Ancestors
    <3> QED
      BY <1>2, <2>1, <2>2, <2>3, <3>2
  <2> QED
    BY <2>1, <2>2, <2>3, <2>4, <2>5
<1>4. ASSUME NEW c \in Chain[b], NEW d \in Chain[b]
      PROVE  /\ nHeight[c] = nHeight[d] => c = d
             /\ nHeight[c] < nHeight[d] => nChainWork[c] < nChainWork[d]
             /\ nChainWork[c] < nChainWork[d] => nHeight[c] < nHeight[d]
  <2>1. /\ c \in Blocks /\ d \in Blocks /\ nHeight[c] \in Nat /\ nHeight[d] \in Nat
        /\ nChainWork[c] \in Nat /\ nChainWork[d] \in Nat
    BY <1>1, <1>2
  <2>2. CASE nHeight[c] = nHeight[d]
    <3>1. nHeight[c] <= nHeight[d]
      BY <2>1, <2>2
    <3>2. c \in Chain[d]
      BY <3>1, ChainOrder
    <3>3. c # d => nHeight[c] < nHeight[d]
      BY <2>1, <3>2, Ancestors
    <3>4. c = d
      BY <2>1, <2>2, <3>3
    <3> QED
      BY <2>1, <2>2, <3>4
  <2>3. CASE nHeight[c] < nHeight[d]
    <3>1. c \in Chain[d] /\ c # d
      BY <2>1, <2>3, ChainOrder
    <3>2. nChainWork[c] < nChainWork[d]
      BY <2>1, <3>1, Ancestors
    <3> QED
      BY <2>1, <2>3, <3>2
  <2>4. CASE nHeight[d] < nHeight[c]
    <3>1. d \in Chain[c] /\ c # d
      BY <2>1, <2>4, ChainOrder
    <3>2. nChainWork[d] < nChainWork[c]
      BY <2>1, <3>1, Ancestors
    <3> QED
      BY <2>1, <2>4, <3>2
  <2> QED
    BY <2>1, <2>2, <2>3, <2>4
<1> QED
  BY <1>1, <1>2, <1>3, <1>4

-----------------------------------------------------------------------------
(* Coin views *)

Outpoints == TxIds \X Nat

\* Two views that have the same outputs, and know the height of those that have any.
Same(view, other) ==
  \A t \in TxIds : /\ view[t].out = other[t].out
                   /\ view[t].out # {} => view[t].nHeight = other[t].nHeight

\* The output of t that is the outpoint o, if it is one of t.
OutputOf(o, t) == {n \in Nat : o = <<t, n>>}

\* A view without the outpoint o.
WithoutOne(view, o) ==
  [t \in TxIds |-> [nHeight |-> view[t].nHeight, out |-> view[t].out \ OutputOf(o, t)]]

\* The outputs of t among the first k outpoints of s.
Taken(s, k, t) == {n \in Nat : \E j \in 1..k : s[j] = <<t, n>>}

\* A view without the first k outpoints of s.
Without(view, s, k) ==
  [t \in TxIds |-> [nHeight |-> view[t].nHeight, out |-> view[t].out \ Taken(s, k, t)]]

\* What CheckTransaction asks.
LEMMA Transactions ==
  ASSUME NEW t \in Txs
  PROVE  /\ Vin[t] \in Seq(Outpoints) /\ Len(Vin[t]) \in Nat \ {0}
         /\ DOMAIN Vin[t] = 1..Len(Vin[t])
         /\ \A i, j \in 1..Len(Vin[t]) : Vin[t][i] = Vin[t][j] => i = j
         /\ \A i \in 1..Len(Vin[t]) : Vin[t][i] \in Outpoints
         /\ Vout[t] # {} /\ Vout[t] \subseteq Nat /\ t \in TxIds
<1>1. Vin[t] \in Seq(Outpoints) /\ Vin[t] # <<>> /\ IsInjective(Vin[t])
  BY CoinsAssumption DEF Outpoints
<1>2. t \in TxIds
  BY DEF TxIds
<1>3. Vout[t] # {} /\ Vout[t] \subseteq Nat
  BY <1>2, CoinsAssumption
<1>4. DOMAIN Vin[t] = 1..Len(Vin[t]) /\ Len(Vin[t]) \in Nat \ {0}
  BY <1>1
<1>5. \A i \in 1..Len(Vin[t]) : Vin[t][i] \in Outpoints
  BY <1>1
<1> QED
  BY <1>1, <1>2, <1>3, <1>4, <1>5 DEF IsInjective

\* The coins of a view.
LEMMA ViewsHave ==
  ASSUME NEW view \in Views, NEW t \in TxIds
  PROVE  /\ view[t] \in Coins /\ view[t].nHeight \in Int /\ view[t].out \subseteq Nat
         /\ DOMAIN view = TxIds
BY DEF Views, Coins

LEMMA SameIsEquivalence ==
  ASSUME NEW v, NEW w
  PROVE  /\ Same(v, v)
         /\ Same(v, w) => Same(w, v)
         /\ \A u : Same(v, w) /\ Same(w, u) => Same(v, u)
BY DEF Same

\* The outputs of o's transaction without o.
LEMMA SpendOne ==
  ASSUME NEW view \in Views, NEW o \in Outpoints
  PROVE  Spend(view, o) \in Views /\ Same(Spend(view, o), WithoutOne(view, o))
<1>1. PICK u \in TxIds, m \in Nat : o = <<u, m>>
  BY DEF Outpoints
<1>2. o[1] = u /\ o[2] = m
  BY <1>1
<1> DEFINE left == view[u].out \ {m}
           coins == IF left = {} THEN Pruned ELSE [view[u] EXCEPT !.out = left]
<1>3. Spend(view, o) = [view EXCEPT ![u] = coins]
  BY <1>2, ViewsHave DEF Spend
<1>4. view[u] \in Coins /\ view[u].out \subseteq Nat
  BY ViewsHave
<1>5. coins \in Coins /\ coins.out = left /\ (left # {} => coins.nHeight = view[u].nHeight)
  BY <1>4 DEF Coins, Pruned
<1>6. left = view[u].out \ OutputOf(o, u)
  BY <1>1 DEF OutputOf
<1> HIDE DEF left, coins
<1>7. [view EXCEPT ![u] = coins] \in Views
  BY <1>5 DEF Views
<1>8. ASSUME NEW t \in TxIds
      PROVE  /\ Spend(view, o)[t].out = view[t].out \ OutputOf(o, t)
             /\ Spend(view, o)[t].out # {} => Spend(view, o)[t].nHeight = view[t].nHeight
  <2>1. CASE t = u
    <3>1. Spend(view, o)[t] = coins
      BY <1>3, <2>1, ViewsHave
    <3> QED
      BY <1>5, <1>6, <2>1, <3>1
  <2>2. CASE t # u
    <3>1. Spend(view, o)[t] = view[t]
      BY <1>3, <2>2, ViewsHave
    <3>2. OutputOf(o, t) = {}
      BY <1>1, <2>2 DEF OutputOf
    <3> QED
      BY <3>1, <3>2
  <2> QED
    BY <2>1, <2>2
<1> QED
  BY <1>3, <1>7, <1>8 DEF Same, WithoutOne

\* One outpoint more, or none.
LEMMA TakenSteps ==
  ASSUME NEW s, NEW t \in TxIds
  PROVE  /\ Taken(s, 0, t) = {}
         /\ \A i \in Nat \ {0} :
              Taken(s, i, t) = Taken(s, i - 1, t) \cup OutputOf(s[i], t)
<1>1. Taken(s, 0, t) = {}
  BY DEF Taken
<1>2. ASSUME NEW i \in Nat \ {0}
      PROVE  Taken(s, i, t) = Taken(s, i - 1, t) \cup OutputOf(s[i], t)
  <2>1. \A j : j \in 1..i <=> j \in 1..(i - 1) \/ j = i
    OBVIOUS
  <2> QED
    BY <2>1 DEF Taken, OutputOf
<1> QED
  BY <1>1, <1>2

\* To spend outpoints one after the other is to take them away.
LEMMA SpendAll ==
  ASSUME NEW view \in Views, NEW s \in Seq(Outpoints)
  PROVE  /\ FoldLeft(Spend, view, s) \in Views
         /\ Same(FoldLeft(Spend, view, s), Without(view, s, Len(s)))
<1> DEFINE n == Len(s)
           G == [p \in Views \X (1..n) |-> Spend(p[1], s[p[2]])]
           f == CHOOSE f : f = [S \in SUBSET DOMAIN s |->
                                  IF S = {} THEN view
                                  ELSE LET x == Max(S) IN Spend(f[S \ {x}], s[x])]
<1>1. n \in Nat /\ DOMAIN s = 1..n /\ \A i \in 1..n : s[i] \in Outpoints
  OBVIOUS
<1>2. FoldLeft(Spend, view, s) = f[1..n]
  BY <1>1 DEF FoldLeft, MapThenFoldSet
<1>3. G \in [Views \X (1..n) -> Views]
  BY <1>1, SpendOne
<1>4. \A v \in Views, i \in 1..n : G[<<v, i>>] = Spend(v, s[i])
  OBVIOUS
<1> HIDE DEF n, G
<1>5. f = [S \in SUBSET (1..n) |->
             IF S = {} THEN view ELSE LET x == Max(S) IN Spend(f[S \ {x}], s[x])]
  <2>1. IsFiniteSet(1..n) /\ 1..n \subseteq Int
    BY <1>1, FS_Interval
  <2>2. PICK h \in [SUBSET (1..n) -> Views] : FoldsOn(h, SUBSET (1..n), view, G)
    BY <1>3, <2>1, FoldExists
  <2>3. ASSUME NEW S \in SUBSET (1..n)
        PROVE  h[S] = IF S = {} THEN view ELSE LET x == Max(S) IN Spend(h[S \ {x}], s[x])
    <3>1. S # {} => Max(S) \in 1..n
      BY <2>1, MaxIsMember
    <3> QED
      BY <1>4, <2>2, <3>1 DEF FoldsOn
  <2>4. h = [S \in SUBSET (1..n) |->
               IF S = {} THEN view ELSE LET x == Max(S) IN Spend(h[S \ {x}], s[x])]
    <3>1. h = [S \in SUBSET (1..n) |-> h[S]]
      OBVIOUS
    <3> QED
      BY <2>3, <3>1
  <2> QED
    BY <1>1, <2>4
<1> HIDE DEF f
<1>6. f[{}] = view
  BY <1>5
<1>7. FoldsIn(f, Views, n, view, G)
  <2> SUFFICES ASSUME NEW S \in SUBSET (1..n), S # {}, f[S \ {Max(S)}] \in Views
               PROVE  f[S] = G[<<f[S \ {Max(S)}], Max(S)>>]
    BY <1>6 DEF FoldsIn
  <2>1. IsFiniteSet(1..n) /\ 1..n \subseteq Int
    BY <1>1, FS_Interval
  <2>2. Max(S) \in 1..n
    BY <2>1, MaxIsMember
  <2>3. f[S] = Spend(f[S \ {Max(S)}], s[Max(S)])
    BY <1>5
  <2> QED
    BY <1>4, <2>2, <2>3
<1>8. PICK g : Trace(g, Views, n, view, G) /\ f[1..n] = g[n]
  <2>1. StepOn(G, Views, n)
    BY <1>3 DEF StepOn
  <2>2. EndsTrace(f, Views, n, view, G)
    BY <1>1, <1>7, <2>1, FoldTrace
  <2> QED
    BY <2>2 DEF EndsTrace
<1> DEFINE N == {i \in Nat : i <= n => Same(g[i], Without(view, s, i))}
<1>9. 0 \in N
  <2>1. g[0] = view
    BY <1>8 DEF Trace
  <2>2. \A t \in TxIds : /\ Without(view, s, 0)[t].out = view[t].out
                         /\ Without(view, s, 0)[t].nHeight = view[t].nHeight
    BY TakenSteps DEF Without
  <2> QED
    BY <2>1, <2>2 DEF Same
<1>10. ASSUME NEW k \in 1..n, k - 1 \in N
       PROVE  k \in N
  <2> DEFINE v == g[k - 1]
             w == g[k]
  <2>1. k \in Nat \ {0} /\ k \in Nat /\ k - 1 <= n /\ s[k] \in Outpoints
    BY <1>1
  <2>2. v \in Views /\ w = Spend(v, s[k])
    <3>1. v \in Views /\ w = G[<<v, k>>]
      <4>1. Trace(g, Views, n, view, G)
        BY <1>8
      <4>2. StepOf(g, Views, G, k)
        BY <1>1, <4>1, TraceSteps
      <4> QED
        BY <4>2 DEF StepOf
    <3> HIDE DEF v, w
    <3> QED
      BY <1>4, <3>1
  <2>3. Same(v, Without(view, s, k - 1))
    BY <1>10, <2>1
  <2> HIDE DEF v, w
  <2>4. Same(w, WithoutOne(v, s[k]))
    BY <2>1, <2>2, SpendOne
  <2>5. ASSUME NEW t \in TxIds
        PROVE  /\ w[t].out = Without(view, s, k)[t].out
               /\ w[t].out # {} => w[t].nHeight = Without(view, s, k)[t].nHeight
    <3>1. /\ w[t].out = v[t].out \ OutputOf(s[k], t)
          /\ w[t].out # {} => w[t].nHeight = v[t].nHeight
      BY <2>4 DEF Same, WithoutOne
    <3>2. Taken(s, k, t) = Taken(s, k - 1, t) \cup OutputOf(s[k], t)
      BY <2>1, TakenSteps
    <3>3. /\ v[t].out = view[t].out \ Taken(s, k - 1, t)
          /\ v[t].out # {} => v[t].nHeight = view[t].nHeight
      BY <2>3 DEF Same, Without
    <3>4. /\ Without(view, s, k)[t].out = view[t].out \ Taken(s, k, t)
          /\ Without(view, s, k)[t].nHeight = view[t].nHeight
      BY DEF Without
    <3>5. w[t].out = Without(view, s, k)[t].out
      BY <3>1, <3>2, <3>3, <3>4
    <3>6. w[t].out # {} => v[t].out # {}
      BY <3>1
    <3> QED
      BY <3>1, <3>3, <3>4, <3>5, <3>6
  <2>6. Same(w, Without(view, s, k))
    BY <2>5 DEF Same
  <2> QED
    BY <2>1, <2>6 DEF w
<1> HIDE DEF N
<1>11. n \in N
  <2>1. \A k \in 0..n : k \in N
    BY <1>1, <1>9, <1>10, StepInduction
  <2> QED
    BY <1>1, <2>1
<1>12. g[n] \in Views
  BY <1>1, <1>8 DEF Trace
<1> QED
  BY <1>1, <1>2, <1>8, <1>11, <1>12 DEF N, n

-----------------------------------------------------------------------------
(* The coins of a chain *)

\* The members of a sequence.
LEMMA Members ==
  ASSUME NEW S, NEW s \in Seq(S)
  PROVE  \A x : x \in ToSet(s) <=> \E i \in 1..Len(s) : x = s[i]
BY DEF ToSet

\* The transactions of a block.
LEMMA BlockTxs ==
  ASSUME NEW b \in Blocks
  PROVE  /\ Vtx[b] \in Seq(Txs) /\ Len(Vtx[b]) \in Nat /\ DOMAIN Vtx[b] = 1..Len(Vtx[b])
         /\ \A i \in 1..Len(Vtx[b]) : Vtx[b][i] \in Txs /\ Vtx[b][i] \in ToSet(Vtx[b])
         /\ \A t \in ToSet(Vtx[b]) : t \in Txs /\ \E i \in 1..Len(Vtx[b]) : t = Vtx[b][i]
         /\ ToSet(Vtx[Base]) = {}
<1>1. Vtx[b] \in Seq(Txs) /\ Vtx[Base] = <<>>
  BY CoinsAssumption
<1>2. \A t : t \in ToSet(Vtx[b]) <=> \E i \in 1..Len(Vtx[b]) : t = Vtx[b][i]
  BY <1>1, Members
<1>3. /\ Len(Vtx[b]) \in Nat /\ DOMAIN Vtx[b] = 1..Len(Vtx[b])
      /\ \A i \in 1..Len(Vtx[b]) : Vtx[b][i] \in Txs
  BY <1>1
<1>4. ToSet(Vtx[Base]) = {}
  BY <1>1 DEF ToSet
<1> QED
  BY <1>1, <1>2, <1>3, <1>4

\* Blocks, transactions and those of Base's chain are apart.
LEMMA NamesApart ==
  /\ \A t \in TxIds : \/ t \in Blocks /\ t \notin Txs /\ t \notin BaseTxs
                      \/ t \in Txs /\ t \notin Blocks /\ t \notin BaseTxs
                      \/ t \in BaseTxs /\ t \notin Blocks /\ t \notin Txs
  /\ Blocks \subseteq TxIds /\ Txs \subseteq TxIds /\ BaseTxs \subseteq TxIds
BY CoinsAssumption DEF TxIds

\* What is in the chain of a block is in that of its predecessor, or in the block.
LEMMA ChainGrows ==
  ASSUME NEW b \in Blocks \ {Base}
  PROVE  /\ Parent[b] \in Blocks /\ Chain[b] = Chain[Parent[b]] \cup {b}
         /\ b \notin Chain[Parent[b]] /\ Chain[Parent[b]] \subseteq Blocks
         /\ \A t \in Txs : InChain(t, b) <=> InChain(t, Parent[b]) \/ t \in ToSet(Vtx[b])
         /\ \A t \in Blocks : InChain(t, b) <=> InChain(t, Parent[b]) \/ t = b
         /\ \A o : SpentInChain(o, b) <=> \/ SpentInChain(o, Parent[b])
                                          \/ \E t \in ToSet(Vtx[b]) : o \in ToSet(Vin[t])
         /\ ~InChain(b, Parent[b])
<1>1. /\ Parent[b] \in Blocks /\ Chain[b] = Chain[Parent[b]] \cup {b}
      /\ Chain[Parent[b]] \subseteq Blocks
  BY Chains, TreeAssumption
<1>2. b \notin Chain[Parent[b]]
  BY Ancestors, SameChain
<1>3. \A t \in Txs : t \notin Blocks
  BY CoinsAssumption
<1>4. \A t \in Txs : InChain(t, b) <=> InChain(t, Parent[b]) \/ t \in ToSet(Vtx[b])
  BY <1>1, <1>3 DEF InChain
<1>5. \A t \in Blocks : InChain(t, b) <=> InChain(t, Parent[b]) \/ t = b
  BY <1>1 DEF InChain
<1>6. \A o : SpentInChain(o, b) <=> \/ SpentInChain(o, Parent[b])
                                    \/ \E t \in ToSet(Vtx[b]) : o \in ToSet(Vin[t])
  BY <1>1 DEF SpentInChain
<1>7. ~InChain(b, Parent[b])
  BY <1>2 DEF InChain
<1> QED
  BY <1>1, <1>2, <1>4, <1>5, <1>6, <1>7

\* What the chain of a block holds before its i-th transaction.
LEMMA BeforeIs ==
  ASSUME NEW b \in Blocks \ {Base}, NEW i \in 1..(Len(Vtx[b]) + 1)
  PROVE  \A t : t \in Before(b, i) <=> /\ t \in Txs
                                       /\ \/ InChain(t, Parent[b])
                                          \/ \E j \in 1..(i - 1) : Vtx[b][j] = t
BY CoinsAssumption DEF Before

\* A chain is valid when the chain before is, and the transactions of its last block are.
LEMMA ValidGrows ==
  /\ ValidChain[Base]
  /\ \A b \in Blocks \ {Base} :
       ValidChain[b] <=> /\ ValidChain[Parent[b]]
                         /\ \A i \in 1..Len(Vtx[b]) : ValidTx(b, i)
  /\ \A b \in Blocks : \A c \in Chain[b] : ValidChain[b] => ValidChain[c]
  /\ ValidChain \in [Blocks -> BOOLEAN]
<1>1. \A b \in Blocks : ValidChain[b] <=> \A c \in Chain[b] \ {Base} :
                                            \A i \in DOMAIN Vtx[c] : ValidTx(c, i)
  BY DEF ValidChain
<1>2. ValidChain[Base]
  BY <1>1, Chains, TreeAssumption
<1>3. ASSUME NEW b \in Blocks \ {Base}
      PROVE  ValidChain[b] <=> /\ ValidChain[Parent[b]]
                               /\ \A i \in 1..Len(Vtx[b]) : ValidTx(b, i)
  <2>1. /\ Parent[b] \in Blocks /\ Chain[b] = Chain[Parent[b]] \cup {b}
        /\ DOMAIN Vtx[b] = 1..Len(Vtx[b])
    BY ChainGrows, BlockTxs
  <2>2. ValidChain[Parent[b]] <=> \A c \in Chain[Parent[b]] \ {Base} :
                                    \A i \in DOMAIN Vtx[c] : ValidTx(c, i)
    BY <1>1, <2>1
  <2>3. ValidChain[b] <=> \A c \in Chain[b] \ {Base} : \A i \in DOMAIN Vtx[c] : ValidTx(c, i)
    BY <1>1
  <2> DEFINE Q(c) == \A i \in DOMAIN Vtx[c] : ValidTx(c, i)
  <2>4. Q(b) <=> \A i \in 1..Len(Vtx[b]) : ValidTx(b, i)
    BY <2>1
  <2>5. ValidChain[Parent[b]] <=> \A c \in Chain[Parent[b]] \ {Base} : Q(c)
    BY <2>2
  <2>6. ValidChain[b] <=> \A c \in Chain[b] \ {Base} : Q(c)
    BY <2>3
  <2> HIDE DEF Q
  <2>7. (\A c \in Chain[b] \ {Base} : Q(c)) <=> (\A c \in Chain[Parent[b]] \ {Base} : Q(c)) /\ Q(b)
    BY <2>1
  <2> QED
    BY <2>4, <2>5, <2>6, <2>7
<1>4. \A b \in Blocks : \A c \in Chain[b] : ValidChain[b] => ValidChain[c]
  <2> SUFFICES ASSUME NEW b \in Blocks, NEW c \in Chain[b], ValidChain[b]
               PROVE  ValidChain[c]
    OBVIOUS
  <2>1. c \in Blocks /\ Chain[c] \subseteq Chain[b]
    BY Ancestors
  <2>2. \A d \in Chain[c] \ {Base} : \A i \in DOMAIN Vtx[d] : ValidTx(d, i)
    BY <1>1, <2>1
  <2> QED
    BY <1>1, <2>1, <2>2
<1>5. ValidChain \in [Blocks -> BOOLEAN]
  BY DEF ValidChain
<1> QED
  BY <1>2, <1>3, <1>4, <1>5

\* A valid chain holds a transaction once.
LEMMA OnceInChain ==
  ASSUME NEW b \in Blocks, ValidChain[b], NEW t \in Txs,
         NEW c \in Chain[b], NEW d \in Chain[b], t \in ToSet(Vtx[c]), t \in ToSet(Vtx[d])
  PROVE  c = d
<1>1. ASSUME NEW e \in Chain[b], NEW f \in Chain[b], t \in ToSet(Vtx[e]), t \in ToSet(Vtx[f]),
             nHeight[e] < nHeight[f]
      PROVE  FALSE
  <2>1. e \in Blocks /\ f \in Blocks /\ nHeight[e] \in Nat /\ nHeight[f] \in Nat
    BY SameChain
  <2>2. e \in Chain[f] /\ e # f
    <3>1. nHeight[e] <= nHeight[f]
      <4> DEFINE x == nHeight[e]
                 y == nHeight[f]
      <4>1. x \in Nat /\ y \in Nat /\ x < y
        BY <1>1, <2>1
      <4> HIDE DEF x, y
      <4>2. x <= y
        BY <4>1
      <4> QED
        BY <4>2 DEF x, y
    <3>2. e # f
      <4>1. \A n \in Nat : ~(n < n)
        OBVIOUS
      <4> QED
        BY <1>1, <2>1, <4>1, Zenon
    <3> QED
      BY <3>1, <3>2, ChainOrder
  <2>3. f # Base
    BY <2>2, Chains
  <2>4. e \in Chain[Parent[f]]
    <3>1. Chain[f] = Chain[Parent[f]] \cup {f}
      BY <2>1, <2>3, Chains
    <3> QED
      BY <2>2, <3>1
  <2>5. PICK i \in 1..Len(Vtx[f]) : t = Vtx[f][i]
    BY <1>1, <2>1, BlockTxs
  <2>6. t \in Before(f, i)
    <3>1. t \notin Blocks
      BY CoinsAssumption
    <3> QED
      BY <1>1, <2>3, <2>4, <3>1 DEF Before, InChain
  <2>7. ValidTx(f, i)
    <3>1. i \in DOMAIN Vtx[f]
      BY <2>1, <2>5, BlockTxs
    <3> QED
      BY <1>1, <2>3, <3>1 DEF ValidChain
  <2> QED
    BY <2>5, <2>6, <2>7 DEF ValidTx
<1>2. nHeight[c] \in Nat /\ nHeight[d] \in Nat
  BY SameChain
<1>3. ~(nHeight[c] < nHeight[d])
  BY <1>1
<1>4. ~(nHeight[d] < nHeight[c])
  BY <1>1
<1>5. nHeight[c] = nHeight[d]
  <2> DEFINE x == nHeight[c]
             y == nHeight[d]
  <2>1. x \in Nat /\ y \in Nat /\ ~(x < y) /\ ~(y < x)
    BY <1>2, <1>3, <1>4
  <2> HIDE DEF x, y
  <2>2. x = y
    BY <2>1
  <2> QED
    BY <2>2 DEF x, y
<1> QED
  BY <1>5, SameChain

\* What a valid chain has spent is of it, or of Base's.
LEMMA SpentIsKnown ==
  ASSUME NEW b \in Blocks, ValidChain[b],
         NEW o, SpentInChain(o, b)
  PROVE  o[1] \in BaseTxs \/ InChain(o[1], b)
<1>1. PICK c \in Chain[b] : \E t \in ToSet(Vtx[c]) : o \in ToSet(Vin[t])
  BY DEF SpentInChain
<1>2. c \in Blocks /\ Chain[c] \subseteq Chain[b] /\ c # Base
  BY <1>1, Ancestors, BlockTxs
<1>3. PICK i \in 1..Len(Vtx[c]) : o \in ToSet(Vin[Vtx[c][i]])
  <2>1. PICK t \in ToSet(Vtx[c]) : o \in ToSet(Vin[t])
    BY <1>1
  <2>2. \E i \in 1..Len(Vtx[c]) : t = Vtx[c][i]
    BY <1>2, BlockTxs
  <2> QED
    BY <2>1, <2>2
<1>4. ValidTx(c, i)
  <2>1. i \in DOMAIN Vtx[c]
    BY <1>2, <1>3, BlockTxs
  <2> QED
    BY <1>2, <2>1 DEF ValidChain
<1>5. \/ o[1] \in Before(c, i)
      \/ o[1] \in BaseTxs
      \/ o[1] \in Chain[Parent[c]] \ {Base}
  BY <1>3, <1>4 DEF ValidTx
<1>6. /\ Chain[c] = Chain[Parent[c]] \cup {c} /\ Len(Vtx[c]) \in Nat /\ Chain[c] \subseteq Blocks
  <2>1. Chain[c] = Chain[Parent[c]] \cup {c}
    BY <1>2, Chains
  <2>2. Len(Vtx[c]) \in Nat
    BY <1>2, BlockTxs
  <2>3. Chain[c] \subseteq Blocks
    BY <1>2, Chains
  <2> QED
    BY <2>1, <2>2, <2>3
<1>7. CASE o[1] \in Before(c, i)
  <2>1. /\ o[1] \in Txs /\ o[1] \notin Blocks
        /\ InChain(o[1], Parent[c]) \/ \E j \in 1..(i - 1) : Vtx[c][j] = o[1]
    BY <1>7, CoinsAssumption DEF Before
  <2>2. CASE InChain(o[1], Parent[c])
    BY <1>2, <1>6, <2>1, <2>2 DEF InChain
  <2>3. CASE \E j \in 1..(i - 1) : Vtx[c][j] = o[1]
    <3>1. PICK j \in 1..(i - 1) : Vtx[c][j] = o[1]
      BY <2>3
    <3>2. j \in 1..Len(Vtx[c])
      BY <1>6
    <3>3. o[1] \in ToSet(Vtx[c])
      BY <1>2, <3>1, <3>2, BlockTxs
    <3> QED
      BY <2>1, <3>3 DEF InChain
  <2> QED
    BY <2>1, <2>2, <2>3
<1>8. CASE o[1] \in Chain[Parent[c]] \ {Base}
  BY <1>2, <1>6, <1>8 DEF InChain
<1> QED
  BY <1>5, <1>7, <1>8

\* Made by a transaction of the chain of b, or left by Base's.
MadeIn(t, m, b) == \/ InChain(t, b) /\ m \in Vout[t]
                   \/ t \in BaseTxs /\ m \in BaseCoins[t].out

\* No transaction of Base's chain is made by a later block.
LEMMA BaseIsApart ==
  ASSUME NEW b \in Blocks, NEW t \in TxIds
  PROVE  /\ t \in BaseTxs => ~InChain(t, b)
         /\ InChain(t, b) => t \in Blocks \/ t \in Txs
         /\ t \in Txs => (InChain(t, b) <=> \E c \in Chain[b] : t \in ToSet(Vtx[c]))
         /\ t \in Blocks => (InChain(t, b) <=> t \in Chain[b] \ {Base})
         /\ InChain(t, b) => HeightInChain(t, b) \in Nat \ {0}
<1>1. \A c \in Chain[b] : c \in Blocks
  BY Ancestors
<1>2. \A c \in Blocks : ToSet(Vtx[c]) \subseteq Txs
  BY BlockTxs
<1>3. InChain(t, b) => t \in Blocks \/ t \in Txs
  BY <1>1, <1>2 DEF InChain
<1>4. t \in BaseTxs => t \notin Blocks /\ t \notin Txs
  BY NamesApart
<1>5. t \in Txs => t \notin Blocks
  BY NamesApart
<1>6. ASSUME InChain(t, b)
      PROVE  HeightInChain(t, b) \in Nat \ {0}
  <2>1. \A c \in Blocks : nHeight[c] \in Nat \ {0}
    BY Heights
  <2>2. CASE t \in Blocks
    BY <2>1, <2>2 DEF HeightInChain
  <2>3. CASE t \notin Blocks
    <3> DEFINE c == CHOOSE c \in Chain[b] : t \in ToSet(Vtx[c])
    <3>1. \E d \in Chain[b] : t \in ToSet(Vtx[d])
      BY <1>6, <2>3 DEF InChain
    <3>2. c \in Chain[b]
      BY <3>1
    <3>3. HeightInChain(t, b) = nHeight[c]
      BY <2>3 DEF HeightInChain
    <3> QED
      BY <1>1, <2>1, <3>2, <3>3
  <2> QED
    BY <2>2, <2>3
<1> QED
  BY <1>3, <1>4, <1>5, <1>6 DEF InChain

\* The coins of a chain, output by output.
LEMMA UnspentIs ==
  ASSUME NEW b \in Blocks, NEW t \in TxIds
  PROVE  /\ Unspent[b] \in Views
         /\ \A m \in Nat : m \in Unspent[b][t].out <=>
                             MadeIn(t, m, b) /\ ~SpentInChain(<<t, m>>, b)
         /\ Unspent[b][t].out = {} => Unspent[b][t] = NoCoins
         /\ Unspent[b][t].out # {} =>
              /\ Unspent[b][t].nHeight \in Nat \ {0}
              /\ InChain(t, b) => Unspent[b][t].nHeight = HeightInChain(t, b)
              /\ ~InChain(t, b) => t \in BaseTxs /\ Unspent[b][t].nHeight = BaseCoins[t].nHeight
<1> DEFINE made(u) == IF InChain(u, b) THEN CCoins(u, HeightInChain(u, b))
                      ELSE IF u \in BaseTxs THEN BaseCoins[u] ELSE NoCoins
           left(u) == {n \in made(u).out : ~SpentInChain(<<u, n>>, b)}
           coins(u) == IF left(u) = {} THEN NoCoins ELSE [made(u) EXCEPT !.out = left(u)]
<1>1. Unspent[b] = [u \in TxIds |-> coins(u)]
  BY DEF Unspent
<1>2. ASSUME NEW u \in TxIds
      PROVE  /\ made(u) \in Coins
             /\ \A m \in Nat : m \in made(u).out <=> MadeIn(u, m, b)
             /\ made(u).out # {} =>
                  /\ made(u).nHeight \in Nat \ {0}
                  /\ InChain(u, b) => made(u).nHeight = HeightInChain(u, b)
                  /\ ~InChain(u, b) => u \in BaseTxs /\ made(u).nHeight = BaseCoins[u].nHeight
  <2>1. CASE InChain(u, b)
    <3>1. made(u) = [nHeight |-> HeightInChain(u, b), out |-> Vout[u]]
      BY <2>1 DEF CCoins
    <3>2. HeightInChain(u, b) \in Nat \ {0} /\ u \notin BaseTxs
      BY <2>1, BaseIsApart
    <3>3. Vout[u] \subseteq Nat
      BY CoinsAssumption
    <3> HIDE DEF made
    <3> QED
      BY <2>1, <3>1, <3>2, <3>3 DEF MadeIn, Coins
  <2>2. CASE ~InChain(u, b) /\ u \in BaseTxs
    <3>1. made(u) = BaseCoins[u]
      BY <2>2
    <3>2. BaseCoins[u] \in [nHeight : Nat \ {0}, out : (SUBSET Nat) \ {{}}]
      BY <2>2, CoinsAssumption
    <3> HIDE DEF made
    <3> QED
      BY <2>2, <3>1, <3>2 DEF MadeIn, Coins
  <2>3. CASE ~InChain(u, b) /\ u \notin BaseTxs
    <3>1. made(u) = NoCoins
      BY <2>3
    <3> HIDE DEF made
    <3> QED
      BY <2>3, <3>1 DEF MadeIn, Coins, NoCoins
  <2> QED
    BY <2>1, <2>2, <2>3
<1> HIDE DEF made
<1>3. ASSUME NEW u \in TxIds
      PROVE  /\ coins(u) \in Coins /\ coins(u).out = left(u)
             /\ left(u) = {} => coins(u) = NoCoins
             /\ left(u) # {} => coins(u).nHeight = made(u).nHeight
  <2>1. made(u) \in Coins /\ left(u) \subseteq made(u).out /\ made(u).out \subseteq Nat
    BY <1>2 DEF Coins
  <2>2. CASE left(u) = {}
    <3>1. coins(u) = [nHeight |-> -1, out |-> {}]
      BY <2>2 DEF NoCoins
    <3> HIDE DEF coins, left
    <3> QED
      BY <2>2, <3>1 DEF Coins, NoCoins
  <2>3. CASE left(u) # {}
    <3>1. coins(u) = [made(u) EXCEPT !.out = left(u)]
      BY <2>3
    <3> HIDE DEF coins, left
    <3> QED
      BY <2>1, <2>3, <3>1 DEF Coins
  <2> QED
    BY <2>2, <2>3
<1>4. Unspent[b] \in Views
  <2> HIDE DEF coins
  <2> QED
    BY <1>1, <1>3 DEF Views
<1>5. Unspent[b][t] = coins(t)
  BY <1>1
<1>6. \A m \in Nat : m \in left(t) <=> MadeIn(t, m, b) /\ ~SpentInChain(<<t, m>>, b)
  BY <1>2
<1>7. left(t) # {} => made(t).out # {}
  OBVIOUS
<1>8. /\ coins(t).out = left(t)
      /\ left(t) = {} => coins(t) = NoCoins
      /\ left(t) # {} => coins(t).nHeight = made(t).nHeight
  BY <1>3
<1>9. made(t).out # {} =>
        /\ made(t).nHeight \in Nat \ {0}
        /\ InChain(t, b) => made(t).nHeight = HeightInChain(t, b)
        /\ ~InChain(t, b) => t \in BaseTxs /\ made(t).nHeight = BaseCoins[t].nHeight
  BY <1>2
<1> HIDE DEF left, coins
<1> QED
  BY <1>4, <1>5, <1>6, <1>7, <1>8, <1>9

\* In a valid chain the height of a transaction is that of its block.
LEMMA HeightIs ==
  ASSUME NEW b \in Blocks, ValidChain[b],
         NEW c \in Chain[b], NEW t \in ToSet(Vtx[c])
  PROVE  t \in Txs /\ InChain(t, b) /\ HeightInChain(t, b) = nHeight[c]
<1>1. c \in Blocks
  BY Ancestors
<1>2. t \in Txs /\ t \notin Blocks
  BY <1>1, BlockTxs, NamesApart
<1> DEFINE d == CHOOSE d \in Chain[b] : t \in ToSet(Vtx[d])
<1>3. d \in Chain[b] /\ t \in ToSet(Vtx[d])
  OBVIOUS
<1>4. HeightInChain(t, b) = nHeight[d]
  BY <1>2 DEF HeightInChain
<1> HIDE DEF d
<1>5. c = d
  BY <1>2, <1>3, OnceInChain
<1> QED
  BY <1>2, <1>3, <1>4, <1>5 DEF InChain

-----------------------------------------------------------------------------
(* The coins in the middle of a block *)

\* t is the coinbase of b or one of its first i transactions.
InBlock(b, i, t) == t = b \/ \E j \in 1..i : Vtx[b][j] = t

\* One of the first i transactions of b spends o.
SpentBy(b, i, o) == \E j \in 1..i : o \in ToSet(Vin[Vtx[b][j]])

\* What the chain of b leaves after its coinbase and first i transactions.
CoinsAt(b, i) ==
  [t \in TxIds |->
     LET coins == IF InBlock(b, i, t) THEN CCoins(t, nHeight[b]) ELSE Unspent[Parent[b]][t]
     IN [nHeight |-> coins.nHeight, out |-> {m \in coins.out : ~SpentBy(b, i, <<t, m>>)}]]

\* The chain before b, and its first i transactions, are valid.
ValidUpTo(b, i) == ValidChain[Parent[b]] /\ \A j \in 1..i : ValidTx(b, j)

LEMMA CoinsAtIs ==
  ASSUME NEW b \in Blocks \ {Base}, NEW i, NEW t \in TxIds
  PROVE  /\ CoinsAt(b, i) \in Views
         /\ \A m \in Nat :
              m \in CoinsAt(b, i)[t].out <=>
                /\ \/ InBlock(b, i, t) /\ m \in Vout[t]
                   \/ ~InBlock(b, i, t) /\ m \in Unspent[Parent[b]][t].out
                /\ ~SpentBy(b, i, <<t, m>>)
         /\ CoinsAt(b, i)[t].out \subseteq Nat
         /\ InBlock(b, i, t) => CoinsAt(b, i)[t].nHeight = nHeight[b]
         /\ ~InBlock(b, i, t) => CoinsAt(b, i)[t].nHeight = Unspent[Parent[b]][t].nHeight
         /\ CoinsAt(b, i)[t].out # {} => CoinsAt(b, i)[t].nHeight \in Nat \ {0}
<1> DEFINE made(u) == IF InBlock(b, i, u) THEN CCoins(u, nHeight[b]) ELSE Unspent[Parent[b]][u]
           coins(u) == [nHeight |-> made(u).nHeight,
                        out |-> {m \in made(u).out : ~SpentBy(b, i, <<u, m>>)}]
<1>1. CoinsAt(b, i) = [u \in TxIds |-> coins(u)]
  BY DEF CoinsAt
<1>2. Parent[b] \in Blocks /\ nHeight[b] \in Nat \ {0}
  BY Heights, TreeAssumption
<1>3. ASSUME NEW u \in TxIds
      PROVE  /\ made(u).nHeight \in Int /\ made(u).out \subseteq Nat
             /\ InBlock(b, i, u) => made(u).nHeight = nHeight[b] /\ made(u).out = Vout[u]
             /\ ~InBlock(b, i, u) => /\ made(u).nHeight = Unspent[Parent[b]][u].nHeight
                                     /\ made(u).out = Unspent[Parent[b]][u].out
             /\ made(u).out # {} => made(u).nHeight \in Nat \ {0}
  <2>1. CASE InBlock(b, i, u)
    <3>1. made(u) = [nHeight |-> nHeight[b], out |-> Vout[u]]
      BY <2>1 DEF CCoins
    <3>2. Vout[u] \subseteq Nat
      BY CoinsAssumption
    <3> HIDE DEF made
    <3> QED
      BY <1>2, <2>1, <3>1, <3>2
  <2>2. CASE ~InBlock(b, i, u)
    <3>1. made(u) = Unspent[Parent[b]][u]
      BY <2>2
    <3>2. Unspent[Parent[b]] \in Views
      BY <1>2, UnspentIs
    <3>3. /\ Unspent[Parent[b]][u].nHeight \in Int /\ Unspent[Parent[b]][u].out \subseteq Nat
      BY <3>2, ViewsHave
    <3>4. Unspent[Parent[b]][u].out # {} => Unspent[Parent[b]][u].nHeight \in Nat \ {0}
      BY <1>2, UnspentIs
    <3> HIDE DEF made
    <3> QED
      BY <2>2, <3>1, <3>3, <3>4
  <2> QED
    BY <2>1, <2>2
<1> HIDE DEF made
<1>4. \A u \in TxIds : coins(u) \in Coins
  BY <1>3 DEF Coins
<1>5. CoinsAt(b, i) \in Views
  <2> HIDE DEF coins
  <2> QED
    BY <1>1, <1>4 DEF Views
<1>6. CoinsAt(b, i)[t] = coins(t)
  BY <1>1
<1>7. /\ made(t).nHeight \in Int /\ made(t).out \subseteq Nat
      /\ InBlock(b, i, t) => made(t).nHeight = nHeight[b] /\ made(t).out = Vout[t]
      /\ ~InBlock(b, i, t) => /\ made(t).nHeight = Unspent[Parent[b]][t].nHeight
                              /\ made(t).out = Unspent[Parent[b]][t].out
      /\ made(t).out # {} => made(t).nHeight \in Nat \ {0}
  BY <1>3
<1>8. /\ coins(t).nHeight = made(t).nHeight
      /\ coins(t).out \subseteq made(t).out
      /\ \A m : m \in coins(t).out <=> m \in made(t).out /\ ~SpentBy(b, i, <<t, m>>)
  OBVIOUS
<1> HIDE DEF coins
<1> QED
  BY <1>5, <1>6, <1>7, <1>8

\* What the first transactions of a block make has not been spent before.
LEMMA NewIsUnspent ==
  ASSUME NEW b \in Blocks \ {Base},
         NEW i \in 0..Len(Vtx[b]), ValidUpTo(b, i),
         NEW t \in TxIds, InBlock(b, i, t)
  PROVE  /\ ~InChain(t, Parent[b]) /\ t \notin BaseTxs
         /\ \A m : ~SpentInChain(<<t, m>>, Parent[b])
<1>1. Parent[b] \in Blocks /\ b \in Blocks /\ Len(Vtx[b]) \in Nat
  BY ChainGrows, BlockTxs
<1>2. ~InChain(t, Parent[b]) /\ t \notin BaseTxs
  <2>1. CASE t = b
    BY <1>1, <2>1, ChainGrows, NamesApart
  <2>2. CASE t # b
    <3>1. PICK j \in 1..i : Vtx[b][j] = t
      BY <2>2 DEF InBlock
    <3>2. j \in 1..Len(Vtx[b])
      BY <1>1
    <3>3. t \in Txs
      BY <1>1, <3>1, <3>2, BlockTxs
    <3>4. t \notin Before(b, j)
      BY <3>1 DEF ValidUpTo, ValidTx
    <3> QED
      BY <3>3, <3>4, NamesApart DEF Before
  <2> QED
    BY <2>1, <2>2
<1>3. ASSUME NEW m, SpentInChain(<<t, m>>, Parent[b])
      PROVE  FALSE
  <2> DEFINE o == <<t, m>>
  <2>1. o[1] \in BaseTxs \/ InChain(o[1], Parent[b])
    BY <1>1, <1>3, SpentIsKnown DEF ValidUpTo
  <2> QED
    BY <1>2, <2>1
<1> QED
  BY <1>2, <1>3

\* What is before a transaction of a block is in its chain, or in the block.
LEMMA BeforeMeans ==
  ASSUME NEW b \in Blocks \ {Base}, NEW i \in 1..Len(Vtx[b]), NEW u
  PROVE  /\ u \in Before(b, i) <=> u \in Txs /\ (InChain(u, Parent[b]) \/ InBlock(b, i - 1, u))
         /\ Vtx[b][i] \in Txs
         /\ \A j \in 1..(i - 1) : Vtx[b][j] \in Before(b, i)
         /\ \A j \in 1..i : Before(b, j) \subseteq Before(b, i)
<1>1. /\ Len(Vtx[b]) \in Nat /\ \A j \in 1..Len(Vtx[b]) : Vtx[b][j] \in Txs
  BY BlockTxs
<1>2. \A j \in 1..(i - 1) : j \in 1..Len(Vtx[b])
  BY <1>1
<1>3. \A j \in 1..i : \A k \in 1..(j - 1) : k \in 1..(i - 1)
  BY <1>1
<1>4. u \in Before(b, i) <=> u \in Txs /\ (InChain(u, Parent[b]) \/ InBlock(b, i - 1, u))
  <2>1. u \in Txs => u # b
    BY NamesApart
  <2> QED
    BY <2>1 DEF Before, InBlock
<1> QED
  BY <1>1, <1>2, <1>3, <1>4 DEF Before

\* The first transactions of b spend nothing the next one makes.
LEMMA NothingAhead ==
  ASSUME NEW b \in Blocks \ {Base},
         NEW i \in 1..Len(Vtx[b]), ValidUpTo(b, i)
  PROVE  /\ Vtx[b][i] \in Txs /\ ~InBlock(b, i - 1, Vtx[b][i])
         /\ ~InChain(Vtx[b][i], Parent[b])
         /\ \A m : ~SpentBy(b, i, <<Vtx[b][i], m>>)
<1> DEFINE t == Vtx[b][i]
<1>1. t \in Txs /\ t \notin Blocks /\ t \notin BaseTxs
  BY BeforeMeans, NamesApart
<1>2. Len(Vtx[b]) \in Nat /\ i \in 1..i
  BY BlockTxs
<1>3. ValidTx(b, i)
  BY <1>2 DEF ValidUpTo
<1>4. t \notin Before(b, i)
  BY <1>3 DEF ValidTx
<1>5. ASSUME NEW m, SpentBy(b, i, <<t, m>>)
      PROVE  FALSE
  <2>1. PICK j \in 1..i : <<t, m>> \in ToSet(Vin[Vtx[b][j]])
    BY <1>5 DEF SpentBy
  <2>2. ValidTx(b, j)
    BY DEF ValidUpTo
  <2> DEFINE o == <<t, m>>
  <2>3. o[1] \in Before(b, j) \/ o[1] \in BaseTxs \/ o[1] \in Chain[Parent[b]]
    BY <2>1, <2>2 DEF ValidTx
  <2>4. Chain[Parent[b]] \subseteq Blocks
    BY ChainGrows
  <2>5. t \in Before(b, j)
    BY <1>1, <2>3, <2>4
  <2>6. Before(b, j) \subseteq Before(b, i)
    BY BeforeMeans
  <2> QED
    BY <1>4, <2>5, <2>6
<1>6. ~InBlock(b, i - 1, t) /\ ~InChain(t, Parent[b])
  BY <1>1, <1>4, BeforeMeans DEF InBlock
<1> QED
  BY <1>1, <1>5, <1>6

IsOutpoint(o) == \E u \in TxIds, m \in Nat : o = <<u, m>>

\* An input of a transaction is an outpoint, and there is one.
LEMMA InputsOf ==
  ASSUME NEW t \in Txs
  PROVE  /\ \A o \in ToSet(Vin[t]) : IsOutpoint(o)
         /\ \A o \in ToSet(Vin[t]) : \E j \in 1..Len(Vin[t]) : o = Vin[t][j]
         /\ ToSet(Vin[t]) # {}
         /\ \A j \in 1..Len(Vin[t]) : Vin[t][j] \in ToSet(Vin[t])
<1>1. /\ Vin[t] \in Seq(Outpoints) /\ Len(Vin[t]) \in Nat \ {0}
      /\ \A j \in 1..Len(Vin[t]) : Vin[t][j] \in Outpoints
  BY Transactions
<1>2. \A o : o \in ToSet(Vin[t]) <=> \E j \in 1..Len(Vin[t]) : o = Vin[t][j]
  BY <1>1, Members
<1>3. \A o \in Outpoints : IsOutpoint(o)
  BY DEF Outpoints, IsOutpoint
<1>4. 1 \in 1..Len(Vin[t])
  <2>1. \A n \in Nat \ {0} : 1 \in 1..n
    OBVIOUS
  <2> QED
    BY <1>1, <2>1
<1>5. /\ \A o \in ToSet(Vin[t]) : IsOutpoint(o)
      /\ \A o \in ToSet(Vin[t]) : \E j \in 1..Len(Vin[t]) : o = Vin[t][j]
  <2>1. \A o \in ToSet(Vin[t]) : \E j \in 1..Len(Vin[t]) : o = Vin[t][j]
    BY <1>2
  <2>2. \A j \in 1..Len(Vin[t]) : IsOutpoint(Vin[t][j])
    BY <1>1, <1>3
  <2>3. ASSUME NEW o \in ToSet(Vin[t])
        PROVE  IsOutpoint(o)
    <3>1. PICK j \in 1..Len(Vin[t]) : o = Vin[t][j]
      BY <2>1
    <3> QED
      BY <2>2, <3>1
  <2> QED
    BY <2>1, <2>3
<1>6. ToSet(Vin[t]) # {}
  BY <1>2, <1>4
<1>7. \A j \in 1..Len(Vin[t]) : Vin[t][j] \in ToSet(Vin[t])
  BY <1>2
<1> QED
  BY <1>5, <1>6, <1>7

\* A transaction that passes the checks on the coins is a valid one.
LEMMA CheckedIsValid ==
  ASSUME NEW b \in Blocks \ {Base},
         NEW i \in 1..Len(Vtx[b]), ValidUpTo(b, i - 1),
         NEW view \in Views, Same(view, CoinsAt(b, i - 1)),
         CheckInputs(view, Vtx[b][i], nHeight[b])
  PROVE  ValidTx(b, i)
<1> DEFINE t == Vtx[b][i]
           p == Parent[b]
           k == i - 1
<1>1. /\ p \in Blocks /\ Len(Vtx[b]) \in Nat /\ k \in 0..Len(Vtx[b])
      /\ \A j \in 1..k : j \in 1..Len(Vtx[b])
  <2> DEFINE n == Len(Vtx[b])
  <2>1. p \in Blocks /\ n \in Nat
    BY ChainGrows, BlockTxs
  <2>2. i \in 1..n
    OBVIOUS
  <2> HIDE DEF n
  <2>3. k \in 0..n /\ \A j \in 1..k : j \in 1..n
    BY <2>1, <2>2
  <2> QED
    BY <2>1, <2>3 DEF n
<1>0. Same(view, CoinsAt(b, k)) /\ ValidUpTo(b, k)
  OBVIOUS
<1>2. /\ t \in Txs /\ \A j \in 1..k : Vtx[b][j] \in Before(b, i)
      /\ \A u : u \in Before(b, i) <=> u \in Txs /\ (InChain(u, p) \/ InBlock(b, k, u))
  <2>1. t \in Txs /\ \A j \in 1..k : Vtx[b][j] \in Before(b, i)
    BY BeforeMeans
  <2>2. ASSUME NEW u
        PROVE  u \in Before(b, i) <=> u \in Txs /\ (InChain(u, p) \/ InBlock(b, k, u))
    BY BeforeMeans
  <2> HIDE DEF k, p, t
  <2> QED
    BY <2>1, <2>2
<1> HIDE DEF k
<1>4. ValidUpTo(b, k) /\ ValidChain[p]
  BY <1>0 DEF ValidUpTo
<1>5. ASSUME NEW u \in Before(b, i)
      PROVE  u \in Txs /\ (InChain(u, p) \/ \E j \in 1..k : Vtx[b][j] = u)
  <2>1. u \in Txs => u # b
    BY NamesApart
  <2> QED
    BY <1>2, <2>1 DEF InBlock
<1>6. nHeight[b] \in Nat \ {0} /\ COINBASE_MATURITY \in Nat \ {0}
  BY Heights, CoinsAssumption
\* What every input is.
<1>7. ASSUME NEW o \in ToSet(Vin[t])
      PROVE  \E u \in TxIds, m \in Nat :
               /\ o = <<u, m>> /\ o[1] = u /\ o[2] = m
               /\ m \in CoinsAt(b, k)[u].out
               /\ u \in Blocks => nHeight[b] - CoinsAt(b, k)[u].nHeight >= COINBASE_MATURITY
               /\ ~SpentBy(b, k, o)
  <2>1. IsOutpoint(o)
    BY <1>2, InputsOf
  <2>2. PICK u \in TxIds, m \in Nat : o = <<u, m>>
    BY <2>1 DEF IsOutpoint
  <2>3. o[1] = u /\ o[2] = m
    BY <2>2
  <2>4. /\ m \in view[u].out
        /\ u \in Blocks => nHeight[b] - view[u].nHeight >= COINBASE_MATURITY
    BY <2>3 DEF CheckInputs, HaveInputs
  <2>5. view[u].out = CoinsAt(b, k)[u].out /\ view[u].nHeight = CoinsAt(b, k)[u].nHeight
    BY <1>0, <2>4 DEF Same
  <2>6. ~SpentBy(b, k, o)
    BY <2>2, <2>4, <2>5, CoinsAtIs
  <2> QED
    BY <2>2, <2>3, <2>4, <2>5, <2>6
\* The chain before b has not spent it.
<1>8. ASSUME NEW o \in ToSet(Vin[t])
      PROVE  ~SpentInChain(o, p)
  <2>1. PICK u \in TxIds, m \in Nat : o = <<u, m>> /\ m \in CoinsAt(b, k)[u].out
    BY <1>7
  <2>2. CASE InBlock(b, k, u)
    BY <1>1, <1>4, <2>1, <2>2, NewIsUnspent
  <2>3. CASE ~InBlock(b, k, u)
    <3>1. m \in Unspent[p][u].out
      BY <2>1, <2>3, CoinsAtIs
    <3> QED
      BY <1>1, <2>1, <3>1, UnspentIs
  <2> QED
    BY <2>2, <2>3
<1>9. ASSUME NEW o \in ToSet(Vin[t]), NEW u \in Before(b, i)
      PROVE  o \notin ToSet(Vin[u])
  <2>1. CASE InChain(u, p)
    <3>1. u \in Txs /\ u \in TxIds
      BY <1>5, NamesApart
    <3>2. \E c \in Chain[p] : u \in ToSet(Vtx[c])
      BY <1>1, <2>1, <3>1, BaseIsApart
    <3> QED
      BY <1>8, <3>2 DEF SpentInChain
  <2>2. CASE \E j \in 1..k : Vtx[b][j] = u
    <3>1. ~SpentBy(b, k, o)
      BY <1>7
    <3> QED
      BY <2>2, <3>1 DEF SpentBy
  <2> QED
    BY <1>5, <2>1, <2>2
<1>10. t \notin Before(b, i)
  <2>1. ToSet(Vin[t]) # {}
    BY <1>2, InputsOf
  <2> QED
    BY <1>9, <2>1
<1>11. ASSUME NEW o \in ToSet(Vin[t])
       PROVE  \/ o[1] \in Before(b, i) /\ o[2] \in Vout[o[1]]
              \/ o[1] \in BaseTxs /\ o[2] \in BaseCoins[o[1]].out
              \/ /\ o[1] \in Chain[p] \ {Base} /\ o[2] \in Vout[o[1]]
                 /\ nHeight[b] - nHeight[o[1]] >= COINBASE_MATURITY
  <2>1. PICK u \in TxIds, m \in Nat :
               /\ o[1] = u /\ o[2] = m
               /\ m \in CoinsAt(b, k)[u].out
               /\ u \in Blocks => nHeight[b] - CoinsAt(b, k)[u].nHeight >= COINBASE_MATURITY
    BY <1>7
  <2>2. CASE u = b
    <3>1. InBlock(b, k, u)
      BY <2>2 DEF InBlock
    <3>2. CoinsAt(b, k)[u].nHeight = nHeight[b]
      BY <3>1, CoinsAtIs
    <3>3. nHeight[b] - nHeight[b] >= COINBASE_MATURITY
      BY <2>1, <2>2, <3>2
    <3>4. 0 >= COINBASE_MATURITY
      <4>1. \A h \in Nat : h - h = 0
        OBVIOUS
      <4> QED
        BY <1>6, <3>3, <4>1
    <3> QED
      BY <1>6, <3>4
  <2>3. CASE u # b /\ InBlock(b, k, u)
    <3>1. m \in Vout[u]
      BY <2>1, <2>3, CoinsAtIs
    <3>2. u \in Before(b, i)
      BY <1>2, <2>3 DEF InBlock
    <3> QED
      BY <2>1, <3>1, <3>2
  <2>4. CASE ~InBlock(b, k, u)
    <3>1. m \in Unspent[p][u].out
      BY <2>1, <2>4, CoinsAtIs
    <3>2. CoinsAt(b, k)[u].nHeight = Unspent[p][u].nHeight
      BY <2>4 DEF CoinsAt
    <3>3. MadeIn(u, m, p)
      BY <1>1, <3>1, UnspentIs
    <3>4. CASE u \in BaseTxs /\ m \in BaseCoins[u].out
      BY <2>1, <3>4
    <3>5. CASE InChain(u, p) /\ m \in Vout[u] /\ u \in Txs
      <4>1. u \in Before(b, i)
        BY <3>5, <1>2
      <4> QED
        BY <2>1, <3>5, <4>1
    <3>6. CASE InChain(u, p) /\ m \in Vout[u] /\ u \in Blocks
      <4>1. u \in Chain[p] \ {Base}
        BY <1>1, <3>6, BaseIsApart
      <4>2. Unspent[p][u].nHeight = HeightInChain(u, p)
        BY <1>1, <3>1, <3>6, UnspentIs
      <4>3. HeightInChain(u, p) = nHeight[u]
        BY <3>6 DEF HeightInChain
      <4> QED
        BY <2>1, <3>2, <3>6, <4>1, <4>2, <4>3
    <3>7. InChain(u, p) => u \in Blocks \/ u \in Txs
      BY <1>1, BaseIsApart
    <3> QED
      BY <3>3, <3>4, <3>5, <3>6, <3>7 DEF MadeIn
  <2> QED
    BY <2>2, <2>3, <2>4
<1> QED
  BY <1>9, <1>10, <1>11 DEF ValidTx

\* A valid transaction passes the checks on the coins.
LEMMA ValidIsChecked ==
  ASSUME NEW b \in Blocks \ {Base},
         NEW i \in 1..Len(Vtx[b]), ValidUpTo(b, i - 1),
         NEW view, Same(view, CoinsAt(b, i - 1)), ValidTx(b, i)
  PROVE  CheckInputs(view, Vtx[b][i], nHeight[b])
<1> DEFINE t == Vtx[b][i]
           p == Parent[b]
           k == i - 1
<1>1. /\ p \in Blocks /\ Len(Vtx[b]) \in Nat /\ k \in 0..Len(Vtx[b])
      /\ \A j \in 1..k : j \in 1..Len(Vtx[b])
  <2> DEFINE n == Len(Vtx[b])
  <2>1. p \in Blocks /\ n \in Nat
    BY ChainGrows, BlockTxs
  <2>2. i \in 1..n
    OBVIOUS
  <2> HIDE DEF n
  <2>3. k \in 0..n /\ \A j \in 1..k : j \in 1..n
    BY <2>1, <2>2
  <2> QED
    BY <2>1, <2>3 DEF n
<1>0. Same(view, CoinsAt(b, k)) /\ ValidUpTo(b, k)
  OBVIOUS
<1>2. /\ t \in Txs /\ \A j \in 1..k : Vtx[b][j] \in Before(b, i)
      /\ \A u : u \in Before(b, i) <=> u \in Txs /\ (InChain(u, p) \/ InBlock(b, k, u))
  <2>1. t \in Txs /\ \A j \in 1..k : Vtx[b][j] \in Before(b, i)
    BY BeforeMeans
  <2>2. ASSUME NEW u
        PROVE  u \in Before(b, i) <=> u \in Txs /\ (InChain(u, p) \/ InBlock(b, k, u))
    BY BeforeMeans
  <2> HIDE DEF k, p, t
  <2> QED
    BY <2>1, <2>2
<1> HIDE DEF k
<1>4. ValidUpTo(b, k) /\ ValidChain[p]
  BY <1>0 DEF ValidUpTo
<1>5. SUFFICES ASSUME NEW o \in ToSet(Vin[t])
               PROVE  /\ o[2] \in view[o[1]].out
                      /\ o[1] \in Blocks => nHeight[b] - view[o[1]].nHeight >= COINBASE_MATURITY
  BY DEF CheckInputs, HaveInputs
<1>6. PICK u \in TxIds, m \in Nat : o = <<u, m>>
  <2>1. IsOutpoint(o)
    BY <1>2, InputsOf
  <2> QED
    BY <2>1 DEF IsOutpoint
<1>7. o[1] = u /\ o[2] = m
  BY <1>6
<1>8. /\ \A w \in Before(b, i) : o \notin ToSet(Vin[w])
      /\ \/ u \in Before(b, i) /\ m \in Vout[u]
         \/ u \in BaseTxs /\ m \in BaseCoins[u].out
         \/ /\ u \in Chain[p] \ {Base} /\ m \in Vout[u]
            /\ nHeight[b] - nHeight[u] >= COINBASE_MATURITY
  BY <1>7 DEF ValidTx
<1>9. ~SpentBy(b, k, o)
  BY <1>2, <1>8 DEF SpentBy
<1>10. ~SpentInChain(o, p)
  <2>1. ASSUME NEW c \in Chain[p], NEW w \in ToSet(Vtx[c]), o \in ToSet(Vin[w])
        PROVE  FALSE
    <3>1. c \in Blocks
      BY <1>1, Ancestors
    <3>2. w \in Txs /\ w \in TxIds
      BY <2>1, <3>1, BlockTxs, NamesApart
    <3>3. InChain(w, p)
      BY <1>1, <2>1, <3>2, BaseIsApart
    <3>4. w \in Before(b, i)
      BY <1>2, <3>2, <3>3
    <3> QED
      BY <1>8, <2>1, <3>4
  <2> QED
    BY <2>1 DEF SpentInChain
<1>11. /\ m \in CoinsAt(b, k)[u].out
       /\ u \in Blocks => nHeight[b] - CoinsAt(b, k)[u].nHeight >= COINBASE_MATURITY
  <2>1. CASE u # b /\ InBlock(b, k, u)
    <3>1. u \in Before(b, i)
      BY <1>2, <2>1 DEF InBlock
    <3>2. u \in Txs
      BY <1>2, <3>1
    <3>3. u \notin Blocks /\ u \notin BaseTxs
      BY <3>2, NamesApart
    <3>4. m \in Vout[u]
      BY <1>8, <3>3, ChainGrows
    <3>5. m \in CoinsAt(b, k)[u].out
      BY <1>6, <1>9, <2>1, <3>4, CoinsAtIs
    <3> QED
      BY <3>3, <3>5
  <2>2. CASE u = b
    <3>1. u \notin Txs /\ u \notin BaseTxs /\ u \notin Chain[p]
      BY <2>2, NamesApart, ChainGrows
    <3>2. u \notin Before(b, i)
      BY <1>2, <3>1
    <3> QED
      BY <1>8, <3>1, <3>2
  <2>3. CASE ~InBlock(b, k, u)
    <3>1. MadeIn(u, m, p)
      <4>1. CASE u \in Before(b, i) /\ m \in Vout[u]
        <5>1. InChain(u, p)
          BY <1>2, <2>3, <4>1 DEF InBlock
        <5> QED
          BY <4>1, <5>1 DEF MadeIn
      <4>2. CASE u \in BaseTxs /\ m \in BaseCoins[u].out
        BY <4>2 DEF MadeIn
      <4>3. CASE u \in Chain[p] \ {Base} /\ m \in Vout[u]
        <5>1. u \in Blocks
          BY <4>3, ChainGrows
        <5>2. InChain(u, p)
          BY <1>1, <4>3, <5>1, BaseIsApart
        <5> QED
          BY <4>3, <5>2 DEF MadeIn
      <4> QED
        BY <1>8, <4>1, <4>2, <4>3
    <3>2. m \in Unspent[p][u].out
      BY <1>1, <1>6, <1>10, <3>1, UnspentIs
    <3>3. m \in CoinsAt(b, k)[u].out
      BY <1>6, <1>9, <2>3, <3>2, CoinsAtIs
    <3>4. ASSUME u \in Blocks
          PROVE  nHeight[b] - CoinsAt(b, k)[u].nHeight >= COINBASE_MATURITY
      <4>1. u \notin Txs /\ u \notin BaseTxs
        BY <3>4, NamesApart
      <4>2. u \in Chain[p] \ {Base} /\ nHeight[b] - nHeight[u] >= COINBASE_MATURITY
        BY <1>8, <1>2, <4>1
      <4>3. InChain(u, p)
        BY <1>1, <3>4, <4>2, BaseIsApart
      <4>4. Unspent[p][u].nHeight = HeightInChain(u, p)
        BY <1>1, <3>2, <4>3, UnspentIs
      <4>5. HeightInChain(u, p) = nHeight[u]
        BY <3>4 DEF HeightInChain
      <4>6. CoinsAt(b, k)[u].nHeight = Unspent[p][u].nHeight
        BY <2>3 DEF CoinsAt
      <4> QED
        BY <4>2, <4>4, <4>5, <4>6
    <3> QED
      BY <3>3, <3>4
  <2> QED
    BY <2>1, <2>2, <2>3
<1>12. view[u].out = CoinsAt(b, k)[u].out /\ view[u].nHeight = CoinsAt(b, k)[u].nHeight
  BY <1>0, <1>11 DEF Same
<1> QED
  BY <1>7, <1>11, <1>12

-----------------------------------------------------------------------------
(* Connecting a transaction *)

LEMMA UpToNext ==
  ASSUME NEW i \in Nat \ {0}
  PROVE  \A j : j \in 1..i <=> j \in 1..(i - 1) \/ j = i
OBVIOUS

\* The undo data of a transaction, from the coins it was connected to.
UndoOf(view, t) == [i \in DOMAIN Vin[t] |-> Undo(Without(view, Vin[t], i - 1), Vin[t][i])]

\* The undo data of a block.
BlockUndo(b) == [i \in 1..Len(Vtx[b]) |-> UndoOf(CoinsAt(b, i - 1), Vtx[b][i])]

LEMMA UndoSame ==
  ASSUME NEW view, NEW other, Same(view, other), NEW o \in Outpoints
  PROVE  Undo(view, o) = Undo(other, o)
<1>1. PICK u \in TxIds, m \in Nat : o = <<u, m>>
  BY DEF Outpoints
<1>2. o[1] = u /\ o[2] = m
  BY <1>1
<1>3. view[u].out = other[u].out /\ (view[u].out # {} => view[u].nHeight = other[u].nHeight)
  BY DEF Same
<1> QED
  BY <1>2, <1>3 DEF Undo

LEMMA WithoutSame ==
  ASSUME NEW view, NEW other, Same(view, other), NEW s, NEW k
  PROVE  Same(Without(view, s, k), Without(other, s, k))
<1> SUFFICES ASSUME NEW t \in TxIds
             PROVE  /\ Without(view, s, k)[t].out = Without(other, s, k)[t].out
                    /\ Without(view, s, k)[t].out # {} =>
                         Without(view, s, k)[t].nHeight = Without(other, s, k)[t].nHeight
  BY DEF Same
<1>1. view[t].out = other[t].out /\ (view[t].out # {} => view[t].nHeight = other[t].nHeight)
  BY DEF Same
<1> QED
  BY <1>1 DEF Without

LEMMA Prefix ==
  ASSUME NEW S, NEW q \in Seq(S), NEW i \in 1..Len(q), NEW part, part = SubSeq(q, 1, i - 1)
  PROVE  /\ part \in Seq(S) /\ Len(part) = i - 1 /\ q[i] \in S
         /\ \A j \in 1..(i - 1) : part[j] = q[j]
OBVIOUS

\* What is recorded while the inputs are spent one after the other.
LEMMA UndoIs ==
  ASSUME NEW view \in Views, NEW t \in Txs
  PROVE  TxUndo(view, t) = UndoOf(view, t)
<1> DEFINE s == Vin[t]
<1>1. s \in Seq(Outpoints) /\ Len(s) \in Nat /\ DOMAIN s = 1..Len(s)
  BY Transactions
<1>2. ASSUME NEW i \in 1..Len(s)
      PROVE  Undo(FoldLeft(Spend, view, SubSeq(s, 1, i - 1)), s[i])
             = Undo(Without(view, s, i - 1), s[i])
  <2> DEFINE part == SubSeq(s, 1, i - 1)
  <2>1. /\ part \in Seq(Outpoints) /\ Len(part) = i - 1 /\ s[i] \in Outpoints
        /\ \A j \in 1..(i - 1) : part[j] = s[j]
    <3>1. s \in Seq(Outpoints) /\ i \in 1..Len(s) /\ part = SubSeq(s, 1, i - 1)
      BY <1>1
    <3> HIDE DEF s, part
    <3> QED
      BY <3>1, Prefix
  <2> HIDE DEF part, s
  <2>2. Same(FoldLeft(Spend, view, part), Without(view, part, Len(part)))
    BY <2>1, SpendAll
  <2>3. \A u : Taken(part, Len(part), u) = Taken(s, i - 1, u)
    BY <2>1 DEF Taken
  <2>4. Without(view, part, Len(part)) = Without(view, s, i - 1)
    BY <2>3 DEF Without
  <2> QED
    BY <2>1, <2>2, <2>4, UndoSame DEF part
<1> QED
  BY <1>1, <1>2 DEF TxUndo, UndoOf

LEMMA UndoOfSame ==
  ASSUME NEW view, NEW other, Same(view, other), NEW t \in Txs
  PROVE  UndoOf(view, t) = UndoOf(other, t)
<1>1. DOMAIN Vin[t] = 1..Len(Vin[t]) /\ \A i \in 1..Len(Vin[t]) : Vin[t][i] \in Outpoints
  BY Transactions
<1>2. ASSUME NEW i \in DOMAIN Vin[t]
      PROVE  Undo(Without(view, Vin[t], i - 1), Vin[t][i])
             = Undo(Without(other, Vin[t], i - 1), Vin[t][i])
  <2>1. Vin[t][i] \in Outpoints
    BY <1>1
  <2>2. Same(Without(view, Vin[t], i - 1), Without(other, Vin[t], i - 1))
    BY WithoutSame
  <2> QED
    BY <2>1, <2>2, UndoSame
<1> QED
  BY <1>2 DEF UndoOf

\* The coins of the chain before, and the coinbase.
LEMMA CoinbaseConnects ==
  ASSUME NEW b \in Blocks \ {Base},
         NEW view \in Views, Same(view, Unspent[Parent[b]])
  PROVE  /\ [view EXCEPT ![b] = CCoins(b, nHeight[b])] \in Views
         /\ Same([view EXCEPT ![b] = CCoins(b, nHeight[b])], CoinsAt(b, 0))
<1> DEFINE w == [view EXCEPT ![b] = CCoins(b, nHeight[b])]
<1>1. CCoins(b, nHeight[b]) \in Coins /\ b \in TxIds
  <2>0. nHeight[b] \in Nat \ {0}
    BY Heights
  <2>1. nHeight[b] \in Int /\ b \in TxIds
    BY <2>0, NamesApart
  <2>2. Vout[b] \subseteq Nat
    BY <2>1, CoinsAssumption
  <2> QED
    BY <2>1, <2>2 DEF CCoins, Coins
<1>2. w \in Views
  BY <1>1 DEF Views
<1>3. \A o : ~SpentBy(b, 0, o)
  BY DEF SpentBy
<1>4. \A t : InBlock(b, 0, t) <=> t = b
  BY DEF InBlock
<1>5. ASSUME NEW t \in TxIds
      PROVE  /\ w[t].out = CoinsAt(b, 0)[t].out
             /\ w[t].out # {} => w[t].nHeight = CoinsAt(b, 0)[t].nHeight
  <2>1. CASE t = b
    <3>1. w[t] = [nHeight |-> nHeight[b], out |-> Vout[b]]
      BY <2>1, ViewsHave DEF CCoins
    <3>2. CoinsAt(b, 0)[t] = [nHeight |-> nHeight[b], out |-> Vout[b]]
      BY <1>3, <1>4, <2>1 DEF CoinsAt, CCoins
    <3> QED
      BY <3>1, <3>2
  <2>2. CASE t # b
    <3>1. w[t] = view[t]
      BY <2>2, ViewsHave
    <3>2. /\ CoinsAt(b, 0)[t].out = Unspent[Parent[b]][t].out
          /\ CoinsAt(b, 0)[t].nHeight = Unspent[Parent[b]][t].nHeight
      BY <1>3, <1>4, <2>2 DEF CoinsAt
    <3> QED
      BY <3>1, <3>2 DEF Same
  <2> QED
    BY <2>1, <2>2
<1> QED
  BY <1>2, <1>5 DEF Same

\* A valid transaction more.
LEMMA TxConnects ==
  ASSUME NEW b \in Blocks \ {Base},
         NEW i \in 1..Len(Vtx[b]), ValidUpTo(b, i),
         NEW view \in Views, Same(view, CoinsAt(b, i - 1))
  PROVE  /\ UpdateCoins(view, Vtx[b][i], nHeight[b]) \in Views
         /\ Same(UpdateCoins(view, Vtx[b][i], nHeight[b]), CoinsAt(b, i))
<1> DEFINE t == Vtx[b][i]
           k == i - 1
           spent == FoldLeft(Spend, view, Vin[t])
           w == UpdateCoins(view, t, nHeight[b])
<1>1. /\ t \in Txs /\ ~InBlock(b, k, t) /\ \A m : ~SpentBy(b, i, <<t, m>>)
  BY NothingAhead
<1>2. t \in TxIds /\ Vin[t] \in Seq(Outpoints) /\ Vout[t] \subseteq Nat
  BY <1>1, Transactions
<1>3. spent \in Views /\ Same(spent, Without(view, Vin[t], Len(Vin[t])))
  BY <1>2, SpendAll
<1>4. w = [spent EXCEPT ![t] = CCoins(t, nHeight[b])]
  BY DEF UpdateCoins
<1>5. CCoins(t, nHeight[b]) \in Coins
  <2>1. nHeight[b] \in Nat \ {0}
    BY Heights
  <2>2. nHeight[b] \in Int
    <3>1. Nat \ {0} \subseteq Int
      OBVIOUS
    <3> QED
      BY <2>1, <3>1
  <2> HIDE DEF t
  <2> QED
    BY <1>2, <2>2 DEF CCoins, Coins
<1>6. \A o : SpentBy(b, i, o) <=> SpentBy(b, k, o) \/ o \in ToSet(Vin[t])
  <2>1. \A j : j \in 1..i <=> j \in 1..k \/ j = i
    <3>1. i \in Nat \ {0}
      BY BlockTxs
    <3> QED
      BY <3>1, UpToNext
  <2> HIDE DEF k
  <2> QED
    BY <2>1 DEF SpentBy
<1>7. \A u : InBlock(b, i, u) <=> InBlock(b, k, u) \/ u = t
  <2>1. \A j : j \in 1..i <=> j \in 1..k \/ j = i
    <3>1. i \in Nat \ {0}
      BY BlockTxs
    <3> QED
      BY <3>1, UpToNext
  <2> HIDE DEF k
  <2> QED
    BY <2>1 DEF InBlock
<1>8. Same(view, CoinsAt(b, k))
  OBVIOUS
<1>9. ASSUME NEW u \in TxIds
      PROVE  Taken(Vin[t], Len(Vin[t]), u) = {m \in Nat : <<u, m>> \in ToSet(Vin[t])}
  <2> DEFINE s == Vin[t]
  <2>0. s \in Seq(Outpoints)
    BY <1>2
  <2>1. \A x : x \in ToSet(s) <=> \E j \in 1..Len(s) : x = s[j]
    <3> HIDE DEF s
    <3> QED
      BY <2>0, Members
  <2> HIDE DEF s
  <2>2. Taken(s, Len(s), u) = {m \in Nat : <<u, m>> \in ToSet(s)}
    BY <2>1 DEF Taken
  <2> QED
    BY <2>2 DEF s
<1> HIDE DEF k, spent, w, t
<1>10. w \in Views
  BY <1>3, <1>4, <1>5 DEF Views
<1>11. ASSUME NEW u \in TxIds
       PROVE  /\ w[u].out = CoinsAt(b, i)[u].out
              /\ w[u].out # {} => w[u].nHeight = CoinsAt(b, i)[u].nHeight
  <2>1. CASE u = t
    <3>1. w[u] = [nHeight |-> nHeight[b], out |-> Vout[t]]
      BY <1>3, <1>4, <2>1, ViewsHave DEF CCoins
    <3>2. InBlock(b, i, u)
      BY <1>7, <2>1
    <3>3. CoinsAt(b, i)[u].nHeight = nHeight[b]
      BY <3>2, CoinsAtIs
    <3>4. \A m \in Nat : m \in CoinsAt(b, i)[u].out <=> m \in Vout[t]
      BY <1>1, <2>1, <3>2, CoinsAtIs
    <3>5. CoinsAt(b, i)[u].out \subseteq Nat
      BY CoinsAtIs
    <3>6. CoinsAt(b, i)[u].out = Vout[t]
      BY <1>2, <3>4, <3>5
    <3> QED
      BY <3>1, <3>3, <3>6
  <2>2. CASE u # t
    <3>1. w[u] = spent[u]
      BY <1>3, <1>4, <2>2, ViewsHave
    <3>2. /\ spent[u].out = Without(view, Vin[t], Len(Vin[t]))[u].out
          /\ spent[u].out # {} => spent[u].nHeight = Without(view, Vin[t], Len(Vin[t]))[u].nHeight
      BY <1>3 DEF Same
    <3>3. /\ Without(view, Vin[t], Len(Vin[t]))[u].out
               = view[u].out \ {m \in Nat : <<u, m>> \in ToSet(Vin[t])}
          /\ Without(view, Vin[t], Len(Vin[t]))[u].nHeight = view[u].nHeight
      BY <1>9 DEF Without
    <3>4. /\ view[u].out = CoinsAt(b, k)[u].out
          /\ view[u].out # {} => view[u].nHeight = CoinsAt(b, k)[u].nHeight
      BY <1>8 DEF Same
    <3>5. InBlock(b, i, u) <=> InBlock(b, k, u)
      BY <1>7, <2>2
    <3>6. CoinsAt(b, i)[u].out \subseteq Nat /\ CoinsAt(b, k)[u].out \subseteq Nat
      BY CoinsAtIs
    <3>7. ASSUME NEW m \in Nat
          PROVE  m \in CoinsAt(b, i)[u].out <=>
                   m \in CoinsAt(b, k)[u].out /\ <<u, m>> \notin ToSet(Vin[t])
      <4>1. m \in CoinsAt(b, i)[u].out <=>
              /\ \/ InBlock(b, i, u) /\ m \in Vout[u]
                 \/ ~InBlock(b, i, u) /\ m \in Unspent[Parent[b]][u].out
              /\ ~SpentBy(b, i, <<u, m>>)
        BY CoinsAtIs
      <4>2. m \in CoinsAt(b, k)[u].out <=>
              /\ \/ InBlock(b, k, u) /\ m \in Vout[u]
                 \/ ~InBlock(b, k, u) /\ m \in Unspent[Parent[b]][u].out
              /\ ~SpentBy(b, k, <<u, m>>)
        BY CoinsAtIs
      <4>3. SpentBy(b, i, <<u, m>>) <=> SpentBy(b, k, <<u, m>>) \/ <<u, m>> \in ToSet(Vin[t])
        BY <1>6
      <4> QED
        BY <3>5, <4>1, <4>2, <4>3
    <3>8. w[u].out = CoinsAt(b, i)[u].out
      BY <3>1, <3>2, <3>3, <3>4, <3>6, <3>7
    <3>9. CoinsAt(b, i)[u].nHeight = CoinsAt(b, k)[u].nHeight
      <4>1. CASE InBlock(b, i, u)
        BY <3>5, <4>1, CoinsAtIs
      <4>2. CASE ~InBlock(b, i, u)
        <5>1. CoinsAt(b, i)[u].nHeight = Unspent[Parent[b]][u].nHeight
          BY <4>2 DEF CoinsAt
        <5>2. ~InBlock(b, k, u)
          BY <3>5, <4>2
        <5>3. CoinsAt(b, k)[u].nHeight = Unspent[Parent[b]][u].nHeight
          BY <5>2 DEF CoinsAt
        <5> QED
          BY <5>1, <5>3
      <4> QED
        BY <4>1, <4>2
    <3>10. w[u].out # {} => view[u].out # {}
      BY <3>1, <3>2, <3>3
    <3> QED
      BY <3>1, <3>2, <3>3, <3>4, <3>8, <3>9, <3>10
  <2> QED
    BY <2>1, <2>2
<1>12. Same(w, CoinsAt(b, i))
  BY <1>11 DEF Same
<1> QED
  BY <1>10, <1>12 DEF w, t

\* After all its transactions the coins are those of the chain with the block.
LEMMA BlockConnects ==
  ASSUME NEW b \in Blocks \ {Base}, ValidChain[b]
  PROVE  /\ ValidUpTo(b, Len(Vtx[b]))
         /\ Same(CoinsAt(b, Len(Vtx[b])), Unspent[b])
<1> DEFINE n == Len(Vtx[b])
           p == Parent[b]
<1>1. p \in Blocks /\ b \in Blocks /\ n \in Nat /\ n \in 0..n
  <2>1. p \in Blocks /\ n \in Nat
    BY ChainGrows, BlockTxs
  <2> HIDE DEF n
  <2> QED
    BY <2>1
<1>2. ValidUpTo(b, n) /\ ValidChain[p]
  BY ValidGrows DEF ValidUpTo
<1>0. \A t : t \in ToSet(Vtx[b]) <=> \E j \in 1..n : t = Vtx[b][j]
  <2>1. Vtx[b] \in Seq(Txs)
    BY BlockTxs
  <2> QED
    BY <2>1, Members
<1>3. \A t : InBlock(b, n, t) <=> t = b \/ t \in ToSet(Vtx[b])
  BY <1>0 DEF InBlock
<1>4. \A o : SpentBy(b, n, o) <=> \E t \in ToSet(Vtx[b]) : o \in ToSet(Vin[t])
  BY <1>0 DEF SpentBy
<1> HIDE DEF n
<1>5. ASSUME NEW t \in TxIds, NEW m \in Nat
      PROVE  m \in CoinsAt(b, n)[t].out <=> m \in Unspent[b][t].out
  <2> DEFINE o == <<t, m>>
  <2>1. m \in Unspent[b][t].out <=> MadeIn(t, m, b) /\ ~SpentInChain(o, b)
    BY <1>1, UnspentIs
  <2>2. SpentInChain(o, b) <=> SpentInChain(o, p) \/ SpentBy(b, n, o)
    BY <1>4, ChainGrows
  <2>3. m \in CoinsAt(b, n)[t].out <=>
          /\ \/ InBlock(b, n, t) /\ m \in Vout[t]
             \/ ~InBlock(b, n, t) /\ m \in Unspent[p][t].out
          /\ ~SpentBy(b, n, o)
    BY CoinsAtIs
  <2>4. m \in Unspent[p][t].out <=> MadeIn(t, m, p) /\ ~SpentInChain(o, p)
    BY <1>1, UnspentIs
  <2>5. InChain(t, b) <=> InChain(t, p) \/ InBlock(b, n, t)
    <3>1. CASE t \in Blocks
      BY <1>3, <3>1, BlockTxs, NamesApart, ChainGrows
    <3>2. CASE t \in Txs
      <4>1. t # b
        BY <3>2, NamesApart
      <4>2. InChain(t, b) <=> InChain(t, Parent[b]) \/ t \in ToSet(Vtx[b])
        BY <3>2, ChainGrows
      <4> QED
        BY <1>3, <4>1, <4>2
    <3>3. CASE t \in BaseTxs
      <4>1. t # b /\ t \notin Txs
        BY <3>3, NamesApart
      <4>2. t \notin ToSet(Vtx[b])
        BY <4>1, BlockTxs
      <4>3. ~InChain(t, b)
        BY <1>1, <3>3, BaseIsApart
      <4>4. ~InChain(t, p)
        BY <1>1, <3>3, BaseIsApart
      <4> QED
        BY <1>3, <4>1, <4>2, <4>3, <4>4
    <3> QED
      BY <3>1, <3>2, <3>3, NamesApart
  <2>6. InBlock(b, n, t) => t \notin BaseTxs /\ ~SpentInChain(o, p)
    BY <1>1, <1>2, NewIsUnspent DEF n
  <2> HIDE DEF o, p
  <2>7. CASE InBlock(b, n, t)
    BY <2>1, <2>2, <2>3, <2>5, <2>6, <2>7 DEF MadeIn
  <2>8. CASE ~InBlock(b, n, t)
    BY <2>1, <2>2, <2>3, <2>4, <2>5, <2>8 DEF MadeIn
  <2> QED
    BY <2>7, <2>8
<1>6. ASSUME NEW t \in TxIds
      PROVE  CoinsAt(b, n)[t].out = Unspent[b][t].out
  <2>1. CoinsAt(b, n)[t].out \subseteq Nat
    BY CoinsAtIs
  <2>2. Unspent[b][t].out \subseteq Nat
    BY <1>1, UnspentIs, ViewsHave
  <2> QED
    BY <1>5, <2>1, <2>2
<1>7. ASSUME NEW t \in TxIds, CoinsAt(b, n)[t].out # {}
      PROVE  CoinsAt(b, n)[t].nHeight = Unspent[b][t].nHeight
  <2>1. Unspent[b][t].out # {}
    BY <1>6, <1>7
  <2>2. CASE t = b
    <3>1. CoinsAt(b, n)[t].nHeight = nHeight[b]
      BY <1>3, <2>2, CoinsAtIs
    <3>2. InChain(t, b)
      BY <2>2, ChainGrows
    <3>3. Unspent[b][t].nHeight = HeightInChain(t, b)
      BY <1>1, <2>1, <3>2, UnspentIs
    <3>4. HeightInChain(t, b) = nHeight[b]
      BY <2>2 DEF HeightInChain
    <3> QED
      BY <3>1, <3>3, <3>4
  <2>3. CASE t \in ToSet(Vtx[b])
    <3>1. CoinsAt(b, n)[t].nHeight = nHeight[b]
      BY <1>3, <2>3, CoinsAtIs
    <3>2. b \in Chain[b]
      BY <1>1, Ancestors
    <3>3. InChain(t, b) /\ HeightInChain(t, b) = nHeight[b]
      BY <1>1, <2>3, <3>2, HeightIs
    <3>4. Unspent[b][t].nHeight = HeightInChain(t, b)
      BY <1>1, <2>1, <3>3, UnspentIs
    <3> QED
      BY <3>1, <3>3, <3>4
  <2>4. CASE ~InBlock(b, n, t)
    <3>1. CoinsAt(b, n)[t].nHeight = Unspent[p][t].nHeight
      BY <2>4 DEF CoinsAt
    <3>2. Unspent[p][t].out # {}
      <4>1. PICK m \in Nat : m \in CoinsAt(b, n)[t].out
        BY <1>7, CoinsAtIs
      <4> QED
        BY <2>4, <4>1, CoinsAtIs
    <3>3. CASE ~InChain(t, b)
      <4>1. ~InChain(t, p)
        <5>1. CASE t \in Blocks
          BY <3>3, <5>1, ChainGrows
        <5>2. CASE t \in Txs
          BY <3>3, <5>2, ChainGrows
        <5>3. CASE t \in BaseTxs
          BY <1>1, <5>3, BaseIsApart
        <5> QED
          BY <5>1, <5>2, <5>3, NamesApart
      <4>2. Unspent[p][t].nHeight = BaseCoins[t].nHeight
        BY <1>1, <3>2, <4>1, UnspentIs
      <4>3. Unspent[b][t].nHeight = BaseCoins[t].nHeight
        BY <1>1, <2>1, <3>3, UnspentIs
      <4> QED
        BY <3>1, <4>2, <4>3
    <3>4. CASE InChain(t, b)
      <4>1. t \in Blocks \/ t \in Txs
        BY <1>1, <3>4, BaseIsApart
      <4>2. InChain(t, p)
        <5>1. t # b /\ t \notin ToSet(Vtx[b])
          BY <1>3, <2>4
        <5>2. CASE t \in Blocks
          BY <3>4, <5>1, <5>2, ChainGrows
        <5>3. CASE t \in Txs
          BY <3>4, <5>1, <5>3, ChainGrows
        <5> QED
          BY <4>1, <5>2, <5>3
      <4>3. /\ Unspent[p][t].nHeight = HeightInChain(t, p)
            /\ Unspent[b][t].nHeight = HeightInChain(t, b)
        <5>1. Unspent[p][t].nHeight = HeightInChain(t, p)
          BY <1>1, <3>2, <4>2, UnspentIs
        <5>2. Unspent[b][t].nHeight = HeightInChain(t, b)
          BY <1>1, <2>1, <3>4, UnspentIs
        <5> QED
          BY <5>1, <5>2
      <4>4. HeightInChain(t, p) = HeightInChain(t, b)
        <5>1. CASE t \in Blocks
          BY <5>1 DEF HeightInChain
        <5>2. CASE t \in Txs
          <6>1. PICK c \in Chain[p] : t \in ToSet(Vtx[c])
            BY <1>1, <4>2, <5>2, BaseIsApart
          <6>2. c \in Chain[b]
            <7>1. Chain[b] = Chain[Parent[b]] \cup {b}
              BY ChainGrows
            <7> QED
              BY <6>1, <7>1
          <6>3. HeightInChain(t, p) = nHeight[c]
            BY <1>1, <1>2, <6>1, HeightIs
          <6>4. HeightInChain(t, b) = nHeight[c]
            BY <1>1, <6>1, <6>2, HeightIs
          <6> QED
            BY <6>3, <6>4
        <5> QED
          BY <4>1, <5>1, <5>2
      <4> QED
        BY <3>1, <4>3, <4>4
    <3> QED
      BY <3>3, <3>4
  <2> QED
    BY <1>3, <2>2, <2>3, <2>4
<1> QED
  BY <1>2, <1>6, <1>7 DEF Same, n

-----------------------------------------------------------------------------
(* Connecting a block *)

\* r ends a trace of G.
Traced(D, n, base, G, r) == \E g : Trace(g, D, n, base, G) /\ r = g[n]

\* The transactions of a block with its coinbase.
LEMMA AllTxsOf ==
  ASSUME NEW b \in Blocks
  PROVE  /\ AllTxs(b) \in Seq(TxIds) /\ Len(AllTxs(b)) = Len(Vtx[b]) + 1
         /\ Len(Vtx[b]) \in Nat /\ Len(AllTxs(b)) \in Nat \ {0}
         /\ AllTxs(b)[1] = b
         /\ \A k \in 2..Len(AllTxs(b)) : /\ AllTxs(b)[k] = Vtx[b][k - 1]
                                         /\ k - 1 \in 1..Len(Vtx[b])
                                         /\ AllTxs(b)[k] \in Txs
         /\ \A t : t \in ToSet(AllTxs(b)) <=> t = b \/ t \in ToSet(Vtx[b])
<1> DEFINE v == Vtx[b]
           s == <<b>> \o v
<1>1. v \in Seq(Txs) /\ v \in Seq(TxIds) /\ b \in TxIds
  BY BlockTxs DEF TxIds
<1>2. s = AllTxs(b)
  BY DEF AllTxs
<1> HIDE DEF v
<1>3. /\ s \in Seq(TxIds) /\ Len(s) = Len(v) + 1 /\ Len(v) \in Nat /\ Len(s) \in Nat \ {0}
      /\ s[1] = b
  BY <1>1
<1>4. ASSUME NEW k \in 2..Len(s)
      PROVE  s[k] = v[k - 1] /\ k - 1 \in 1..Len(v) /\ s[k] \in Txs
  <2>1. k \in 2..(Len(v) + 1) /\ Len(v) \in Nat
    BY <1>3
  <2>2. k - 1 \in 1..Len(v)
    BY <2>1
  <2>3. s[k] = v[k - 1]
    BY <1>1, <2>1
  <2>4. v[k - 1] \in Txs
    BY <1>1, <2>2
  <2> QED
    BY <2>2, <2>3, <2>4
<1>5. ASSUME NEW k \in 1..Len(v)
      PROVE  s[k + 1] = v[k] /\ k + 1 \in 1..Len(s)
  BY <1>1
<1>6. \A t : t \in ToSet(s) <=> \E k \in 1..Len(s) : t = s[k]
  <2> HIDE DEF s
  <2> QED
    BY <1>3, Members
<1>7. \A t : t \in ToSet(v) <=> \E k \in 1..Len(v) : t = v[k]
  BY <1>1, Members
<1> HIDE DEF s
<1>8. ASSUME NEW t
      PROVE  t \in ToSet(s) <=> t = b \/ t \in ToSet(v)
  <2>1. 1 \in 1..Len(s) /\ \A k \in 1..Len(s) : k = 1 \/ k \in 2..Len(s)
    BY <1>3
  <2>2. ASSUME t \in ToSet(s)
        PROVE  t = b \/ t \in ToSet(v)
    <3>1. PICK k \in 1..Len(s) : t = s[k]
      BY <1>6, <2>2
    <3>2. CASE k = 1
      BY <1>3, <3>1, <3>2
    <3>3. CASE k \in 2..Len(s)
      BY <1>4, <1>7, <3>1, <3>3
    <3> QED
      BY <2>1, <3>2, <3>3
  <2>3. b \in ToSet(s)
    BY <1>3, <1>6, <2>1
  <2>4. ASSUME t \in ToSet(v)
        PROVE  t \in ToSet(s)
    <3>1. PICK k \in 1..Len(v) : t = v[k]
      BY <1>7, <2>4
    <3> QED
      BY <1>5, <1>6, <3>1
  <2> QED
    BY <2>2, <2>3, <2>4
<1> QED
  BY <1>2, <1>3, <1>4, <1>8 DEF v

\* What ConnectBlock's loop works on.
Connections == [ok : BOOLEAN, view : Views, undo : Seq(Seq(Int))]

ConnectSteps(b) ==
  [p \in Connections \X (1..Len(AllTxs(b))) |-> ConnectTx(p[1], AllTxs(b)[p[2]], nHeight[b])]

ConnectStart(view, b) ==
  [ok |-> ~\E t \in ToSet(AllTxs(b)) : ~IsPruned(view[t]), view |-> view, undo |-> <<>>]

\* The undo data of a transaction is a sequence of heights.
LEMMA UndoType ==
  ASSUME NEW view \in Views, NEW t \in Txs
  PROVE  UndoOf(view, t) \in Seq(Int)
<1>1. DOMAIN Vin[t] = 1..Len(Vin[t]) /\ Len(Vin[t]) \in Nat
  BY Transactions
<1>2. ASSUME NEW i \in 1..Len(Vin[t])
      PROVE  Undo(Without(view, Vin[t], i - 1), Vin[t][i]) \in Int
  <2>1. Vin[t][i] \in Outpoints
    BY Transactions
  <2> DEFINE o == Vin[t][i]
  <2>2. PICK u \in TxIds, m \in Nat : o = <<u, m>>
    <3> HIDE DEF o
    <3>1. o \in Outpoints
      BY <2>1 DEF o
    <3> QED
      BY <3>1 DEF Outpoints
  <2>3. view[u].nHeight \in Int
    BY ViewsHave
  <2>4. Without(view, Vin[t], i - 1)[u].nHeight = view[u].nHeight
    BY DEF Without
  <2> DEFINE before == Without(view, Vin[t], i - 1)
  <2>5. Undo(before, o) = IF before[u].out = {m} THEN before[u].nHeight ELSE 0
    <3> HIDE DEF before, o
    <3> QED
      BY <2>2 DEF Undo
  <2>6. before[u].nHeight \in Int
    BY <2>3, <2>4
  <2> HIDE DEF before, o
  <2>7. Undo(before, o) \in Int
    BY <2>5, <2>6
  <2> QED
    BY <2>7 DEF before, o
<1> DEFINE n == Len(Vin[t])
           e(i) == Undo(Without(view, Vin[t], i - 1), Vin[t][i])
<1>3. UndoOf(view, t) = [i \in 1..n |-> e(i)]
  BY <1>1 DEF UndoOf
<1>4. n \in Nat /\ \A i \in 1..n : e(i) \in Int
  BY <1>1, <1>2
<1> HIDE DEF n, e
<1> QED
  BY <1>3, <1>4

\* What a transaction with its coins does to a view.
LEMMA ConnectTxType ==
  ASSUME NEW b \in Blocks, NEW done \in Connections,
         NEW t \in TxIds, t \in Blocks \/ t \in Txs
  PROVE  ConnectTx(done, t, nHeight[b]) \in Connections
<1>1. done.view \in Views /\ done.ok \in BOOLEAN /\ done.undo \in Seq(Seq(Int))
  BY DEF Connections
<1>2. CCoins(t, nHeight[b]) \in Coins
  <2>1. Nat \ {0} \subseteq Int
    OBVIOUS
  <2>2. nHeight[b] \in Int
    BY <2>1, Heights
  <2>3. Vout[t] \subseteq Nat
    BY CoinsAssumption
  <2> QED
    BY <2>2, <2>3 DEF CCoins, Coins
<1>3. CASE ~done.ok
  BY <1>3 DEF ConnectTx
<1>4. CASE done.ok /\ t \in Blocks
  <2> DEFINE w == [done.view EXCEPT ![t] = CCoins(t, nHeight[b])]
  <2>1. w \in Views
    BY <1>1, <1>2 DEF Views
  <2>2. ConnectTx(done, t, nHeight[b]) = [done EXCEPT !.view = w]
    BY <1>4 DEF ConnectTx
  <2> HIDE DEF w
  <2> QED
    BY <2>1, <2>2 DEF Connections
<1>5. CASE done.ok /\ t \notin Blocks /\ CheckInputs(done.view, t, nHeight[b])
  <2> DEFINE w == UpdateCoins(done.view, t, nHeight[b])
             u == TxUndo(done.view, t)
  <2>0. t \in Txs
    BY <1>5
  <2>1. w \in Views
    <3> DEFINE s == FoldLeft(Spend, done.view, Vin[t])
    <3>1. s \in Views
      BY <1>1, <2>0, Transactions, SpendAll
    <3>2. w = [s EXCEPT ![t] = CCoins(t, nHeight[b])]
      BY DEF UpdateCoins
    <3> HIDE DEF s, w
    <3> QED
      BY <1>2, <3>1, <3>2 DEF Views
  <2>2. u \in Seq(Int)
    <3>1. UndoOf(done.view, t) \in Seq(Int)
      BY <1>1, <2>0, UndoType
    <3>2. u = UndoOf(done.view, t)
      BY <1>1, <2>0, UndoIs
    <3> QED
      BY <3>1, <3>2
  <2>3. ConnectTx(done, t, nHeight[b]) = [done EXCEPT !.view = w, !.undo = Append(done.undo, u)]
    BY <1>5 DEF ConnectTx
  <2> HIDE DEF w, u
  <2>4. Append(done.undo, u) \in Seq(Seq(Int))
    BY <1>1, <2>2
  <2> QED
    BY <2>1, <2>3, <2>4 DEF Connections
<1>6. CASE done.ok /\ t \notin Blocks /\ ~CheckInputs(done.view, t, nHeight[b])
  BY <1>6 DEF ConnectTx, Connections
<1> QED
  BY <1>3, <1>4, <1>5, <1>6

\* ConnectBlock, step by step.
LEMMA ConnectTrace ==
  ASSUME NEW b \in Blocks, NEW view \in Views
  PROVE  /\ Traced(Connections, Len(AllTxs(b)), ConnectStart(view, b), ConnectSteps(b),
                   ConnectBlock(view, b))
         /\ Len(AllTxs(b)) \in Nat
<1> DEFINE D == Connections
           s == AllTxs(b)
           n == Len(s)
           h == nHeight[b]
           base == ConnectStart(view, b)
           G == ConnectSteps(b)
           f == CHOOSE f : f = [S \in SUBSET DOMAIN s |->
                                  IF S = {} THEN base
                                  ELSE LET x == Max(S) IN ConnectTx(f[S \ {x}], s[x], h)]
<1>1. n \in Nat /\ DOMAIN s = 1..n /\ \A i \in 1..n : s[i] \in TxIds /\ (s[i] \in Blocks \/ s[i] \in Txs)
  <2>1. s \in Seq(TxIds) /\ n \in Nat \ {0}
    BY AllTxsOf
  <2>2. DOMAIN s = 1..n
    BY <2>1
  <2>3. \A i \in 1..n : i = 1 \/ i \in 2..n
    <3> HIDE DEF n
    <3> QED
      BY <2>1
  <2>4. s[1] \in Blocks /\ \A i \in 2..n : s[i] \in Txs
    BY AllTxsOf
  <2> QED
    BY <2>1, <2>2, <2>3, <2>4, NamesApart
<1>2. ConnectBlock(view, b) = f[1..n]
  BY <1>1 DEF ConnectBlock, ConnectStart, FoldLeft, MapThenFoldSet
<1>3. G \in [D \X (1..n) -> D]
  BY <1>1, ConnectTxType DEF ConnectSteps
<1>4. \A v \in D, i \in 1..n : G[<<v, i>>] = ConnectTx(v, s[i], h)
  BY DEF ConnectSteps
<1>5. base \in D
  BY DEF Connections, ConnectStart
<1>0. n \in Nat /\ DOMAIN s = 1..n
  BY <1>1
<1> HIDE DEF n, G, D, base, s, h
<1>6. f = [S \in SUBSET (1..n) |->
             IF S = {} THEN base ELSE LET x == Max(S) IN ConnectTx(f[S \ {x}], s[x], h)]
  <2>1. IsFiniteSet(1..n) /\ 1..n \subseteq Int
    BY <1>0, FS_Interval
  <2>2. PICK g \in [SUBSET (1..n) -> D] : FoldsOn(g, SUBSET (1..n), base, G)
    BY <1>3, <1>5, <2>1, FoldExists
  <2>3. ASSUME NEW S \in SUBSET (1..n)
        PROVE  g[S] = IF S = {} THEN base ELSE LET x == Max(S) IN ConnectTx(g[S \ {x}], s[x], h)
    <3>1. S # {} => Max(S) \in 1..n
      BY <2>1, MaxIsMember
    <3> QED
      BY <1>4, <2>2, <3>1 DEF FoldsOn
  <2>4. g = [S \in SUBSET (1..n) |->
               IF S = {} THEN base ELSE LET x == Max(S) IN ConnectTx(g[S \ {x}], s[x], h)]
    <3>1. g = [S \in SUBSET (1..n) |-> g[S]]
      OBVIOUS
    <3> QED
      BY <2>3, <3>1
  <2> DEFINE IsFold(q) ==
               q = [S \in SUBSET (1..n) |->
                      IF S = {} THEN base
                      ELSE LET x == Max(S) IN ConnectTx(q[S \ {x}], s[x], h)]
  <2>5. f = CHOOSE q : IsFold(q)
    BY <1>0
  <2>6. IsFold(g)
    BY <2>4
  <2> HIDE DEF f, IsFold
  <2>7. IsFold(f)
    BY <2>5, <2>6
  <2> QED
    BY <2>7 DEF IsFold
<1> HIDE DEF f
<1>7. FoldsIn(f, D, n, base, G)
  <2>1. f[{}] = base
    BY <1>6
  <2> SUFFICES ASSUME NEW S \in SUBSET (1..n), S # {}, f[S \ {Max(S)}] \in D
               PROVE  f[S] = G[<<f[S \ {Max(S)}], Max(S)>>]
    BY <2>1 DEF FoldsIn
  <2>2. IsFiniteSet(1..n) /\ 1..n \subseteq Int
    BY <1>0, FS_Interval
  <2>3. Max(S) \in 1..n
    BY <2>2, MaxIsMember
  <2>4. f[S] = ConnectTx(f[S \ {Max(S)}], s[Max(S)], h)
    BY <1>6
  <2> QED
    BY <1>4, <2>3, <2>4
<1>8. EndsTrace(f, D, n, base, G)
  <2>1. StepOn(G, D, n)
    BY <1>3 DEF StepOn
  <2> QED
    BY <1>1, <1>5, <1>7, <2>1, FoldTrace
<1> QED
  BY <1>1, <1>2, <1>8 DEF EndsTrace, Traced, n, G, D, base, s

\* The undo data of the first i transactions of a block.
UndoTo(b, i) == [j \in 1..i |-> UndoOf(CoinsAt(b, j - 1), Vtx[b][j])]

LEMMA UndoGrows ==
  ASSUME NEW b, NEW i \in Nat \ {0}
  PROVE  /\ UndoTo(b, 0) = <<>>
         /\ Append(UndoTo(b, i - 1), UndoOf(CoinsAt(b, i - 1), Vtx[b][i])) = UndoTo(b, i)
<1> DEFINE e(j) == UndoOf(CoinsAt(b, j - 1), Vtx[b][j])
<1>1. \A k : UndoTo(b, k) = [j \in 1..k |-> e(j)]
  BY DEF UndoTo
<1>2. e(i) = UndoOf(CoinsAt(b, i - 1), Vtx[b][i])
  OBVIOUS
<1> HIDE DEF e
<1>3. [j \in 1..0 |-> e(j)] = <<>>
  OBVIOUS
<1>4. Append([j \in 1..(i - 1) |-> e(j)], e(i)) = [j \in 1..i |-> e(j)]
  <2> DEFINE s == [j \in 1..(i - 1) |-> e(j)]
             r == [j \in 1..i |-> e(j)]
             V == {e(j) : j \in 1..i}
  <2>1. s \in Seq(V) /\ r \in Seq(V) /\ Len(s) = i - 1 /\ Len(r) = i /\ e(i) \in V
    OBVIOUS
  <2>2. /\ Append(s, e(i)) \in Seq(V) /\ Len(Append(s, e(i))) = i
        /\ \A j \in 1..i : Append(s, e(i))[j] = r[j]
    BY <2>1
  <2> HIDE DEF s, r, V
  <2> QED
    BY <2>1, <2>2
<1> QED
  BY <1>1, <1>2, <1>3, <1>4

\* No transaction of a valid block is there before with something left.
LEMMA NothingOverwritten ==
  ASSUME NEW b \in Blocks \ {Base}, ValidChain[b],
         NEW view, Same(view, Unspent[Parent[b]]), NEW t \in ToSet(AllTxs(b))
  PROVE  IsPruned(view[t])
<1>1. Parent[b] \in Blocks /\ t \in TxIds
  <2>1. t = b \/ t \in ToSet(Vtx[b])
    BY AllTxsOf
  <2>2. t \in Blocks \/ t \in Txs
    BY <2>1, BlockTxs
  <2> QED
    BY <2>2, ChainGrows, NamesApart
<1>2. ~InChain(t, Parent[b]) /\ t \notin BaseTxs
  <2>1. CASE t = b
    BY <2>1, ChainGrows, NamesApart
  <2>2. CASE t # b
    <3>1. t \in ToSet(Vtx[b])
      BY <2>2, AllTxsOf
    <3>2. PICK i \in 1..Len(Vtx[b]) : t = Vtx[b][i]
      BY <3>1, BlockTxs
    <3>3. ValidTx(b, i)
      BY ValidGrows
    <3>4. t \in Txs
      BY <3>1, BlockTxs
    <3>5. t \notin Before(b, i)
      BY <3>2, <3>3 DEF ValidTx
    <3> QED
      BY <3>4, <3>5, NamesApart, BeforeMeans
  <2> QED
    BY <2>1, <2>2
<1>3. \A m \in Nat : ~MadeIn(t, m, Parent[b])
  BY <1>2 DEF MadeIn
<1>4. Unspent[Parent[b]] \in Views
  BY <1>1, UnspentIs
<1>5. Unspent[Parent[b]][t].out \subseteq Nat
  BY <1>1, <1>4, ViewsHave
<1>6. \A m \in Nat : m \notin Unspent[Parent[b]][t].out
  BY <1>1, <1>3, UnspentIs
<1>7. Unspent[Parent[b]][t].out = {}
  BY <1>5, <1>6
<1> QED
  BY <1>1, <1>7 DEF Same, IsPruned

\* ConnectBlock accepts a block exactly if its chain is valid, and its coins are then those of
\* the chain.
LEMMA ConnectBlockIs ==
  ASSUME NEW b \in Blocks \ {Base}, ValidChain[Parent[b]],
         NEW view \in Views, Same(view, Unspent[Parent[b]])
  PROVE  /\ ConnectBlock(view, b) \in Connections
         /\ ConnectBlock(view, b).ok <=> ValidChain[b]
         /\ ValidChain[b] => /\ Same(ConnectBlock(view, b).view, Unspent[b])
                             /\ ConnectBlock(view, b).undo = BlockUndo(b)
<1> DEFINE n == Len(Vtx[b])
           h == nHeight[b]
           base == ConnectStart(view, b)
           G == ConnectSteps(b)
<1>1. PICK g : Trace(g, Connections, n + 1, base, G) /\ ConnectBlock(view, b) = g[n + 1]
  <2>1. Traced(Connections, Len(AllTxs(b)), base, G, ConnectBlock(view, b))
    BY ConnectTrace
  <2>2. Len(AllTxs(b)) = n + 1
    BY AllTxsOf
  <2> HIDE DEF base, G
  <2> QED
    BY <2>1, <2>2 DEF Traced
<1>2. /\ n \in Nat /\ Len(AllTxs(b)) = n + 1 /\ AllTxs(b)[1] = b
      /\ \A i \in 1..n : Vtx[b][i] \in Txs
  BY AllTxsOf, BlockTxs
<1>3. ASSUME NEW i \in 1..n
      PROVE  AllTxs(b)[i + 1] = Vtx[b][i]
  <2> DEFINE k == i + 1
  <2>1. k \in 2..Len(AllTxs(b)) /\ k - 1 = i
    BY <1>2
  <2> HIDE DEF k
  <2>2. AllTxs(b)[k] = Vtx[b][k - 1]
    BY <2>1, AllTxsOf
  <2> QED
    BY <2>1, <2>2 DEF k
<1>4. ASSUME NEW k \in 1..(n + 1)
      PROVE  /\ g[k - 1] \in Connections /\ g[k] \in Connections
             /\ g[k] = ConnectTx(g[k - 1], AllTxs(b)[k], h)
  <2>1. StepOf(g, Connections, G, k)
    <3>1. n + 1 \in Nat
      BY <1>2
    <3> QED
      BY <1>1, <3>1, TraceSteps
  <2>2. g[k - 1] \in Connections /\ g[k] \in Connections
    BY <2>1 DEF StepOf
  <2>3. g[k] = G[<<g[k - 1], k>>]
    BY <2>1 DEF StepOf
  <2>4. k \in 1..Len(AllTxs(b))
    BY <1>2
  <2>5. G[<<g[k - 1], k>>] = ConnectTx(g[k - 1], AllTxs(b)[k], h)
    BY <2>2, <2>4 DEF ConnectSteps
  <2> QED
    BY <2>2, <2>3, <2>5
<1>5. g[0] = base
  BY <1>1 DEF Trace
<1> DEFINE Right(i) ==
             /\ g[i + 1].ok <=> base.ok /\ ValidUpTo(b, i)
             /\ g[i + 1].ok => /\ Same(g[i + 1].view, CoinsAt(b, i))
                               /\ g[i + 1].undo = UndoTo(b, i)
           N == {i \in Nat : i <= n => Right(i)}
<1>6. 0 \in N
  <2>1. 1 \in 1..(n + 1) /\ 0 + 1 = 1 /\ 1 - 1 = 0
    BY <1>2
  <2>2. g[1] = ConnectTx(base, b, h)
    BY <1>2, <1>4, <1>5, <2>1
  <2>3. ValidUpTo(b, 0)
    BY DEF ValidUpTo
  <2>4. base.ok \in BOOLEAN /\ base.view = view /\ base.undo = <<>>
    BY DEF ConnectStart
  <2>5. CASE ~base.ok
    <3>1. g[1] = base
      BY <2>2, <2>5 DEF ConnectTx
    <3> QED
      BY <2>1, <2>5, <3>1
  <2>6. CASE base.ok
    <3>1. g[1] = [base EXCEPT !.view = [base.view EXCEPT ![b] = CCoins(b, h)]]
      BY <2>2, <2>6 DEF ConnectTx
    <3>2. g[1].ok = base.ok /\ g[1].view = [view EXCEPT ![b] = CCoins(b, h)] /\ g[1].undo = <<>>
      BY <2>4, <3>1 DEF ConnectStart
    <3>3. Same(g[1].view, CoinsAt(b, 0))
      BY <3>2, CoinbaseConnects
    <3>4. UndoTo(b, 0) = <<>>
      <4>1. 1 \in Nat \ {0}
        OBVIOUS
      <4> QED
        BY <4>1, UndoGrows
    <3> QED
      BY <2>1, <2>3, <2>6, <3>2, <3>3, <3>4
  <2> QED
    BY <2>5, <2>6
<1>7. ASSUME NEW i \in 1..n, i - 1 \in N
      PROVE  i \in N
  <2> DEFINE d == g[i]
             t == Vtx[b][i]
  <2>1. i \in Nat \ {0} /\ i \in Nat /\ i + 1 \in 1..(n + 1) /\ (i + 1) - 1 = i /\ (i - 1) + 1 = i
        /\ i - 1 <= n /\ i \in 1..(n + 1)
    BY <1>2
  <2>2. /\ d.ok <=> base.ok /\ ValidUpTo(b, i - 1)
        /\ d.ok => Same(d.view, CoinsAt(b, i - 1)) /\ d.undo = UndoTo(b, i - 1)
    BY <1>7, <2>1
  <2>3. /\ d \in Connections
        /\ g[i + 1] = ConnectTx(d, t, h)
    BY <1>3, <1>4, <2>1
  <2>4. t \in Txs /\ t \notin Blocks
    BY <1>2, NamesApart
  <2>5. d.view \in Views /\ d.ok \in BOOLEAN
    BY <2>3 DEF Connections
  <2>6. ValidUpTo(b, i) <=> ValidUpTo(b, i - 1) /\ ValidTx(b, i)
    <3>1. \A j : j \in 1..i <=> j \in 1..(i - 1) \/ j = i
      BY <2>1, UpToNext
    <3> QED
      BY <3>1 DEF ValidUpTo
  <2> HIDE DEF d, t
  <2>7. CASE ~d.ok
    <3>1. g[i + 1] = d
      BY <2>3, <2>7 DEF ConnectTx
    <3> QED
      BY <2>1, <2>2, <2>6, <2>7, <3>1
  <2>8. CASE d.ok
    <3>1. CheckInputs(d.view, t, h) <=> ValidTx(b, i)
      BY <2>2, <2>5, <2>8, CheckedIsValid, ValidIsChecked DEF t
    <3>2. CASE ~ValidTx(b, i)
      <4>1. g[i + 1] = [d EXCEPT !.ok = FALSE]
        BY <2>3, <2>4, <2>8, <3>1, <3>2 DEF ConnectTx
      <4>2. ~g[i + 1].ok
        BY <2>3, <4>1 DEF Connections
      <4> QED
        BY <2>1, <2>6, <3>2, <4>2
    <3>3. CASE ValidTx(b, i)
      <4> DEFINE w == UpdateCoins(d.view, t, h)
                 u == TxUndo(d.view, t)
      <4>1. g[i + 1] = [d EXCEPT !.view = w, !.undo = Append(d.undo, u)]
        BY <2>3, <2>4, <2>8, <3>1, <3>3 DEF ConnectTx
      <4>2. Same(w, CoinsAt(b, i))
        BY <2>2, <2>5, <2>6, <2>8, <3>3, TxConnects DEF t
      <4>3. u = UndoOf(CoinsAt(b, i - 1), t)
        <5>1. u = UndoOf(d.view, t)
          BY <2>4, <2>5, UndoIs
        <5>2. Same(d.view, CoinsAt(b, i - 1))
          BY <2>2, <2>8
        <5>3. UndoOf(d.view, t) = UndoOf(CoinsAt(b, i - 1), t)
          <6> DEFINE v == d.view
                     c == CoinsAt(b, i - 1)
          <6>1. Same(v, c)
            BY <5>2
          <6> HIDE DEF v, c
          <6>2. UndoOf(v, t) = UndoOf(c, t)
            BY <2>4, <6>1, UndoOfSame
          <6> QED
            BY <6>2 DEF v, c
        <5> QED
          BY <5>1, <5>3
      <4>4. Append(d.undo, u) = UndoTo(b, i)
        BY <2>1, <2>2, <2>8, <4>3, UndoGrows DEF t
      <4> HIDE DEF w, u
      <4>5. g[i + 1].ok = d.ok /\ g[i + 1].view = w /\ g[i + 1].undo = Append(d.undo, u)
        BY <2>3, <4>1 DEF Connections
      <4> QED
        BY <2>1, <2>2, <2>6, <2>8, <3>3, <4>2, <4>4, <4>5
    <3> QED
      BY <3>2, <3>3
  <2> QED
    BY <2>7, <2>8
<1> HIDE DEF N, Right
<1>8. n \in N
  <2>1. \A k \in 0..n : k \in N
    BY <1>2, <1>6, <1>7, StepInduction
  <2> QED
    BY <1>2, <2>1
<1>9. Right(n)
  BY <1>2, <1>8 DEF N
<1>10. ConnectBlock(view, b) \in Connections
  <2>1. n + 1 \in 1..(n + 1)
    BY <1>2
  <2> QED
    BY <1>1, <1>4, <2>1
<1>11. ValidChain[b] <=> ValidUpTo(b, n)
  BY ValidGrows DEF ValidUpTo
<1>12. ValidChain[b] => base.ok
  BY NothingOverwritten DEF ConnectStart
<1>13. ValidChain[b] => Same(CoinsAt(b, n), Unspent[b])
  BY BlockConnects
<1>14. BlockUndo(b) = UndoTo(b, n)
  BY DEF BlockUndo, UndoTo
<1> HIDE DEF base, n
<1>15. ConnectBlock(view, b).ok <=> ValidChain[b]
  BY <1>1, <1>9, <1>11, <1>12 DEF Right
<1>16. ASSUME ValidChain[b]
       PROVE  Same(ConnectBlock(view, b).view, Unspent[b]) /\ ConnectBlock(view, b).undo = BlockUndo(b)
  BY <1>1, <1>9, <1>11, <1>12, <1>13, <1>14, <1>16, SameIsEquivalence DEF Right
<1> QED
  BY <1>10, <1>15, <1>16

-----------------------------------------------------------------------------
(* Disconnecting a transaction *)

Disconnections == [clean : BOOLEAN, view : Views]

\* What has something left has a height.
HeightsKnown(view) == \A t \in TxIds : view[t].out # {} => view[t].nHeight \in Nat \ {0}

LEMMA RestoreType ==
  ASSUME NEW done \in Disconnections, NEW o \in Outpoints, NEW undo \in Int
  PROVE  RestoreInput(done, o, undo) \in Disconnections
<1>1. PICK u \in TxIds, m \in Nat : o = <<u, m>>
  BY DEF Outpoints
<1>2. o[1] = u /\ o[2] = m
  BY <1>1
<1>3. done.view \in Views /\ done.view[u] \in Coins
  BY ViewsHave DEF Disconnections
<1> DEFINE coins == IF undo # 0 THEN [nHeight |-> undo, out |-> {}] ELSE done.view[u]
           back == [coins EXCEPT !.out = @ \cup {m}]
<1>4. coins \in Coins
  BY <1>3 DEF Coins
<1> HIDE DEF coins
<1>5. back \in Coins
  BY <1>4 DEF Coins
<1> HIDE DEF back
<1>6. [done.view EXCEPT ![u] = back] \in Views
  BY <1>3, <1>5 DEF Views
<1>7. RestoreInput(done, o, undo) =
        [clean |-> /\ done.clean
                   /\ IsPruned(done.view[u]) <=> (undo # 0)
                   /\ m \notin coins.out,
         view |-> [done.view EXCEPT ![u] = back]]
  BY <1>2 DEF RestoreInput, coins, back
<1> QED
  BY <1>6, <1>7 DEF Disconnections

\* Putting back the i-th input of s gives the coins without the first i - 1.
LEMMA RestoreOne ==
  ASSUME NEW view \in Views, HeightsKnown(view), NEW s, NEW i \in Nat \ {0},
         s[i] \in Outpoints, s[i][2] \in view[s[i][1]].out,
         \A j \in 1..(i - 1) : s[j] # s[i],
         NEW done \in Disconnections, done.clean, Same(done.view, Without(view, s, i))
  PROVE  /\ RestoreInput(done, s[i], Undo(Without(view, s, i - 1), s[i])).clean
         /\ Same(RestoreInput(done, s[i], Undo(Without(view, s, i - 1), s[i])).view,
                 Without(view, s, i - 1))
<1> DEFINE o == s[i]
           before == Without(view, s, i - 1)
           after == Without(view, s, i)
           undo == Undo(before, o)
           r == RestoreInput(done, o, undo)
<1>0. o \in Outpoints /\ o[2] \in view[o[1]].out
  OBVIOUS
<1> HIDE DEF o
<1>1. PICK u \in TxIds, m \in Nat : o = <<u, m>>
  BY <1>0 DEF Outpoints
<1>2. o[1] = u /\ o[2] = m
  BY <1>1
<1>3. /\ OutputOf(o, u) = {m} /\ \A t \in TxIds : t # u => OutputOf(o, t) = {}
  BY <1>1 DEF OutputOf
<1>4. ASSUME NEW t \in TxIds
      PROVE  /\ after[t].out = before[t].out \ OutputOf(o, t)
             /\ after[t].nHeight = view[t].nHeight /\ before[t].nHeight = view[t].nHeight
             /\ before[t].out \subseteq view[t].out
  <2>1. Taken(s, i, t) = Taken(s, i - 1, t) \cup OutputOf(s[i], t)
    BY TakenSteps
  <2> QED
    BY <2>1 DEF Without, o
<1>5. m \in before[u].out
  <2>1. m \notin Taken(s, i - 1, u)
    BY <1>1 DEF Taken, o
  <2> QED
    BY <1>0, <1>2, <2>1 DEF Without
<1>6. view[u].nHeight \in Nat \ {0}
  BY <1>4, <1>5 DEF HeightsKnown
<1>7. \A t \in TxIds : /\ done.view[t].out = after[t].out
                       /\ done.view[t].out # {} => done.view[t].nHeight = after[t].nHeight
  BY DEF Same
<1>8. undo = IF before[u].out = {m} THEN view[u].nHeight ELSE 0
  BY <1>2, <1>4 DEF Undo
<1>9. done.view \in Views /\ done.view[u] \in Coins
  BY ViewsHave DEF Disconnections
<1>10. after[u].out = before[u].out \ {m}
  BY <1>3, <1>4
<1> DEFINE coins == IF undo # 0 THEN [nHeight |-> undo, out |-> {}] ELSE done.view[u]
           back == [coins EXCEPT !.out = @ \cup {m}]
<1>11. r = [clean |-> /\ done.clean
                      /\ IsPruned(done.view[u]) <=> (undo # 0)
                      /\ m \notin coins.out,
            view |-> [done.view EXCEPT ![u] = back]]
  BY <1>2 DEF RestoreInput
<1> HIDE DEF undo, r, before, after
<1>12. /\ IsPruned(done.view[u]) <=> (undo # 0)
       /\ m \notin coins.out
       /\ back.out = before[u].out
       /\ back.nHeight = view[u].nHeight
  <2>1. CASE before[u].out = {m}
    <3>1. undo = view[u].nHeight /\ undo # 0
      BY <1>6, <1>8, <2>1
    <3>2. done.view[u].out = {}
      BY <1>7, <1>10, <2>1
    <3>3. coins = [nHeight |-> undo, out |-> {}]
      BY <3>1
    <3> HIDE DEF coins
    <3> QED
      BY <2>1, <3>1, <3>2, <3>3 DEF IsPruned
  <2>2. CASE before[u].out # {m}
    <3>1. undo = 0
      BY <1>8, <2>2
    <3>2. done.view[u].out = before[u].out \ {m} /\ done.view[u].out # {}
      BY <1>5, <1>7, <1>10, <2>2
    <3>3. done.view[u].nHeight = view[u].nHeight
      BY <1>4, <1>7, <3>2
    <3>4. coins = done.view[u]
      BY <3>1
    <3> HIDE DEF coins
    <3>5. back.out = coins.out \cup {m} /\ back.nHeight = coins.nHeight
      BY <1>9, <3>4 DEF Coins
    <3> QED
      BY <1>5, <3>1, <3>2, <3>3, <3>4, <3>5 DEF IsPruned
  <2> QED
    BY <2>1, <2>2
<1> HIDE DEF coins, back
<1>13. r.clean
  BY <1>11, <1>12
<1>14. ASSUME NEW t \in TxIds
       PROVE  /\ r.view[t].out = before[t].out
              /\ r.view[t].out # {} => r.view[t].nHeight = before[t].nHeight
  <2>1. CASE t = u
    <3>1. r.view[t] = back
      BY <1>9, <1>11, <2>1, ViewsHave
    <3> QED
      BY <1>4, <1>12, <2>1, <3>1
  <2>2. CASE t # u
    <3>1. r.view[t] = done.view[t]
      <4>1. r.view = [done.view EXCEPT ![u] = back]
        BY <1>11
      <4>2. DOMAIN done.view = TxIds
        BY <1>9 DEF Views
      <4> QED
        BY <2>2, <4>1, <4>2
    <3>2. after[t].out = before[t].out /\ after[t].nHeight = before[t].nHeight
      <4>1. OutputOf(o, t) = {}
        BY <1>3, <2>2
      <4>2. after[t].out = before[t].out \ {} /\ after[t].nHeight = before[t].nHeight
        BY <1>4, <4>1
      <4> QED
        BY <4>2
    <3>3. /\ r.view[t].out = done.view[t].out
          /\ r.view[t].nHeight = done.view[t].nHeight
      BY <3>1
    <3>4. /\ done.view[t].out = after[t].out
          /\ done.view[t].out # {} => done.view[t].nHeight = after[t].nHeight
      BY <1>7
    <3> QED
      BY <3>2, <3>3, <3>4
  <2> QED
    BY <2>1, <2>2
<1>15. Same(r.view, before)
  BY <1>14 DEF Same
<1> QED
  BY <1>13, <1>15 DEF r, undo, before, o

\* The outputs of t are taken away before its inputs come back.
WithoutTx(done, t, height) ==
  [clean |-> done.clean /\ done.view[t] = CCoins(t, height),
   view |-> [done.view EXCEPT ![t] = Pruned]]

RestoreSteps(t, txundo) ==
  [p \in Disconnections \X (1..Len(Vin[t])) |->
     RestoreInput(p[1], Vin[t][(Len(Vin[t]) - p[2]) + 1], txundo[(Len(Vin[t]) - p[2]) + 1])]

\* One entry for each input.
UndoFits(t, txundo) == \A i \in 1..Len(Vin[t]) : txundo[i] \in Int

LEMMA WithoutTxType ==
  ASSUME NEW t \in TxIds, NEW done \in Disconnections, NEW h
  PROVE  WithoutTx(done, t, h) \in Disconnections
<1>1. done.view \in Views
  BY DEF Disconnections
<1>2. Pruned \in Coins
  BY DEF Pruned, Coins
<1> DEFINE w == [done.view EXCEPT ![t] = Pruned]
           c == done.clean /\ done.view[t] = CCoins(t, h)
<1>3. w \in Views
  BY <1>1, <1>2 DEF Views
<1>4. c \in BOOLEAN
  BY DEF Disconnections
<1>5. WithoutTx(done, t, h) = [clean |-> c, view |-> w]
  BY DEF WithoutTx
<1> HIDE DEF c, w
<1> QED
  BY <1>3, <1>4, <1>5 DEF Disconnections

\* Going down from n.
LEMMA Downwards ==
  ASSUME NEW n \in Nat, NEW s, s = [i \in 1..n |-> i]
  PROVE  /\ Len(Reverse(s)) = n /\ DOMAIN Reverse(s) = 1..n
         /\ \A k \in 1..n : /\ Reverse(s)[k] = (n - k) + 1
                            /\ (n - k) + 1 \in 1..n
BY DEF Reverse

\* DisconnectTx, step by step.
LEMMA RestoreTrace ==
  ASSUME NEW t \in Txs, NEW h, NEW done \in Disconnections,
         NEW txundo, UndoFits(t, txundo)
  PROVE  /\ Traced(Disconnections, Len(Vin[t]), WithoutTx(done, t, h), RestoreSteps(t, txundo),
                   DisconnectTx(done, t, h, txundo))
         /\ Len(Vin[t]) \in Nat
<1> DEFINE D == Disconnections
           n == Len(Vin[t])
           s == Reverse([i \in DOMAIN Vin[t] |-> i])
           base == WithoutTx(done, t, h)
           G == RestoreSteps(t, txundo)
           f == CHOOSE f : f = [S \in SUBSET DOMAIN s |->
                                  IF S = {} THEN base
                                  ELSE LET x == Max(S)
                                       IN RestoreInput(f[S \ {x}], Vin[t][s[x]], txundo[s[x]])]
<1>1. /\ n \in Nat /\ DOMAIN s = 1..n /\ \A k \in 1..n : s[k] = (n - k) + 1 /\ s[k] \in 1..n
  <2>1. n \in Nat /\ DOMAIN Vin[t] = 1..n
    BY Transactions
  <2> DEFINE q == [i \in DOMAIN Vin[t] |-> i]
  <2>2. q = [i \in 1..n |-> i]
    BY <2>1
  <2> HIDE DEF q, n
  <2>3. /\ DOMAIN Reverse(q) = 1..n
        /\ \A k \in 1..n : Reverse(q)[k] = (n - k) + 1 /\ (n - k) + 1 \in 1..n
    BY <2>1, <2>2, Downwards
  <2> QED
    BY <2>1, <2>3 DEF q
<1>2. DisconnectTx(done, t, h, txundo) = f[1..n]
  <2>1. t \notin Blocks
    BY NamesApart
  <2> QED
    BY <1>1, <2>1 DEF DisconnectTx, WithoutTx, FoldLeft, MapThenFoldSet
<1>3. \A k \in 1..n : Vin[t][s[k]] \in Outpoints /\ txundo[s[k]] \in Int
  <2>1. \A i \in 1..n : Vin[t][i] \in Outpoints
    BY Transactions
  <2>2. \A i \in 1..n : txundo[i] \in Int
    BY DEF UndoFits
  <2> HIDE DEF s, n
  <2> QED
    BY <1>1, <2>1, <2>2
<1>4. \A v \in D, k \in 1..n : G[<<v, k>>] = RestoreInput(v, Vin[t][s[k]], txundo[s[k]])
  <2> SUFFICES ASSUME NEW v \in D, NEW k \in 1..n
               PROVE  G[<<v, k>>] = RestoreInput(v, Vin[t][s[k]], txundo[s[k]])
    OBVIOUS
  <2>1. G[<<v, k>>] = RestoreInput(v, Vin[t][(n - k) + 1], txundo[(n - k) + 1])
    BY DEF RestoreSteps
  <2>2. s[k] = (n - k) + 1
    BY <1>1
  <2> HIDE DEF s, n, D, G
  <2> QED
    BY <2>1, <2>2
<1>5. G \in [D \X (1..n) -> D]
  <2>1. \A v \in D, k \in 1..n : G[<<v, k>>] \in D
    <3> SUFFICES ASSUME NEW v \in D, NEW k \in 1..n
                 PROVE  G[<<v, k>>] \in D
      OBVIOUS
    <3>1. RestoreInput(v, Vin[t][s[k]], txundo[s[k]]) \in D
      BY <1>3, RestoreType
    <3> HIDE DEF s, n, G, D
    <3> QED
      BY <1>4, <3>1
  <2>2. G = [p \in D \X (1..n) |-> G[p]]
    BY DEF RestoreSteps
  <2> HIDE DEF G, D, n
  <2>3. \A p \in D \X (1..n) : G[p] \in D
    BY <2>1
  <2> QED
    BY <2>2, <2>3
<1>6. base \in D
  BY Transactions, WithoutTxType
<1>0. n \in Nat /\ DOMAIN s = 1..n
  BY <1>1
<1> HIDE DEF n, G, D, base, s
<1>7. f = [S \in SUBSET (1..n) |->
             IF S = {} THEN base
             ELSE LET x == Max(S) IN RestoreInput(f[S \ {x}], Vin[t][s[x]], txundo[s[x]])]
  <2>1. IsFiniteSet(1..n) /\ 1..n \subseteq Int
    BY <1>0, FS_Interval
  <2>2. PICK g \in [SUBSET (1..n) -> D] : FoldsOn(g, SUBSET (1..n), base, G)
    BY <1>5, <1>6, <2>1, FoldExists
  <2>3. ASSUME NEW S \in SUBSET (1..n)
        PROVE  g[S] = IF S = {} THEN base
                      ELSE LET x == Max(S) IN RestoreInput(g[S \ {x}], Vin[t][s[x]], txundo[s[x]])
    <3>1. S # {} => Max(S) \in 1..n
      BY <2>1, MaxIsMember
    <3> QED
      BY <1>4, <2>2, <3>1 DEF FoldsOn
  <2> DEFINE IsFold(q) ==
               q = [S \in SUBSET (1..n) |->
                      IF S = {} THEN base
                      ELSE LET x == Max(S) IN RestoreInput(q[S \ {x}], Vin[t][s[x]], txundo[s[x]])]
  <2>4. IsFold(g)
    <3>1. g = [S \in SUBSET (1..n) |-> g[S]]
      OBVIOUS
    <3> QED
      BY <2>3, <3>1
  <2>5. f = CHOOSE q : IsFold(q)
    BY <1>0
  <2> HIDE DEF f, IsFold
  <2>6. IsFold(f)
    BY <2>4, <2>5
  <2> QED
    BY <2>6 DEF IsFold
<1> HIDE DEF f
<1>8. FoldsIn(f, D, n, base, G)
  <2>1. f[{}] = base
    BY <1>7
  <2> SUFFICES ASSUME NEW S \in SUBSET (1..n), S # {}, f[S \ {Max(S)}] \in D
               PROVE  f[S] = G[<<f[S \ {Max(S)}], Max(S)>>]
    BY <2>1 DEF FoldsIn
  <2>2. IsFiniteSet(1..n) /\ 1..n \subseteq Int
    BY <1>0, FS_Interval
  <2>3. Max(S) \in 1..n
    BY <2>2, MaxIsMember
  <2>4. f[S] = RestoreInput(f[S \ {Max(S)}], Vin[t][s[Max(S)]], txundo[s[Max(S)]])
    BY <1>7
  <2> QED
    BY <1>4, <2>3, <2>4
<1>9. EndsTrace(f, D, n, base, G)
  <2>1. StepOn(G, D, n)
    BY <1>5 DEF StepOn
  <2> QED
    BY <1>0, <1>6, <1>8, <2>1, FoldTrace
<1> QED
  BY <1>0, <1>2, <1>9 DEF EndsTrace, Traced, n, G, D, base

\* A transaction is taken out of the coins that it was connected to.
LEMMA DisconnectTxIs ==
  ASSUME NEW t \in Txs, NEW h,
         NEW view \in Views, HeightsKnown(view), HaveInputs(view, t),
         NEW done \in Disconnections, done.clean, done.view[t] = CCoins(t, h),
         Same([done.view EXCEPT ![t] = Pruned], Without(view, Vin[t], Len(Vin[t])))
  PROVE  /\ DisconnectTx(done, t, h, UndoOf(view, t)) \in Disconnections
         /\ DisconnectTx(done, t, h, UndoOf(view, t)).clean
         /\ Same(DisconnectTx(done, t, h, UndoOf(view, t)).view, view)
<1> DEFINE n == Len(Vin[t])
           s == Vin[t]
           D == Disconnections
           u == UndoOf(view, t)
           base == WithoutTx(done, t, h)
           G == RestoreSteps(t, u)
           r == DisconnectTx(done, t, h, u)
<1>1. /\ n \in Nat /\ n \in Nat \ {0}
      /\ \A i \in 1..n : s[i] \in Outpoints
      /\ \A i, j \in 1..n : s[i] = s[j] => i = j
  BY Transactions
<1>2. \A i \in 1..n : u[i] = Undo(Without(view, s, i - 1), s[i])
  BY Transactions DEF UndoOf
<1>3. UndoFits(t, u)
  <2>1. u \in Seq(Int)
    BY UndoType
  <2>2. DOMAIN u = 1..n
    BY Transactions DEF UndoOf
  <2> HIDE DEF u
  <2> QED
    BY <2>1, <2>2 DEF UndoFits
<1>4. Traced(D, n, base, G, r) /\ n \in Nat
  <2> HIDE DEF u
  <2> QED
    BY <1>3, RestoreTrace
<1>5. PICK g : Trace(g, D, n, base, G) /\ r = g[n]
  BY <1>4 DEF Traced
<1>6. ASSUME NEW k \in 1..n
      PROVE  /\ g[k - 1] \in D /\ g[k] \in D
             /\ g[k] = RestoreInput(g[k - 1], s[(n - k) + 1], u[(n - k) + 1])
  <2>1. StepOf(g, D, G, k)
    BY <1>4, <1>5, TraceSteps
  <2>2. g[k - 1] \in D /\ g[k] \in D /\ g[k] = G[<<g[k - 1], k>>]
    BY <2>1 DEF StepOf
  <2> QED
    BY <2>2 DEF RestoreSteps
<1>7. g[0] = base
  BY <1>5 DEF Trace
<1>8. \A i \in 1..n : s[i][2] \in view[s[i][1]].out
  <2>1. \A i \in 1..n : s[i] \in ToSet(s)
    BY InputsOf
  <2> QED
    BY <2>1 DEF HaveInputs
<1> DEFINE Right(k) == g[k].clean /\ Same(g[k].view, Without(view, s, n - k))
           N == {k \in Nat : k <= n => Right(k)}
<1> HIDE DEF n, s, u, D, G, base, r
<1>9. 0 \in N
  <2>1. g[0].clean /\ g[0].view = [done.view EXCEPT ![t] = Pruned]
    <3>1. base = [clean |-> TRUE, view |-> [done.view EXCEPT ![t] = Pruned]]
      BY DEF base, WithoutTx
    <3> QED
      BY <1>7, <3>1
  <2>2. n - 0 = n
    BY <1>1
  <2>3. Same([done.view EXCEPT ![t] = Pruned], Without(view, s, n))
    BY DEF n, s
  <2> QED
    BY <2>1, <2>2, <2>3
<1>10. ASSUME NEW k \in 1..n, k - 1 \in N
       PROVE  k \in N
  <2> DEFINE i == (n - k) + 1
             d == g[k - 1]
  <2>1. /\ i \in Nat \ {0} /\ i \in 1..n /\ n - (k - 1) = i /\ i - 1 = n - k /\ k - 1 <= n /\ k \in Nat
        /\ \A j \in 1..(i - 1) : j \in 1..n /\ j # i
    BY <1>1
  <2>2. d \in D /\ d.clean /\ Same(d.view, Without(view, s, i))
    BY <1>6, <1>10, <2>1
  <2>3. g[k] = RestoreInput(d, s[i], u[i])
    BY <1>6
  <2> HIDE DEF d, i
  <2>4. u[i] = Undo(Without(view, s, i - 1), s[i])
    BY <1>2, <2>1
  <2>5. s[i] \in Outpoints /\ s[i][2] \in view[s[i][1]].out /\ \A j \in 1..(i - 1) : s[j] # s[i]
    BY <1>1, <1>8, <2>1
  <2>6. g[k].clean /\ Same(g[k].view, Without(view, s, i - 1))
    <3> DEFINE x == Undo(Without(view, s, i - 1), s[i])
    <3>1. RestoreInput(d, s[i], x).clean /\ Same(RestoreInput(d, s[i], x).view, Without(view, s, i - 1))
      BY <2>1, <2>2, <2>5, RestoreOne DEF D
    <3>2. g[k] = RestoreInput(d, s[i], x)
      BY <2>3, <2>4
    <3> HIDE DEF x
    <3> QED
      BY <3>1, <3>2
  <2> QED
    BY <2>1, <2>6
<1>11. n \in N
  <2> HIDE DEF N
  <2>1. \A k \in 0..n : k \in N
    BY <1>1, <1>9, <1>10, StepInduction
  <2> QED
    BY <1>1, <2>1
<1>12. r.clean /\ Same(r.view, Without(view, s, 0))
  <2>1. n - n = 0 /\ n <= n
    BY <1>1
  <2> QED
    BY <1>5, <1>11, <2>1
<1>13. Same(Without(view, s, 0), view)
  <2>1. \A x \in TxIds : Taken(s, 0, x) = {}
    BY TakenSteps
  <2> QED
    BY <2>1 DEF Same, Without
<1>14. r \in D
  <2>1. n \in 1..n
    BY <1>1
  <2> QED
    BY <1>5, <1>6, <2>1
<1> QED
  BY <1>12, <1>13, <1>14, SameIsEquivalence DEF r, D, u

-----------------------------------------------------------------------------
(* Disconnecting a block *)

LEMMA DisconnectTxType ==
  ASSUME NEW t \in Txs, NEW h, NEW done \in Disconnections,
         NEW txundo, UndoFits(t, txundo)
  PROVE  DisconnectTx(done, t, h, txundo) \in Disconnections
<1> DEFINE n == Len(Vin[t])
           base == WithoutTx(done, t, h)
           G == RestoreSteps(t, txundo)
<1>1. Traced(Disconnections, n, base, G, DisconnectTx(done, t, h, txundo)) /\ n \in Nat
  BY RestoreTrace
<1> HIDE DEF n, base, G
<1>2. PICK g : Trace(g, Disconnections, n, base, G) /\ DisconnectTx(done, t, h, txundo) = g[n]
  BY <1>1 DEF Traced
<1>3. g \in [0..n -> Disconnections] /\ n \in 0..n
  BY <1>1, <1>2 DEF Trace
<1> QED
  BY <1>2, <1>3

\* The last transaction so far is taken out.
LEMMA TxDisconnects ==
  ASSUME NEW b \in Blocks \ {Base},
         NEW i \in 1..Len(Vtx[b]), ValidUpTo(b, i),
         NEW done \in Disconnections, done.clean, Same(done.view, CoinsAt(b, i))
  PROVE  /\ DisconnectTx(done, Vtx[b][i], nHeight[b], UndoOf(CoinsAt(b, i - 1), Vtx[b][i]))
              \in Disconnections
         /\ DisconnectTx(done, Vtx[b][i], nHeight[b], UndoOf(CoinsAt(b, i - 1), Vtx[b][i])).clean
         /\ Same(DisconnectTx(done, Vtx[b][i], nHeight[b],
                              UndoOf(CoinsAt(b, i - 1), Vtx[b][i])).view, CoinsAt(b, i - 1))
<1> DEFINE t == Vtx[b][i]
           h == nHeight[b]
           old == CoinsAt(b, i - 1)
           new == CoinsAt(b, i)
           v == done.view
           spent == FoldLeft(Spend, old, Vin[t])
<1>1. /\ t \in Txs /\ t \in TxIds /\ t \notin BaseTxs
      /\ ~InBlock(b, i - 1, t) /\ ~InChain(t, Parent[b]) /\ \A m : ~SpentBy(b, i, <<t, m>>)
  BY NothingAhead, NamesApart
<1>2. i \in Nat \ {0} /\ i \in 1..i
  <2>1. i \in Nat \ {0}
    BY BlockTxs
  <2> QED
    BY <2>1
<1>3. InBlock(b, i, t)
  BY <1>2 DEF InBlock
<1>4. old \in Views /\ new \in Views /\ v \in Views /\ HeightsKnown(old)
  <2>1. old \in Views
    BY <1>1, CoinsAtIs
  <2>2. new \in Views
    BY <1>1, CoinsAtIs
  <2>3. HeightsKnown(old)
    BY CoinsAtIs DEF HeightsKnown
  <2> QED
    BY <2>1, <2>2, <2>3 DEF Disconnections
<1>5. HaveInputs(old, t)
  <2>1. ValidUpTo(b, i - 1) /\ ValidTx(b, i)
    BY <1>2, UpToNext DEF ValidUpTo
  <2>2. Same(old, old)
    BY SameIsEquivalence
  <2>3. CheckInputs(old, t, h)
    BY <2>1, <2>2, ValidIsChecked
  <2> QED
    BY <2>3 DEF CheckInputs
<1>6. v[t] = CCoins(t, h)
  <2>1. new[t].nHeight = h
    BY <1>1, <1>3, CoinsAtIs
  <2>2. \A m \in Nat : m \in new[t].out <=> m \in Vout[t]
    BY <1>1, <1>3, CoinsAtIs
  <2>3. new[t].out \subseteq Nat
    BY <1>1, <1>4, ViewsHave
  <2>4. Vout[t] # {} /\ Vout[t] \subseteq Nat
    BY <1>1, Transactions
  <2> HIDE DEF new, t
  <2>5. new[t].out = Vout[t]
    BY <2>2, <2>3, <2>4
  <2>6. v[t].out = Vout[t] /\ v[t].nHeight = h
    BY <1>1, <2>1, <2>4, <2>5 DEF Same, new
  <2>7. v[t] \in Coins
    BY <1>1, <1>4, ViewsHave
  <2> HIDE DEF v, h
  <2> QED
    BY <2>6, <2>7 DEF CCoins, Coins
<1>7. old[t].out = {}
  <2>1. Parent[b] \in Blocks
    BY ChainGrows
  <2>2. \A m \in Nat : ~MadeIn(t, m, Parent[b])
    BY <1>1 DEF MadeIn
  <2>3. \A m \in Nat : m \notin Unspent[Parent[b]][t].out
    BY <1>1, <2>1, <2>2, UnspentIs
  <2>4. \A m \in Nat : m \notin old[t].out
    <3>1. old[t].out \subseteq Unspent[Parent[b]][t].out
      BY <1>1 DEF CoinsAt
    <3> QED
      BY <2>3, <3>1
  <2>5. old[t].out \subseteq Nat
    BY <1>1, <1>4, ViewsHave
  <2> HIDE DEF old
  <2> QED
    BY <2>4, <2>5
<1>8. spent \in Views /\ Same(spent, Without(old, Vin[t], Len(Vin[t])))
  <2>1. Vin[t] \in Seq(Outpoints)
    BY <1>1, Transactions
  <2> HIDE DEF old
  <2> QED
    BY <1>4, <2>1, SpendAll
<1>9. Same([spent EXCEPT ![t] = CCoins(t, h)], new)
  <2>1. Same(old, old)
    BY SameIsEquivalence
  <2>2. Same(UpdateCoins(old, t, h), new)
    BY <1>4, <2>1, TxConnects
  <2> QED
    BY <2>2 DEF UpdateCoins
<1>10. Same(v, new)
  OBVIOUS
<1> HIDE DEF old, new, v, spent, t, h
<1>11. ASSUME NEW u \in TxIds
       PROVE  /\ [v EXCEPT ![t] = Pruned][u].out = Without(old, Vin[t], Len(Vin[t]))[u].out
              /\ [v EXCEPT ![t] = Pruned][u].out # {} =>
                   [v EXCEPT ![t] = Pruned][u].nHeight = Without(old, Vin[t], Len(Vin[t]))[u].nHeight
  <2>1. CASE u = t
    <3>1. [v EXCEPT ![t] = Pruned][u].out = {}
      BY <1>4, <2>1, ViewsHave DEF Pruned
    <3>2. Without(old, Vin[t], Len(Vin[t]))[u].out = {}
      BY <1>7, <2>1 DEF Without
    <3> QED
      BY <3>1, <3>2
  <2>2. CASE u # t
    <3>1. [v EXCEPT ![t] = Pruned][u] = v[u] /\ [spent EXCEPT ![t] = CCoins(t, h)][u] = spent[u]
      BY <1>4, <1>8, <2>2, ViewsHave
    <3>2. v[u].out = new[u].out /\ (v[u].out # {} => v[u].nHeight = new[u].nHeight)
      BY <1>10 DEF Same
    <3>3. /\ [spent EXCEPT ![t] = CCoins(t, h)][u].out = new[u].out
          /\ [spent EXCEPT ![t] = CCoins(t, h)][u].out # {} =>
               [spent EXCEPT ![t] = CCoins(t, h)][u].nHeight = new[u].nHeight
      BY <1>9 DEF Same
    <3>4. /\ spent[u].out = Without(old, Vin[t], Len(Vin[t]))[u].out
          /\ spent[u].out # {} => spent[u].nHeight = Without(old, Vin[t], Len(Vin[t]))[u].nHeight
      BY <1>8 DEF Same
    <3> QED
      BY <3>1, <3>2, <3>3, <3>4
  <2> QED
    BY <2>1, <2>2
<1>12. Same([v EXCEPT ![t] = Pruned], Without(old, Vin[t], Len(Vin[t])))
  BY <1>11 DEF Same
<1>13. /\ DisconnectTx(done, t, h, UndoOf(old, t)) \in Disconnections
       /\ DisconnectTx(done, t, h, UndoOf(old, t)).clean
       /\ Same(DisconnectTx(done, t, h, UndoOf(old, t)).view, old)
  BY <1>1, <1>4, <1>5, <1>6, <1>12, DisconnectTxIs DEF v
<1> QED
  BY <1>13 DEF old, t, h

\* The coinbase is taken out.
LEMMA CoinbaseDisconnects ==
  ASSUME NEW b \in Blocks \ {Base},
         NEW done \in Disconnections, done.clean, Same(done.view, CoinsAt(b, 0))
  PROVE  /\ WithoutTx(done, b, nHeight[b]).clean
         /\ Same(WithoutTx(done, b, nHeight[b]).view, Unspent[Parent[b]])
<1> DEFINE h == nHeight[b]
           v == done.view
           c == CoinsAt(b, 0)
           p == Unspent[Parent[b]]
<1>1. b \in TxIds /\ Parent[b] \in Blocks /\ v \in Views /\ p \in Views
  <2>1. Parent[b] \in Blocks /\ b \in TxIds
    BY ChainGrows, NamesApart
  <2> QED
    BY <2>1, UnspentIs DEF Disconnections
<1>2. \A t : InBlock(b, 0, t) <=> t = b
  BY DEF InBlock
<1>3. \A o : ~SpentBy(b, 0, o)
  BY DEF SpentBy
<1>4. ASSUME NEW t \in TxIds
      PROVE  /\ t = b => c[t].out = Vout[b] /\ c[t].nHeight = h
             /\ t # b => c[t].out = p[t].out /\ c[t].nHeight = p[t].nHeight
  BY <1>2, <1>3 DEF CoinsAt, CCoins
<1>5. Vout[b] # {}
  BY <1>1, CoinsAssumption
<1>6. p[b].out = {}
  <2>1. ~InChain(b, Parent[b]) /\ b \notin BaseTxs
    BY ChainGrows, NamesApart
  <2>2. \A m \in Nat : ~MadeIn(b, m, Parent[b])
    BY <2>1 DEF MadeIn
  <2>3. \A m \in Nat : m \notin p[b].out
    BY <1>1, <2>2, UnspentIs
  <2>4. p[b].out \subseteq Nat
    BY <1>1, ViewsHave
  <2> QED
    BY <2>3, <2>4
<1>7. \A t \in TxIds : v[t].out = c[t].out /\ (v[t].out # {} => v[t].nHeight = c[t].nHeight)
  BY DEF Same
<1> DEFINE r == WithoutTx(done, b, h)
<1>8. r = [clean |-> done.clean /\ v[b] = CCoins(b, h), view |-> [v EXCEPT ![b] = Pruned]]
  BY DEF WithoutTx
<1> HIDE DEF v, c, p, h, r
<1>9. v[b] = CCoins(b, h)
  <2>1. v[b].out = Vout[b] /\ v[b].nHeight = h
    BY <1>1, <1>4, <1>5, <1>7
  <2>2. v[b] \in Coins
    BY <1>1, ViewsHave
  <2> QED
    BY <2>1, <2>2 DEF CCoins, Coins
<1>10. ASSUME NEW t \in TxIds
       PROVE  r.view[t].out = p[t].out /\ (r.view[t].out # {} => r.view[t].nHeight = p[t].nHeight)
  <2>1. CASE t = b
    <3>1. r.view[t] = Pruned
      BY <1>1, <1>8, <2>1, ViewsHave
    <3> QED
      BY <1>6, <2>1, <3>1 DEF Pruned
  <2>2. CASE t # b
    <3>1. r.view[t] = v[t]
      BY <1>1, <1>8, <2>2, ViewsHave
    <3> QED
      BY <1>4, <1>7, <2>2, <3>1
  <2> QED
    BY <2>1, <2>2
<1>11. Same(r.view, p) /\ r.clean
  BY <1>8, <1>9, <1>10 DEF Same
<1> QED
  BY <1>11 DEF r, p, h

\* One step of DisconnectBlock with the right undo data.
DisconnectStep(done, b, i) ==
  DisconnectTx(done, AllTxs(b)[i], nHeight[b], IF i = 1 THEN <<>> ELSE BlockUndo(b)[i - 1])

DisconnectSteps(b) ==
  [p \in Disconnections \X (1..Len(AllTxs(b))) |->
     DisconnectStep(p[1], b, (Len(AllTxs(b)) - p[2]) + 1)]

DisconnectStart(view) == [clean |-> TRUE, view |-> view]

\* The coinbase, and the other transactions with their undo data.
LEMMA DisconnectStepIs ==
  ASSUME NEW b \in Blocks, NEW done
  PROVE  /\ DisconnectStep(done, b, 1) = WithoutTx(done, b, nHeight[b])
         /\ \A i \in 1..Len(Vtx[b]) :
              DisconnectStep(done, b, i + 1)
              = DisconnectTx(done, Vtx[b][i], nHeight[b], UndoOf(CoinsAt(b, i - 1), Vtx[b][i]))
<1>1. AllTxs(b)[1] = b
  BY AllTxsOf
<1>2. DisconnectStep(done, b, 1) = WithoutTx(done, b, nHeight[b])
  BY <1>1 DEF DisconnectStep, DisconnectTx, WithoutTx
<1>3. ASSUME NEW i \in 1..Len(Vtx[b])
      PROVE  DisconnectStep(done, b, i + 1)
             = DisconnectTx(done, Vtx[b][i], nHeight[b], UndoOf(CoinsAt(b, i - 1), Vtx[b][i]))
  <2> DEFINE k == i + 1
             u == UndoOf(CoinsAt(b, i - 1), Vtx[b][i])
  <2>1. k \in 2..Len(AllTxs(b)) /\ k - 1 = i /\ k # 1
    <3>1. Len(AllTxs(b)) = Len(Vtx[b]) + 1 /\ Len(Vtx[b]) \in Nat
      BY AllTxsOf
    <3> QED
      BY <3>1
  <2>2. BlockUndo(b)[i] = u
    BY DEF BlockUndo
  <2> HIDE DEF k, u
  <2>3. AllTxs(b)[k] = Vtx[b][i]
    BY <2>1, AllTxsOf
  <2>4. DisconnectStep(done, b, k) = DisconnectTx(done, Vtx[b][i], nHeight[b], u)
    BY <2>1, <2>2, <2>3 DEF DisconnectStep
  <2> QED
    BY <2>4 DEF k, u
<1> QED
  BY <1>2, <1>3

LEMMA DisconnectStepType ==
  ASSUME NEW b \in Blocks \ {Base},
         NEW done \in Disconnections, NEW i \in 1..Len(AllTxs(b))
  PROVE  DisconnectStep(done, b, i) \in Disconnections
<1>1. CASE i = 1
  BY <1>1, DisconnectStepIs, WithoutTxType, NamesApart
<1>2. CASE i # 1
  <2> DEFINE j == i - 1
             t == Vtx[b][j]
             u == UndoOf(CoinsAt(b, j - 1), t)
  <2>1. j \in 1..Len(Vtx[b]) /\ i = j + 1
    <3>1. Len(AllTxs(b)) = Len(Vtx[b]) + 1 /\ Len(Vtx[b]) \in Nat
      BY AllTxsOf
    <3> QED
      BY <1>2, <3>1
  <2> HIDE DEF j
  <2>2. DisconnectStep(done, b, j + 1) = DisconnectTx(done, t, nHeight[b], u)
    BY <2>1, DisconnectStepIs
  <2>3. t \in Txs
    BY <2>1, BlockTxs
  <2>4. CoinsAt(b, j - 1) \in Views
    BY CoinsAtIs, NamesApart
  <2>5. u \in Seq(Int)
    <3> HIDE DEF t
    <3> QED
      BY <2>3, <2>4, UndoType
  <2>6. DOMAIN u = 1..Len(Vin[t])
    <3> HIDE DEF t
    <3> QED
      BY <2>3, Transactions DEF UndoOf
  <2> HIDE DEF u, t
  <2>7. UndoFits(t, u)
    BY <2>5, <2>6 DEF UndoFits
  <2>8. DisconnectTx(done, t, nHeight[b], u) \in Disconnections
    BY <2>3, <2>7, DisconnectTxType
  <2> QED
    BY <2>1, <2>2, <2>8
<1> QED
  BY <1>1, <1>2

\* DisconnectBlock, step by step.
LEMMA DisconnectTrace ==
  ASSUME NEW b \in Blocks \ {Base}, NEW view \in Views
  PROVE  /\ Traced(Disconnections, Len(AllTxs(b)), DisconnectStart(view), DisconnectSteps(b),
                   DisconnectBlock(view, b, BlockUndo(b)))
         /\ Len(AllTxs(b)) \in Nat
<1> DEFINE D == Disconnections
           n == Len(AllTxs(b))
           s == Reverse([i \in DOMAIN AllTxs(b) |-> i])
           base == DisconnectStart(view)
           G == DisconnectSteps(b)
           f == CHOOSE f : f = [S \in SUBSET DOMAIN s |->
                                  IF S = {} THEN base
                                  ELSE LET x == Max(S) IN DisconnectStep(f[S \ {x}], b, s[x])]
<1>1. /\ n \in Nat /\ DOMAIN s = 1..n /\ \A k \in 1..n : s[k] = (n - k) + 1 /\ s[k] \in 1..n
  <2>0. AllTxs(b) \in Seq(TxIds)
    BY AllTxsOf
  <2>1. n \in Nat /\ DOMAIN AllTxs(b) = 1..n
    BY <2>0
  <2> DEFINE q == [i \in DOMAIN AllTxs(b) |-> i]
  <2>2. q = [i \in 1..n |-> i]
    BY <2>1
  <2> HIDE DEF q, n
  <2>3. /\ DOMAIN Reverse(q) = 1..n
        /\ \A k \in 1..n : Reverse(q)[k] = (n - k) + 1 /\ (n - k) + 1 \in 1..n
    BY <2>1, <2>2, Downwards
  <2> QED
    BY <2>1, <2>3 DEF q
<1>2. DisconnectBlock(view, b, BlockUndo(b)) = f[1..n]
  BY <1>1 DEF DisconnectBlock, DisconnectStep, DisconnectStart, FoldLeft, MapThenFoldSet
<1>3. \A v \in D, k \in 1..n : G[<<v, k>>] = DisconnectStep(v, b, s[k])
  <2> SUFFICES ASSUME NEW v \in D, NEW k \in 1..n
               PROVE  G[<<v, k>>] = DisconnectStep(v, b, s[k])
    OBVIOUS
  <2>1. G[<<v, k>>] = DisconnectStep(v, b, (n - k) + 1)
    BY DEF DisconnectSteps
  <2>2. s[k] = (n - k) + 1
    BY <1>1
  <2> HIDE DEF s, n, D, G
  <2> QED
    BY <2>1, <2>2
<1>4. G \in [D \X (1..n) -> D]
  <2>1. ASSUME NEW v \in D, NEW k \in 1..n
        PROVE  G[<<v, k>>] \in D
    <3>1. DisconnectStep(v, b, s[k]) \in D
      BY <1>1, DisconnectStepType
    <3> HIDE DEF s, n, G, D
    <3> QED
      BY <1>3, <3>1
  <2>2. G = [p \in D \X (1..n) |-> G[p]]
    BY DEF DisconnectSteps
  <2> HIDE DEF G, D, n
  <2>3. \A p \in D \X (1..n) : G[p] \in D
    BY <2>1
  <2> QED
    BY <2>2, <2>3
<1>5. base \in D
  BY DEF Disconnections, DisconnectStart
<1>0. n \in Nat /\ DOMAIN s = 1..n
  BY <1>1
<1> HIDE DEF n, G, D, base, s
<1>6. f = [S \in SUBSET (1..n) |->
             IF S = {} THEN base ELSE LET x == Max(S) IN DisconnectStep(f[S \ {x}], b, s[x])]
  <2>1. IsFiniteSet(1..n) /\ 1..n \subseteq Int
    BY <1>0, FS_Interval
  <2>2. PICK g \in [SUBSET (1..n) -> D] : FoldsOn(g, SUBSET (1..n), base, G)
    BY <1>4, <1>5, <2>1, FoldExists
  <2>3. ASSUME NEW S \in SUBSET (1..n)
        PROVE  g[S] = IF S = {} THEN base
                      ELSE LET x == Max(S) IN DisconnectStep(g[S \ {x}], b, s[x])
    <3>1. S # {} => Max(S) \in 1..n
      BY <2>1, MaxIsMember
    <3> QED
      BY <1>3, <2>2, <3>1 DEF FoldsOn
  <2> DEFINE IsFold(q) ==
               q = [S \in SUBSET (1..n) |->
                      IF S = {} THEN base
                      ELSE LET x == Max(S) IN DisconnectStep(q[S \ {x}], b, s[x])]
  <2>4. IsFold(g)
    <3>1. g = [S \in SUBSET (1..n) |-> g[S]]
      OBVIOUS
    <3> QED
      BY <2>3, <3>1
  <2>5. f = CHOOSE q : IsFold(q)
    BY <1>0
  <2> HIDE DEF f, IsFold
  <2>6. IsFold(f)
    BY <2>4, <2>5
  <2> QED
    BY <2>6 DEF IsFold
<1> HIDE DEF f
<1>7. FoldsIn(f, D, n, base, G)
  <2>1. f[{}] = base
    BY <1>6
  <2> SUFFICES ASSUME NEW S \in SUBSET (1..n), S # {}, f[S \ {Max(S)}] \in D
               PROVE  f[S] = G[<<f[S \ {Max(S)}], Max(S)>>]
    BY <2>1 DEF FoldsIn
  <2>2. IsFiniteSet(1..n) /\ 1..n \subseteq Int
    BY <1>0, FS_Interval
  <2>3. Max(S) \in 1..n
    BY <2>2, MaxIsMember
  <2>4. f[S] = DisconnectStep(f[S \ {Max(S)}], b, s[Max(S)])
    BY <1>6
  <2> QED
    BY <1>3, <2>3, <2>4
<1>8. EndsTrace(f, D, n, base, G)
  <2>1. StepOn(G, D, n)
    BY <1>4 DEF StepOn
  <2> QED
    BY <1>0, <1>5, <1>7, <2>1, FoldTrace
<1> QED
  BY <1>0, <1>2, <1>8 DEF EndsTrace, Traced, n, G, D, base

\* DisconnectBlock undoes a block on the coins of its chain, and leaves those of the one before.
LEMMA DisconnectBlockIs ==
  ASSUME NEW b \in Blocks \ {Base}, NEW view \in Views
  PROVE  /\ DisconnectBlock(view, b, BlockUndo(b)) \in Disconnections
         /\ ValidChain[b] /\ Same(view, Unspent[b]) =>
              /\ DisconnectBlock(view, b, BlockUndo(b)).clean
              /\ Same(DisconnectBlock(view, b, BlockUndo(b)).view, Unspent[Parent[b]])
<1> DEFINE m == Len(Vtx[b])
           n == Len(AllTxs(b))
           D == Disconnections
           base == DisconnectStart(view)
           G == DisconnectSteps(b)
           r == DisconnectBlock(view, b, BlockUndo(b))
<1>1. m \in Nat /\ n = m + 1
  BY AllTxsOf
<1>2. Traced(D, n, base, G, r) /\ n \in Nat
  BY DisconnectTrace
<1>3. PICK g : Trace(g, D, n, base, G) /\ r = g[n]
  <2> HIDE DEF r, base, G, D, n
  <2> QED
    BY <1>2 DEF Traced
<1>4. ASSUME NEW k \in 1..n
      PROVE  g[k - 1] \in D /\ g[k] \in D /\ g[k] = DisconnectStep(g[k - 1], b, (n - k) + 1)
  <2>1. StepOf(g, D, G, k)
    BY <1>2, <1>3, TraceSteps
  <2>2. g[k - 1] \in D /\ g[k] \in D /\ g[k] = G[<<g[k - 1], k>>]
    BY <2>1 DEF StepOf
  <2> QED
    BY <2>2 DEF DisconnectSteps
<1>5. g[0] = base
  BY <1>3 DEF Trace
<1> HIDE DEF r, base, G, n, D, m
<1>6. n \in 1..n /\ m \in 0..m /\ m \in 0..n /\ n - 1 = m /\ (n - n) + 1 = 1 /\ m - m = 0
  BY <1>1
<1>7. r \in D
  BY <1>3, <1>4, <1>6
<1>8. ASSUME ValidChain[b], Same(view, Unspent[b])
      PROVE  r.clean /\ Same(r.view, Unspent[Parent[b]])
  <2> DEFINE Right(k) == g[k].clean /\ Same(g[k].view, CoinsAt(b, m - k))
             N == {k \in Nat : k <= m => Right(k)}
  <2>1. ValidUpTo(b, m) /\ Same(CoinsAt(b, m), Unspent[b])
    BY <1>8, BlockConnects DEF m
  <2>2. 0 \in N
    <3>1. g[0].clean /\ g[0].view = view
      BY <1>5 DEF base, DisconnectStart
    <3>2. Same(view, CoinsAt(b, m))
      <4>1. Same(Unspent[b], CoinsAt(b, m))
        BY <2>1, SameIsEquivalence
      <4> QED
        BY <1>8, <4>1, SameIsEquivalence
    <3>3. m - 0 = m
      BY <1>1
    <3> QED
      BY <3>1, <3>2, <3>3
  <2>3. ASSUME NEW k \in 1..m, k - 1 \in N
        PROVE  k \in N
    <3> DEFINE i == (m - k) + 1
               d == g[k - 1]
    <3>1. /\ i \in 1..m /\ k \in 1..n /\ (n - k) + 1 = i + 1 /\ m - (k - 1) = i /\ i - 1 = m - k
          /\ k \in Nat /\ k - 1 <= m
      BY <1>1
    <3>2. d \in D /\ g[k] = DisconnectStep(d, b, i + 1)
      BY <1>4, <3>1
    <3>3. d.clean /\ Same(d.view, CoinsAt(b, i))
      BY <2>3, <3>1
    <3> HIDE DEF i, d
    <3>4. ValidUpTo(b, i)
      <4>1. \A j \in 1..i : j \in 1..m
        BY <1>1, <3>1
      <4> QED
        BY <2>1, <4>1 DEF ValidUpTo
    <3> DEFINE e == DisconnectTx(d, Vtx[b][i], nHeight[b], UndoOf(CoinsAt(b, i - 1), Vtx[b][i]))
    <3>5. g[k] = e
      BY <3>1, <3>2, DisconnectStepIs DEF m
    <3>6. e.clean /\ Same(e.view, CoinsAt(b, i - 1))
      BY <3>1, <3>2, <3>3, <3>4, TxDisconnects DEF m, D
    <3> HIDE DEF e
    <3> QED
      BY <3>1, <3>5, <3>6
  <2>4. m \in N
    <3> HIDE DEF N
    <3>1. \A k \in 0..m : k \in N
      BY <1>1, <2>2, <2>3, StepInduction
    <3> QED
      BY <1>6, <3>1
  <2>5. g[m].clean /\ Same(g[m].view, CoinsAt(b, 0))
    <3>1. m <= m
      BY <1>1
    <3> QED
      BY <1>6, <2>4, <3>1
  <2>6. g[m] \in D /\ g[n] = DisconnectStep(g[m], b, 1)
    <3>1. g[n - 1] \in D /\ g[n] = DisconnectStep(g[n - 1], b, (n - n) + 1)
      BY <1>4, <1>6
    <3> QED
      BY <1>6, <3>1
  <2>7. g[n] = WithoutTx(g[m], b, nHeight[b])
    BY <2>6, DisconnectStepIs
  <2>8. g[n].clean /\ Same(g[n].view, Unspent[Parent[b]])
    <3> DEFINE d == g[m]
    <3>1. d \in Disconnections /\ d.clean /\ Same(d.view, CoinsAt(b, 0))
      BY <2>5, <2>6 DEF D
    <3>2. g[n] = WithoutTx(d, b, nHeight[b])
      BY <2>7
    <3> HIDE DEF d
    <3>3. /\ WithoutTx(d, b, nHeight[b]).clean
          /\ Same(WithoutTx(d, b, nHeight[b]).view, Unspent[Parent[b]])
      BY <3>1, CoinbaseDisconnects
    <3> QED
      BY <3>2, <3>3
  <2> QED
    BY <1>3, <2>8
<1> QED
  BY <1>7, <1>8 DEF r, D

-----------------------------------------------------------------------------
(* The memory pool *)

\* The two maps of a pool agree: no two of its transactions spend the same output.
Agree(p) ==
  /\ \A t \in p.mapTx : \A o \in ToSet(Vin[t]) :
       o \in DOMAIN p.mapNextTx /\ p.mapNextTx[o] = t
  /\ \A o \in DOMAIN p.mapNextTx :
       p.mapNextTx[o] \in p.mapTx /\ o \in ToSet(Vin[p.mapNextTx[o]])

Pools == [mapTx : SUBSET Txs, mapNextTx : UNION {[O -> Txs] : O \in SUBSET Outpoints}]

GoodPools == {p \in Pools : Agree(p)}

LEMMA PoolIs ==
  ASSUME NEW p \in GoodPools
  PROVE  /\ Agree(p) /\ p.mapTx \subseteq Txs /\ DOMAIN p.mapNextTx \subseteq Outpoints
         /\ p.mapNextTx \in [DOMAIN p.mapNextTx -> Txs]
<1>1. p \in Pools /\ Agree(p)
  BY DEF GoodPools
<1>2. p.mapTx \subseteq Txs /\ \E O \in SUBSET Outpoints : p.mapNextTx \in [O -> Txs]
  BY <1>1 DEF Pools
<1> QED
  BY <1>1, <1>2

LEMMA MakesPool ==
  ASSUME NEW m \in SUBSET Txs, NEW O \in SUBSET Outpoints, NEW f \in [O -> Txs]
  PROVE  [mapTx |-> m, mapNextTx |-> f] \in Pools
<1>1. f \in UNION {[Q -> Txs] : Q \in SUBSET Outpoints}
  OBVIOUS
<1> QED
  BY <1>1 DEF Pools

LEMMA NothingIsPool == NoPool \in GoodPools /\ NoPool.mapTx = {}
<1>1. <<>> \in [{} -> Txs] /\ DOMAIN <<>> = {}
  OBVIOUS
<1>2. NoPool \in Pools
  BY <1>1, MakesPool DEF NoPool
<1>3. Agree(NoPool)
  BY <1>1 DEF Agree, NoPool
<1> QED
  BY <1>2, <1>3 DEF GoodPools, NoPool

\* A transaction that spends what nothing else in the pool does can be added.
LEMMA AddKeepsPool ==
  ASSUME NEW p \in GoodPools, NEW t \in Txs, t \notin p.mapTx, ~HasConflict(p, t)
  PROVE  addUnchecked(p, t) \in GoodPools /\ addUnchecked(p, t).mapTx = p.mapTx \cup {t}
<1> DEFINE O == DOMAIN p.mapNextTx \cup ToSet(Vin[t])
           f == [o \in O |-> IF o \in ToSet(Vin[t]) THEN t ELSE p.mapNextTx[o]]
           q == addUnchecked(p, t)
<1>1. /\ Agree(p) /\ p.mapTx \subseteq Txs /\ DOMAIN p.mapNextTx \subseteq Outpoints
      /\ p.mapNextTx \in [DOMAIN p.mapNextTx -> Txs]
  BY PoolIs
<1>2. ToSet(Vin[t]) \subseteq Outpoints
  <2>1. \A o \in ToSet(Vin[t]) : IsOutpoint(o)
    BY InputsOf
  <2> QED
    BY <2>1 DEF IsOutpoint, Outpoints
<1>3. f \in [O -> Txs] /\ O \in SUBSET Outpoints
  BY <1>1, <1>2
<1>4. q = [mapTx |-> p.mapTx \cup {t}, mapNextTx |-> f]
  BY DEF addUnchecked
<1>5. DOMAIN f = O /\ \A o \in O : f[o] = IF o \in ToSet(Vin[t]) THEN t ELSE p.mapNextTx[o]
  OBVIOUS
<1> HIDE DEF f, O
<1>6. q \in Pools
  <2> DEFINE m == p.mapTx \cup {t}
  <2>1. m \in SUBSET Txs
    BY <1>1
  <2> HIDE DEF m
  <2>2. [mapTx |-> m, mapNextTx |-> f] \in Pools
    BY <1>3, <2>1, MakesPool
  <2> QED
    BY <1>4, <2>2 DEF m
<1> USE DEF O
<1>7. q.mapTx = p.mapTx \cup {t} /\ q.mapNextTx = f
  BY <1>4
<1> HIDE DEF q
<1>8. \A o \in DOMAIN p.mapNextTx : o \notin ToSet(Vin[t])
  BY DEF HasConflict
<1>9. ASSUME NEW u \in q.mapTx, NEW o \in ToSet(Vin[u])
      PROVE  o \in DOMAIN q.mapNextTx /\ q.mapNextTx[o] = u
  BY <1>1, <1>5, <1>7, <1>8 DEF Agree
<1>10. ASSUME NEW o \in DOMAIN q.mapNextTx
       PROVE  q.mapNextTx[o] \in q.mapTx /\ o \in ToSet(Vin[q.mapNextTx[o]])
  BY <1>1, <1>5, <1>7 DEF Agree
<1> QED
  BY <1>6, <1>7, <1>9, <1>10 DEF GoodPools, Agree, q

\* Any of its transactions can go.
LEMMA RemoveKeepsPool ==
  ASSUME NEW p \in GoodPools, NEW S
  PROVE  removeAll(p, S) \in GoodPools /\ removeAll(p, S).mapTx = p.mapTx \ S
<1> DEFINE gone == UNION {ToSet(Vin[t]) : t \in S \cap p.mapTx}
           O == DOMAIN p.mapNextTx \ gone
           f == Restrict(p.mapNextTx, O)
           q == removeAll(p, S)
<1>1. /\ Agree(p) /\ p.mapTx \subseteq Txs /\ DOMAIN p.mapNextTx \subseteq Outpoints
      /\ p.mapNextTx \in [DOMAIN p.mapNextTx -> Txs]
  BY PoolIs
<1>2. f \in [O -> Txs] /\ O \in SUBSET Outpoints /\ \A o \in O : f[o] = p.mapNextTx[o]
  BY <1>1 DEF Restrict
<1>3. q = [mapTx |-> p.mapTx \ S, mapNextTx |-> f]
  BY DEF removeAll
<1> HIDE DEF f, O
<1>4. q \in Pools
  <2> DEFINE m == p.mapTx \ S
  <2>1. m \in SUBSET Txs
    BY <1>1
  <2> HIDE DEF m
  <2>2. [mapTx |-> m, mapNextTx |-> f] \in Pools
    BY <1>2, <2>1, MakesPool
  <2> QED
    BY <1>3, <2>2 DEF m
<1> USE DEF O
<1>5. q.mapTx = p.mapTx \ S /\ q.mapNextTx = f /\ DOMAIN f = O
  BY <1>2, <1>3
<1> HIDE DEF q
<1>6. ASSUME NEW u \in q.mapTx, NEW o \in ToSet(Vin[u])
      PROVE  o \in DOMAIN q.mapNextTx /\ q.mapNextTx[o] = u
  <2>1. o \in DOMAIN p.mapNextTx /\ p.mapNextTx[o] = u /\ u \notin S
    BY <1>1, <1>5 DEF Agree
  <2>2. o \notin gone
    <3> SUFFICES ASSUME NEW t \in S \cap p.mapTx, o \in ToSet(Vin[t]) PROVE FALSE
      OBVIOUS
    <3>1. p.mapNextTx[o] = t
      BY <1>1 DEF Agree
    <3> QED
      BY <2>1, <3>1
  <2> QED
    BY <1>2, <1>5, <2>1, <2>2
<1>7. ASSUME NEW o \in DOMAIN q.mapNextTx
      PROVE  q.mapNextTx[o] \in q.mapTx /\ o \in ToSet(Vin[q.mapNextTx[o]])
  <2>1. o \in DOMAIN p.mapNextTx /\ o \notin gone /\ q.mapNextTx[o] = p.mapNextTx[o]
    BY <1>2, <1>5
  <2>2. p.mapNextTx[o] \in p.mapTx /\ o \in ToSet(Vin[p.mapNextTx[o]])
    BY <1>1, <2>1 DEF Agree
  <2>3. p.mapNextTx[o] \notin S
    BY <2>1, <2>2
  <2> QED
    BY <1>5, <2>1, <2>2, <2>3
<1> QED
  BY <1>4, <1>5, <1>6, <1>7 DEF GoodPools, Agree, q

\* What spends an output of a transaction goes with it.
LEMMA DescendantsAre ==
  ASSUME NEW p \in GoodPools, NEW t \in Txs
  PROVE  /\ t \in Descendants(p, t)
         /\ \A s \in Descendants(p, t) : \A u \in p.mapTx : \A o \in ToSet(Vin[u]) :
              IsOutpoint(o) /\ o[1] = s /\ o[2] \in Vout[s] => u \in Descendants(p, t)
<1> DEFINE A == Descendants(p, t)
           Closed(S) == \A s \in S : Dependent(p, s) \subseteq S
<1>1. A = {u \in Txs : \A S \in SUBSET Txs : t \in S /\ Closed(S) => u \in S}
  BY DEF Descendants
<1>2. Agree(p) /\ p.mapTx \subseteq Txs
  BY PoolIs
<1>3. t \in A
  BY <1>1
<1>4. ASSUME NEW s \in A, NEW u \in p.mapTx, NEW o \in ToSet(Vin[u]),
             IsOutpoint(o), o[1] = s, o[2] \in Vout[s]
      PROVE  u \in A
  <2>1. o = <<s, o[2]>>
    BY <1>4 DEF IsOutpoint
  <2>2. o \in DOMAIN p.mapNextTx /\ p.mapNextTx[o] = u
    BY <1>2 DEF Agree
  <2>3. u \in Dependent(p, s)
    BY <1>4, <2>1, <2>2 DEF Dependent
  <2>4. ASSUME NEW S \in SUBSET Txs, t \in S, Closed(S) PROVE u \in S
    <3>1. s \in S
      BY <1>1, <2>4
    <3> QED
      BY <2>3, <2>4, <3>1
  <2> QED
    BY <1>1, <1>2, <2>4
<1> QED
  BY <1>3, <1>4

LEMMA RemoveRecursiveIs ==
  ASSUME NEW p \in GoodPools, NEW t \in Txs
  PROVE  /\ removeRecursive(p, t) \in GoodPools
         /\ removeRecursive(p, t).mapTx \subseteq p.mapTx \ {t}
         /\ \A u \in removeRecursive(p, t).mapTx : \A o \in ToSet(Vin[u]) :
              o[2] \in Vout[o[1]] =>
                /\ o[1] # t
                /\ o[1] \in p.mapTx => o[1] \in removeRecursive(p, t).mapTx
<1> DEFINE A == Descendants(p, t)
           q == removeRecursive(p, t)
<1>1. q \in GoodPools /\ q.mapTx = p.mapTx \ A
  BY RemoveKeepsPool DEF removeRecursive
<1>2. t \in A /\ p.mapTx \subseteq Txs
  BY PoolIs, DescendantsAre
<1>3. ASSUME NEW u \in q.mapTx, NEW o \in ToSet(Vin[u]), o[2] \in Vout[o[1]]
      PROVE  o[1] \notin A
  <2>1. u \in p.mapTx /\ u \notin A /\ IsOutpoint(o)
    BY <1>1, <1>2, <1>3, InputsOf
  <2> QED
    BY <1>3, <2>1, DescendantsAre
<1> HIDE DEF A, q
<1>4. q.mapTx \subseteq p.mapTx \ {t}
  BY <1>1, <1>2
<1>5. \A u \in q.mapTx : \A o \in ToSet(Vin[u]) : o[2] \in Vout[o[1]] =>
        o[1] # t /\ (o[1] \in p.mapTx => o[1] \in q.mapTx)
  <2> SUFFICES ASSUME NEW u \in q.mapTx, NEW o \in ToSet(Vin[u]), o[2] \in Vout[o[1]]
               PROVE  o[1] # t /\ (o[1] \in p.mapTx => o[1] \in q.mapTx)
    OBVIOUS
  <2>1. o[1] \notin A
    BY <1>3
  <2> QED
    BY <1>1, <1>2, <2>1
<1> QED
  BY <1>1, <1>4, <1>5 DEF q

-----------------------------------------------------------------------------
(* Conflicts *)

ConflictStep(p, o, t) ==
  IF o \in DOMAIN p.mapNextTx /\ p.mapNextTx[o] # t
  THEN removeRecursive(p, p.mapNextTx[o]) ELSE p

ConflictSteps(t) ==
  [p \in GoodPools \X (1..Len(Vin[t])) |-> ConflictStep(p[1], Vin[t][p[2]], t)]

\* Who stays in a pool keeps those whose outputs it spends.
Spares(p, q) ==
  /\ q.mapTx \subseteq p.mapTx
  /\ \A u \in q.mapTx : \A o \in ToSet(Vin[u]) :
       o[2] \in Vout[o[1]] /\ o[1] \in p.mapTx => o[1] \in q.mapTx

\* After a step nothing else spends o.
LEMMA ConflictStepIs ==
  ASSUME NEW p \in GoodPools, NEW o, NEW t
  PROVE  /\ ConflictStep(p, o, t) \in GoodPools
         /\ Spares(p, ConflictStep(p, o, t))
         /\ \A u \in ConflictStep(p, o, t).mapTx \ {t} : o \notin ToSet(Vin[u])
<1> DEFINE q == ConflictStep(p, o, t)
           u == p.mapNextTx[o]
<1>1. Agree(p) /\ p.mapTx \subseteq Txs
  BY PoolIs
<1>2. CASE o \in DOMAIN p.mapNextTx /\ u # t
  <2>1. q = removeRecursive(p, u) /\ u \in Txs
    BY <1>1, <1>2 DEF ConflictStep, Agree
  <2>3. \A v \in p.mapTx : o \in ToSet(Vin[v]) => v = u
    BY <1>1 DEF Agree
  <2> HIDE DEF q, u
  <2>2. /\ q \in GoodPools /\ q.mapTx \subseteq p.mapTx \ {u}
        /\ \A v \in q.mapTx : \A x \in ToSet(Vin[v]) :
             x[2] \in Vout[x[1]] => (x[1] \in p.mapTx => x[1] \in q.mapTx)
    BY <2>1, RemoveRecursiveIs
  <2>4. Spares(p, q)
    BY <2>2 DEF Spares
  <2>5. \A v \in q.mapTx : o \notin ToSet(Vin[v])
    <3>1. \A v \in q.mapTx : v \in p.mapTx /\ v # u
      BY <2>2
    <3> QED
      BY <2>3, <3>1, Zenon
  <2> QED
    BY <2>2, <2>4, <2>5 DEF q
<1>3. CASE ~(o \in DOMAIN p.mapNextTx /\ u # t)
  <2>1. q = p
    BY <1>3 DEF ConflictStep
  <2>2. \A v \in p.mapTx \ {t} : o \notin ToSet(Vin[v])
    BY <1>1, <1>3 DEF Agree
  <2> HIDE DEF q
  <2>3. Spares(p, q)
    BY <2>1 DEF Spares
  <2> QED
    BY <2>1, <2>2, <2>3 DEF q
<1> QED
  BY <1>2, <1>3

\* removeConflicts looks at one input after the other.
LEMMA ConflictTrace ==
  ASSUME NEW t \in Txs, NEW base \in GoodPools
  PROVE  Traced(GoodPools, Len(Vin[t]), base, ConflictSteps(t), removeConflicts(base, t)) /\ Len(Vin[t]) \in Nat
<1> DEFINE D == GoodPools
           n == Len(Vin[t])
           G == ConflictSteps(t)
           f == CHOOSE f : f = [S \in SUBSET DOMAIN Vin[t] |->
                                  IF S = {} THEN base
                                  ELSE LET x == Max(S) IN ConflictStep(f[S \ {x}], Vin[t][x], t)]
<1>1. n \in Nat /\ DOMAIN Vin[t] = 1..n /\ \A i \in 1..n : Vin[t][i] \in Outpoints
  BY Transactions
<1>2. removeConflicts(base, t) = f[1..n]
  BY <1>1 DEF removeConflicts, ConflictStep, FoldLeft, MapThenFoldSet
<1>3. G \in [D \X (1..n) -> D]
  BY <1>1, ConflictStepIs DEF ConflictSteps
<1>4. \A v \in D, i \in 1..n : G[<<v, i>>] = ConflictStep(v, Vin[t][i], t)
  BY DEF ConflictSteps
<1>0. n \in Nat /\ DOMAIN Vin[t] = 1..n /\ base \in D
  BY <1>1
<1> HIDE DEF n, G, D
<1>6. f = [S \in SUBSET (1..n) |->
             IF S = {} THEN base ELSE LET x == Max(S) IN ConflictStep(f[S \ {x}], Vin[t][x], t)]
  <2>1. IsFiniteSet(1..n) /\ 1..n \subseteq Int
    BY <1>0, FS_Interval
  <2>2. PICK g \in [SUBSET (1..n) -> D] : FoldsOn(g, SUBSET (1..n), base, G)
    BY <1>0, <1>3, <2>1, FoldExists
  <2>3. ASSUME NEW S \in SUBSET (1..n)
        PROVE  g[S] = IF S = {} THEN base ELSE LET x == Max(S) IN ConflictStep(g[S \ {x}], Vin[t][x], t)
    <3>1. S # {} => Max(S) \in 1..n
      BY <2>1, MaxIsMember
    <3> QED
      BY <1>4, <2>2, <3>1 DEF FoldsOn
  <2>4. g = [S \in SUBSET (1..n) |->
               IF S = {} THEN base ELSE LET x == Max(S) IN ConflictStep(g[S \ {x}], Vin[t][x], t)]
    <3>1. g = [S \in SUBSET (1..n) |-> g[S]]
      OBVIOUS
    <3> QED
      BY <2>3, <3>1
  <2> DEFINE IsFold(q) ==
               q = [S \in SUBSET (1..n) |->
                      IF S = {} THEN base
                      ELSE LET x == Max(S) IN ConflictStep(q[S \ {x}], Vin[t][x], t)]
  <2>5. f = CHOOSE q : IsFold(q)
    BY <1>0
  <2>6. IsFold(g)
    BY <2>4
  <2> HIDE DEF f, IsFold
  <2>7. IsFold(f)
    BY <2>5, <2>6
  <2> QED
    BY <2>7 DEF IsFold
<1> HIDE DEF f
<1>7. FoldsIn(f, D, n, base, G)
  <2>1. f[{}] = base
    BY <1>6
  <2> SUFFICES ASSUME NEW S \in SUBSET (1..n), S # {}, f[S \ {Max(S)}] \in D
               PROVE  f[S] = G[<<f[S \ {Max(S)}], Max(S)>>]
    BY <2>1 DEF FoldsIn
  <2>2. IsFiniteSet(1..n) /\ 1..n \subseteq Int
    BY <1>0, FS_Interval
  <2>3. Max(S) \in 1..n
    BY <2>2, MaxIsMember
  <2>4. f[S] = ConflictStep(f[S \ {Max(S)}], Vin[t][Max(S)], t)
    BY <1>6
  <2> QED
    BY <1>4, <2>3, <2>4
<1>8. EndsTrace(f, D, n, base, G)
  <2>1. StepOn(G, D, n)
    BY <1>3 DEF StepOn
  <2> QED
    BY <1>0, <1>7, <2>1, FoldTrace
<1> QED
  BY <1>1, <1>2, <1>8 DEF EndsTrace, Traced, n, G, D

\* What removeConflicts leaves spends nothing that t spends, and has what it spends.
LEMMA ConflictsAre ==
  ASSUME NEW t \in Txs, NEW p \in GoodPools
  PROVE  /\ removeConflicts(p, t) \in GoodPools
         /\ Spares(p, removeConflicts(p, t))
         /\ \A u \in removeConflicts(p, t).mapTx \ {t} : \A o \in ToSet(Vin[t]) : o \notin ToSet(Vin[u])
<1> DEFINE n == Len(Vin[t])
           s == Vin[t]
           G == ConflictSteps(t)
           r == removeConflicts(p, t)
<1>1. Traced(GoodPools, n, p, G, r) /\ n \in Nat
  BY ConflictTrace
<1>2. PICK g : Trace(g, GoodPools, n, p, G) /\ r = g[n]
  BY <1>1 DEF Traced
<1>3. ASSUME NEW k \in 1..n
      PROVE  /\ g[k - 1] \in GoodPools /\ g[k] \in GoodPools
             /\ g[k] = ConflictStep(g[k - 1], s[k], t)
  <2>1. StepOf(g, GoodPools, G, k)
    BY <1>1, <1>2, TraceSteps
  <2>2. g[k - 1] \in GoodPools /\ g[k] \in GoodPools /\ g[k] = G[<<g[k - 1], k>>]
    BY <2>1 DEF StepOf
  <2> QED
    BY <2>2 DEF ConflictSteps
<1>4. g[0] = p
  BY <1>2 DEF Trace
<1>5. \A o \in ToSet(s) : \E i \in 1..n : o = s[i]
  BY InputsOf
<1> HIDE DEF G, s, n, r
<1> DEFINE S == {k \in 0..n : /\ g[k] \in GoodPools /\ Spares(p, g[k])
                              /\ \A i \in 1..k : \A u \in g[k].mapTx \ {t} : s[i] \notin ToSet(Vin[u])}
<1>6. 0 \in S
  <2>1. Spares(p, p)
    BY DEF Spares
  <2> QED
    BY <1>1, <1>4, <2>1
<1>7. ASSUME NEW k \in 1..n, k - 1 \in S PROVE k \in S
  <2>1. /\ g[k] \in GoodPools /\ Spares(g[k - 1], g[k])
        /\ \A u \in g[k].mapTx \ {t} : s[k] \notin ToSet(Vin[u])
    <3> DEFINE a == g[k - 1]
               o == s[k]
    <3>1. a \in GoodPools /\ g[k] = ConflictStep(a, o, t)
      BY <1>3
    <3> HIDE DEF a, o
    <3>2. /\ ConflictStep(a, o, t) \in GoodPools /\ Spares(a, ConflictStep(a, o, t))
          /\ \A u \in ConflictStep(a, o, t).mapTx \ {t} : o \notin ToSet(Vin[u])
      BY <3>1, ConflictStepIs
    <3> QED
      BY <3>1, <3>2 DEF a, o
  <2>2. Spares(p, g[k])
    <3>1. Spares(p, g[k - 1])
      BY <1>7
    <3> QED
      BY <2>1, <3>1 DEF Spares
  <2>3. ASSUME NEW i \in 1..k, NEW u \in g[k].mapTx \ {t} PROVE s[i] \notin ToSet(Vin[u])
    <3>1. CASE i = k
      BY <2>1, <3>1
    <3>2. CASE i # k
      <4>1. i \in 1..(k - 1)
        BY <3>2
      <4>2. u \in g[k - 1].mapTx \ {t}
        BY <2>1 DEF Spares
      <4> QED
        BY <1>7, <4>1, <4>2
    <3> QED
      BY <3>1, <3>2
  <2> QED
    BY <2>1, <2>2, <2>3
<1>8. n \in S
  <2>1. \A k \in 1..n : k - 1 \in S => k \in S
    BY <1>7
  <2> HIDE DEF S
  <2>2. \A k \in 0..n : k \in S
    BY <1>1, <1>6, <2>1, StepInduction
  <2> QED
    BY <1>1, <2>2
<1> QED
  <2>1. /\ r \in GoodPools /\ Spares(p, r)
        /\ \A i \in 1..n : \A u \in r.mapTx \ {t} : s[i] \notin ToSet(Vin[u])
    BY <1>2, <1>8
  <2>2. \A u \in r.mapTx \ {t} : \A o \in ToSet(s) : o \notin ToSet(Vin[u])
    <3> SUFFICES ASSUME NEW u \in r.mapTx \ {t}, NEW o \in ToSet(s) PROVE o \notin ToSet(Vin[u])
      OBVIOUS
    <3>1. PICK i \in 1..n : o = s[i]
      BY <1>5
    <3> QED
      BY <2>1, <3>1
  <2> QED
    BY <2>1, <2>2 DEF r, s

-----------------------------------------------------------------------------
(* Connecting and disconnecting a transaction *)

\* A connected transaction leaves the pool, with whatever it rules out.
LEMMA ConfirmIs ==
  ASSUME NEW p \in GoodPools, NEW t \in Txs
  PROVE  /\ Confirm(p, t) \in GoodPools
         /\ Confirm(p, t).mapTx \subseteq p.mapTx \ {t}
         /\ \A u \in Confirm(p, t).mapTx : \A o \in ToSet(Vin[u]) :
              /\ o \notin ToSet(Vin[t])
              /\ o[2] \in Vout[o[1]] /\ o[1] \in p.mapTx => o[1] = t \/ o[1] \in Confirm(p, t).mapTx
<1> DEFINE m == remove(p, t)
           q == Confirm(p, t)
<1>1. m \in GoodPools /\ m.mapTx = p.mapTx \ {t}
  BY RemoveKeepsPool DEF remove
<1>2. q = removeConflicts(m, t)
  BY DEF Confirm
<1> HIDE DEF m, q
<1>3. /\ q \in GoodPools /\ Spares(m, q)
      /\ \A u \in q.mapTx \ {t} : \A o \in ToSet(Vin[t]) : o \notin ToSet(Vin[u])
  BY <1>1, <1>2, ConflictsAre
<1>4. q.mapTx \subseteq p.mapTx \ {t}
  BY <1>1, <1>3 DEF Spares
<1>5. ASSUME NEW u \in q.mapTx, NEW o \in ToSet(Vin[u])
      PROVE  /\ o \notin ToSet(Vin[t])
             /\ o[2] \in Vout[o[1]] /\ o[1] \in p.mapTx => o[1] = t \/ o[1] \in q.mapTx
  <2>1. o \notin ToSet(Vin[t])
    BY <1>3, <1>4
  <2>2. o[2] \in Vout[o[1]] /\ o[1] \in m.mapTx => o[1] \in q.mapTx
    BY <1>3 DEF Spares
  <2> QED
    BY <1>1, <2>1, <2>2
<1> QED
  BY <1>3, <1>4, <1>5 DEF q

\* What the pool accepts spends coins of the chain that are old enough, or outputs of the pool.
LEMMA AcceptableIs ==
  ASSUME NEW p \in GoodPools, NEW view, NEW tip, NEW t \in Txs,
         Acceptable(p, view, tip, t)
  PROVE  /\ t \notin p.mapTx /\ ~HasConflict(p, t)
         /\ \A o \in ToSet(Vin[t]) :
              /\ o[2] \in view[o[1]].out \/ (o[1] \in p.mapTx /\ o[2] \in Vout[o[1]])
              /\ o[1] \in Blocks =>
                   /\ o[2] \in view[o[1]].out
                   /\ (nHeight[tip] + 1) - view[o[1]].nHeight >= COINBASE_MATURITY
<1> DEFINE pv == PoolView(p, view)
<1>1. /\ t \notin p.mapTx /\ ~HasConflict(p, t) /\ HaveInputs(pv, t)
      /\ \A o \in ToSet(Vin[t]) :
           o[1] \in Blocks => (nHeight[tip] + 1) - pv[o[1]].nHeight >= COINBASE_MATURITY
  BY DEF Acceptable, CheckInputs
<1>2. ASSUME NEW o \in ToSet(Vin[t])
      PROVE  /\ o[2] \in view[o[1]].out \/ (o[1] \in p.mapTx /\ o[2] \in Vout[o[1]])
             /\ o[1] \in Blocks =>
                  /\ o[2] \in view[o[1]].out
                  /\ (nHeight[tip] + 1) - view[o[1]].nHeight >= COINBASE_MATURITY
  <2>1. o[1] \in TxIds /\ o[2] \in pv[o[1]].out
    <3>1. IsOutpoint(o)
      BY InputsOf
    <3> QED
      BY <1>1, <3>1 DEF IsOutpoint, HaveInputs
  <2>2. pv[o[1]] = view[o[1]] \/ (o[1] \in p.mapTx /\ pv[o[1]] = CCoins(o[1], MEMPOOL_HEIGHT))
    BY <2>1 DEF PoolView
  <2>3. p.mapTx \subseteq Txs /\ \A u \in Txs : u \notin Blocks
    BY PoolIs, CoinsAssumption
  <2>4. CCoins(o[1], MEMPOOL_HEIGHT).out = Vout[o[1]]
    BY DEF CCoins
  <2> HIDE DEF pv
  <2>5. CASE pv[o[1]] = view[o[1]]
    <3>1. o[2] \in view[o[1]].out
      BY <2>1, <2>5
    <3>2. o[1] \in Blocks => (nHeight[tip] + 1) - view[o[1]].nHeight >= COINBASE_MATURITY
      <4>1. o[1] \in Blocks => (nHeight[tip] + 1) - pv[o[1]].nHeight >= COINBASE_MATURITY
        BY <1>1
      <4> QED
        BY <2>5, <4>1
    <3> QED
      BY <3>1, <3>2
  <2>6. CASE o[1] \in p.mapTx /\ pv[o[1]] = CCoins(o[1], MEMPOOL_HEIGHT)
    BY <2>1, <2>3, <2>4, <2>6
  <2> QED
    BY <2>2, <2>5, <2>6
<1> QED
  BY <1>1, <1>2

\* A disconnected transaction is back in the pool, or nothing in it spends its outputs.
LEMMA ResurrectIs ==
  ASSUME NEW p \in GoodPools, NEW view, NEW tip, NEW t \in Txs
  PROVE  /\ Resurrect(p, view, tip, t) \in GoodPools
         /\ \A u \in Resurrect(p, view, tip, t).mapTx :
              \/ u \in p.mapTx
              \/ u = t /\ Acceptable(p, view, tip, t) /\ p.mapTx \subseteq Resurrect(p, view, tip, t).mapTx
         /\ \A u \in Resurrect(p, view, tip, t).mapTx \cap p.mapTx : \A o \in ToSet(Vin[u]) :
              o[2] \in Vout[o[1]] /\ (o[1] = t \/ o[1] \in p.mapTx)
                => o[1] \in Resurrect(p, view, tip, t).mapTx
<1> DEFINE q == Resurrect(p, view, tip, t)
<1>1. CASE Acceptable(p, view, tip, t)
  <2>1. q = addUnchecked(p, t)
    BY <1>1 DEF Resurrect
  <2>2. t \notin p.mapTx /\ ~HasConflict(p, t)
    BY <1>1 DEF Acceptable
  <2>3. q \in GoodPools /\ q.mapTx = p.mapTx \cup {t}
    BY <2>1, <2>2, AddKeepsPool
  <2> HIDE DEF q
  <2> QED
    BY <1>1, <2>3 DEF q
<1>2. CASE ~Acceptable(p, view, tip, t)
  <2>1. q = removeRecursive(p, t)
    BY <1>2 DEF Resurrect
  <2> HIDE DEF q
  <2>2. /\ q \in GoodPools /\ q.mapTx \subseteq p.mapTx \ {t}
        /\ \A u \in q.mapTx : \A o \in ToSet(Vin[u]) :
             o[2] \in Vout[o[1]] => o[1] # t /\ (o[1] \in p.mapTx => o[1] \in q.mapTx)
    BY <2>1, RemoveRecursiveIs
  <2> QED
    BY <2>2 DEF q
<1> QED
  BY <1>1, <1>2

ConfirmSteps(s) == [p \in GoodPools \X (1..Len(s)) |-> Confirm(p[1], s[p[2]])]

\* The transactions of the new branch are looked at one after the other.
LEMMA ConfirmTrace ==
  ASSUME NEW s \in Seq(Txs), NEW base \in GoodPools
  PROVE  /\ Traced(GoodPools, Len(s), base, ConfirmSteps(s), FoldLeft(Confirm, base, s))
         /\ Len(s) \in Nat
<1> DEFINE D == GoodPools
           n == Len(s)
           G == ConfirmSteps(s)
           f == CHOOSE f : f = [S \in SUBSET DOMAIN s |->
                                  IF S = {} THEN base
                                  ELSE LET x == Max(S) IN Confirm(f[S \ {x}], s[x])]
<1>1. n \in Nat /\ DOMAIN s = 1..n /\ \A i \in 1..n : s[i] \in Txs
  OBVIOUS
<1>2. FoldLeft(Confirm, base, s) = f[1..n]
  BY <1>1 DEF FoldLeft, MapThenFoldSet
<1>3. G \in [D \X (1..n) -> D]
  BY <1>1, ConfirmIs DEF ConfirmSteps
<1>4. \A v \in D, i \in 1..n : G[<<v, i>>] = Confirm(v, s[i])
  BY DEF ConfirmSteps
<1>0. n \in Nat /\ DOMAIN s = 1..n /\ base \in D
  BY <1>1
<1> HIDE DEF n, G, D
<1>6. f = [S \in SUBSET (1..n) |->
             IF S = {} THEN base ELSE LET x == Max(S) IN Confirm(f[S \ {x}], s[x])]
  <2>1. IsFiniteSet(1..n) /\ 1..n \subseteq Int
    BY <1>0, FS_Interval
  <2>2. PICK g \in [SUBSET (1..n) -> D] : FoldsOn(g, SUBSET (1..n), base, G)
    BY <1>0, <1>3, <2>1, FoldExists
  <2>3. ASSUME NEW S \in SUBSET (1..n)
        PROVE  g[S] = IF S = {} THEN base ELSE LET x == Max(S) IN Confirm(g[S \ {x}], s[x])
    <3>1. S # {} => Max(S) \in 1..n
      BY <2>1, MaxIsMember
    <3> QED
      BY <1>4, <2>2, <3>1 DEF FoldsOn
  <2>4. g = [S \in SUBSET (1..n) |->
               IF S = {} THEN base ELSE LET x == Max(S) IN Confirm(g[S \ {x}], s[x])]
    <3>1. g = [S \in SUBSET (1..n) |-> g[S]]
      OBVIOUS
    <3> QED
      BY <2>3, <3>1
  <2> DEFINE IsFold(q) ==
               q = [S \in SUBSET (1..n) |->
                      IF S = {} THEN base
                      ELSE LET x == Max(S) IN Confirm(q[S \ {x}], s[x])]
  <2>5. f = CHOOSE q : IsFold(q)
    BY <1>0
  <2>6. IsFold(g)
    BY <2>4
  <2> HIDE DEF f, IsFold
  <2>7. IsFold(f)
    BY <2>5, <2>6
  <2> QED
    BY <2>7 DEF IsFold
<1> HIDE DEF f
<1>7. FoldsIn(f, D, n, base, G)
  <2>1. f[{}] = base
    BY <1>6
  <2> SUFFICES ASSUME NEW S \in SUBSET (1..n), S # {}, f[S \ {Max(S)}] \in D
               PROVE  f[S] = G[<<f[S \ {Max(S)}], Max(S)>>]
    BY <2>1 DEF FoldsIn
  <2>2. IsFiniteSet(1..n) /\ 1..n \subseteq Int
    BY <1>0, FS_Interval
  <2>3. Max(S) \in 1..n
    BY <2>2, MaxIsMember
  <2>4. f[S] = Confirm(f[S \ {Max(S)}], s[Max(S)])
    BY <1>6
  <2> QED
    BY <1>4, <2>3, <2>4
<1>8. EndsTrace(f, D, n, base, G)
  <2>1. StepOn(G, D, n)
    BY <1>3 DEF StepOn
  <2> QED
    BY <1>0, <1>7, <2>1, FoldTrace
<1> QED
  BY <1>1, <1>2, <1>8 DEF EndsTrace, Traced, n, G, D

\* What PoolAfter does with the transactions of the old branch.
BackFrom(base, view, tip, s) ==
  LET Back(p, t) == Resurrect(p, view, tip, t) IN FoldLeft(Back, base, s)

BackSteps(view, tip, s) ==
  [p \in GoodPools \X (1..Len(s)) |-> Resurrect(p[1], view, tip, s[p[2]])]

\* So are those of the old branch.
LEMMA BackTrace ==
  ASSUME NEW view, NEW tip, NEW s \in Seq(Txs), NEW base \in GoodPools
  PROVE  Traced(GoodPools, Len(s), base, BackSteps(view, tip, s), BackFrom(base, view, tip, s)) /\ Len(s) \in Nat
<1> DEFINE D == GoodPools
           n == Len(s)
           G == BackSteps(view, tip, s)
           f == CHOOSE f : f = [S \in SUBSET DOMAIN s |->
                                  IF S = {} THEN base
                                  ELSE LET x == Max(S) IN Resurrect(f[S \ {x}], view, tip, s[x])]
<1>1. n \in Nat /\ DOMAIN s = 1..n /\ \A i \in 1..n : s[i] \in Txs
  OBVIOUS
<1>2. BackFrom(base, view, tip, s) = f[1..n]
  BY <1>1 DEF BackFrom, FoldLeft, MapThenFoldSet
<1>3. G \in [D \X (1..n) -> D]
  <2>1. ASSUME NEW v \in GoodPools, NEW i \in 1..n
        PROVE  Resurrect(v, view, tip, s[i]) \in GoodPools
    <3>1. s[i] \in Txs
      BY <1>1
    <3> QED
      BY <3>1, ResurrectIs
  <2> HIDE DEF n
  <2> QED
    BY <2>1 DEF BackSteps, n
<1>4. \A v \in D, i \in 1..n : G[<<v, i>>] = Resurrect(v, view, tip, s[i])
  BY DEF BackSteps
<1>0. n \in Nat /\ DOMAIN s = 1..n /\ base \in D
  BY <1>1
<1> HIDE DEF n, G, D
<1>6. f = [S \in SUBSET (1..n) |->
             IF S = {} THEN base ELSE LET x == Max(S) IN Resurrect(f[S \ {x}], view, tip, s[x])]
  <2>1. IsFiniteSet(1..n) /\ 1..n \subseteq Int
    BY <1>0, FS_Interval
  <2>2. PICK g \in [SUBSET (1..n) -> D] : FoldsOn(g, SUBSET (1..n), base, G)
    BY <1>0, <1>3, <2>1, FoldExists
  <2>3. ASSUME NEW S \in SUBSET (1..n)
        PROVE  g[S] = IF S = {} THEN base ELSE LET x == Max(S) IN Resurrect(g[S \ {x}], view, tip, s[x])
    <3>1. S # {} => Max(S) \in 1..n
      BY <2>1, MaxIsMember
    <3> QED
      BY <1>4, <2>2, <3>1 DEF FoldsOn
  <2>4. g = [S \in SUBSET (1..n) |->
               IF S = {} THEN base ELSE LET x == Max(S) IN Resurrect(g[S \ {x}], view, tip, s[x])]
    <3>1. g = [S \in SUBSET (1..n) |-> g[S]]
      OBVIOUS
    <3> QED
      BY <2>3, <3>1
  <2> DEFINE IsFold(q) ==
               q = [S \in SUBSET (1..n) |->
                      IF S = {} THEN base
                      ELSE LET x == Max(S) IN Resurrect(q[S \ {x}], view, tip, s[x])]
  <2>5. f = CHOOSE q : IsFold(q)
    BY <1>0
  <2>6. IsFold(g)
    BY <2>4
  <2> HIDE DEF f, IsFold
  <2>7. IsFold(f)
    BY <2>5, <2>6
  <2> QED
    BY <2>7 DEF IsFold
<1> HIDE DEF f
<1>7. FoldsIn(f, D, n, base, G)
  <2>1. f[{}] = base
    BY <1>6
  <2> SUFFICES ASSUME NEW S \in SUBSET (1..n), S # {}, f[S \ {Max(S)}] \in D
               PROVE  f[S] = G[<<f[S \ {Max(S)}], Max(S)>>]
    BY <2>1 DEF FoldsIn
  <2>2. IsFiniteSet(1..n) /\ 1..n \subseteq Int
    BY <1>0, FS_Interval
  <2>3. Max(S) \in 1..n
    BY <2>2, MaxIsMember
  <2>4. f[S] = Resurrect(f[S \ {Max(S)}], view, tip, s[Max(S)])
    BY <1>6
  <2> QED
    BY <1>4, <2>3, <2>4
<1>8. EndsTrace(f, D, n, base, G)
  <2>1. StepOn(G, D, n)
    BY <1>3 DEF StepOn
  <2> QED
    BY <1>0, <1>7, <2>1, FoldTrace
<1> QED
  BY <1>1, <1>2, <1>8 DEF EndsTrace, Traced, n, G, D

-----------------------------------------------------------------------------
(* The transactions of a branch, one after the other *)

FlatSteps(seqs, S) == [p \in Seq(S) \X (1..Len(seqs)) |-> p[1] \o seqs[p[2]]]

\* FlattenSeq appends one sequence after the other.
LEMMA FlatTrace ==
  ASSUME NEW S, NEW seqs \in Seq(Seq(S))
  PROVE  /\ Traced(Seq(S), Len(seqs), <<>>, FlatSteps(seqs, S), FlattenSeq(seqs))
         /\ Len(seqs) \in Nat
<1> DEFINE D == Seq(S)
           n == Len(seqs)
           G == FlatSteps(seqs, S)
           IsFlat(h) == h = [i \in 1..n |-> IF i = 1 THEN seqs[i] ELSE h[i - 1] \o seqs[i]]
           flat == CHOOSE h : IsFlat(h)
<1>1. /\ n \in Nat /\ <<>> \in D /\ \A i \in 1..n : seqs[i] \in D
      /\ n = 0 => FlattenSeq(seqs) = <<>>
  BY DEF FlattenSeq
<1>2. n # 0 => FlattenSeq(seqs) = flat[n]
  BY DEF FlattenSeq
<1>3. \A v \in D, i \in 1..n : v \o seqs[i] \in D /\ G[<<v, i>>] = v \o seqs[i]
  <2> SUFFICES ASSUME NEW v \in D, NEW i \in 1..n
               PROVE  v \o seqs[i] \in D /\ G[<<v, i>>] = v \o seqs[i]
    OBVIOUS
  <2>1. v \o seqs[i] \in D
    <3> DEFINE w == seqs[i]
    <3>1. w \in Seq(S)
      BY <1>1
    <3> HIDE DEF w
    <3> QED
      BY <3>1 DEF w
  <2>2. G[<<v, i>>] = v \o seqs[i]
    BY DEF FlatSteps
  <2> QED
    BY <2>1, <2>2
<1>4. G \in [D \X (1..n) -> D]
  BY <1>3 DEF FlatSteps
<1> HIDE DEF D, n, G
<1>5. PICK g : Trace(g, D, n, <<>>, G)
  <2>1. IsFiniteSet(1..n) /\ 1..n \subseteq Int
    BY <1>1, FS_Interval
  <2>2. PICK f \in [SUBSET (1..n) -> D] : FoldsOn(f, SUBSET (1..n), <<>>, G)
    BY <1>1, <1>4, <2>1, FoldExists
  <2>3. FoldsIn(f, D, n, <<>>, G)
    BY <2>2 DEF FoldsOn, FoldsIn
  <2>4. StepOn(G, D, n)
    BY <1>4 DEF StepOn
  <2>5. EndsTrace(f, D, n, <<>>, G)
    BY <1>1, <2>3, <2>4, FoldTrace
  <2> QED
    BY <2>5 DEF EndsTrace
<1>6. ASSUME NEW i \in 1..n
      PROVE  g[i] = IF i = 1 THEN seqs[i] ELSE g[i - 1] \o seqs[i]
  <2>1. g[i - 1] \in D /\ g[i] = G[<<g[i - 1], i>>]
    <3>1. StepOf(g, D, G, i)
      BY <1>1, <1>5, TraceSteps
    <3> QED
      BY <3>1 DEF StepOf
  <2>2. g[i] = g[i - 1] \o seqs[i]
    BY <1>3, <2>1
  <2>3. CASE i = 1
    <3>1. g[0] = <<>> /\ i - 1 = 0
      BY <1>5, <2>3 DEF Trace
    <3>2. <<>> \o seqs[i] = seqs[i]
      BY <1>1 DEF D
    <3> QED
      BY <2>2, <2>3, <3>1, <3>2
  <2> QED
    BY <2>2, <2>3
<1>7. IsFlat(flat)
  <2> DEFINE e == [i \in 1..n |-> g[i]]
  <2>1. ASSUME NEW i \in 1..n PROVE e[i] = IF i = 1 THEN seqs[i] ELSE e[i - 1] \o seqs[i]
    <3>1. i # 1 => i - 1 \in 1..n
      BY <1>1
    <3> QED
      BY <1>6, <3>1
  <2>2. e = [i \in 1..n |-> IF i = 1 THEN seqs[i] ELSE e[i - 1] \o seqs[i]]
    <3>1. e = [i \in 1..n |-> e[i]]
      OBVIOUS
    <3> HIDE DEF e
    <3> QED
      BY <2>1, <3>1
  <2>3. IsFlat(e)
    <3> HIDE DEF e
    <3> QED
      BY <2>2
  <2> HIDE DEF e, IsFlat
  <2> QED
    BY <2>3
<1> HIDE DEF flat
<1>8. \A i \in 1..n : flat[i] = IF i = 1 THEN seqs[i] ELSE flat[i - 1] \o seqs[i]
  BY <1>7
<1> HIDE DEF IsFlat
<1> DEFINE A == {k \in 0..n : k # 0 => flat[k] = g[k]}
<1>9. n \in A
  <2>1. 0 \in A
    BY <1>1
  <2>2. ASSUME NEW k \in 1..n, k - 1 \in A PROVE k \in A
    <3>1. k # 1 => flat[k - 1] = g[k - 1]
      BY <1>1, <2>2
    <3>2. flat[k] = g[k]
      BY <1>6, <1>8, <3>1
    <3> QED
      BY <3>2
  <2> HIDE DEF A
  <2>3. \A k \in 0..n : k \in A
    BY <1>1, <2>1, <2>2, StepInduction
  <2> QED
    BY <1>1, <2>3
<1>10. FlattenSeq(seqs) = g[n]
  <2>1. n = 0 => g[n] = <<>>
    BY <1>5 DEF Trace
  <2> QED
    BY <1>1, <1>2, <1>9, <2>1
<1> QED
  BY <1>1, <1>5, <1>10 DEF Traced, D, n, G

\* t comes before the l-th transaction of the m-th block of path.
Ahead(path, t, m, l) ==
  \/ \E i \in 1..(m - 1) : t \in ToSet(Vtx[path[i]])
  \/ \E j \in 1..(l - 1) : t = Vtx[path[m]][j]

\* s holds transactions of the first n blocks of path, in order.
InOrder(path, s, n) ==
  \A k \in 1..Len(s) : \E m \in 1..n : \E l \in 1..Len(Vtx[path[m]]) :
    s[k] = Vtx[path[m]][l] /\ \A j \in 1..(k - 1) : Ahead(path, s[j], m, l)

\* It holds all of them.
Covers(path, s, n) ==
  \A m \in 1..n : \A t \in ToSet(Vtx[path[m]]) : \E k \in 1..Len(s) : t = s[k]

LEMMA LooseGrows ==
  ASSUME NEW path \in Seq(Blocks), NEW n \in 1..Len(path), NEW s \in Seq(Txs),
         InOrder(path, s, n - 1), Covers(path, s, n - 1)
  PROVE  /\ s \o Vtx[path[n]] \in Seq(Txs)
         /\ InOrder(path, s \o Vtx[path[n]], n) /\ Covers(path, s \o Vtx[path[n]], n)
<1> DEFINE w == Vtx[path[n]]
           q == s \o w
<1>1. path[n] \in Blocks /\ n \in Nat /\ n \in 1..n
  OBVIOUS
<1>2. /\ w \in Seq(Txs) /\ Len(w) \in Nat
      /\ \A t : t \in ToSet(w) <=> \E i \in 1..Len(w) : t = w[i]
  <2>1. w \in Seq(Txs)
    BY <1>1, BlockTxs
  <2> HIDE DEF w
  <2> QED
    BY <2>1, Members
<1>3. /\ q \in Seq(Txs) /\ Len(q) = Len(s) + Len(w) /\ Len(s) \in Nat /\ Len(q) \in Nat
      /\ \A k \in 1..Len(s) : q[k] = s[k] /\ k \in 1..Len(q)
      /\ \A i \in 1..Len(w) : q[Len(s) + i] = w[i] /\ Len(s) + i \in 1..Len(q)
  <2> HIDE DEF w
  <2>1. q \in Seq(Txs) /\ Len(q) = Len(s) + Len(w) /\ Len(s) \in Nat /\ Len(q) \in Nat
    BY <1>2
  <2>2. \A k \in 1..Len(s) : q[k] = s[k] /\ k \in 1..Len(q)
    BY <1>2, <2>1
  <2>3. \A i \in 1..Len(w) : q[Len(s) + i] = w[i] /\ Len(s) + i \in 1..Len(q)
    <3> SUFFICES ASSUME NEW i \in 1..Len(w) PROVE q[Len(s) + i] = w[i] /\ Len(s) + i \in 1..Len(q)
      OBVIOUS
    <3>1. Len(s) + i \in 1..(Len(s) + Len(w)) /\ Len(s) + i > Len(s)
      <4> DEFINE a == Len(s)
                 b == Len(w)
      <4>1. a \in Nat /\ b \in Nat /\ i \in 1..b
        BY <1>2, <2>1
      <4> HIDE DEF a, b
      <4>2. a + i \in 1..(a + b) /\ a + i > a
        BY <4>1
      <4> QED
        BY <4>2 DEF a, b
    <3>2. (Len(s) + i) - Len(s) = i
      <4> DEFINE a == Len(s)
      <4>1. a \in Nat
        BY <2>1
      <4> HIDE DEF a
      <4>2. (a + i) - a = i
        BY <4>1
      <4> QED
        BY <4>2 DEF a
    <3>3. q[Len(s) + i] = w[(Len(s) + i) - Len(s)]
      BY <1>2, <2>1, <3>1
    <3> QED
      BY <2>1, <3>1, <3>2, <3>3
  <2> QED
    BY <2>1, <2>2, <2>3
<1> HIDE DEF q
<1> DEFINE c == Len(s)
           e == Len(w)
<1>4. c \in Nat /\ e \in Nat /\ Len(q) = c + e
  BY <1>2, <1>3
<1>5. \A k \in 1..c : q[k] = s[k]
  BY <1>3
<1>6. \A i \in 1..e : q[c + i] = w[i]
  BY <1>3
<1> HIDE DEF c, e
<1>7. ASSUME NEW k \in 1..Len(q)
      PROVE  \E m \in 1..n : \E l \in 1..Len(Vtx[path[m]]) :
               q[k] = Vtx[path[m]][l] /\ \A j \in 1..(k - 1) : Ahead(path, q[j], m, l)
  <2>1. CASE k \in 1..c
    <3>1. PICK m \in 1..(n - 1) : \E l \in 1..Len(Vtx[path[m]]) :
            s[k] = Vtx[path[m]][l] /\ \A j \in 1..(k - 1) : Ahead(path, s[j], m, l)
      BY <2>1 DEF InOrder, c
    <3>2. PICK l \in 1..Len(Vtx[path[m]]) :
            s[k] = Vtx[path[m]][l] /\ \A j \in 1..(k - 1) : Ahead(path, s[j], m, l)
      BY <3>1
    <3>3. \A j \in 1..(k - 1) : q[j] = s[j]
      <4>1. \A j \in 1..(k - 1) : j \in 1..c
        BY <1>4, <2>1
      <4> QED
        BY <1>5, <4>1
    <3>4. m \in 1..n /\ q[k] = s[k]
      BY <1>1, <1>5, <2>1
    <3>5. \A j \in 1..(k - 1) : Ahead(path, q[j], m, l)
      BY <3>2, <3>3
    <3> QED
      BY <3>2, <3>4, <3>5
  <2>2. CASE k \notin 1..c
    <3> DEFINE l == k - c
    <3>1. l \in 1..e /\ k = c + l
      BY <1>4, <2>2
    <3>2. q[k] = w[l]
      BY <1>6, <3>1
    <3>3. ASSUME NEW j \in 1..(k - 1) PROVE Ahead(path, q[j], n, l)
      <4>1. CASE j \in 1..c
        <5>1. PICK m \in 1..(n - 1) : \E i \in 1..Len(Vtx[path[m]]) : s[j] = Vtx[path[m]][i]
          BY <4>1 DEF InOrder, c
        <5>2. path[m] \in Blocks
          BY <5>1
        <5>3. s[j] \in ToSet(Vtx[path[m]])
          BY <5>1, <5>2, BlockTxs
        <5> QED
          BY <1>5, <4>1, <5>3 DEF Ahead
      <4>2. CASE j \notin 1..c
        <5> DEFINE i == j - c
        <5>1. i \in 1..e /\ i \in 1..(l - 1) /\ j = c + i
          BY <1>4, <3>1, <4>2
        <5>2. q[j] = w[i]
          BY <1>6, <5>1
        <5> HIDE DEF l, i
        <5> QED
          BY <5>1, <5>2 DEF Ahead
      <4> QED
        BY <4>1, <4>2
    <3> HIDE DEF l
    <3>4. l \in 1..Len(w)
      BY <3>1 DEF e
    <3> QED
      BY <1>1, <3>2, <3>3, <3>4
  <2> QED
    BY <2>1, <2>2
<1>8. ASSUME NEW m \in 1..n, NEW t \in ToSet(Vtx[path[m]])
      PROVE  \E k \in 1..Len(q) : t = q[k]
  <2>1. CASE m = n
    <3>1. PICK i \in 1..Len(w) : t = w[i]
      BY <1>2, <2>1
    <3> QED
      BY <1>3, <3>1
  <2>2. CASE m # n
    <3>1. m \in 1..(n - 1)
      BY <2>2
    <3>2. PICK k \in 1..Len(s) : t = s[k]
      BY <3>1 DEF Covers
    <3> QED
      BY <1>3, <3>2
  <2> QED
    BY <2>1, <2>2
<1> QED
  BY <1>3, <1>7, <1>8 DEF InOrder, Covers, q

-----------------------------------------------------------------------------
(* What a reorganisation leaves of the coins *)

\* The output o is one the chain of b has left.
IsLeft(o, b) == o[2] \in Unspent[b][o[1]].out

\* The transactions of b's chain that are in blocks a's chain does not have.
Gained(a, b) == {t \in Txs : \E c \in Chain[b] \ Chain[a] : t \in ToSet(Vtx[c])}

\* An output that is no longer there was spent, or what made it was disconnected.
LEMMA LeftStays ==
  ASSUME NEW a \in Blocks, NEW b \in Blocks,
         NEW o, IsOutpoint(o), IsLeft(o, a)
  PROVE  \/ IsLeft(o, b)
         \/ \E y \in Gained(a, b) : o \in ToSet(Vin[y])
         \/ o[1] \in Gained(b, a) /\ o[2] \in Vout[o[1]]
         \/ o[1] \in Blocks /\ o[1] \notin Chain[b]
<1>1. PICK t \in TxIds, m \in Nat : o = <<t, m>>
  BY DEF IsOutpoint
<1>2. o[1] = t /\ o[2] = m
  BY <1>1
<1>3. MadeIn(t, m, a) /\ ~SpentInChain(o, a)
  <2>1. m \in Unspent[a][t].out
    BY <1>2 DEF IsLeft
  <2> QED
    BY <1>1, <2>1, UnspentIs
<1>4. CASE SpentInChain(o, b)
  <2>1. PICK c \in Chain[b] : \E y \in ToSet(Vtx[c]) : o \in ToSet(Vin[y])
    BY <1>4 DEF SpentInChain
  <2>2. PICK y \in ToSet(Vtx[c]) : o \in ToSet(Vin[y])
    BY <2>1
  <2>3. c \notin Chain[a]
    BY <1>3, <2>2 DEF SpentInChain
  <2>4. y \in Txs
    BY <2>2, Ancestors, BlockTxs
  <2>5. y \in Gained(a, b)
    BY <2>3, <2>4 DEF Gained
  <2> QED
    BY <2>2, <2>5
<1>5. CASE ~SpentInChain(o, b)
  <2>1. MadeIn(t, m, b) => IsLeft(o, b)
    <3>1. MadeIn(t, m, b) => m \in Unspent[b][t].out
      BY <1>1, <1>5, UnspentIs
    <3> QED
      BY <1>2, <3>1 DEF IsLeft
  <2>2. CASE t \in BaseTxs /\ m \in BaseCoins[t].out
    BY <2>1, <2>2 DEF MadeIn
  <2>3. CASE InChain(t, a) /\ m \in Vout[t] /\ t \in Blocks
    <3>1. t \in Chain[a] \ {Base}
      BY <2>3 DEF InChain
    <3>2. t \in Chain[b] => InChain(t, b)
      BY <2>3, <3>1 DEF InChain
    <3>3. t \in Chain[b] => IsLeft(o, b)
      BY <2>1, <2>3, <3>2 DEF MadeIn
    <3> QED
      BY <1>2, <2>3, <3>3
  <2>4. CASE InChain(t, a) /\ m \in Vout[t] /\ t \notin Blocks
    <3>1. PICK c \in Chain[a] : t \in ToSet(Vtx[c])
      BY <2>4 DEF InChain
    <3>2. t \in Txs
      BY <3>1, Ancestors, BlockTxs
    <3>3. CASE c \in Chain[b]
      <4>1. InChain(t, b)
        BY <2>4, <3>1, <3>3 DEF InChain
      <4> QED
        BY <2>1, <2>4, <4>1 DEF MadeIn
    <3>4. CASE c \notin Chain[b]
      <4>1. t \in Gained(b, a)
        BY <3>1, <3>2, <3>4 DEF Gained
      <4> QED
        BY <1>2, <2>4, <4>1
    <3> QED
      BY <3>3, <3>4
  <2> QED
    BY <1>3, <2>2, <2>3, <2>4 DEF MadeIn
<1> QED
  BY <1>4, <1>5

\* What comes before, on a valid chain, is in an earlier block or earlier in the same.
LEMMA PlaceOrder ==
  ASSUME NEW b \in Blocks, ValidChain[b],
         NEW c \in Chain[b] \ {Base}, NEW d \in Chain[b] \ {Base},
         NEW i \in 1..Len(Vtx[c]), NEW j \in 1..Len(Vtx[d]), Vtx[c][i] \in Before(d, j)
  PROVE  nHeight[c] < nHeight[d] \/ (c = d /\ i < j)
<1> DEFINE t == Vtx[c][i]
<1>1. c \in Blocks /\ d \in Blocks
  BY Ancestors
<1>2. /\ Len(Vtx[c]) \in Nat /\ Len(Vtx[d]) \in Nat /\ DOMAIN Vtx[c] = 1..Len(Vtx[c])
      /\ t \in Txs /\ t \in ToSet(Vtx[c])
      /\ \A k \in 1..Len(Vtx[d]) : Vtx[d][k] \in ToSet(Vtx[d])
  BY <1>1, BlockTxs
<1>3. i \in 1..(Len(Vtx[c]) + 1) /\ j \in 1..(Len(Vtx[d]) + 1)
  <2> DEFINE m == Len(Vtx[c])
             n == Len(Vtx[d])
  <2>1. m \in Nat /\ n \in Nat /\ i \in 1..m /\ j \in 1..n
    BY <1>2
  <2> HIDE DEF m, n
  <2>2. i \in 1..(m + 1) /\ j \in 1..(n + 1)
    BY <2>1
  <2> QED
    BY <2>2 DEF m, n
<1>7. t \in Before(d, j)
  OBVIOUS
<1> HIDE DEF t
<1>4. InChain(t, Parent[d]) \/ \E k \in 1..(j - 1) : Vtx[d][k] = t
  <2>1. d \in Blocks \ {Base}
    BY <1>1
  <2> QED
    BY <1>3, <1>7, <2>1, BeforeIs
<1>5. CASE InChain(t, Parent[d])
  <2>1. /\ Parent[d] \in Blocks /\ Chain[d] = Chain[Parent[d]] \cup {d}
        /\ d \notin Chain[Parent[d]]
    BY <1>1, ChainGrows
  <2>2. t \in TxIds
    BY <1>2, NamesApart
  <2>3. PICK e \in Chain[Parent[d]] : t \in ToSet(Vtx[e])
    BY <1>2, <1>5, <2>1, <2>2, BaseIsApart
  <2>4. e \in Chain[d] /\ e # d
    BY <2>1, <2>3
  <2>5. e \in Chain[b]
    BY <2>4, Ancestors
  <2>6. e = c
    BY <1>2, <2>3, <2>5, OnceInChain
  <2> QED
    BY <1>1, <2>4, <2>6, Ancestors
<1>6. CASE \E k \in 1..(j - 1) : Vtx[d][k] = t
  <2>1. PICK k \in 1..(j - 1) : Vtx[d][k] = t
    BY <1>6
  <2>2. k \in 1..Len(Vtx[d])
    BY <1>2, <2>1
  <2>3. t \in ToSet(Vtx[d])
    BY <1>2, <2>1, <2>2
  <2>4. c = d
    BY <1>2, <2>3, OnceInChain
  <2>5. i < j
    <3> SUFFICES ASSUME ~(i < j) PROVE FALSE
      BY <2>4
    <3>1. k \in 1..(i - 1)
      BY <1>2, <2>1
    <3>2. t \in Before(c, i)
      BY <1>1, <1>2, <1>3, <2>1, <2>4, <3>1, BeforeIs
    <3>3. ValidTx(c, i)
      BY <1>2 DEF ValidChain
    <3> QED
      BY <3>2, <3>3 DEF ValidTx, t
  <2> QED
    BY <2>4, <2>5
<1> QED
  BY <1>4, <1>5, <1>6

\* On a valid chain a transaction that is no coinbase is spent after it was made.
LEMMA SpendsEarlier ==
  ASSUME NEW b \in Blocks, ValidChain[b],
         NEW d \in Chain[b] \ {Base}, NEW j \in 1..Len(Vtx[d]),
         NEW o \in ToSet(Vin[Vtx[d][j]]), o[1] \in Txs
  PROVE  o[1] \in Before(d, j) /\ Vtx[d][j] \notin Before(d, j)
<1>1. d \in Blocks
  BY Ancestors
<1>2. DOMAIN Vtx[d] = 1..Len(Vtx[d])
  BY <1>1, BlockTxs
<1>3. ValidTx(d, j)
  BY <1>2 DEF ValidChain
<1>4. /\ Vtx[d][j] \notin Before(d, j)
      /\ \/ o[1] \in Before(d, j)
         \/ o[1] \in BaseTxs
         \/ o[1] \in Chain[Parent[d]]
  BY <1>3 DEF ValidTx
<1>5. o[1] \notin BaseTxs /\ o[1] \notin Blocks
  BY CoinsAssumption
<1>6. Parent[d] \in Blocks
  BY <1>1, ChainGrows
<1>7. o[1] \notin Chain[Parent[d]]
  BY <1>5, <1>6, Ancestors
<1> QED
  BY <1>4, <1>5, <1>7

\* An output of a transaction that is gained is left, unless another one that is spends it.
LEMMA GainedIsLeft ==
  ASSUME NEW a \in Blocks, NEW b \in Blocks, ValidChain[b],
         NEW o, IsOutpoint(o), o[1] \in Gained(a, b), o[2] \in Vout[o[1]]
  PROVE  IsLeft(o, b) \/ \E y \in Gained(a, b) : o \in ToSet(Vin[y])
<1>1. PICK w \in TxIds, m \in Nat : o = <<w, m>>
  BY DEF IsOutpoint
<1>2. o[1] = w /\ o[2] = m
  BY <1>1
<1>3. w \in Txs /\ w \notin Blocks /\ m \in Vout[w]
  BY <1>2, CoinsAssumption DEF Gained
<1>4. PICK c \in Chain[b] \ Chain[a] : w \in ToSet(Vtx[c])
  BY <1>2 DEF Gained
<1>5. MadeIn(w, m, b)
  BY <1>3, <1>4 DEF MadeIn, InChain
<1>6. CASE ~SpentInChain(o, b)
  <2>1. m \in Unspent[b][w].out
    BY <1>1, <1>5, <1>6, UnspentIs
  <2> QED
    BY <1>2, <2>1 DEF IsLeft
<1>7. CASE SpentInChain(o, b)
  <2>1. PICK d \in Chain[b] : \E y \in ToSet(Vtx[d]) : o \in ToSet(Vin[y])
    BY <1>7 DEF SpentInChain
  <2>2. PICK y \in ToSet(Vtx[d]) : o \in ToSet(Vin[y])
    BY <2>1
  <2>3. c \in Blocks /\ d \in Blocks /\ Base \in Chain[a]
    BY <1>4, <2>1, Ancestors
  <2>4. d # Base /\ c # Base
    BY <1>4, <2>2, <2>3, BlockTxs
  <2> DEFINE Has(e) == \A x \in ToSet(Vtx[e]) : \E j \in 1..Len(Vtx[e]) : x = Vtx[e][j]
  <2>11. \A e \in Blocks : Has(e)
    BY BlockTxs
  <2>5. PICK j \in 1..Len(Vtx[d]) : y = Vtx[d][j]
    BY <2>2, <2>3, <2>11, Zenon
  <2>6. PICK i \in 1..Len(Vtx[c]) : w = Vtx[c][i]
    BY <1>4, <2>3, <2>11, Zenon
  <2>7. w \in Before(d, j)
    BY <1>2, <1>3, <2>1, <2>2, <2>4, <2>5, SpendsEarlier
  <2>8. nHeight[c] < nHeight[d] \/ c = d
    BY <1>4, <2>1, <2>4, <2>5, <2>6, <2>7, PlaceOrder
  <2>9. d \notin Chain[a]
    <3> SUFFICES ASSUME d \in Chain[a] PROVE FALSE
      OBVIOUS
    <3>1. nHeight[c] \in Nat /\ nHeight[d] \in Nat
      BY <2>3, Heights
    <3>2. nHeight[c] <= nHeight[d]
      BY <2>8, <3>1
    <3>3. c \in Chain[d]
      BY <1>4, <2>1, <3>2, ChainOrder
    <3> QED
      BY <1>4, <3>3, Ancestors
  <2>10. y \in Gained(a, b)
    BY <2>1, <2>2, <2>3, <2>9, BlockTxs DEF Gained
  <2> QED
    BY <2>2, <2>10
<1> QED
  BY <1>6, <1>7
=============================================================================
