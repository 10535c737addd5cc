------------------------------ MODULE SumLemmas ------------------------------
(***************************************************************************)
(* Facts about sums over finite sets (SumFunctionOnSet), which the models  *)
(* use for the shares of a round, for what a user was credited and for the *)
(* balances behind a candidate.  The fold they are defined by takes the    *)
(* indices in an order CHOOSE picks; the lemmas say that it does not       *)
(* matter.  Induction is over a set of the subsets with the property,      *)
(* since the least member of a non-empty set of naturals needs no operator *)
(* as a parameter.                                                         *)
(***************************************************************************)
EXTENDS Functions, FiniteSetsExt, FiniteSetTheorems, WellFoundedInduction, TLAPS

-----------------------------------------------------------------------------
(* Induction *)

\* Induction over the natural numbers, for a set instead of a predicate.
LEMMA NatSetInduction ==
  ASSUME NEW S, 0 \in S, \A n \in Nat : n \in S => n + 1 \in S
  PROVE  \A n \in Nat : n \in S
<1>1. SUFFICES ASSUME Nat \ S # {}
               PROVE  FALSE
  OBVIOUS
<1>2. Nat \ S \subseteq Nat
  OBVIOUS
<1>3. PICK x \in Nat \ S : \A y \in Nat \ S : ~ (<<y, x>> \in OpToRel(<, Nat))
  BY <1>1, <1>2, NatLessThanWellFounded, WFMin
<1>4. x \in Nat /\ x \notin S
  OBVIOUS
<1>5. \A y \in Nat : y < x => y \in S
  BY <1>3, <1>4 DEF OpToRel
<1>6. x # 0
  BY <1>4
<1>7. PICK m \in Nat : x = m + 1
  <2>1. x - 1 \in Nat /\ x = (x - 1) + 1
    BY <1>4, <1>6
  <2> QED
    BY <2>1
<1>8. m < x
  BY <1>7
<1> QED
  BY <1>4, <1>5, <1>7, <1>8

\* The subsets of a finite set are finite, and smaller when something is missing.
LEMMA SubsetSize ==
  ASSUME NEW T, IsFiniteSet(T)
  PROVE  /\ \A S \in SUBSET T : IsFiniteSet(S) /\ Cardinality(S) \in Nat
         /\ \A S \in SUBSET T : \A x \in S : Cardinality(S \ {x}) = Cardinality(S) - 1
         /\ \A S \in SUBSET T : Cardinality(S) = 0 <=> S = {}
<1>1. \A S \in SUBSET T : IsFiniteSet(S) /\ Cardinality(S) \in Nat
  BY FS_Subset, FS_CardinalityType
<1>2. ASSUME NEW S \in SUBSET T, NEW x \in S
      PROVE  Cardinality(S \ {x}) = Cardinality(S) - 1
  BY <1>1, FS_RemoveElement
<1>3. \A S \in SUBSET T : Cardinality(S) = 0 <=> S = {}
  BY <1>1, FS_EmptySet
<1> QED
  BY <1>1, <1>2, <1>3

\* Induction over the subsets of a finite set: what holds of a set when it holds of every
\* set with an element less holds of all.
LEMMA SubsetInduction ==
  ASSUME NEW T, IsFiniteSet(T), NEW P,
         \A S \in SUBSET T : (\A x \in S : S \ {x} \in P) => S \in P
  PROVE  \A S \in SUBSET T : S \in P
<1> DEFINE N == {n \in Nat : \A S \in SUBSET T : Cardinality(S) = n => S \in P}
<1>1. 0 \in N
  BY SubsetSize
<1>2. ASSUME NEW n \in Nat, n \in N
      PROVE  n + 1 \in N
  <2> SUFFICES ASSUME NEW S \in SUBSET T, Cardinality(S) = n + 1
               PROVE  S \in P
    OBVIOUS
  <2>1. ASSUME NEW x \in S
        PROVE  S \ {x} \in P
    <3>1. Cardinality(S \ {x}) = n
      BY SubsetSize
    <3> QED
      BY <1>2, <3>1
  <2> QED
    BY <2>1
<1> HIDE DEF N
<1>3. \A n \in Nat : n \in N
  BY <1>1, <1>2, NatSetInduction
<1> QED
  BY <1>3, SubsetSize DEF N

\* The same, with the empty set apart.
LEMMA RemoveInduction ==
  ASSUME NEW T, IsFiniteSet(T), NEW P, {} \in P,
         \A S \in SUBSET T : \A x \in S : IsFiniteSet(S) /\ S \ {x} \in P => S \in P
  PROVE  \A S \in SUBSET T : S \in P
<1>1. \A S \in SUBSET T : IsFiniteSet(S)
  BY SubsetSize
<1>2. \A S \in SUBSET T : (\A x \in S : S \ {x} \in P) => S \in P
  BY <1>1
<1> QED
  BY <1>2, SubsetInduction

-----------------------------------------------------------------------------
(* Sums of the values of a function *)

\* g sums f over the members of D, sets of indices, an index at a time, as the fold behind
\* SumFunctionOnSet does.
SumsFor(f, D, g) ==
  g = [s \in D |-> IF s = {} THEN 0
                   ELSE LET x == CHOOSE x \in s : TRUE
                        IN f[x] + g[s \ {x}]]

\* The subsets of T of at most n elements.
Upto(T, n) == {s \in SUBSET T : Cardinality(s) <= n}

\* One more element: sums for the subsets of n elements give those for n + 1.
LEMMA OneElementMore ==
  ASSUME NEW f, NEW T, IsFiniteSet(T), NEW n \in Nat, NEW g, SumsFor(f, Upto(T, n), g)
  PROVE  \E h : SumsFor(f, Upto(T, n + 1), h)
<1> DEFINE h == [s \in Upto(T, n + 1) |-> IF s = {} THEN 0
                                          ELSE LET x == CHOOSE x \in s : TRUE
                                               IN f[x] + g[s \ {x}]]
<1>1. ASSUME NEW s \in Upto(T, n)
      PROVE  h[s] = g[s]
  <2>1. s \in Upto(T, n + 1)
    BY SubsetSize DEF Upto
  <2>2. g[s] = IF s = {} THEN 0 ELSE LET x == CHOOSE x \in s : TRUE IN f[x] + g[s \ {x}]
    BY DEF SumsFor
  <2> QED
    BY <2>1, <2>2
<1>2. ASSUME NEW s \in Upto(T, n + 1), s # {}
      PROVE  h[s \ {CHOOSE x \in s : TRUE}] = g[s \ {CHOOSE x \in s : TRUE}]
  <2>1. PICK c \in s : c = CHOOSE x \in s : TRUE
    BY <1>2
  <2>2. Cardinality(s \ {c}) = Cardinality(s) - 1
    BY SubsetSize DEF Upto
  <2>3. Cardinality(s) \in Nat /\ Cardinality(s) <= n + 1
    BY SubsetSize DEF Upto
  <2>4. Cardinality(s \ {c}) <= n
    BY <2>2, <2>3
  <2>5. s \ {c} \in Upto(T, n)
    BY <2>4 DEF Upto
  <2> QED
    BY <2>1, <2>5, <1>1
<1>3. h = [s \in Upto(T, n + 1) |-> IF s = {} THEN 0
                                    ELSE LET x == CHOOSE x \in s : TRUE
                                         IN f[x] + h[s \ {x}]]
  <2>1. ASSUME NEW s \in Upto(T, n + 1)
        PROVE  h[s] = IF s = {} THEN 0
                      ELSE LET x == CHOOSE x \in s : TRUE
                           IN f[x] + h[s \ {x}]
    <3>1. h[s] = IF s = {} THEN 0
                 ELSE LET x == CHOOSE x \in s : TRUE
                      IN f[x] + g[s \ {x}]
      OBVIOUS
    <3> HIDE DEF h
    <3> QED
      BY <3>1, <1>2
  <2>2. h = [s \in Upto(T, n + 1) |-> h[s]]
    OBVIOUS
  <2> HIDE DEF h
  <2> QED
    BY <2>1, <2>2
<1> HIDE DEF h
<1> QED
  BY <1>3, ZenonT(30) DEF SumsFor

\* There are sums over all subsets of a finite set, so that the function the fold chooses
\* is one.
LEMMA SumsExist ==
  ASSUME NEW f, NEW T, IsFiniteSet(T)
  PROVE  \E g : SumsFor(f, SUBSET T, g)
<1> DEFINE N == {n \in Nat : \E g : SumsFor(f, Upto(T, n), g)}
<1>1. 0 \in N
  <2>1. \A s \in Upto(T, 0) : s = {}
    BY SubsetSize DEF Upto
  <2>2. SumsFor(f, Upto(T, 0), [s \in Upto(T, 0) |-> 0])
    BY <2>1 DEF SumsFor
  <2> QED
    BY <2>2
<1>2. ASSUME NEW n \in Nat, n \in N
      PROVE  n + 1 \in N
  <2>1. n + 1 \in Nat
    OBVIOUS
  <2>2. PICK g : SumsFor(f, Upto(T, n), g)
    BY <1>2
  <2>3. \E h : SumsFor(f, Upto(T, n + 1), h)
    BY <2>2, OneElementMore
  <2> QED
    BY <2>1, <2>3
<1> HIDE DEF N
<1>3. Cardinality(T) \in Nat
  BY FS_CardinalityType
<1>4. Cardinality(T) \in N
  BY <1>1, <1>2, <1>3, NatSetInduction
<1>5. \A s \in SUBSET T : Cardinality(s) <= Cardinality(T)
  BY FS_Subset
<1>6. Upto(T, Cardinality(T)) = SUBSET T
  BY <1>5 DEF Upto
<1> QED
  BY <1>4, <1>6 DEF N

\* The sums over the subsets of a set are those over the subsets of a larger one.
LEMMA SumsAgree ==
  ASSUME NEW f, NEW T, IsFiniteSet(T), NEW S, S \subseteq T,
         NEW g, SumsFor(f, SUBSET T, g), NEW h, SumsFor(f, SUBSET S, h)
  PROVE  h[S] = g[S]
<1> DEFINE P == {s \in SUBSET S : h[s] = g[s]}
<1>1. ASSUME NEW s \in SUBSET S, \A x \in s : s \ {x} \in P
      PROVE  s \in P
  <2>1. CASE s = {}
    BY <2>1 DEF SumsFor
  <2>2. CASE s # {}
    <3>1. PICK c \in s : c = CHOOSE x \in s : TRUE
      BY <2>2
    <3>2. g[s] = f[c] + g[s \ {c}]
      BY <2>2, <3>1 DEF SumsFor
    <3>3. h[s] = f[c] + h[s \ {c}]
      BY <2>2, <3>1 DEF SumsFor
    <3> QED
      BY <1>1, <3>2, <3>3
  <2> QED
    BY <2>1, <2>2
<1>2. IsFiniteSet(S)
  BY FS_Subset
<1> HIDE DEF P
<1>3. \A s \in SUBSET S : s \in P
  BY <1>1, <1>2, SubsetInduction
<1> QED
  BY <1>3 DEF P

\* SumFunctionOnSet is what any such function gives.
LEMMA SumsAreTheSum ==
  ASSUME NEW f, NEW T, IsFiniteSet(T), NEW g, SumsFor(f, SUBSET T, g),
         NEW S \in SUBSET T
  PROVE  SumFunctionOnSet(f, S) = g[S]
<1> DEFINE h == CHOOSE h : SumsFor(f, SUBSET S, h)
<1>1. SumFunctionOnSet(f, S) = h[S]
  BY DEF SumFunctionOnSet, FoldFunctionOnSet, MapThenFoldSet, SumsFor
<1>2. IsFiniteSet(S)
  BY FS_Subset
<1>3. SumsFor(f, SUBSET S, h)
  BY <1>2, SumsExist
<1> HIDE DEF h
<1>4. ASSUME NEW k, SumsFor(f, SUBSET S, k)
      PROVE  k[S] = g[S]
  <2>1. S \subseteq T
    OBVIOUS
  <2> QED
    BY <1>4, <2>1, SumsAgree, ZenonT(30)
<1> QED
  BY <1>1, <1>3, <1>4

\* The sum over no index is 0, that over others takes the value of one of them, here the one
\* the fold chooses.
LEMMA SumOfChosen ==
  ASSUME NEW f, NEW T, IsFiniteSet(T)
  PROVE  /\ SumFunctionOnSet(f, {}) = 0
         /\ \A S \in SUBSET T : S # {} =>
              \E c \in S : SumFunctionOnSet(f, S) = f[c] + SumFunctionOnSet(f, S \ {c})
<1>1. PICK g : SumsFor(f, SUBSET T, g)
  BY SumsExist
<1>2. \A S \in SUBSET T : SumFunctionOnSet(f, S) = g[S]
  BY <1>1, SumsAreTheSum
<1>3. g[{}] = 0
  BY <1>1 DEF SumsFor
<1>4. ASSUME NEW S \in SUBSET T, S # {}
      PROVE  \E c \in S : SumFunctionOnSet(f, S) = f[c] + SumFunctionOnSet(f, S \ {c})
  <2>1. PICK c \in S : c = CHOOSE x \in S : TRUE
    BY <1>4
  <2>2. g[S] = f[c] + g[S \ {c}]
    BY <1>1, <1>4, <2>1 DEF SumsFor
  <2> QED
    BY <1>2, <2>2
<1> QED
  BY <1>2, <1>3, <1>4

\* A sum of integers is an integer.
LEMMA SumIsInteger ==
  ASSUME NEW T, IsFiniteSet(T), NEW f, \A x \in T : f[x] \in Int
  PROVE  \A S \in SUBSET T : SumFunctionOnSet(f, S) \in Int
<1> DEFINE P == {S \in SUBSET T : SumFunctionOnSet(f, S) \in Int}
<1>1. ASSUME NEW S \in SUBSET T, \A x \in S : S \ {x} \in P
      PROVE  S \in P
  <2>1. CASE S = {}
    <3>1. SumFunctionOnSet(f, {}) = 0
      BY SumOfChosen
    <3> QED
      BY <2>1, <3>1
  <2>2. CASE S # {}
    <3>1. PICK c \in S : SumFunctionOnSet(f, S) = f[c] + SumFunctionOnSet(f, S \ {c})
      BY <2>2, SumOfChosen
    <3>2. SumFunctionOnSet(f, S \ {c}) \in Int /\ f[c] \in Int
      BY <1>1
    <3> QED
      BY <3>1, <3>2
  <2> QED
    BY <2>1, <2>2
<1> HIDE DEF P
<1>2. \A S \in SUBSET T : S \in P
  BY <1>1, SubsetInduction
<1> QED
  BY <1>2 DEF P

\* Any index can be taken out of a sum first.
LEMMA SumRemove ==
  ASSUME NEW T, IsFiniteSet(T), NEW f, \A x \in T : f[x] \in Int
  PROVE  \A S : S \subseteq T => \A x \in S :
           SumFunctionOnSet(f, S) = f[x] + SumFunctionOnSet(f, S \ {x})
<1> DEFINE P == {S \in SUBSET T : \A x \in S :
                   SumFunctionOnSet(f, S) = f[x] + SumFunctionOnSet(f, S \ {x})}
<1>1. ASSUME NEW S \in SUBSET T, \A x \in S : S \ {x} \in P
      PROVE  S \in P
  <2> SUFFICES ASSUME NEW x \in S
               PROVE  SumFunctionOnSet(f, S) = f[x] + SumFunctionOnSet(f, S \ {x})
    OBVIOUS
  <2>1. PICK c \in S : SumFunctionOnSet(f, S) = f[c] + SumFunctionOnSet(f, S \ {c})
    BY SumOfChosen
  <2>2. CASE c = x
    BY <2>1, <2>2
  <2>3. CASE c # x
    <3>1. SumFunctionOnSet(f, S \ {c}) = f[x] + SumFunctionOnSet(f, (S \ {c}) \ {x})
      BY <1>1, <2>3
    <3>2. SumFunctionOnSet(f, S \ {x}) = f[c] + SumFunctionOnSet(f, (S \ {x}) \ {c})
      BY <1>1, <2>3
    <3>3. (S \ {c}) \ {x} = (S \ {x}) \ {c}
      OBVIOUS
    <3>4. SumFunctionOnSet(f, (S \ {x}) \ {c}) \in Int
      BY SumIsInteger
    <3>5. f[x] \in Int /\ f[c] \in Int
      OBVIOUS
    <3> DEFINE rest == SumFunctionOnSet(f, (S \ {x}) \ {c})
    <3>6. SumFunctionOnSet(f, S) = f[c] + (f[x] + rest)
      BY <2>1, <3>1, <3>3
    <3>7. rest \in Int
      BY <3>4
    <3> HIDE DEF rest
    <3>8. SumFunctionOnSet(f, S) = f[x] + (f[c] + rest)
      BY <3>5, <3>6, <3>7
    <3> QED
      BY <3>2, <3>8 DEF rest
  <2> QED
    BY <2>2, <2>3
<1> HIDE DEF P
<1>2. \A S \in SUBSET T : S \in P
  BY <1>1, SubsetInduction
<1> QED
  BY <1>2 DEF P

\* The sum over no index.
LEMMA SumEmpty ==
  ASSUME NEW f
  PROVE  SumFunctionOnSet(f, {}) = 0
BY SumOfChosen, FS_EmptySet

\* A sum of integers over all indices is an integer.
LEMMA SumInt ==
  ASSUME NEW S, IsFiniteSet(S), NEW f, \A x \in S : f[x] \in Int
  PROVE  SumFunctionOnSet(f, S) \in Int
BY SumIsInteger

\* An index taken out of a sum, with what is needed to go on.
LEMMA SumTakeOut ==
  ASSUME NEW S, IsFiniteSet(S), NEW f, \A x \in S : f[x] \in Int, NEW x \in S
  PROVE  /\ SumFunctionOnSet(f, S) = f[x] + SumFunctionOnSet(f, S \ {x})
         /\ SumFunctionOnSet(f, S \ {x}) \in Int
         /\ IsFiniteSet(S \ {x})
<1>1. IsFiniteSet(S \ {x})
  BY FS_RemoveElement
<1>2. SumFunctionOnSet(f, S \ {x}) \in Int
  BY <1>1, SumInt
<1>3. S \subseteq S
  OBVIOUS
<1>4. SumFunctionOnSet(f, S) = f[x] + SumFunctionOnSet(f, S \ {x})
  BY <1>3, SumRemove
<1> QED
  BY <1>1, <1>2, <1>4

\* The sum of sums, of which equal functions, orders and zeros are cases.
LEMMA SumPlus ==
  ASSUME NEW S, IsFiniteSet(S), NEW f, NEW g, NEW h,
         \A x \in S : f[x] \in Int /\ g[x] \in Int /\ h[x] = f[x] + g[x]
  PROVE  SumFunctionOnSet(h, S) = SumFunctionOnSet(f, S) + SumFunctionOnSet(g, S)
<1> DEFINE P == {s \in SUBSET S : SumFunctionOnSet(h, s) = SumFunctionOnSet(f, s) + SumFunctionOnSet(g, s)}
<1>1. \A x \in S : h[x] \in Int
  OBVIOUS
<1>2. {} \in P
  BY SumEmpty
<1>3. ASSUME NEW s \in SUBSET S, IsFiniteSet(s), NEW x \in s, s \ {x} \in P
      PROVE  s \in P
  <2>a. \A y \in s : f[y] \in Int /\ g[y] \in Int /\ h[y] \in Int
    BY <1>1
  <2>1. /\ SumFunctionOnSet(f, s) = f[x] + SumFunctionOnSet(f, s \ {x})
        /\ SumFunctionOnSet(f, s \ {x}) \in Int
    BY <1>3, <2>a, SumTakeOut
  <2>2. /\ SumFunctionOnSet(g, s) = g[x] + SumFunctionOnSet(g, s \ {x})
        /\ SumFunctionOnSet(g, s \ {x}) \in Int
    BY <1>3, <2>a, SumTakeOut
  <2>3. SumFunctionOnSet(h, s) = h[x] + SumFunctionOnSet(h, s \ {x})
    BY <1>3, <2>a, SumTakeOut
  <2>4. SumFunctionOnSet(h, s \ {x}) = SumFunctionOnSet(f, s \ {x}) + SumFunctionOnSet(g, s \ {x})
    BY <1>3
  <2>5. f[x] \in Int /\ g[x] \in Int /\ h[x] = f[x] + g[x]
    OBVIOUS
  <2> QED
    BY <2>1, <2>2, <2>3, <2>4, <2>5
<1> HIDE DEF P
<1>4. \A s \in SUBSET S : s \in P
  BY <1>2, <1>3, RemoveInduction
<1> QED
  BY <1>4 DEF P

\* A sum of naturals is a natural, and 0 only where every value is.
LEMMA SumOfNat ==
  ASSUME NEW S, IsFiniteSet(S), NEW f, \A x \in S : f[x] \in Nat
  PROVE  /\ SumFunctionOnSet(f, S) \in Nat
         /\ \A x \in S : f[x] <= SumFunctionOnSet(f, S)
         /\ (\A x \in S : f[x] = 0) => SumFunctionOnSet(f, S) = 0
<1> DEFINE P == {s \in SUBSET S : /\ SumFunctionOnSet(f, s) \in Nat
                                  /\ (\A x \in s : f[x] = 0) => SumFunctionOnSet(f, s) = 0}
<1>1. \A x \in S : f[x] \in Int
  OBVIOUS
<1>2. {} \in P
  BY SumEmpty
<1>3. ASSUME NEW s \in SUBSET S, IsFiniteSet(s), NEW x \in s, s \ {x} \in P
      PROVE  s \in P
  <2>a. \A y \in s : f[y] \in Int
    BY <1>1
  <2>1. SumFunctionOnSet(f, s) = f[x] + SumFunctionOnSet(f, s \ {x})
    BY <1>3, <2>a, SumTakeOut
  <2>2. f[x] \in Nat
    OBVIOUS
  <2> QED
    BY <1>3, <2>1, <2>2
<1> HIDE DEF P
<1>4. \A s \in SUBSET S : s \in P
  BY <1>2, <1>3, RemoveInduction
<1>5. \A s \in SUBSET S : SumFunctionOnSet(f, s) \in Nat
  BY <1>4 DEF P
<1>6. SumFunctionOnSet(f, S) \in Nat /\ ((\A x \in S : f[x] = 0) => SumFunctionOnSet(f, S) = 0)
  BY <1>4 DEF P
<1>7. ASSUME NEW x \in S
      PROVE  f[x] <= SumFunctionOnSet(f, S)
  <2>1. SumFunctionOnSet(f, S) = f[x] + SumFunctionOnSet(f, S \ {x})
    BY <1>1, SumTakeOut
  <2>2. SumFunctionOnSet(f, S \ {x}) \in Nat /\ f[x] \in Nat
    BY <1>5
  <2> QED
    BY <2>1, <2>2
<1> QED
  BY <1>6, <1>7

\* Functions that agree on the indices have the same sum.
LEMMA SumSame ==
  ASSUME NEW S, IsFiniteSet(S), NEW f, NEW h, \A x \in S : f[x] \in Int /\ h[x] = f[x]
  PROVE  SumFunctionOnSet(h, S) = SumFunctionOnSet(f, S)
<1> DEFINE zero == [x \in S |-> 0]
<1>1. \A x \in S : zero[x] \in Nat /\ zero[x] \in Int /\ zero[x] = 0 /\ h[x] = f[x] + zero[x]
  OBVIOUS
<1> HIDE DEF zero
<1>2. SumFunctionOnSet(zero, S) = 0
  BY <1>1, SumOfNat
<1>3. SumFunctionOnSet(h, S) = SumFunctionOnSet(f, S) + SumFunctionOnSet(zero, S)
  BY <1>1, SumPlus
<1>4. SumFunctionOnSet(f, S) \in Int
  BY SumInt
<1> QED
  BY <1>2, <1>3, <1>4

\* A larger function has the larger sum.
LEMMA SumOrder ==
  ASSUME NEW S, IsFiniteSet(S), NEW f, NEW h,
         \A x \in S : f[x] \in Int /\ h[x] \in Int /\ f[x] <= h[x]
  PROVE  SumFunctionOnSet(f, S) <= SumFunctionOnSet(h, S)
<1> DEFINE d == [x \in S |-> h[x] - f[x]]
<1>1. \A x \in S : d[x] \in Nat /\ d[x] \in Int /\ h[x] = f[x] + d[x]
  OBVIOUS
<1> HIDE DEF d
<1>2. SumFunctionOnSet(d, S) \in Nat
  BY <1>1, SumOfNat
<1>3. SumFunctionOnSet(h, S) = SumFunctionOnSet(f, S) + SumFunctionOnSet(d, S)
  BY <1>1, SumPlus
<1>4. SumFunctionOnSet(f, S) \in Int
  BY SumInt
<1> QED
  BY <1>2, <1>3, <1>4

\* A value more at one index.
LEMMA SumUpdate ==
  ASSUME NEW S, IsFiniteSet(S), NEW f, NEW h, NEW x \in S,
         \A y \in S : f[y] \in Int /\ h[y] \in Int, \A y \in S \ {x} : h[y] = f[y]
  PROVE  SumFunctionOnSet(h, S) = SumFunctionOnSet(f, S) + (h[x] - f[x])
<1>1. SumFunctionOnSet(h, S) = h[x] + SumFunctionOnSet(h, S \ {x})
  BY SumTakeOut
<1>2. SumFunctionOnSet(f, S) = f[x] + SumFunctionOnSet(f, S \ {x})
  BY SumTakeOut
<1>3. SumFunctionOnSet(f, S \ {x}) \in Int
  BY SumTakeOut
<1>4. IsFiniteSet(S \ {x}) /\ \A y \in S \ {x} : f[y] \in Int /\ h[y] = f[y]
  BY FS_RemoveElement
<1>5. SumFunctionOnSet(h, S \ {x}) = SumFunctionOnSet(f, S \ {x})
  BY <1>4, SumSame
<1>6. f[x] \in Int /\ h[x] \in Int
  OBVIOUS
<1> QED
  BY <1>1, <1>2, <1>3, <1>5, <1>6

\* Two parts of the indices.
LEMMA SumUnion ==
  ASSUME NEW A, NEW B, IsFiniteSet(A), IsFiniteSet(B), A \cap B = {},
         NEW f, \A x \in A \cup B : f[x] \in Int
  PROVE  SumFunctionOnSet(f, A \cup B) = SumFunctionOnSet(f, A) + SumFunctionOnSet(f, B)
<1> DEFINE P == {s \in SUBSET A : SumFunctionOnSet(f, s \cup B) = SumFunctionOnSet(f, s) + SumFunctionOnSet(f, B)}
<1>1. IsFiniteSet(A \cup B)
  BY FS_Union
<1>2. SumFunctionOnSet(f, B) \in Int
  BY SumInt
<1>3. {} \in P
  <2>1. SumFunctionOnSet(f, {}) = 0 /\ {} \cup B = B
    BY SumEmpty
  <2> QED
    BY <1>2, <2>1
<1>4. ASSUME NEW s \in SUBSET A, IsFiniteSet(s), NEW x \in s, s \ {x} \in P
      PROVE  s \in P
  <2> DEFINE r == s \cup B
  <2>a. IsFiniteSet(s) /\ \A y \in s : f[y] \in Int
    BY <1>4
  <2>1. IsFiniteSet(r) /\ x \in r /\ \A y \in r : f[y] \in Int
    <3>1. IsFiniteSet(r)
      BY <2>a, FS_Union
    <3> QED
      BY <3>1
  <2>2. r \ {x} = (s \ {x}) \cup B
    OBVIOUS
  <2> HIDE DEF r
  <2>3. SumFunctionOnSet(f, r) = f[x] + SumFunctionOnSet(f, r \ {x})
    BY <2>1, SumTakeOut
  <2>4. /\ SumFunctionOnSet(f, s) = f[x] + SumFunctionOnSet(f, s \ {x})
        /\ SumFunctionOnSet(f, s \ {x}) \in Int
    BY <2>a, SumTakeOut
  <2>5. SumFunctionOnSet(f, (s \ {x}) \cup B) = SumFunctionOnSet(f, s \ {x}) + SumFunctionOnSet(f, B)
    BY <1>4
  <2>6. f[x] \in Int
    OBVIOUS
  <2>7. SumFunctionOnSet(f, r) = SumFunctionOnSet(f, s) + SumFunctionOnSet(f, B)
    <3>1. SumFunctionOnSet(f, r) = f[x] + SumFunctionOnSet(f, (s \ {x}) \cup B)
      BY <2>2, <2>3
    <3>2. SumFunctionOnSet(f, r) = f[x] + (SumFunctionOnSet(f, s \ {x}) + SumFunctionOnSet(f, B))
      BY <2>5, <3>1
    <3> QED
      BY <1>2, <2>4, <2>6, <3>2
  <2> QED
    BY <2>7 DEF r
<1> HIDE DEF P
<1>5. \A s \in SUBSET A : s \in P
  BY <1>3, <1>4, RemoveInduction
<1> QED
  BY <1>5 DEF P

\* More indices, a larger sum.
LEMMA SumSubset ==
  ASSUME NEW S, IsFiniteSet(S), NEW A \in SUBSET S, NEW f, \A x \in S : f[x] \in Nat
  PROVE  SumFunctionOnSet(f, A) <= SumFunctionOnSet(f, S)
<1>1. IsFiniteSet(A) /\ IsFiniteSet(S \ A)
  BY FS_Subset, FS_Difference
<1>2. S = A \cup (S \ A) /\ A \cap (S \ A) = {}
  OBVIOUS
<1>3. SumFunctionOnSet(f, S) = SumFunctionOnSet(f, A) + SumFunctionOnSet(f, S \ A)
  BY <1>1, <1>2, SumUnion
<1>4. SumFunctionOnSet(f, A) \in Nat /\ SumFunctionOnSet(f, S \ A) \in Nat
  BY <1>1, SumOfNat
<1> QED
  BY <1>3, <1>4

\* The indices renamed by p, no two alike.
LEMMA SumRenamed ==
  ASSUME NEW S, IsFiniteSet(S), NEW T, NEW p \in [S -> T],
         \A x, y \in S : p[x] = p[y] => x = y, \A y \in T : \E x \in S : y = p[x],
         NEW f, NEW h, \A x \in S : f[p[x]] \in Int /\ h[x] = f[p[x]]
  PROVE  SumFunctionOnSet(h, S) = SumFunctionOnSet(f, T)
<1> DEFINE P == {s \in SUBSET S : SumFunctionOnSet(h, s) = SumFunctionOnSet(f, {p[x] : x \in s})}
<1>1. ASSUME NEW s \in SUBSET S, IsFiniteSet(s)
      PROVE  IsFiniteSet({p[x] : x \in s})
  <2> DEFINE ps == [x \in s |-> p[x]]
             r == {p[x] : x \in s}
  <2>1. ps \in Surjection(s, r)
    BY DEF Surjection
  <2> HIDE DEF ps, r
  <2>2. IsFiniteSet(r)
    BY <1>1, <2>1, FS_Surjection
  <2> QED
    BY <2>2 DEF r
<1>3. {} \in P
  <2>1. {p[x] : x \in {}} = {}
    OBVIOUS
  <2> QED
    BY <2>1, SumEmpty
<1>4. ASSUME NEW s \in SUBSET S, IsFiniteSet(s), NEW x \in s, s \ {x} \in P
      PROVE  s \in P
  <2> DEFINE r == {p[y] : y \in s}
  <2>1. IsFiniteSet(r) /\ p[x] \in r /\ \A z \in r : f[z] \in Int
    BY <1>1, <1>4
  <2>2. r \ {p[x]} = {p[y] : y \in s \ {x}}
    OBVIOUS
  <2>3. SumFunctionOnSet(h, s) = h[x] + SumFunctionOnSet(h, s \ {x})
    BY <1>4, SumTakeOut
  <2>4. SumFunctionOnSet(h, s \ {x}) = SumFunctionOnSet(f, {p[y] : y \in s \ {x}})
    BY <1>4
  <2> HIDE DEF r
  <2>5. SumFunctionOnSet(f, r) = f[p[x]] + SumFunctionOnSet(f, r \ {p[x]})
    BY <2>1, SumTakeOut, SMTT(30)
  <2>6. h[x] = f[p[x]]
    OBVIOUS
  <2>7. SumFunctionOnSet(h, s) = SumFunctionOnSet(f, r)
    BY <2>2, <2>3, <2>4, <2>5, <2>6
  <2> QED
    BY <2>7 DEF r
<1> HIDE DEF P
<1>5. \A s \in SUBSET S : s \in P
  BY <1>3, <1>4, RemoveInduction
<1>6. SumFunctionOnSet(h, S) = SumFunctionOnSet(f, {p[x] : x \in S})
  BY <1>5 DEF P
<1>7. T = {p[x] : x \in S}
  OBVIOUS
<1> QED
  BY <1>6, <1>7

\* A sum of multiples is the multiple of the sum.
LEMMA SumScale ==
  ASSUME NEW S, IsFiniteSet(S), NEW k \in Int, NEW f, NEW h,
         \A x \in S : f[x] \in Int /\ h[x] = k * f[x]
  PROVE  SumFunctionOnSet(h, S) = k * SumFunctionOnSet(f, S)
<1> DEFINE P == {s \in SUBSET S : SumFunctionOnSet(h, s) = k * SumFunctionOnSet(f, s)}
<1>1. \A x \in S : h[x] \in Int
  OBVIOUS
<1>2. {} \in P
  <2>1. SumFunctionOnSet(f, {}) = 0 /\ SumFunctionOnSet(h, {}) = 0
    BY SumEmpty
  <2> QED
    BY <2>1
<1>3. ASSUME NEW s \in SUBSET S, IsFiniteSet(s), NEW x \in s, s \ {x} \in P
      PROVE  s \in P
  <2>1. \A y \in s : f[y] \in Int /\ h[y] \in Int
    BY <1>1
  <2>2. /\ SumFunctionOnSet(f, s) = f[x] + SumFunctionOnSet(f, s \ {x})
        /\ SumFunctionOnSet(f, s \ {x}) \in Int
    BY <1>3, <2>1, SumTakeOut
  <2>3. SumFunctionOnSet(h, s) = h[x] + SumFunctionOnSet(h, s \ {x})
    BY <1>3, <2>1, SumTakeOut
  <2>4. SumFunctionOnSet(h, s \ {x}) = k * SumFunctionOnSet(f, s \ {x})
    BY <1>3
  <2>5. ASSUME NEW a \in Int, NEW b \in Int
        PROVE  k * a + k * b = k * (a + b)
    BY Z3
  <2>6. k * f[x] + k * SumFunctionOnSet(f, s \ {x}) = k * (f[x] + SumFunctionOnSet(f, s \ {x}))
    BY <2>1, <2>2, <2>5
  <2>7. h[x] = k * f[x]
    OBVIOUS
  <2> QED
    BY <2>2, <2>3, <2>4, <2>6, <2>7
<1> HIDE DEF P
<1>4. \A s \in SUBSET S : s \in P
  BY <1>2, <1>3, RemoveInduction
<1> QED
  BY <1>4 DEF P

-----------------------------------------------------------------------------
(* Sums along a sequence *)

\* Nothing to sum.
LEMMA SumOfNone ==
  ASSUME NEW f, DOMAIN f = 1..0
  PROVE  SumFunction(f) = 0
<1>1. DOMAIN f = {}
  OBVIOUS
<1> QED
  BY <1>1, SumEmpty DEF SumFunction

\* One number more at the end.
LEMMA SumAppended ==
  ASSUME NEW n \in Nat, NEW f, DOMAIN f = 1..n, NEW h, DOMAIN h = 1..(n + 1),
         \A i \in 1..n : f[i] \in Int /\ h[i] = f[i], h[n + 1] \in Int
  PROVE  SumFunction(h) = SumFunction(f) + h[n + 1]
<1>0. n \in Int /\ n + 1 \in Int /\ 1 \in Int
  OBVIOUS
<1>1. /\ IsFiniteSet(1..n) /\ IsFiniteSet(1..(n + 1))
      /\ n + 1 \in 1..(n + 1) /\ (1..(n + 1)) \ {n + 1} = 1..n
  <2>1. IsFiniteSet(1..n) /\ IsFiniteSet(1..(n + 1))
    BY <1>0, FS_Interval
  <2>2. n + 1 \in 1..(n + 1) /\ (1..(n + 1)) \ {n + 1} = 1..n
    OBVIOUS
  <2> QED
    BY <2>1, <2>2
<1>2. \A i \in 1..(n + 1) : h[i] \in Int
  OBVIOUS
<1>3. SumFunctionOnSet(h, 1..(n + 1)) = h[n + 1] + SumFunctionOnSet(h, 1..n)
  BY <1>1, <1>2, SumTakeOut
<1>4. SumFunctionOnSet(h, 1..n) = SumFunctionOnSet(f, 1..n)
  BY <1>1, SumSame
<1>5. SumFunctionOnSet(f, 1..n) \in Int
  BY <1>1, SumInt
<1> QED
  BY <1>3, <1>4, <1>5 DEF SumFunction

\* The first number taken off.
LEMMA SumTail ==
  ASSUME NEW n \in Nat \ {0}, NEW f, DOMAIN f = 1..n, NEW h, DOMAIN h = 1..(n - 1),
         \A i \in 1..n : f[i] \in Int, \A i \in 1..(n - 1) : h[i] = f[i + 1]
  PROVE  SumFunction(f) = f[1] + SumFunction(h)
<1>1. n \in Nat /\ n # 0 /\ n - 1 \in Nat
  OBVIOUS
<1>2. IsFiniteSet(1..n) /\ IsFiniteSet(1..(n - 1)) /\ 1 \in 1..n
  BY <1>1, FS_Interval
<1>3. SumFunctionOnSet(f, 1..n) = f[1] + SumFunctionOnSet(f, (1..n) \ {1})
  BY <1>2, SumTakeOut
<1> DEFINE p == [i \in 1..(n - 1) |-> i + 1]
<1>4. \A x, y \in 1..(n - 1) : p[x] = p[y] => x = y
  OBVIOUS
<1>5. \A x \in 1..(n - 1) : f[p[x]] \in Int /\ h[x] = f[p[x]]
  BY <1>1
<1>6. {p[x] : x \in 1..(n - 1)} = (1..n) \ {1}
  <2>1. ASSUME NEW y \in (1..n) \ {1}
        PROVE  y \in {p[x] : x \in 1..(n - 1)}
    <3>1. y - 1 \in 1..(n - 1) /\ y = p[y - 1]
      BY <1>1
    <3> QED
      BY <3>1
  <2>2. \A x \in 1..(n - 1) : p[x] \in (1..n) \ {1}
    BY <1>1
  <2> HIDE DEF p
  <2> QED
    BY <2>1, <2>2
<1>8. p \in [1..(n - 1) -> {p[x] : x \in 1..(n - 1)}]
  OBVIOUS
<1> HIDE DEF p
<1>7. SumFunctionOnSet(h, 1..(n - 1)) = SumFunctionOnSet(f, (1..n) \ {1})
  <2> DEFINE S == 1..(n - 1)
             T == (1..n) \ {1}
             f1 == f
             h1 == h
  <2>1. /\ IsFiniteSet(S) /\ \A x, y \in S : p[x] = p[y] => x = y
        /\ \A x \in S : f1[p[x]] \in Int /\ h1[x] = f1[p[x]]
        /\ \A y \in T : \E x \in S : y = p[x]
    BY <1>2, <1>4, <1>5, <1>6
  <2>3. p \in [S -> T]
    BY <1>6, <1>8
  <2> HIDE DEF S, T, f1, h1
  <2>2. SumFunctionOnSet(h1, S) = SumFunctionOnSet(f1, T)
    BY <2>1, <2>3, SumRenamed
  <2> QED
    BY <2>2 DEF S, T, f1, h1
<1> QED
  BY <1>3, <1>7 DEF SumFunction

-----------------------------------------------------------------------------
(* Least elements *)

\* Min is the least of a set of naturals.
LEMMA MinIsLeast ==
  ASSUME NEW S, S \subseteq Nat, S # {}
  PROVE  Min(S) \in S /\ \A y \in S : Min(S) <= y
<1>1. PICK x \in S : \A y \in S : ~ (<<y, x>> \in OpToRel(<, Nat))
  BY NatLessThanWellFounded, WFMin
<1>2. ASSUME NEW y \in S
      PROVE  x <= y
  <2>1. x \in Nat /\ y \in Nat
    OBVIOUS
  <2>2. ~ (y < x)
    BY <1>1, <2>1 DEF OpToRel
  <2> QED
    BY <2>1, <2>2
<1> QED
  BY <1>2 DEF Min

=============================================================================
