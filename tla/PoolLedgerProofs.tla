-------------------------- MODULE PoolLedgerProofs --------------------------
(***************************************************************************)
(* Proofs of what PoolLedger promises, for any number of users, io threads *)
(* and crashes and any height of the chain; before them, what the          *)
(* operators of the share book (BlockPayment) return: the order of the     *)
(* file names StartPool sorts by is total, and every operator on a round   *)
(* or a queue keeps its type.                                              *)
(***************************************************************************)
EXTENDS PoolLedger, SumLemmas

-----------------------------------------------------------------------------
(* The recursion of PowerAbove *)

\* g is PowerAbove up to n.
PowersTo(n, g) ==
  /\ g \in [0..n -> Nat \ {0}]
  /\ \A m \in 0..n : g[m] = IF m < 10 THEN 10 ELSE 10 * g[m \div 10]

\* Removing the last digit gives a smaller number.
LEMMA Shorter ==
  ASSUME NEW m \in Nat, m >= 10
  PROVE  m \div 10 \in 0..(m - 1) /\ m \div 10 \in Nat
OBVIOUS

\* Such a function exists for every n.
LEMMA PowersExist ==
  ASSUME NEW n \in Nat
  PROVE  \E g : PowersTo(n, g)
<1> DEFINE S == {k \in Nat : \E g : PowersTo(k, g)}
<1>1. 0 \in S
  <2>1. PowersTo(0, [m \in 0..0 |-> 10])
    BY DEF PowersTo
  <2> QED
    BY <2>1
<1>2. ASSUME NEW k \in Nat, k \in S
      PROVE  k + 1 \in S
  <2>1. PICK g : PowersTo(k, g)
    BY <1>2
  <2> DEFINE last == IF k + 1 < 10 THEN 10 ELSE 10 * g[(k + 1) \div 10]
             h == [m \in 0..(k + 1) |-> IF m = k + 1 THEN last ELSE g[m]]
  <2>2. last \in Nat \ {0}
    <3>1. CASE k + 1 < 10
      BY <3>1
    <3>2. CASE k + 1 >= 10
      <4>1. (k + 1) \div 10 \in 0..k
        BY <3>2
      <4>2. g[(k + 1) \div 10] \in Nat \ {0}
        BY <2>1, <4>1 DEF PowersTo
      <4> QED
        BY <3>2, <4>2
    <3> QED
      BY <3>1, <3>2
  <2>3. h \in [0..(k + 1) -> Nat \ {0}]
    <3>1. \A m \in 0..(k + 1) : m = k + 1 \/ m \in 0..k
      OBVIOUS
    <3>2. \A m \in 0..k : g[m] \in Nat \ {0}
      BY <2>1 DEF PowersTo
    <3> HIDE DEF last
    <3> QED
      BY <2>2, <3>1, <3>2
  <2>4. ASSUME NEW m \in 0..(k + 1)
        PROVE  h[m] = IF m < 10 THEN 10 ELSE 10 * h[m \div 10]
    <3>1. CASE m = k + 1
      <4>1. m < 10 \/ (m \div 10 \in 0..k /\ m \div 10 # k + 1 /\ m \div 10 \in 0..(k + 1))
        BY <3>1
      <4>2. m < 10 \/ h[m \div 10] = g[m \div 10]
        BY <4>1
      <4> QED
        BY <3>1, <4>2
    <3>2. CASE m \in 0..k
      <4>1. m # k + 1 /\ (m < 10 \/ (m \div 10 \in 0..k /\ m \div 10 # k + 1 /\ m \div 10 \in 0..(k + 1)))
        BY <3>2
      <4>2. g[m] = IF m < 10 THEN 10 ELSE 10 * g[m \div 10]
        BY <2>1, <3>2 DEF PowersTo
      <4> HIDE DEF last
      <4> QED
        BY <4>1, <4>2
    <3> QED
      BY <3>1, <3>2
  <2> HIDE DEF h
  <2>5. PowersTo(k + 1, h)
    BY <2>3, <2>4 DEF PowersTo
  <2> QED
    BY <2>5
<1> HIDE DEF S
<1>3. \A k \in Nat : k \in S
  BY <1>1, <1>2, NatSetInduction
<1> QED
  BY <1>3 DEF S

\* Two of them agree where both are defined.
LEMMA PowersAgree ==
  ASSUME NEW n \in Nat, NEW g, PowersTo(n, g), NEW k \in Nat, NEW h, PowersTo(k, h),
         NEW m \in Nat, m <= n, m <= k
  PROVE  g[m] = h[m]
<1> DEFINE S == {j \in Nat : \A i \in 0..j : i <= n /\ i <= k => g[i] = h[i]}
<1>1. 0 \in S
  <2>1. g[0] = h[0]
    BY DEF PowersTo
  <2> QED
    BY <2>1
<1>2. ASSUME NEW j \in Nat, j \in S
      PROVE  j + 1 \in S
  <2> SUFFICES ASSUME j + 1 <= n, j + 1 <= k
               PROVE  g[j + 1] = h[j + 1]
    BY <1>2
  <2>1. /\ g[j + 1] = IF j + 1 < 10 THEN 10 ELSE 10 * g[(j + 1) \div 10]
        /\ h[j + 1] = IF j + 1 < 10 THEN 10 ELSE 10 * h[(j + 1) \div 10]
    BY DEF PowersTo
  <2>2. CASE j + 1 >= 10
    <3>1. (j + 1) \div 10 \in 0..j /\ (j + 1) \div 10 <= n /\ (j + 1) \div 10 <= k
      BY <2>2
    <3> QED
      BY <1>2, <2>1, <3>1
  <2> QED
    BY <2>1, <2>2
<1> HIDE DEF S
<1>3. \A j \in Nat : j \in S
  BY <1>1, <1>2, NatSetInduction
<1> QED
  BY <1>3 DEF S

\* PowerAbove is what its definition says, and at least 1.
LEMMA PowerAboveDef ==
  ASSUME NEW n \in Nat
  PROVE  /\ PowerAbove[n] = IF n < 10 THEN 10 ELSE 10 * PowerAbove[n \div 10]
         /\ PowerAbove[n] \in Nat \ {0}
<1> DEFINE G(m) == CHOOSE g : PowersTo(m, g)
           F == [m \in Nat |-> G(m)[m]]
<1>1. \A m \in Nat : PowersTo(m, G(m))
  BY PowersExist
<1>2. ASSUME NEW m \in Nat
      PROVE  F[m] = (IF m < 10 THEN 10 ELSE 10 * F[m \div 10]) /\ F[m] \in Nat \ {0}
  <2>1. PowersTo(m, G(m))
    BY <1>1
  <2> HIDE DEF G
  <2>2. /\ G(m)[m] \in Nat \ {0}
        /\ G(m)[m] = IF m < 10 THEN 10 ELSE 10 * G(m)[m \div 10]
    BY <2>1 DEF PowersTo
  <2>3. CASE m >= 10
    <3>1. m \div 10 \in 0..(m - 1) /\ m \div 10 \in Nat
      BY <2>3, Shorter
    <3>2. PowersTo(m \div 10, G(m \div 10))
      BY <1>1, <3>1
    <3>3. G(m \div 10)[m \div 10] = G(m)[m \div 10]
      BY <2>1, <3>1, <3>2, PowersAgree
    <3> QED
      BY <2>2, <2>3, <3>1, <3>3
  <2> QED
    BY <2>2, <2>3
<1> HIDE DEF G
<1>3. F = [m \in Nat |-> IF m < 10 THEN 10 ELSE 10 * F[m \div 10]]
  BY <1>2
<1> HIDE DEF F
<1>4. \E f : f = [m \in Nat |-> IF m < 10 THEN 10 ELSE 10 * f[m \div 10]]
  BY <1>3
<1>5. PowerAbove = [m \in Nat |-> IF m < 10 THEN 10 ELSE 10 * PowerAbove[m \div 10]]
  BY <1>4 DEF PowerAbove
<1> DEFINE S == {j \in Nat : \A i \in 0..j : PowerAbove[i] \in Nat \ {0}}
<1>6. 0 \in S
  BY <1>5
<1>7. ASSUME NEW j \in Nat, j \in S
      PROVE  j + 1 \in S
  <2>1. PowerAbove[j + 1] = IF j + 1 < 10 THEN 10 ELSE 10 * PowerAbove[(j + 1) \div 10]
    BY <1>5
  <2>2. CASE j + 1 >= 10
    <3>1. (j + 1) \div 10 \in 0..j
      BY <2>2
    <3> QED
      BY <1>7, <2>1, <3>1
  <2> QED
    BY <1>7, <2>1, <2>2
<1> HIDE DEF S
<1>8. \A j \in Nat : j \in S
  BY <1>6, <1>7, NatSetInduction
<1> QED
  BY <1>5, <1>8 DEF S

-----------------------------------------------------------------------------
(* The order of the file names *)

\* Fractions compare transitively: a/p <= b/q <= c/r, and equal only if both are.
LEMMA Fractions ==
  ASSUME NEW a \in Nat, NEW b \in Nat, NEW c \in Nat,
         NEW p \in Nat \ {0}, NEW q \in Nat \ {0}, NEW r \in Nat \ {0},
         a * q <= b * p, b * r <= c * q
  PROVE  /\ a * r <= c * p
         /\ a * r = c * p => a * q = b * p /\ b * r = c * q
<1>1. ASSUME NEW x \in Int, NEW y \in Int, NEW k \in Nat, x <= y
      PROVE  k * x <= k * y
  BY <1>1
<1>2. ASSUME NEW x \in Int, NEW y \in Int, NEW k \in Nat \ {0}
      PROVE  (k * x <= k * y => x <= y) /\ (k * x = k * y => x = y)
  OBVIOUS
<1>3. /\ a * q \in Int /\ b * p \in Int /\ b * r \in Int /\ c * q \in Int
      /\ a * r \in Int /\ c * p \in Int
      /\ p \in Nat /\ q \in Nat /\ r \in Nat
  OBVIOUS
<1>4. r * (a * q) <= r * (b * p) /\ p * (b * r) <= p * (c * q)
  BY <1>1, <1>3
<1>5. /\ r * (a * q) = q * (a * r) /\ r * (b * p) = p * (b * r)
      /\ p * (c * q) = q * (c * p)
  OBVIOUS
<1> DEFINE x == r * (a * q)
           y == p * (b * r)
           z == p * (c * q)
<1>6. x \in Int /\ y \in Int /\ z \in Int /\ x <= y /\ y <= z
  BY <1>4, <1>5
<1>7. q * (a * r) <= q * (c * p)
  <2> HIDE DEF x, y, z
  <2>1. x <= z
    BY <1>6
  <2> QED
    BY <2>1, <1>5 DEF x, z
<1>8. ASSUME a * r = c * p
      PROVE  a * q = b * p /\ b * r = c * q
  <2>1. x = z
    BY <1>5, <1>8
  <2>2. x = y /\ y = z
    <3> HIDE DEF x, y, z
    <3> QED
      BY <1>6, <2>1
  <2>3. r * (a * q) = r * (b * p) /\ p * (b * r) = p * (c * q)
    BY <1>5, <2>2
  <2> QED
    BY <1>2, <1>3, <2>3
<1> QED
  BY <1>2, <1>3, <1>7, <1>8

\* No two names are each before the other, and of two different ones one is.
LEMMA NamesCompare ==
  ASSUME NEW m \in Nat, NEW n \in Nat
  PROVE  /\ ~(NameBefore(m, n) /\ NameBefore(n, m))
         /\ m # n => NameBefore(m, n) \/ NameBefore(n, m)
<1>1. PowerAbove[n] \in Nat \ {0} /\ PowerAbove[m] \in Nat \ {0}
  BY PowerAboveDef
<1> DEFINE x == m * PowerAbove[n]
           y == n * PowerAbove[m]
<1>2. x \in Int /\ y \in Int
  BY <1>1
<1>3. /\ NameBefore(m, n) <=> m # 0 /\ (n = 0 \/ x < y \/ (x = y /\ m < n))
      /\ NameBefore(n, m) <=> n # 0 /\ (m = 0 \/ y < x \/ (y = x /\ n < m))
  BY DEF NameBefore
<1> HIDE DEF x, y
<1> QED
  BY <1>2, <1>3

\* What is before a name is before the names after that.
LEMMA NamesOrdered ==
  ASSUME NEW m \in Nat, NEW n \in Nat, NEW k \in Nat, NameBefore(m, n), NameBefore(n, k)
  PROVE  NameBefore(m, k)
<1>1. CASE k = 0
  BY <1>1 DEF NameBefore
<1>2. CASE k # 0
  <2> DEFINE p == PowerAbove[m]
             q == PowerAbove[n]
             r == PowerAbove[k]
  <2>1. p \in Nat \ {0} /\ q \in Nat \ {0} /\ r \in Nat \ {0}
    BY PowerAboveDef
  <2>2. /\ m # 0 /\ (m * q < n * p \/ (m * q = n * p /\ m < n))
        /\ n # 0 /\ (n * r < k * q \/ (n * r = k * q /\ n < k))
    BY <1>2 DEF NameBefore
  <2>3. NameBefore(m, k) <=> m * r < k * p \/ (m * r = k * p /\ m < k)
    BY <1>2, <2>2 DEF NameBefore
  <2> HIDE DEF p, q, r
  <2>4. /\ m * q \in Int /\ n * p \in Int /\ n * r \in Int /\ k * q \in Int
        /\ m * r \in Int /\ k * p \in Int
    BY <2>1
  <2>5. m * q <= n * p /\ n * r <= k * q
    <3>1. ASSUME NEW x \in Int, NEW y \in Int, x < y \/ x = y
          PROVE  x <= y
      BY <3>1
    <3> QED
      BY <2>2, <2>4, <3>1
  <2>6. m * r <= k * p /\ (m * r = k * p => m * q = n * p /\ n * r = k * q)
    BY <2>1, <2>5, Fractions
  <2>7. CASE m * r = k * p
    <3>1. m * q = n * p /\ n * r = k * q
      BY <2>6, <2>7
    <3>2. m < n /\ n < k
      BY <2>2, <2>4, <3>1
    <3> QED
      BY <2>3, <2>7, <3>2
  <2>8. CASE m * r # k * p
    <3>1. ASSUME NEW x \in Int, NEW y \in Int, x <= y, x # y
          PROVE  x < y
      BY <3>1
    <3> QED
      BY <2>3, <2>4, <2>6, <2>8, <3>1
  <2> QED
    BY <2>7, <2>8
<1> QED
  BY <1>1, <1>2

\* A finite set of names has one that all the others are before.
LEMMA LastName ==
  ASSUME NEW T, T \subseteq Nat, IsFiniteSet(T), NEW S \in SUBSET T, S # {}
  PROVE  \E x \in S : \A y \in S \ {x} : NameBefore(y, x)
<1> DEFINE P == {s \in SUBSET T : s # {} => \E x \in s : \A y \in s \ {x} : NameBefore(y, x)}
<1>1. {} \in P
  OBVIOUS
<1>2. ASSUME NEW s \in SUBSET T, IsFiniteSet(s), NEW x \in s, s \ {x} \in P
      PROVE  s \in P
  <2>1. CASE s \ {x} = {}
    BY <2>1
  <2>2. CASE s \ {x} # {}
    <3>1. PICK z \in s \ {x} : \A y \in (s \ {x}) \ {z} : NameBefore(y, z)
      BY <1>2, <2>2
    <3>2. x \in Nat /\ z \in Nat /\ x # z
      OBVIOUS
    <3>3. CASE NameBefore(x, z)
      <4>1. \A y \in s \ {z} : NameBefore(y, z)
        BY <3>1, <3>3
      <4> QED
        BY <4>1
    <3>4. CASE NameBefore(z, x)
      <4>1. ASSUME NEW y \in s \ {x}
            PROVE  NameBefore(y, x)
        <5>1. CASE y = z
          BY <3>4, <5>1
        <5>2. CASE y # z
          BY <3>1, <3>2, <3>4, <5>2, NamesOrdered
        <5> QED
          BY <5>1, <5>2
      <4> QED
        BY <4>1
    <3> QED
      BY <3>2, <3>3, <3>4, NamesCompare
  <2> QED
    BY <2>1, <2>2
<1> HIDE DEF P
<1>3. \A s \in SUBSET T : s \in P
  BY <1>1, <1>2, RemoveInduction
<1> QED
  BY <1>3 DEF P

\* The names of S that are before f.
EarlierNames(S, f) == {g \in S : NameBefore(g, f)}

\* For every i one name has i - 1 others before it.
LEMMA NameAtRank ==
  ASSUME NEW S, S \subseteq Nat, IsFiniteSet(S), NEW i \in 1..Cardinality(S)
  PROVE  \E f \in S : Cardinality(EarlierNames(S, f)) = i - 1
<1> DEFINE P == {s \in SUBSET S : \A j \in 1..Cardinality(s) :
                                    \E f \in s : Cardinality(EarlierNames(s, f)) = j - 1}
<1>1. ASSUME NEW s \in SUBSET S, \A x \in s : s \ {x} \in P
      PROVE  s \in P
  <2>1. CASE s = {}
    <3>1. Cardinality(s) = 0
      BY <2>1, FS_EmptySet
    <3> QED
      BY <3>1
  <2>2. CASE s # {}
    <3>1. PICK x \in s : \A y \in s \ {x} : NameBefore(y, x)
      BY <2>2, LastName
    <3>2. /\ IsFiniteSet(s) /\ Cardinality(s) \in Nat
          /\ Cardinality(s \ {x}) = Cardinality(s) - 1
      BY SubsetSize
    <3>3. \A y \in s : ~NameBefore(x, y)
      BY <3>1, NamesCompare
    <3>4. ASSUME NEW j \in 1..Cardinality(s)
          PROVE  \E f \in s : Cardinality(EarlierNames(s, f)) = j - 1
      <4>1. CASE j = Cardinality(s)
        <5>1. EarlierNames(s, x) = s \ {x}
          BY <3>1, <3>3 DEF EarlierNames
        <5> QED
          BY <3>2, <4>1, <5>1
      <4>2. CASE j # Cardinality(s)
        <5>1. j \in 1..Cardinality(s \ {x})
          BY <3>2, <4>2
        <5>2. PICK f \in s \ {x} : Cardinality(EarlierNames(s \ {x}, f)) = j - 1
          BY <1>1, <5>1
        <5>3. EarlierNames(s \ {x}, f) = EarlierNames(s, f)
          BY <3>3 DEF EarlierNames
        <5> QED
          BY <5>2, <5>3
      <4> QED
        BY <4>1, <4>2
    <3> QED
      BY <3>4
  <2> QED
    BY <2>1, <2>2
<1> HIDE DEF P
<1>2. \A s \in SUBSET S : s \in P
  BY <1>1, SubsetInduction
<1> QED
  BY <1>2 DEF P

\* What the files named hold.
Contents(files, content) == {content[f] : f \in files}

\* StartPool makes of every file of the directory one round of the queue.
LEMMA LoadedFiles ==
  ASSUME NEW files, files \subseteq Nat, IsFiniteSet(files), NEW content
  PROVE  LoadedQueue(files, content) \in [1..Cardinality(files) -> Contents(files, content)]
<1> DEFINE Name(k) == CHOOSE f \in files : Cardinality(EarlierNames(files, f)) = k - 1
<1>1. \A i \in 1..Cardinality(files) : Name(i) \in files
  BY NameAtRank
<1>2. LoadedQueue(files, content) = [k \in 1..Cardinality(files) |-> content[Name(k)]]
  BY DEF LoadedQueue, EarlierNames
<1> HIDE DEF Name
<1> QED
  BY <1>1, <1>2 DEF Contents

LEMMA LoadedRounds ==
  ASSUME NEW files, files \subseteq Nat, IsFiniteSet(files), NEW content, NEW R,
         \A f \in files : content[f] \in R
  PROVE  /\ LoadedQueue(files, content) \in Seq(R)
         /\ Len(LoadedQueue(files, content)) = Cardinality(files)
<1> DEFINE loaded == LoadedQueue(files, content)
<1>1. Cardinality(files) \in Nat
  BY FS_CardinalityType
<1>2. loaded \in [1..Cardinality(files) -> Contents(files, content)]
  BY LoadedFiles
<1> HIDE DEF loaded
<1>3. loaded \in [1..Cardinality(files) -> R]
  BY <1>2 DEF Contents
<1>4. loaded \in Seq(R) /\ Len(loaded) = Cardinality(files)
  BY <1>1, <1>3
<1> QED
  BY <1>4 DEF loaded

-----------------------------------------------------------------------------
(* Rounds *)

\* The rounds whose height and block are in F, a set with 0 in it.
RoundOf(F) == [id : Nat, height : F, xpm : Nat, calculated : BOOLEAN,
               shares : [Users -> Nat], pay : [Users -> Nat], block : F]

\* A share is worth a natural number, and one of the least length exactly 1.
LEMMA ShareWorth ==
  ASSUME NEW n \in Nat
  PROVE  calcShares(n) \in Nat /\ (n = MIN_CHAIN_LENGTH => calcShares(n) = 1)
<1>1. Min({n, 10}) = IF n <= 10 THEN n ELSE 10
  BY DEF Min
<1>2. CASE n < 6
  BY <1>2 DEF calcShares, MIN_CHAIN_LENGTH
<1>3. CASE n >= 6
  <2>1. Min({n, 10}) - 6 + 1 \in 1..5 /\ (n = 6 => Min({n, 10}) - 6 + 1 = 1)
    BY <1>1, <1>3
  <2>2. calcShares(n) = CHAIN_VALUES[Min({n, 10}) - 6 + 1]
    BY <1>3 DEF calcShares, MIN_CHAIN_LENGTH, MAX_CHAIN_LENGTH
  <2>3. (\A i \in 1..5 : CHAIN_VALUES[i] \in Nat) /\ CHAIN_VALUES[1] = 1
    BY DEF CHAIN_VALUES
  <2> QED
    BY <2>1, <2>2, <2>3 DEF MIN_CHAIN_LENGTH
<1> QED
  BY <1>2, <1>3

\* The total of a round, and that a user's shares are a part of it.
LEMMA TotalOfRound ==
  ASSUME IsFiniteSet(Users), NEW F, NEW r \in RoundOf(F)
  PROVE  RunningTotal(r) \in Nat /\ \A u \in Users : r.shares[u] <= RunningTotal(r)
<1>1. r.shares \in [Users -> Nat]
  BY DEF RoundOf
<1> DEFINE s == r.shares
<1>2. \A u \in Users : s[u] \in Nat
  BY <1>1
<1>3. DOMAIN s = Users
  BY <1>1
<1> HIDE DEF s
<1>4. SumFunctionOnSet(s, Users) \in Nat /\ \A u \in Users : s[u] <= SumFunctionOnSet(s, Users)
  BY <1>2, SumOfNat
<1> QED
  BY <1>3, <1>4 DEF s, RunningTotal, SumFunction

\* Division rounds down.
LEMMA Division ==
  ASSUME NEW x \in Nat, NEW y \in Nat \ {0}
  PROVE  x \div y \in Nat /\ y * (x \div y) <= x
OBVIOUS

LEMMA TimesNat ==
  ASSUME NEW x \in Nat, NEW y \in Nat
  PROVE  x * y \in Nat
OBVIOUS

\* What a user is given is a natural number when the total is not 0.
LEMMA PortionIsNat ==
  ASSUME NEW x \in Nat, NEW s \in Nat, NEW t \in Nat \ {0}
  PROVE  Portion(x, s, t) \in Nat
<1>1. 100 - FeePercent \in Nat /\ t * 100 \in Nat \ {0}
  BY FeeAssumption
<1> DEFINE k == 100 - FeePercent
<1>2. x * s \in Nat /\ (x * s) * k \in Nat
  <2> HIDE DEF k
  <2>1. k \in Nat
    BY <1>1 DEF k
  <2> QED
    BY <2>1, TimesNat
<1>3. Portion(x, s, t) = ((x * s) * k) \div (t * 100)
  BY DEF Portion
<1> QED
  BY <1>1, <1>2, <1>3, Division

\* The amount calculateXPMPerUser gives a user.
AmountOf(r, u) == IF r.shares[u] = 0 THEN 0 ELSE Portion(r.xpm, r.shares[u], RunningTotal(r))

LEMMA AmountIsNat ==
  ASSUME IsFiniteSet(Users), NEW F, NEW r \in RoundOf(F), NEW u \in Users
  PROVE  AmountOf(r, u) \in Nat
<1>1. /\ r.shares[u] \in Nat /\ r.xpm \in Nat /\ RunningTotal(r) \in Nat
      /\ r.shares[u] <= RunningTotal(r)
  BY TotalOfRound DEF RoundOf
<1>2. CASE r.shares[u] # 0
  <2> DEFINE total == RunningTotal(r)
             own   == r.shares[u]
  <2>1. own \in Nat /\ own # 0 /\ total \in Nat /\ own <= total
    BY <1>1, <1>2
  <2> HIDE DEF own, total
  <2>2. total \in Nat \ {0}
    BY <2>1
  <2>3. Portion(r.xpm, own, total) \in Nat
    BY <1>1, <2>1, <2>2, PortionIsNat
  <2> QED
    BY <1>2, <2>3 DEF AmountOf, own, total
<1> QED
  BY <1>2 DEF AmountOf

LEMMA NewRoundIsRound ==
  ASSUME NEW F, 0 \in F, NEW id \in Nat
  PROVE  NewRound(id, 0) \in RoundOf(F)
BY DEF NewRound, RoundOf, Nobody

\* A round with one more share of u, with another label, with other computed amounts.
WithShare(r, u) == [r EXCEPT !.calculated = FALSE, !.shares[u] = r.shares[u] + 1]

Labelled(r, height, xpm, block) ==
  [r EXCEPT !.height = height, !.block = block, !.xpm = xpm, !.calculated = FALSE]

WithPay(r, s) == [r EXCEPT !.pay = s.pay, !.calculated = s.calculated]

\* What addShares does to the rear round when a share is of the least length.
LEMMA SharesAddedToRound ==
  ASSUME NEW F, NEW r \in RoundOf(F), NEW u \in Users
  PROVE  /\ RoundAddShares(r, u, MIN_CHAIN_LENGTH) \in RoundOf(F)
         /\ RoundAddShares(r, u, MIN_CHAIN_LENGTH) = WithShare(r, u)
<1>1. calcShares(MIN_CHAIN_LENGTH) = 1
  BY ShareWorth DEF MIN_CHAIN_LENGTH
<1>2. RoundAddShares(r, u, MIN_CHAIN_LENGTH) =
        [r EXCEPT !.calculated = FALSE, !.shares[u] = r.shares[u] + 1]
  <2> DEFINE n == MIN_CHAIN_LENGTH
             k == calcShares(n)
  <2>1. ~(n < n) /\ k = 1
    BY <1>1 DEF MIN_CHAIN_LENGTH
  <2>2. RoundAddShares(r, u, n) = IF n < n THEN r
                                  ELSE [r EXCEPT !.calculated = FALSE, !.shares[u] = r.shares[u] + k]
    BY DEF RoundAddShares
  <2> HIDE DEF n, k
  <2> QED
    BY <2>1, <2>2 DEF n
<1>3. [r.shares EXCEPT ![u] = r.shares[u] + 1] \in [Users -> Nat]
  BY DEF RoundOf
<1> QED
  BY <1>2, <1>3 DEF RoundOf, WithShare

LEMMA CalculatedRound ==
  ASSUME IsFiniteSet(Users), NEW F, NEW r \in RoundOf(F)
  PROVE  /\ calculateXPMPerUser(r) \in RoundOf(F)
         /\ calculateXPMPerUser(r) = WithPay(r, calculateXPMPerUser(r))
<1>1. [u \in Users |-> AmountOf(r, u)] \in [Users -> Nat]
  BY AmountIsNat
<1>2. r.pay \in [Users -> Nat] /\ r.calculated \in BOOLEAN
  BY DEF RoundOf
<1> DEFINE p == [u \in Users |-> AmountOf(r, u)]
<1>3. calculateXPMPerUser(r) = IF UserList(r) = {} THEN r ELSE [r EXCEPT !.pay = p, !.calculated = TRUE]
  BY DEF calculateXPMPerUser, AmountOf
<1> HIDE DEF p
<1> QED
  BY <1>1, <1>2, <1>3 DEF p, RoundOf, WithPay

\* Nothing but the reward and the computed amounts is lost in a file.
LEMMA SavedIsRound ==
  ASSUME NEW F, NEW r \in RoundOf(F)
  PROVE  /\ SavedRound(r) \in RoundOf(F)
         /\ SavedRound(r).id = r.id /\ SavedRound(r).shares = r.shares
         /\ SavedRound(r).height = r.height /\ SavedRound(r).block = r.block
         /\ ~SavedRound(r).calculated
<1> DEFINE x == ((r.xpm + SaveGrain \div 2) \div SaveGrain) * SaveGrain
<1>1. x \in Nat
  <2>1. r.xpm \in Nat /\ SaveGrain \in Nat \ {0}
    BY FeeAssumption DEF RoundOf
  <2>2. SaveGrain \div 2 \in Nat
    BY <2>1
  <2>3. r.xpm + SaveGrain \div 2 \in Nat
    BY <2>1, <2>2
  <2> QED
    BY <2>1, <2>3, Division, TimesNat
<1>2. SavedRound(r) = [r EXCEPT !.xpm = x, !.calculated = FALSE, !.pay = Nobody]
  BY DEF SavedRound
<1>3. Nobody \in [Users -> Nat]
  BY DEF Nobody
<1> HIDE DEF x
<1> QED
  BY <1>1, <1>2, <1>3 DEF RoundOf

-----------------------------------------------------------------------------
(* Queues *)

\* The rear of a queue that is not empty.
LEMMA Rear ==
  ASSUME NEW R, NEW q \in Seq(R), q # <<>>
  PROVE  Len(q) \in Nat \ {0} /\ Last(q) = q[Len(q)] /\ Last(q) \in R /\ Len(q) \in DOMAIN q
BY DEF Last

\* addShares changes the rear alone.
LEMMA addSharesChanges ==
  ASSUME NEW F, NEW q \in Seq(RoundOf(F)), NEW u \in Users
  PROVE  /\ addShares(q, u, MIN_CHAIN_LENGTH) \in Seq(RoundOf(F))
         /\ Len(addShares(q, u, MIN_CHAIN_LENGTH)) = Len(q)
         /\ \A i \in DOMAIN q : addShares(q, u, MIN_CHAIN_LENGTH)[i] =
              IF i = Len(q) THEN WithShare(q[i], u) ELSE q[i]
<1>1. CASE q = <<>>
  BY <1>1 DEF addShares
<1>2. CASE q # <<>>
  <2> DEFINE e == RoundAddShares(q[Len(q)], u, MIN_CHAIN_LENGTH)
  <2>1. Len(q) \in 1..Len(q) /\ q[Len(q)] \in RoundOf(F)
    BY <1>2
  <2>2. e \in RoundOf(F) /\ e = WithShare(q[Len(q)], u)
    BY <2>1, SharesAddedToRound
  <2>3. addShares(q, u, MIN_CHAIN_LENGTH) = [q EXCEPT ![Len(q)] = e]
    BY <1>2 DEF addShares
  <2> HIDE DEF e
  <2> QED
    BY <2>1, <2>2, <2>3 DEF e
<1> QED
  BY <1>1, <1>2

\* setFound labels the rear alone.
LEMMA setFoundRounds ==
  ASSUME NEW F, NEW q \in Seq(RoundOf(F)), NEW h \in F, NEW b \in F, NEW x \in Nat
  PROVE  \A i \in DOMAIN q : setFound(q, h, x, b)[i] =
              IF i = Len(q) THEN Labelled(q[i], h, x, b) ELSE q[i]
<1> DEFINE e == Labelled(q[Len(q)], h, x, b)
<1>1. q # <<>> => q[Len(q)] \in RoundOf(F)
  OBVIOUS
<1>2. setFound(q, h, x, b) = IF q = <<>> THEN q ELSE [q EXCEPT ![Len(q)] = e]
  BY <1>1 DEF setFound, SetXPM, RoundOf, Labelled
<1>3. \A i \in DOMAIN q : setFound(q, h, x, b)[i] = IF i = Len(q) THEN e ELSE q[i]
  <2> HIDE DEF e
  <2> QED
    BY <1>2
<1> QED
  BY <1>3

LEMMA setFoundIsQueue ==
  ASSUME NEW F, NEW q \in Seq(RoundOf(F)), NEW h \in F, NEW b \in F, NEW x \in Nat
  PROVE  setFound(q, h, x, b) \in Seq(RoundOf(F)) /\ Len(setFound(q, h, x, b)) = Len(q)
<1>1. CASE q = <<>>
  BY <1>1 DEF setFound
<1>2. CASE q # <<>>
  <2> DEFINE e == Labelled(q[Len(q)], h, x, b)
  <2>1. Len(q) \in 1..Len(q) /\ q[Len(q)] \in RoundOf(F)
    BY <1>2
  <2>2. e \in RoundOf(F)
    BY <2>1 DEF RoundOf, Labelled
  <2>3. setFound(q, h, x, b) = [q EXCEPT ![Len(q)] = e]
    BY <1>2, <2>1 DEF setFound, SetXPM, RoundOf, Labelled
  <2> HIDE DEF e
  <2> QED
    BY <2>1, <2>2, <2>3
<1> QED
  BY <1>1, <1>2

\* newBlock leaves the rounds it finds alone.
LEMMA newBlockChanges ==
  ASSUME NEW F, 0 \in F, NEW q \in Seq(RoundOf(F)), NEW id \in Nat
  PROVE  /\ newBlock(q, id, 0) \in Seq(RoundOf(F))
         /\ Len(newBlock(q, id, 0)) = Len(q) + 1
         /\ \A i \in DOMAIN q : newBlock(q, id, 0)[i] = q[i]
         /\ newBlock(q, id, 0)[Len(q) + 1] = NewRound(id, 0)
BY NewRoundIsRound DEF newBlock

\* calculateAllXPM changes nothing but computed amounts.
LEMMA calculateAllXPMChanges ==
  ASSUME IsFiniteSet(Users), NEW F, NEW q \in Seq(RoundOf(F))
  PROVE  /\ calculateAllXPM(q) \in Seq(RoundOf(F))
         /\ Len(calculateAllXPM(q)) = Len(q)
         /\ \A i \in DOMAIN q : calculateAllXPM(q)[i] =
              IF NeedsCalculation(q[i]) THEN calculateXPMPerUser(q[i]) ELSE q[i]
<1>1. \A i \in 1..Len(q) : q[i] \in RoundOf(F)
  OBVIOUS
<1>2. \A i \in 1..Len(q) : (IF NeedsCalculation(q[i]) THEN calculateXPMPerUser(q[i]) ELSE q[i])
                             \in RoundOf(F)
  BY <1>1, CalculatedRound
<1>3. calculateAllXPM(q) =
        [i \in 1..Len(q) |-> IF NeedsCalculation(q[i]) THEN calculateXPMPerUser(q[i]) ELSE q[i]]
  BY DEF calculateAllXPM
<1> QED
  BY <1>2, <1>3

-----------------------------------------------------------------------------
(* The constants, and the operators of the share book on queues of Rounds *)

LEMMA Constants ==
  /\ Round = RoundOf(Files) /\ 0 \in Files /\ Current \in Files /\ Current = 0
  /\ Files \subseteq Nat /\ IsFiniteSet(Files) /\ StartTip..MaxTip \subseteq Files
  /\ \A h \in StartTip..MaxTip : h \in Nat \ {0} /\ h <= MaxTip
  /\ Reward \in Nat /\ ShareLength = MIN_CHAIN_LENGTH /\ IsFiniteSet(Users)
  /\ Nobody \in [Users -> Nat] /\ \A u \in Users : Nobody[u] = 0
<1>1. Files = 0..MaxTip /\ 0 \in Int /\ MaxTip \in Int
  BY LedgerAssumption DEF Files, Current
<1>2. IsFiniteSet(Files)
  BY <1>1, FS_Interval
<1> QED
  BY <1>1, <1>2, LedgerAssumption
  DEF Current, Round, RoundOf, ShareLength, MIN_CHAIN_LENGTH, Nobody

\* The threads have names of their own.
LEMMA Threads ==
  /\ Savers = IOThreads \cup {Saver} /\ IOThreads \subseteq Savers /\ Saver \in Savers
  /\ Saver \notin IOThreads /\ Worker \notin Savers /\ NoOne \notin Savers /\ Worker # NoOne
<1>1. Saver # Worker /\ Saver # NoOne /\ Worker # NoOne
  BY DEF Saver, Worker, NoOne
<1> QED
  BY <1>1, NamesAssumption DEF Savers

\* What each operator makes of a queue of Rounds.
LEMMA AddedShares ==
  ASSUME NEW q \in Seq(Round), NEW u \in Users
  PROVE  /\ addShares(q, u, ShareLength) \in Seq(Round)
         /\ Len(addShares(q, u, ShareLength)) = Len(q)
         /\ \A i \in 1..Len(q) : addShares(q, u, ShareLength)[i] =
              IF i = Len(q) THEN WithShare(q[i], u) ELSE q[i]
<1>1. q \in Seq(RoundOf(Files)) /\ ShareLength = MIN_CHAIN_LENGTH /\ Round = RoundOf(Files)
      /\ DOMAIN q = 1..Len(q)
  BY Constants
<1>2. /\ addShares(q, u, MIN_CHAIN_LENGTH) \in Seq(RoundOf(Files))
      /\ Len(addShares(q, u, MIN_CHAIN_LENGTH)) = Len(q)
      /\ \A i \in DOMAIN q : addShares(q, u, MIN_CHAIN_LENGTH)[i] =
           IF i = Len(q) THEN WithShare(q[i], u) ELSE q[i]
  BY <1>1, addSharesChanges
<1> QED
  BY <1>1, <1>2

LEMMA FoundSet ==
  ASSUME NEW q \in Seq(Round), NEW h \in Files, NEW b \in Files
  PROVE  /\ setFound(q, h, Reward, b) \in Seq(Round)
         /\ Len(setFound(q, h, Reward, b)) = Len(q)
         /\ \A i \in 1..Len(q) : setFound(q, h, Reward, b)[i] =
              IF i = Len(q) THEN Labelled(q[i], h, Reward, b) ELSE q[i]
<1>1. q \in Seq(RoundOf(Files)) /\ Round = RoundOf(Files) /\ DOMAIN q = 1..Len(q) /\ Reward \in Nat
  BY Constants
<1>2. /\ setFound(q, h, Reward, b) \in Seq(RoundOf(Files))
      /\ Len(setFound(q, h, Reward, b)) = Len(q)
  BY <1>1, setFoundIsQueue
<1>3. \A i \in DOMAIN q : setFound(q, h, Reward, b)[i] =
        IF i = Len(q) THEN Labelled(q[i], h, Reward, b) ELSE q[i]
  BY <1>1, setFoundRounds
<1> QED
  BY <1>1, <1>2, <1>3

LEMMA BlockAdded ==
  ASSUME NEW q \in Seq(Round), NEW id \in Nat
  PROVE  /\ newBlock(q, id, 0) \in Seq(Round) /\ Len(newBlock(q, id, 0)) = Len(q) + 1
         /\ \A i \in 1..Len(q) : newBlock(q, id, 0)[i] = q[i]
         /\ newBlock(q, id, 0)[Len(q) + 1] = NewRound(id, 0)
         /\ NewRound(id, 0) \in Round
<1>1. q \in Seq(RoundOf(Files)) /\ Round = RoundOf(Files) /\ DOMAIN q = 1..Len(q) /\ 0 \in Files
  BY Constants
<1> QED
  BY <1>1, newBlockChanges, NewRoundIsRound

\* What the three kinds of change leave of a round.
LEMMA WithPayFields ==
  ASSUME NEW r \in Round, NEW s \in Round
  PROVE  /\ WithPay(r, s) \in Round
         /\ WithPay(r, s).id = r.id /\ WithPay(r, s).height = r.height
         /\ WithPay(r, s).xpm = r.xpm /\ WithPay(r, s).shares = r.shares
         /\ WithPay(r, s).block = r.block
         /\ WithPay(r, s).pay = s.pay /\ WithPay(r, s).calculated = s.calculated
BY DEF WithPay, Round

LEMMA WithShareFields ==
  ASSUME NEW r \in Round, NEW u \in Users
  PROVE  /\ WithShare(r, u) \in Round
         /\ WithShare(r, u).id = r.id /\ WithShare(r, u).height = r.height
         /\ WithShare(r, u).xpm = r.xpm /\ WithShare(r, u).block = r.block
         /\ WithShare(r, u).pay = r.pay /\ WithShare(r, u).calculated = FALSE
         /\ WithShare(r, u).shares = [r.shares EXCEPT ![u] = r.shares[u] + 1]
<1>1. [r.shares EXCEPT ![u] = r.shares[u] + 1] \in [Users -> Nat]
  BY DEF Round
<1> QED
  BY <1>1 DEF WithShare, Round

LEMMA Calculated ==
  ASSUME NEW r \in Round
  PROVE  /\ calculateXPMPerUser(r) \in Round
         /\ calculateXPMPerUser(r) = WithPay(r, calculateXPMPerUser(r))
BY Constants, CalculatedRound

LEMMA CalculatedAll ==
  ASSUME NEW q \in Seq(Round)
  PROVE  /\ calculateAllXPM(q) \in Seq(Round) /\ Len(calculateAllXPM(q)) = Len(q)
         /\ \A i \in 1..Len(q) : calculateAllXPM(q)[i] =
              IF NeedsCalculation(q[i]) THEN calculateXPMPerUser(q[i]) ELSE q[i]
<1>1. q \in Seq(RoundOf(Files)) /\ Round = RoundOf(Files) /\ DOMAIN q = 1..Len(q)
      /\ IsFiniteSet(Users)
  BY Constants
<1> QED
  BY <1>1, calculateAllXPMChanges

LEMMA Saved ==
  ASSUME NEW r \in Round
  PROVE  /\ SavedRound(r) \in Round
         /\ SavedRound(r).id = r.id /\ SavedRound(r).shares = r.shares
         /\ SavedRound(r).height = r.height /\ SavedRound(r).block = r.block
BY Constants, SavedIsRound

\* The queue StartPool begins with.
Present == {f \in Files : blocks[f] # NoFile}
Loaded == IF Present = {} THEN newBlock(<<>>, nextId, 0) ELSE LoadedQueue(Present, blocks)

LEMMA LoadedIsQueue ==
  ASSUME nextId \in Nat, \A f \in Present : blocks[f] \in Round
  PROVE  /\ Loaded \in Seq(Round) /\ Loaded # <<>>
         /\ Present = {} => Loaded = <<NewRound(nextId, 0)>>
         /\ Present # {} => \A i \in 1..Len(Loaded) : \E f \in Present : Loaded[i] = blocks[f]
<1>1. Present \subseteq Nat /\ IsFiniteSet(Present)
  BY Constants, FS_Subset DEF Present
<1>2. CASE Present = {}
  <2>1. NewRound(nextId, 0) \in Round
    BY Constants, NewRoundIsRound
  <2>2. newBlock(<<>>, nextId, 0) \in Seq(Round)
    BY <2>1 DEF newBlock
  <2>3. newBlock(<<>>, nextId, 0) = <<NewRound(nextId, 0)>>
    BY DEF newBlock
  <2>4. <<NewRound(nextId, 0)>> # <<>>
    <3> DEFINE r == NewRound(nextId, 0)
    <3> HIDE DEF r
    <3>1. <<r>> # <<>>
      OBVIOUS
    <3> QED
      BY <3>1 DEF r
  <2>5. Loaded = newBlock(<<>>, nextId, 0)
    BY <1>2 DEF Loaded
  <2> DEFINE one == <<NewRound(nextId, 0)>>
             start == newBlock(<<>>, nextId, 0)
  <2> HIDE DEF one, start
  <2>6. start \in Seq(Round) /\ start = one /\ one # <<>> /\ Loaded = start
    BY <2>2, <2>3, <2>4, <2>5 DEF one, start
  <2> QED
    BY <1>2, <2>6 DEF one
<1>3. CASE Present # {}
  <2>1. /\ LoadedQueue(Present, blocks) \in Seq(Round)
        /\ Len(LoadedQueue(Present, blocks)) = Cardinality(Present)
        /\ \A i \in 1..Cardinality(Present) :
             \E f \in Present : LoadedQueue(Present, blocks)[i] = blocks[f]
    <3> DEFINE files == Present
               content == blocks
    <3>1. files \subseteq Nat /\ IsFiniteSet(files) /\ \A f \in files : content[f] \in Round
      BY <1>1
    <3> HIDE DEF files, content
    <3>2. /\ LoadedQueue(files, content) \in Seq(Round)
          /\ Len(LoadedQueue(files, content)) = Cardinality(files)
      BY <3>1, LoadedRounds
    <3> DEFINE loaded == LoadedQueue(files, content)
    <3>3. loaded \in [1..Cardinality(files) -> Contents(files, content)]
      BY <3>1, LoadedFiles
    <3> HIDE DEF loaded
    <3>4. \A i \in 1..Cardinality(files) : \E f \in files : loaded[i] = content[f]
      BY <3>3 DEF Contents
    <3> QED
      BY <3>2, <3>4 DEF files, content, loaded
  <2>2. Cardinality(Present) # 0 /\ Cardinality(Present) \in Nat
    BY <1>1, <1>3, FS_EmptySet, FS_CardinalityType
  <2> QED
    BY <1>3, <2>1, <2>2 DEF Loaded
<1> QED
  BY <1>2, <1>3

-----------------------------------------------------------------------------
(* Types *)

\* Where a caller of saveCurrentBlock or HandleSubmission holds poolQueueLock.
Inside == {"labelled", "closed", "writing", "saving"}

\* The lock is held by the thread that is at such a place, and by no other.
LockHeld ==
  /\ \A p \in Savers : lock = p <=> pc[p] \in Inside
  /\ lock = Worker <=> work \in {"scan", "credited", "move"}

\* Nothing is left of a process that does not run.
Stopped ==
  mode # "up" =>
    /\ queue = <<>> /\ userInfos = NoUsers /\ calculating = AtStart
    /\ work = "idle" /\ lock = NoOne /\ \A p \in Savers : pc[p] = "idle"

\* While the process runs a torn file is one that is being written.
TornHeld ==
  mode = "up" =>
    /\ usersFile = Torn => work = "credited"
    /\ \A f \in Files : blocks[f] = Torn =>
         \E p \in Savers : \/ pc[p] = "saving" /\ f = Current
                           \/ p \in IOThreads /\ pc[p] = "writing" /\ f = file[p]

\* What is being written is the rear of a queue that has one.
RearKept == \A p \in Savers : pc[p] \in {"writing", "saving"} => queue # <<>>

\* While the worker computes amounts it is at a round of the queue and a user of its list.
Placed ==
  /\ work # "calculate" => calculating.user = 0
  /\ work = "marking" \/ calculating.user # 0 => calculating.round \in 1..Len(queue)
  /\ calculating.user # 0 =>
       /\ calculating.user \in Users /\ queue[calculating.round].shares[calculating.user] > 0
       /\ calculating.total # 0

TypeInv == TypeOK /\ LockHeld /\ Stopped /\ TornHeld /\ RearKept /\ Placed

Places == [round : Nat, user : Users \cup {0}, shares : Nat, total : Nat, xpm : Nat]

LEMMA AtStartIsPlace ==
  AtStart \in Places /\ AtStart.user = 0
BY DEF AtStart, Places

LEMMA TypeInvInit ==
  ASSUME Init
  PROVE  TypeInv
<1>1. NoRound \in Round /\ <<>> \in Seq(Round)
  BY Constants, NewRoundIsRound DEF NoRound
<1>2. NoUsers \in UserInfos /\ NoUsers.named = {} /\ NoUsers.known = {}
  BY Constants, <1>1 DEF NoUsers, UserInfos
<1>3. KnownUsers # {} => usersFile \in UserInfos /\ usersFile.named = {}
  BY <1>1, Constants, LedgerAssumption DEF Init, NoUsers, UserInfos
<1>4. StartTip \in StartTip..MaxTip
  BY LedgerAssumption
<1>5. IsUsers(userInfos) /\ (usersFile = NoFile \/ IsUsers(usersFile))
  BY <1>2, <1>3 DEF Init, IsUsers
<1>6. TypeOK
  <2>1. pc \in [Savers -> {"idle", "mined", "labelled", "closed", "writing", "save", "saving"}]
    BY DEF Init
  <2>2. found \in [IOThreads -> Files] /\ file \in [IOThreads -> Files]
    BY Constants DEF Init
  <2>3. DOMAIN blocks = Files /\ \A f \in Files : blocks[f] = NoFile
    BY DEF Init
  <2>4. calculating \in Places
    BY AtStartIsPlace DEF Init
  <2> QED
    BY <1>1, <1>4, <1>5, <2>1, <2>2, <2>3, <2>4, Constants, Threads DEF Init, TypeOK, IsRounds, Places
<1>7. LockHeld /\ Stopped /\ RearKept
  BY Threads DEF Init, LockHeld, Stopped, RearKept, Inside
<1>8. TornHeld /\ Placed
  BY AtStartIsPlace DEF Init, TornHeld, Placed
<1> QED
  BY <1>6, <1>7, <1>8 DEF TypeInv

\* The values the initial state and a crash give the queue's and the users' variables.
LEMMA EmptyValues ==
  /\ NoRound \in Round /\ <<>> \in Seq(Round) /\ IsRounds(<<>>)
  /\ NoUsers \in UserInfos /\ IsUsers(NoUsers) /\ NoUsers.ledger = <<>>
  /\ NoUsers.balance = Nobody /\ NoUsers.named = {}
<1>1. NoRound \in Round /\ <<>> \in Seq(Round)
  BY Constants, NewRoundIsRound DEF NoRound
<1>2. NoUsers \in UserInfos /\ NoUsers.named = {} /\ NoUsers.known = {}
  BY Constants, <1>1 DEF NoUsers, UserInfos
<1> QED
  BY <1>1, <1>2 DEF IsRounds, IsUsers, NoUsers

LEMMA TypeInvDie ==
  ASSUME TypeInv, Die, UNCHANGED diskVars
  PROVE  TypeInv'
<1>1. TypeOK'
  <2>1. pc' \in [Savers -> {"idle", "mined", "labelled", "closed", "writing", "save", "saving"}]
    BY DEF Die
  <2>2. found' \in [IOThreads -> Files] /\ file' \in [IOThreads -> Files]
    BY Constants DEF Die
  <2>3. calculating' \in Places
    BY AtStartIsPlace DEF Die
  <2> QED
    BY <2>1, <2>2, <2>3, Constants, EmptyValues DEF Die, TypeOK, TypeInv, diskVars, Places
<1>2. (LockHeld /\ Stopped /\ RearKept)'
  BY Threads DEF Die, LockHeld, Stopped, RearKept, Inside
<1>3. TornHeld' /\ Placed'
  BY AtStartIsPlace DEF Die, TornHeld, Placed
<1> QED
  BY <1>1, <1>2, <1>3 DEF TypeInv

\* What StartPool reads is complete.
LEMMA StartPoolReads ==
  ASSUME TypeInv, StartPool
  PROVE  /\ nextId \in Nat /\ \A f \in Present : blocks[f] \in Round
         /\ queue' = calculateAllXPM(Loaded) /\ Loaded \in Seq(Round) /\ Loaded # <<>>
         /\ queue' \in Seq(Round) /\ Len(queue') = Len(Loaded)
         /\ usersFile # Torn /\ IsUsers(LoadedUsers) /\ userInfos' = LoadedUsers
         /\ usersFile # NoFile => LoadedUsers.ledger = usersFile.ledger
<1>1. nextId \in Nat /\ \A f \in Present : blocks[f] \in Round
  BY DEF TypeInv, TypeOK, StartPool, Present
<1>2. Loaded \in Seq(Round) /\ Loaded # <<>>
  BY <1>1, LoadedIsQueue
<1>3. queue' = calculateAllXPM(Loaded)
  BY DEF StartPool, Loaded, Present
<1>4. queue' \in Seq(Round) /\ Len(queue') = Len(Loaded)
  BY <1>2, <1>3, CalculatedAll
<1>6. IsUsers(LoadedUsers) /\ (usersFile # NoFile => LoadedUsers.ledger = usersFile.ledger)
  <2>1. CASE usersFile = NoFile
    BY <2>1, EmptyValues DEF LoadedUsers
  <2>2. CASE usersFile # NoFile
    <3>1. usersFile \in UserInfos
      BY <2>2 DEF TypeInv, TypeOK, StartPool, IsUsers
    <3> QED
      BY <2>2, <3>1 DEF LoadedUsers, IsUsers, UserInfos
  <2> QED
    BY <2>1, <2>2
<1> QED
  BY <1>1, <1>2, <1>3, <1>4, <1>6 DEF StartPool

LEMMA TypeInvStartPool ==
  ASSUME TypeInv, StartPool
  PROVE  TypeInv'
<1>1. TypeOK'
  <2>1. IsRounds(queue') /\ IsUsers(userInfos')
    BY StartPoolReads DEF IsRounds
  <2>2. nextId' \in Nat /\ mode' = "up" /\ seen' = tip
    BY StartPoolReads DEF StartPool
  <2>3. UNCHANGED <<crashes, tip, diskVars, accepted, lock, threadVars, work, taken, calculating>>
    BY DEF StartPool
  <2> QED
    BY <2>1, <2>2, <2>3 DEF TypeInv, TypeOK, diskVars, threadVars
<1>2. LockHeld' /\ Stopped'
  BY DEF StartPool, TypeInv, LockHeld, Stopped, threadVars
<1>3. RearKept'
  BY DEF StartPool, TypeInv, RearKept, Stopped, threadVars
<1>4. TornHeld' /\ Placed'
  BY AtStartIsPlace, NamesAssumption DEF StartPool, TornHeld, diskVars, TypeInv, Stopped, Placed
<1> QED
  BY <1>1, <1>2, <1>3, <1>4 DEF TypeInv

LEMMA TypeInvProcess ==
  ASSUME TypeInv, Crash \/ StartRefused \/ NewTip \/ UNCHANGED vars
  PROVE  TypeInv'
<1>1. CASE Crash
  BY <1>1, TypeInvDie DEF Crash
<1>2. CASE StartRefused
  BY <1>2 DEF StartRefused, TypeInv, TypeOK, LockHeld, Stopped, TornHeld, RearKept, Placed,
              diskVars, bookVars, threadVars, workVars
<1>3. CASE NewTip
  <2>1. tip' \in StartTip..MaxTip
    BY <1>3, LedgerAssumption DEF NewTip, TypeInv, TypeOK
  <2> QED
    BY <1>3, <2>1 DEF NewTip, TypeInv, TypeOK, LockHeld, Stopped, TornHeld, RearKept, Placed,
                      diskVars, bookVars, threadVars, workVars
<1>4. CASE UNCHANGED vars
  BY <1>4 DEF vars, TypeInv, TypeOK, LockHeld, Stopped, TornHeld, RearKept, Placed,
              diskVars, bookVars, threadVars, workVars
<1> QED
  BY <1>1, <1>2, <1>3, <1>4

\* A queue that is not empty has a rear, and what is saved of it is a Round.
LEMMA RearIsRound ==
  ASSUME NEW q \in Seq(Round), q # <<>>
  PROVE  /\ Len(q) \in Nat \ {0} /\ Len(q) \in 1..Len(q) /\ Last(q) = q[Len(q)]
         /\ Last(q) \in Round /\ SavedRound(Last(q)) \in Round
<1>1. Len(q) \in Nat \ {0} /\ Len(q) \in 1..Len(q) /\ Last(q) = q[Len(q)] /\ Last(q) \in Round
  BY DEF Last
<1> QED
  BY <1>1, Saved

LEMMA AddSharesTypes ==
  ASSUME TypeInv, NEW u \in Users
  PROVE  /\ IsRounds(addShares(queue, u, ShareLength))
         /\ [accepted EXCEPT ![u] = @ + calcShares(ShareLength)] \in [Users -> Nat]
         /\ calcShares(ShareLength) = 1
         /\ queue # <<>> <=> addShares(queue, u, ShareLength) # <<>>
<1>1. queue \in Seq(Round) /\ accepted \in [Users -> Nat]
  BY DEF TypeInv, TypeOK, IsRounds
<1>2. calcShares(ShareLength) = 1
  BY ShareWorth DEF ShareLength, MIN_CHAIN_LENGTH
<1>3. /\ addShares(queue, u, ShareLength) \in Seq(Round)
      /\ Len(addShares(queue, u, ShareLength)) = Len(queue)
  BY <1>1, AddedShares
<1> QED
  BY <1>1, <1>2, <1>3 DEF IsRounds

\* What the end of a round leaves in the queue.
LEMMA BeginRoundTypes ==
  ASSUME TypeInv, NEW t, BeginRound(t)
  PROVE  /\ queue' \in Seq(Round) /\ Len(queue') = Len(queue) + 1
         /\ queue' = calculateAllXPM(newBlock(queue, nextId, 0))
         /\ \A i \in 1..Len(queue) : queue'[i] = IF NeedsCalculation(queue[i])
                                                 THEN calculateXPMPerUser(queue[i]) ELSE queue[i]
         /\ queue'[Len(queue) + 1] = NewRound(nextId, 0)
<1> DEFINE n == newBlock(queue, nextId, 0)
<1>1. queue \in Seq(Round) /\ nextId \in Nat
  BY DEF TypeInv, TypeOK, IsRounds
<1>2. /\ n \in Seq(Round) /\ Len(n) = Len(queue) + 1 /\ \A i \in 1..Len(queue) : n[i] = queue[i]
      /\ n[Len(queue) + 1] = NewRound(nextId, 0)
  BY <1>1, BlockAdded
<1>3. queue' = calculateAllXPM(n)
  BY DEF BeginRound
<1> HIDE DEF n
<1>4. /\ queue' \in Seq(Round) /\ Len(queue') = Len(n)
      /\ \A i \in 1..Len(n) : queue'[i] = IF NeedsCalculation(n[i])
                                           THEN calculateXPMPerUser(n[i]) ELSE n[i]
  BY <1>2, <1>3, CalculatedAll
<1>5. Len(queue) \in Nat /\ Len(queue) + 1 \in 1..Len(n) /\ \A i \in 1..Len(queue) : i \in 1..Len(n)
  BY <1>1, <1>2
<1>6. ~NeedsCalculation(NewRound(nextId, 0))
  BY DEF NeedsCalculation, NewRound
<1> QED
  BY <1>2, <1>3, <1>4, <1>5, <1>6 DEF n

\* A handler takes neither rounds nor shares away.
LEMMA HandlerAdds ==
  ASSUME TypeInv, NEW t \in IOThreads, Handler(t)
  PROVE  /\ Len(queue) \in Nat /\ Len(queue') \in Nat /\ Len(queue) <= Len(queue')
         /\ \A i \in 1..Len(queue), u \in Users :
              /\ queue[i].shares[u] \in Nat /\ queue'[i].shares[u] \in Nat
              /\ queue[i].shares[u] <= queue'[i].shares[u]
<1>1. queue \in Seq(Round) /\ Len(queue) \in Nat
      /\ \A i \in 1..Len(queue) : queue[i] \in Round
  BY DEF TypeInv, TypeOK, IsRounds
<1>2. \A i \in 1..Len(queue), u \in Users : queue[i].shares[u] \in Nat
  BY <1>1 DEF Round
<1>3. ASSUME NEW v \in Users, queue' = addShares(queue, v, ShareLength)
      PROVE  /\ Len(queue') = Len(queue)
             /\ \A i \in 1..Len(queue), u \in Users :
                  queue'[i].shares[u] \in {queue[i].shares[u], queue[i].shares[u] + 1}
  <2>1. /\ Len(queue') = Len(queue)
        /\ \A i \in 1..Len(queue) : queue'[i] = queue[i] \/ queue'[i] = WithShare(queue[i], v)
    BY <1>1, <1>3, AddedShares
  <2>2. ASSUME NEW i \in 1..Len(queue), NEW u \in Users
        PROVE  WithShare(queue[i], v).shares[u] \in {queue[i].shares[u], queue[i].shares[u] + 1}
    <3> DEFINE r == queue[i]
    <3>1. r \in Round
      BY <1>1
    <3> HIDE DEF r
    <3>2. WithShare(r, v).shares = [r.shares EXCEPT ![v] = r.shares[v] + 1]
      BY <3>1, WithShareFields
    <3>3. r.shares \in [Users -> Nat]
      BY <3>1 DEF Round
    <3>4. WithShare(r, v).shares[u] \in {r.shares[u], r.shares[u] + 1}
      BY <3>2, <3>3
    <3> QED
      BY <3>4 DEF r
  <2> QED
    BY <2>1, <2>2
<1>4. CASE \E u \in Users : AddShares(t, u) \/ AddFinderShares(t, u)
  <2>1. PICK v \in Users : queue' = addShares(queue, v, ShareLength)
    BY <1>4 DEF AddShares, AddFinderShares
  <2>2. /\ Len(queue') = Len(queue)
        /\ \A i \in 1..Len(queue), u \in Users :
             queue'[i].shares[u] \in {queue[i].shares[u], queue[i].shares[u] + 1}
    BY <1>3, <2>1
  <2> QED
    BY <1>1, <1>2, <2>2
<1>5. CASE MineBlock(t) \/ OpenRoundFile(t) \/ SaveNothing(t)
  BY <1>1, <1>2, <1>5 DEF MineBlock, OpenRoundFile, SaveNothing, bookVars
<1>6. CASE LabelRound(t)
  <2>1. queue' = setFound(queue, tip, Reward, found[t]) /\ tip \in Files /\ found[t] \in Files
    BY <1>6, Constants DEF LabelRound, TypeInv, TypeOK
  <2>2. /\ Len(queue') = Len(queue)
        /\ \A i \in 1..Len(queue) :
             queue'[i] = queue[i] \/ queue'[i] = Labelled(queue[i], tip, Reward, found[t])
    BY <1>1, <2>1, FoundSet
  <2>3. \A i \in 1..Len(queue) : queue'[i].shares = queue[i].shares
    <3>1. \A i \in 1..Len(queue) : Labelled(queue[i], tip, Reward, found[t]).shares = queue[i].shares
      BY <1>1 DEF Labelled, Round
    <3> QED
      BY <2>2, <3>1
  <2> QED
    BY <1>1, <1>2, <2>2, <2>3
<1>7. CASE BeginRound(t)
  <2>1. /\ Len(queue') = Len(queue) + 1
        /\ \A i \in 1..Len(queue) : queue'[i] = queue[i] \/ queue'[i] = calculateXPMPerUser(queue[i])
    BY <1>7, BeginRoundTypes
  <2>2. \A i \in 1..Len(queue) : queue'[i].shares = queue[i].shares
    <3>1. \A i \in 1..Len(queue) : calculateXPMPerUser(queue[i]).shares = queue[i].shares
      BY <1>1, Calculated, WithPayFields
    <3> QED
      BY <2>1, <3>1
  <2> QED
    BY <1>1, <1>2, <2>1, <2>2
<1> QED
  BY <1>4, <1>5, <1>6, <1>7 DEF Handler

LEMMA PlacedWithHandler ==
  ASSUME TypeInv, NEW t \in IOThreads, Handler(t)
  PROVE  Placed'
<1>1. UNCHANGED <<work, calculating>>
  BY DEF Handler, AddShares, MineBlock, LabelRound, AddFinderShares, OpenRoundFile, BeginRound,
         SaveNothing, workVars
<1>2. Placed
  BY DEF TypeInv
<1> QED
  BY <1>1, <1>2, HandlerAdds DEF Placed

LEMMA TypeInvHandler ==
  ASSUME TypeInv, NEW t \in IOThreads, Handler(t)
  PROVE  TypeInv'
<1> USE DEF TypeInv
<1>0. t \in Savers /\ t # NoOne /\ t # Worker /\ t # Saver
  BY Threads
<1>00. Placed'
  BY PlacedWithHandler
<1>1. ASSUME NEW u \in Users, AddShares(t, u)
      PROVE  TypeInv'
  <2>1. TypeOK'
    BY <1>1, AddSharesTypes DEF AddShares, TypeOK, diskVars, threadVars, workVars
  <2>2. (LockHeld /\ Stopped /\ TornHeld)'
    BY <1>1 DEF AddShares, LockHeld, Stopped, TornHeld, diskVars, threadVars, workVars
  <2>3. RearKept'
    BY <1>1, AddSharesTypes DEF AddShares, RearKept, threadVars
  <2> QED
    BY <1>00, <2>1, <2>2, <2>3
<1>2. ASSUME NEW u \in Users, AddFinderShares(t, u)
      PROVE  TypeInv'
  <2>1. TypeOK'
    BY <1>0, <1>2, AddSharesTypes DEF AddFinderShares, TypeOK, diskVars, workVars
  <2>2. (LockHeld /\ Stopped /\ TornHeld)'
    BY <1>0, <1>2 DEF AddFinderShares, TypeOK, LockHeld, Stopped, TornHeld, Inside, diskVars, workVars
  <2>3. RearKept'
    BY <1>0, <1>2, AddSharesTypes DEF AddFinderShares, TypeOK, RearKept
  <2> QED
    BY <1>00, <2>1, <2>2, <2>3
<1>3. CASE MineBlock(t)
  <2>1. tip' \in StartTip..MaxTip /\ tip' \in Files
    <3>1. tip' \in StartTip..MaxTip
      BY <1>3, LedgerAssumption DEF MineBlock, TypeOK
    <3> QED
      BY <3>1, Constants
  <2>2. TypeOK'
    BY <1>0, <1>3, <2>1 DEF MineBlock, TypeOK, diskVars, bookVars, workVars
  <2>3. (LockHeld /\ Stopped /\ TornHeld /\ RearKept)'
    BY <1>0, <1>3 DEF MineBlock, TypeOK, LockHeld, Stopped, TornHeld, RearKept, Inside,
                      diskVars, bookVars, workVars
  <2> QED
    BY <1>00, <2>2, <2>3
<1>4. CASE LabelRound(t)
  <2>1. IsRounds(queue')
    <3>1. queue \in Seq(Round) /\ tip \in Files /\ found[t] \in Files
      BY Constants DEF TypeOK, IsRounds
    <3> QED
      BY <1>4, <3>1, FoundSet DEF LabelRound, IsRounds
  <2>2. TypeOK'
    BY <1>0, <1>4, <2>1, SMTT(30) DEF LabelRound, TypeOK, diskVars, workVars
  <2>3. /\ lock = NoOne /\ lock' = t /\ pc[t] = "mined" /\ pc' = [pc EXCEPT ![t] = "labelled"]
        /\ mode = "up" /\ UNCHANGED <<mode, usersFile, blocks, work, file>> /\ DOMAIN pc = Savers
    BY <1>4 DEF LabelRound, CanLock, TypeOK, diskVars, workVars
  <2>4. LockHeld' /\ Stopped'
    BY <1>0, <2>3, Threads DEF LockHeld, Stopped, Inside
  <2>5. \A p \in Savers : pc[p] \notin {"writing", "saving"}
    BY <1>0, <2>3, Threads DEF LockHeld, Inside
  <2>6. TornHeld'
    BY <2>3, <2>5 DEF TornHeld
  <2>7. RearKept'
    BY <1>0, <2>3, <2>5 DEF RearKept
  <2> QED
    BY <1>00, <2>2, <2>4, <2>6, <2>7
<1>5. CASE OpenRoundFile(t)
  <2>1. tip \in Files
    BY Constants DEF TypeOK
  <2>2. TypeOK'
    BY <1>0, <1>5, <2>1 DEF OpenRoundFile, TypeOK, bookVars, workVars
  <2>3. LockHeld' /\ Stopped'
    BY <1>0, <1>5 DEF OpenRoundFile, TypeOK, LockHeld, Stopped, Inside, bookVars, workVars
  <2>4. TornHeld'
    BY <1>0, <1>5, <2>1 DEF OpenRoundFile, TypeOK, TornHeld, bookVars, workVars
  <2>5. RearKept'
    BY <1>0, <1>5 DEF OpenRoundFile, TypeOK, RearKept, SavesCurrent, bookVars, workVars
  <2> QED
    BY <1>00, <2>2, <2>3, <2>4, <2>5
<1>6. CASE BeginRound(t)
  <2>1. IsRounds(queue') /\ queue' # <<>> /\ nextId' \in Nat
    <3>1. queue' \in Seq(Round) /\ Len(queue') = Len(queue) + 1
      BY <1>6, BeginRoundTypes
    <3>2. Len(queue) \in Nat /\ Len(<<>>) = 0
      BY DEF TypeOK, IsRounds
    <3> QED
      BY <1>6, <3>1, <3>2 DEF IsRounds, BeginRound, TypeOK
  <2>2. /\ DOMAIN blocks' = Files
        /\ \A f \in Files : \/ blocks'[f] = blocks[f] /\ ~(pc[t] = "writing" /\ f = file[t])
                            \/ blocks'[f] \in Round
    <3>1. CASE pc[t] = "writing" /\ blocks' = [blocks EXCEPT ![file[t]] = SavedRound(Last(queue))]
      <4>1. queue # <<>> /\ queue \in Seq(Round)
        BY <1>0, <3>1 DEF RearKept, TypeOK, IsRounds
      <4>2. SavedRound(Last(queue)) \in Round
        BY <4>1, RearIsRound
      <4> QED
        BY <3>1, <4>2 DEF TypeOK
    <3>2. CASE pc[t] = "closed" /\ UNCHANGED blocks
      BY <3>2 DEF TypeOK
    <3> QED
      BY <1>6, <3>1, <3>2 DEF BeginRound
  <2>3. TypeOK'
    BY <1>0, <1>6, <2>1, <2>2, Threads DEF BeginRound, TypeOK, workVars
  <2>4. LockHeld' /\ Stopped'
    <3>1. lock = t
      BY <1>0, <1>6 DEF BeginRound, LockHeld, Inside
    <3> QED
      BY <1>0, <1>6, <3>1, Threads DEF BeginRound, TypeOK, LockHeld, Stopped, Inside, workVars
  <2>5. TornHeld'
    <3>1. usersFile' = usersFile /\ work' = work /\ file' = file /\ mode' = "up" /\ mode = "up"
      BY <1>6 DEF BeginRound, workVars
    <3>2. ASSUME NEW f \in Files, blocks'[f] = Torn
          PROVE  \E p \in Savers : \/ pc'[p] = "saving" /\ f = Current
                                   \/ p \in IOThreads /\ pc'[p] = "writing" /\ f = file'[p]
      <4>1. blocks[f] = Torn /\ ~(pc[t] = "writing" /\ f = file[t])
        BY <2>2, <3>2, NamesAssumption
      <4>2. PICK p \in Savers : \/ pc[p] = "saving" /\ f = Current
                                \/ p \in IOThreads /\ pc[p] = "writing" /\ f = file[p]
        BY <3>1, <4>1 DEF TornHeld
      <4>3. p # t
        BY <1>6, <4>1, <4>2 DEF BeginRound
      <4>4. pc'[p] = pc[p]
        BY <1>6, <4>3 DEF BeginRound, TypeOK
      <4> QED
        BY <3>1, <4>2, <4>4
    <3> QED
      BY <3>1, <3>2 DEF TornHeld
  <2>6. RearKept'
    BY <1>0, <1>6, <2>1 DEF RearKept
  <2> QED
    BY <1>00, <2>3, <2>4, <2>5, <2>6
<1>7. CASE SaveNothing(t)
  <2>1. TypeOK'
    BY <1>0, <1>7 DEF SaveNothing, TypeOK, diskVars, bookVars, workVars
  <2>2. (LockHeld /\ Stopped /\ TornHeld /\ RearKept)'
    BY <1>0, <1>7 DEF SaveNothing, TypeOK, LockHeld, Stopped, TornHeld, RearKept, Inside,
                      diskVars, bookVars, workVars
  <2> QED
    BY <1>00, <2>1, <2>2
<1> QED
  BY <1>1, <1>2, <1>3, <1>4, <1>5, <1>6, <1>7 DEF Handler

LEMMA TypeInvSave ==
  ASSUME TypeInv, NEW p \in Savers, SaveCurrent(p)
  PROVE  TypeInv'
<1> USE DEF TypeInv
<1>0. p # NoOne /\ p # Worker
  BY Threads
<1>00. Placed'
  BY DEF SaveCurrent, OpenCurrent, WriteCurrent, bookVars, workVars, Placed
<1>1. CASE OpenCurrent(p)
  <2>1. pc[p] \notin Inside /\ lock = NoOne /\ queue # <<>>
    BY <1>1 DEF OpenCurrent, AtSave, Inside, CanLock, SavesCurrent
  <2>2. TypeOK'
    BY <1>0, <1>1, Constants DEF OpenCurrent, TypeOK, bookVars, workVars
  <2>3. LockHeld' /\ Stopped'
    BY <1>0, <1>1, <2>1, Threads DEF OpenCurrent, TypeOK, LockHeld, Stopped, Inside, bookVars, workVars
  <2>4. TornHeld'
    BY <1>1, <2>1 DEF OpenCurrent, TypeOK, TornHeld, Inside, bookVars, workVars
  <2>5. RearKept'
    BY <1>1, <2>1 DEF OpenCurrent, TypeOK, RearKept, bookVars
  <2> QED
    BY <1>00, <2>2, <2>3, <2>4, <2>5
<1>2. CASE WriteCurrent(p)
  <2>1. lock = p /\ queue # <<>> /\ queue \in Seq(Round)
    BY <1>2 DEF WriteCurrent, LockHeld, Inside, RearKept, TypeOK, IsRounds
  <2>2. SavedRound(Last(queue)) \in Round
    BY <2>1, RearIsRound
  <2>3. /\ DOMAIN blocks' = Files
        /\ blocks'[Current] \in Round /\ \A f \in Files \ {Current} : blocks'[f] = blocks[f]
    BY <1>2, <2>2, Constants DEF WriteCurrent, TypeOK
  <2>4. TypeOK'
    BY <1>0, <1>2, <2>3, Threads DEF WriteCurrent, TypeOK, bookVars, workVars
  <2>5. LockHeld' /\ Stopped'
    BY <1>0, <1>2, <2>1, Threads DEF WriteCurrent, TypeOK, LockHeld, Stopped, Inside, bookVars, workVars
  <2>6. TornHeld'
    <3>1. /\ usersFile' = usersFile /\ work' = work /\ file' = file /\ mode' = "up" /\ mode = "up"
          /\ pc[p] = "saving" /\ \A q \in Savers \ {p} : pc'[q] = pc[q]
      BY <1>2 DEF WriteCurrent, workVars, TypeOK
    <3>2. ASSUME NEW f \in Files, blocks'[f] = Torn
          PROVE  \E q \in Savers : \/ pc'[q] = "saving" /\ f = Current
                                   \/ q \in IOThreads /\ pc'[q] = "writing" /\ f = file'[q]
      <4>1. blocks[f] = Torn /\ f # Current
        BY <2>3, <3>2, NamesAssumption
      <4>2. PICK q \in Savers : q \in IOThreads /\ pc[q] = "writing" /\ f = file[q]
        BY <3>1, <4>1 DEF TornHeld
      <4> QED
        BY <3>1, <4>2
    <3> QED
      BY <3>1, <3>2 DEF TornHeld
  <2>7. RearKept'
    BY <1>2 DEF WriteCurrent, TypeOK, RearKept, bookVars
  <2> QED
    BY <1>00, <2>4, <2>5, <2>6, <2>7
<1> QED
  BY <1>1, <1>2 DEF SaveCurrent

\* The round that is credited, with its amounts, and the users it is credited to.
Credited == IF Head(queue).calculated THEN Head(queue) ELSE calculateXPMPerUser(Head(queue))

LEMMA CreditTypes ==
  ASSUME TypeInv, CreditRound
  PROVE  /\ queue \in Seq(Round) /\ Len(queue) \in Nat \ {0} /\ Head(queue) = queue[1]
         /\ Head(queue) \in Round /\ Credited \in Round
         /\ Credited = WithPay(Head(queue), Credited)
         /\ queue' \in Seq(Round) /\ Len(queue') = Len(queue) - 1
         /\ \A i \in 1..Len(queue') : queue'[i] = queue[i + 1]
         /\ taken' = Credited
         /\ IsUsers(userInfos')
         /\ userInfos'.ledger = Append(userInfos.ledger, Credited)
         /\ userInfos'.balance = [u \in Users |-> userInfos.balance[u] + Credited.pay[u]]
<1>1. queue \in Seq(Round) /\ queue # <<>> /\ userInfos \in UserInfos
      /\ userInfos.named \subseteq userInfos.known
  BY DEF TypeInv, TypeOK, IsRounds, IsUsers, CreditRound
<1>2. Len(queue) \in Nat \ {0} /\ Head(queue) = queue[1] /\ Head(queue) \in Round
  BY <1>1
<1>3. Credited \in Round /\ Credited = WithPay(Head(queue), Credited)
  <2>1. Head(queue) = WithPay(Head(queue), Head(queue))
    BY <1>2 DEF WithPay, Round
  <2>2. /\ calculateXPMPerUser(Head(queue)) \in Round
        /\ calculateXPMPerUser(Head(queue)) = WithPay(Head(queue), calculateXPMPerUser(Head(queue)))
    BY <1>2, Calculated
  <2> QED
    BY <1>2, <2>1, <2>2 DEF Credited
<1>4. /\ queue' \in Seq(Round) /\ Len(queue') = Len(queue) - 1
      /\ \A i \in 1..Len(queue') : queue'[i] = queue[i + 1]
  BY <1>1 DEF CreditRound, deq
<1>5. /\ taken' = Credited
      /\ userInfos' = [userInfos EXCEPT
                         !.known = userInfos.known \cup UserList(Credited),
                         !.balance = [u \in Users |-> userInfos.balance[u] + Credited.pay[u]],
                         !.ledger = Append(userInfos.ledger, Credited)]
  BY DEF CreditRound, Credited
<1>6. /\ userInfos.known \cup UserList(Credited) \in SUBSET Users
      /\ [u \in Users |-> userInfos.balance[u] + Credited.pay[u]] \in [Users -> Nat]
      /\ Append(userInfos.ledger, Credited) \in Seq(Round)
  <2>1. /\ userInfos.known \in SUBSET Users /\ userInfos.balance \in [Users -> Nat]
        /\ userInfos.ledger \in Seq(Round)
    BY <1>1 DEF UserInfos
  <2>2. Credited.pay \in [Users -> Nat] /\ UserList(Credited) \subseteq Users
    BY <1>3 DEF UserList, Round
  <2> QED
    BY <1>3, <2>1, <2>2
<1>7. /\ IsUsers(userInfos')
      /\ userInfos'.ledger = Append(userInfos.ledger, Credited)
      /\ userInfos'.balance = [u \in Users |-> userInfos.balance[u] + Credited.pay[u]]
  <2> HIDE DEF Credited
  <2> DEFINE k == userInfos.known \cup UserList(Credited)
             b == [u \in Users |-> userInfos.balance[u] + Credited.pay[u]]
             l == Append(userInfos.ledger, Credited)
  <2>1. userInfos' = [userInfos EXCEPT !.known = k, !.balance = b, !.ledger = l]
    BY <1>5
  <2>2. k \in SUBSET Users /\ b \in [Users -> Nat] /\ l \in Seq(Round) /\ userInfos.known \subseteq k
    BY <1>6
  <2> HIDE DEF k, b, l
  <2>3. userInfos' \in UserInfos /\ userInfos'.named \subseteq userInfos'.known
        /\ userInfos'.ledger = l /\ userInfos'.balance = b
    BY <1>1, <2>1, <2>2 DEF UserInfos
  <2> QED
    BY <2>3 DEF IsUsers, b, l
<1> QED
  BY <1>1, <1>2, <1>3, <1>4, <1>5, <1>7

\* What the worker reads of a round when it comes to a user of its list.
LEMMA ReadingTypes ==
  ASSUME TypeInv, NEW i \in 1..Len(queue), UserList(queue[i]) # {}
  PROVE  /\ RunningTotal(queue[i]) \in Nat \ {0}
         /\ \A S \in SUBSET UserList(queue[i]) : S # {} => Min(S) \in UserList(queue[i])
         /\ \A u \in UserList(queue[i]), t \in Nat : Reading(i, u, t) \in Places
<1>1. /\ queue[i] \in Round /\ queue[i].shares \in [Users -> Nat] /\ queue[i].xpm \in Nat
      /\ i \in Nat
  <2>1. queue \in Seq(Round)
    BY DEF TypeInv, TypeOK, IsRounds
  <2>2. queue[i] \in Round /\ i \in Nat
    BY <2>1
  <2> QED
    BY <2>2 DEF Round
<1>2. UserList(queue[i]) \subseteq Users /\ \A u \in UserList(queue[i]) : queue[i].shares[u] > 0
  BY DEF UserList
<1>3. RunningTotal(queue[i]) \in Nat /\ \A u \in Users : queue[i].shares[u] <= RunningTotal(queue[i])
  BY <1>1, Constants, TotalOfRound
<1>4. RunningTotal(queue[i]) \in Nat \ {0}
  <2> DEFINE total == RunningTotal(queue[i])
  <2>1. PICK u \in Users : queue[i].shares[u] > 0
    BY <1>2
  <2>2. queue[i].shares[u] \in Nat /\ total \in Nat /\ queue[i].shares[u] <= total
    BY <1>1, <1>3
  <2> HIDE DEF total
  <2> QED
    BY <2>1, <2>2 DEF total
<1>5. ASSUME NEW S \in SUBSET UserList(queue[i]), S # {}
      PROVE  Min(S) \in UserList(queue[i])
  <2>1. S \subseteq Nat
    BY <1>2, NamesOrder
  <2>2. Min(S) \in S
    BY <1>5, <2>1, MinIsLeast
  <2> QED
    BY <2>2
<1>6. ASSUME NEW u \in UserList(queue[i]), NEW t \in Nat
      PROVE  Reading(i, u, t) \in Places
  <2>1. u \in Users /\ queue[i].shares[u] \in Nat
    BY <1>1, <1>2
  <2> QED
    BY <1>1, <2>1 DEF Reading, Places
<1> QED
  BY <1>4, <1>5, <1>6

\* A round in which only amounts of its users were stored.
OnlyPaid(r, s) ==
  /\ s \in Round /\ s.id = r.id /\ s.height = r.height /\ s.xpm = r.xpm
  /\ s.shares = r.shares /\ s.block = r.block
  /\ \A u \in Users : s.pay[u] = r.pay[u] \/ r.shares[u] # 0

LEMMA ComputedTypes ==
  ASSUME TypeInv, StoreXPM \/ MarkCalculated
  PROVE  /\ queue \in Seq(Round) /\ queue' \in Seq(Round) /\ Len(queue') = Len(queue)
         /\ \A i \in 1..Len(queue) : OnlyPaid(queue[i], queue'[i])
<1> DEFINE n == calculating.round
           u == calculating.user
<1>1. queue \in Seq(Round) /\ DOMAIN queue = 1..Len(queue) /\ n \in 1..Len(queue)
  BY DEF TypeInv, TypeOK, IsRounds, Placed, StoreXPM, MarkCalculated
<1>2. queue[n] \in Round /\ \A i \in 1..Len(queue) : OnlyPaid(queue[i], queue[i])
  <2>1. \A i \in 1..Len(queue) : queue[i] \in Round
    BY <1>1
  <2> QED
    BY <1>1, <2>1 DEF OnlyPaid
<1>3. ASSUME NEW s, OnlyPaid(queue[n], s), queue' = [queue EXCEPT ![n] = s]
      PROVE  /\ queue' \in Seq(Round) /\ Len(queue') = Len(queue)
             /\ \A i \in 1..Len(queue) : OnlyPaid(queue[i], queue'[i])
  <2> HIDE DEF n
  <2>1. s \in Round
    BY <1>3 DEF OnlyPaid
  <2>2. queue' \in Seq(Round) /\ Len(queue') = Len(queue)
        /\ \A i \in 1..Len(queue) : queue'[i] = IF i = n THEN s ELSE queue[i]
    BY <1>1, <1>3, <2>1
  <2> QED
    BY <1>2, <1>3, <2>2
<1>4. CASE MarkCalculated
  <2> DEFINE s == [queue[n] EXCEPT !.calculated = TRUE]
  <2>1. queue' = [queue EXCEPT ![n] = s]
    BY <1>4 DEF MarkCalculated
  <2>2. OnlyPaid(queue[n], s)
    BY <1>2 DEF OnlyPaid, Round
  <2> QED
    BY <1>1, <1>3, <2>1, <2>2
<1>5. CASE StoreXPM
  <2>1. PICK total \in {calculating.total, RunningTotal(queue[n])},
             xpm \in {calculating.xpm, queue[n].xpm} :
          queue' = [queue EXCEPT ![n].pay[u] = Portion(xpm, calculating.shares, total)]
    BY <1>5 DEF StoreXPM
  <2>2. u # 0 /\ u \in Users /\ queue[n].shares[u] > 0 /\ calculating.total # 0
        /\ calculating \in Places
    BY <1>5 DEF StoreXPM, TypeInv, Placed, TypeOK, Places
  <2>3. UserList(queue[n]) # {}
    BY <2>2 DEF UserList
  <2>4. total \in Nat \ {0} /\ xpm \in Nat /\ calculating.shares \in Nat
    BY <1>1, <1>2, <2>2, <2>3, ReadingTypes DEF Places, Round
  <2> DEFINE v == Portion(xpm, calculating.shares, total)
             s == [queue[n] EXCEPT !.pay[u] = v]
  <2>5. v \in Nat
    BY <2>4, PortionIsNat
  <2>6. queue' = [queue EXCEPT ![n] = s]
    BY <2>1
  <2>7. OnlyPaid(queue[n], s)
    <3> HIDE DEF v
    <3>1. queue[n].pay \in [Users -> Nat]
      BY <1>2 DEF Round
    <3>2. [queue[n].pay EXCEPT ![u] = v] \in [Users -> Nat]
      BY <2>5, <3>1
    <3>3. s \in Round
      BY <1>2, <3>2 DEF Round
    <3>4. \A w \in Users : s.pay[w] = queue[n].pay[w] \/ w = u
      BY <1>2, <3>1 DEF Round
    <3>5. queue[n].shares[u] # 0
      BY <1>2, <2>2 DEF Round
    <3>6. /\ s.id = queue[n].id /\ s.height = queue[n].height /\ s.xpm = queue[n].xpm
          /\ s.shares = queue[n].shares /\ s.block = queue[n].block
      BY <1>2 DEF Round
    <3> QED
      BY <3>3, <3>4, <3>5, <3>6 DEF OnlyPaid
  <2> HIDE DEF s
  <2> QED
    BY <1>1, <1>3, <2>6, <2>7
<1> QED
  BY <1>1, <1>4, <1>5

\* Where the worker is after each step of the calculation.
LEMMA PlacedWithWorker ==
  ASSUME TypeInv, NextRound \/ StoreXPM \/ MarkCalculated \/ LeaveCalculation
  PROVE  calculating' \in Places /\ Placed'
<1>0. calculating \in Places /\ Placed
  BY DEF TypeInv, TypeOK, Places
<1>1. CASE NextRound
  <2> DEFINE i == Min(ToCalculate)
             u == Min(UserList(queue[i]))
             t == RunningTotal(queue[i])
  <2>1. ToCalculate \subseteq 1..Len(queue) /\ ToCalculate \subseteq Nat /\ ToCalculate # {}
    <3>1. queue \in Seq(Round) /\ ToCalculate # {}
      BY <1>1 DEF NextRound, TypeInv, TypeOK, IsRounds
    <3>2. DOMAIN queue = 1..Len(queue) /\ 1..Len(queue) \subseteq Nat
      BY <3>1
    <3> QED
      BY <3>1, <3>2 DEF ToCalculate
  <2>2. i \in ToCalculate
    BY <2>1, MinIsLeast
  <2>3. i \in 1..Len(queue) /\ UserList(queue[i]) # {}
    BY <2>1, <2>2 DEF ToCalculate
  <2>4. calculating' = Reading(i, u, t) /\ queue' = queue /\ work' = "calculate"
    BY <1>1 DEF NextRound, bookVars, workVars
  <2> HIDE DEF i
  <2>5. u \in UserList(queue[i]) /\ t \in Nat \ {0}
    BY <2>3, ReadingTypes
  <2>6. Reading(i, u, t) \in Places
    BY <2>3, <2>5, ReadingTypes
  <2>7. u \in Users /\ queue[i].shares[u] > 0
    BY <2>5 DEF UserList
  <2>8. /\ Reading(i, u, t).round = i /\ Reading(i, u, t).user = u /\ Reading(i, u, t).total = t
    BY DEF Reading
  <2> HIDE DEF u, t
  <2> QED
    BY <2>3, <2>4, <2>5, <2>6, <2>7, <2>8 DEF Placed
<1>2. CASE StoreXPM
  <2> DEFINE i == calculating.round
             later == UsersAfter(queue[i], calculating.user)
             u == Min(later)
             t == calculating.total
  <2>1. i \in 1..Len(queue) /\ t \in Nat \ {0}
    BY <1>0, <1>2 DEF StoreXPM, Placed, Places
  <2>2. /\ Len(queue') = Len(queue) /\ queue'[i].shares = queue[i].shares
    BY <1>2, <2>1, ComputedTypes DEF OnlyPaid
  <2>3. CASE later # {} /\ calculating' = Reading(i, u, t) /\ work' = work
    <3>1. later \in SUBSET UserList(queue[i]) /\ UserList(queue[i]) # {}
      BY <2>3 DEF UsersAfter
    <3> HIDE DEF i, later, t
    <3>2. u \in UserList(queue[i])
      BY <2>1, <2>3, <3>1, ReadingTypes
    <3>3. Reading(i, u, t) \in Places
      BY <2>1, <3>1, <3>2, ReadingTypes
    <3>4. u \in Users /\ queue[i].shares[u] > 0
      BY <3>2 DEF UserList
    <3>5. /\ Reading(i, u, t).round = i /\ Reading(i, u, t).user = u /\ Reading(i, u, t).total = t
      BY DEF Reading
    <3>6. work = "calculate"
      BY <1>2 DEF StoreXPM
    <3> HIDE DEF u
    <3> QED
      BY <2>1, <2>2, <2>3, <3>3, <3>4, <3>5, <3>6 DEF Placed
  <2>4. CASE calculating' = [AtStart EXCEPT !.round = i] /\ work' = "marking"
    <3>1. i \in Nat
      BY <1>0 DEF Places
    <3>2. calculating' \in Places /\ calculating'.user = 0 /\ calculating'.round = i
      BY <2>4, <3>1 DEF AtStart, Places
    <3> HIDE DEF i
    <3> QED
      BY <2>1, <2>2, <2>4, <3>2 DEF Placed
  <2> QED
    BY <1>2, <2>3, <2>4 DEF StoreXPM
<1>3. CASE MarkCalculated
  <2>1. Len(queue') = Len(queue) /\ calculating' = calculating /\ calculating.user = 0
    BY <1>0, <1>3, ComputedTypes DEF MarkCalculated, Placed
  <2> QED
    BY <1>0, <1>3, <2>1 DEF Placed, MarkCalculated
<1>4. CASE LeaveCalculation
  BY <1>4, AtStartIsPlace DEF LeaveCalculation, Placed
<1> QED
  BY <1>1, <1>2, <1>3, <1>4

LEMMA TypeInvWorker ==
  ASSUME TypeInv, WakeWorker \/ ProcessBalances
  PROVE  TypeInv'
<1> USE DEF TypeInv
<1>0. Worker \notin Savers /\ NoOne \notin Savers /\ Worker # NoOne
  BY Threads
<1>00. WakeWorker \/ EnterProcessBalances \/ CreditRound \/ WriteUsers \/ MoveRoundFile \/ MoveFails
       \/ LeaveScan \/ NoPayout \/ SendPayouts => Placed'
  <2>1. ASSUME WakeWorker \/ EnterProcessBalances \/ CreditRound \/ WriteUsers \/ MoveRoundFile \/ MoveFails
               \/ LeaveScan \/ NoPayout \/ SendPayouts
        PROVE  /\ calculating' = calculating \/ calculating' = AtStart
               /\ work # "calculate" /\ work' # "marking"
    BY <2>1 DEF WakeWorker, EnterProcessBalances, CreditRound, WriteUsers, MoveRoundFile, MoveFails,
                LeaveScan, NoPayout, SendPayouts
  <2> QED
    BY <2>1, AtStartIsPlace DEF Placed
<1>1. CASE WakeWorker
  <2>1. TypeOK'
    BY <1>1 DEF WakeWorker, TypeOK, diskVars, bookVars, threadVars
  <2>2. (LockHeld /\ Stopped /\ TornHeld /\ RearKept)'
    BY <1>1 DEF WakeWorker, TypeOK, LockHeld, Stopped, TornHeld, RearKept,
                diskVars, bookVars, threadVars
  <2> QED
    BY <1>00, <1>1, <2>1, <2>2
<1>2. CASE EnterProcessBalances
  <2>1. TypeOK'
    BY <1>2 DEF EnterProcessBalances, TypeOK, diskVars, bookVars, threadVars
  <2>2. (LockHeld /\ Stopped /\ TornHeld /\ RearKept)'
    BY <1>0, <1>2 DEF EnterProcessBalances, CanLock, TypeOK, LockHeld, Stopped, TornHeld,
                      RearKept, diskVars, bookVars, threadVars
  <2> QED
    BY <1>00, <1>2, <2>1, <2>2
<1>3. CASE CreditRound
  <2>1. IsRounds(queue') /\ taken' \in Round /\ IsUsers(userInfos')
    BY <1>3, CreditTypes DEF IsRounds
  <2>2. TypeOK'
    BY <1>3, <2>1 DEF CreditRound, TypeOK, threadVars
  <2>3. (LockHeld /\ Stopped /\ TornHeld)'
    BY <1>3 DEF CreditRound, TypeOK, LockHeld, Stopped, TornHeld, threadVars
  <2>4. RearKept'
    <3>1. lock = Worker
      BY <1>3 DEF CreditRound, LockHeld
    <3>2. \A p \in Savers : pc[p] \notin Inside
      BY <1>0, <3>1 DEF LockHeld
    <3> QED
      BY <1>3, <3>2 DEF CreditRound, RearKept, Inside, threadVars
  <2> QED
    BY <1>00, <1>3, <2>2, <2>3, <2>4
<1>4. CASE WriteUsers
  <2>1. IsUsers(SavedUsers) /\ SavedUsers \in UserInfos
    BY DEF TypeOK, IsUsers, SavedUsers, UserInfos
  <2>2. TypeOK'
    BY <1>4, <2>1 DEF WriteUsers, TypeOK, bookVars, threadVars
  <2>3. (LockHeld /\ Stopped /\ RearKept)'
    BY <1>4 DEF WriteUsers, LockHeld, Stopped, RearKept, bookVars, threadVars
  <2>4. TornHeld'
    BY <1>4, <2>1, NamesAssumption DEF WriteUsers, TornHeld, bookVars, threadVars
  <2> QED
    BY <1>00, <1>4, <2>2, <2>3, <2>4
<1>5. CASE MoveRoundFile
  <2>1. taken.height \in Files /\ blocks[taken.height] # NoFile
    BY <1>5 DEF MoveRoundFile, TypeOK, Round
  <2>2. blocks[taken.height] \in Round
    <3>1. lock = Worker /\ mode = "up"
      BY <1>5 DEF MoveRoundFile, LockHeld
    <3>2. \A p \in Savers : pc[p] \notin {"saving", "writing"}
      BY <1>0, <3>1 DEF LockHeld, Inside
    <3>3. blocks[taken.height] # Torn
      BY <2>1, <3>1, <3>2 DEF TornHeld
    <3> QED
      BY <2>1, <3>3 DEF TypeOK
  <2>3. archived' \subseteq Nat
    BY <1>5, <2>2 DEF MoveRoundFile, TypeOK, Round
  <2>4. DOMAIN blocks' = Files /\ \A f \in Files : blocks'[f] = blocks[f] \/ blocks'[f] = NoFile
    BY <1>5 DEF MoveRoundFile, TypeOK
  <2>5. TypeOK'
    BY <1>5, <2>3, <2>4, EmptyValues DEF MoveRoundFile, TypeOK, bookVars, threadVars
  <2>6. (LockHeld /\ Stopped /\ RearKept)'
    BY <1>5 DEF MoveRoundFile, LockHeld, Stopped, RearKept, bookVars, threadVars
  <2>7. TornHeld'
    BY <1>5, <2>4, NamesAssumption DEF MoveRoundFile, TornHeld, bookVars, threadVars
  <2> QED
    BY <1>00, <1>5, <2>5, <2>6, <2>7
<1>6. CASE MoveFails
  <2>1. TypeOK'
    BY <1>6, EmptyValues DEF MoveFails, TypeOK, diskVars, bookVars, threadVars
  <2>2. (LockHeld /\ Stopped /\ TornHeld /\ RearKept)'
    BY <1>0, <1>6 DEF MoveFails, TypeOK, LockHeld, Stopped, TornHeld, RearKept,
                      diskVars, bookVars, threadVars
  <2> QED
    BY <1>00, <1>6, <2>1, <2>2
<1>7. CASE ScanEmptyQueue \/ WalletLocked
  BY <1>7, TypeInvDie DEF ScanEmptyQueue, WalletLocked
<1>8. CASE LeaveScan
  <2>1. TypeOK'
    BY <1>8, AtStartIsPlace DEF LeaveScan, Places, TypeOK, diskVars, bookVars, threadVars
  <2>2. (LockHeld /\ Stopped /\ TornHeld /\ RearKept)'
    BY <1>0, <1>8 DEF LeaveScan, TypeOK, LockHeld, Stopped, TornHeld, RearKept,
                      diskVars, bookVars, threadVars
  <2> QED
    BY <1>00, <1>8, <2>1, <2>2
<1>9. CASE NextRound
  <2>1. calculating' \in Places /\ Placed'
    BY <1>9, PlacedWithWorker
  <2>2. TypeOK'
    BY <1>9, <2>1 DEF NextRound, TypeOK, diskVars, bookVars, threadVars, workVars, Places
  <2>3. (LockHeld /\ Stopped /\ TornHeld /\ RearKept)'
    BY <1>9 DEF NextRound, TypeOK, LockHeld, Stopped, TornHeld, RearKept,
                diskVars, bookVars, threadVars, workVars
  <2> QED
    BY <2>1, <2>2, <2>3
<1>10. CASE StoreXPM \/ MarkCalculated
  <2>1. IsRounds(queue') /\ (queue # <<>> => queue' # <<>>)
    <3>1. queue \in Seq(Round) /\ queue' \in Seq(Round) /\ Len(queue') = Len(queue)
      BY <1>10, ComputedTypes
    <3> QED
      BY <3>1 DEF IsRounds
  <2>2. calculating' \in Places /\ Placed'
    BY <1>10, PlacedWithWorker
  <2>3. /\ mode = "up" /\ work \in {"calculate", "marking"} /\ work' \in {"calculate", "marking"}
        /\ UNCHANGED <<mode, crashes, tip, diskVars, accepted, nextId, lock, userInfos,
                       threadVars, seen, taken>>
    BY <1>10 DEF StoreXPM, MarkCalculated
  <2>4. TypeOK'
    BY <2>1, <2>2, <2>3 DEF TypeOK, diskVars, threadVars, Places
  <2>5. (LockHeld /\ Stopped /\ TornHeld)'
    BY <2>3 DEF LockHeld, Stopped, TornHeld, diskVars, threadVars
  <2>6. RearKept'
    BY <2>1, <2>3 DEF RearKept, threadVars
  <2> QED
    BY <2>2, <2>4, <2>5, <2>6
<1>11. CASE LeaveCalculation
  <2>1. calculating' \in Places /\ Placed'
    BY <1>11, PlacedWithWorker
  <2>2. TypeOK'
    BY <1>11, <2>1 DEF LeaveCalculation, TypeOK, diskVars, bookVars, threadVars, Places
  <2>3. (LockHeld /\ Stopped /\ TornHeld /\ RearKept)'
    BY <1>11 DEF LeaveCalculation, TypeOK, LockHeld, Stopped, TornHeld, RearKept,
                 diskVars, bookVars, threadVars
  <2> QED
    BY <2>1, <2>2, <2>3
<1>12. CASE NoPayout
  BY <1>00, <1>12 DEF NoPayout, TypeOK, LockHeld, Stopped, TornHeld, RearKept,
               diskVars, bookVars, threadVars
<1>13. CASE SendPayouts
  <2>1. paid \in [Users -> Nat] /\ userInfos \in UserInfos /\ userInfos.named \subseteq userInfos.known
        /\ userInfos.balance \in [Users -> Nat]
    BY DEF TypeOK, IsUsers, UserInfos
  <2>2. paid' \in [Users -> Nat]
    BY <1>13, <2>1 DEF SendPayouts
  <2>3. IsUsers(userInfos')
    <3>1. Reset(userInfos.balance) \in [Users -> Nat]
      BY <2>1 DEF Reset
    <3> QED
      BY <1>13, <2>1, <3>1 DEF SendPayouts, IsUsers, UserInfos
  <2>4. TypeOK'
    BY <1>13, <2>2, <2>3 DEF SendPayouts, TypeOK, bookVars, threadVars
  <2>5. (LockHeld /\ Stopped /\ TornHeld /\ RearKept)'
    BY <1>13 DEF SendPayouts, TypeOK, LockHeld, Stopped, TornHeld, RearKept,
                 bookVars, threadVars
  <2> QED
    BY <1>00, <1>13, <2>4, <2>5
<1> QED
  BY <1>1, <1>2, <1>3, <1>4, <1>5, <1>6, <1>7, <1>8, <1>9, <1>10, <1>11, <1>12, <1>13
  DEF ProcessBalances

LEMMA TypeInvNext ==
  ASSUME TypeInv, [Next]_vars
  PROVE  TypeInv'
<1>1. CASE SaverDereferencesNull
  BY <1>1, TypeInvDie DEF SaverDereferencesNull
<1>2. CASE StartPool
  BY <1>2, TypeInvStartPool
<1> QED
  BY <1>1, <1>2, TypeInvProcess, TypeInvHandler, TypeInvSave, TypeInvWorker DEF Next

LEMMA TypeInvAlways == Spec => []TypeInv
<1>1. Init => TypeInv
  BY TypeInvInit
<1>2. TypeInv /\ [Next]_vars => TypeInv'
  BY TypeInvNext
<1> QED
  BY <1>1, <1>2, PTL DEF Spec

\* Every variable keeps its type: with any number of threads, through crashes and
\* restarts, what is read back from the files is a queue of rounds and a list of users.
THEOREM Typing == Spec => []TypeOK
<1>1. TypeInv => TypeOK
  BY DEF TypeInv
<1> QED
  BY <1>1, TypeInvAlways, PTL

-----------------------------------------------------------------------------
(* A credited round has its confirmations *)

\* The label of a found round is not below the block it found.
Based(r) == r.height # 0 => r.block <= r.height

BasedInv ==
  /\ \A i \in DOMAIN queue : Based(queue[i])
  /\ \A f \in Files : blocks[f] \in Round => Based(blocks[f])
  /\ \A t \in IOThreads : found[t] <= tip
  /\ seen <= tip

LEMMA BasedKept ==
  ASSUME NEW r \in Round, Based(r)
  PROVE  /\ Based(SavedRound(r)) /\ Based(calculateXPMPerUser(r))
         /\ \A u \in Users : Based(WithShare(r, u))
         /\ \A s \in Round : Based(WithPay(r, s))
<1>1. SavedRound(r).height = r.height /\ SavedRound(r).block = r.block
  BY Saved
<1>2. \A u \in Users : WithShare(r, u).height = r.height /\ WithShare(r, u).block = r.block
  BY WithShareFields
<1>3. \A s \in Round : WithPay(r, s).height = r.height /\ WithPay(r, s).block = r.block
  BY WithPayFields
<1>4. /\ calculateXPMPerUser(r).height = r.height
      /\ calculateXPMPerUser(r).block = r.block
  BY <1>3, Calculated
<1> QED
  BY <1>1, <1>2, <1>3, <1>4 DEF Based

LEMMA BasedStep ==
  ASSUME TypeInv, BasedInv, [Next]_vars
  PROVE  BasedInv'
<1> USE DEF TypeInv
<1>0. /\ queue \in Seq(Round) /\ DOMAIN queue = 1..Len(queue) /\ Len(queue) \in Nat
      /\ \A i \in 1..Len(queue) : queue[i] \in Round /\ Based(queue[i])
      /\ tip \in Files /\ tip \in Nat /\ \A t \in IOThreads : found[t] \in Files /\ found[t] \in Nat
  <2>1. queue \in Seq(Round)
    BY DEF TypeOK, IsRounds
  <2>2. tip \in Files /\ \A t \in IOThreads : found[t] \in Files
    BY Constants DEF TypeOK
  <2>3. tip \in Nat /\ \A t \in IOThreads : found[t] \in Nat
    BY <2>2, Constants
  <2> QED
    BY <2>1, <2>2, <2>3 DEF BasedInv
<1>1. ASSUME UNCHANGED <<queue, blocks, found, tip, seen>>
      PROVE  BasedInv'
  BY <1>1 DEF BasedInv
<1>2. ASSUME Die, UNCHANGED diskVars
      PROVE  BasedInv'
  BY <1>0, <1>2 DEF BasedInv, Die, diskVars
<1>3. CASE StartPool
  <2>1. /\ queue' = calculateAllXPM(Loaded) /\ Loaded \in Seq(Round)
        /\ nextId \in Nat /\ \A f \in Present : blocks[f] \in Round
    BY <1>3, StartPoolReads
  <2>2. \A i \in 1..Len(Loaded) : Loaded[i] \in Round /\ Based(Loaded[i])
    <3>1. CASE Present = {}
      <4>1. Loaded = <<NewRound(nextId, 0)>>
        BY <2>1, <3>1, LoadedIsQueue
      <4>2. Based(NewRound(nextId, 0))
        BY DEF Based, NewRound
      <4> QED
        BY <2>1, <4>1, <4>2
    <3>2. CASE Present # {}
      <4>1. \A i \in 1..Len(Loaded) : \E f \in Present : Loaded[i] = blocks[f]
        BY <2>1, <3>2, LoadedIsQueue
      <4>2. \A f \in Present : Based(blocks[f])
        BY <2>1 DEF BasedInv, Present
      <4> QED
        BY <2>1, <4>1, <4>2
    <3> QED
      BY <3>1, <3>2
  <2>3. /\ queue' \in Seq(Round) /\ Len(queue') = Len(Loaded)
        /\ \A i \in 1..Len(Loaded) : queue'[i] = IF NeedsCalculation(Loaded[i])
                                               THEN calculateXPMPerUser(Loaded[i]) ELSE Loaded[i]
    BY <2>1, CalculatedAll
  <2>4. \A i \in DOMAIN queue' : Based(queue'[i])
    BY <2>2, <2>3, BasedKept
  <2> QED
    <3>1. seen' = tip /\ tip' = tip /\ blocks' = blocks /\ found' = found /\ tip <= tip
      BY <1>0, <1>3 DEF StartPool, diskVars, threadVars
    <3> QED
      BY <2>4, <3>1 DEF BasedInv
<1>4. CASE NewTip
  <2>1. tip' = tip + 1 /\ UNCHANGED <<queue, blocks, found, seen>>
    BY <1>4 DEF NewTip, diskVars, bookVars, threadVars, workVars
  <2>2. seen \in Nat
    BY Constants DEF TypeOK
  <2>3. (\A t \in IOThreads : found[t] <= tip + 1) /\ seen <= tip + 1
    BY <1>0, <2>2 DEF BasedInv
  <2> QED
    BY <2>1, <2>3 DEF BasedInv
<1>5. ASSUME NEW t \in IOThreads, MineBlock(t)
      PROVE  BasedInv'
  BY <1>0, <1>5 DEF MineBlock, TypeOK, BasedInv, diskVars, bookVars, workVars
<1>6. ASSUME NEW u \in Users, queue' = addShares(queue, u, ShareLength),
             UNCHANGED <<blocks, found, tip, seen>>
      PROVE  BasedInv'
  <2>1. /\ queue' \in Seq(Round) /\ Len(queue') = Len(queue)
        /\ \A i \in 1..Len(queue) : queue'[i] = IF i = Len(queue) THEN WithShare(queue[i], u)
                                                ELSE queue[i]
    BY <1>0, <1>6, AddedShares
  <2>2. \A r \in Round : Based(r) => Based(WithShare(r, u))
    BY BasedKept
  <2>3. ASSUME NEW i \in 1..Len(queue)
        PROVE  Based(queue'[i])
    <3>1. queue[i] \in Round /\ Based(queue[i])
      BY <1>0
    <3>2. Based(WithShare(queue[i], u))
      BY <2>2, <3>1
    <3> QED
      BY <2>1, <3>1, <3>2
  <2>4. DOMAIN queue' = 1..Len(queue)
    BY <2>1
  <2> QED
    BY <1>6, <2>3, <2>4 DEF BasedInv
<1>7. ASSUME NEW t \in IOThreads, LabelRound(t)
      PROVE  BasedInv'
  <2>1. /\ queue' \in Seq(Round) /\ Len(queue') = Len(queue)
        /\ \A i \in 1..Len(queue) : queue'[i] = IF i = Len(queue)
                                                THEN Labelled(queue[i], tip, Reward, found[t])
                                                ELSE queue[i]
    BY <1>0, <1>7, FoundSet DEF LabelRound
  <2>2. \A r \in Round : /\ Labelled(r, tip, Reward, found[t]).height = tip
                         /\ Labelled(r, tip, Reward, found[t]).block = found[t]
    BY <1>0 DEF Labelled, Round
  <2>3. found[t] <= tip
    BY DEF BasedInv
  <2>4. \A i \in DOMAIN queue' : Based(queue'[i])
    <3>1. DOMAIN queue' = 1..Len(queue)
      BY <2>1
    <3>2. ASSUME NEW i \in 1..Len(queue)
          PROVE  Based(queue'[i])
      <4>1. queue[i] \in Round /\ Based(queue[i])
        BY <1>0
      <4>2. Based(Labelled(queue[i], tip, Reward, found[t]))
        BY <2>2, <2>3, <4>1 DEF Based
      <4> QED
        BY <2>1, <4>1, <4>2
    <3> QED
      BY <3>1, <3>2
  <2> QED
    BY <1>7, <2>4 DEF LabelRound, BasedInv, diskVars, workVars
<1>8. ASSUME NEW t \in IOThreads, OpenRoundFile(t)
      PROVE  BasedInv'
  BY <1>8, NamesAssumption DEF OpenRoundFile, TypeOK, BasedInv, bookVars, workVars
<1>9. ASSUME NEW t \in IOThreads, BeginRound(t)
      PROVE  BasedInv'
  <2>1. /\ queue' \in Seq(Round) /\ Len(queue') = Len(queue) + 1
        /\ \A i \in 1..Len(queue) : queue'[i] = IF NeedsCalculation(queue[i])
                                                THEN calculateXPMPerUser(queue[i]) ELSE queue[i]
        /\ queue'[Len(queue) + 1] = NewRound(nextId, 0)
    BY <1>9, BeginRoundTypes
  <2>2. \A i \in DOMAIN queue' : Based(queue'[i])
    <3>1. \A i \in 1..Len(queue) : Based(queue'[i])
      BY <1>0, <2>1, BasedKept
    <3>2. Based(NewRound(nextId, 0))
      BY DEF Based, NewRound
    <3> QED
      BY <1>0, <2>1, <3>1, <3>2
  <2>3. \A f \in Files : blocks'[f] \in Round => Based(blocks'[f])
    <3>1. CASE pc[t] = "writing" /\ blocks' = [blocks EXCEPT ![file[t]] = SavedRound(Last(queue))]
      <4>1. queue # <<>>
        BY <3>1, Threads DEF RearKept
      <4>2. Based(SavedRound(Last(queue)))
        BY <1>0, <4>1, RearIsRound, BasedKept
      <4> QED
        BY <3>1, <4>2 DEF BasedInv, TypeOK
    <3>2. CASE UNCHANGED blocks
      BY <3>2 DEF BasedInv
    <3> QED
      BY <1>9, <3>1, <3>2 DEF BeginRound
  <2> QED
    BY <1>9, <2>2, <2>3 DEF BeginRound, BasedInv, workVars
<1>10. ASSUME NEW p \in Savers, OpenCurrent(p) \/ WriteCurrent(p)
       PROVE  BasedInv'
  <2>1. \A f \in Files : blocks'[f] \in Round => Based(blocks'[f])
    <3>1. CASE OpenCurrent(p)
      BY <3>1, NamesAssumption DEF OpenCurrent, TypeOK, BasedInv
    <3>2. CASE WriteCurrent(p)
      <4>1. queue # <<>>
        BY <3>2 DEF WriteCurrent, RearKept
      <4>2. Based(SavedRound(Last(queue)))
        BY <1>0, <4>1, RearIsRound, BasedKept
      <4> QED
        BY <3>2, <4>2 DEF WriteCurrent, BasedInv, TypeOK
    <3> QED
      BY <1>10, <3>1, <3>2
  <2> QED
    BY <1>10, <2>1 DEF OpenCurrent, WriteCurrent, BasedInv, bookVars, workVars
<1>11. CASE WakeWorker
  BY <1>0, <1>11 DEF WakeWorker, BasedInv, TypeOK, diskVars, bookVars, threadVars
<1>12. CASE CreditRound
  <2>1. /\ Len(queue') = Len(queue) - 1 /\ queue' \in Seq(Round)
        /\ \A i \in 1..Len(queue') : queue'[i] = queue[i + 1]
    BY <1>12, CreditTypes
  <2>2. \A i \in DOMAIN queue' : Based(queue'[i])
    BY <1>0, <2>1
  <2> QED
    BY <1>12, <2>2 DEF CreditRound, BasedInv, threadVars
<1>13. CASE MoveRoundFile
  BY <1>13, NamesAssumption DEF MoveRoundFile, BasedInv, TypeOK, bookVars, threadVars
<1>14. CASE StoreXPM \/ MarkCalculated
  <2>1. /\ queue' \in Seq(Round) /\ Len(queue') = Len(queue)
        /\ \A i \in 1..Len(queue) : OnlyPaid(queue[i], queue'[i])
    BY <1>14, ComputedTypes
  <2>2. \A i \in 1..Len(queue) : Based(queue'[i])
    BY <1>0, <2>1 DEF OnlyPaid, Based
  <2>3. \A i \in DOMAIN queue' : Based(queue'[i])
    BY <2>1, <2>2
  <2> QED
    BY <1>14, <2>3 DEF StoreXPM, MarkCalculated, BasedInv, diskVars, threadVars
<1>15. ASSUME NEW t \in IOThreads, Handler(t)
       PROVE  BasedInv'
  <2>1. ASSUME NEW u \in Users, AddShares(t, u) \/ AddFinderShares(t, u)
        PROVE  BasedInv'
    BY <1>6, <2>1 DEF AddShares, AddFinderShares, diskVars, threadVars, workVars
  <2>2. CASE SaveNothing(t)
    BY <1>1, <2>2 DEF SaveNothing, diskVars, bookVars, threadVars, workVars
  <2> QED
    BY <1>5, <1>7, <1>8, <1>9, <1>15, <2>1, <2>2 DEF Handler
<1>16. CASE ProcessBalances
  <2>1. CASE \/ EnterProcessBalances \/ WriteUsers \/ MoveFails \/ LeaveScan \/ NextRound
             \/ LeaveCalculation \/ NoPayout \/ SendPayouts
    BY <1>1, <2>1
    DEF EnterProcessBalances, WriteUsers, MoveFails, LeaveScan, NextRound, LeaveCalculation,
        NoPayout, SendPayouts, diskVars, bookVars, threadVars, workVars
  <2>2. CASE ScanEmptyQueue \/ WalletLocked
    BY <1>2, <2>2 DEF ScanEmptyQueue, WalletLocked
  <2> QED
    BY <1>12, <1>13, <1>14, <1>16, <2>1, <2>2 DEF ProcessBalances
<1>17. CASE Crash \/ SaverDereferencesNull
  BY <1>2, <1>17 DEF Crash, SaverDereferencesNull
<1>18. CASE StartRefused \/ UNCHANGED vars
  BY <1>1, <1>18 DEF StartRefused, vars, diskVars, bookVars, threadVars, workVars
<1> QED
  BY <1>3, <1>4, <1>10, <1>11, <1>15, <1>16, <1>17, <1>18 DEF Next, SaveCurrent

LEMMA BasedAlways == Spec => []BasedInv
<1>1. Init => BasedInv
  BY Constants, LedgerAssumption, NamesAssumption DEF Init, BasedInv, Based
<1>2. TypeInv /\ BasedInv /\ [Next]_vars => BasedInv'
  BY BasedStep
<1> QED
  BY <1>1, <1>2, TypeInvAlways, PTL DEF Spec

\* pool.cpp 45, 211, 582: a round is credited only when PAYOUT_DELAY blocks have been
\* built on the block it found, although its label is read after that block and the
\* comparison is made in unsigned arithmetic.
THEOREM Confirmed == Spec => CreditedIsConfirmed
<1>1. ASSUME TypeInv, BasedInv, [Next]_vars
      PROVE  work' = "credited" /\ work # "credited" /\ seen >= PAYOUT_DELAY =>
               taken'.block + PAYOUT_DELAY < tip
  <2> SUFFICES ASSUME work' = "credited", work # "credited", seen >= PAYOUT_DELAY
               PROVE  taken'.block + PAYOUT_DELAY < tip
    OBVIOUS
  <2>1. CreditRound
    <3>1. Die => work' # "credited"
      BY DEF Die
    <3>2. \A t \in IOThreads : Handler(t) => work' = work
      BY DEF Handler, AddShares, AddFinderShares, MineBlock, LabelRound, OpenRoundFile, BeginRound,
             SaveNothing, workVars
    <3>3. \A p \in Savers : SaveCurrent(p) => work' = work
      BY DEF SaveCurrent, OpenCurrent, WriteCurrent, workVars
    <3>4. StartPool \/ StartRefused \/ NewTip \/ UNCHANGED vars => work' = work
      BY DEF StartPool, StartRefused, NewTip, vars, workVars
    <3>5. WakeWorker => work' # "credited"
      BY DEF WakeWorker
    <3>6. ProcessBalances => CreditRound
      <4>1. EnterProcessBalances \/ WriteUsers \/ MoveRoundFile \/ MoveFails \/ LeaveScan
            => work' # "credited"
        BY DEF EnterProcessBalances, WriteUsers, MoveRoundFile, MoveFails, LeaveScan
      <4>2. NextRound \/ StoreXPM => work' \in {work, "marking"}
        BY DEF NextRound, StoreXPM, workVars
      <4>3. MarkCalculated \/ LeaveCalculation \/ NoPayout \/ SendPayouts => work' # "credited"
        BY DEF MarkCalculated, LeaveCalculation, NoPayout, SendPayouts
      <4>4. ~(ScanEmptyQueue \/ WalletLocked)
        BY <3>1 DEF ScanEmptyQueue, WalletLocked
      <4> QED
        BY <4>1, <4>2, <4>3, <4>4 DEF ProcessBalances
    <3> QED
      BY <1>1, <3>1, <3>2, <3>3, <3>4, <3>5, <3>6 DEF Next, Crash, SaverDereferencesNull
  <2> DEFINE h == Head(queue)
  <2>2. /\ h \in Round /\ queue \in Seq(Round) /\ Len(queue) \in Nat \ {0} /\ h = queue[1]
        /\ taken' = Credited /\ Credited \in Round /\ Credited = WithPay(h, Credited)
    BY <1>1, <2>1, CreditTypes
  <2>3. taken'.block = h.block
    BY <2>2, WithPayFields
  <2>4. Based(h)
    BY <1>1, <2>2 DEF BasedInv
  <2>5. h.height # 0 /\ h.height < (seen - PAYOUT_DELAY) % UIntRange
    BY <2>1 DEF CreditRound, Matured
  <2>6. h.height \in Nat /\ h.block \in Nat
    BY <2>2, Constants DEF Round
  <2>7. /\ seen \in Nat /\ tip \in Nat /\ seen <= tip /\ tip <= MaxTip /\ MaxTip \in Nat
        /\ PAYOUT_DELAY \in Nat /\ UIntRange \in Nat /\ UIntRange > MaxTip
    BY <1>1, LedgerAssumption DEF TypeInv, TypeOK, BasedInv
  <2>8. (seen - PAYOUT_DELAY) % UIntRange = seen - PAYOUT_DELAY
    <3>1. ASSUME NEW x \in Nat, NEW n \in Nat, x < n
          PROVE  x % n = x
      BY <3>1
    <3>2. seen - PAYOUT_DELAY \in Nat /\ seen - PAYOUT_DELAY < UIntRange
      BY <2>7
    <3> QED
      BY <2>7, <3>1, <3>2
  <2> HIDE DEF h
  <2>9. h.block <= h.height /\ h.height < seen - PAYOUT_DELAY
    BY <2>4, <2>5, <2>8 DEF Based
  <2> QED
    BY <2>3, <2>6, <2>7, <2>9
<1> QED
  BY <1>1, TypeInvAlways, BasedAlways, PTL DEF Spec, CreditedIsConfirmed

-----------------------------------------------------------------------------
(* Sums over a queue *)

\* What is summed are numbers.
LEMMA Counts ==
  ASSUME NEW q \in Seq(Round)
  PROVE  \A i \in 1..Len(q) : /\ q[i] \in Round
                              /\ \A u \in Users : q[i].shares[u] \in Nat /\ q[i].pay[u] \in Nat
<1> TAKE i \in 1..Len(q)
<1>1. q[i] \in Round
  OBVIOUS
<1>2. q[i].shares \in [Users -> Nat] /\ q[i].pay \in [Users -> Nat]
  BY <1>1 DEF Round
<1> QED
  BY <1>1, <1>2

\* The sums of two queues whose rounds agree in what is summed.
LEMMA SharesSame ==
  ASSUME NEW p \in Seq(Round), NEW q \in Seq(Round), Len(p) = Len(q), NEW u \in Users,
         \A i \in 1..Len(q) : p[i].shares = q[i].shares
  PROVE  SharesIn(p, u) = SharesIn(q, u)
<1> DEFINE f == [i \in DOMAIN p |-> p[i].shares[u]]
           g == [i \in DOMAIN q |-> q[i].shares[u]]
<1>1. DOMAIN p = 1..Len(q) /\ DOMAIN q = 1..Len(q)
  OBVIOUS
<1>2. f = g
  BY <1>1
<1> QED
  BY <1>2 DEF SharesIn

\* A share added to the rear is one more for its user and none for the others.
LEMMA SharesMore ==
  ASSUME NEW p \in Seq(Round), NEW q \in Seq(Round), q # <<>>, Len(p) = Len(q), NEW u \in Users,
         \A i \in 1..Len(q) : p[i] = IF i = Len(q) THEN WithShare(q[i], u) ELSE q[i]
  PROVE  \A v \in Users : SharesIn(p, v) = SharesIn(q, v) + (IF v = u THEN 1 ELSE 0)
<1> TAKE v \in Users
<1> DEFINE f == [i \in DOMAIN q |-> q[i].shares[v]]
           h == [i \in DOMAIN p |-> p[i].shares[v]]
           S == 1..Len(q)
           n == Len(q)
<1>1. IsFiniteSet(S) /\ n \in S /\ DOMAIN f = S /\ DOMAIN h = S
  BY FS_Interval
<1>2. \A i \in 1..Len(q) : /\ q[i] \in Round /\ p[i] \in Round
                           /\ q[i].shares[v] \in Nat /\ p[i].shares[v] \in Nat
  BY Counts
<1>3. \A i \in S : f[i] \in Int /\ h[i] \in Int
  <2> TAKE i \in S
  <2>1. i \in DOMAIN q /\ i \in DOMAIN p
    OBVIOUS
  <2>2. f[i] = q[i].shares[v] /\ h[i] = p[i].shares[v]
    BY <2>1
  <2>3. q[i].shares[v] \in Nat /\ p[i].shares[v] \in Nat
    BY <1>2
  <2> HIDE DEF f, h
  <2> QED
    BY <2>2, <2>3
<1>4. \A i \in S \ {n} : h[i] = f[i]
  OBVIOUS
<1>5. h[n] - f[n] = IF v = u THEN 1 ELSE 0
  <2> DEFINE r == q[n]
  <2>1. r \in Round /\ p[n] = WithShare(r, u) /\ r.shares \in [Users -> Nat]
    BY <1>1, <1>2 DEF Round
  <2>2. f[n] = r.shares[v] /\ h[n] = p[n].shares[v]
    BY <1>1
  <2> HIDE DEF r, f, h, n
  <2>3. WithShare(r, u).shares = [r.shares EXCEPT ![u] = r.shares[u] + 1]
    BY <2>1, WithShareFields
  <2>4. p[n].shares[v] = IF v = u THEN r.shares[v] + 1 ELSE r.shares[v]
    BY <2>1, <2>3
  <2>5. r.shares[v] \in Nat
    BY <2>1
  <2> QED
    BY <2>2, <2>4, <2>5
<1> HIDE DEF f, h, S, n
<1>6. SumFunctionOnSet(h, S) = SumFunctionOnSet(f, S) + (h[n] - f[n])
  BY <1>1, <1>3, <1>4, SumUpdate
<1> QED
  BY <1>1, <1>5, <1>6 DEF SharesIn, SumFunction, f, h

LEMMA SharesAreInt ==
  ASSUME NEW q \in Seq(Round), NEW u \in Users
  PROVE  SharesIn(q, u) \in Nat /\ PayIn(q, u) \in Nat
<1> DEFINE f == [i \in DOMAIN q |-> q[i].shares[u]]
           g == [i \in DOMAIN q |-> q[i].pay[u]]
           S == 1..Len(q)
<1>1. IsFiniteSet(S) /\ DOMAIN f = S /\ DOMAIN g = S
  BY FS_Interval
<1>2. \A i \in S : f[i] \in Nat /\ g[i] \in Nat
  BY <1>1, Counts
<1> HIDE DEF f, g, S
<1>3. SumFunctionOnSet(f, S) \in Nat /\ SumFunctionOnSet(g, S) \in Nat
  BY <1>1, <1>2, SumOfNat
<1> QED
  BY <1>1, <1>3 DEF SharesIn, PayIn, SumFunction, f, g

\* A round more at the end.
LEMMA AppendedSums ==
  ASSUME NEW p \in Seq(Round), NEW q \in Seq(Round), Len(p) = Len(q) + 1, NEW u \in Users,
         \A i \in 1..Len(q) : p[i].shares = q[i].shares /\ p[i].pay = q[i].pay
  PROVE  /\ SharesIn(p, u) = SharesIn(q, u) + p[Len(p)].shares[u]
         /\ PayIn(p, u) = PayIn(q, u) + p[Len(p)].pay[u]
<1> DEFINE n == Len(q)
           f == [i \in DOMAIN q |-> q[i].shares[u]]
           h == [i \in DOMAIN p |-> p[i].shares[u]]
           a == [i \in DOMAIN q |-> q[i].pay[u]]
           b == [i \in DOMAIN p |-> p[i].pay[u]]
<1>1. n \in Nat /\ DOMAIN f = 1..n /\ DOMAIN h = 1..(n + 1) /\ DOMAIN a = 1..n /\ DOMAIN b = 1..(n + 1)
  OBVIOUS
<1>2. /\ \A i \in 1..n : q[i].shares[u] \in Nat /\ q[i].pay[u] \in Nat
      /\ \A i \in 1..(n + 1) : p[i].shares[u] \in Nat /\ p[i].pay[u] \in Nat
  BY Counts
<1>3. /\ \A i \in 1..n : f[i] \in Int /\ h[i] = f[i] /\ a[i] \in Int /\ b[i] = a[i]
      /\ h[n + 1] \in Int /\ b[n + 1] \in Int
      /\ h[n + 1] = p[Len(p)].shares[u] /\ b[n + 1] = p[Len(p)].pay[u]
  <2>1. n + 1 \in 1..(n + 1) /\ Len(p) = n + 1 /\ \A i \in 1..n : i \in 1..(n + 1)
    BY <1>1
  <2> QED
    BY <1>1, <1>2, <2>1
<1> HIDE DEF n, f, h, a, b
<1>4. SumFunction(h) = SumFunction(f) + h[n + 1]
  BY <1>1, <1>3, SumAppended
<1>5. SumFunction(b) = SumFunction(a) + b[n + 1]
  BY <1>1, <1>3, SumAppended
<1> QED
  BY <1>3, <1>4, <1>5 DEF SharesIn, PayIn, f, h, a, b

\* A round less at the head.
LEMMA SharesOfTail ==
  ASSUME NEW p \in Seq(Round), NEW q \in Seq(Round), Len(q) # 0, Len(p) = Len(q) - 1, NEW u \in Users,
         \A i \in 1..Len(p) : p[i] = q[i + 1]
  PROVE  SharesIn(q, u) = q[1].shares[u] + SharesIn(p, u)
<1> DEFINE n == Len(q)
           f == [i \in DOMAIN q |-> q[i].shares[u]]
           h == [i \in DOMAIN p |-> p[i].shares[u]]
<1>1. n \in Nat \ {0} /\ DOMAIN f = 1..n /\ DOMAIN h = 1..(n - 1) /\ f[1] = q[1].shares[u]
  OBVIOUS
<1>2. \A i \in 1..n : q[i].shares[u] \in Nat
  BY Counts
<1>3. \A i \in 1..n : f[i] \in Int
  BY <1>1, <1>2
<1>4. \A i \in 1..(n - 1) : h[i] = f[i + 1]
  <2>1. DOMAIN p = 1..(n - 1) /\ DOMAIN q = 1..n /\ \A i \in 1..(n - 1) : i + 1 \in 1..n
    OBVIOUS
  <2> QED
    BY <2>1
<1> HIDE DEF n, f, h
<1>5. SumFunction(f) = f[1] + SumFunction(h)
  BY <1>1, <1>3, <1>4, SumTail
<1> QED
  BY <1>1, <1>5 DEF SharesIn, f, h

LEMMA SumsOfNone ==
  ASSUME NEW u \in Users
  PROVE  SharesIn(<<>>, u) = 0 /\ PayIn(<<>>, u) = 0
<1>1. DOMAIN <<>> = 1..0
  OBVIOUS
<1> QED
  BY <1>1, SumOfNone DEF SharesIn, PayIn

-----------------------------------------------------------------------------
(* Shares and balances are conserved *)

\* Before the pool has run, nothing is on disk but users with no balance.
FirstLife ==
  crashes = 0 /\ mode # "up" =>
    /\ accepted = Nobody /\ paid = Nobody
    /\ \A f \in Files : blocks[f] = NoFile
    /\ usersFile # Torn
    /\ usersFile # NoFile => usersFile.balance = Nobody /\ usersFile.ledger = <<>>

\* Where a handler holds the rear of the queue closed.
Closing == {"labelled", "closed", "writing"}

\* Until a crash there is always a round to put a share in.
RearThere ==
  crashes = 0 /\ mode = "up" =>
    /\ queue # <<>>
    /\ Last(queue).height = 0 \/ \E t \in IOThreads : pc[t] \in Closing

BooksInv == FirstLife /\ RearThere /\ SharesConserved /\ BalanceConserved

\* The rear when StartPool begins with no file, and its sums.
LEMMA FirstQueue ==
  ASSUME TypeInv, FirstLife, crashes = 0, StartPool
  PROVE  /\ queue' # <<>> /\ Last(queue').height = 0
         /\ queue' = <<NewRound(nextId, 0)>>
         /\ \A u \in Users : SharesIn(queue', u) = 0
         /\ userInfos'.balance = Nobody /\ userInfos'.ledger = <<>>
<1>1. Present = {} /\ mode # "up"
  BY DEF Present, FirstLife, StartPool
<1>2. /\ nextId \in Nat /\ Loaded \in Seq(Round) /\ Loaded = <<NewRound(nextId, 0)>>
      /\ queue' = calculateAllXPM(Loaded) /\ queue' \in Seq(Round) /\ Len(queue') = Len(Loaded)
      /\ userInfos' = LoadedUsers /\ usersFile # Torn /\ IsUsers(LoadedUsers)
  BY <1>1, StartPoolReads, LoadedIsQueue
<1>3. queue'[1] = NewRound(nextId, 0) /\ Len(queue') = 1
  <2>1. Loaded[1] = NewRound(nextId, 0) /\ Len(Loaded) = 1
    BY <1>2
  <2>2. ~NeedsCalculation(NewRound(nextId, 0))
    BY DEF NeedsCalculation, NewRound
  <2>3. queue'[1] = IF NeedsCalculation(Loaded[1]) THEN calculateXPMPerUser(Loaded[1]) ELSE Loaded[1]
    <3>1. \A i \in 1..Len(Loaded) : calculateAllXPM(Loaded)[i] =
            IF NeedsCalculation(Loaded[i]) THEN calculateXPMPerUser(Loaded[i]) ELSE Loaded[i]
      BY <1>2, CalculatedAll
    <3> QED
      BY <1>2, <2>1, <3>1
  <2> QED
    BY <1>2, <2>1, <2>2, <2>3
<1>4. Last(queue') = queue'[1] /\ queue' # <<>> /\ queue' = <<NewRound(nextId, 0)>>
  BY <1>2, <1>3 DEF Last
<1>5. NewRound(nextId, 0).height = 0 /\ \A u \in Users : NewRound(nextId, 0).shares[u] = 0
  BY Constants DEF NewRound
<1>6. ASSUME NEW u \in Users
      PROVE  SharesIn(queue', u) = 0
  <2> DEFINE p == queue'
             none == <<>>
  <2>1. p \in Seq(Round) /\ none \in Seq(Round) /\ Len(p) = Len(none) + 1
        /\ \A i \in 1..Len(none) : p[i].shares = none[i].shares /\ p[i].pay = none[i].pay
    BY <1>2, <1>3
  <2>2. p[Len(p)].shares[u] = 0
    BY <1>3, <1>5
  <2>3. SharesIn(none, u) = 0
    BY SumsOfNone
  <2> HIDE DEF p, none
  <2>4. SharesIn(p, u) = SharesIn(none, u) + p[Len(p)].shares[u]
    BY <2>1, AppendedSums
  <2> QED
    BY <2>2, <2>3, <2>4 DEF p
<1>7. userInfos'.balance = Nobody /\ userInfos'.ledger = <<>>
  <2>1. CASE usersFile = NoFile
    BY <1>2, <2>1, EmptyValues DEF LoadedUsers
  <2>2. CASE usersFile # NoFile
    <3>1. usersFile.balance = Nobody /\ usersFile.ledger = <<>> /\ usersFile \in UserInfos
      BY <1>1, <1>2, <2>2 DEF FirstLife, TypeInv, TypeOK, IsUsers
    <3> QED
      BY <1>2, <2>2, <3>1 DEF LoadedUsers, UserInfos
  <2> QED
    BY <2>1, <2>2
<1> QED
  BY <1>3, <1>4, <1>5, <1>6, <1>7

LEMMA FirstLifeStep ==
  ASSUME TypeInv, FirstLife, [Next]_vars
  PROVE  FirstLife'
<1> SUFFICES ASSUME crashes' = 0, mode' # "up"
             PROVE  crashes = 0 /\ mode # "up"
                    /\ accepted' = accepted /\ paid' = paid /\ blocks' = blocks /\ usersFile' = usersFile
  BY DEF FirstLife
<1>0. ~Die
  BY DEF Die, TypeInv, TypeOK
<1>1. CASE StartRefused
  BY <1>1 DEF StartRefused, diskVars, bookVars
<1>2. CASE UNCHANGED vars
  BY <1>2 DEF vars, diskVars, bookVars
<1>3. ~(StartPool \/ NewTip \/ WakeWorker)
  BY DEF StartPool, NewTip, WakeWorker
<1>4. \A t \in IOThreads : ~Handler(t)
  BY DEF Handler, AddShares, AddFinderShares, MineBlock, LabelRound, OpenRoundFile, BeginRound, SaveNothing
<1>5. \A p \in Savers : ~SaveCurrent(p)
  BY DEF SaveCurrent, OpenCurrent, WriteCurrent
<1>6. ~ProcessBalances
  BY <1>0 DEF ProcessBalances, EnterProcessBalances, CreditRound, WriteUsers, MoveRoundFile, MoveFails,
         ScanEmptyQueue, LeaveScan, NextRound, StoreXPM, MarkCalculated, LeaveCalculation, NoPayout,
         SendPayouts, WalletLocked
<1> QED
  BY <1>0, <1>1, <1>2, <1>3, <1>4, <1>5, <1>6 DEF Next, Crash, SaverDereferencesNull

LEMMA RearThereStep ==
  ASSUME TypeInv, FirstLife, RearThere, [Next]_vars
  PROVE  RearThere'
<1> SUFFICES ASSUME crashes' = 0
             PROVE  RearThere'
  BY DEF RearThere
<1> USE DEF TypeInv
<1>0. ~Die /\ queue \in Seq(Round)
  BY DEF Die, TypeOK, IsRounds
<1>1. ASSUME UNCHANGED <<mode, crashes, queue, pc>>
      PROVE  RearThere'
  BY <1>1 DEF RearThere
<1>2. CASE StartPool
  BY <1>2, FirstQueue DEF StartPool, RearThere
<1>3. CASE StartRefused
  BY <1>3 DEF StartRefused, RearThere
<1>4. ASSUME UNCHANGED <<mode, crashes>>, queue' \in Seq(Round), Len(queue') = Len(queue),
             queue # <<>> => queue'[Len(queue)].height = queue[Len(queue)].height,
             \A t \in IOThreads : pc[t] \in Closing => pc'[t] \in Closing
      PROVE  RearThere'
  <2>1. queue # <<>> => queue' # <<>> /\ Last(queue').height = Last(queue).height
    BY <1>0, <1>4 DEF Last
  <2> QED
    BY <1>4, <2>1 DEF RearThere
<1>5. ASSUME NEW t \in IOThreads, Handler(t)
      PROVE  RearThere'
  <2>1. ASSUME NEW u \in Users, AddShares(t, u) \/ AddFinderShares(t, u)
        PROVE  RearThere'
    <3>1. /\ queue' \in Seq(Round) /\ Len(queue') = Len(queue)
          /\ \A i \in 1..Len(queue) : queue'[i] = IF i = Len(queue) THEN WithShare(queue[i], u)
                                                  ELSE queue[i]
      BY <1>0, <2>1, AddedShares DEF AddShares, AddFinderShares
    <3>2. queue # <<>> => queue'[Len(queue)].height = queue[Len(queue)].height
      <4> SUFFICES ASSUME queue # <<>>
                   PROVE  queue'[Len(queue)].height = queue[Len(queue)].height
        OBVIOUS
      <4>1. Len(queue) \in 1..Len(queue) /\ queue[Len(queue)] \in Round
        BY <1>0
      <4>2. WithShare(queue[Len(queue)], u).height = queue[Len(queue)].height
        BY <4>1, WithShareFields
      <4> QED
        BY <3>1, <4>1, <4>2
    <3>3. \A p \in IOThreads : pc[p] \in Closing => pc'[p] \in Closing
      BY <2>1, Threads DEF AddShares, AddFinderShares, threadVars, Closing, TypeOK
    <3> QED
      BY <1>4, <2>1, <3>1, <3>2, <3>3 DEF AddShares, AddFinderShares
  <2>2. CASE MineBlock(t)
    <3>1. queue' = queue /\ mode' = mode /\ crashes' = crashes
          /\ \A p \in IOThreads : pc[p] \in Closing => pc'[p] \in Closing
      BY <2>2 DEF MineBlock, bookVars, Closing, TypeOK
    <3> QED
      BY <3>1 DEF RearThere
  <2>3. CASE LabelRound(t)
    <3>1. queue' \in Seq(Round) /\ Len(queue') = Len(queue)
      <4>1. tip \in Files /\ found[t] \in Files
        BY Constants DEF TypeOK
      <4> QED
        BY <1>0, <2>3, <4>1, FoundSet DEF LabelRound
    <3>2. pc'[t] \in Closing
      BY <2>3, Threads DEF LabelRound, Closing, TypeOK
    <3>3. mode' = mode /\ crashes' = crashes /\ (queue # <<>> => queue' # <<>>)
      BY <1>0, <2>3, <3>1 DEF LabelRound
    <3> QED
      BY <3>2, <3>3 DEF RearThere
  <2>4. CASE OpenRoundFile(t)
    <3>1. queue' = queue /\ mode' = mode /\ crashes' = crashes
          /\ \A p \in IOThreads : pc[p] \in Closing => pc'[p] \in Closing
      BY <2>4, Threads DEF OpenRoundFile, bookVars, Closing, TypeOK
    <3> QED
      BY <3>1 DEF RearThere
  <2>5. CASE BeginRound(t)
    <3>1. /\ queue' \in Seq(Round) /\ Len(queue') = Len(queue) + 1 /\ Len(queue) \in Nat
          /\ queue'[Len(queue) + 1] = NewRound(nextId, 0)
      BY <1>0, <2>5, BeginRoundTypes
    <3>2. queue' # <<>> /\ Last(queue').height = 0
      BY <3>1 DEF Last, NewRound
    <3> QED
      BY <3>2 DEF RearThere
  <2>6. CASE SaveNothing(t)
    <3>1. queue' = queue /\ mode' = mode /\ crashes' = crashes
          /\ \A p \in IOThreads : pc[p] \in Closing => pc'[p] \in Closing
      BY <2>6 DEF SaveNothing, bookVars, Closing, TypeOK
    <3> QED
      BY <3>1 DEF RearThere
  <2> QED
    BY <1>5, <2>1, <2>2, <2>3, <2>4, <2>5, <2>6 DEF Handler
<1>6. ASSUME NEW p \in Savers, OpenCurrent(p) \/ WriteCurrent(p)
      PROVE  RearThere'
  <2>1. queue' = queue /\ mode' = mode /\ crashes' = crashes
        /\ \A t \in IOThreads : pc[t] \in Closing => pc'[t] \in Closing
    BY <1>6, Threads DEF OpenCurrent, WriteCurrent, AtSave, bookVars, Closing, TypeOK
  <2> QED
    BY <2>1 DEF RearThere
<1>7. CASE CreditRound
  <2>1. /\ Len(queue) \in Nat \ {0} /\ Head(queue) = queue[1]
        /\ Len(queue') = Len(queue) - 1 /\ queue' \in Seq(Round)
        /\ \A i \in 1..Len(queue') : queue'[i] = queue[i + 1]
    BY <1>7, CreditTypes
  <2>2. mode = "up" /\ mode' = mode /\ crashes' = crashes /\ lock = Worker /\ queue[1].height # 0
    BY <1>7, <2>1 DEF CreditRound, LockHeld, Matured
  <2>3. \A t \in IOThreads : pc[t] \notin Closing
    BY <2>2, Threads DEF LockHeld, Inside, Closing
  <2>4. queue # <<>> /\ Last(queue).height = 0
    BY <2>2, <2>3 DEF RearThere
  <2>5. Len(queue) > 1 /\ queue' # <<>> /\ Last(queue') = Last(queue)
    BY <1>0, <2>1, <2>2, <2>4 DEF Last
  <2> QED
    BY <2>4, <2>5 DEF RearThere
<1>8. CASE StoreXPM \/ MarkCalculated
  <2>1. /\ queue' \in Seq(Round) /\ Len(queue') = Len(queue)
        /\ \A i \in 1..Len(queue) : OnlyPaid(queue[i], queue'[i])
    BY <1>8, ComputedTypes
  <2>2. queue # <<>> => queue'[Len(queue)].height = queue[Len(queue)].height
    BY <1>0, <2>1 DEF OnlyPaid
  <2> QED
    BY <1>4, <1>8, <2>1, <2>2 DEF StoreXPM, MarkCalculated, threadVars
<1>9. CASE ProcessBalances
  <2>1. CASE \/ EnterProcessBalances \/ WriteUsers \/ MoveRoundFile \/ MoveFails \/ LeaveScan
             \/ NextRound \/ LeaveCalculation \/ NoPayout \/ SendPayouts
    BY <1>1, <2>1
    DEF EnterProcessBalances, WriteUsers, MoveRoundFile, MoveFails, LeaveScan, NextRound,
        LeaveCalculation, NoPayout, SendPayouts, bookVars, threadVars
  <2>2. ~(ScanEmptyQueue \/ WalletLocked)
    BY <1>0 DEF ScanEmptyQueue, WalletLocked
  <2> QED
    BY <1>7, <1>8, <1>9, <2>1, <2>2 DEF ProcessBalances
<1>10. CASE NewTip \/ WakeWorker \/ UNCHANGED vars
  BY <1>1, <1>10 DEF NewTip, WakeWorker, vars, bookVars, threadVars
<1> QED
  BY <1>0, <1>2, <1>3, <1>5, <1>6, <1>9, <1>10 DEF Next, SaveCurrent, Crash, SaverDereferencesNull

\* Steps that leave the sums of the shares alone.
LEMMA SharesKept ==
  ASSUME TypeInv, SharesConserved, crashes = 0, accepted' = accepted,
         queue' \in Seq(Round), Len(queue') = Len(queue),
         \A i \in 1..Len(queue) : queue'[i].shares = queue[i].shares,
         userInfos'.ledger = userInfos.ledger
  PROVE  SharesConserved'
<1>1. queue \in Seq(Round)
  BY DEF TypeInv, TypeOK, IsRounds
<1> DEFINE p == queue'
           q == queue
<1>2. p \in Seq(Round) /\ q \in Seq(Round) /\ Len(p) = Len(q)
      /\ \A i \in 1..Len(q) : p[i].shares = q[i].shares
  BY <1>1
<1> HIDE DEF p, q
<1>3. \A u \in Users : SharesIn(p, u) = SharesIn(q, u)
  BY <1>2, SharesSame
<1>4. \A u \in Users : SharesIn(queue', u) = SharesIn(queue, u)
  BY <1>3 DEF p, q
<1>5. ASSUME NEW u \in Users
      PROVE  accepted'[u] = SharesIn(queue', u) + SharesIn(userInfos'.ledger, u)
  BY <1>4, <1>5 DEF SharesConserved
<1> QED
  BY <1>5 DEF SharesConserved

LEMMA SharesStep ==
  ASSUME TypeInv, FirstLife, RearThere, SharesConserved, [Next]_vars
  PROVE  SharesConserved'
<1> SUFFICES ASSUME crashes' = 0
             PROVE  SharesConserved'
  BY DEF SharesConserved
<1> USE DEF TypeInv
<1>0. /\ ~Die /\ queue \in Seq(Round) /\ crashes = 0
      /\ userInfos \in UserInfos /\ userInfos.ledger \in Seq(Round) /\ accepted \in [Users -> Nat]
  <2>1. ~Die /\ queue \in Seq(Round) /\ userInfos \in UserInfos /\ accepted \in [Users -> Nat]
    BY DEF Die, TypeOK, IsRounds, IsUsers
  <2>2. crashes = 0
    BY <2>1 DEF Next, Crash, StartPool, StartRefused, NewTip, SaverDereferencesNull, WakeWorker,
         Handler, AddShares, AddFinderShares, MineBlock, LabelRound, OpenRoundFile, BeginRound,
         SaveNothing, SaveCurrent, OpenCurrent, WriteCurrent, ProcessBalances,
         EnterProcessBalances, CreditRound, WriteUsers, MoveRoundFile, MoveFails,
         ScanEmptyQueue, LeaveScan, NextRound, StoreXPM, MarkCalculated, LeaveCalculation, NoPayout,
         SendPayouts, WalletLocked, vars
  <2> QED
    BY <2>1, <2>2 DEF UserInfos
<1>1. ASSUME UNCHANGED <<queue, accepted>>, userInfos'.ledger = userInfos.ledger
      PROVE  SharesConserved'
  BY <1>0, <1>1 DEF SharesConserved
<1>2. CASE StartPool
  <2>1. mode # "up" /\ accepted' = accepted
    BY <1>2 DEF StartPool
  <2>2. accepted = Nobody
    BY <1>0, <2>1 DEF FirstLife
  <2>3. \A u \in Users : SharesIn(queue', u) = 0 /\ SharesIn(userInfos'.ledger, u) = 0
    BY <1>0, <1>2, FirstQueue, SumsOfNone
  <2> QED
    BY <2>1, <2>2, <2>3, Constants DEF SharesConserved
<1>3. ASSUME NEW t \in IOThreads, NEW u \in Users, AddShares(t, u) \/ AddFinderShares(t, u)
      PROVE  SharesConserved'
  <2>1. queue # <<>>
    BY <1>0, <1>3 DEF RearThere, AddShares, AddFinderShares
  <2>2. /\ queue' \in Seq(Round) /\ Len(queue') = Len(queue)
        /\ \A i \in 1..Len(queue) : queue'[i] = IF i = Len(queue) THEN WithShare(queue[i], u)
                                                ELSE queue[i]
    BY <1>0, <1>3, AddedShares DEF AddShares, AddFinderShares
  <2>3. \A v \in Users : SharesIn(queue', v) = SharesIn(queue, v) + (IF v = u THEN 1 ELSE 0)
    <3> DEFINE p == queue'
               q == queue
    <3>1. /\ p \in Seq(Round) /\ q \in Seq(Round) /\ q # <<>> /\ Len(p) = Len(q)
          /\ \A i \in 1..Len(q) : p[i] = IF i = Len(q) THEN WithShare(q[i], u) ELSE q[i]
      BY <1>0, <2>1, <2>2
    <3> HIDE DEF p, q
    <3>2. \A v \in Users : SharesIn(p, v) = SharesIn(q, v) + (IF v = u THEN 1 ELSE 0)
      BY <3>1, SharesMore
    <3> QED
      BY <3>2 DEF p, q
  <2>4. accepted' = [accepted EXCEPT ![u] = accepted[u] + 1]
    <3>1. accepted' = [accepted EXCEPT ![u] = @ + calcShares(ShareLength)]
      BY <1>3 DEF AddShares, AddFinderShares
    <3> QED
      BY <3>1, AddSharesTypes
  <2>5. userInfos' = userInfos
    BY <1>3 DEF AddShares, AddFinderShares
  <2>6. ASSUME NEW v \in Users
        PROVE  accepted'[v] = SharesIn(queue', v) + SharesIn(userInfos'.ledger, v)
    <3> DEFINE a == SharesIn(queue, v)
               b == SharesIn(userInfos.ledger, v)
    <3>1. a \in Nat /\ b \in Nat
      BY <1>0, SharesAreInt
    <3>2. accepted[v] = a + b
      BY <1>0 DEF SharesConserved
    <3>3. accepted'[v] = accepted[v] + (IF v = u THEN 1 ELSE 0)
      BY <1>0, <2>4
    <3>4. SharesIn(queue', v) = a + (IF v = u THEN 1 ELSE 0) /\ SharesIn(userInfos'.ledger, v) = b
      BY <2>3, <2>5
    <3> HIDE DEF a, b
    <3> QED
      BY <3>1, <3>2, <3>3, <3>4
  <2> QED
    BY <2>6 DEF SharesConserved
<1>4. ASSUME NEW t \in IOThreads, LabelRound(t)
      PROVE  SharesConserved'
  <2>1. tip \in Files /\ found[t] \in Files
    BY Constants DEF TypeOK
  <2>2. /\ queue' \in Seq(Round) /\ Len(queue') = Len(queue)
        /\ \A i \in 1..Len(queue) : queue'[i] = IF i = Len(queue)
                                                THEN Labelled(queue[i], tip, Reward, found[t])
                                                ELSE queue[i]
    BY <1>0, <1>4, <2>1, FoundSet DEF LabelRound
  <2>3. \A r \in Round : Labelled(r, tip, Reward, found[t]).shares = r.shares
    BY <2>1 DEF Labelled, Round
  <2>4. \A i \in 1..Len(queue) : queue'[i].shares = queue[i].shares
    <3> TAKE i \in 1..Len(queue)
    <3>1. queue[i] \in Round
      BY <1>0
    <3> QED
      BY <2>2, <2>3, <3>1
  <2> QED
    BY <1>0, <1>4, <2>2, <2>4, SharesKept DEF LabelRound
<1>5. ASSUME NEW t \in IOThreads, BeginRound(t)
      PROVE  SharesConserved'
  <2>1. /\ queue' \in Seq(Round) /\ Len(queue') = Len(queue) + 1
        /\ \A i \in 1..Len(queue) : queue'[i] = IF NeedsCalculation(queue[i])
                                                THEN calculateXPMPerUser(queue[i]) ELSE queue[i]
        /\ queue'[Len(queue) + 1] = NewRound(nextId, 0)
    BY <1>5, BeginRoundTypes
  <2>2. \A i \in 1..Len(queue) : queue'[i].shares = queue[i].shares
    <3> TAKE i \in 1..Len(queue)
    <3>1. queue[i] \in Round
      BY <1>0
    <3>2. calculateXPMPerUser(queue[i]).shares = queue[i].shares
      BY <3>1, Calculated, WithPayFields
    <3> QED
      BY <2>1, <3>2
  <2>3. accepted' = accepted /\ userInfos' = userInfos
    BY <1>5 DEF BeginRound
  <2>4. \A u \in Users : SharesIn(queue', u) = SharesIn(queue, u)
    <3> TAKE u \in Users
    <3> DEFINE n == SubSeq(queue', 1, Len(queue))
               p == queue'
               q == queue
    <3>1. n \in Seq(Round) /\ Len(n) = Len(q) /\ Len(p) = Len(n) + 1
          /\ \A i \in 1..Len(q) : n[i] = p[i]
      BY <1>0, <2>1
    <3>2. /\ p \in Seq(Round) /\ q \in Seq(Round) /\ \A i \in 1..Len(q) : n[i].shares = q[i].shares
          /\ \A i \in 1..Len(n) : p[i].shares = n[i].shares /\ p[i].pay = n[i].pay
      BY <1>0, <2>1, <2>2, <3>1
    <3>3. p[Len(p)].shares[u] = 0
      BY <2>1, Constants DEF NewRound
    <3> HIDE DEF n, p, q
    <3>4. SharesIn(n, u) = SharesIn(q, u)
      BY <3>1, <3>2, SharesSame
    <3>5. SharesIn(p, u) = SharesIn(n, u) + p[Len(p)].shares[u]
      BY <3>1, <3>2, AppendedSums
    <3>6. SharesIn(q, u) \in Nat
      BY <3>2, SharesAreInt
    <3>7. SharesIn(p, u) = SharesIn(q, u)
      BY <3>3, <3>4, <3>5, <3>6
    <3> QED
      BY <3>7 DEF p, q
  <2>5. ASSUME NEW u \in Users
        PROVE  accepted'[u] = SharesIn(queue', u) + SharesIn(userInfos'.ledger, u)
    BY <1>0, <2>3, <2>4 DEF SharesConserved
  <2> QED
    BY <2>5 DEF SharesConserved
<1>6. CASE CreditRound
  <2>1. /\ Len(queue) \in Nat \ {0} /\ Head(queue) = queue[1] /\ Head(queue) \in Round
        /\ Credited \in Round /\ Credited = WithPay(Head(queue), Credited)
        /\ queue' \in Seq(Round) /\ Len(queue') = Len(queue) - 1
        /\ \A i \in 1..Len(queue') : queue'[i] = queue[i + 1]
        /\ userInfos'.ledger = Append(userInfos.ledger, Credited)
    BY <1>6, CreditTypes
  <2>2. accepted' = accepted
    BY <1>6 DEF CreditRound
  <2>3. Credited.shares = queue[1].shares
    BY <2>1, WithPayFields
  <2>4. ASSUME NEW u \in Users
        PROVE  accepted'[u] = SharesIn(queue', u) + SharesIn(userInfos'.ledger, u)
    <3> DEFINE p == queue'
               q == queue
               l == userInfos.ledger
               m == Append(l, Credited)
    <3>1. /\ p \in Seq(Round) /\ q \in Seq(Round) /\ l \in Seq(Round) /\ m \in Seq(Round)
          /\ Len(q) # 0 /\ Len(p) = Len(q) - 1 /\ \A i \in 1..Len(p) : p[i] = q[i + 1]
      BY <1>0, <2>1
    <3>2. /\ Len(m) = Len(l) + 1 /\ m[Len(m)] = Credited
          /\ \A i \in 1..Len(l) : m[i].shares = l[i].shares /\ m[i].pay = l[i].pay
      BY <1>0, <2>1
    <3>3. accepted'[u] = SharesIn(q, u) + SharesIn(l, u) /\ userInfos'.ledger = m
          /\ q[1].shares[u] \in Nat /\ m[Len(m)].shares[u] = q[1].shares[u]
      <4>1. 1 \in 1..Len(queue)
        BY <2>1
      <4>2. queue[1].shares[u] \in Nat
        BY <1>0, <4>1, Counts
      <4> QED
        BY <1>0, <2>1, <2>2, <2>3, <3>2, <4>2 DEF SharesConserved
    <3> HIDE DEF p, q, l, m
    <3>4. SharesIn(q, u) = q[1].shares[u] + SharesIn(p, u)
      BY <3>1, SharesOfTail
    <3>5. SharesIn(m, u) = SharesIn(l, u) + m[Len(m)].shares[u]
      BY <3>1, <3>2, AppendedSums
    <3>6. SharesIn(p, u) \in Nat /\ SharesIn(l, u) \in Nat
      BY <3>1, SharesAreInt
    <3>7. accepted'[u] = SharesIn(p, u) + SharesIn(m, u)
      BY <3>3, <3>4, <3>5, <3>6
    <3> QED
      BY <3>3, <3>7 DEF p
  <2> QED
    BY <2>4 DEF SharesConserved
<1>7. CASE StoreXPM \/ MarkCalculated
  <2>1. /\ queue' \in Seq(Round) /\ Len(queue') = Len(queue)
        /\ \A i \in 1..Len(queue) : OnlyPaid(queue[i], queue'[i])
    BY <1>7, ComputedTypes
  <2>2. \A i \in 1..Len(queue) : queue'[i].shares = queue[i].shares
    BY <2>1 DEF OnlyPaid
  <2> QED
    BY <1>0, <1>7, <2>1, <2>2, SharesKept DEF StoreXPM, MarkCalculated
<1>8. CASE SendPayouts
  <2>1. userInfos'.ledger = userInfos.ledger
    BY <1>0, <1>8 DEF SendPayouts, UserInfos
  <2> QED
    BY <1>1, <1>8, <2>1 DEF SendPayouts, bookVars
<1>9. ASSUME NEW t \in IOThreads, Handler(t)
      PROVE  SharesConserved'
  <2>1. CASE MineBlock(t) \/ OpenRoundFile(t) \/ SaveNothing(t)
    BY <1>1, <2>1 DEF MineBlock, OpenRoundFile, SaveNothing, bookVars
  <2> QED
    BY <1>3, <1>4, <1>5, <1>9, <2>1 DEF Handler
<1>10. ASSUME NEW p \in Savers, OpenCurrent(p) \/ WriteCurrent(p)
       PROVE  SharesConserved'
  BY <1>1, <1>10 DEF OpenCurrent, WriteCurrent, bookVars
<1>11. CASE ProcessBalances
  <2>1. CASE \/ EnterProcessBalances \/ WriteUsers \/ MoveRoundFile \/ MoveFails \/ LeaveScan
             \/ NextRound \/ LeaveCalculation \/ NoPayout
    BY <1>1, <2>1
    DEF EnterProcessBalances, WriteUsers, MoveRoundFile, MoveFails, LeaveScan, NextRound,
        LeaveCalculation, NoPayout, bookVars
  <2>2. ~(ScanEmptyQueue \/ WalletLocked)
    BY <1>0 DEF ScanEmptyQueue, WalletLocked
  <2> QED
    BY <1>6, <1>7, <1>8, <1>11, <2>1, <2>2 DEF ProcessBalances
<1>12. CASE NewTip \/ WakeWorker \/ StartRefused \/ UNCHANGED vars
  BY <1>1, <1>12 DEF NewTip, WakeWorker, StartRefused, vars, bookVars
<1> QED
  BY <1>0, <1>2, <1>9, <1>10, <1>11, <1>12 DEF Next, SaveCurrent, Crash, SaverDereferencesNull

LEMMA BalanceStep ==
  ASSUME TypeInv, FirstLife, BalanceConserved, [Next]_vars
  PROVE  BalanceConserved'
<1> SUFFICES ASSUME crashes' = 0
             PROVE  BalanceConserved'
  BY DEF BalanceConserved
<1> USE DEF TypeInv
<1>0. /\ ~Die /\ paid \in [Users -> Nat] /\ userInfos.ledger \in Seq(Round)
      /\ userInfos \in UserInfos /\ userInfos.balance \in [Users -> Nat]
  <2>1. ~Die /\ paid \in [Users -> Nat] /\ userInfos \in UserInfos
    BY DEF Die, TypeOK, IsUsers
  <2> QED
    BY <2>1 DEF UserInfos
<1>1. ASSUME crashes' = crashes, paid' = paid, userInfos' = userInfos
      PROVE  BalanceConserved'
  BY <1>1 DEF BalanceConserved
<1>2. CASE StartPool
  <2>1. crashes = 0 /\ mode # "up" /\ paid' = paid
    BY <1>2 DEF StartPool, diskVars
  <2>2. paid = Nobody
    BY <2>1 DEF FirstLife
  <2>3. userInfos'.balance = Nobody /\ userInfos'.ledger = <<>>
    BY <1>2, <2>1, FirstQueue
  <2> QED
    BY <2>1, <2>2, <2>3, SumsOfNone, Constants DEF BalanceConserved
<1>3. CASE CreditRound
  <2>1. /\ Credited \in Round /\ crashes = 0 /\ paid' = paid
        /\ userInfos'.ledger = Append(userInfos.ledger, Credited)
        /\ userInfos'.balance = [u \in Users |-> userInfos.balance[u] + Credited.pay[u]]
    BY <1>3, CreditTypes DEF CreditRound
  <2>2. ASSUME NEW u \in Users
        PROVE  userInfos'.balance[u] + paid'[u] = PayIn(userInfos'.ledger, u)
    <3> DEFINE l == userInfos.ledger
               m == Append(l, Credited)
    <3>1. /\ l \in Seq(Round) /\ m \in Seq(Round) /\ Len(m) = Len(l) + 1 /\ m[Len(m)] = Credited
          /\ \A i \in 1..Len(l) : m[i].shares = l[i].shares /\ m[i].pay = l[i].pay
      BY <1>0, <2>1
    <3>2. /\ userInfos.balance[u] + paid[u] = PayIn(l, u) /\ userInfos'.ledger = m
          /\ userInfos.balance[u] \in Nat /\ paid[u] \in Nat
          /\ userInfos'.balance[u] = userInfos.balance[u] + Credited.pay[u]
      BY <1>0, <2>1 DEF BalanceConserved
    <3>3. Credited.pay[u] \in Nat
      BY <2>1 DEF Round
    <3> HIDE DEF l, m
    <3>4. PayIn(m, u) = PayIn(l, u) + Credited.pay[u]
      BY <3>1, AppendedSums
    <3> QED
      BY <2>1, <3>2, <3>3, <3>4
  <2> QED
    BY <2>2 DEF BalanceConserved
<1>4. CASE SendPayouts
  <2>1. /\ crashes = 0 /\ userInfos'.ledger = userInfos.ledger
        /\ userInfos'.balance = Reset(userInfos.balance)
        /\ paid' = [u \in Users |-> IF u \in Due THEN paid[u] + userInfos.balance[u] ELSE paid[u]]
    BY <1>0, <1>4 DEF SendPayouts, UserInfos
  <2>2. ASSUME NEW u \in Users
        PROVE  userInfos'.balance[u] + paid'[u] = userInfos.balance[u] + paid[u]
    BY <1>0, <2>1 DEF Reset
  <2> QED
    BY <2>1, <2>2 DEF BalanceConserved
<1>5. ASSUME NEW t \in IOThreads, Handler(t)
      PROVE  BalanceConserved'
  BY <1>1, <1>5 DEF Handler, AddShares, AddFinderShares, MineBlock, LabelRound, OpenRoundFile,
                    BeginRound, SaveNothing, diskVars
<1>6. ASSUME NEW p \in Savers, SaveCurrent(p)
      PROVE  BalanceConserved'
  BY <1>1, <1>6 DEF SaveCurrent, OpenCurrent, WriteCurrent
<1>7. CASE ProcessBalances
  <2>1. CASE \/ EnterProcessBalances \/ WriteUsers \/ MoveRoundFile \/ MoveFails \/ LeaveScan
             \/ NextRound \/ StoreXPM \/ MarkCalculated \/ LeaveCalculation \/ NoPayout
    BY <1>1, <2>1
    DEF EnterProcessBalances, WriteUsers, MoveRoundFile, MoveFails, LeaveScan, NextRound,
        StoreXPM, MarkCalculated, LeaveCalculation, NoPayout, diskVars
  <2>2. ~(ScanEmptyQueue \/ WalletLocked)
    BY <1>0 DEF ScanEmptyQueue, WalletLocked
  <2> QED
    BY <1>3, <1>4, <1>7, <2>1, <2>2 DEF ProcessBalances
<1>8. CASE NewTip \/ WakeWorker \/ StartRefused \/ UNCHANGED vars
  BY <1>1, <1>8 DEF NewTip, WakeWorker, StartRefused, vars, diskVars
<1> QED
  BY <1>0, <1>2, <1>5, <1>6, <1>7, <1>8 DEF Next, Crash, SaverDereferencesNull

LEMMA BooksAlways == Spec => []BooksInv
<1>1. Init => BooksInv
  <2> SUFFICES ASSUME Init
               PROVE  BooksInv
    OBVIOUS
  <2>1. FirstLife
    <3>1. usersFile # Torn /\ (usersFile # NoFile => usersFile.balance = Nobody /\ usersFile.ledger = <<>>)
      <4>1. CASE KnownUsers = {}
        BY <4>1, NamesAssumption DEF Init
      <4>2. CASE KnownUsers # {}
        <5>1. usersFile = [NoUsers EXCEPT !.known = KnownUsers] /\ NoUsers \in UserInfos
              /\ KnownUsers \in SUBSET Users
          BY <4>2, EmptyValues, LedgerAssumption DEF Init
        <5>2. usersFile \in UserInfos /\ usersFile.balance = NoUsers.balance /\ usersFile.ledger = NoUsers.ledger
          BY <5>1 DEF UserInfos
        <5> QED
          BY <5>2, EmptyValues, NamesAssumption
      <4> QED
        BY <4>1, <4>2
    <3> QED
      BY <3>1 DEF Init, FirstLife
  <2>2. RearThere
    BY DEF Init, RearThere
  <2>3. SharesConserved
    BY SumsOfNone, EmptyValues, Constants DEF Init, SharesConserved
  <2>4. BalanceConserved
    BY SumsOfNone, EmptyValues, Constants DEF Init, BalanceConserved
  <2> QED
    BY <2>1, <2>2, <2>3, <2>4 DEF BooksInv
<1>2. TypeInv /\ BooksInv /\ [Next]_vars => BooksInv'
  BY FirstLifeStep, RearThereStep, SharesStep, BalanceStep DEF BooksInv
<1> QED
  BY <1>1, <1>2, TypeInvAlways, PTL DEF Spec

\* pool.cpp 585, 604, 212: until the pool crashes, every share a miner was told is
\* accepted is counted in exactly one round, from the submission to the credit.
THEOREM SharesCounted == Spec => []SharesConserved
<1>1. BooksInv => SharesConserved
  BY DEF BooksInv
<1> QED
  BY <1>1, BooksAlways, PTL

\* pool.cpp 188, 246, 254: until the pool crashes, what a user was credited is in his
\* balance or was paid to him.
THEOREM BalancesCounted == Spec => []BalanceConserved
<1>1. BooksInv => BalanceConserved
  BY DEF BooksInv
<1> QED
  BY <1>1, BooksAlways, PTL

-----------------------------------------------------------------------------
(* What a round pays *)

\* No round pays a user without shares.
Payable(r) == \A u \in Users : r.shares[u] = 0 => r.pay[u] = 0

PayInv == crashes = 0 => \A i \in 1..Len(queue) : Payable(queue[i])

\* Only the rear of the queue can lack the height of a block, and not while a handler
\* closes it.
HeightsKnown ==
  crashes = 0 =>
    /\ \A i \in 1..(Len(queue) - 1) : queue[i].height # 0
    /\ \A t \in IOThreads : pc[t] \in Closing /\ queue # <<>> => Last(queue).height # 0

LEMMA CalculatedIsPayable ==
  ASSUME NEW r \in Round, Payable(r)
  PROVE  Payable(calculateXPMPerUser(r))
<1>1. CASE UserList(r) = {}
  BY <1>1 DEF calculateXPMPerUser
<1>2. CASE UserList(r) # {}
  <2> DEFINE p == [u \in Users |-> AmountOf(r, u)]
             c == calculateXPMPerUser(r)
  <2>1. c = [r EXCEPT !.pay = p, !.calculated = TRUE]
    BY <1>2 DEF calculateXPMPerUser, AmountOf
  <2>2. \A u \in Users : r.shares[u] = 0 => p[u] = 0
    BY DEF AmountOf
  <2> HIDE DEF p, c
  <2>3. c.pay = p /\ c.shares = r.shares
    BY <2>1 DEF Round
  <2>4. Payable(c)
    BY <2>2, <2>3 DEF Payable
  <2> QED
    BY <2>4 DEF c
<1> QED
  BY <1>1, <1>2

LEMMA PayableKept ==
  ASSUME NEW r \in Round, Payable(r)
  PROVE  /\ \A u \in Users : Payable(WithShare(r, u))
         /\ \A h, b \in Files : Payable(Labelled(r, h, Reward, b))
         /\ \A s : OnlyPaid(r, s) => Payable(s)
<1>1. ASSUME NEW u \in Users
      PROVE  Payable(WithShare(r, u))
  <2>1. /\ WithShare(r, u).pay = r.pay
        /\ WithShare(r, u).shares = [r.shares EXCEPT ![u] = r.shares[u] + 1]
    BY WithShareFields
  <2>2. r.shares \in [Users -> Nat]
    BY DEF Round
  <2>3. \A v \in Users : WithShare(r, u).shares[v] = 0 => r.shares[v] = 0
    BY <2>1, <2>2
  <2> QED
    BY <2>1, <2>3 DEF Payable
<1>2. ASSUME NEW h \in Files, NEW b \in Files
      PROVE  Payable(Labelled(r, h, Reward, b))
  <2>1. Labelled(r, h, Reward, b).pay = r.pay
    BY DEF Labelled, Round
  <2>2. Labelled(r, h, Reward, b).shares = r.shares
    BY DEF Labelled, Round
  <2> QED
    BY <2>1, <2>2 DEF Payable
<1>3. \A s : OnlyPaid(r, s) => Payable(s)
  BY DEF OnlyPaid, Payable
<1> QED
  BY <1>1, <1>2, <1>3

LEMMA NewRoundIsPayable ==
  ASSUME NEW id \in Nat
  PROVE  Payable(NewRound(id, 0))
BY DEF NewRound, Nobody, Payable

LEMMA PayInvStep ==
  ASSUME TypeInv, FirstLife, PayInv, [Next]_vars
  PROVE  PayInv'
<1> SUFFICES ASSUME crashes' = 0
             PROVE  PayInv'
  BY DEF PayInv
<1> USE DEF TypeInv
<1>0. /\ ~Die /\ queue \in Seq(Round) /\ Len(queue) \in Nat
      /\ \A i \in 1..Len(queue) : queue[i] \in Round
  BY DEF Die, TypeOK, IsRounds
\* What PayInv says when there has been no crash.
<1>1. ASSUME crashes = 0
      PROVE  \A i \in 1..Len(queue) : Payable(queue[i])
  BY <1>1 DEF PayInv
<1>2. ASSUME UNCHANGED <<crashes, queue>>
      PROVE  PayInv'
  BY <1>2 DEF PayInv
<1>3. ASSUME crashes' = crashes, Len(queue') = Len(queue),
             \A i \in 1..Len(queue) : Payable(queue[i]) => Payable(queue'[i])
      PROVE  PayInv'
  BY <1>0, <1>1, <1>3 DEF PayInv
<1>4. CASE StartPool
  <2>1. crashes = 0 /\ nextId \in Nat
    BY <1>4 DEF StartPool, TypeOK
  <2>2. queue' = <<NewRound(nextId, 0)>>
    BY <1>4, <2>1, FirstQueue
  <2>3. \A i \in 1..Len(queue') : Payable(queue'[i])
    BY <2>1, <2>2, NewRoundIsPayable
  <2> QED
    BY <2>3 DEF PayInv
<1>5. ASSUME NEW t \in IOThreads, Handler(t)
      PROVE  PayInv'
  <2>1. ASSUME NEW u \in Users, AddShares(t, u) \/ AddFinderShares(t, u)
        PROVE  PayInv'
    <3>1. /\ Len(queue') = Len(queue)
          /\ \A i \in 1..Len(queue) : queue'[i] = IF i = Len(queue) THEN WithShare(queue[i], u)
                                                  ELSE queue[i]
      BY <1>0, <2>1, AddedShares DEF AddShares, AddFinderShares
    <3>2. \A i \in 1..Len(queue) : Payable(queue[i]) => Payable(WithShare(queue[i], u))
      BY <1>0, PayableKept
    <3> QED
      BY <1>3, <2>1, <3>1, <3>2 DEF AddShares, AddFinderShares
  <2>2. CASE LabelRound(t)
    <3>1. tip \in Files /\ found[t] \in Files
      BY Constants DEF TypeOK
    <3>2. /\ Len(queue') = Len(queue)
          /\ \A i \in 1..Len(queue) : queue'[i] = IF i = Len(queue)
                                                  THEN Labelled(queue[i], tip, Reward, found[t])
                                                  ELSE queue[i]
      BY <1>0, <2>2, <3>1, FoundSet DEF LabelRound
    <3>3. \A i \in 1..Len(queue) : Payable(queue[i])
                                    => Payable(Labelled(queue[i], tip, Reward, found[t]))
      BY <1>0, <3>1, PayableKept
    <3> QED
      BY <1>3, <2>2, <3>2, <3>3 DEF LabelRound
  <2>3. CASE MineBlock(t) \/ OpenRoundFile(t) \/ SaveNothing(t)
    BY <1>2, <2>3 DEF MineBlock, OpenRoundFile, SaveNothing, bookVars
  <2>4. CASE BeginRound(t)
    <3>1. /\ Len(queue') = Len(queue) + 1
          /\ \A i \in 1..Len(queue) : queue'[i] = IF NeedsCalculation(queue[i])
                                                  THEN calculateXPMPerUser(queue[i]) ELSE queue[i]
          /\ queue'[Len(queue) + 1] = NewRound(nextId, 0)
      BY <2>4, BeginRoundTypes
    <3>2. crashes = 0 /\ nextId \in Nat
      BY <2>4 DEF BeginRound, TypeOK
    <3>3. \A i \in 1..Len(queue) : Payable(queue[i]) /\ Payable(calculateXPMPerUser(queue[i]))
      BY <1>0, <1>1, <3>2, CalculatedIsPayable
    <3>4. Payable(queue'[Len(queue) + 1])
      BY <3>1, <3>2, NewRoundIsPayable
    <3>5. \A i \in 1..Len(queue') : Payable(queue'[i])
      BY <1>0, <3>1, <3>3, <3>4
    <3> QED
      BY <3>5 DEF PayInv
  <2> QED
    BY <1>5, <2>1, <2>2, <2>3, <2>4 DEF Handler
<1>6. ASSUME NEW p \in Savers, SaveCurrent(p)
      PROVE  PayInv'
  BY <1>2, <1>6 DEF SaveCurrent, OpenCurrent, WriteCurrent, bookVars
<1>7. CASE CreditRound
  <2>1. /\ Len(queue') = Len(queue) - 1 /\ \A i \in 1..Len(queue') : queue'[i] = queue[i + 1]
    BY <1>7, CreditTypes
  <2>2. crashes = 0
    BY <1>7 DEF CreditRound
  <2>3. \A i \in 1..Len(queue') : Payable(queue'[i])
    BY <1>0, <1>1, <2>1, <2>2
  <2> QED
    BY <2>3 DEF PayInv
<1>8. CASE StoreXPM \/ MarkCalculated
  <2>1. Len(queue') = Len(queue) /\ \A i \in 1..Len(queue) : OnlyPaid(queue[i], queue'[i])
    BY <1>8, ComputedTypes
  <2>2. \A i \in 1..Len(queue) : Payable(queue[i]) => Payable(queue'[i])
    BY <1>0, <2>1, PayableKept
  <2> QED
    BY <1>3, <1>8, <2>1, <2>2 DEF StoreXPM, MarkCalculated
<1>9. CASE ProcessBalances
  <2>1. CASE \/ EnterProcessBalances \/ WriteUsers \/ MoveRoundFile \/ MoveFails \/ LeaveScan
             \/ NextRound \/ LeaveCalculation \/ NoPayout \/ SendPayouts
    BY <1>2, <2>1
    DEF EnterProcessBalances, WriteUsers, MoveRoundFile, MoveFails, LeaveScan, NextRound,
        LeaveCalculation, NoPayout, SendPayouts, bookVars
  <2>2. ~(ScanEmptyQueue \/ WalletLocked)
    BY <1>0 DEF ScanEmptyQueue, WalletLocked
  <2> QED
    BY <1>7, <1>8, <1>9, <2>1, <2>2 DEF ProcessBalances
<1>10. CASE NewTip \/ WakeWorker \/ StartRefused \/ UNCHANGED vars
  BY <1>2, <1>10 DEF NewTip, WakeWorker, StartRefused, vars, bookVars
<1> QED
  BY <1>0, <1>4, <1>5, <1>6, <1>9, <1>10 DEF Next, Crash, SaverDereferencesNull

LEMMA HeightsKnownStep ==
  ASSUME TypeInv, FirstLife, RearThere, HeightsKnown, [Next]_vars
  PROVE  HeightsKnown'
<1> SUFFICES ASSUME crashes' = 0
             PROVE  HeightsKnown'
  BY DEF HeightsKnown
<1> USE DEF TypeInv
<1>0. /\ ~Die /\ queue \in Seq(Round) /\ Len(queue) \in Nat
      /\ \A i \in 1..Len(queue) : queue[i] \in Round
  BY DEF Die, TypeOK, IsRounds
<1>1. ASSUME crashes = 0
      PROVE  /\ \A i \in 1..(Len(queue) - 1) : queue[i].height # 0
             /\ \A t \in IOThreads : pc[t] \in Closing /\ queue # <<>> => queue[Len(queue)].height # 0
  BY <1>1 DEF HeightsKnown, Last
<1>2. ASSUME UNCHANGED <<crashes, queue>>, \A t \in IOThreads : pc'[t] \in Closing => pc[t] \in Closing
      PROVE  HeightsKnown'
  BY <1>2 DEF HeightsKnown
\* The heights stay as they are.
<1>3. ASSUME crashes' = crashes, queue' \in Seq(Round), Len(queue') = Len(queue),
             \A i \in 1..Len(queue) : queue'[i].height = queue[i].height,
             \A t \in IOThreads : pc'[t] \in Closing => pc[t] \in Closing
      PROVE  HeightsKnown'
  <2>1. \A i \in 1..(Len(queue') - 1) : queue'[i].height # 0
    BY <1>0, <1>1, <1>3
  <2>2. ASSUME NEW t \in IOThreads, pc'[t] \in Closing, queue' # <<>>
        PROVE  Last(queue').height # 0
    <3>1. queue # <<>> /\ Len(queue) \in 1..Len(queue)
      BY <1>0, <1>3, <2>2
    <3>2. queue[Len(queue)].height # 0
      BY <1>1, <1>3, <2>2, <3>1
    <3>3. Last(queue') = queue'[Len(queue)]
      BY <1>3 DEF Last
    <3> QED
      BY <1>3, <3>1, <3>2, <3>3
  <2> QED
    BY <2>1, <2>2 DEF HeightsKnown
<1>4. CASE StartPool
  <2>1. crashes = 0 /\ \A t \in IOThreads : pc'[t] = "idle"
    BY <1>4, Threads DEF StartPool, Stopped, threadVars
  <2>2. Len(queue') = 1
    <3>1. queue' = <<NewRound(nextId, 0)>>
      BY <1>4, <2>1, FirstQueue
    <3> QED
      BY <3>1
  <2>3. \A i \in 1..(Len(queue') - 1) : queue'[i].height # 0
    BY <2>2
  <2> QED
    BY <2>1, <2>3 DEF HeightsKnown, Closing
<1>5. ASSUME NEW t \in IOThreads, Handler(t)
      PROVE  HeightsKnown'
  <2>1. ASSUME NEW u \in Users, AddShares(t, u) \/ AddFinderShares(t, u)
        PROVE  HeightsKnown'
    <3>1. /\ queue' \in Seq(Round) /\ Len(queue') = Len(queue)
          /\ \A i \in 1..Len(queue) : queue'[i] = IF i = Len(queue) THEN WithShare(queue[i], u)
                                                  ELSE queue[i]
      BY <1>0, <2>1, AddedShares DEF AddShares, AddFinderShares
    <3>2. \A i \in 1..Len(queue) : WithShare(queue[i], u).height = queue[i].height
      BY <1>0, WithShareFields
    <3>3. \A p \in IOThreads : pc'[p] \in Closing => pc[p] \in Closing
      BY <2>1, Threads DEF AddShares, AddFinderShares, threadVars, Closing, TypeOK
    <3> QED
      BY <1>3, <2>1, <3>1, <3>2, <3>3 DEF AddShares, AddFinderShares
  <2>2. CASE MineBlock(t) \/ OpenRoundFile(t) \/ SaveNothing(t)
    <3>1. \A p \in IOThreads : pc'[p] \in Closing => pc[p] \in Closing
      BY <2>2, Threads DEF MineBlock, OpenRoundFile, SaveNothing, Closing, TypeOK
    <3> QED
      BY <1>2, <2>2, <3>1 DEF MineBlock, OpenRoundFile, SaveNothing, bookVars
  <2>3. CASE LabelRound(t)
    <3>1. tip \in Files /\ found[t] \in Files /\ tip # 0
      BY Constants DEF TypeOK
    <3>2. /\ queue' \in Seq(Round) /\ Len(queue') = Len(queue)
          /\ \A i \in 1..Len(queue) : queue'[i] = IF i = Len(queue)
                                                  THEN Labelled(queue[i], tip, Reward, found[t])
                                                  ELSE queue[i]
      BY <1>0, <2>3, <3>1, FoundSet DEF LabelRound
    <3>3. \A i \in 1..Len(queue) : Labelled(queue[i], tip, Reward, found[t]).height = tip
      BY <1>0, <3>1 DEF Labelled, Round
    <3>4. crashes = 0
      BY <2>3 DEF LabelRound
    <3>5. \A i \in 1..(Len(queue') - 1) : queue'[i].height # 0
      BY <1>0, <1>1, <3>2, <3>4
    <3>6. queue' # <<>> => Last(queue').height # 0
      <4> SUFFICES ASSUME queue' # <<>>
                   PROVE  Last(queue').height # 0
        OBVIOUS
      <4>1. Len(queue) \in 1..Len(queue) /\ Last(queue') = queue'[Len(queue)]
        BY <1>0, <3>2 DEF Last
      <4> QED
        BY <3>1, <3>2, <3>3, <4>1
    <3> QED
      BY <3>5, <3>6 DEF HeightsKnown
  <2>4. CASE BeginRound(t)
    <3>1. /\ Len(queue') = Len(queue) + 1
          /\ \A i \in 1..Len(queue) : queue'[i] = IF NeedsCalculation(queue[i])
                                                  THEN calculateXPMPerUser(queue[i]) ELSE queue[i]
      BY <2>4, BeginRoundTypes
    <3>2. crashes = 0 /\ mode = "up" /\ pc[t] \in Closing /\ lock = t /\ pc' = [pc EXCEPT ![t] = "save"]
      BY <2>4, Threads DEF BeginRound, Closing, Inside, LockHeld
    <3>3. queue # <<>>
      BY <3>2 DEF RearThere
    <3>4. \A i \in 1..Len(queue) : queue[i].height # 0
      <4>1. queue[Len(queue)].height # 0
        BY <1>1, <3>2, <3>3
      <4> QED
        BY <1>0, <1>1, <3>2, <4>1
    <3>5. \A i \in 1..Len(queue) : queue'[i].height = queue[i].height
      <4> TAKE i \in 1..Len(queue)
      <4>1. queue[i] \in Round
        BY <1>0
      <4>2. calculateXPMPerUser(queue[i]).height = queue[i].height
        BY <4>1, Calculated, WithPayFields
      <4> QED
        BY <3>1, <4>2
    <3>6. \A p \in IOThreads : pc'[p] \notin Closing
      <4> TAKE p \in IOThreads
      <4>1. p # t => pc[p] \notin Closing
        BY <3>2, Threads DEF LockHeld, Inside, Closing
      <4> QED
        BY <3>2, <4>1, Threads DEF TypeOK, Closing
    <3>7. \A i \in 1..(Len(queue') - 1) : queue'[i].height # 0
      BY <1>0, <3>1, <3>4, <3>5
    <3> QED
      BY <3>6, <3>7 DEF HeightsKnown
  <2> QED
    BY <1>5, <2>1, <2>2, <2>3, <2>4 DEF Handler
<1>6. ASSUME NEW p \in Savers, OpenCurrent(p) \/ WriteCurrent(p)
      PROVE  HeightsKnown'
  <2>1. \A t \in IOThreads : pc'[t] \in Closing => pc[t] \in Closing
    BY <1>6, Threads DEF OpenCurrent, WriteCurrent, AtSave, Closing, TypeOK
  <2> QED
    BY <1>2, <1>6, <2>1 DEF OpenCurrent, WriteCurrent, bookVars
<1>7. CASE CreditRound
  <2>1. /\ Len(queue') = Len(queue) - 1 /\ \A i \in 1..Len(queue') : queue'[i] = queue[i + 1]
    BY <1>7, CreditTypes
  <2>2. crashes = 0 /\ lock = Worker /\ pc' = pc
    BY <1>7 DEF CreditRound, LockHeld, threadVars
  <2>3. \A t \in IOThreads : pc'[t] \notin Closing
    BY <2>2, Threads DEF LockHeld, Inside, Closing
  <2>4. \A i \in 1..(Len(queue') - 1) : queue'[i].height # 0
    BY <1>0, <1>1, <2>1, <2>2
  <2> QED
    BY <2>3, <2>4 DEF HeightsKnown
<1>8. CASE StoreXPM \/ MarkCalculated
  <2>1. /\ queue' \in Seq(Round) /\ Len(queue') = Len(queue)
        /\ \A i \in 1..Len(queue) : OnlyPaid(queue[i], queue'[i])
    BY <1>8, ComputedTypes
  <2>2. \A i \in 1..Len(queue) : queue'[i].height = queue[i].height
    BY <2>1 DEF OnlyPaid
  <2> QED
    BY <1>3, <1>8, <2>1, <2>2 DEF StoreXPM, MarkCalculated, threadVars
<1>9. CASE ProcessBalances
  <2>1. CASE \/ EnterProcessBalances \/ WriteUsers \/ MoveRoundFile \/ MoveFails \/ LeaveScan
             \/ NextRound \/ LeaveCalculation \/ NoPayout \/ SendPayouts
    BY <1>2, <2>1
    DEF EnterProcessBalances, WriteUsers, MoveRoundFile, MoveFails, LeaveScan, NextRound,
        LeaveCalculation, NoPayout, SendPayouts, bookVars, threadVars
  <2>2. ~(ScanEmptyQueue \/ WalletLocked)
    BY <1>0 DEF ScanEmptyQueue, WalletLocked
  <2> QED
    BY <1>7, <1>8, <1>9, <2>1, <2>2 DEF ProcessBalances
<1>10. CASE NewTip \/ WakeWorker \/ StartRefused \/ UNCHANGED vars
  BY <1>2, <1>10 DEF NewTip, WakeWorker, StartRefused, vars, bookVars, threadVars
<1> QED
  BY <1>0, <1>4, <1>5, <1>6, <1>9, <1>10 DEF Next, SaveCurrent, Crash, SaverDereferencesNull

LEMMA RoundsAlways == Spec => [](PayInv /\ HeightsKnown)
<1>1. Init => PayInv /\ HeightsKnown
  <2> SUFFICES ASSUME Init
               PROVE  PayInv /\ HeightsKnown
    OBVIOUS
  <2>1. queue = <<>> /\ Len(queue) = 0
    BY DEF Init
  <2>2. (\A i \in 1..Len(queue) : FALSE) /\ \A i \in 1..(Len(queue) - 1) : FALSE
    BY <2>1
  <2>3. \A t \in IOThreads : pc[t] = "idle"
    BY Threads DEF Init
  <2> QED
    BY <2>1, <2>2, <2>3 DEF PayInv, HeightsKnown, Closing
<1>2. TypeInv /\ BooksInv /\ (PayInv /\ HeightsKnown) /\ [Next]_vars => (PayInv /\ HeightsKnown)'
  BY PayInvStep, HeightsKnownStep DEF BooksInv
<1> QED
  BY <1>1, <1>2, TypeInvAlways, BooksAlways, PTL DEF Spec

-----------------------------------------------------------------------------
(* The accounts of PoolAccounts *)

\* The values the refinement gives to "open" and "closed".
OpenShares == IF RearIsOpen THEN Last(queue).shares ELSE Nobody
ClosedShares == [i \in 1..(IF RearIsOpen THEN Len(queue) - 1 ELSE Len(queue)) |-> queue[i].shares]

LEMMA AccountsDef ==
  /\ Accounts!Nobody = Nobody
  /\ Accounts!vars = <<crashes = 0, accepted, OpenShares, ClosedShares, userInfos.balance, paid>>
BY DEF Accounts!vars, Accounts!Nobody, Nobody, OpenShares, ClosedShares

\* The same rounds, open and closed, stand for the same accounts.
LEMMA SameRounds ==
  ASSUME TypeInv, TypeInv', Len(queue') = Len(queue),
         \A i \in 1..Len(queue) : queue'[i].shares = queue[i].shares,
         RearIsOpen' <=> RearIsOpen
  PROVE  OpenShares' = OpenShares /\ ClosedShares' = ClosedShares
<1>1. queue \in Seq(Round) /\ queue' \in Seq(Round)
  BY DEF TypeInv, TypeOK, IsRounds
<1>2. OpenShares' = OpenShares
  <2>1. CASE queue = <<>>
    BY <1>1, <2>1 DEF OpenShares, RearIsOpen
  <2>2. CASE queue # <<>>
    <3>1. Len(queue) \in 1..Len(queue) /\ Last(queue') = queue'[Len(queue)] /\ Last(queue) = queue[Len(queue)]
      BY <1>1, <2>2 DEF Last
    <3> QED
      BY <3>1 DEF OpenShares
  <2> QED
    BY <2>1, <2>2
<1>3. ClosedShares' = ClosedShares
  <2> DEFINE n == IF RearIsOpen THEN Len(queue) - 1 ELSE Len(queue)
  <2>1. \A i \in 1..n : queue'[i].shares = queue[i].shares
    BY <1>1
  <2>2. ClosedShares = [i \in 1..n |-> queue[i].shares]
    BY DEF ClosedShares
  <2>3. ClosedShares' = [i \in 1..n |-> queue'[i].shares]
    BY DEF ClosedShares
  <2> HIDE DEF n
  <2> QED
    BY <2>1, <2>2, <2>3
<1> QED
  BY <1>2, <1>3

\* The two shapes the queue can have while the process runs.
LEMMA OpenQueue ==
  ASSUME TypeInv, queue # <<>>, Last(queue).height = 0 \/ \E t \in IOThreads : pc[t] = "labelled"
  PROVE  /\ RearIsOpen /\ OpenShares = queue[Len(queue)].shares
         /\ ClosedShares = [i \in 1..(Len(queue) - 1) |-> queue[i].shares]
         /\ ClosedShares \in Seq([Users -> Nat]) /\ Len(ClosedShares) = Len(queue) - 1
<1>1. queue \in Seq(Round) /\ Len(queue) \in Nat \ {0} /\ Last(queue) = queue[Len(queue)]
  BY DEF TypeInv, TypeOK, IsRounds, Last
<1>2. RearIsOpen
  BY DEF RearIsOpen
<1>3. \A i \in 1..(Len(queue) - 1) : queue[i].shares \in [Users -> Nat]
  <2> TAKE i \in 1..(Len(queue) - 1)
  <2>1. queue[i] \in Round
    BY <1>1
  <2> QED
    BY <2>1 DEF Round
<1>4. ClosedShares = [i \in 1..(Len(queue) - 1) |-> queue[i].shares]
  BY <1>2 DEF ClosedShares
<1> QED
  BY <1>1, <1>2, <1>3, <1>4 DEF OpenShares

LEMMA ClosedQueue ==
  ASSUME TypeInv, queue # <<>>, Last(queue).height # 0, \A t \in IOThreads : pc[t] # "labelled"
  PROVE  /\ ~RearIsOpen /\ OpenShares = Nobody
         /\ ClosedShares = [i \in 1..Len(queue) |-> queue[i].shares]
         /\ ClosedShares \in Seq([Users -> Nat]) /\ Len(ClosedShares) = Len(queue)
<1>1. queue \in Seq(Round) /\ Len(queue) \in Nat
  BY DEF TypeInv, TypeOK, IsRounds
<1>2. ~RearIsOpen
  BY DEF RearIsOpen
<1>3. \A i \in 1..Len(queue) : queue[i].shares \in [Users -> Nat]
  <2> TAKE i \in 1..Len(queue)
  <2>1. queue[i] \in Round
    BY <1>1
  <2> QED
    BY <2>1 DEF Round
<1>4. ClosedShares = [i \in 1..Len(queue) |-> queue[i].shares]
  BY <1>2 DEF ClosedShares
<1> QED
  BY <1>1, <1>2, <1>3, <1>4 DEF OpenShares

\* Nothing is open or closed while the process does not run.
LEMMA EmptyQueue ==
  ASSUME queue = <<>>
  PROVE  OpenShares = Nobody /\ ClosedShares = <<>>
<1>1. ~RearIsOpen
  BY DEF RearIsOpen
<1>2. OpenShares = Nobody
  BY <1>1 DEF OpenShares
<1>3. ClosedShares = [i \in 1..0 |-> queue[i].shares]
  BY <1>1 DEF ClosedShares
<1>4. ClosedShares \in Seq({}) /\ Len(ClosedShares) = 0
  BY <1>3
<1>5. ClosedShares = <<>>
  BY <1>4
<1> QED
  BY <1>2, <1>5

\* The actions of PoolAccounts in terms of the variables of the ledger.
LEMMA AccountsActions ==
  ASSUME crashes = 0, crashes' = 0
  PROVE  /\ \A u \in Users :
              /\ accepted' = [accepted EXCEPT ![u] = @ + calcShares(ShareLength)]
              /\ OpenShares' = [OpenShares EXCEPT ![u] = @ + calcShares(ShareLength)]
              /\ ClosedShares' = ClosedShares
              /\ userInfos'.balance = userInfos.balance /\ paid' = paid
              => Accounts!Next
         /\ \A u \in Users :
              /\ accepted' = [accepted EXCEPT ![u] = @ + calcShares(ShareLength)]
              /\ ClosedShares' = Append(ClosedShares, [OpenShares EXCEPT ![u] = @ + calcShares(ShareLength)])
              /\ OpenShares' = Nobody
              /\ userInfos'.balance = userInfos.balance /\ paid' = paid
              => Accounts!Next
<1>1. ASSUME NEW u \in Users,
             accepted' = [accepted EXCEPT ![u] = @ + calcShares(ShareLength)],
             OpenShares' = [OpenShares EXCEPT ![u] = @ + calcShares(ShareLength)],
             ClosedShares' = ClosedShares,
             userInfos'.balance = userInfos.balance, paid' = paid
      PROVE  Accounts!Next
  <2> DEFINE value == calcShares(ShareLength)
  <2>1. Accounts!Submit(u, value)
    BY <1>1 DEF Accounts!Submit, OpenShares, ClosedShares
  <2>2. value \in {calcShares(ShareLength)}
    OBVIOUS
  <2> HIDE DEF value
  <2>3. Accounts!Step
    BY <2>1, <2>2 DEF Accounts!Step
  <2> QED
    BY <2>3 DEF Accounts!Next
<1>2. ASSUME NEW u \in Users,
             accepted' = [accepted EXCEPT ![u] = @ + calcShares(ShareLength)],
             ClosedShares' = Append(ClosedShares, [OpenShares EXCEPT ![u] = @ + calcShares(ShareLength)]),
             OpenShares' = Nobody,
             userInfos'.balance = userInfos.balance, paid' = paid
      PROVE  Accounts!Next
  <2> DEFINE value == calcShares(ShareLength)
  <2>1. Accounts!Close(u, value)
    BY <1>2 DEF Accounts!Close, Accounts!Nobody, Nobody, OpenShares, ClosedShares
  <2>2. value \in {calcShares(ShareLength)}
    OBVIOUS
  <2> HIDE DEF value
  <2>3. Accounts!Step
    BY <2>1, <2>2 DEF Accounts!Step
  <2> QED
    BY <2>3 DEF Accounts!Next
<1> QED
  BY <1>1, <1>2

\* A credit: what the head of the closed rounds earned goes to the balances.
LEMMA AccountsCredit ==
  ASSUME crashes = 0, crashes' = 0, accepted' = accepted, OpenShares' = OpenShares, paid' = paid,
         ClosedShares # <<>>, ClosedShares' = Tail(ClosedShares),
         userInfos.balance \in [Users -> Nat], NEW pay \in [Users -> Nat],
         userInfos'.balance = [u \in Users |-> userInfos.balance[u] + pay[u]],
         \A u \in Users : Head(ClosedShares)[u] = 0 => pay[u] = 0
  PROVE  Accounts!Next
<1>1. [u \in Users |-> userInfos'.balance[u] - userInfos.balance[u]] = pay
  OBVIOUS
<1>2. userInfos'.balance \in [Users -> Nat] /\ \A u \in Users : pay[u] >= 0
  OBVIOUS
<1>3. Accounts!Credit
  <2> DEFINE amount == [u \in Users |-> userInfos'.balance[u] - userInfos.balance[u]]
  <2>1. \A u \in Users : amount[u] >= 0 /\ (Head(ClosedShares)[u] = 0 => amount[u] = 0)
    BY <1>1, <1>2
  <2>2. ClosedShares # <<>> /\ ClosedShares' = Tail(ClosedShares)
    OBVIOUS
  <2> HIDE DEF amount
  <2>3. /\ ClosedShares # <<>> /\ ClosedShares' = Tail(ClosedShares)
        /\ userInfos'.balance \in [Users -> Nat]
        /\ \A u \in Users : amount[u] >= 0 /\ (Head(ClosedShares)[u] = 0 => amount[u] = 0)
        /\ UNCHANGED <<accepted, OpenShares, paid>>
    BY <1>2, <2>1, <2>2
  <2> QED
    BY <2>3 DEF Accounts!Credit, OpenShares, ClosedShares, amount
<1> QED
  BY <1>3 DEF Accounts!Next, Accounts!Step

LEMMA AccountsPay ==
  ASSUME crashes = 0, crashes' = 0, UNCHANGED <<accepted, OpenShares, ClosedShares>>,
         NEW S \in SUBSET Users, \A u \in S : userInfos.balance[u] >= MIN_PAYOUT,
         paid' = [u \in Users |-> IF u \in S THEN paid[u] + userInfos.balance[u] ELSE paid[u]],
         userInfos'.balance = [u \in Users |-> IF u \in S THEN 0 ELSE userInfos.balance[u]]
  PROVE  Accounts!Next
<1>1. Accounts!Pay(S)
  BY DEF Accounts!Pay, OpenShares, ClosedShares
<1> QED
  BY <1>1 DEF Accounts!Next, Accounts!Step

\* What holds of every reachable state, for the steps of the refinement.
AccountsInv == TypeInv /\ BooksInv /\ PayInv /\ HeightsKnown

LEMMA SequenceTail ==
  ASSUME NEW T, NEW s \in Seq(T), s # <<>>
  PROVE  /\ Head(s) = s[1] /\ Tail(s) \in Seq(T) /\ Len(Tail(s)) = Len(s) - 1
         /\ \A i \in 1..(Len(s) - 1) : Tail(s)[i] = s[i + 1]
OBVIOUS

LEMMA SameSequence ==
  ASSUME NEW T, NEW s \in Seq(T), NEW t \in Seq(T), Len(s) = Len(t),
         \A i \in 1..Len(s) : s[i] = t[i]
  PROVE  s = t
OBVIOUS

LEMMA AccountsStep ==
  ASSUME AccountsInv, AccountsInv', [Next]_vars
  PROVE  [Accounts!Next]_Accounts!vars
<1> USE DEF AccountsInv, TypeInv
<1>0. /\ queue \in Seq(Round) /\ Len(queue) \in Nat /\ crashes \in Nat
      /\ \A i \in 1..Len(queue) : queue[i] \in Round
      /\ queue' \in Seq(Round)
  <2>1. queue \in Seq(Round) /\ crashes \in Nat /\ queue' \in Seq(Round)
    BY DEF TypeOK, IsRounds
  <2> QED
    BY <2>1
<1>1. crashes' = crashes \/ Die
  BY DEF Next, Crash, StartPool, StartRefused, NewTip, SaverDereferencesNull, WakeWorker,
         Handler, AddShares, AddFinderShares, MineBlock, LabelRound, OpenRoundFile, BeginRound,
         SaveNothing, SaveCurrent, OpenCurrent, WriteCurrent, ProcessBalances,
         EnterProcessBalances, CreditRound, WriteUsers, MoveRoundFile, MoveFails,
         ScanEmptyQueue, LeaveScan, NextRound, StoreXPM, MarkCalculated, LeaveCalculation, NoPayout,
         SendPayouts, WalletLocked, vars
<1>2. CASE crashes' # 0
  BY <1>2 DEF Accounts!Next
<1>3. SUFFICES ASSUME crashes = 0, crashes' = 0, ~Die
               PROVE  Accounts!Next \/ Accounts!vars' = Accounts!vars
  <2>1. CASE crashes' = 0
    BY <1>0, <1>1, <1>3, <2>1 DEF Die
  <2> QED
    BY <1>2, <2>1
<1>4. ASSUME UNCHANGED <<accepted, OpenShares, ClosedShares, paid>>,
             userInfos'.balance = userInfos.balance
      PROVE  Accounts!vars' = Accounts!vars
  <2>1. Accounts!vars = <<crashes = 0, accepted, OpenShares, ClosedShares, userInfos.balance, paid>>
    BY AccountsDef
  <2>2. Accounts!vars' = <<crashes' = 0, accepted', OpenShares', ClosedShares', userInfos'.balance, paid'>>
    BY DEF Accounts!vars, OpenShares, ClosedShares
  <2> QED
    BY <1>3, <1>4, <2>1, <2>2
\* Where no handler closes a round, the rear is open.
<1>5. ASSUME mode = "up", \A t \in IOThreads : pc[t] \notin Closing
      PROVE  queue # <<>> /\ Last(queue).height = 0 /\ RearIsOpen
  BY <1>3, <1>5 DEF BooksInv, RearThere, RearIsOpen
<1>6. ASSUME NEW t \in IOThreads, lock = t, mode = "up", pc[t] \in Closing
      PROVE  /\ queue # <<>> /\ Last(queue).height # 0
             /\ \A p \in IOThreads : p # t => pc[p] \notin Closing
             /\ RearIsOpen <=> pc[t] = "labelled"
  <2>1. queue # <<>> /\ Last(queue).height # 0
    BY <1>3, <1>6 DEF BooksInv, RearThere, HeightsKnown
  <2>2. \A p \in IOThreads : p # t => pc[p] \notin Closing
    BY <1>6, Threads DEF LockHeld, Inside, Closing
  <2> QED
    BY <2>1, <2>2 DEF RearIsOpen, Closing
\* Steps that change no round.
<1>7. ASSUME UNCHANGED <<accepted, queue, paid>>, userInfos'.balance = userInfos.balance,
             \A t \in IOThreads : pc'[t] = "labelled" <=> pc[t] = "labelled"
      PROVE  Accounts!vars' = Accounts!vars
  <2>1. RearIsOpen' <=> RearIsOpen
    BY <1>7 DEF RearIsOpen
  <2>2. OpenShares' = OpenShares /\ ClosedShares' = ClosedShares
    BY <1>7, <2>1, SameRounds
  <2> QED
    BY <1>4, <1>7, <2>2
<1>8. CASE StartPool
  <2>1. queue = <<>> /\ userInfos = NoUsers /\ pc' = pc /\ accepted' = accepted /\ paid' = paid
    BY <1>8 DEF StartPool, Stopped, threadVars, diskVars
  <2>2. OpenShares = Nobody /\ ClosedShares = <<>>
    BY <2>1, EmptyQueue
  <2>3. /\ queue' = <<NewRound(nextId, 0)>> /\ queue' # <<>> /\ Last(queue').height = 0
        /\ userInfos'.balance = Nobody
    BY <1>3, <1>8, FirstQueue DEF BooksInv
  <2>4. OpenShares' = Nobody /\ ClosedShares' = <<>>
    <3>1. RearIsOpen'
      BY <2>3 DEF RearIsOpen
    <3>2. Last(queue').shares = Nobody /\ Len(queue') = 1
      BY <2>3 DEF Last, NewRound
    <3>3. OpenShares' = Nobody
      BY <3>1, <3>2 DEF OpenShares
    <3>4. ClosedShares' = [i \in 1..(Len(queue') - 1) |-> queue'[i].shares]
      BY <3>1 DEF ClosedShares
    <3>5. ClosedShares' \in Seq({}) /\ Len(ClosedShares') = 0
      BY <3>2, <3>4
    <3> QED
      BY <3>3, <3>5
  <2> QED
    BY <1>4, <2>1, <2>2, <2>3, <2>4, EmptyValues
<1>9. ASSUME NEW t \in IOThreads, NEW u \in Users, AddShares(t, u)
      PROVE  Accounts!Next
  <2>1. /\ queue' \in Seq(Round) /\ Len(queue') = Len(queue)
        /\ \A i \in 1..Len(queue) : queue'[i] = IF i = Len(queue) THEN WithShare(queue[i], u)
                                                ELSE queue[i]
        /\ mode = "up" /\ lock = NoOne /\ pc' = pc /\ userInfos' = userInfos /\ paid' = paid
        /\ accepted' = [accepted EXCEPT ![u] = @ + calcShares(ShareLength)]
    BY <1>0, <1>9, AddedShares DEF AddShares, CanLock, threadVars, diskVars
  <2>2. \A p \in IOThreads : pc[p] \notin Closing
    BY <2>1, Threads DEF LockHeld, Inside, Closing
  <2>3. queue # <<>> /\ Last(queue).height = 0
    BY <1>5, <2>1, <2>2
  <2>4. Len(queue) \in 1..Len(queue) /\ Last(queue) = queue[Len(queue)] /\ Last(queue') = queue'[Len(queue)]
        /\ queue' # <<>>
    BY <1>0, <2>1, <2>3 DEF Last
  <2> DEFINE r == queue[Len(queue)]
  <2>5. r \in Round /\ queue'[Len(queue)] = WithShare(r, u)
    BY <1>0, <2>1, <2>4
  <2>6. WithShare(r, u).height = r.height /\ WithShare(r, u).shares = [r.shares EXCEPT ![u] = r.shares[u] + 1]
    BY <2>5, WithShareFields
  <2>7. Last(queue').height = 0
    BY <2>3, <2>4, <2>5, <2>6
  <2>8. /\ OpenShares = r.shares /\ OpenShares' = queue'[Len(queue)].shares
        /\ ClosedShares = [i \in 1..(Len(queue) - 1) |-> queue[i].shares]
        /\ ClosedShares' = [i \in 1..(Len(queue) - 1) |-> queue'[i].shares]
    <3>1. RearIsOpen /\ RearIsOpen'
      BY <2>3, <2>4, <2>7 DEF RearIsOpen
    <3> QED
      BY <2>1, <2>4, <3>1 DEF OpenShares, ClosedShares
  <2>9. ClosedShares' = ClosedShares
    <3>1. \A i \in 1..(Len(queue) - 1) : queue'[i] = queue[i]
      BY <1>0, <2>1
    <3> QED
      BY <2>8, <3>1
  <2>10. OpenShares' = [OpenShares EXCEPT ![u] = @ + calcShares(ShareLength)]
    <3>1. calcShares(ShareLength) = 1
      BY AddSharesTypes
    <3> QED
      BY <2>5, <2>6, <2>8, <3>1
  <2> QED
    BY <1>3, <2>1, <2>9, <2>10, AccountsActions
<1>10. ASSUME NEW t \in IOThreads, NEW u \in Users, AddFinderShares(t, u)
       PROVE  Accounts!Next
  <2>1. /\ queue' \in Seq(Round) /\ Len(queue') = Len(queue)
        /\ \A i \in 1..Len(queue) : queue'[i] = IF i = Len(queue) THEN WithShare(queue[i], u)
                                                ELSE queue[i]
        /\ mode = "up" /\ pc[t] = "labelled" /\ pc' = [pc EXCEPT ![t] = "closed"]
        /\ userInfos' = userInfos /\ paid' = paid
        /\ accepted' = [accepted EXCEPT ![u] = @ + calcShares(ShareLength)]
    BY <1>0, <1>10, AddedShares DEF AddFinderShares, diskVars
  <2>2. lock = t
    BY <2>1, Threads DEF LockHeld, Inside
  <2>3. /\ queue # <<>> /\ Last(queue).height # 0 /\ RearIsOpen
        /\ \A p \in IOThreads : p # t => pc[p] \notin Closing
    BY <1>6, <2>1, <2>2 DEF Closing
  <2>4. \A p \in IOThreads : pc'[p] # "labelled"
    BY <2>1, <2>3, Threads DEF TypeOK, Closing
  <2>5. Len(queue) \in 1..Len(queue) /\ Last(queue) = queue[Len(queue)] /\ Last(queue') = queue'[Len(queue)]
        /\ queue' # <<>>
    BY <1>0, <2>1, <2>3 DEF Last
  <2> DEFINE r == queue[Len(queue)]
  <2>6. r \in Round /\ queue'[Len(queue)] = WithShare(r, u)
    BY <1>0, <2>1, <2>5
  <2>7. WithShare(r, u).height = r.height /\ WithShare(r, u).shares = [r.shares EXCEPT ![u] = r.shares[u] + 1]
    BY <2>6, WithShareFields
  <2>8. /\ OpenShares = r.shares /\ OpenShares' = Nobody
        /\ ClosedShares = [i \in 1..(Len(queue) - 1) |-> queue[i].shares]
        /\ ClosedShares' = [i \in 1..Len(queue) |-> queue'[i].shares]
    <3>1. RearIsOpen /\ ~RearIsOpen'
      BY <2>3, <2>4, <2>5, <2>6, <2>7 DEF RearIsOpen
    <3> QED
      BY <2>1, <2>5, <3>1 DEF OpenShares, ClosedShares
  <2>9. WithShare(r, u).shares = [OpenShares EXCEPT ![u] = @ + calcShares(ShareLength)]
    <3>1. calcShares(ShareLength) = 1
      BY AddSharesTypes
    <3> QED
      BY <2>6, <2>7, <2>8, <3>1
  <2>10. ClosedShares' = Append(ClosedShares, [OpenShares EXCEPT ![u] = @ + calcShares(ShareLength)])
    <3> DEFINE n == Len(queue)
               s == [i \in 1..n |-> queue'[i].shares]
               c == ClosedShares
               x == WithShare(r, u).shares
    <3>1. /\ n \in Nat /\ n # 0 /\ s[n] = x /\ \A i \in 1..(n - 1) : s[i] = queue[i].shares
      BY <1>0, <2>1, <2>5, <2>6
    <3>2. c = [i \in 1..(n - 1) |-> queue[i].shares]
      BY <2>8
    <3>3. \A i \in 1..(n - 1) : queue[i].shares \in [Users -> Nat]
      <4> TAKE i \in 1..(n - 1)
      <4>1. queue[i] \in Round
        BY <1>0
      <4> QED
        BY <4>1 DEF Round
    <3>4. x \in [Users -> Nat]
      BY <2>6, <2>7 DEF Round
    <3>5. c \in Seq([Users -> Nat]) /\ Len(c) = n - 1 /\ \A i \in 1..(n - 1) : c[i] = queue[i].shares
      <4> HIDE DEF c, n
      <4> QED
        BY <3>1, <3>2, <3>3
    <3>6. s \in Seq([Users -> Nat]) /\ Len(s) = n
      <4>1. \A i \in 1..n : s[i] \in [Users -> Nat]
        <5> TAKE i \in 1..n
        <5>1. i = n \/ i \in 1..(n - 1)
          BY <3>1
        <5> HIDE DEF n, s, x
        <5> QED
          BY <3>1, <3>3, <3>4, <5>1
      <4> QED
        BY <3>1, <4>1
    <3> HIDE DEF n, s, c, x
    <3>7. Append(c, x) \in Seq([Users -> Nat]) /\ Len(Append(c, x)) = n
          /\ \A i \in 1..n : Append(c, x)[i] = s[i]
      BY <3>1, <3>4, <3>5
    <3>8. Append(c, x) = s
      BY <3>6, <3>7
    <3> QED
      BY <2>8, <2>9, <3>8 DEF s, c, x, n
  <2> QED
    BY <1>3, <2>1, <2>8, <2>10, AccountsActions
<1>11. ASSUME NEW t \in IOThreads, LabelRound(t)
       PROVE  Accounts!vars' = Accounts!vars
  <2>1. tip \in Files /\ found[t] \in Files
    BY Constants DEF TypeOK
  <2>2. /\ Len(queue') = Len(queue)
        /\ \A i \in 1..Len(queue) : queue'[i] = IF i = Len(queue)
                                                THEN Labelled(queue[i], tip, Reward, found[t])
                                                ELSE queue[i]
        /\ mode = "up" /\ lock = NoOne /\ pc'[t] = "labelled"
        /\ UNCHANGED <<accepted, userInfos, paid>>
    <3>1. queue' = setFound(queue, tip, Reward, found[t])
      BY <1>11 DEF LabelRound
    <3>2. /\ mode = "up" /\ lock = NoOne /\ pc'[t] = "labelled"
          /\ UNCHANGED <<accepted, userInfos, paid>>
      BY <1>11, Threads DEF LabelRound, CanLock, TypeOK, diskVars
    <3> QED
      BY <1>0, <2>1, <3>1, <3>2, FoundSet
  <2>3. \A i \in 1..Len(queue) : queue'[i].shares = queue[i].shares
    <3> TAKE i \in 1..Len(queue)
    <3>1. queue[i] \in Round
      BY <1>0
    <3>2. \A r \in Round : Labelled(r, tip, Reward, found[t]).shares = r.shares
      BY <2>1 DEF Labelled, Round
    <3> QED
      BY <2>2, <3>1, <3>2
  <2>4. \A p \in IOThreads : pc[p] \notin Closing
    BY <2>2, Threads DEF LockHeld, Inside, Closing
  <2>5. RearIsOpen /\ RearIsOpen'
    <3>1. queue # <<>> /\ RearIsOpen
      BY <1>5, <2>2, <2>4
    <3>2. queue' # <<>>
      BY <1>0, <2>2, <3>1
    <3> QED
      BY <2>2, <3>1, <3>2 DEF RearIsOpen
  <2>6. OpenShares' = OpenShares /\ ClosedShares' = ClosedShares
    BY <2>2, <2>3, <2>5, SameRounds
  <2> QED
    BY <1>4, <2>2, <2>6

<1>12. ASSUME NEW t \in IOThreads, OpenRoundFile(t)
       PROVE  Accounts!vars' = Accounts!vars
  <2>1. \A p \in IOThreads : pc'[p] = "labelled" <=> pc[p] = "labelled"
    BY <1>12, Threads DEF OpenRoundFile, TypeOK
  <2> QED
    BY <1>7, <1>12, <2>1 DEF OpenRoundFile, bookVars
<1>13. ASSUME NEW t \in IOThreads, BeginRound(t)
       PROVE  Accounts!vars' = Accounts!vars
  <2>1. /\ Len(queue') = Len(queue) + 1
        /\ \A i \in 1..Len(queue) : queue'[i] = IF NeedsCalculation(queue[i])
                                                THEN calculateXPMPerUser(queue[i]) ELSE queue[i]
        /\ queue'[Len(queue) + 1] = NewRound(nextId, 0)
    BY <1>13, BeginRoundTypes
  <2>2. /\ mode = "up" /\ pc[t] \in {"closed", "writing"} /\ lock = t
        /\ UNCHANGED <<accepted, userInfos, paid>>
    BY <1>13, Threads DEF BeginRound, LockHeld, Inside
  <2>3. queue # <<>> /\ Last(queue).height # 0 /\ ~RearIsOpen
    BY <1>6, <2>2 DEF Closing
  <2>4. queue' # <<>> /\ Last(queue') = NewRound(nextId, 0) /\ RearIsOpen'
    <3>1. queue' # <<>> /\ Last(queue') = queue'[Len(queue) + 1]
      BY <1>0, <2>1 DEF Last
    <3> QED
      BY <2>1, <3>1 DEF RearIsOpen, NewRound
  <2>5. OpenShares' = Nobody /\ OpenShares = Nobody
    BY <2>3, <2>4 DEF OpenShares, NewRound
  <2>6. ClosedShares' = ClosedShares
    <3>1. \A i \in 1..Len(queue) : queue'[i].shares = queue[i].shares
      <4> TAKE i \in 1..Len(queue)
      <4>1. queue[i] \in Round
        BY <1>0
      <4>2. calculateXPMPerUser(queue[i]).shares = queue[i].shares
        BY <4>1, Calculated, WithPayFields
      <4> QED
        BY <2>1, <4>2
    <3>2. ClosedShares = [i \in 1..Len(queue) |-> queue[i].shares]
      BY <2>3 DEF ClosedShares
    <3>3. ClosedShares' = [i \in 1..(Len(queue') - 1) |-> queue'[i].shares]
      BY <2>4 DEF ClosedShares
    <3>4. Len(queue') - 1 = Len(queue)
      BY <1>0, <2>1
    <3>5. ClosedShares' = [i \in 1..Len(queue) |-> queue'[i].shares]
      BY <3>3, <3>4
    <3> QED
      BY <3>1, <3>2, <3>5
  <2> QED
    BY <1>4, <2>2, <2>5, <2>6
<1>14. ASSUME NEW t \in IOThreads, MineBlock(t) \/ SaveNothing(t)
       PROVE  Accounts!vars' = Accounts!vars
  <2>1. \A p \in IOThreads : pc'[p] = "labelled" <=> pc[p] = "labelled"
    BY <1>14, Threads DEF MineBlock, SaveNothing, TypeOK
  <2> QED
    BY <1>7, <1>14, <2>1 DEF MineBlock, SaveNothing, bookVars, diskVars
<1>15. ASSUME NEW p \in Savers, OpenCurrent(p) \/ WriteCurrent(p)
       PROVE  Accounts!vars' = Accounts!vars
  <2>1. \A t \in IOThreads : pc'[t] = "labelled" <=> pc[t] = "labelled"
    BY <1>15, Threads DEF OpenCurrent, WriteCurrent, AtSave, TypeOK
  <2> QED
    BY <1>7, <1>15, <2>1 DEF OpenCurrent, WriteCurrent, bookVars
<1>16. CASE CreditRound
  <2>1. /\ Len(queue) \in Nat \ {0} /\ Head(queue) = queue[1] /\ Head(queue) \in Round
        /\ Credited \in Round /\ Credited = WithPay(Head(queue), Credited)
        /\ Len(queue') = Len(queue) - 1 /\ \A i \in 1..Len(queue') : queue'[i] = queue[i + 1]
        /\ userInfos'.balance = [u \in Users |-> userInfos.balance[u] + Credited.pay[u]]
    BY <1>16, CreditTypes
  <2>2. /\ mode = "up" /\ lock = Worker /\ queue[1].height # 0 /\ pc' = pc
        /\ UNCHANGED <<accepted, paid>>
    BY <1>16, <2>1 DEF CreditRound, LockHeld, Matured, threadVars
  <2>3. \A t \in IOThreads : pc[t] \notin Closing
    BY <2>2, Threads DEF LockHeld, Inside, Closing
  <2>4. queue # <<>> /\ Last(queue).height = 0 /\ RearIsOpen
    BY <1>5, <2>2, <2>3
  <2>5. /\ Last(queue) = queue[Len(queue)] /\ Len(queue) > 1 /\ queue' # <<>>
        /\ Last(queue') = Last(queue) /\ RearIsOpen'
    <3>1. Last(queue) = queue[Len(queue)] /\ Len(queue) > 1
      BY <1>0, <2>1, <2>2, <2>4 DEF Last
    <3>2. queue' # <<>> /\ Last(queue') = Last(queue)
      BY <1>0, <2>1, <3>1 DEF Last
    <3> QED
      BY <2>4, <3>1, <3>2 DEF RearIsOpen
  <2>6. OpenShares' = OpenShares
    BY <2>4, <2>5 DEF OpenShares
  <2> DEFINE n == Len(queue) - 1
             c == ClosedShares
             d == [i \in 1..(n - 1) |-> queue'[i].shares]
  <2>7. /\ n \in Nat \ {0} /\ c = [i \in 1..n |-> queue[i].shares]
        /\ ClosedShares' = d
    BY <2>1, <2>4, <2>5 DEF ClosedShares
  <2>8. \A i \in 1..n : queue[i].shares \in [Users -> Nat]
    <3> TAKE i \in 1..n
    <3>1. queue[i] \in Round
      BY <1>0
    <3> QED
      BY <3>1 DEF Round
  <2>9. \A i \in 1..(n - 1) : queue'[i].shares = queue[i + 1].shares /\ i + 1 \in 1..n
    BY <2>1, <2>7
  <2> HIDE DEF n, c
  <2>10. /\ c \in Seq([Users -> Nat]) /\ Len(c) = n /\ c # <<>> /\ Head(c) = queue[1].shares
         /\ \A i \in 1..n : c[i] = queue[i].shares
    <3>1. c \in Seq([Users -> Nat]) /\ Len(c) = n /\ \A i \in 1..n : c[i] = queue[i].shares
      BY <2>7, <2>8
    <3>2. 1 \in 1..n
      BY <2>7
    <3>3. c # <<>>
      BY <2>7, <3>1
    <3>4. Head(c) = c[1]
      BY <3>1, <3>3, SequenceTail
    <3> QED
      BY <3>1, <3>2, <3>3, <3>4
  <2>11. d \in Seq([Users -> Nat]) /\ Len(d) = n - 1 /\ \A i \in 1..(n - 1) : d[i] = queue[i + 1].shares
    <3>1. \A i \in 1..(n - 1) : queue'[i].shares \in [Users -> Nat]
      BY <2>8, <2>9
    <3> QED
      BY <2>7, <2>9, <3>1
  <2>12. ClosedShares' = Tail(ClosedShares) /\ ClosedShares # <<>>
         /\ Head(ClosedShares) = queue[1].shares
    <3> HIDE DEF d
    <3>1. Tail(c) \in Seq([Users -> Nat]) /\ Len(Tail(c)) = n - 1
          /\ \A i \in 1..(n - 1) : Tail(c)[i] = c[i + 1]
      BY <2>10, SequenceTail
    <3>2. \A i \in 1..(n - 1) : Tail(c)[i] = queue[i + 1].shares
      BY <2>9, <2>10, <3>1
    <3>3. Tail(c) = d
      <4> DEFINE T == [Users -> Nat]
                 s == Tail(c)
      <4>1. s \in Seq(T) /\ d \in Seq(T) /\ Len(s) = Len(d) /\ \A i \in 1..Len(s) : s[i] = d[i]
        BY <2>11, <3>1, <3>2
      <4> HIDE DEF T, s
      <4>2. s = d
        BY <4>1, SameSequence
      <4> QED
        BY <4>2 DEF s
    <3> QED
      BY <2>7, <2>10, <3>3 DEF c
  <2>13. Payable(Credited) /\ Credited.shares = queue[1].shares
    <3>1. 1 \in 1..Len(queue)
      BY <2>1
    <3>2. Payable(queue[1]) /\ queue[1] \in Round
      BY <1>0, <1>3, <3>1 DEF PayInv
    <3>3. Payable(calculateXPMPerUser(queue[1]))
      BY <3>2, CalculatedIsPayable
    <3>4. Credited.shares = queue[1].shares
      BY <2>1, WithPayFields
    <3> QED
      BY <2>1, <3>2, <3>3, <3>4 DEF Credited
  <2>14. Credited.pay \in [Users -> Nat] /\ userInfos.balance \in [Users -> Nat]
    BY <2>1 DEF Round, TypeOK, IsUsers, UserInfos
  <2> DEFINE pay == Credited.pay
  <2>15. /\ pay \in [Users -> Nat]
         /\ userInfos'.balance = [u \in Users |-> userInfos.balance[u] + pay[u]]
         /\ \A u \in Users : Head(ClosedShares)[u] = 0 => pay[u] = 0
    BY <2>1, <2>12, <2>13, <2>14 DEF Payable
  <2> HIDE DEF pay
  <2> QED
    BY <1>3, <2>2, <2>6, <2>12, <2>14, <2>15, AccountsCredit
<1>17. CASE StoreXPM \/ MarkCalculated
  <2>1. Len(queue') = Len(queue) /\ \A i \in 1..Len(queue) : OnlyPaid(queue[i], queue'[i])
    BY <1>17, ComputedTypes
  <2>2. \A i \in 1..Len(queue) : queue'[i].shares = queue[i].shares /\ queue'[i].height = queue[i].height
    BY <2>1 DEF OnlyPaid
  <2>3. UNCHANGED <<accepted, userInfos, paid, pc>>
    BY <1>17 DEF StoreXPM, MarkCalculated, diskVars, threadVars
  <2>4. RearIsOpen' <=> RearIsOpen
    <3>1. CASE queue = <<>>
      BY <1>0, <2>1, <3>1 DEF RearIsOpen
    <3>2. CASE queue # <<>>
      <4>1. queue' # <<>> /\ Len(queue) \in 1..Len(queue)
            /\ Last(queue) = queue[Len(queue)] /\ Last(queue') = queue'[Len(queue)]
        BY <1>0, <2>1, <3>2 DEF Last
      <4> QED
        BY <2>2, <2>3, <3>2, <4>1 DEF RearIsOpen
    <3> QED
      BY <3>1, <3>2
  <2>5. OpenShares' = OpenShares /\ ClosedShares' = ClosedShares
    BY <2>1, <2>2, <2>4, SameRounds
  <2> QED
    BY <1>4, <2>3, <2>5
<1>18. CASE SendPayouts
  <2>1. /\ UNCHANGED <<accepted, queue, pc>> /\ userInfos'.balance = Reset(userInfos.balance)
        /\ paid' = [u \in Users |-> IF u \in Due THEN paid[u] + userInfos.balance[u] ELSE paid[u]]
    BY <1>18 DEF SendPayouts, bookVars, threadVars, TypeOK, IsUsers, UserInfos
  <2>2. RearIsOpen' <=> RearIsOpen
    BY <2>1 DEF RearIsOpen
  <2>3. OpenShares' = OpenShares /\ ClosedShares' = ClosedShares
    BY <2>1, <2>2, SameRounds
  <2>4. Due \in SUBSET Users /\ \A u \in Due : userInfos.balance[u] >= MIN_PAYOUT
    BY DEF Due, TypeOK, IsUsers, UserInfos
  <2>5. userInfos'.balance = [u \in Users |-> IF u \in Due THEN 0 ELSE userInfos.balance[u]]
    BY <2>1 DEF Reset
  <2> DEFINE S == Due
  <2>6. /\ S \in SUBSET Users /\ \A u \in S : userInfos.balance[u] >= MIN_PAYOUT
        /\ paid' = [u \in Users |-> IF u \in S THEN paid[u] + userInfos.balance[u] ELSE paid[u]]
        /\ userInfos'.balance = [u \in Users |-> IF u \in S THEN 0 ELSE userInfos.balance[u]]
    BY <2>1, <2>4, <2>5
  <2> HIDE DEF S
  <2> QED
    BY <1>3, <2>1, <2>3, <2>6, AccountsPay
<1>19. CASE \/ EnterProcessBalances \/ WriteUsers \/ MoveRoundFile \/ MoveFails \/ LeaveScan
            \/ NextRound \/ LeaveCalculation \/ NoPayout
            \/ StartRefused \/ NewTip \/ WakeWorker \/ UNCHANGED vars
  BY <1>7, <1>19
  DEF EnterProcessBalances, WriteUsers, MoveRoundFile, MoveFails, LeaveScan, NextRound,
      LeaveCalculation, NoPayout, StartRefused, NewTip, WakeWorker, vars, bookVars, threadVars, diskVars
<1>20. ASSUME NEW t \in IOThreads, Handler(t)
       PROVE  Accounts!Next \/ Accounts!vars' = Accounts!vars
  BY <1>9, <1>10, <1>11, <1>12, <1>13, <1>14, <1>20 DEF Handler
<1>21. CASE ProcessBalances
  BY <1>3, <1>16, <1>17, <1>18, <1>19, <1>21 DEF ProcessBalances, ScanEmptyQueue, WalletLocked
<1> QED
  BY <1>3, <1>8, <1>15, <1>19, <1>20, <1>21 DEF Next, SaveCurrent, Crash, SaverDereferencesNull

\* pool.cpp 205-259, 576-605: the pool with its threads, locks and files keeps the
\* accounts PoolAccounts promises: closed rounds are credited once each and in order,
\* to who earned shares in them, and paid in whole.
THEOREM Implementation == Spec => ImplementsAccounts
<1>1. Init => Accounts!Init
  <2> SUFFICES ASSUME Init
               PROVE  Accounts!Init
    OBVIOUS
  <2>1. OpenShares = Nobody /\ ClosedShares = <<>>
    BY EmptyQueue DEF Init
  <2>2. /\ crashes = 0 /\ accepted = Nobody /\ paid = Nobody /\ userInfos.balance = Nobody
    BY EmptyValues DEF Init
  <2> QED
    BY <2>1, <2>2 DEF Accounts!Init, Accounts!Nobody, Nobody, OpenShares, ClosedShares
<1>2. AccountsInv /\ AccountsInv' /\ [Next]_vars => [Accounts!Next]_Accounts!vars
  BY AccountsStep
<1>3. Spec => []AccountsInv
  <2>1. TypeInv /\ BooksInv /\ (PayInv /\ HeightsKnown) => AccountsInv
    BY DEF AccountsInv
  <2> QED
    BY <2>1, TypeInvAlways, BooksAlways, RoundsAlways, PTL
<1>4. Accounts!Init /\ [][Accounts!Next]_Accounts!vars <=> Accounts!Spec
  BY DEF Accounts!Spec
<1> QED
  BY <1>1, <1>2, <1>3, <1>4, PTL DEF Spec, ImplementsAccounts

=============================================================================
