--------------------------- MODULE ElectionProofs ---------------------------
(***************************************************************************)
(* Proofs about Election: the count of an office advances, keeps its       *)
(* ballots, elects one of a majority's candidates and never a candidate    *)
(* who loses to every other.                                               *)
(***************************************************************************)
EXTENDS Election, SumLemmas

-----------------------------------------------------------------------------
(* Greatest and topmost elements *)

\* In a finite set ranked by numbers, equals by number, there is a topmost element.
LEMMA Topmost ==
  ASSUME NEW T, T \subseteq Nat, IsFiniteSet(T), T # {}, NEW f, \A x \in T : f[x] \in Int
  PROVE  \E c \in T : \A d \in T \ {c} : f[c] > f[d] \/ (f[c] = f[d] /\ c < d)
<1> DEFINE Top(S, c) == \A d \in S \ {c} : f[c] > f[d] \/ (f[c] = f[d] /\ c < d)
           P == {S \in SUBSET T : S # {} => \E c \in S : Top(S, c)}
<1>1. {} \in P
  OBVIOUS
<1>2. ASSUME NEW S \in SUBSET T, IsFiniteSet(S), NEW x \in S, S \ {x} \in P
      PROVE  S \in P
  <2>1. CASE S \ {x} = {}
    BY <2>1
  <2>2. CASE S \ {x} # {}
    <3>1. PICK c \in S \ {x} : Top(S \ {x}, c)
      BY <1>2, <2>2
    <3>2. c \in Nat /\ x \in Nat /\ c # x /\ f[c] \in Int /\ f[x] \in Int
      OBVIOUS
    <3>3. CASE f[c] > f[x] \/ (f[c] = f[x] /\ c < x)
      <4>1. Top(S, c)
        BY <3>1, <3>3
      <4> QED
        BY <4>1
    <3>4. CASE ~ (f[c] > f[x] \/ (f[c] = f[x] /\ c < x))
      <4>1. f[x] > f[c] \/ (f[x] = f[c] /\ x < c)
        BY <3>2, <3>4
      <4>2. ASSUME NEW d \in S \ {x}
            PROVE  f[x] > f[d] \/ (f[x] = f[d] /\ x < d)
        <5>1. d = c \/ f[c] > f[d] \/ (f[c] = f[d] /\ c < d)
          BY <3>1
        <5>2. d \in Nat /\ f[d] \in Int
          OBVIOUS
        <5> QED
          BY <3>2, <4>1, <5>1, <5>2
      <4> QED
        BY <4>2
    <3> QED
      BY <3>3, <3>4
  <2> QED
    BY <2>1, <2>2
<1> HIDE DEF P
<1>3. \A S \in SUBSET T : S \in P
  BY <1>1, <1>2, RemoveInduction
<1>4. T # {} => \E c \in T : Top(T, c)
  BY <1>3 DEF P
<1> QED
  BY <1>4

\* Max is the greatest of a finite set of naturals.
LEMMA MaxIsGreatest ==
  ASSUME NEW S, S \subseteq Nat, IsFiniteSet(S), S # {}
  PROVE  Max(S) \in S /\ \A y \in S : y <= Max(S)
<1> DEFINE f == [x \in S |-> x]
<1>1. \A x \in S : f[x] \in Int
  OBVIOUS
<1>2. \E c \in S : \A d \in S \ {c} : f[c] > f[d] \/ (f[c] = f[d] /\ c < d)
  BY <1>1, Topmost
<1>3. PICK c \in S : \A d \in S \ {c} : f[c] > f[d] \/ (f[c] = f[d] /\ c < d)
  BY <1>2
<1>6. ASSUME NEW d \in S
      PROVE  c >= d
  <2>1. c \in Nat /\ d \in Nat
    OBVIOUS
  <2> QED
    BY <1>3, <2>1
<1>4. Max(S) \in S /\ \A y \in S : Max(S) >= y
  BY <1>6 DEF Max
<1> QED
  BY <1>4

-----------------------------------------------------------------------------
(* Ballots *)

\* A ballot maps some of the amounts to candidates.
LEMMA BallotType ==
  ASSUME NEW b
  PROVE  b \in Votes <=> /\ b = [a \in DOMAIN b |-> b[a]] /\ DOMAIN b \subseteq Amounts
                         /\ \A a \in DOMAIN b : b[a] \in Candidates
BY DEF Votes

\* What is restricted to some of a ballot's amounts is a ballot, of no votes when none is left.
LEMMA RestrictedBallot ==
  ASSUME NEW b \in Votes, NEW D \in SUBSET DOMAIN b
  PROVE  /\ Restrict(b, D) \in Votes /\ DOMAIN Restrict(b, D) = D
         /\ \A a \in D : Restrict(b, D)[a] = b[a]
         /\ Restrict(b, D) = NoVotes <=> D = {}
<1>1. DOMAIN Restrict(b, D) = D /\ \A a \in D : Restrict(b, D)[a] = b[a]
  BY DEF Restrict
<1>2. Restrict(b, D) \in Votes
  <2>1. Restrict(b, D) = [a \in D |-> b[a]]
    BY DEF Restrict
  <2>2. D \subseteq Amounts /\ \A a \in D : b[a] \in Candidates
    BY BallotType
  <2>3. [a \in D |-> b[a]] \in [D -> Candidates]
    BY <2>2
  <2> QED
    BY <2>1, <2>2, <2>3 DEF Votes
<1>3. Restrict(b, D) = NoVotes <=> D = {}
  BY DEF Restrict, NoVotes
<1> QED
  BY <1>1, <1>2, <1>3

\* A ballot with a vote has amounts, and no amounts are no votes.
LEMMA EmptyBallot ==
  ASSUME NEW b \in Votes
  PROVE  b = NoVotes <=> DOMAIN b = {}
BY BallotType DEF NoVotes

\* The first preference is that of the least amount.
LEMMA FirstIsLeast ==
  ASSUME NEW b \in Votes \ {NoVotes}
  PROVE  /\ First(b) \in Candidates
         /\ \E a \in DOMAIN b : First(b) = b[a] /\ \A d \in DOMAIN b : a <= d
<1>1. DOMAIN b # {} /\ DOMAIN b \subseteq Nat /\ \A a \in DOMAIN b : b[a] \in Candidates
  BY EmptyBallot, BallotType, ElectionAssumption
<1>2. Min(DOMAIN b) \in DOMAIN b /\ \A d \in DOMAIN b : Min(DOMAIN b) <= d
  BY <1>1, MinIsLeast
<1> QED
  BY <1>1, <1>2 DEF First

\* markForRemoval takes one of the candidate's entries off a ballot, and all when he has one.
LEMMA RemovedEntries ==
  ASSUME NEW b \in Votes, NEW c
  PROVE  /\ \E D \in SUBSET DOMAIN b : Removed(b, c) = Restrict(b, D)
         /\ \A a \in DOMAIN b : b[a] = c => \E e \in DOMAIN b : b[e] = c /\ e \notin DOMAIN Removed(b, c)
         /\ IsInjective(b) => Removed(b, c) = Restrict(b, {a \in DOMAIN b : b[a] # c})
<1> DEFINE marked == {a \in DOMAIN b : b[a] = c}
<1>1. b = Restrict(b, DOMAIN b)
  BY BallotType DEF Restrict
<1>2. CASE marked = {}
  <2>1. Removed(b, c) = b /\ {a \in DOMAIN b : b[a] # c} = DOMAIN b
    BY <1>2 DEF Removed
  <2> QED
    BY <1>1, <1>2, <2>1
<1>3. CASE marked # {}
  <2>1. DOMAIN b \subseteq Nat /\ IsFiniteSet(DOMAIN b)
    BY BallotType, ElectionAssumption, FS_Subset
  <2>2. marked \subseteq Nat /\ IsFiniteSet(marked)
    BY <2>1, FS_Subset
  <2> DEFINE last == Max(marked)
  <2>3. last \in marked
    BY <1>3, <2>2, MaxIsGreatest
  <2>4. Removed(b, c) = Restrict(b, DOMAIN b \ {last})
    BY <1>3 DEF Removed
  <2> HIDE DEF last
  <2>5. DOMAIN Removed(b, c) = DOMAIN b \ {last}
    BY <2>4 DEF Restrict
  <2>6. IsInjective(b) => DOMAIN b \ {last} = {a \in DOMAIN b : b[a] # c}
    BY <2>3 DEF IsInjective
  <2> QED
    BY <2>3, <2>4, <2>5, <2>6
<1> QED
  BY <1>2, <1>3

-----------------------------------------------------------------------------
(* Balances, polls and eliminations *)

\* The balances of a set of voters: a natural number, more for more voters, and the sum of
\* those of its parts.
LEMMA BalanceFacts ==
  ASSUME balances \in [Voters -> Balances], NEW A, A \subseteq Voters, NEW B, B \subseteq Voters
  PROVE  /\ BalanceOf({}) = 0 /\ BalanceOf(A) \in Nat /\ BalanceOf(B) \in Nat
         /\ A \subseteq B => BalanceOf(A) <= BalanceOf(B)
         /\ A \cap B = {} => BalanceOf(A \cup B) = BalanceOf(A) + BalanceOf(B)
<1>1. /\ IsFiniteSet(A) /\ \A v \in A : balances[v] \in Nat /\ balances[v] \in Int
      /\ IsFiniteSet(B) /\ \A v \in B : balances[v] \in Nat
      /\ \A v \in A \cup B : balances[v] \in Int
  <2>1. IsFiniteSet(A) /\ IsFiniteSet(B)
    BY ElectionAssumption, FS_Subset
  <2>2. \A v \in Voters : balances[v] \in Nat /\ balances[v] \in Int
    <3>1. \A v \in Voters : balances[v] \in Balances
      OBVIOUS
    <3>2. \A n \in Balances : n \in Nat /\ n \in Int
      BY ElectionAssumption
    <3> QED
      BY <3>1, <3>2
  <2> QED
    BY <2>1, <2>2
<1>2. BalanceOf({}) = 0
  BY SumEmpty DEF BalanceOf
<1>3. BalanceOf(A) \in Nat /\ BalanceOf(B) \in Nat
  BY <1>1, SumOfNat DEF BalanceOf
<1>4. A \subseteq B => BalanceOf(A) <= BalanceOf(B)
  BY <1>1, SumSubset DEF BalanceOf
<1>5. A \cap B = {} => BalanceOf(A \cup B) = BalanceOf(A) + BalanceOf(B)
  BY <1>1, SumUnion DEF BalanceOf
<1> QED
  BY <1>2, <1>3, <1>4, <1>5

\* Those polled are candidates, and the counts behind them numbers.
LEMMA PollFacts ==
  ASSUME TypeOK
  PROVE  /\ DOMAIN ballots \subseteq Voters /\ Counted \subseteq Voters
         /\ Polled \subseteq Candidates /\ IsFiniteSet(Polled)
         /\ Polled = {} <=> DOMAIN ballots = {}
         /\ \A c : InFavour(c) \subseteq DOMAIN ballots /\ PreferenceCount(c) \in Nat
         /\ \A v \in DOMAIN ballots : v \in InFavour(First(ballots[v])) /\ First(ballots[v]) \in Polled
         /\ BalanceOf(Counted) \in Nat
<1>1. DOMAIN ballots \subseteq Voters /\ Counted \subseteq Voters
  BY DEF TypeOK, Counted
<1>2. \A v \in DOMAIN ballots : First(ballots[v]) \in Candidates
  BY FirstIsLeast DEF TypeOK
<1>3. Polled \subseteq Candidates /\ IsFiniteSet(Polled)
  BY <1>2, ElectionAssumption, FS_Subset DEF Polled
<1>4. Polled = {} <=> DOMAIN ballots = {}
  BY DEF Polled
<1>5. \A c : InFavour(c) \subseteq DOMAIN ballots
  BY DEF InFavour
<1>6. \A v \in DOMAIN ballots : v \in InFavour(First(ballots[v])) /\ First(ballots[v]) \in Polled
  BY DEF InFavour, Polled
<1>7. balances \in [Voters -> Balances]
  BY DEF TypeOK
<1>8. ASSUME NEW c
      PROVE  PreferenceCount(c) \in Nat
  <2>1. InFavour(c) \subseteq Voters
    BY <1>1, <1>5
  <2> QED
    BY <1>7, <2>1, BalanceFacts DEF PreferenceCount
<1>9. BalanceOf(Counted) \in Nat
  BY <1>1, <1>7, BalanceFacts
<1> QED
  BY <1>1, <1>3, <1>4, <1>5, <1>6, <1>8, <1>9

\* The top and the bottom of the poll are polled, and no count is higher or lower.
LEMMA TopAndBottom ==
  ASSUME TypeOK, Polled # {}
  PROVE  /\ TopOfThePoll \in Polled
         /\ \A d \in Polled : PreferenceCount(d) <= PreferenceCount(TopOfThePoll)
         /\ BottomOfThePoll \in Polled
         /\ \A d \in Polled : PreferenceCount(BottomOfThePoll) <= PreferenceCount(d)
<1> DEFINE up == [c \in Polled |-> PreferenceCount(c)]
           down == [c \in Polled |-> 0 - PreferenceCount(c)]
<1>1. Polled \subseteq Nat /\ IsFiniteSet(Polled) /\ \A c \in Polled : PreferenceCount(c) \in Nat
  BY PollFacts, ElectionAssumption
<1>2. \A c \in Polled : /\ up[c] \in Int /\ up[c] = PreferenceCount(c)
                        /\ down[c] \in Int /\ down[c] = 0 - PreferenceCount(c)
  BY <1>1
<1> HIDE DEF up, down
<1>3. \E c \in Polled : \A d \in Polled \ {c} : up[c] > up[d] \/ (up[c] = up[d] /\ c < d)
  BY <1>1, <1>2, Topmost
<1>4. \E c \in Polled : \A d \in Polled \ {c} :
        \/ PreferenceCount(c) > PreferenceCount(d)
        \/ PreferenceCount(c) = PreferenceCount(d) /\ c < d
  BY <1>2, <1>3
<1>5. /\ TopOfThePoll \in Polled
      /\ \A d \in Polled \ {TopOfThePoll} :
           \/ PreferenceCount(TopOfThePoll) > PreferenceCount(d)
           \/ PreferenceCount(TopOfThePoll) = PreferenceCount(d) /\ TopOfThePoll < d
  BY <1>4 DEF TopOfThePoll
<1>6. \E c \in Polled : \A d \in Polled \ {c} : down[c] > down[d] \/ (down[c] = down[d] /\ c < d)
  BY <1>1, <1>2, Topmost
<1>7. \E c \in Polled : \A d \in Polled \ {c} :
        \/ PreferenceCount(c) < PreferenceCount(d)
        \/ PreferenceCount(c) = PreferenceCount(d) /\ c < d
  BY <1>1, <1>2, <1>6
<1>8. /\ BottomOfThePoll \in Polled
      /\ \A d \in Polled \ {BottomOfThePoll} :
           \/ PreferenceCount(BottomOfThePoll) < PreferenceCount(d)
           \/ PreferenceCount(BottomOfThePoll) = PreferenceCount(d) /\ BottomOfThePoll < d
  BY <1>7 DEF BottomOfThePoll
<1> HIDE DEF TopOfThePoll
<1> QED
  BY <1>1, <1>5, <1>8

\* An elimination leaves ballots with votes, of voters who had some.
LEMMA EliminateFacts ==
  ASSUME TypeOK, NEW c
  PROVE  /\ DOMAIN Eliminate(c) = {v \in DOMAIN ballots : Removed(ballots[v], c) # NoVotes}
         /\ \A v \in DOMAIN Eliminate(c) :
              Eliminate(c)[v] = Removed(ballots[v], c) /\ Eliminate(c)[v] \in Votes \ {NoVotes}
<1>1. /\ DOMAIN Eliminate(c) = {v \in DOMAIN ballots : Removed(ballots[v], c) # NoVotes}
      /\ \A v \in DOMAIN Eliminate(c) : Eliminate(c)[v] = Removed(ballots[v], c)
  BY DEF Eliminate
<1>2. ASSUME NEW v \in DOMAIN ballots
      PROVE  Removed(ballots[v], c) \in Votes
  <2>1. ballots[v] \in Votes
    BY DEF TypeOK
  <2>2. PICK D \in SUBSET DOMAIN ballots[v] : Removed(ballots[v], c) = Restrict(ballots[v], D)
    BY <2>1, RemovedEntries
  <2> QED
    BY <2>1, <2>2, RestrictedBallot
<1> QED
  BY <1>1, <1>2

-----------------------------------------------------------------------------
(* Types *)

\* What TypeOK needs to be inductive: no count goes on while transactions come.
OpenIsEmpty == phase = "open" => ballots = NoBallots

\* Every variable of Election keeps its type.
THEOREM Typing == Spec => []TypeOK
<1>1. Init => TypeOK /\ OpenIsEmpty
  <2> SUFFICES ASSUME Init
               PROVE  TypeOK /\ OpenIsEmpty
    OBVIOUS
  <2>1. NoVotes \in Votes
    BY BallotType DEF NoVotes
  <2>2. DOMAIN NoBallots = {}
    BY DEF NoBallots
  <2> QED
    BY <2>1, <2>2 DEF Init, TypeOK, OpenIsEmpty
<1>2. TypeOK /\ OpenIsEmpty /\ [Next]_vars => TypeOK' /\ OpenIsEmpty'
  <2> SUFFICES ASSUME TypeOK, OpenIsEmpty, [Next]_vars
               PROVE  TypeOK' /\ OpenIsEmpty'
    OBVIOUS
  <2>e. DOMAIN NoBallots = {}
    BY DEF NoBallots
  <2>1. ASSUME NEW v \in Voters, NEW c \in Candidates, NEW a \in Amounts, Vote(v, c, a)
        PROVE  TypeOK' /\ OpenIsEmpty'
    <3> DEFINE old == votingPreferences[v]
               new == [b \in DOMAIN old \cup {a} |-> IF b = a THEN c ELSE old[b]]
    <3>1. old \in Votes
      BY DEF TypeOK
    <3>2. new \in Votes
      <4>1. /\ DOMAIN new \subseteq Amounts /\ \A b \in DOMAIN new : new[b] \in Candidates
            /\ new = [b \in DOMAIN new |-> new[b]]
        BY <3>1, BallotType
      <4> HIDE DEF new
      <4> QED
        BY <4>1, BallotType
    <3>3. votingPreferences' = [votingPreferences EXCEPT ![v] = new]
      BY <2>1 DEF Vote
    <3> HIDE DEF new
    <3>4. votingPreferences' \in [Voters -> Votes]
      BY <3>2, <3>3 DEF TypeOK
    <3>5. UNCHANGED <<balances, phase, ballots, eliminated, winner>> /\ phase = "open"
      BY <2>1 DEF Vote
    <3> QED
      BY <2>e, <3>4, <3>5 DEF TypeOK, OpenIsEmpty
  <2>2. ASSUME NEW v \in Voters, NEW amount \in Balances, ChangeBalance(v, amount)
        PROVE  TypeOK' /\ OpenIsEmpty'
    BY <2>e, <2>2 DEF ChangeBalance, TypeOK, OpenIsEmpty
  <2>3. CASE StartCount
    <3>1. UNCHANGED <<votingPreferences, balances>> /\ phase' = "counting"
          /\ eliminated' = {} /\ winner' = Unspendable
          /\ ballots' = Restrict(votingPreferences, Counted)
      BY <2>3 DEF StartCount
    <3>2. Counted' = Counted
      BY <3>1 DEF Counted
    <3>3. DOMAIN ballots' = Counted /\ \A v \in Counted : ballots'[v] = votingPreferences[v]
      BY <3>1 DEF Restrict
    <3>4. \A v \in Counted : votingPreferences[v] \in Votes \ {NoVotes}
      BY DEF Counted, TypeOK
    <3> HIDE DEF Counted
    <3> QED
      BY <3>1, <3>2, <3>3, <3>4 DEF TypeOK, OpenIsEmpty
  <2>4. CASE ElectNobody
    BY <2>4 DEF ElectNobody, TypeOK, OpenIsEmpty, Counted
  <2>5. ASSUME NEW c \in Candidates, UNCHANGED <<votingPreferences, balances>>,
               ballots' = Eliminate(c), phase' \in {"counting", "elected"},
               eliminated' \in SUBSET Candidates, winner' \in Candidates \cup {Unspendable}
        PROVE  TypeOK' /\ OpenIsEmpty'
    <3>1. Counted' = Counted
      BY <2>5 DEF Counted
    <3>2. DOMAIN ballots' \subseteq Counted /\ \A v \in DOMAIN ballots' : ballots'[v] \in Votes \ {NoVotes}
      BY <2>5, EliminateFacts DEF TypeOK
    <3> QED
      BY <2>5, <3>1, <3>2 DEF TypeOK, OpenIsEmpty
  <2>6. CASE ElectTop
    <3>1. TopOfThePoll \in Candidates
      BY <2>6, PollFacts, TopAndBottom DEF ElectTop
    <3> QED
      BY <2>5, <2>6, <3>1 DEF ElectTop, TypeOK
  <2>7. CASE EliminateBottom
    <3>1. BottomOfThePoll \in Candidates
      BY <2>7, PollFacts, TopAndBottom DEF EliminateBottom
    <3> QED
      BY <2>5, <2>7, <3>1 DEF EliminateBottom, TypeOK
  <2>8. CASE EndCount
    BY <2>e, <2>8 DEF EndCount, TypeOK, OpenIsEmpty
  <2>9. CASE UNCHANGED vars
    BY <2>9 DEF vars, TypeOK, OpenIsEmpty, Counted
  <2> QED
    BY <2>1, <2>2, <2>3, <2>4, <2>6, <2>7, <2>8, <2>9 DEF Next
<1> QED
  BY <1>1, <1>2, PTL DEF Spec

-----------------------------------------------------------------------------
(* The count advances *)

\* An elimination of someone polled takes entries off the ballots and adds none.
LEMMA EntriesFall ==
  ASSUME TypeOK, NEW c \in Polled
  PROVE  Entries(Eliminate(c)) \subseteq Entries(ballots) /\ Entries(Eliminate(c)) # Entries(ballots)
<1>1. ASSUME NEW v \in DOMAIN Eliminate(c), NEW a \in DOMAIN Eliminate(c)[v]
      PROVE  /\ v \in DOMAIN ballots /\ a \in DOMAIN ballots[v]
             /\ Eliminate(c)[v][a] = ballots[v][a]
  <2>1. v \in DOMAIN ballots /\ Eliminate(c)[v] = Removed(ballots[v], c) /\ ballots[v] \in Votes
    BY EliminateFacts DEF TypeOK
  <2>2. PICK D \in SUBSET DOMAIN ballots[v] : Removed(ballots[v], c) = Restrict(ballots[v], D)
    BY <2>1, RemovedEntries
  <2> QED
    BY <2>1, <2>2, RestrictedBallot
<1>2. Entries(Eliminate(c)) \subseteq Entries(ballots)
  BY <1>1 DEF Entries
<1>3. PICK v \in DOMAIN ballots : First(ballots[v]) = c
  BY DEF Polled
<1>4. ballots[v] \in Votes \ {NoVotes}
  BY DEF TypeOK
<1>5. PICK a \in DOMAIN ballots[v] : ballots[v][a] = c
  BY <1>3, <1>4, FirstIsLeast
<1>6. PICK e \in DOMAIN ballots[v] : ballots[v][e] = c /\ e \notin DOMAIN Removed(ballots[v], c)
  BY <1>4, <1>5, RemovedEntries
<1>7. <<v, e, c>> \in Entries(ballots)
  BY <1>6 DEF Entries
<1>8. ASSUME <<v, e, c>> \in Entries(Eliminate(c))
      PROVE  FALSE
  <2>1. PICK w \in DOMAIN Eliminate(c) : \E a2 \in DOMAIN Eliminate(c)[w] :
          <<v, e, c>> = <<w, a2, Eliminate(c)[w][a2]>>
    BY <1>8 DEF Entries
  <2>2. v \in DOMAIN Eliminate(c) /\ e \in DOMAIN Eliminate(c)[v]
    BY <2>1
  <2>3. Eliminate(c)[v] = Removed(ballots[v], c)
    BY <2>2, EliminateFacts
  <2> QED
    BY <1>6, <2>2, <2>3
<1> QED
  BY <1>2, <1>7, <1>8

\* main.cpp 5786-5788, 5920: every step of a count ends it or takes entries off the ballots.
THEOREM Advancing == Spec => CountAdvances
<1> DEFINE Advance == phase = "counting" =>
             \/ phase' = "elected"
             \/ Entries(ballots') \subseteq Entries(ballots) /\ Entries(ballots') # Entries(ballots)
<1>1. TypeOK /\ [Next]_vars => [Advance]_vars
  <2> SUFFICES ASSUME TypeOK, Next, phase = "counting", phase' # "elected"
               PROVE  Entries(ballots') \subseteq Entries(ballots) /\ Entries(ballots') # Entries(ballots)
    OBVIOUS
  <2>1. EliminateBottom
    BY DEF Next, Vote, ChangeBalance, StartCount, ElectNobody, ElectTop, EndCount
  <2>2. BottomOfThePoll \in Polled /\ ballots' = Eliminate(BottomOfThePoll)
    BY <2>1, TopAndBottom DEF EliminateBottom
  <2> QED
    BY <2>2, EntriesFall
<1> QED
  BY <1>1, Typing, PTL DEF Spec, CountAdvances

-----------------------------------------------------------------------------
(* The ballots are the preferences for the standing *)

\* The amounts of v's preferences for candidates who have not been eliminated.
Left(v) == {a \in DOMAIN votingPreferences[v] : votingPreferences[v][a] \notin eliminated}

\* The ballots of the standing, as BallotsOfStanding has them.
StandingBallots == [v \in {w \in Counted : Left(w) # {}} |-> Restrict(votingPreferences[v], Left(v))]

LEMMA StandingForm == BallotsOfStanding <=> (phase = "counting" /\ NoRepeats => ballots = StandingBallots)
BY DEF BallotsOfStanding, StandingBallots, Left

\* An elimination takes the candidate off the ballots of the standing.
LEMMA StandingEliminated ==
  ASSUME TypeOK, NoRepeats, ballots = StandingBallots, NEW c,
         UNCHANGED <<votingPreferences, balances>>,
         ballots' = Eliminate(c), eliminated' = eliminated \cup {c}
  PROVE  ballots' = StandingBallots'
<1>1. Counted' = Counted
  BY DEF Counted
<1>2. ASSUME NEW v \in Counted
      PROVE  Left(v)' = {a \in Left(v) : votingPreferences[v][a] # c}
  BY DEF Left
<1>3. ASSUME NEW v \in DOMAIN ballots
      PROVE  /\ v \in Counted
             /\ Removed(ballots[v], c) = Restrict(votingPreferences[v], Left(v)')
             /\ Removed(ballots[v], c) # NoVotes <=> Left(v)' # {}
  <2>1. v \in Counted /\ ballots[v] = Restrict(votingPreferences[v], Left(v))
    BY DEF StandingBallots
  <2>2. votingPreferences[v] \in Votes /\ ballots[v] \in Votes /\ Left(v) \in SUBSET DOMAIN votingPreferences[v]
    BY <2>1 DEF TypeOK, Counted, Left
  <2>3. DOMAIN ballots[v] = Left(v) /\ \A a \in Left(v) : ballots[v][a] = votingPreferences[v][a]
    BY <2>1, <2>2, RestrictedBallot
  <2>4. IsInjective(votingPreferences[v])
    BY <2>1 DEF NoRepeats
  <2>5. IsInjective(ballots[v])
    BY <2>2, <2>3, <2>4 DEF IsInjective
  <2>6. Removed(ballots[v], c) = Restrict(ballots[v], {a \in DOMAIN ballots[v] : ballots[v][a] # c})
    BY <2>2, <2>5, RemovedEntries
  <2>7. {a \in DOMAIN ballots[v] : ballots[v][a] # c} = Left(v)'
    BY <1>2, <2>1, <2>3
  <2>8. \A a \in Left(v)' : ballots[v][a] = votingPreferences[v][a]
    BY <2>3, <2>7
  <2>9. Restrict(ballots[v], Left(v)') = Restrict(votingPreferences[v], Left(v)')
    BY <2>8 DEF Restrict
  <2>10. Left(v)' \in SUBSET DOMAIN votingPreferences[v]
    BY <1>2, <2>1, <2>2
  <2>11. Restrict(votingPreferences[v], Left(v)') = NoVotes <=> Left(v)' = {}
    BY <2>2, <2>10, RestrictedBallot
  <2> QED
    BY <2>1, <2>6, <2>7, <2>9, <2>11
<1>4. DOMAIN ballots' = {v \in DOMAIN ballots : Left(v)' # {}}
  BY <1>3, EliminateFacts
<1>5. DOMAIN ballots = {v \in Counted : Left(v) # {}}
  BY DEF StandingBallots
<1>6. DOMAIN ballots' = {v \in Counted : Left(v)' # {}}
  BY <1>2, <1>4, <1>5
<1>7. \A v \in DOMAIN ballots' : ballots'[v] = Restrict(votingPreferences[v], Left(v)')
  BY <1>3, EliminateFacts
<1>8. ballots' = [v \in DOMAIN ballots' |-> ballots'[v]]
  BY DEF Eliminate
<1>9. ballots' = [v \in {w \in Counted : Left(w)' # {}} |-> Restrict(votingPreferences[v], Left(v)')]
  BY <1>6, <1>7, <1>8
<1>10. StandingBallots' = [v \in {w \in Counted : Left(w)' # {}} |-> Restrict(votingPreferences[v], Left(v)')]
  BY <1>1 DEF StandingBallots
<1> QED
  BY <1>9, <1>10

\* The count starts with all preferences.
LEMMA StandingStarts ==
  ASSUME TypeOK, StartCount
  PROVE  ballots' = StandingBallots'
<1>1. Counted' = Counted /\ votingPreferences' = votingPreferences /\ eliminated' = {}
  BY DEF Counted, StartCount
<1>2. ASSUME NEW v \in Counted
      PROVE  /\ Left(v)' = DOMAIN votingPreferences[v] /\ Left(v)' # {}
             /\ votingPreferences[v] = Restrict(votingPreferences[v], Left(v)')
  <2>1. Left(v)' = DOMAIN votingPreferences[v]
    BY <1>1 DEF Left
  <2>2. votingPreferences[v] \in Votes /\ votingPreferences[v] # NoVotes
    BY DEF TypeOK, Counted
  <2> QED
    BY <2>1, <2>2, EmptyBallot, BallotType DEF Restrict
<1>3. ballots' = [v \in Counted |-> votingPreferences[v]]
  BY DEF StartCount, Restrict
<1>4. StandingBallots' = [v \in {w \in Counted : Left(w)' # {}} |-> Restrict(votingPreferences[v], Left(v)')]
  BY <1>1 DEF StandingBallots
<1>5. {w \in Counted : Left(w)' # {}} = Counted
  BY <1>2
<1> QED
  BY <1>2, <1>3, <1>4, <1>5

\* Within a count no preference and no balance changes.
LEMMA CountIsFair ==
  ASSUME Next, phase = "counting"
  PROVE  /\ UNCHANGED <<votingPreferences, balances>>
         /\ Counted' = Counted /\ (NoRepeats' <=> NoRepeats) /\ Listed' = Listed
         /\ ElectNobody \/ ElectTop \/ EliminateBottom
<1>1. ElectNobody \/ ElectTop \/ EliminateBottom
  BY DEF Next, Vote, ChangeBalance, StartCount, EndCount
<1>2. UNCHANGED <<votingPreferences, balances>>
  BY <1>1 DEF ElectNobody, ElectTop, EliminateBottom
<1> QED
  BY <1>1, <1>2 DEF Counted, NoRepeats, Listed

\* main.cpp 5926: without repeated candidates the ballots of a count are the preferences
\* cast, less the candidates eliminated.
THEOREM StandingKept == Spec => []BallotsOfStanding
<1>1. Init => BallotsOfStanding
  BY DEF Init, BallotsOfStanding
<1>2. TypeOK /\ BallotsOfStanding /\ [Next]_vars => BallotsOfStanding'
  <2>a. BallotsOfStanding' <=> (phase' = "counting" /\ NoRepeats' => ballots' = StandingBallots')
    BY DEF BallotsOfStanding, StandingBallots, Left
  <2> SUFFICES ASSUME TypeOK, BallotsOfStanding, [Next]_vars, phase' = "counting", NoRepeats'
               PROVE  ballots' = StandingBallots'
    BY <2>a
  <2>1. CASE phase = "counting" /\ Next
    <3>1. EliminateBottom /\ NoRepeats
      BY <2>1, CountIsFair DEF ElectNobody, ElectTop
    <3>2. ballots = StandingBallots
      BY <2>1, <3>1, StandingForm
    <3> QED
      BY <3>1, <3>2, StandingEliminated DEF EliminateBottom
  <2>2. CASE phase # "counting" /\ Next
    <3>1. StartCount
      BY <2>2 DEF Next, Vote, ChangeBalance, ElectNobody, ElectTop, EliminateBottom, EndCount
    <3> QED
      BY <3>1, StandingStarts
  <2>3. CASE UNCHANGED vars
    <3>1. phase = "counting" /\ NoRepeats /\ ballots = StandingBallots
      BY <2>3, StandingForm DEF vars, NoRepeats, Counted
    <3> QED
      BY <2>3, <3>1 DEF vars, StandingBallots, Left, Counted
  <2> QED
    BY <2>1, <2>2, <2>3
<1> QED
  BY <1>1, <1>2, Typing, PTL DEF Spec

-----------------------------------------------------------------------------
(* Who stands first *)

\* A ballot with a standing candidate is in the count, for the standing one its voter ranks
\* first.
LEMMA FirstStanding ==
  ASSUME TypeOK, ballots = StandingBallots
  PROVE  /\ \A v \in Counted : \A a \in DOMAIN votingPreferences[v] :
              votingPreferences[v][a] \notin eliminated => v \in DOMAIN ballots
         /\ \A v \in DOMAIN ballots :
              /\ v \in Counted
              /\ \E e \in DOMAIN votingPreferences[v] :
                   /\ First(ballots[v]) = votingPreferences[v][e]
                   /\ votingPreferences[v][e] \notin eliminated
                   /\ \A d \in DOMAIN votingPreferences[v] :
                        votingPreferences[v][d] \notin eliminated => e <= d
<1>1. \A v \in Counted : \A a \in DOMAIN votingPreferences[v] :
        votingPreferences[v][a] \notin eliminated => v \in DOMAIN ballots
  BY DEF StandingBallots, Left
<1>2. ASSUME NEW v \in DOMAIN ballots
      PROVE  /\ v \in Counted
             /\ \E e \in DOMAIN votingPreferences[v] :
                  /\ First(ballots[v]) = votingPreferences[v][e]
                  /\ votingPreferences[v][e] \notin eliminated
                  /\ \A d \in DOMAIN votingPreferences[v] :
                       votingPreferences[v][d] \notin eliminated => e <= d
  <2>1. v \in Counted /\ ballots[v] = Restrict(votingPreferences[v], Left(v))
    BY DEF StandingBallots
  <2>2. DOMAIN ballots[v] = Left(v) /\ \A a \in Left(v) : ballots[v][a] = votingPreferences[v][a]
    BY <2>1 DEF Restrict
  <2>3. ballots[v] \in Votes \ {NoVotes}
    BY DEF TypeOK
  <2>4. PICK e \in DOMAIN ballots[v] : First(ballots[v]) = ballots[v][e] /\ \A d \in DOMAIN ballots[v] : e <= d
    BY <2>3, FirstIsLeast
  <2> QED
    BY <2>1, <2>2, <2>4 DEF Left
<1> QED
  BY <1>1, <1>2

\* Those polled are on the lists and stand.
LEMMA PolledStand ==
  ASSUME TypeOK, ballots = StandingBallots
  PROVE  Polled \subseteq Listed \ eliminated
<1> SUFFICES ASSUME NEW v \in DOMAIN ballots
             PROVE  First(ballots[v]) \in Listed \ eliminated
  BY DEF Polled
<1>1. v \in Counted
  BY FirstStanding
<1>2. PICK e \in DOMAIN votingPreferences[v] :
        First(ballots[v]) = votingPreferences[v][e] /\ votingPreferences[v][e] \notin eliminated
  BY FirstStanding
<1> QED
  BY <1>1, <1>2 DEF Listed, Range

\* A voter who ranks S before all others has his ballot counted for one of S while one of
\* them stands.
LEMMA MajorityFirst ==
  ASSUME TypeOK, ballots = StandingBallots, NEW S, NEW c \in S, c \notin eliminated,
         NEW v \in Counted, RanksFirst(v, S)
  PROVE  v \in DOMAIN ballots /\ First(ballots[v]) \in S /\ First(ballots[v]) \notin eliminated
<1> DEFINE votes == votingPreferences[v]
           ofS == {a \in DOMAIN votes : votes[a] \in S}
<1>1. Range(Restrict(votes, ofS)) = S /\ \A a \in ofS, b \in DOMAIN votes \ ofS : a < b
  BY DEF RanksFirst
<1>2. PICK a \in ofS : votes[a] = c
  BY <1>1 DEF Range, Restrict
<1>3. v \in DOMAIN ballots
  BY <1>2, FirstStanding
<1>4. PICK e \in DOMAIN votes : /\ First(ballots[v]) = votes[e] /\ votes[e] \notin eliminated
                                /\ \A d \in DOMAIN votes : votes[d] \notin eliminated => e <= d
  BY <1>3, FirstStanding
<1>5. e <= a
  BY <1>2, <1>4
<1>6. votes \in Votes
  BY DEF TypeOK, Counted
<1>7. DOMAIN votes \subseteq Nat
  BY <1>6, BallotType, ElectionAssumption
<1>8. e \in Nat /\ a \in Nat
  BY <1>7
<1>9. e \in ofS
  BY <1>1, <1>5, <1>8
<1> QED
  BY <1>3, <1>4, <1>9

\* More than half of a number.
LEMMA Quota ==
  ASSUME NEW n \in Nat, NEW x \in Nat
  PROVE  x >= n \div (NUMBEROFAWARDS + 1) + 1 <=> 2 * x > n
<1>1. NUMBEROFAWARDS + 1 = 2
  BY DEF NUMBEROFAWARDS
<1>2. x >= n \div 2 + 1 <=> 2 * x > n
  OBVIOUS
<1> QED
  BY <1>1, <1>2

\* Two sets of voters with more than half of the balances each have a voter in common.
LEMMA HalvesMeet ==
  ASSUME TypeOK, NEW A, A \subseteq Counted, NEW B, B \subseteq Counted,
         2 * BalanceOf(A) > BalanceOf(Counted), 2 * BalanceOf(B) > BalanceOf(Counted)
  PROVE  A \cap B # {}
<1> SUFFICES ASSUME A \cap B = {}
             PROVE  FALSE
  OBVIOUS
<1>1. balances \in [Voters -> Balances] /\ Counted \subseteq Voters
  BY DEF TypeOK, Counted
<1>2. A \subseteq Voters /\ B \subseteq Voters /\ A \cup B \subseteq Voters /\ A \cup B \subseteq Counted
  BY <1>1
<1>3. /\ BalanceOf(A) \in Nat /\ BalanceOf(B) \in Nat
      /\ BalanceOf(A \cup B) = BalanceOf(A) + BalanceOf(B)
  BY <1>1, <1>2, BalanceFacts
<1>4. BalanceOf(Counted) \in Nat /\ BalanceOf(A \cup B) <= BalanceOf(Counted)
  BY <1>1, <1>2, BalanceFacts
<1> QED
  BY <1>3, <1>4

\* Preferences, balances and what is said of them stay as they are.
LEMMA SameElection ==
  ASSUME UNCHANGED <<votingPreferences, balances>>
  PROVE  /\ Counted' = Counted /\ Listed' = Listed /\ (NoRepeats' <=> NoRepeats)
         /\ BalanceOf(Counted)' = BalanceOf(Counted)
         /\ \A S : BalanceOf({v \in Counted : RanksFirst(v, S)})' = BalanceOf({v \in Counted : RanksFirst(v, S)})
         /\ \A c, d : LosesTo(c, d)' <=> LosesTo(c, d)
<1>1. Counted' = Counted
  BY DEF Counted
<1>2. Listed' = Listed /\ (NoRepeats' <=> NoRepeats)
  BY <1>1 DEF Listed, NoRepeats
<1>3. \A S : BalanceOf(S)' = BalanceOf(S)
  BY DEF BalanceOf
<1>4. ASSUME NEW S
      PROVE  BalanceOf({v \in Counted : RanksFirst(v, S)})' = BalanceOf({v \in Counted : RanksFirst(v, S)})
  BY <1>1 DEF BalanceOf, RanksFirst
<1>5. ASSUME NEW c, NEW d
      PROVE  LosesTo(c, d)' <=> LosesTo(c, d)
  BY <1>1 DEF LosesTo, BalanceOf, Prefers
<1>6. BalanceOf(Counted)' = BalanceOf(Counted)
  BY <1>1 DEF BalanceOf
<1> QED
  BY <1>1, <1>2, <1>4, <1>5, <1>6

-----------------------------------------------------------------------------
(* A majority's candidates *)

\* Voters with more than half of the balances rank the candidates of S before all others.
SolidMajority(S) == 2 * BalanceOf({v \in Counted : RanksFirst(v, S)}) > BalanceOf(Counted)

\* While the count goes on, one of a majority's candidates stands.
MajorityStands ==
  phase = "counting" /\ NoRepeats =>
    \A S \in (SUBSET Listed) \ {{}} : SolidMajority(S) => ~ (S \subseteq eliminated)

\* A majority has a voter, and the ballots of its voters are counted for its candidates.
LEMMA MajorityVotes ==
  ASSUME TypeOK, ballots = StandingBallots, NEW S, ~ (S \subseteq eliminated), SolidMajority(S)
  PROVE  LET M == {v \in Counted : RanksFirst(v, S)}
         IN /\ M # {} /\ M \subseteq DOMAIN ballots
            /\ \A v \in M : First(ballots[v]) \in S /\ First(ballots[v]) \notin eliminated
<1> DEFINE M == {v \in Counted : RanksFirst(v, S)}
<1>1. PICK c \in S : c \notin eliminated
  OBVIOUS
<1>2. \A v \in M : v \in DOMAIN ballots /\ First(ballots[v]) \in S /\ First(ballots[v]) \notin eliminated
  BY <1>1, MajorityFirst
<1>3. balances \in [Voters -> Balances] /\ Counted \subseteq Voters
  BY DEF TypeOK, Counted
<1>4. BalanceOf({}) = 0 /\ BalanceOf(Counted) \in Nat
  BY <1>3, BalanceFacts
<1>5. 2 * BalanceOf(M) > BalanceOf(Counted)
  BY DEF SolidMajority
<1>6. M # {}
  BY <1>4, <1>5
<1> QED
  BY <1>2, <1>6

\* The one who tops the poll and is elected is one of a majority's candidates.
LEMMA MajorityElects ==
  ASSUME TypeOK, ballots = StandingBallots, NEW S, ~ (S \subseteq eliminated), SolidMajority(S),
         Polled # {}, Elects
  PROVE  TopOfThePoll \in S
<1> DEFINE M == {v \in Counted : RanksFirst(v, S)}
<1>1. /\ M # {} /\ M \subseteq DOMAIN ballots /\ M \subseteq Counted
      /\ \A v \in M : First(ballots[v]) \in S
  BY MajorityVotes
<1>2. 2 * BalanceOf(M) > BalanceOf(Counted)
  BY DEF SolidMajority
<1>3. TopOfThePoll \in Polled /\ IsFiniteSet(Polled)
  BY PollFacts, TopAndBottom
<1> DEFINE top == TopOfThePoll
<1> HIDE DEF M, top
<1>4. CASE PreferenceCount(top) >= DroopQuota
  <2>1. PreferenceCount(top) \in Nat /\ BalanceOf(Counted) \in Nat
    BY PollFacts
  <2>2. 2 * BalanceOf(InFavour(top)) > BalanceOf(Counted)
    BY <1>4, <2>1, Quota DEF DroopQuota, PreferenceCount
  <2>3. InFavour(top) \subseteq Counted
    BY DEF InFavour, TypeOK
  <2>4. PICK v \in InFavour(top) : v \in M
    BY <1>1, <1>2, <2>2, <2>3, HalvesMeet
  <2> QED
    BY <1>1, <2>4 DEF InFavour, top
<1>5. CASE NUMBEROFAWARDS >= Cardinality(Polled)
  <2>1. Cardinality(Polled) <= 1 /\ Cardinality(Polled) \in Nat
    BY <1>3, <1>5, FS_CardinalityType DEF NUMBEROFAWARDS
  <2>2. PICK v \in M : TRUE
    BY <1>1
  <2>3. First(ballots[v]) \in Polled /\ First(ballots[v]) \in S
    BY <1>1, PollFacts
  <2>4. First(ballots[v]) = top
    <3>1. CASE Cardinality(Polled) = 1
      <4>1. PICK x : Polled = {x}
        BY <1>3, <3>1, FS_Singleton
      <4> QED
        BY <1>3, <2>3, <4>1 DEF top
    <3>2. CASE Cardinality(Polled) = 0
      BY <1>3, <2>3, <3>2, FS_EmptySet
    <3> QED
      BY <2>1, <3>1, <3>2
  <2> QED
    BY <2>3, <2>4 DEF top
<1> QED
  BY <1>4, <1>5 DEF Elects, top

\* The last of a majority's candidates is not eliminated.
LEMMA MajorityIsNotLast ==
  ASSUME TypeOK, ballots = StandingBallots, NEW S, ~ (S \subseteq eliminated), SolidMajority(S),
         Polled # {}, ~Elects
  PROVE  ~ (S \subseteq eliminated \cup {BottomOfThePoll})
<1> DEFINE M == {v \in Counted : RanksFirst(v, S)}
           top == TopOfThePoll
           bottom == BottomOfThePoll
<1> SUFFICES ASSUME S \subseteq eliminated \cup {bottom}
             PROVE  FALSE
  OBVIOUS
<1>1. /\ M \subseteq DOMAIN ballots
      /\ \A v \in M : First(ballots[v]) \in S /\ First(ballots[v]) \notin eliminated
  BY MajorityVotes
<1>2. M \subseteq InFavour(bottom)
  BY <1>1 DEF InFavour
<1>3. /\ bottom \in Polled /\ top \in Polled
      /\ \A d \in Polled : PreferenceCount(d) <= PreferenceCount(top)
  BY TopAndBottom
<1>4. 2 * BalanceOf(M) > BalanceOf(Counted)
  BY DEF SolidMajority
<1> HIDE DEF M, top, bottom
<1>5. InFavour(bottom) \subseteq Voters /\ M \subseteq Voters /\ balances \in [Voters -> Balances]
  BY <1>2, PollFacts DEF TypeOK
<1>6. BalanceOf(M) <= BalanceOf(InFavour(bottom)) /\ BalanceOf(M) \in Nat
  BY <1>2, <1>5, BalanceFacts
<1>7. PreferenceCount(bottom) = BalanceOf(InFavour(bottom))
  BY DEF PreferenceCount
<1>8. /\ PreferenceCount(bottom) <= PreferenceCount(top)
      /\ PreferenceCount(bottom) \in Nat /\ PreferenceCount(top) \in Nat /\ BalanceOf(Counted) \in Nat
  BY <1>3, PollFacts
<1>9. 2 * PreferenceCount(top) > BalanceOf(Counted)
  BY <1>4, <1>6, <1>7, <1>8
<1>10. PreferenceCount(top) >= DroopQuota
  BY <1>8, <1>9, Quota DEF DroopQuota
<1> QED
  BY <1>10 DEF Elects, top

\* main.cpp 5773, 5858, 5879: if voters with more than half of the balances rank the
\* candidates of S before all others, one of S is elected.
THEOREM MajorityWins == Spec => []MajorityPrevails
<1> DEFINE Inv == TypeOK /\ BallotsOfStanding
           Majority == MajorityStands /\ MajorityPrevails
<1>1. Init => Majority
  BY DEF Init, MajorityStands, MajorityPrevails
<1>2. Inv /\ Inv' /\ Majority /\ [Next]_vars => Majority'
  <2> SUFFICES ASSUME Inv, Inv', Majority, [Next]_vars
               PROVE  Majority'
    OBVIOUS
  <2>a. MajorityPrevails <=> (phase = "elected" /\ NoRepeats =>
          \A S \in (SUBSET Listed) \ {{}} : SolidMajority(S) => winner \in S)
    BY DEF MajorityPrevails, SolidMajority
  <2>b. MajorityPrevails' <=> (phase' = "elected" /\ NoRepeats' =>
          \A S \in (SUBSET Listed') \ {{}} : SolidMajority(S)' => winner' \in S)
    BY DEF MajorityPrevails, SolidMajority
  <2>c. MajorityStands' <=> (phase' = "counting" /\ NoRepeats' =>
          \A S \in (SUBSET Listed') \ {{}} : SolidMajority(S)' => ~ (S \subseteq eliminated'))
    BY DEF MajorityStands
  <2>d. UNCHANGED <<votingPreferences, balances>> =>
          /\ Listed' = Listed /\ (NoRepeats' <=> NoRepeats)
          /\ \A S : SolidMajority(S)' <=> SolidMajority(S)
    BY SameElection DEF SolidMajority
  <2>1. CASE phase = "counting" /\ Next
    <3>1. /\ UNCHANGED <<votingPreferences, balances>>
          /\ ElectNobody \/ ElectTop \/ EliminateBottom
      BY <2>1, CountIsFair
    <3>2. SUFFICES ASSUME NoRepeats, NEW S \in (SUBSET Listed) \ {{}}, SolidMajority(S)
                   PROVE  /\ phase' = "counting" => ~ (S \subseteq eliminated')
                          /\ phase' = "elected" => winner' \in S
      BY <2>b, <2>c, <2>d, <3>1
    <3>3. ballots = StandingBallots /\ ~ (S \subseteq eliminated)
      BY <2>1, <3>2, StandingForm DEF MajorityStands
    <3>4. CASE ElectNobody
      <4>1. Polled = {}
        BY <3>4 DEF ElectNobody
      <4> QED
        BY <3>2, <3>3, <4>1, MajorityVotes, PollFacts
    <3>5. CASE ElectTop
      BY <3>2, <3>3, <3>5, MajorityElects DEF ElectTop
    <3>6. CASE EliminateBottom
      BY <2>1, <3>2, <3>3, <3>6, MajorityIsNotLast DEF EliminateBottom
    <3> QED
      BY <3>1, <3>4, <3>5, <3>6
  <2>2. CASE phase # "counting" /\ Next
    <3>1. phase' = "open" \/ (phase' = "counting" /\ eliminated' = {})
      BY <2>2 DEF Next, Vote, ChangeBalance, StartCount, ElectNobody, ElectTop, EliminateBottom, EndCount
    <3> QED
      BY <3>1 DEF MajorityStands, MajorityPrevails
  <2>3. CASE UNCHANGED vars
    BY <2>a, <2>b, <2>c, <2>d, <2>3 DEF vars, MajorityStands
  <2> QED
    BY <2>1, <2>2, <2>3
<1>3. Spec => []Inv
  BY Typing, StandingKept, PTL
<1> QED
  BY <1>1, <1>2, <1>3, PTL DEF Spec

-----------------------------------------------------------------------------
(* A candidate who loses to every other *)

\* While the count goes on someone on the lists stands, and one who stands alone has beaten or
\* tied with another.
LoserStands ==
  phase = "counting" /\ NoRepeats /\ Listed # {} =>
    /\ \E c \in Listed : c \notin eliminated
    /\ \A w : Listed \ eliminated = {w} /\ Listed # {w} =>
         \E d \in Listed \ {w} : ~LosesTo(w, d)

\* Voters counted for w prefer w to any other who stands, and none of them prefers the other.
LEMMA FirstPrefers ==
  ASSUME TypeOK, ballots = StandingBallots, NEW w, NEW d, d \notin eliminated, d # w
  PROVE  /\ InFavour(w) \subseteq {v \in Counted : Prefers(v, w, d)}
         /\ InFavour(w) \cap {v \in Counted : Prefers(v, d, w)} = {}
         /\ {v \in Counted : Prefers(v, d, w)} \subseteq DOMAIN ballots
<1>1. ASSUME NEW v \in InFavour(w)
      PROVE  v \in Counted /\ Prefers(v, w, d) /\ ~Prefers(v, d, w)
  <2> DEFINE votes == votingPreferences[v]
  <2>1. v \in DOMAIN ballots /\ First(ballots[v]) = w
    BY DEF InFavour
  <2>2. v \in Counted
    BY <2>1, FirstStanding
  <2>3. PICK e \in DOMAIN votes : /\ votes[e] = w
                                  /\ \A a \in DOMAIN votes : votes[a] \notin eliminated => e <= a
    BY <2>1, FirstStanding
  <2>4. votes \in Votes
    BY <2>2 DEF TypeOK, Counted
  <2>5. DOMAIN votes \subseteq Nat
    BY <2>4, BallotType, ElectionAssumption
  <2>6. \A b \in DOMAIN votes : votes[b] = d => e < b /\ ~ (b < e)
    BY <2>3, <2>5
  <2>7. Prefers(v, w, d)
    BY <2>3, <2>6 DEF Prefers
  <2>8. ~Prefers(v, d, w)
    BY <2>3, <2>6 DEF Prefers
  <2> QED
    BY <2>2, <2>7, <2>8
<1>2. ASSUME NEW v \in Counted, Prefers(v, d, w)
      PROVE  v \in DOMAIN ballots
  <2>1. PICK a \in DOMAIN votingPreferences[v] : votingPreferences[v][a] = d
    BY <1>2 DEF Prefers
  <2> QED
    BY <2>1, FirstStanding
<1> QED
  BY <1>1, <1>2

\* w does not lose to d when the voters who prefer d are not more than those counted for w.
LEMMA DoesNotLose ==
  ASSUME TypeOK, ballots = StandingBallots, NEW w, NEW d, d \notin eliminated, d # w,
         BalanceOf({v \in Counted : Prefers(v, d, w)}) <= PreferenceCount(w)
  PROVE  ~LosesTo(w, d)
<1> DEFINE X == {v \in Counted : Prefers(v, w, d)}
           Y == {v \in Counted : Prefers(v, d, w)}
<1>1. InFavour(w) \subseteq X
  BY FirstPrefers
<1>2. X \subseteq Voters /\ Y \subseteq Voters /\ InFavour(w) \subseteq Voters
      /\ balances \in [Voters -> Balances]
  BY <1>1 DEF TypeOK, Counted
<1>3. BalanceOf(Y) <= PreferenceCount(w)
  OBVIOUS
<1>4. LosesTo(w, d) <=> BalanceOf(X) < BalanceOf(Y)
  BY DEF LosesTo
<1> HIDE DEF X, Y
<1>5. BalanceOf(InFavour(w)) <= BalanceOf(X) /\ BalanceOf(X) \in Nat /\ BalanceOf(InFavour(w)) \in Nat
  BY <1>1, <1>2, BalanceFacts
<1>6. BalanceOf(Y) \in Nat
  BY <1>2, BalanceFacts
<1> QED
  BY <1>3, <1>4, <1>5, <1>6 DEF PreferenceCount

\* The one who tops the poll and is elected does not lose to another who stands.
LEMMA TopDoesNotLose ==
  ASSUME TypeOK, ballots = StandingBallots, Polled # {}, Elects,
         NEW d, d \notin eliminated, d # TopOfThePoll
  PROVE  ~LosesTo(TopOfThePoll, d)
<1> DEFINE w == TopOfThePoll
           Y == {v \in Counted : Prefers(v, d, w)}
<1>1. w \in Polled /\ IsFiniteSet(Polled)
  BY PollFacts, TopAndBottom
<1>2. InFavour(w) \cap Y = {} /\ Y \subseteq DOMAIN ballots
  BY FirstPrefers
<1>3. /\ PreferenceCount(w) \in Nat /\ BalanceOf(Counted) \in Nat
      /\ DOMAIN ballots \subseteq Voters /\ Counted \subseteq Voters
  BY PollFacts
<1>4. balances \in [Voters -> Balances] /\ Y \subseteq Counted /\ InFavour(w) \subseteq Counted
  BY DEF TypeOK, InFavour
<1> HIDE DEF w, Y
<1>5. BalanceOf(Y) <= PreferenceCount(w)
  <2>1. CASE PreferenceCount(w) >= DroopQuota
    <3>1. 2 * BalanceOf(InFavour(w)) > BalanceOf(Counted)
      BY <1>3, <2>1, Quota DEF DroopQuota, PreferenceCount
    <3>2. ~ (2 * BalanceOf(Y) > BalanceOf(Counted))
      BY <1>2, <1>4, <3>1, HalvesMeet
    <3>3. BalanceOf(Y) \in Nat
      BY <1>3, <1>4, BalanceFacts
    <3> QED
      BY <1>3, <3>1, <3>2, <3>3 DEF PreferenceCount
  <2>2. CASE NUMBEROFAWARDS >= Cardinality(Polled)
    <3>1. Cardinality(Polled) <= 1 /\ Cardinality(Polled) \in Nat
      BY <1>1, <2>2, FS_CardinalityType DEF NUMBEROFAWARDS
    <3>2. PICK x : Polled = {x}
      <4>1. Cardinality(Polled) # 0
        BY <1>1, FS_EmptySet
      <4>2. Cardinality(Polled) = 1
        BY <3>1, <4>1
      <4> QED
        BY <1>1, <4>2, FS_Singleton
    <3>3. Polled = {w}
      BY <1>1, <3>2
    <3>4. DOMAIN ballots \subseteq InFavour(w)
      BY <3>3, PollFacts DEF InFavour
    <3>5. Y = {}
      BY <1>2, <3>4
    <3> QED
      BY <1>3, <1>4, <3>5, BalanceFacts
  <2> QED
    BY <2>1, <2>2 DEF Elects, w
<1> QED
  BY <1>5, DoesNotLose DEF w, Y

\* When the bottom of the poll is eliminated another stands, and one who then stands alone did
\* not lose to the bottom.
LEMMA BottomGoes ==
  ASSUME TypeOK, ballots = StandingBallots, Polled # {}, ~Elects
  PROVE  /\ \E c \in Listed : c \notin eliminated \cup {BottomOfThePoll}
         /\ \A w : Listed \ (eliminated \cup {BottomOfThePoll}) = {w} =>
              BottomOfThePoll \in Listed \ {w} /\ ~LosesTo(w, BottomOfThePoll)
<1> DEFINE b == BottomOfThePoll
<1>1. /\ b \in Polled /\ IsFiniteSet(Polled)
      /\ \A d \in Polled : PreferenceCount(b) <= PreferenceCount(d)
  BY PollFacts, TopAndBottom
<1>2. Polled \subseteq Listed \ eliminated
  BY PolledStand
<1>3. ~ (NUMBEROFAWARDS >= Cardinality(Polled))
  BY DEF Elects
<1> HIDE DEF b
<1>4. PICK p \in Polled : p # b
  <2>1. Cardinality({b}) = 1
    BY FS_Singleton
  <2>2. Cardinality(Polled) # 1
    BY <1>3 DEF NUMBEROFAWARDS
  <2>3. Polled # {b}
    BY <2>1, <2>2
  <2> QED
    BY <1>1, <2>3
<1>5. p \in Listed /\ p \notin eliminated \cup {b}
  BY <1>2, <1>4
<1>6. ASSUME NEW w, Listed \ (eliminated \cup {b}) = {w}
      PROVE  b \in Listed \ {w} /\ ~LosesTo(w, b)
  <2>1. p = w /\ w # b /\ w \notin eliminated
    BY <1>5, <1>6
  <2>2. b \in Listed /\ b \notin eliminated /\ Listed \ eliminated = {w, b}
    BY <1>1, <1>2, <1>6
  <2> DEFINE Y == {v \in Counted : Prefers(v, b, w)}
  <2>3. InFavour(w) \cap Y = {} /\ Y \subseteq DOMAIN ballots
    BY <2>1, <2>2, FirstPrefers
  <2>4. ASSUME NEW v \in Y
        PROVE  v \in InFavour(b)
    <3>1. v \in DOMAIN ballots /\ v \in InFavour(First(ballots[v])) /\ First(ballots[v]) \in Polled
      BY <2>3, PollFacts
    <3>2. First(ballots[v]) \in {w, b}
      BY <1>2, <2>2, <3>1
    <3> QED
      BY <2>3, <3>1, <3>2
  <2> HIDE DEF Y
  <2>5. Y \subseteq InFavour(b) /\ Y \subseteq Voters /\ InFavour(b) \subseteq Voters
        /\ balances \in [Voters -> Balances]
    BY <2>3, <2>4, PollFacts DEF TypeOK
  <2>6. BalanceOf(Y) <= PreferenceCount(b) /\ BalanceOf(Y) \in Nat
    BY <2>5, BalanceFacts DEF PreferenceCount
  <2>7. /\ PreferenceCount(b) <= PreferenceCount(w)
        /\ PreferenceCount(b) \in Nat /\ PreferenceCount(w) \in Nat
    BY <1>1, <1>4, <2>1, PollFacts
  <2>8. BalanceOf(Y) <= PreferenceCount(w)
    BY <2>6, <2>7
  <2>9. ~LosesTo(w, b)
    BY <2>1, <2>2, <2>8, DoesNotLose DEF Y
  <2> QED
    BY <2>1, <2>2, <2>9
<1> QED
  BY <1>5, <1>6 DEF b

\* main.cpp 5829, 5879: a candidate who loses to every other in a vote between the two is not
\* elected.
THEOREM LoserLoses == Spec => []LoserIsNotElected
<1> DEFINE Inv == TypeOK /\ BallotsOfStanding
           Loser == LoserStands /\ LoserIsNotElected
<1>1. Init => Loser
  BY DEF Init, LoserStands, LoserIsNotElected
<1>2. Inv /\ Loser /\ [Next]_vars => Loser'
  <2> SUFFICES ASSUME Inv, Loser, [Next]_vars
               PROVE  Loser'
    OBVIOUS
  <2>b. LoserIsNotElected' <=> (phase' = "elected" /\ NoRepeats' =>
          ~ (Listed' # {winner'} /\ Listed' # {} /\ \A d \in Listed' \ {winner'} : LosesTo(winner, d)'))
    BY DEF LoserIsNotElected
  <2>c. LoserStands' <=> (phase' = "counting" /\ NoRepeats' /\ Listed' # {} =>
          /\ \E c \in Listed' : c \notin eliminated'
          /\ \A w : Listed' \ eliminated' = {w} /\ Listed' # {w} =>
               \E d \in Listed' \ {w} : ~LosesTo(w, d)')
    BY DEF LoserStands
  <2>d. UNCHANGED <<votingPreferences, balances>> =>
          /\ Listed' = Listed /\ (NoRepeats' <=> NoRepeats)
          /\ \A c, d : LosesTo(c, d)' <=> LosesTo(c, d)
    BY SameElection
  <2>1. CASE phase = "counting" /\ Next
    <3>1. /\ UNCHANGED <<votingPreferences, balances>>
          /\ ElectNobody \/ ElectTop \/ EliminateBottom
      BY <2>1, CountIsFair
    <3>2. CASE ~NoRepeats \/ Listed = {}
      BY <2>b, <2>c, <2>d, <3>1, <3>2
    <3>3. CASE NoRepeats /\ Listed # {}
      <4>1. /\ ballots = StandingBallots
            /\ \E c \in Listed : c \notin eliminated
            /\ \A w : Listed \ eliminated = {w} /\ Listed # {w} =>
                 \E d \in Listed \ {w} : ~LosesTo(w, d)
        BY <2>1, <3>3, StandingForm DEF LoserStands
      <4>2. Polled # {}
        <5>1. PICK c \in Listed : c \notin eliminated
          BY <4>1
        <5>2. PICK v \in Counted : \E a \in DOMAIN votingPreferences[v] : votingPreferences[v][a] = c
          BY DEF Listed, Range
        <5>3. v \in DOMAIN ballots
          BY <4>1, <5>1, <5>2, FirstStanding
        <5> QED
          BY <5>3 DEF Polled
      <4>3. CASE ElectTop
        <5>1. Elects /\ winner' = TopOfThePoll /\ phase' = "elected"
          BY <4>3 DEF ElectTop
        <5>2. TopOfThePoll \in Listed \ eliminated
          BY <4>1, <4>2, TopAndBottom, PolledStand
        <5>3. ASSUME Listed # {TopOfThePoll}
              PROVE  \E d \in Listed \ {TopOfThePoll} : ~LosesTo(TopOfThePoll, d)
          <6>1. CASE Listed \ eliminated = {TopOfThePoll}
            BY <4>1, <5>3, <6>1
          <6>2. CASE Listed \ eliminated # {TopOfThePoll}
            <7>1. PICK d \in Listed \ eliminated : d # TopOfThePoll
              BY <5>2, <6>2
            <7> QED
              BY <4>1, <4>2, <5>1, <7>1, TopDoesNotLose
          <6> QED
            BY <6>1, <6>2
        <5>4. \A d : LosesTo(winner, d)' <=> LosesTo(TopOfThePoll, d)
          BY <3>1, <5>1, <2>d DEF LosesTo, Prefers, Counted, BalanceOf
        <5> QED
          BY <2>b, <2>c, <2>d, <3>1, <5>1, <5>3, <5>4
      <4>4. CASE EliminateBottom
        <5>1. /\ ~Elects /\ phase' = "counting"
              /\ eliminated' = eliminated \cup {BottomOfThePoll}
          BY <2>1, <4>4 DEF EliminateBottom
        <5>2. /\ \E c \in Listed : c \notin eliminated'
              /\ \A w : Listed \ eliminated' = {w} => \E d \in Listed \ {w} : ~LosesTo(w, d)
          BY <4>1, <4>2, <5>1, BottomGoes
        <5> QED
          BY <2>b, <2>c, <2>d, <3>1, <5>1, <5>2
      <4> QED
        BY <3>1, <4>2, <4>3, <4>4 DEF ElectNobody
    <3> QED
      BY <3>2, <3>3
  <2>2. CASE phase # "counting" /\ Next
    <3>1. phase' = "open" \/ (phase' = "counting" /\ eliminated' = {})
      BY <2>2 DEF Next, Vote, ChangeBalance, StartCount, ElectNobody, ElectTop, EliminateBottom, EndCount
    <3> QED
      BY <2>b, <2>c, <3>1
  <2>3. CASE UNCHANGED vars
    <3>1. UNCHANGED <<votingPreferences, balances, phase, eliminated, winner>>
      BY <2>3 DEF vars
    <3>2. \A d : LosesTo(winner, d)' <=> LosesTo(winner, d)
      BY <3>1 DEF LosesTo, Prefers, Counted, BalanceOf
    <3> QED
      BY <2>b, <2>c, <2>d, <3>1, <3>2 DEF LoserStands, LoserIsNotElected
  <2> QED
    BY <2>1, <2>2, <2>3
<1>3. Spec => []Inv
  BY Typing, StandingKept, PTL
<1> QED
  BY <1>1, <1>2, <1>3, PTL DEF Spec

=============================================================================
