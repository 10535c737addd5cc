----------------------------- MODULE Election -----------------------------
(***************************************************************************)
(* The count of one office of a grant award (main.cpp, the functions       *)
(* getWinnersFromBallots to eliminateCandidate): the candidate with least  *)
(* support is eliminated and his ballots go to their next preference until *)
(* one reaches the Droop quota.  Every GRANTBLOCKINTERVAL blocks the grant *)
(* database counts each office in the same way; between two counts the     *)
(* transactions of the chain change balances and cast votes.               *)
(*                                                                         *)
(* A vote is an output of 1 to 9 coins' smallest units to the candidate's  *)
(* address: the smaller amount is the higher preference.  Candidates are   *)
(* numbers, in the order of their addresses.  getNUMBEROFAWARDS is 1, so   *)
(* every ballot weighs 1.0 until the only winner is found and the weights  *)
(* are left out.                                                           *)
(***************************************************************************)
EXTENDS Integers, FiniteSetsExt, Functions

CONSTANTS Voters,       \* addresses that have voted or will
          Candidates,   \* addresses of the office's candidates
          Amounts,      \* amounts of a vote
          Balances      \* balances an address can have

ASSUME ElectionAssumption ==
  /\ IsFiniteSet(Voters)
  /\ Candidates \subseteq Nat \ {0} /\ Amounts \subseteq Nat \ {0} /\ Balances \subseteq Nat
  /\ IsFiniteSet(Candidates) /\ IsFiniteSet(Amounts)

NUMBEROFAWARDS == 1
Unspendable == 0      \* MVTEceo1111111111111111111111TvNrt

VARIABLES
  votingPreferences,  \* per voter, amount -> candidate
  balances,           \* per voter
  phase,              \* "open", "counting" or "elected"
  ballots,            \* per voter still in the count, what is left of his preferences
  eliminated,         \* history: the candidates eliminated in this count
  winner              \* awardWinners[0]

vars == <<votingPreferences, balances, phase, ballots, eliminated, winner>>

NoVotes == [a \in {} |-> Unspendable]
NoBallots == [v \in {} |-> NoVotes]

\* The chain before the first vote.
Init ==
  /\ votingPreferences = [v \in Voters |-> NoVotes]
  /\ balances \in [Voters -> Balances]
  /\ phase = "open" /\ ballots = NoBallots /\ eliminated = {} /\ winner = Unspendable

-----------------------------------------------------------------------------
(* Transactions *)

\* A spent output of v in a transaction with a vote for c: the last vote with an
\* amount replaces the earlier one, and no vote is ever taken back.
Vote(v, c, a) ==
  /\ phase = "open"
  /\ votingPreferences' = [votingPreferences EXCEPT
       ![v] = [b \in DOMAIN @ \cup {a} |-> IF b = a THEN c ELSE @[b]]]
  /\ UNCHANGED <<balances, phase, ballots, eliminated, winner>>

\* Outputs to v and spent outputs of v.
ChangeBalance(v, amount) ==
  /\ phase = "open" /\ amount # balances[v]
  /\ balances' = [balances EXCEPT ![v] = amount]
  /\ UNCHANGED <<votingPreferences, phase, ballots, eliminated, winner>>

-----------------------------------------------------------------------------
(* The count *)

\* "Ignore balances of 0 - they play no part."
Counted == {v \in Voters : balances[v] > 0 /\ votingPreferences[v] # NoVotes}

BalanceOf(S) == SumFunctionOnSet(balances, S)

\* Mutation: a quota for two awards.
DroopQuotaOfTwo == BalanceOf(Counted) \div (NUMBEROFAWARDS + 2) + 1

DroopQuota == BalanceOf(Counted) \div (NUMBEROFAWARDS + 1) + 1

StartCount ==
  /\ phase = "open"
  /\ phase' = "counting" /\ ballots' = Restrict(votingPreferences, Counted)
  /\ eliminated' = {} /\ winner' = Unspendable
  /\ UNCHANGED <<votingPreferences, balances>>

First(ballot) == ballot[Min(DOMAIN ballot)]
InFavour(c) == {v \in DOMAIN ballots : First(ballots[v]) = c}
Polled == {First(ballots[v]) : v \in DOMAIN ballots}

\* Mutation: every voter has one vote.
PreferenceCountByHead(c) == Cardinality(InFavour(c))

PreferenceCount(c) == BalanceOf(InFavour(c))

\* Among equals the first by address is both top and bottom of the poll.
TopOfThePoll ==
  CHOOSE c \in Polled : \A d \in Polled \ {c} :
    \/ PreferenceCount(c) > PreferenceCount(d)
    \/ PreferenceCount(c) = PreferenceCount(d) /\ c < d

BottomOfThePoll ==
  CHOOSE c \in Polled : \A d \in Polled \ {c} :
    \/ PreferenceCount(c) < PreferenceCount(d)
    \/ PreferenceCount(c) = PreferenceCount(d) /\ c < d

\* Mutation: only the head of the list is looked at.
RemovedFromHead(ballot, c) ==
  IF First(ballot) = c THEN Restrict(ballot, DOMAIN ballot \ {Min(DOMAIN ballot)}) ELSE ballot

\* Mutation: a ballot keeps its only preference.
RemovedUnlessOnly(ballot, c) ==
  IF \A a \in DOMAIN ballot : ballot[a] = c THEN ballot
  ELSE Restrict(ballot, {a \in DOMAIN ballot : ballot[a] # c})

\* markForRemoval is the last preference for c.
Removed(ballot, c) ==
  LET marked == {a \in DOMAIN ballot : ballot[a] = c}
  IN IF marked = {} THEN ballot ELSE Restrict(ballot, DOMAIN ballot \ {Max(marked)})

\* Mutation: ballots with nothing left stay in the count.
EliminateKeeping(c) == [v \in DOMAIN ballots |-> Removed(ballots[v], c)]

\* eliminateCandidate: ballots with nothing left are taken out of the count.
Eliminate(c) ==
  LET left == {v \in DOMAIN ballots : Removed(ballots[v], c) # NoVotes}
  IN [v \in left |-> Removed(ballots[v], c)]

\* electOrEliminate: no candidate has support.
ElectNobody ==
  /\ phase = "counting" /\ Polled = {}
  /\ winner' = Unspendable /\ phase' = "elected"
  /\ UNCHANGED <<votingPreferences, balances, ballots, eliminated>>

Elects == \/ PreferenceCount(TopOfThePoll) >= DroopQuota
          \/ NUMBEROFAWARDS >= Cardinality(Polled)

ElectTop ==
  /\ phase = "counting" /\ Polled # {} /\ Elects
  /\ winner' = TopOfThePoll /\ phase' = "elected"
  /\ ballots' = Eliminate(TopOfThePoll)
  /\ UNCHANGED <<votingPreferences, balances, eliminated>>

EliminateBottom ==
  /\ phase = "counting" /\ Polled # {} /\ ~Elects
  /\ ballots' = Eliminate(BottomOfThePoll)
  /\ eliminated' = eliminated \cup {BottomOfThePoll}
  /\ UNCHANGED <<votingPreferences, balances, phase, winner>>

\* What the next count clears.
EndCount ==
  /\ phase = "elected"
  /\ phase' = "open" /\ ballots' = NoBallots /\ eliminated' = {} /\ winner' = Unspendable
  /\ UNCHANGED <<votingPreferences, balances>>

Next ==
  \/ \E v \in Voters, c \in Candidates, a \in Amounts : Vote(v, c, a)
  \/ \E v \in Voters, amount \in Balances : ChangeBalance(v, amount)
  \/ StartCount \/ ElectNobody \/ ElectTop \/ EliminateBottom \/ EndCount

Spec == Init /\ [][Next]_vars

-----------------------------------------------------------------------------
(* Properties *)

Votes == UNION {[A -> Candidates] : A \in SUBSET Amounts}

TypeOK ==
  /\ votingPreferences \in [Voters -> Votes] /\ balances \in [Voters -> Balances]
  /\ phase \in {"open", "counting", "elected"}
  /\ DOMAIN ballots \subseteq Counted
  /\ \A v \in DOMAIN ballots : ballots[v] \in Votes \ {NoVotes}
  /\ eliminated \subseteq Candidates /\ winner \in Candidates \cup {Unspendable}

\* No voter holds the same candidate under two amounts.
NoRepeats == \A v \in Counted : IsInjective(votingPreferences[v])

Listed == UNION {Range(votingPreferences[v]) : v \in Counted}

\* main.cpp 5786-5788, 5920: the loop of a count ends, since every elimination takes
\* a preference off some ballot and adds none.
Entries(b) == UNION {{<<v, a, b[v][a]>> : a \in DOMAIN b[v]} : v \in DOMAIN b}
CountAdvances ==
  [][phase = "counting" =>
       \/ phase' = "elected"
       \/ Entries(ballots') \subseteq Entries(ballots) /\ Entries(ballots') # Entries(ballots)]_vars

\* main.cpp 5926: without repeated candidates the ballots of a count are the
\* preferences cast, less the candidates eliminated.
BallotsOfStanding ==
  phase = "counting" /\ NoRepeats =>
    LET Left(v) == {a \in DOMAIN votingPreferences[v] : votingPreferences[v][a] \notin eliminated}
    IN ballots = [v \in {w \in Counted : Left(w) # {}} |-> Restrict(votingPreferences[v], Left(v))]

\* main.cpp 5773, 5858, 5879: if voters with more than half of the balances rank
\* the candidates of S before all others, one of S is elected.
RanksFirst(v, S) ==
  LET votes == votingPreferences[v]
      ofS == {a \in DOMAIN votes : votes[a] \in S}
  IN /\ Range(Restrict(votes, ofS)) = S
     /\ \A a \in ofS, b \in DOMAIN votes \ ofS : a < b
MajorityPrevails ==
  phase = "elected" /\ NoRepeats =>
    \A S \in (SUBSET Listed) \ {{}} :
      2 * BalanceOf({v \in Counted : RanksFirst(v, S)}) > BalanceOf(Counted) => winner \in S

\* main.cpp 5829, 5879: a candidate who loses to every other in a vote between the
\* two is not elected.
Prefers(v, c, d) ==
  LET votes == votingPreferences[v]
  IN \E a \in DOMAIN votes : votes[a] = c /\ \A b \in DOMAIN votes : votes[b] = d => a < b
LosesTo(c, d) == BalanceOf({v \in Counted : Prefers(v, c, d)})
                   < BalanceOf({v \in Counted : Prefers(v, d, c)})
LoserIsNotElected ==
  phase = "elected" /\ NoRepeats =>
    ~ (Listed # {winner} /\ Listed # {} /\ \A d \in Listed \ {winner} : LosesTo(winner, d))

-----------------------------------------------------------------------------
\* main.cpp 5926 "Remove candidate from all ballots - note the candidate may be way
\* down the preference list": a candidate once eliminated is not elected.
EliminatedIsNotElected == phase = "elected" => winner \notin eliminated

=============================================================================
