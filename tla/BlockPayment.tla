--------------------------- MODULE BlockPayment ---------------------------
(***************************************************************************)
(* The share book of the mining pool: BlockPayment::Nodes::Block (one      *)
(* payment round) and BlockPayment::Queue (the rounds waiting to be        *)
(* credited), as operators on records and sequences.                       *)
(*                                                                         *)
(* A round keeps, per user, the shares earned and the amount last          *)
(* computed for them.  The code keeps the users in a linked list sorted by *)
(* name; here that list is the pair of functions "shares" and "pay": a     *)
(* user is in the list iff his shares are not 0, and users are numbers in  *)
(* the order of their names.                                               *)
(*                                                                         *)
(* Two fields are not in the code and are never read by an operator that   *)
(* models it: "id" numbers the Block objects in the order newBlock made    *)
(* them, and "block" is the true chain height of the block the round found *)
(* (0 for the open round).  Both follow the object through its files.      *)
(***************************************************************************)
EXTENDS Integers, Sequences, FiniteSets, FiniteSetsExt, SequencesExt

CONSTANTS Users,        \* payout addresses of the miners, as numbers
          FeePercent,   \* the pool's FEE, in hundredths
          SaveGrain     \* a saved XPM is rounded to a multiple of this

ASSUME FeeAssumption == FeePercent \in 0..100 /\ SaveGrain \in Nat \ {0}
ASSUME NamesOrder == Users \subseteq Nat \ {0}

MIN_CHAIN_LENGTH == 6
MAX_CHAIN_LENGTH == 10
CHAIN_VALUES == <<1, 15, 170, 1900, 21000>>

\* Shares a chain of the given length is worth.
calcShares(chainlength) ==
  IF chainlength < MIN_CHAIN_LENGTH THEN 0
  ELSE CHAIN_VALUES[Min({chainlength, MAX_CHAIN_LENGTH}) - MIN_CHAIN_LENGTH + 1]

Nobody == [u \in Users |-> 0]

\* A freshly constructed Block.
NewRound(id, height) ==
  [id |-> id, height |-> height, xpm |-> 0, calculated |-> FALSE,
   shares |-> Nobody, pay |-> Nobody, block |-> 0]

\* Block::runningtotal, which every path keeps equal to the list's shares.
RunningTotal(r) == SumFunction(r.shares)

UserList(r) == {u \in Users : r.shares[u] > 0}

\* Mutation: a known user's shares are overwritten.
RoundAddSharesReplacing(r, u, chainlength) ==
  IF chainlength < MIN_CHAIN_LENGTH THEN r
  ELSE [r EXCEPT !.calculated = FALSE, !.shares[u] = calcShares(chainlength)]

RoundAddShares(r, u, chainlength) ==
  IF chainlength < MIN_CHAIN_LENGTH THEN r
  ELSE [r EXCEPT !.calculated = FALSE,
                 !.shares[u] = @ + calcShares(chainlength)]

SetXPM(r, newxpm) == [r EXCEPT !.xpm = newxpm, !.calculated = FALSE]

\* What calculateXPMPerUser stores for a user: his part of the reward, less the fee.
Portion(xpm, shares, total) == (xpm * shares * (100 - FeePercent)) \div (total * 100)

\* calculateXPMPerUser when no other thread changes the round meanwhile.
calculateXPMPerUser(r) ==
  IF UserList(r) = {} THEN r
  ELSE [r EXCEPT !.pay = [u \in Users |-> IF r.shares[u] = 0 THEN 0
                                         ELSE Portion(r.xpm, r.shares[u], RunningTotal(r))],
                 !.calculated = TRUE]

\* The users of the list after user u, 0 being its start.
UsersAfter(r, u) == {v \in UserList(r) : u < v}

\* A Block that Block::save and then Block::load bring back: the reward goes
\* through an ostream at its default precision, the per-user amounts are not saved.
SavedRound(r) ==
  [r EXCEPT !.xpm = ((@ + SaveGrain \div 2) \div SaveGrain) * SaveGrain,
            !.calculated = FALSE, !.pay = Nobody]

\* Block::save opens no file for a round without users.
IsSaved(r) == UserList(r) # {}

-----------------------------------------------------------------------------
\* The queue: its head h is q[1], its rear r is Last(q).

NeedsCalculation(r) == ~r.calculated /\ r.xpm # 0

calculateAllXPM(q) ==
  [i \in DOMAIN q |-> IF NeedsCalculation(q[i]) THEN calculateXPMPerUser(q[i]) ELSE q[i]]

\* addShares, setHeight, setXPM and save (with current = true) go through r and do
\* nothing to an empty queue.
addShares(q, u, chainlength) ==
  IF q = <<>> THEN q ELSE [q EXCEPT ![Len(q)] = RoundAddShares(@, u, chainlength)]

\* The rear found a block of true height block and is labelled with height and newxpm.
setFound(q, height, newxpm, block) ==
  IF q = <<>> THEN q
  ELSE [q EXCEPT ![Len(q)] = SetXPM([@ EXCEPT !.height = height, !.block = block], newxpm)]

SavesCurrent(q) == q # <<>> /\ IsSaved(Last(q))

newBlock(q, id, height) == Append(q, NewRound(id, height))

\* What deq leaves of the queue; the caller has looked at the head.
deq(q) == Tail(q)

\* A 1 with as many zeros as n has decimal digits.
PowerAbove[n \in Nat] == IF n < 10 THEN 10 ELSE 10 * PowerAbove[n \div 10]

\* File names as std::sort orders them.  Decimal heights compare character by
\* character, so as the fractions 0.m and 0.n do, and a prefix comes before what it
\* is the prefix of; "current" (here 0, which names no height) comes after them all.
NameBefore(m, n) ==
  LET mine == m * PowerAbove[n]  other == n * PowerAbove[m]
  IN m # 0 /\ (n = 0 \/ mine < other \/ (mine = other /\ m < n))

\* The queue StartPool builds with one loadNewBlock per file of the blocks directory.
LoadedQueue(files, content) ==
  LET Earlier(f) == {g \in files : NameBefore(g, f)}
      Name(i)    == CHOOSE f \in files : Cardinality(Earlier(f)) = i - 1
  IN [i \in 1..Cardinality(files) |-> content[Name(i)]]
=============================================================================
