---------------------------- MODULE PoolAccounts ----------------------------
(***************************************************************************)
(* What the pool promises its miners, without threads, locks and files:    *)
(* every share told accepted is in the open round until a block closes it; *)
(* closed rounds are credited once each, in the order they were closed, to *)
(* users who earned shares in them; what was credited stays in a user's    *)
(* balance until the whole of it is paid to him.  Nothing is promised once the process has crashed:   *)
(* what survives is said by properties of PoolLedger.                      *)
(***************************************************************************)
EXTENDS Integers, Sequences

CONSTANTS Users,
          ShareValues,   \* what a share can be worth
          MIN_PAYOUT

VARIABLES
  live,      \* the process has not crashed
  accepted,  \* per user, the shares he was told were accepted
  open,      \* per user, his shares in the open round
  closed,    \* the rounds closed and not credited, oldest first
  balance,   \* per user
  paid       \* per user

vars == <<live, accepted, open, closed, balance, paid>>

Nobody == [u \in Users |-> 0]

Init ==
  /\ live = TRUE
  /\ accepted = Nobody /\ open = Nobody /\ closed = <<>>
  /\ balance = Nobody /\ paid = Nobody

Submit(u, value) ==
  /\ accepted' = [accepted EXCEPT ![u] = @ + value]
  /\ open' = [open EXCEPT ![u] = @ + value]
  /\ UNCHANGED <<closed, balance, paid>>

\* The share that solves a block is the last of its round.
Close(u, value) ==
  /\ accepted' = [accepted EXCEPT ![u] = @ + value]
  /\ closed' = Append(closed, [open EXCEPT ![u] = @ + value])
  /\ open' = Nobody
  /\ UNCHANGED <<balance, paid>>

Credit ==
  LET amount == [u \in Users |-> balance'[u] - balance[u]]
  IN /\ closed # <<>> /\ closed' = Tail(closed)
     /\ balance' \in [Users -> Nat]
     /\ \A u \in Users : amount[u] >= 0 /\ (Head(closed)[u] = 0 => amount[u] = 0)
     /\ UNCHANGED <<accepted, open, paid>>

Pay(S) ==
  /\ \A u \in S : balance[u] >= MIN_PAYOUT
  /\ paid' = [u \in Users |-> IF u \in S THEN paid[u] + balance[u] ELSE paid[u]]
  /\ balance' = [u \in Users |-> IF u \in S THEN 0 ELSE balance[u]]
  /\ UNCHANGED <<accepted, open, closed>>

Step ==
  \/ \E u \in Users, value \in ShareValues : Submit(u, value) \/ Close(u, value)
  \/ Credit
  \/ \E S \in SUBSET Users : Pay(S)

Next == \/ live /\ live' /\ Step
        \/ ~live'

Spec == Init /\ [][Next]_vars
=============================================================================
