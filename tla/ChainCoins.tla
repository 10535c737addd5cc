----------------------------- MODULE ChainCoins -----------------------------
(***************************************************************************)
(* Blocks, transactions and the coins they create and spend: what          *)
(* ConnectBlock and DisconnectBlock (main.cpp) do to a coin view.          *)
(*                                                                         *)
(* The block tree is given: Base is the block the node starts from, with   *)
(* the coins of its chain.  A coinbase has the name of its block.  Amounts, *)
(* scripts and the rules that look at one block or transaction by itself   *)
(* hold for every block and transaction of the tree; what depends on the   *)
(* chain (which coins there are, and their age) is decided here.           *)
(***************************************************************************)
EXTENDS Integers, FiniteSets, SequencesExt

CONSTANTS Blocks, Base,       \* the tree, and its root
          Parent,             \* hashPrevBlock, of the blocks other than Base
          BlockWork,          \* GetBlockWork, by block
          BaseTxs,            \* the transactions of Base's chain that have something left
          Txs,                \* later transactions that are no coinbases
          Vin,                \* the outpoints a transaction spends: <<hash, n>>, in order
          Vout,               \* the set of its outputs' numbers, by transaction or block
          Vtx,                \* the transactions of a block, without its coinbase
          BaseCoins,          \* the coins of Base's chain: BaseTxs -> coins
          COINBASE_MATURITY

TxIds == BaseTxs \cup Txs \cup Blocks

\* A set that holds Base, and a block whenever it holds the one before it.
HoldsSuccessors(S) == Base \in S /\ \A b \in Blocks \ {Base} : Parent[b] \in S => b \in S

\* The blocks are a finite tree: every one descends from Base.
ASSUME TreeAssumption ==
  /\ IsFiniteSet(Blocks) /\ Base \in Blocks
  /\ Parent \in [Blocks \ {Base} -> Blocks]
  /\ \A S \in SUBSET Blocks : HoldsSuccessors(S) => S = Blocks
  /\ BlockWork \in [Blocks -> Nat \ {0}]

\* What CheckTransaction asks of a transaction: it has inputs, all different, and outputs.
\* Those of Base's chain are the ones with something left.
ASSUME CoinsAssumption ==
  /\ Blocks \cap Txs = {} /\ BaseTxs \cap (Blocks \cup Txs) = {}
  /\ Vtx \in [Blocks -> Seq(Txs)] /\ Vtx[Base] = <<>>
  /\ Vin \in [Txs -> Seq(TxIds \X Nat)]
  /\ \A t \in Txs : Vin[t] # <<>> /\ IsInjective(Vin[t])
  /\ Vout \in [TxIds -> (SUBSET Nat) \ {{}}]
  /\ BaseCoins \in [BaseTxs -> [nHeight : Nat \ {0}, out : (SUBSET Nat) \ {{}}]]
  /\ COINBASE_MATURITY \in Nat \ {0}

AllTxs(b) == <<b>> \o Vtx[b]

nHeight[b \in Blocks] == IF b = Base THEN 1 ELSE nHeight[Parent[b]] + 1
nChainWork[b \in Blocks] == IF b = Base THEN 0 ELSE nChainWork[Parent[b]] + BlockWork[b]

\* A block and its ancestors.
Chain[b \in Blocks] == IF b = Base THEN {b} ELSE Chain[Parent[b]] \cup {b}

-----------------------------------------------------------------------------
(* Coins of one transaction *)

\* No entry, an entry with nothing left (only a cache holds one), the outputs of a transaction.
NoCoins == [nHeight |-> -1, out |-> {}]
Pruned == [nHeight |-> 0, out |-> {}]
CCoins(t, height) == [nHeight |-> height, out |-> Vout[t]]

Coins == [nHeight : Int, out : SUBSET Nat]
Views == [TxIds -> Coins]

HaveCoins(view, t) == view[t] # NoCoins
IsPruned(coins) == coins.out = {}

\* An undo entry is the height of the transaction when this was its last output, and else 0.
Undo(view, o) == IF view[o[1]].out = {o[2]} THEN view[o[1]].nHeight ELSE 0

Spend(view, o) ==
  LET left == view[o[1]].out \ {o[2]}
  IN [view EXCEPT ![o[1]] = IF left = {} THEN Pruned ELSE [@ EXCEPT !.out = left]]

-----------------------------------------------------------------------------
(* Transactions and blocks on a view *)

HaveInputs(view, t) == \A o \in ToSet(Vin[t]) : o[2] \in view[o[1]].out

\* What CheckInputs asks beyond scripts and amounts.
CheckInputs(view, t, nSpendHeight) ==
  /\ HaveInputs(view, t)
  /\ \A o \in ToSet(Vin[t]) :
       o[1] \in Blocks => nSpendHeight - view[o[1]].nHeight >= COINBASE_MATURITY

\* Mutation: all inputs are looked at before any is spent.
TxUndoAtOnce(view, t) == [i \in DOMAIN Vin[t] |-> Undo(view, Vin[t][i])]

TxUndo(view, t) ==
  [i \in DOMAIN Vin[t] |-> Undo(FoldLeft(Spend, view, SubSeq(Vin[t], 1, i - 1)), Vin[t][i])]

UpdateCoins(view, t, height) ==
  [FoldLeft(Spend, view, Vin[t]) EXCEPT ![t] = CCoins(t, height)]

\* One transaction of ConnectBlock's loop; done is [ok, view, undo], undo without the coinbase.
ConnectTx(done, t, height) ==
  IF ~done.ok THEN done
  ELSE IF t \in Blocks
  THEN [done EXCEPT !.view = [@ EXCEPT ![t] = CCoins(t, height)]]
  ELSE IF CheckInputs(done.view, t, height)
  THEN [done EXCEPT !.view = UpdateCoins(@, t, height), !.undo = Append(@, TxUndo(done.view, t))]
  ELSE [done EXCEPT !.ok = FALSE]

\* No transaction may overwrite one that has something left (BIP30).
ConnectBlock(view, b) ==
  LET overwrites == \E t \in ToSet(AllTxs(b)) : ~IsPruned(view[t])
      Step(done, t) == ConnectTx(done, t, nHeight[b])
  IN FoldLeft(Step, [ok |-> ~overwrites, view |-> view, undo |-> <<>>], AllTxs(b))

\* One input put back; done is [clean, view].
RestoreInput(done, o, undo) ==
  LET coins == IF undo # 0 THEN [nHeight |-> undo, out |-> {}] ELSE done.view[o[1]]
  IN [clean |-> /\ done.clean
                /\ IsPruned(done.view[o[1]]) <=> (undo # 0)
                /\ o[2] \notin coins.out,
      view |-> [done.view EXCEPT ![o[1]] = [coins EXCEPT !.out = @ \cup {o[2]}]]]

\* The outputs of a transaction go first, then its inputs come back, the last one first.
DisconnectTx(done, t, height, txundo) ==
  LET removed == [clean |-> done.clean /\ done.view[t] = CCoins(t, height),
                  view |-> [done.view EXCEPT ![t] = Pruned]]
      Back(sofar, i) == RestoreInput(sofar, Vin[t][i], txundo[i])
  IN IF t \in Blocks THEN removed
     ELSE FoldLeft(Back, removed, Reverse([i \in DOMAIN Vin[t] |-> i]))

DisconnectBlock(view, b, undo) ==
  LET Step(done, i) == DisconnectTx(done, AllTxs(b)[i], nHeight[b],
                                    IF i = 1 THEN <<>> ELSE undo[i - 1])
  IN FoldLeft(Step, [clean |-> TRUE, view |-> view],
              Reverse([i \in DOMAIN AllTxs(b) |-> i]))

-----------------------------------------------------------------------------
(* What the coins of a chain are, by definition *)

InChain(t, b) == IF t \in Blocks THEN t \in Chain[b] \ {Base}
                 ELSE \E c \in Chain[b] : t \in ToSet(Vtx[c])

SpentInChain(o, b) == \E c \in Chain[b] : \E t \in ToSet(Vtx[c]) : o \in ToSet(Vin[t])

HeightInChain(t, b) == IF t \in Blocks THEN nHeight[t]
                       ELSE nHeight[CHOOSE c \in Chain[b] : t \in ToSet(Vtx[c])]

\* Every output of the chain that no transaction of the chain spends.
Unspent[b \in Blocks] ==
  [t \in TxIds |->
     LET made == IF InChain(t, b) THEN CCoins(t, HeightInChain(t, b))
                 ELSE IF t \in BaseTxs THEN BaseCoins[t] ELSE NoCoins
         left == {n \in made.out : ~SpentInChain(<<t, n>>, b)}
     IN IF left = {} THEN NoCoins ELSE [made EXCEPT !.out = left]]

\* The transactions of the chain of b that come before the i-th of block c of it.
Before(c, i) == {t \in Txs : \/ c # Base /\ InChain(t, Parent[c])
                             \/ \E j \in 1..(i - 1) : Vtx[c][j] = t}

\* The i-th transaction of c spends what was made before it on its chain, and not spent, by
\* coinbases that are old enough.
ValidTx(c, i) ==
  LET t == Vtx[c][i] IN
  /\ t \notin Before(c, i)
  /\ \A o \in ToSet(Vin[t]) :
       /\ \A u \in Before(c, i) : o \notin ToSet(Vin[u])
       /\ \/ o[1] \in Before(c, i) /\ o[2] \in Vout[o[1]]
          \/ o[1] \in BaseTxs /\ o[2] \in BaseCoins[o[1]].out
          \/ /\ o[1] \in Chain[Parent[c]] \ {Base} /\ o[2] \in Vout[o[1]]
             /\ nHeight[c] - nHeight[o[1]] >= COINBASE_MATURITY

ValidChain[b \in Blocks] ==
  \A c \in Chain[b] \ {Base} : \A i \in DOMAIN Vtx[c] : ValidTx(c, i)
=============================================================================
