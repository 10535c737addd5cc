------------------------------- MODULE TxPool -------------------------------
(***************************************************************************)
(* The memory pool (CTxMemPool in main.cpp) as operators on a record of    *)
(* its two maps, and the holding area of transactions whose inputs are not *)
(* known yet.  All of it is used under cs_main.                            *)
(***************************************************************************)
EXTENDS ChainCoins, FiniteSets, Functions

NoPool == [mapTx |-> {}, mapNextTx |-> <<>>]

\* A pool transaction's outputs, for the transactions that spend them.
MEMPOOL_HEIGHT == 20

\* The view of accept: the chain's coins first, then those of the pool, spent there or not.
PoolView(pool, view) ==
  [t \in TxIds |-> IF HaveCoins(view, t) \/ t \notin pool.mapTx THEN view[t]
                   ELSE CCoins(t, MEMPOOL_HEIGHT)]

addUnchecked(pool, t) ==
  [mapTx |-> pool.mapTx \cup {t},
   mapNextTx |-> [o \in DOMAIN pool.mapNextTx \cup ToSet(Vin[t]) |->
                    IF o \in ToSet(Vin[t]) THEN t ELSE pool.mapNextTx[o]]]

\* Replacement of a transaction of the pool is disabled.
HasConflict(pool, t) == ToSet(Vin[t]) \cap DOMAIN pool.mapNextTx # {}

\* Is it refused because an input is not known (rather than for another reason)?
MissingInputs(pool, view, t) ==
  /\ t \notin pool.mapTx /\ ~HasConflict(pool, t)
  /\ ~HaveCoins(view, t)
  /\ \E o \in ToSet(Vin[t]) : ~HaveCoins(PoolView(pool, view), o[1])

\* Fees and standardness are not modelled: any transaction may also be refused for them.
Acceptable(pool, view, tip, t) ==
  /\ t \notin pool.mapTx /\ ~HasConflict(pool, t)
  /\ ~HaveCoins(view, t)
  /\ CheckInputs(PoolView(pool, view), t, nHeight[tip] + 1)

\* A transaction and those of the pool that spend its outputs.
Dependent(pool, t) ==
  {t} \cup {pool.mapNextTx[o] : o \in DOMAIN pool.mapNextTx \cap {<<t, n>> : n \in Vout[t]}}

\* With those that spend theirs, and so on.
Descendants(pool, t) ==
  LET Closed(S) == \A s \in S : Dependent(pool, s) \subseteq S
  IN {u \in Txs : \A S \in SUBSET Txs : t \in S /\ Closed(S) => u \in S}

removeAll(pool, S) ==
  LET gone == UNION {ToSet(Vin[t]) : t \in S \cap pool.mapTx}
  IN [mapTx |-> pool.mapTx \ S,
      mapNextTx |-> Restrict(pool.mapNextTx, DOMAIN pool.mapNextTx \ gone)]

remove(pool, t) == removeAll(pool, {t})
removeRecursive(pool, t) == removeAll(pool, Descendants(pool, t))

\* Mutation: the conflict goes, what spends it stays.
removeConflictsOnly(pool, t) ==
  LET Conflict(p, o) == IF o \in DOMAIN p.mapNextTx /\ p.mapNextTx[o] # t
                        THEN remove(p, p.mapNextTx[o]) ELSE p
  IN FoldLeft(Conflict, pool, Vin[t])

removeConflicts(pool, t) ==
  LET Conflict(p, o) == IF o \in DOMAIN p.mapNextTx /\ p.mapNextTx[o] # t
                        THEN removeRecursive(p, p.mapNextTx[o]) ELSE p
  IN FoldLeft(Conflict, pool, Vin[t])

\* A transaction of a disconnected block comes back, or what depends on it goes.
Resurrect(pool, view, tip, t) ==
  IF Acceptable(pool, view, tip, t) THEN addUnchecked(pool, t) ELSE removeRecursive(pool, t)

\* A transaction of a connected block leaves the pool, with what it rules out.
Confirm(pool, t) == removeConflicts(remove(pool, t), t)
=============================================================================
