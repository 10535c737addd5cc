----------------------------- MODULE ChainState -----------------------------
(***************************************************************************)
(* The chain state of main.cpp: blocks arrive in any order, are written to *)
(* disk and to the block index, and the node moves to the chain with the   *)
(* most work, in a view of the coins that replaces the previous one only   *)
(* when every block of the new branch connects; the memory pool follows.   *)
(* The machine may stop anywhere and start again from what is on disk.     *)
(*                                                                         *)
(* Everything happens under cs_main.  The steps are those between which    *)
(* something durable is written.  Of each file and database there is what  *)
(* the program has written, and (disk) what the machine has put on disk.   *)
(***************************************************************************)
EXTENDS TxPool, FiniteSetsExt

CONSTANTS NoBlock,
          Hash,               \* Blocks -> Nat: the order of block hashes
          InitialDownload,    \* what IsInitialBlockDownload may answer
          MaxOrphanTxs,       \* MAX_ORPHAN_TRANSACTIONS
          LossInDownload,     \* may the power fail while something is left unsynced?
          MaxStops            \* how often the node may be stopped, or a write fail

ASSUME StateAssumption ==
  /\ NoBlock \notin Blocks
  /\ Hash \in [Blocks -> Nat] /\ \A a, b \in Blocks : Hash[a] = Hash[b] => a = b
  /\ InitialDownload \subseteq BOOLEAN /\ LossInDownload \in BOOLEAN
  /\ MaxOrphanTxs \in Nat /\ MaxStops \in Nat

VARIABLES
  index,       \* mapBlockIndex and its database: the status of each known block
  setBlockIndexValid,
  pindexBest,
  files,       \* blk and rev files: the blocks, and the undo data of those connected once
  coinsTip,    \* pcoinsTip: its cache, and its best block
  coinsDB,     \* the coin database
  disk,        \* what a power loss leaves of index, files and coinsDB
  pc,          \* where the thread that holds cs_main is
  accepting,   \* the block in AcceptBlock
  vAttach,     \* what ConnectBestBlock still has to pass to SetBestChain
  vWorkQueue,  \* accepted blocks whose orphans are still to be looked at
  mapOrphanBlocks,
  pool,        \* mempool
  mapOrphanTransactions,
  stops,       \* bookkeeping: how often the node has been stopped, or a write has failed
  unsynced     \* bookkeeping: has the download, or a failure, left something unsynced?

durable == <<files, coinsDB, disk>>
poolVars == <<pool, mapOrphanTransactions>>
queueVars == <<vWorkQueue, mapOrphanBlocks>>
count == <<stops, unsynced>>
vars == <<index, setBlockIndexValid, pindexBest, coinsTip, durable, pc, accepting, vAttach,
          queueVars, poolVars, count>>

\* nStatus: is there undo data, and did validation fail, of the block or of one before it?
Status == [undo : BOOLEAN, failed : {"no", "valid", "child"}]
NewStatus == [undo |-> FALSE, failed |-> "no"]

NoCache == [t \in {} |-> NoCoins]
Known == DOMAIN index

Init ==
  /\ index = [b \in {Base} |-> [NewStatus EXCEPT !.undo = TRUE]]
  /\ setBlockIndexValid = {Base}
  /\ pindexBest = Base
  /\ files = [data |-> {Base}, undo |-> [b \in {Base} |-> <<>>]]
  /\ coinsDB = [view |-> [t \in TxIds |-> IF t \in BaseTxs THEN BaseCoins[t] ELSE NoCoins],
                best |-> Base]
  /\ coinsTip = [cache |-> NoCache, best |-> Base]
  /\ disk = [index |-> index, files |-> files, coinsDB |-> coinsDB]
  /\ pc = "idle" /\ accepting = NoBlock /\ vAttach = <<>>
  /\ vWorkQueue = <<>> /\ mapOrphanBlocks = {}
  /\ pool = NoPool /\ mapOrphanTransactions = {}
  /\ stops = 0 /\ unsynced = FALSE

-----------------------------------------------------------------------------
(* What reaches the disk *)

\* The choices below only matter when the power may fail before the next sync.
MayLose(fIBD) == stops < MaxStops /\ (LossInDownload \/ ~(unsynced \/ fIBD))

\* The index is written in order, and its end may wait: how it may be on disk after the
\* updates of log, a sequence of its versions.
IndexOnDisk(log, fIBD) == IF MayLose(fIBD) THEN {disk.index} \cup ToSet(log) ELSE {Last(log)}

\* A file is committed after a write, except during the initial download.
FilesOnDisk(to, fIBD) == IF fIBD /\ MayLose(fIBD) THEN {disk.files, to} ELSE {to}

\* The batch of coins is not synced either.
CoinsOnDisk(db) == IF MayLose(FALSE) THEN {disk.coinsDB, db} ELSE {db}

-----------------------------------------------------------------------------
(* AcceptBlock and AddToBlockIndex, up to ConnectBestBlock *)

AcceptBlock(b, fIBD) ==
  LET withBlock == [files EXCEPT !.data = @ \cup {b}]
      withEntry == [c \in Known \cup {b} |-> IF c = b THEN NewStatus ELSE index[c]]
  IN /\ files' = withBlock
     /\ index' = withEntry
     /\ setBlockIndexValid' = setBlockIndexValid \cup {b}
     /\ \E i \in IndexOnDisk(<<withEntry>>, fIBD), f \in FilesOnDisk(withBlock, fIBD) :
          disk' = [disk EXCEPT !.index = i, !.files = f]
     /\ unsynced' = (unsynced \/ fIBD)
     /\ accepting' = b
     /\ pc' = "connect"
     /\ UNCHANGED <<pindexBest, coinsTip, coinsDB, vAttach, poolVars, stops>>

-----------------------------------------------------------------------------
(* ProcessBlock *)

\* A block from a peer whose predecessor is known.
ReceiveBlock(b) ==
  /\ pc = "idle"
  /\ b \notin Known \cup mapOrphanBlocks /\ Parent[b] \in Known
  /\ \E fIBD \in InitialDownload : AcceptBlock(b, fIBD)
  /\ UNCHANGED queueVars

\* One whose predecessor is not.
ReceiveOrphanBlock(b) ==
  /\ pc = "idle"
  /\ b \notin Known \cup mapOrphanBlocks /\ Parent[b] \notin Known
  /\ mapOrphanBlocks' = mapOrphanBlocks \cup {b}
  /\ UNCHANGED <<index, setBlockIndexValid, pindexBest, coinsTip, durable, pc, accepting, vAttach,
                 vWorkQueue, poolVars, count>>

\* One that is already there, or already waiting.
ReceiveKnownBlock(b) ==
  /\ pc = "idle" /\ b \in Known \cup mapOrphanBlocks
  /\ UNCHANGED vars

\* Mutation: an orphan that is not valid ends the work.
WorkQueueAfterEnds(fOk) == IF fOk THEN Append(vWorkQueue, accepting) ELSE <<>>

WorkQueueAfter(fOk) == IF fOk THEN Append(vWorkQueue, accepting) ELSE vWorkQueue

\* ConnectBestBlock has returned: to AcceptBlock, or to the start of the program.
Return(fOk) ==
  /\ vAttach' = <<>>
  /\ accepting' = NoBlock
  /\ IF accepting = NoBlock
     THEN /\ pc' = IF fOk THEN "idle" ELSE "stopping"
          /\ UNCHANGED vWorkQueue
     ELSE /\ pc' = "orphans"
          /\ vWorkQueue' = WorkQueueAfter(fOk)
  /\ UNCHANGED mapOrphanBlocks

OrphansLeft == {b \in mapOrphanBlocks : vWorkQueue # <<>> /\ Parent[b] = Head(vWorkQueue)}

\* An orphan leaves the holding area whether it is accepted or not.
AcceptOrphanBlock(b) ==
  /\ pc = "orphans" /\ b \in OrphansLeft
  /\ \E fIBD \in InitialDownload : AcceptBlock(b, fIBD)
  /\ mapOrphanBlocks' = mapOrphanBlocks \ {b}
  /\ UNCHANGED vWorkQueue

NextInWorkQueue ==
  /\ pc = "orphans" /\ OrphansLeft = {}
  /\ IF vWorkQueue = <<>>
     THEN pc' = "idle" /\ UNCHANGED vWorkQueue
     ELSE vWorkQueue' = Tail(vWorkQueue) /\ UNCHANGED pc
  /\ UNCHANGED <<index, setBlockIndexValid, pindexBest, coinsTip, durable, accepting, vAttach,
                 mapOrphanBlocks, poolVars, count>>

-----------------------------------------------------------------------------
(* ConnectBestBlock *)

\* CBlockIndexWorkComparator
Below(a, b) == \/ nChainWork[a] < nChainWork[b]
               \/ nChainWork[a] = nChainWork[b] /\ Hash[a] > Hash[b]

Candidate == CHOOSE b \in setBlockIndexValid : \A c \in setBlockIndexValid \ {b} : Below(c, b)

\* pnext is set from the blocks of the best chain but the last.
HasNext(b) == b \in Chain[pindexBest] \ {pindexBest} \/ b = Base

\* The blocks looked at from b down to the best chain.
Walk(b) == {c \in Chain[b] : \A d \in Chain[b] : HasNext(d) => nHeight[d] <= nHeight[c]}

\* The best block has as much work as any candidate.
NothingBetter == Candidate = pindexBest \/ nChainWork[Candidate] = nChainWork[pindexBest]

\* Mutation: only the candidate itself is looked at.
FailedBelowSelf(b) == {c \in {b} : index[c].failed # "no"}

FailedBelow(b) == {c \in Walk(b) : index[c].failed # "no"}

ConnectBestDone ==
  /\ pc = "connect" /\ NothingBetter
  /\ Return(TRUE)
  /\ UNCHANGED <<index, setBlockIndexValid, pindexBest, coinsTip, durable, poolVars, count>>

\* The index with the blocks of Candidate's chain above height h marked.
After(h) == {c \in Chain[Candidate] : nHeight[c] > h}
MarkedAbove(h) == [c \in Known |-> IF c \in After(h) THEN [index[c] EXCEPT !.failed = "child"]
                                   ELSE index[c]]

\* The blocks after the last failed one are marked, from the candidate downwards, and the
\* next candidate is looked for.
MarkDescendantsFailed ==
  LET failed == CHOOSE c \in FailedBelow(Candidate) :
                  \A d \in FailedBelow(Candidate) : nHeight[d] <= nHeight[c]
      top == nHeight[Candidate]
      low == nHeight[failed]
  IN /\ pc = "connect" /\ ~NothingBetter /\ FailedBelow(Candidate) # {}
     /\ index' = MarkedAbove(low)
     /\ setBlockIndexValid' = setBlockIndexValid \ After(low)
     /\ \E i \in IndexOnDisk([k \in 1..(top - low) |-> MarkedAbove(top - k)], FALSE) :
          disk' = [disk EXCEPT !.index = i]
     /\ UNCHANGED <<pindexBest, coinsTip, files, coinsDB, pc, accepting, vAttach, queueVars,
                    poolVars, count>>

\* Mutation: blocks with as much work as the best are passed on too.
ToAttachEqual(b) == {c \in Walk(b) : nChainWork[c] >= nChainWork[pindexBest]}

ToAttach(b) == {c \in Walk(b) : nChainWork[c] > nChainWork[pindexBest]}

\* The lower ones of S, a part of a chain.
LowerThan(S, b) == {c \in S : nHeight[c] < nHeight[b]}

\* The lowest first: the i-th has i - 1 that are lower.
ByHeight(S) ==
  [i \in 1..Cardinality(S) |-> CHOOSE b \in S : Cardinality(LowerThan(S, b)) = i - 1]

ConnectBestStart ==
  /\ pc = "connect" /\ ~NothingBetter /\ FailedBelow(Candidate) = {}
  /\ vAttach' = ByHeight(ToAttach(Candidate))
  /\ pc' = "set"
  /\ UNCHANGED <<index, setBlockIndexValid, pindexBest, coinsTip, durable, accepting, queueVars,
                 poolVars, count>>

-----------------------------------------------------------------------------
(* SetBestChain *)

TipView == [t \in TxIds |-> IF t \in DOMAIN coinsTip.cache THEN coinsTip.cache[t]
                            ELSE coinsDB.view[t]]

vDisconnect(new) == Reverse(ByHeight(Chain[coinsTip.best] \ Chain[new]))
vConnect(new) == ByHeight(Chain[new] \ Chain[coinsTip.best])

\* What is read: a block that is not there shuts the node down; undo data that is not
\* there, or does not fit, is an error that leaves everything as it is.
Disconnected(new) ==
  LET Step(done, b) ==
        LET one == DisconnectBlock(done.view, b, files.undo[b])
        IN IF done.stop # "no" THEN done
           ELSE IF b \notin files.data THEN [done EXCEPT !.stop = "abort"]
           ELSE IF ~index[b].undo \/ b \notin DOMAIN files.undo \/ ~one.clean
           THEN [done EXCEPT !.stop = "error"]
           ELSE [done EXCEPT !.view = one.view]
  IN FoldLeft(Step, [stop |-> "no", view |-> TipView], vDisconnect(new))

\* The blocks connected one after the other, up to one that cannot be read or is not valid.
Connected(new) ==
  LET Step(done, b) ==
        LET one == ConnectBlock(done.view, b)
        IN IF done.stop # "no" THEN done
           ELSE IF b \notin files.data THEN [done EXCEPT !.stop = "abort"]
           ELSE IF ~one.ok THEN [done EXCEPT !.stop = "invalid"]
           ELSE [done EXCEPT !.view = one.view, !.undo = Append(@, one.undo)]
      start == Disconnected(new)
  IN FoldLeft(Step, [stop |-> start.stop, view |-> start.view, undo |-> <<>>], vConnect(new))

\* The first n blocks: undo data is written at the first connection, then the index entry.
FilesWith(new, undo) ==
  LET path == vConnect(new)
      first == {i \in DOMAIN undo : ~index[path[i]].undo}
      At(b) == CHOOSE i \in first : path[i] = b
  IN [files EXCEPT !.undo = [b \in DOMAIN @ \cup {path[i] : i \in first} |->
                               IF b \in {path[i] : i \in first} THEN undo[At(b)] ELSE @[b]]]

IndexWith(new, n) ==
  LET blocks == {vConnect(new)[i] : i \in 1..n}
  IN [b \in Known |-> IF b \in blocks THEN [index[b] EXCEPT !.undo = TRUE] ELSE index[b]]

\* Mutation: the block is taken out of the candidates, but not marked.
InvalidBlockUnmarked(entries, b) == entries

\* Mutation: the first block of the branch is marked.
InvalidBranchFound(entries, b) ==
  [entries EXCEPT ![vConnect(Head(vAttach))[1]] = [@ EXCEPT !.failed = "valid"]]

InvalidBlockFound(entries, b) == [entries EXCEPT ![b] = [@ EXCEPT !.failed = "valid"]]

\* The coins are changed in a view of their own; the undo data and the index are not.
ConnectBranch(fIBD) ==
  LET new == Head(vAttach)
      done == Connected(new)
      n == Len(done.undo)
      withUndo == FilesWith(new, done.undo)
      invalid == done.stop = "invalid"
      bad == vConnect(new)[n + 1]
      entries == IndexWith(new, n)
      withBad == IF invalid THEN InvalidBlockFound(entries, bad) ELSE entries
  IN /\ pc = "set"
     /\ files' = withUndo
     /\ index' = withBad
     /\ \E i \in IndexOnDisk([k \in 1..n |-> IndexWith(new, k)] \o <<withBad>>, fIBD),
           f \in FilesOnDisk(withUndo, fIBD) :
          disk' = [disk EXCEPT !.index = i, !.files = f]
     /\ unsynced' = (unsynced \/ fIBD)
     /\ setBlockIndexValid' = IF invalid THEN setBlockIndexValid \ {bad} ELSE setBlockIndexValid
     /\ \/ /\ done.stop = "no"
           /\ pc' = "commit"
           /\ UNCHANGED <<accepting, vAttach, queueVars>>
        \/ /\ done.stop = "abort"
           /\ pc' = "stopping"
           /\ UNCHANGED <<accepting, vAttach, queueVars>>
        \/ /\ done.stop \in {"error", "invalid"}
           /\ Return(FALSE)
     /\ UNCHANGED <<pindexBest, coinsTip, coinsDB, poolVars, stops>>

\* The undo data or the index entry of a block cannot be written, when the blocks before it
\* have been: the view is dropped, and the node asked to shut down.
WriteFails(fIBD) ==
  LET new == Head(vAttach)
      undo == Connected(new).undo
  IN /\ pc = "set" /\ stops < MaxStops
     /\ \E k \in DOMAIN undo : \E n \in {k - 1, k} :
          /\ ~index[vConnect(new)[k]].undo
          /\ index' = IndexWith(new, k - 1)
          /\ files' = FilesWith(new, SubSeq(undo, 1, n))
          /\ \E i \in IndexOnDisk([j \in 1..k |-> IndexWith(new, j - 1)], fIBD),
                f \in FilesOnDisk(FilesWith(new, SubSeq(undo, 1, n)), fIBD) :
               disk' = [disk EXCEPT !.index = i, !.files = f]
     /\ unsynced' = (unsynced \/ fIBD)
     /\ pc' = "stopping" /\ stops' = stops + 1
     /\ UNCHANGED <<setBlockIndexValid, pindexBest, coinsTip, coinsDB, accepting, vAttach,
                    queueVars, poolVars>>

\* Mutation: an entry with nothing left is not passed on.
CacheAfterUnpruned(view) ==
  LET changed == {t \in TxIds : view[t] # TipView[t] /\ ~IsPruned(view[t])}
  IN [t \in DOMAIN coinsTip.cache \cup changed |-> view[t]]

\* view.Flush, into the cache of pcoinsTip.
CacheAfter(view) ==
  LET changed == {t \in TxIds : view[t] # TipView[t]}
  IN [t \in DOMAIN coinsTip.cache \cup changed |-> view[t]]

\* pcoinsTip->Flush: one batch, in which a pruned entry is an erased one.
FlushedView(cache) ==
  [t \in TxIds |-> IF t \notin DOMAIN cache THEN coinsDB.view[t]
                   ELSE IF IsPruned(cache[t]) THEN NoCoins ELSE cache[t]]

\* The pool after a reorganisation: the old branch comes back, oldest block first, then
\* what the new branch holds goes.
Loose(path) == FlattenSeq([i \in DOMAIN path |-> Vtx[path[i]]])
PoolAfter(view, new) ==
  LET Back(p, t) == Resurrect(p, view, new, t)
  IN FoldLeft(Confirm, FoldLeft(Back, pool, Loose(Reverse(vDisconnect(new)))),
              Loose(vConnect(new)))

\* Mutation: only the coins are written, files and index when the machine likes.
DiskAfterFlushUnsynced(c) == [disk EXCEPT !.coinsDB = c]

DiskAfterFlush(c) == [index |-> index, files |-> files, coinsDB |-> c]

\* During the initial download the coins stay in the cache until it is large.  Otherwise
\* files and index are synced before they are written, which itself is not synced.
Commit(fFlush) ==
  LET new == Head(vAttach)
      view == Connected(new).view
      cache == CacheAfter(view)
      db == [view |-> FlushedView(cache), best |-> new]
  IN /\ pc = "commit"
     /\ IF fFlush
        THEN /\ coinsTip' = [cache |-> NoCache, best |-> new]
             /\ coinsDB' = db
             /\ \E c \in CoinsOnDisk(db) : disk' = DiskAfterFlush(c)
             /\ unsynced' = FALSE
        ELSE /\ coinsTip' = [cache |-> cache, best |-> new]
             /\ unsynced' = TRUE
             /\ UNCHANGED <<coinsDB, disk>>
     /\ pindexBest' = new
     /\ pool' = PoolAfter(view, new)
     /\ IF Len(vAttach) > 1
        THEN /\ vAttach' = Tail(vAttach) /\ pc' = "set"
             /\ UNCHANGED <<accepting, queueVars>>
        ELSE Return(TRUE)
     /\ UNCHANGED <<index, setBlockIndexValid, files, mapOrphanTransactions, stops>>

\* The coins in memory are already those of the new branch when there is no space left on the
\* disk, or when what is written after that check fails, before or after index and files are
\* synced: nothing else follows, and the node is asked to shut down.
CommitFails(fSynced) ==
  LET new == Head(vAttach)
  IN /\ pc = "commit" /\ stops < MaxStops
     /\ coinsTip' = [cache |-> CacheAfter(Connected(new).view), best |-> new]
     /\ disk' = IF fSynced THEN DiskAfterFlush(disk.coinsDB) ELSE disk
     /\ unsynced' = ~fSynced
     /\ pc' = "stopping" /\ stops' = stops + 1
     /\ UNCHANGED <<index, setBlockIndexValid, pindexBest, files, coinsDB, accepting, vAttach,
                    queueVars, poolVars>>

-----------------------------------------------------------------------------
(* Transactions from peers *)

\* The orphans that spend an output of t.
WaitingFor(t) == {o \in mapOrphanTransactions : t \in {Vin[o][i][1] : i \in DOMAIN Vin[o]}}

\* When t has been accepted, it is t that is tried again for each orphan waiting for it.
ProcessOrphans(t, withT) ==
  LET accepted == Acceptable(withT, TipView, pindexBest, t)
      missing == MissingInputs(withT, TipView, t)
      erased == IF accepted \/ ~missing THEN WaitingFor(t) ELSE {}
  IN /\ pool' = IF accepted THEN addUnchecked(withT, t) ELSE withT
     /\ mapOrphanTransactions' = mapOrphanTransactions \ ({t} \cup erased)

\* Mutation: one too many is kept.
LimitOrphanTxSizeLate(held) ==
  IF Cardinality(held) <= MaxOrphanTxs + 1 THEN {held} ELSE kSubset(MaxOrphanTxs, held)

\* Random orphans leave when there are too many.
LimitOrphanTxSize(held) ==
  IF Cardinality(held) <= MaxOrphanTxs THEN {held} ELSE kSubset(MaxOrphanTxs, held)

\* The message tx.
ReceiveTx(t) ==
     /\ pc = "idle"
     /\ \/ /\ Acceptable(pool, TipView, pindexBest, t)
           /\ ProcessOrphans(t, addUnchecked(pool, t))
        \/ /\ MissingInputs(pool, TipView, t)
           /\ mapOrphanTransactions' \in LimitOrphanTxSize(mapOrphanTransactions \cup {t})
           /\ UNCHANGED pool
     /\ UNCHANGED <<index, setBlockIndexValid, pindexBest, coinsTip, durable, pc, accepting, vAttach,
                    queueVars, count>>

-----------------------------------------------------------------------------
(* Stopping and starting *)

LoseMemory ==
  /\ pc' = "off"
  /\ accepting' = NoBlock /\ vAttach' = <<>> /\ vWorkQueue' = <<>> /\ mapOrphanBlocks' = {}
  /\ pool' = NoPool /\ mapOrphanTransactions' = {}

\* Shutdown flushes the coins, and syncs nothing (pblocktree->Flush does nothing).  The
\* thread that connects blocks is interrupted between two calls of SetBestChain.
Shutdown ==
  LET db == [view |-> FlushedView(coinsTip.cache), best |-> coinsTip.best]
  IN /\ \/ pc = "stopping"
        \/ stops < MaxStops /\ pc = "idle"
        \/ stops < MaxStops /\ pc = "set" /\ accepting # NoBlock
     /\ stops' = IF pc = "stopping" THEN stops ELSE stops + 1
     /\ coinsDB' = db
     /\ \E c \in CoinsOnDisk(db) : disk' = [disk EXCEPT !.coinsDB = c]
     /\ coinsTip' = [cache |-> NoCache, best |-> coinsTip.best]
     /\ LoseMemory
     /\ UNCHANGED <<index, setBlockIndexValid, pindexBest, files, unsynced>>

\* The process is killed: what it has written stays.
Kill ==
  /\ pc \notin {"off", "corrupt"} /\ stops < MaxStops
  /\ stops' = stops + 1
  /\ coinsTip' = [cache |-> NoCache, best |-> coinsDB.best]
  /\ LoseMemory
  /\ UNCHANGED <<index, setBlockIndexValid, pindexBest, durable, unsynced>>

\* The machine stops: what is on disk stays.
PowerLoss ==
  /\ pc # "corrupt" /\ stops < MaxStops
  /\ unsynced => LossInDownload
  /\ stops' = stops + 1
  /\ index' = disk.index /\ files' = disk.files /\ coinsDB' = disk.coinsDB
  /\ coinsTip' = [cache |-> NoCache, best |-> coinsDB'.best]
  /\ unsynced' = FALSE
  /\ LoseMemory
  /\ UNCHANGED <<setBlockIndexValid, pindexBest, disk>>

\* VerifyDB: the blocks of the best chain can be read, and undone on their coins.
VerifyDB ==
  LET path == Reverse(ByHeight(Chain[coinsDB.best] \ {Base}))
      Step(done, b) == IF ~done.clean THEN done
                       ELSE IF b \notin files.data \/ ~index[b].undo \/ b \notin DOMAIN files.undo
                       THEN [done EXCEPT !.clean = FALSE]
                       ELSE DisconnectBlock(done.view, b, files.undo[b])
  IN FoldLeft(Step, [clean |-> TRUE, view |-> coinsDB.view], path).clean

\* LoadBlockIndexDB and VerifyDB; what follows is ConnectBestBlock.
StartUp ==
  /\ pc = "off"
  /\ setBlockIndexValid' = {b \in Known : index[b].failed = "no"}
  /\ pindexBest' = coinsDB.best
  /\ coinsTip' = [cache |-> NoCache, best |-> coinsDB.best]
  /\ pc' = IF coinsDB.best \in Known /\ VerifyDB THEN "connect" ELSE "corrupt"
  /\ UNCHANGED <<index, durable, accepting, vAttach, queueVars, poolVars, count>>

-----------------------------------------------------------------------------

\* What the thread in ProcessBlock or at the start of the program goes on with.
Choose ==
  \/ \E b \in Blocks : AcceptOrphanBlock(b)
  \/ NextInWorkQueue
  \/ ConnectBestDone \/ MarkDescendantsFailed \/ ConnectBestStart

SetBestChain ==
  \/ \E fIBD \in InitialDownload : ConnectBranch(fIBD) \/ WriteFails(fIBD)
  \/ Commit(TRUE)
  \/ TRUE \in InitialDownload /\ Commit(FALSE)
  \/ \E fSynced \in BOOLEAN : CommitFails(fSynced)

Next ==
  \/ \E b \in Blocks \ {Base} : \/ ReceiveBlock(b) \/ ReceiveOrphanBlock(b)
                                \/ ReceiveKnownBlock(b)
  \/ \E t \in Txs : ReceiveTx(t)
  \/ Choose \/ SetBestChain
  \/ Shutdown \/ Kill \/ PowerLoss \/ StartUp

Spec == Init /\ [][Next]_vars

\* The thread that processes a block or starts the program takes its next step, and a node
\* that has stopped is started again.  It is the weak fairness of Choose, SetBestChain,
\* StartUp and the Shutdown of a program that gives up: where these are possible nobody else
\* does anything but stop the node, each of them changes something, and the runs check that
\* there always is one.
Busy == pc \in {"connect", "set", "commit", "orphans", "stopping", "off"}
Fairness == []<>(~Busy) \/ []<><<Busy>>_vars
FairSpec == Spec /\ Fairness

-----------------------------------------------------------------------------
(* Properties *)

Running == pc \notin {"off", "corrupt"}

\* Nothing has gone wrong that makes the node stop.
Serving == Running /\ pc # "stopping"

\* The type of every variable.
TypeOK ==
  /\ Known \subseteq Blocks /\ \A b \in Known : index[b] \in Status
  /\ setBlockIndexValid \subseteq Blocks /\ pindexBest \in Blocks
  /\ files.data \subseteq Blocks /\ DOMAIN files.undo \subseteq Blocks
  /\ DOMAIN coinsTip.cache \subseteq TxIds /\ coinsTip.best \in Blocks
  /\ coinsDB.view \in Views /\ coinsDB.best \in Blocks
  /\ pc \in {"idle", "connect", "set", "commit", "orphans", "stopping", "off", "corrupt"}
  /\ accepting \in Blocks \cup {NoBlock}
  /\ ToSet(vAttach) \cup ToSet(vWorkQueue) \cup mapOrphanBlocks \subseteq Blocks
  /\ pool.mapTx \subseteq Txs /\ mapOrphanTransactions \subseteq Txs
  /\ Cardinality(mapOrphanTransactions) <= MaxOrphanTxs
  /\ stops \in 0..MaxStops /\ unsynced \in BOOLEAN

Normal(view) == [t \in TxIds |-> IF IsPruned(view[t]) THEN NoCoins ELSE view[t]]

\* The coins, those in memory, in the database and on disk, are exactly what the chain up
\* to their best block leaves unspent: after any reorganisation, one that failed half-way,
\* a failed write, and any restart; and those in memory have the best block of the node, as
\* long as no failed write makes it stop.  (DisconnectBlock, ConnectBlock, CCoinsViewCache)
CoinsAreThoseOfTheChain ==
  /\ Running => Normal(TipView) = Unspent[coinsTip.best]
  /\ Serving => coinsTip.best = pindexBest
  /\ \A db \in {coinsDB, disk.coinsDB} : db.view = Unspent[db.best]

\* The best chain has no double spend and no missing or immature input, and a block is
\* marked as failed only if its chain has.  (ConnectBlock, InvalidBlockFound)
VerdictsAreRight ==
  /\ ValidChain[pindexBest]
  /\ \A b \in Known : index[b].failed # "no" => ~ValidChain[b]

\* Between two messages no valid chain that is known has more work than the best one,
\* whatever failed on the way.  (ConnectBestBlock)
MostWork ==
  pc = "idle" => \A b \in Known : ValidChain[b] => nChainWork[b] <= nChainWork[pindexBest]

\* Whenever the power fails, the best block of the coin database is in the index, and the
\* blocks of its chain and their undo data are on disk.  (SetBestChain 2133-2147: "Make
\* sure it's successfully written to disk before changing memory structure")
BestChainOnDisk ==
  LET best == disk.coinsDB.best
  IN /\ Chain[best] \subseteq DOMAIN disk.index \cap disk.files.data \cap DOMAIN disk.files.undo
     /\ \A b \in Chain[best] : disk.index[b].undo

\* The same, if nothing had been left unsynced for the initial download.
SyncedChainOnDisk == unsynced \/ BestChainOnDisk

\* The database is never found corrupt.  (VerifyDB)
NeverCorrupt == pc # "corrupt"

\* Every input of a transaction of the pool is an output the chain has left or one of
\* another transaction of the pool, no two spend the same, and mapNextTx knows who spends
\* what; until a failed write makes the node stop.  (main.cpp 4571: "all transactions in the
\* memory pool should connect to either transactions in the chain or other transactions in
\* the memory pool")
PoolConnects ==
  Serving =>
    /\ \A t \in pool.mapTx : \A o \in ToSet(Vin[t]) :
         \/ o[2] \in TipView[o[1]].out
         \/ o[1] \in pool.mapTx
    /\ \A t \in pool.mapTx : \A o \in ToSet(Vin[t]) :
         o \in DOMAIN pool.mapNextTx /\ pool.mapNextTx[o] = t
    /\ \A o \in DOMAIN pool.mapNextTx : pool.mapNextTx[o] \in pool.mapTx

\* An orphan whose predecessor is known is left waiting only if its chain is not valid.
\* (ProcessBlock 2604-2624)
NoOrphanLeftBehind ==
  pc = "idle" => \A b \in mapOrphanBlocks : Parent[b] \in Known => ~ValidChain[b]

\* While the node runs, its best block is only replaced by one with more work.  (SetBestChain)
BestOnlyImproves ==
  [][(Running /\ pindexBest' # pindexBest) => nChainWork[pindexBest'] > nChainWork[pindexBest]]_vars

\* The thread that processes a block, or starts the program, always gets back to waiting
\* for messages, however often blocks fail on the way or the program gives up starting; by
\* MostWork the best chain is then one with the most work.  (ProcessBlock, ConnectBestBlock;
\* init.cpp 1048-1051)
AlwaysReadyAgain == []<>(pc = "idle")

\* An orphan transaction leaves the holding area, when the one it waited for has been
\* accepted, only for the pool or because the pool cannot take it.  (main.cpp 3847:
\* "Recursively process any orphan transactions that depended on this one")
OrphanIsAccepted ==
  [][\A t \in Txs : t \in pool'.mapTx \ pool.mapTx /\ pc = "idle" =>
       \A o \in WaitingFor(t) \ {t} :
         \/ o \in mapOrphanTransactions' \cup pool'.mapTx
         \/ ~Acceptable(pool', TipView, pindexBest, o)]_vars

=============================================================================
