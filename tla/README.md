# memorypool in TLA+

MemoryCoin with a built-in mining pool: a Bitcoin 0.8 node (`src/src/main.cpp`, `net.cpp`,
`wallet.cpp` ...) to which this repository adds

- a **mining pool** inside the node process (`pool.cpp`, `block.cpp`, `queue.cpp`,
  `blockpayment.h`, `rpcpool.cpp`), its reason to exist;
- **grants**: every twentieth block pays elected officers; the votes are transactions, and every
  node counts them out of the chain (`main.cpp` 5250-5985);
- the **Momentum** proof of work (`momentum.cpp`).

The specifications here are translated from that code. They model the two parts that are this
repository's own and have no test in `src/src/test`, the pool and the grants, and the part of the
node that everything else stands on: the chain state with its coins, its memory pool and the
threads that check scripts. The rest of the node is inventoried below.

## 1. Inventory

| Component | State it keeps | Operations | Hard behaviour | What makes it correct |
|---|---|---|---|---|
| Pool accounting (`pool.cpp`, `block.cpp`, `queue.cpp`) | `poolQueue` (rounds, the last one open), `userInfos`, files `pool/blocks/*`, `pool/oldblocks/*`, `pool/users`, the wallet's payouts | accept a share, close a round on a found block, credit mature rounds, pay, save, load | three kinds of threads, one of them partly without the lock; truncate-then-write files; a crash between credit, rename and payout; heights read again and again while the best block moves; unsigned subtraction | a share is in one round; a round is credited once and not before it is confirmed; what was credited is in the balance or paid; no credit is lost in a crash |
| Pool connections and work (`pool.cpp`) | `CPoolClient::clients`, per client its key, `submitted` list and socket; `IncrementExtraNonce`'s statics | accept, hello, send work, handle a submission, disconnect | `Sendwork` changes a client under its own handler; `delete this`; a lock kept while sockets are written; a root sent twice | no deleted client is used, the registry is exact, one block closes a parent, a share is not paid again, a closed client leaves |
| Pool RPC (`rpcpool.cpp`) | none | `getpoolinfo`, `listpayouts`, `getuserinfo` ... | reads rounds and users without the locks, and writes them (`operator[]`, computed amounts) | it does not disturb the accounting |
| Grant elections (`main.cpp` 5540-5985) | `balances`, `votingPreferences`, `ballots`, `preferenceCount` | count votes of a block, count an office | years of transactions pile up preferences; integer quota, ties | the count ends and elects whom the preferences demand |
| Grant database (`main.cpp` 5250-5540, 1951-1998, 4475-4765) | `grantDatabaseBlockHeight`, `gdBlockPointer`, `grantAwards`, `grantdb.dat` | bring up to date, save, load, check and pay awards | two locks, taken in both orders; templates count awards while a branch is connected; blocks are never taken back; `pnext` changes only after a branch is connected; the file is older or newer than the chain | every node pays, and asks for, the awards of its chain |
| Chain state (`main.cpp` 1376-3000) | block index, best chain, orphan blocks, block and undo files | `ProcessBlock`, `AcceptBlock`, `ConnectBestBlock`, `SetBestChain`, `ConnectBlock`, `DisconnectBlock`, `VerifyDB` | reorganisations that fail half-way, invalid branches, blocks that arrive before their parents, a stop between any two writes | the best chain is the valid one with most work; only invalid chains are marked; what is on disk is enough to start again |
| Coin views (`main.cpp` 192-308, `txdb.cpp`, `leveldb.h`) | layered maps of unspent outputs | get, set, flush, batch write | a crash between caches and disk; undo data made while inputs are spent | the coins are those the chain leaves unspent, in memory, in the database and on disk |
| Memory pool, orphans (`main.cpp` 317-380, 667-925, 3827-3891) | `mapTx`, `mapNextTx`, `mapOrphanTransactions(ByPrev)` | accept, remove, remove conflicts, add and erase orphans, limit | chains of dependent transactions, reorganisations, limits | the two maps agree; every input connects; no two spend the same |
| Subsidy, difficulty, amounts (`main.cpp` 1098-1340, 2635-2780, 5182-5220) | none | block value, retarget, merkle branch, compress | boundaries | compression inverts, branches verify |
| Momentum (`momentum.cpp`, `semiOrderedMap.h`) | hash table of birthdays | search, verify | threads, a table at its limit | what is found verifies |
| Network (`net.cpp`, `netbase.cpp`) | `vNodes`, send and receive buffers, semaphores | connect, accept, socket loop, disconnect | threads, reference counts | a node in use is not deleted |
| Messages (`main.cpp` 3380-4475) | per node inventory, asked-for map | version, inv, getdata, block, tx ... | any order, floods | |
| Address manager (`addrman.cpp`) | new and tried tables, reference counts | add, good, attempt, select, shrink | random eviction | tables and counters agree |
| Alerts, checkpoints | maps of alerts, constants | | | |
| Wallet (`wallet.cpp`, `walletdb.cpp`, `db.cpp`) | transactions, key pool, accounts | add, create, commit, reserve and return keys | failures between database and memory | a key is handed out once |
| Wallet encryption, keys (`crypter.cpp`, `keystore.cpp`, `key.cpp`) | master keys, plain and encrypted keys | encrypt, lock, unlock | crash half-way | no plain key is left behind |
| Check queue, locks (`checkqueue.h`, `sync.*`) | queue, counters | add, work, wait | master and workers race | the master returns when all checks were done |
| Scripts, serialization, utilities, RPC server, start-up, GUI, vendored code | | | | left out, see section 8 |

How they interact, where it is modelled:

- `CPoolClient::HandleSubmission` (io_service threads) hands a solved block to `CheckWork`, which
  calls `ProcessBlock` under `cs_main`; the best block (`pindexBest`) moves; `PoolWorkThread` sees
  that it did, sends new work to every client under `clientsLock`, then runs
  `processBalances`, which takes `poolQueueLock`. `PoolSaveThread` saves the open round under
  the same lock every minute.
- `ProcessBlock`, from the network or from `CheckWork`, stores a block and lets `ConnectBestBlock`
  choose a chain; `SetBestChain` disconnects and connects blocks in a view of the coins, flushes it
  into `pcoinsTip` and perhaps on to the database, and then brings the memory pool after it.
  Transactions from peers are checked against both. All of it runs under `cs_main`.
- `ConnectBlock` hands the script checks of a block to the worker threads of the check queue and
  joins them before it believes the block.
- `SetBestChain` calls `ConnectBlock`, which at every award height asks the grant database for
  the awards, under `cs_main` and the lock `grantdb`; so does `CreateNewBlock`, for the pool, a miner or
  `getblocktemplate`, under `grantdb` alone, before it takes `cs_main` and chooses the parent.
  The database reads blocks along `pnext`, which `SetBestChain` changes afterwards.

The hazards, each at its line with the properties that watch it, are in `PROJECT.json`.

## 2. Modules

| Module | Models |
|---|---|
| `BlockPayment` | `Nodes::Block` and `Queue` (`block.cpp`, `queue.cpp`, `blockpayment.h`, `helper.h`) as operators on records and sequences |
| `PoolLedger` | EXTENDS it: the accounting of `pool.cpp`, with its threads, files and crashes |
| `PoolAccounts` | abstract: what the pool promises its miners, which `PoolLedger` is checked and proved to implement |
| `SumLemmas` | induction over finite sets of naturals, the folds of the library as functions, and the laws of the sums the models take (`SumFunction`) |
| `PoolLedgerProofs` | what the operators of `BlockPayment` do to rounds and queues, and the theorems about `PoolLedger`, with the refinement of `PoolAccounts` |
| `PoolWork` | connections, work and submissions of `pool.cpp`, with `CheckWork` and `IncrementExtraNonce` of `main.cpp` |
| `PoolWorkProofs` | theorems about `PoolWork` |
| `Election` | votes and the count of one office |
| `ElectionProofs` | theorems about `Election` |
| `GrantDatabase` | the database, its file, and the award rule under branches, templates and kills, with the two locks |
| `GrantDatabaseProofs` | theorems about `GrantDatabase` |
| `ChainCoins` | transactions and blocks on a view of the coins, as operators, and what the coins of a chain are by definition |
| `TxPool` | EXTENDS it: `CTxMemPool`, as operators on a record of its two maps |
| `ChainState` | EXTENDS it: block index, choice of the best chain, reorganisation, files, databases, orphans, stops and restarts |
| `ChainCoinsProofs` | what the operators of `ChainCoins` and `TxPool` compute: the tree, `ConnectBlock` and `DisconnectBlock` on a view, the pool |
| `ChainStateProofs` | theorems about `ChainState` |
| `CheckQueue` | `CCheckQueue` with its master and workers, and the `CCheckQueueControl` of `ConnectBlock` |
| `CheckQueueProofs` | theorems about `CheckQueue` |
| `MCElection` | the symmetry set of the voters |
| `MCChainState`, `MCCheckQueue` | the tree of blocks of the chain runs; model values |

`PoolLedger` and `PoolWork` are two views of `HandleSubmission`, cut where it takes
`poolQueueLock`: `PoolWork` decides whether a submission is paid and with what races,
`PoolLedger` what a paid one does to the books. They share nothing else but the best block, which
both let move freely. `Election` is the count that `GrantDatabase` takes as a function of the
list of blocks processed; it and `ChainState` are two views of `SetBestChain`, of what a branch does to
the awards and to the coins.

### BlockPayment and PoolLedger

A round is a record; the sorted linked list of users of a `Block` is the pair of functions
`shares` and `pay`. Two fields, `id` and `block`, are bookkeeping of the specification: they name
the object and the true height of the block it found, and no operator that models code reads them.
Amounts keep what matters about them: integer division, the pool fee, the default precision of the
ostream that writes a reward (`SaveGrain`), and amounts that are not saved at all. File names are
ordered as `std::sort` orders them, so heights 9 and 10 load in the wrong order as they do in the
code; of two numbers written without leading zeros the first comes first that is less as a decimal
fraction, or is as much and shorter, and `NameBefore` says it so (`PowerAbove` is the power of ten that
makes the fraction).

| Variables | Code |
|---|---|
| `queue`, `lock` | `poolQueue`, `poolQueueLock` |
| `userInfos` | the map of that name: entries, usernames, balances |
| `blocks`, `archived`, `usersFile`, `paid` | directories `blocks`, `oldblocks`, file `users`, the wallet |
| `tip`, `seen` | `pindexBest->nHeight`, `pindexPrev->nHeight` of `PoolWorkThread` |
| `pc`, `found`, `file` | handlers and the saver; the block found; the name of the file being written |
| `work`, `taken`, `calculating` | `PoolWorkThread`; the round dequeued; the round and user the unlocked calculation is at, and what it has read |
| `mode`, `crashes` | the process |

A block goes through `MineBlock` (CheckWork), `LabelRound` (`setHeight(pindexBest->nHeight)`),
`AddFinderShares`, `OpenRoundFile` (`pindexBest` read again), `BeginRound`, and `OpenCurrent`,
`WriteCurrent` or `SaveNothing` (`saveCurrentBlock`). `processBalances` is `EnterProcessBalances`,
`CreditRound`, `WriteUsers`, `MoveRoundFile` or `MoveFails`, `LeaveScan`, then without the lock
the amounts of the rounds, and `SendPayouts` or `NoPayout`. What one thread does
under the lock between two file operations is one step. `Crash` may happen at any point; the steps at which the code
itself ends the process (`peek()` of an empty queue, an exception nobody catches) are actions of
their own.

The calculation of pool.cpp:227 goes user by user: `NextRound` finds the next round without amounts and reads its first
user's shares, `StoreXPM` stores his amount and reads those of the next, `MarkCalculated` sets `calculatedXPM` when the
list is at its end, and handlers may add shares, set the reward and close the round between any two of these. The
round's total and reward that an amount is computed of are those there were when the user was come to or those there
are now; the total may also be the first one, since the store of an amount (a double of a `User`) cannot change
`Block::runningtotal`, so that a compiler may load it once for the loop. Amounts of one round may so be of different
totals, and together more than the reward; nothing is claimed of them but that who has no shares has none. The
sums of these amounts (queue.cpp:118-133), cleared and made by the worker and by handlers, the former
without the lock, are only ever shown by an RPC call, and are left out.

`PoolAccounts` is the promise without the machinery: shares go into an open round, a block closes
it, closed rounds are credited once each and in order, to users with shares in them,
and a balance is paid whole. `ImplementsAccounts` maps the rear of the queue to
the open round until the finder's share is in it, the rounds before it to the closed ones, and
`live` to "has not crashed"; how much is credited is left to the implementation, for the unlocked
calculation can leave the finder's share out of it, or count totals that differ (pool.cpp:227 against 582-585).

### PoolWork

A client object goes free, running, greeted, served, reading, then matching, checking, solved or
earned, answering for each submission, and ends gone (deleted), abandoned (a response that could not
be written) or leaked (a failed hello). `stage` is the progress of the `Sendwork` to it, on its own
thread before registration and on the worker's after. A work unit is a parent and a merkle root;
the root is the height and extra nonce in the coinbase. `hashPrevBlock` is the static of
`IncrementExtraNonce`, shared by all threads, so that a nonce restarts, and a root repeats, when
another miner came between. `silent` are miners who have left their sockets open and read no more: a write to one
(`StopReading` comes when there is one) never returns.

### Election

A vote is an amount (rank) to a candidate; the last vote of an address with an amount replaces
the earlier one. `StartCount` copies preferences of voters with a positive balance,
`EliminateBottom`, `ElectTop` and `ElectNobody` are one `electOrEliminate` each, `Removed` removes
the last amount under which a ballot names a candidate, as `markForRemoval` does. The weights
of a transfer after an election are left out: one award per office (`getNUMBEROFAWARDS`), so that
no ballot is ever transferred from a winner.

### GrantDatabase

A block is the list of branch numbers of it and the blocks below it, and the coinbase what it pays. The content of the
database is the list of the blocks processed and the awards are that list, so that two databases that differ in any block
differ in their awards. `chain` are the `pnext` links, which differ from `best`, the chain of `pindexBest`, while a branch
replaces another.

| Actions | Code |
|---|---|
| `NetworkBranch`, `MineTemplate` | `ProcessBlock` with a branch of the network; `CheckWork` with a template. Both begin `SetBestChain`, under `cs_main` |
| `ConnectBlock`; `GetGrantAwards`, `ConnectAwardBlock` | one turn of its loop; at an award height `ConnectBlock` keeps `grantdb` while it counts |
| `Flush`, `Disconnect`, `Link`, `NewBest` | main.cpp 2125-2190: coins written or not (they are not in the initial download), `pnext` of the old branch reset block by block, that of the new one set, then `pindexBest` |
| `CreateNewBlock`, `AskAwards`, `AddAwards` | main.cpp 4510-4529, under `grantdb` without `cs_main`: the best block is read again and again |
| `ChooseParent`, `TestBlock`, `TestAwardBlock` | main.cpp 4565-4761, under `cs_main`: the parent is chosen, and `ConnectBlock` tried, which takes `grantdb` and counts again |
| `NextBlock`, `ProcessBlock` | one turn of the loop of 5463 for whoever holds `grantdb`: `pnext`, then the votes, which take `cs_main` in `GetTransaction` if the block spends anything |
| `Restart` | killed at any moment, the node starts from the coins written last (`saved`); the file stays |

The other nodes of the network make blocks that pay the awards of their own chain, or none. Branches have any fork and any
length; which has more work is left open. `EnsureUptoDate` loads the file as the code does: along the links of the chain
there is, whichever chain the file was made from, and no further than it goes.

### ChainCoins, TxPool and ChainState

The tree of blocks is a constant, so that what TLC explores is the order in which blocks,
transactions and stops come. An outpoint is a transaction and a number; a coinbase has the name of its block.
`Base` is the block a run starts from and stands for the chain before it. What is
true of a transaction or block by itself (scripts, amounts, proof of work, size, timestamps) is
given: a block that fails it is not in the tree, a transaction refused for fees or standardness
is one that does not arrive. What depends on the chain, which coins there are and how old, is computed as the
code does it: `UpdateCoins` spends input after input and keeps the height only for the last output
spent, `DisconnectBlock` walks back and complains where the code does, a cache entry with nothing left
(`Pruned`) differs from none at all (`NoCoins`) until the batch write erases it.

`Unspent` and `ValidChain` are not code. They say by quantifiers over a chain what it leaves unspent and
whether its inputs exist, are spent once and are mature; the invariants compare the machinery with them.

| Variables | Code |
|---|---|
| `index`, `setBlockIndexValid`, `pindexBest` | `mapBlockIndex` with `nStatus` and its database; the globals |
| `files` | `blk*.dat` and `rev*.dat`: blocks, and undo data by block |
| `coinsTip`, `coinsDB` | the cache `pcoinsTip` and its best block; `CCoinsViewDB` |
| `disk` | what a loss of power leaves of these three |
| `pc`, `accepting`, `vAttach`, `vWorkQueue` | the thread that holds `cs_main`, and its locals in `ProcessBlock`, `AcceptBlock` and `ConnectBestBlock` |
| `mapOrphanBlocks`, `pool`, `mapOrphanTransactions` | the maps of these names, `mempool` |

The steps are cut where something durable is written, since the lock hides everything else but a stop:
`AcceptBlock` (block file and index entry), then `ConnectBestDone`, `MarkDescendantsFailed` or
`ConnectBestStart` for each turn of `ConnectBestBlock`, `ConnectBranch` (all of `SetBestChain` up to
the flush: disconnect, connect, undo data, index entries, an invalid block found) and `Commit` (the
flush and the memory pool). `WriteFails` is an undo record or index entry that cannot be written (main.cpp 2008-2031), and
`CommitFails` a full disk or a failed write of the coins (2141-2146) when `view.Flush()` has moved the coins in memory:
`pindexBest` and the pool stay behind, and `Shutdown` flushes those coins. `MarkDescendantsFailed` marks a whole
branch at once, and the disk may get any prefix of its marks. `AcceptOrphanBlock` and `NextInWorkQueue` are the loop of
`ProcessBlock`. `Shutdown` flushes what `Shutdown` does, `Kill` leaves what has been written,
`PowerLoss` leaves `disk`, in which every unsynced write may or may not have arrived
and the index ends anywhere in the order of its updates. `StartUp` is `LoadBlockIndexDB` and `VerifyDB`; the
`ConnectBestBlock` that follows is the same steps as in a running node.

Left out inside these parts: checkpoints, the positions in files and their sizes, `nBestInvalidWork` and the
warning that hangs on it, the notices to wallets, `-reindex` and `-loadblock`; the messages still taken in the 200 ms
at most between a request to shut down and its start (`pc = "stopping"` takes none); a kill, as opposed to a loss of
power, between two marks of `MarkDescendantsFailed`.

### CheckQueue

What a thread does while it holds the mutex is one step, and waking up and looking at
the queue are two, because the constructor of `CCheckQueueControl` reads the counters without the mutex and can
fall between them; its assertion then ends the program (`control = "aborted"`). A batch is a
set: which checks are in it is free, how many is `nNow`. `Work` runs checks until one fails, and none when one has
failed before. `added`, `evaluated` and `verdict` are bookkeeping for the properties.

## 3. Runs

| Run | Bounds | Shows |
|---|---|---|
| `ledger` | 1 handler, 2 users (one known from an earlier life), heights 8 to 12, 2 shares, 1 crash, fair threads | types; shares and balances are conserved; no credit before confirmation, no lost credit across a crash; found rounds are on disk; `PoolAccounts` is implemented; a mature round is credited |
| `work_clients` | 2 connections, block solutions, heights 1 and 2, fair threads | exact registry, no use of a deleted client, one block per parent; a closed client leaves the registry unless its reads have ended or a miner who does not read holds up the worker |
| `work_shares` | 1 connection, 1 share solution, heights 1 to 3 | a share is paid at most twice |
| `election` | 3 voters with balances 0 to 3, 3 candidates, amounts 1 and 2 | the count advances, ballots are those of the standing candidates, a solid majority gets one of its candidates, a candidate who loses to all is not elected |
| `grants` | interval 2, 6 blocks, 2 threads that make templates, 1 branch besides the first, 1 restart, while `steady` | the database is that of the chain, NULL is never read; a node that was not restarted accepts what pays its awards and nothing else, and makes no template that does not |
| `checkqueue` | 2 workers and the master, 4 checks of which 1 fails, batches of 2, fair threads | the count of outstanding checks is exact, `Wait` returns, with the verdict of the block; blocks follow each other without end |
| `chain` | 7 blocks, 4 transactions, 1 orphan transaction kept, initial download or not at every write, 1 stop or failed write of any kind anywhere | coins are those of the chain in memory, database and disk; only invalid chains are marked; the best chain has most work and is only replaced by a better one; everything a restart needs is on disk; no restart finds the database corrupt; pool transactions connect; no valid orphan block is left behind; the node always gets back to its messages |

Five more each refute one statement of the repository:

| Run | Statement | What happens |
|---|---|---|
| `ledger_credit_again` | pool.cpp:220 "... so we dont double spend" | a crash between the users file and the rename; the restart credits the round again |
| `election_repeat` | main.cpp:5926 "Remove candidate from all ballots ..." | a candidate listed under two amounts stays on the ballot, and wins after his elimination |
| `grants_restart` | main.cpp:1960 "Ensure fees are going to award winners" | after a restart the file is at the height asked for, nothing is processed, no awards are counted, and a block without them is connected |
| `grants_locks` | doc/coding.md:52 "Deadlocks due to inconsistent lock ordering ... are a problem" | a template's thread holds `grantdb` (4510) and waits for `cs_main` in `GetTransaction` (5569, 995); the thread that connects a block holds `cs_main` and waits for `grantdb` (1952) |
| `chain_orphans` | main.cpp:3847 "Recursively process any orphan transactions that depended on this one" | line 3863 offers `tx` to the pool again instead of `orphanTx`; the orphan is erased as invalid though the pool could take it |

### Bounds, and why they are enough

- **Ledger.** Heights cross 9 to 10, where file names sort differently. `PAYOUT_DELAY` is 1 and
  payouts are every 2 blocks (80 and 5 in the code): with heights 8 to 12 a round is found, matures,
  is credited, and two payout heights pass. `MIN_PAYOUT` lies between what one and two rounds
  pay. Two users are what a per-user error needs to show, and what it takes for the unlocked calculation to be
  between two of them. The one handler is a restriction: with two that find blocks at once `NoCreditLost` and
  `FoundRoundsOnDisk` do not hold (section 5). The other properties are proved for any number of handlers; the mutant of
  `ImplementsAccounts` is a lock that does not exclude. The run starts above `PAYOUT_DELAY`, and `CreditedIsConfirmed` is
  claimed there: below it the unsigned difference wraps and every found round is mature (`UIntRange` is there for
  the subtraction).
- **Work.** Two connections are what a race in the registry needs, and what it takes for one client to hold up
  another. One client is enough for a share paid
  twice, since only `Sendwork` and his own handler touch his list; three best blocks give two
  clears of the list. `work_shares` leaves block solutions out, `work_clients` share solutions.
- **Election.** Three candidates are the fewest among which an elimination decides; with two amounts
  a ballot names two of them, and the third never matters to a count that ends with the second.
  A candidate listed twice on a ballot that still names another needs three amounts, hence
  `election_repeat`. Balances up to 3 give ties, odd sums and voters who outweigh the others together.
- **Grants.** Interval 2 stands for 20; six blocks hold two award blocks (4 and 6). Two threads that make templates
  meet in `grantdb` with each other and with `SetBestChain`.
  `steady` is where the code's own guarantee ends. The code that rebuilt the database when the chain changed under it is
  commented out (main.cpp 5452), so a chain that replaces a block that was to be counted leaves the database wrong for
  good. `settled` is the longest list of blocks that were to be counted for a chain so far; `steady` says that every
  chain since, a branch's or the one a restart comes back to, has these blocks, and that no branch was an interval long.
  It is a condition on the behaviour and not an assumption on the constants: branches and restarts of every kind are in the model, and
  the properties say what holds until the first that breaks it. `CONSTRAINT Followed` (which is `steady`) spares TLC the
  states after that, where all of them hold by their premise. The proofs remove the other bounds.
- **Check queue.** A batch of two, and four checks, give a full queue, a batch of one and of two, and a
  check that fails in a batch with one that does not; two workers and the master give every order of
  clean-ups, and a worker that is not the last. The proofs remove these bounds too.
- **Chain.** The tree has a reorganisation two blocks deep (`a1`, `a2` against `b1`, `b2`), a tie, an invalid block in
  the middle of the branch that looks best (`x2`, with `x3` after it) next to a valid one of as much work, and
  orphans at two depths. `d1` spends both outputs of one transaction, in the order that needs undo data put back
  backwards; `t2` depends on `t1`, which conflicts with `d1`; `t4` spends a coinbase, mature or not
  as heights go (`COINBASE_MATURITY` is 2, and 60 in the code). The run has one stop or failed write, of any kind and
  anywhere. The
  answer of `IsInitialBlockDownload` is free at every write. `LossInDownload` is FALSE: a loss of power is left out while the
  download has left something unsynced. The code does not commit undo data then (main.h:797), may note in the index that it has it
  (main.cpp:2013), and so can lose it for good; with TRUE, TLC finds `SyncedChainOnDisk` violated. That is
  a choice of the code for speed, which `-reindex` repairs, and no statement of it says otherwise. The proofs remove all
  bounds but these two conditions, on losses of power and on the depth of a reorganisation.

Bounds on counters (`MaxTip`, `MaxShares`, `MaxCrashes`, `MaxHeight`, `MaxBranches`, `MaxRestarts`,
`MaxStops`) stand in the guards of environment actions. `CHECK_DEADLOCK FALSE` is said where they, a pool
that refuses to start, or the assertion of `CCheckQueueControl` let a behaviour stop.

### Fairness

- `PoolLedger`: threads run on (`WF` of the worker's wake-up and of the saver's write), and a thread
  that waits for `poolQueueLock` gets it in the end (`SF` of the handler's and the worker's
  steps). A boost mutex does not promise the latter, but every holder leaves after a bounded
  number of steps and `PoolSaveThread` sleeps a minute, `PoolWorkThread` half a second, between two.
  No fairness on shares, blocks, crashes.
- `PoolWork`: the worker goes on with the client it sends to, and a handler with its submission (`WF`); who waits for
  `clientsLock` to erase a client gets it if it is free again and again (`SF` of `Disconnect`), which again is more than a boost
  mutex promises, but the worker sleeps half a second between two loops. Writes to a miner who reads, or whose socket is closed,
  end with success or an error; one to a `silent` miner does not, unless he closes. No fairness on what a miner does,
  nor on new blocks.
- `CheckQueue`: strong fairness of `Loop` for each thread, that is, threads run on and whoever waits for
  the mutex gets it in the end, although others may be woken by nothing again and again. No fairness on
  `WakeSpuriously`, nor on the master's opening or adding.
- `ChainState`: the thread in `ProcessBlock`, or starting the program, takes its next step, and a node
  that stopped is started again (by its operator: `AlwaysReadyAgain` says nothing otherwise). Nothing that
  arrives is fair. It is written out as a formula on `Busy` rather than as `WF_vars(...)`, which TLC would
  have to evaluate by enumerating each action once more in every state.

### Mutants

Every property of a passing run is paired with a mutation of a modelled definition, written next to
it ("Mutation: ..."), under which TLC finds that property violated.

## 4. What is proved

Every inductive invariant below was checked by TLC as an invariant of the component's run before it was
proved.

**PoolLedgerProofs**, for any finite set of users, any set of io threads and any heights, shares and crashes, from
`LedgerAssumption` (finite sets, positive amounts, heights below the range of the unsigned integer), `FeeAssumption`
(a fee in per cent) and `NamesAssumption` (thread names and the two marks of a file differ from the rest):

- `Typing`: `TypeInv` adds to `TypeOK` that a thread holds `poolQueueLock` exactly where the code does, that a
  process that does not run has no state, that a torn file is one being written by the thread that holds
  the lock, and that a rear being saved is there. Without these a step could store what `StartPool` found torn.
- `Confirmed`: a round is credited only `PAYOUT_DELAY` blocks after the block it found (`BasedInv`: a label is never below the
  block of its round, in the queue, in a file, or while a handler is about to give it, and `seen` is never above the best block).
- `SharesCounted` and `BalancesCounted`: until the first crash every share accepted is in exactly one round, and
  every amount credited in a balance or paid. They need that a process that has not run yet has nothing on disk
  (`FirstLife`) and that there is always an open round to put a share in, or a handler about to open one
  (`RearThere`): without a rear `addShares` would drop the share.
- `Implementation`: `ImplementsAccounts`, the refinement of `PoolAccounts`. `PayInv` says that the amounts of a round, those computed
  without the lock included, go to users with shares only; `HeightsKnown` that only the rear
  can lack a height, and not while it is being closed; `Placed`, in `TypeInv`, that the calculation is at a round of the
  queue and a user with shares in it, though handlers change the queue meanwhile: only the worker takes rounds
  away, and shares only grow. Then each step maps to a step of `PoolAccounts` or to a stutter.

`NoCreditLost` and `FoundRoundsOnDisk` are not among them. They do not hold with two handlers that find blocks at
once (section 5), nothing in the code keeps it to one, and so they are checked for one only.

The first part of the module, about `BlockPayment`, and **SumLemmas** are what these proofs rest on: the order of file names is total, so that every place of the queue loaded is taken by a file (`NamesOrdered`,
`NameAtRank`); each operator's effect on a queue. The sums are folds of the library. They are brought within the provers' reach by stating
induction over a set of sets rather than over a predicate (`SubsetInduction`: if a
subset of `T` is in `P` whenever all those with one element less are, then all subsets of `T` are), so that no theorem has an operator as a parameter.

**ElectionProofs**, for any finite sets of voters, candidates and amounts and any balances, from `ElectionAssumption`:

- `Typing` and `Advancing`: every step ends the count or takes entries off the ballots.
- `StandingKept`: without a candidate listed twice, the ballots are the preferences cast less the candidates eliminated.
- `MajorityWins`: voters who hold more than half of the balances and rank some candidates before all others get one of these.
  `MajorityStands` is the induction: while the count goes on one of them stands, since his supporters' first choices are
  among them (`MajorityFirst`), so that when one stands he has the quota and is not last (`MajorityIsNotLast`).
- `LoserLoses`: who loses to every other in a vote between the two is not elected, since who tops the poll with the
  quota does not lose to another who stands (`TopDoesNotLose`), and one who stands alone after an
  elimination did not lose to the one eliminated (`BottomGoes`).

**PoolWorkProofs**, for every set of connections and solutions and every height, from
`WorkAssumption` (finite sets, a first height above 0):

- `Typing`: `Spec => []TypeOK`.
- `RegistryCorrect` and `NoDanglingClient`. `RegistryIsExact` alone is not inductive: it says nothing
  of the worker. `RegistryInv` adds that the worker holds `clientsLock` exactly while it sends, that
  what it has left to send to is registered, and that a `Sendwork` under way belongs to `Run` or to
  the worker. Then a client cannot be erased while it is on the worker's list, since the handler
  needs the lock for it.
- `OneBlock`: a parent that was mined on is below the best block (`MinedInv`), and `CheckWork`
  compares the parent with the best block under `cs_main`.
- `NoThirdPayment`: a share is paid at most twice. `HeightsInv` says that no root is above the best
  block and that the worker sends to a client once for the heights above the one it has seen; `PaidInv`
  that a share of such a height was paid at most once, and is in the list, until then. After the one
  clear that can fall in that time the share can be paid once more; the heights below `seen` are
  not sent again, so the second payment is the last. Two are possible: pool.cpp:596 "Add to submitted before we
  pay" does not exclude the second, since `Sendwork` clears the list while the root stays.

**GrantDatabaseProofs**, for every interval, any number of threads that make templates, and any number of blocks,
branches and restarts, from `GrantAssumption` (an interval above 1, bounds that are naturals, lock holders with names of their own):

- `Typing` holds whatever replaces what. Three more invariants make the rest inductive. `LocksInv` says that each lock's
  holder is where it holds it, and that blocks are processed only by the holder of `grantdb`, up to the height of the
  award block it asks for. `AwardsInv` is below. `SteadyInv` is claimed while `steady`: `ChainsInv`, that while
  `SetBestChain` disconnects and links, the chain of `pnext` is the old one down to the fork and the new one from there, and that
  only blocks above those to be counted are replaced; `DatabaseInv`, that what is processed, loaded or on disk, and
  what the pointer has come to, are blocks that were to be counted (`settled`), and that no chain is shorter.
- `DatabaseCorrect` and `NullNeverRead`, while `steady`, from `SteadyInv`: what a template or a block asks for has been settled,
  and what has been settled is in the old chain and the new one and in every mixture of the two on the way, so
  `pnext` leads along it at any moment, with or without `cs_main`.
- `ValidAccepted`, `AwardsPaidUntilRestart` and `TemplatesPayAwards`, while `steady` and until the first restart. `AwardsInv` (as `CountedInv`
  and `PaidInv`) says that when nobody counts, the database stands at a multiple of the interval with the awards
  counted from what it holds, and that it is never beyond what is asked for. So the height asked for is either above it, and is
  counted up to, or the same (`SameMultiple`), and the awards compared are those of the last count, whichever thread made it.
  A template's awards fit the parent chosen later, wherever the best block moved in between, because what is due
  at its height is settled already. A restart loses the awards and not the content, which is what
  `grants_restart` shows to matter.

**CheckQueueProofs**, for any number of workers, any checks and any batch size, from
`CheckQueueAssumption` (finite sets, the master not a worker, a batch size above 0):

- `TodoExact`: `nTodo` is the number of checks in the queue or in a batch. `ThreadsInv` says that
  a thread holds the mutex exactly while it looks at the queue and a batch exactly from taking it to its clean-up;
  `BatchesInv` that batches are apart and belong to the block being connected. A clean-up then takes
  away exactly what its batch counted, and `Add` adds what was nowhere before.
- `VerdictRight`: when `nTodo` is 0 nothing is outstanding, so the master leaves nothing behind. `VerdictInv`
  adds that `fAllOk` speaks of every check no longer outstanding, and that a thread whose `fOk` is false has
  a failed check behind it, be it of another's batch; so the verdict returned is that of the whole block.
- `Typing`: the counters count finite sets (`CountsInv`), so that none falls below zero.

**ChainStateProofs**, for every finite tree of blocks, any transactions in them and outside, every maturity, number of
stops and orphan limit. `TreeAssumption` says that every block descends from `Base` and has some work; `CoinsAssumption`
what `CheckTransaction` demands of a transaction by itself (main.cpp:574-602): inputs, all different, and outputs, with names
of their own; `StateAssumption` that block hashes differ. From these alone:

- `ChainRightAlways` is the inductive invariant. `Stored` says of every copy there is of the coins, in the cache over the
  database, in the database and on disk, that it is what the chain up to its best block leaves unspent; of undo data, that it is
  what connecting its block wrote; of an index, that with a block it holds the one before and marks only invalid chains. `BestRight` ties
  the globals together (the candidates are all blocks not marked), `AttachRight` says that `SetBestChain` is given ever
  better blocks and that a block about to be committed can be connected, `ControlRight` what the thread holds where. None of
  the properties below is inductive without the others: coins are right because undo data is, undo data because the coins
  were when it was made, and a block is marked only because the coins that refused it were right.
- `CoinsAlwaysFit` (`CoinsAreThoseOfTheChain`), `VerdictsAlwaysRight` (`VerdictsAreRight`), `BestOnlyGetsBetter`
  (`BestOnlyImproves`): in any order of blocks, failed writes and stops, losses of power in the download included. Between a write
  that fails when the coins in memory have moved, and the stop it asks for, `pindexBest` is behind them (`Serving`).
- `PoolRightAlways`: the two maps of the pool always agree, so no two of its transactions spend one output. With
  `ChainRight` it gives `TypesAlwaysRight`.

With `~LossInDownload` (no loss of power leaves undone what the download has not synced; section 3):

- `OnDiskAlways`: what is on disk lags behind memory, never runs ahead of it, and every chain a restart can come back to has
  its index entries, blocks and undo data. `ChainAlwaysOnDisk` (`SyncedChainOnDisk`) and `DatabaseNeverCorrupt`
  (`NeverCorrupt`) follow, the second because `VerifyDB` then reads what `DisconnectBlock` needs.
- `WorkAlwaysRight`: between two messages every block known has no more work than the best one or a marked block in its
  chain; while one is being connected it alone may be better; an orphan whose predecessor is known is still in the
  loop of `ProcessBlock`, or its predecessor is not valid. `MostWorkIsBest` (`MostWork`) and `OrphansNeverForgotten`
  (`NoOrphanLeftBehind`) follow with `VerdictsAreRight`, for a marked block is never one of a valid chain.

With `MatureStays`, which says of the tree that no reorganisation is so deep as to take back a coinbase that was old
enough to be spent (`COINBASE_MATURITY`, 60 in the code; TLC finds the tree of `chain` to satisfy it):

- `PoolAlwaysConnects` (`PoolConnects`), by `PoolOnChain`: every input of a transaction of the pool is left by the best chain, or
  made by another of the pool. `Commit` brings back the transactions of the old branch, then takes
  away those of the new one and what conflicts with them; the proof follows an output through both branches: what the old branch spent or
  made is again there, or made by what came back, unless the new branch has it too. Coinbases do not come back,
  hence the condition, which is necessary (section 5). It says nothing of the time between a failed write and the stop.

**ChainCoinsProofs** holds what these rest on. `ConnectBlock` and `DisconnectBlock` are folds over transactions and inputs, and
what they compute for every block takes induction. As with the sums it is had without a theorem over an operator: a fold is
shown to have a trace, a function whose next value is the step taken from the one before (`FoldTrace`), and induction along it is over
a set of indices (`StepInduction`); for `Parent`, over a set of blocks (`TreeInduction`). So `ConnectBlockIs` and
`DisconnectBlockIs` say that on a view equal to the coins of its predecessor a block connects exactly when it is
valid there, gives the coins of its own chain and undo data that leads back to the view before, spent outputs in the
order in which they were spent; `ConflictsAre` and `ConfirmIs` what leaves the pool with a block. A cache entry with nothing left and none at all are
the same to all of them (`Same`).

Only model-checked, and why:

- liveness (`MaturedIsCredited` of `ledger`, `ClosedClientsLeave` of `work_clients`, `WaitReturns` of `checkqueue`, and
  `AlwaysReadyAgain` of `chain`): fairness and ENABLED are out of the prover's reach. `Advancing` and the finite ballots say
  why a count ends;
- `NoCreditLost` and `FoundRoundsOnDisk`, which need one handler;
- the five statements of section 3 that do not hold: TLC shows how.

## 5. What the work has found

The five refuted statements of section 3. Seen as well, without a run, because no line of the
repository promises otherwise or because a property already bounds what can happen:

- two handlers that find blocks shortly after each other (the io_service has several threads, `-rpcthreads`, bitcoinrpc.cpp:856) can
  both read the second block's height at pool.cpp:582: the two rounds get one height and one file. The credit of the first
  then moves the file of the second away (221); the second is lost if the pool stops before it is credited, and if not the rename of
  its credit throws and `PoolWorkThread` ends. With two `IOThreads` in `ledger` TLC finds `FoundRoundsOnDisk` and
  `NoCreditLost` violated so;
- the amounts of a round are computed without the lock while the finder's shares are added (pool.cpp:227 against 585, block.cpp:86-94): users
  computed before get their part of the smaller total and those after of the larger one, so that the amounts can differ
  from the shares and together exceed the reward. They are not computed again;
- a reorganisation of an interval or more, or a restart in the initial download at a chain without the blocks processed
  (coins are not flushed then, main.cpp:2135), leaves the grant database wrong until a restart without its file:
  what once was processed is never taken back (main.cpp:5452);
- when the coins cannot be flushed, or the disk is full (main.cpp:2141-2146), the coins in memory are those of the new branch already, and `pindexBest`, `pnext`
  and the pool are not; the node asks for its own shutdown, which flushes these coins and so ends well;
- the reset of a paid balance (pool.cpp:254) is not saved before the payment, so a crash after it pays again;
- a share can be paid twice (`PaidAtMostTwice` says never more);
- a reorganisation deeper than `COINBASE_MATURITY` leaves transactions in the pool that spend a coinbase of the old branch, or
  what was made of it: coinbases are not offered to the pool again and nothing looks for what spends them.
  With a maturity of 1 in `chain` TLC finds `PoolConnects` violated so (`t4` in the pool spends the coinbase of `b1`,
  which `a1` and `a2` then replace), and the proof shows that it takes such a depth (`MatureStays`);
- the assertion of checkqueue.h:167 reads the counters without the mutex, and can fail while a worker wakes up;
- after a loss of power in the initial download the chain can be one that cannot be undone (section 3, bounds).

## 6. Plan

Built: the pool, the grants, the chain with its coins and memory pool, the check queue. Left, in order of
weight, each item a module and its run, then its proofs:

1. *The rest of the pool.* A user without a username is not paid until a restart (pool.cpp:237); a round
   whose block was disconnected is credited (211); below height `PAYOUT_DELAY` the subtraction wraps (211);
   `current` still holds a found round after a crash (592); the best block can change between the sends and
   the read of `pindexPrev` (692). `PoolServer`, the composition of ledger and connections, with the pool RPC.
2. *Wallet.* `KeyPool` (a key is handed out once, crashes included), `WalletCrypt`; they follow `ChainState`
   by its callbacks.
3. *Network.* `NetNodes` (reference counts), `Inventory`, `AddrMan`.
4. *Algorithms.* Amount compression, merkle branches, subsidy and retargeting against
   reference definitions.

## 7. Running

In this directory: `tlc -workers 2 -config ledger.cfg PoolLedger` for a run (`PROJECT.json` names
the module of each), `tlapm PoolWorkProofs.tla` for the proofs. Every run ends in about two minutes or less with two workers;
the longest proofs, `ChainStateProofs` and `PoolLedgerProofs`, take ten.

## 8. What is not modelled

- *Inside the modelled parts.* Pool: bytes on sockets (a response and a work unit can be mixed when two
  threads write at once), a torn read of `keys[0].block`, the sums of unconfirmed amounts. Grants: the contents
  of a database file cut off by a crash, a block that cannot be read while it is processed, the weights of
  elections with several winners, the offices beyond one. Chain: what the end of its part of section 2 lists. Those
  that are hazards are listed as such, with a note.
- *Whole components.* Those of section 6 that are not yet built. Scripts, serialization, base58 and
  big numbers are byte-level computations with no protocol state; the RPC server and start-up are
  thin calls into the others; the GUI shows what others keep. The `.ts` files of
  `src/src/qt/locale` are translations for Qt, XML data and not TypeScript: there is nothing in them to model, and
  the program is the C++ of `src/src`. leveldb, json_spirit and
  rapidxml are third-party code, modelled only through the operations used.
