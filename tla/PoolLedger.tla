---------------------------- MODULE PoolLedger ----------------------------
(***************************************************************************)
(* The accounting of the pool (pool.cpp): shares go into the open round,   *)
(* a found block closes the round, and PoolWorkThread credits a round to   *)
(* its users once its height is PAYOUT_DELAY below the best block, moves   *)
(* the round's file away and pays the balances out of the wallet.          *)
(*                                                                         *)
(* Concurrency.  HandleSubmission runs on the io_service threads           *)
(* (IOThreads), PoolSaveThread and PoolWorkThread on threads of their own; *)
(* the best block moves under all of them.  What a thread does under       *)
(* poolQueueLock between two file operations is one step, unless another   *)
(* thread reads or writes the same memory without the lock meanwhile: at   *)
(* the end of processBalances PoolWorkThread computes the amounts of the   *)
(* rounds user by user (work = "calculate", "marking") while handlers add  *)
(* shares and close rounds.  The sums made of these amounts, which only    *)
(* RPCs show, are left out.                                                *)
(*                                                                         *)
(* Crashes.  Files are truncated, then written: a crash between leaves a   *)
(* torn file.  The wallet (the "paid" amounts) and the blocks directory    *)
(* survive, the queue and userInfos do not.                                *)
(***************************************************************************)
EXTENDS BlockPayment, FiniteSets

CONSTANTS IOThreads,          \* threads that run HandleSubmission
          KnownUsers,         \* users an earlier life of the pool saved, with balance 0
          NoFile, Torn,       \* contents of an absent and of a half-written file
          StartTip, MaxTip,   \* bounds on the height of the best block
          PAYOUT_DELAY, PayoutEvery, MIN_PAYOUT, Reward,
          UIntRange,          \* number of values of an unsigned int
          MaxShares,          \* bound: shares accepted in one behaviour
          MaxCrashes          \* bound: process crashes

Saver  == "PoolSaveThread"
Worker == "PoolWorkThread"
NoOne  == "unlocked"
Savers == IOThreads \cup {Saver}   \* the callers of saveCurrentBlock

Current  == 0                      \* the file "current"
Files    == Current..MaxTip        \* the others are named after a height
ShareLength == 6                   \* HandleSubmission's "length"

Round == [id : Nat, height : Files, xpm : Nat, calculated : BOOLEAN,
          shares : [Users -> Nat], pay : [Users -> Nat], block : Files]
IsRounds(q) == q \in Seq(Round)

UserInfos == [known : SUBSET Users, named : SUBSET Users, balance : [Users -> Nat],
              ledger : Seq(Round)]

ASSUME LedgerAssumption ==
  /\ IsFiniteSet(Users) /\ KnownUsers \subseteq Users
  /\ StartTip \in Nat \ {0} /\ MaxTip \in Nat /\ StartTip <= MaxTip
  /\ PAYOUT_DELAY \in Nat /\ PayoutEvery \in Nat \ {0}
  /\ MIN_PAYOUT \in Nat \ {0} /\ Reward \in Nat \ {0}
  /\ UIntRange \in Nat /\ UIntRange > MaxTip
  /\ MaxShares \in Nat /\ MaxCrashes \in Nat

\* The threads are different ones, and so are the contents of a file.
ASSUME NamesAssumption ==
  /\ IOThreads \cap {Saver, Worker, NoOne} = {}
  /\ NoFile # Torn /\ {NoFile, Torn} \cap Round = {} /\ {NoFile, Torn} \cap UserInfos = {}

VARIABLES
  mode,       \* the process: "down", "up", or "refused" when StartPool threw
  crashes,    \* crashes so far
  tip,        \* pindexBest->nHeight
  accepted,   \* per user, the shares accepted so far
  nextId,     \* number of the next Block object
  queue,      \* poolQueue: h .. r
  lock,       \* holder of poolQueueLock
  userInfos,  \* known and named users, balances, and the rounds credited to them
  blocks,     \* the directory pool/blocks
  archived,   \* ids of the rounds whose file was moved to pool/oldblocks
  usersFile,  \* the file pool/users
  paid,       \* per user, what transactions committed to the wallet paid him
  pc,         \* where each caller of saveCurrentBlock is
  found,      \* per io thread, the height of the block CheckWork accepted
  file,       \* per io thread, the file it writes the found round to
  work,       \* where PoolWorkThread is
  seen,       \* PoolWorkThread's pindexPrev->nHeight
  taken,      \* the round processBalances dequeued
  calculating \* where PoolWorkThread is in the rounds, and what it has read there

diskVars   == <<blocks, archived, usersFile, paid>>
bookVars   == <<accepted, nextId, queue>>
threadVars == <<pc, found, file>>
workVars   == <<work, seen, taken>>
vars == <<mode, crashes, tip, diskVars, bookVars, lock, userInfos, threadVars, workVars, calculating>>

NoRound == NewRound(0, 0)   \* Block objects are numbered from 1
AtStart == [round |-> 0, user |-> 0, shares |-> 0, total |-> 0, xpm |-> 0]
NoUsers == [known |-> {}, named |-> {}, balance |-> Nobody, ledger |-> <<>>]

Init ==
  /\ mode = "down" /\ crashes = 0
  /\ tip = StartTip
  /\ accepted = Nobody /\ nextId = 1 /\ queue = <<>>
  /\ lock = NoOne /\ userInfos = NoUsers
  /\ blocks = [f \in Files |-> NoFile] /\ archived = {}
  /\ usersFile = IF KnownUsers = {} THEN NoFile ELSE [NoUsers EXCEPT !.known = KnownUsers]
  /\ paid = Nobody
  /\ pc = [p \in Savers |-> "idle"]
  /\ found = [t \in IOThreads |-> 0] /\ file = [t \in IOThreads |-> 0]
  /\ work = "idle" /\ seen = StartTip /\ taken = NoRound /\ calculating = AtStart

\* Mutation: handlers take the lock shared.
CanLockShared(p) == lock \in {NoOne} \cup (IOThreads \ {p})

\* boost::unique_lock on poolQueueLock
CanLock(p) == lock = NoOne

-----------------------------------------------------------------------------
(* The process *)

\* Everything in memory is gone; files and wallet stay as they are.
Die ==
  /\ mode' = "down" /\ crashes' = crashes + 1
  /\ queue' = <<>> /\ lock' = NoOne /\ userInfos' = NoUsers
  /\ pc' = [p \in Savers |-> "idle"]
  /\ found' = [t \in IOThreads |-> 0] /\ file' = [t \in IOThreads |-> 0]
  /\ work' = "idle" /\ taken' = NoRound /\ calculating' = AtStart
  /\ UNCHANGED <<tip, accepted, nextId, seen>>

Crash ==
  /\ mode = "up" /\ crashes < MaxCrashes
  /\ Die
  /\ UNCHANGED diskVars

\* Mutation: usernames without entries.
LoadedUsersUnknown ==
  IF usersFile = NoFile THEN NoUsers ELSE [usersFile EXCEPT !.named = Users]

\* loadUserInfos: every user of the file gets his balance and his username.
LoadedUsers ==
  IF usersFile = NoFile THEN NoUsers ELSE [usersFile EXCEPT !.named = usersFile.known]

StartPool ==
  LET present == {f \in Files : blocks[f] # NoFile}
      loaded  == IF present = {} THEN newBlock(<<>>, nextId, 0)
                 ELSE LoadedQueue(present, blocks)
      ready   == calculateAllXPM(loaded)
  IN /\ mode = "down" /\ \A f \in present : blocks[f] # Torn
     /\ usersFile # Torn
     /\ mode' = "up"
     /\ queue' = ready
     /\ nextId' = IF present = {} THEN nextId + 1 ELSE nextId
     /\ userInfos' = LoadedUsers
     /\ seen' = tip
     /\ UNCHANGED <<crashes, tip, diskVars, accepted, lock, threadVars, work, taken, calculating>>

\* Parsing a torn file throws out of StartPool (rapidxml, json_spirit::get_obj).
StartRefused ==
  /\ mode = "down"
  /\ \/ \E f \in Files : blocks[f] = Torn
     \/ usersFile = Torn
  /\ mode' = "refused"
  /\ UNCHANGED <<crashes, tip, diskVars, bookVars, lock, userInfos, threadVars, workVars, calculating>>

(* The chain, as other nodes move it: one block more, or a branch one block longer *)

NewTip ==
  /\ mode = "up" /\ tip < MaxTip
  /\ tip' = tip + 1
  /\ UNCHANGED <<mode, crashes, diskVars, bookVars, lock, userInfos, threadVars, workVars, calculating>>

-----------------------------------------------------------------------------
(* HandleSubmission *)

\* A share below the network target: paid under the lock.
AddShares(t, u) ==
  /\ mode = "up" /\ pc[t] = "idle" /\ CanLock(t)
  /\ SumFunction(accepted) < MaxShares
  /\ queue' = addShares(queue, u, ShareLength)
  /\ accepted' = [accepted EXCEPT ![u] = @ + calcShares(ShareLength)]
  /\ UNCHANGED <<mode, crashes, tip, diskVars, nextId, lock, userInfos,
                 threadVars, workVars, calculating>>

\* A block: CheckWork made it the best one.
MineBlock(t) ==
  /\ mode = "up" /\ pc[t] = "idle" /\ tip < MaxTip
  /\ SumFunction(accepted) < MaxShares
  /\ tip' = tip + 1
  /\ found' = [found EXCEPT ![t] = tip + 1]
  /\ pc' = [pc EXCEPT ![t] = "mined"]
  /\ UNCHANGED <<mode, crashes, diskVars, bookVars, lock, userInfos, file, workVars, calculating>>

\* setHeight(pindexBest->nHeight), setXPM.
LabelRound(t) ==
  /\ mode = "up" /\ pc[t] = "mined" /\ CanLock(t)
  /\ lock' = t
  /\ queue' = setFound(queue, tip, Reward, found[t])
  /\ pc' = [pc EXCEPT ![t] = "labelled"]
  /\ UNCHANGED <<mode, crashes, tip, diskVars, accepted, nextId, userInfos,
                 found, file, workVars, calculating>>

\* addShares for the finder: the unlocked part of processBalances can come between.
AddFinderShares(t, u) ==
  /\ mode = "up" /\ pc[t] = "labelled"
  /\ queue' = addShares(queue, u, ShareLength)
  /\ accepted' = [accepted EXCEPT ![u] = @ + calcShares(ShareLength)]
  /\ pc' = [pc EXCEPT ![t] = "closed"]
  /\ UNCHANGED <<mode, crashes, tip, diskVars, nextId, lock, userInfos,
                 found, file, workVars, calculating>>

\* Mutation: saved under the name of the open round.
OpenRoundFileCurrent(t) ==
  /\ mode = "up" /\ pc[t] = "closed" /\ SavesCurrent(queue)
  /\ file' = [file EXCEPT ![t] = Current]
  /\ blocks' = [blocks EXCEPT ![Current] = Torn]
  /\ pc' = [pc EXCEPT ![t] = "writing"]
  /\ UNCHANGED <<mode, crashes, tip, archived, usersFile, paid, bookVars, lock, userInfos,
                 found, workVars, calculating>>

\* save(... pindexBest->nHeight): the best block is read once more for the name.
OpenRoundFile(t) ==
  /\ mode = "up" /\ pc[t] = "closed" /\ SavesCurrent(queue)
  /\ file' = [file EXCEPT ![t] = tip]
  /\ blocks' = [blocks EXCEPT ![tip] = Torn]
  /\ pc' = [pc EXCEPT ![t] = "writing"]
  /\ UNCHANGED <<mode, crashes, tip, archived, usersFile, paid, bookVars, lock, userInfos,
                 found, workVars, calculating>>

\* The file is complete; newBlock(0), calculateAllXPM, unlock.  No share can be added
\* meanwhile, and what the worker stores in a round already computed here is what it
\* can store right after this step, so the users need no steps of their own.
BeginRound(t) ==
  LET ready == calculateAllXPM(newBlock(queue, nextId, 0))
  IN /\ mode = "up"
     /\ \/ /\ pc[t] = "writing"
           /\ blocks' = [blocks EXCEPT ![file[t]] = SavedRound(Last(queue))]
        \/ /\ pc[t] = "closed" /\ ~SavesCurrent(queue)   \* the queue had lost its rear
           /\ UNCHANGED blocks
     /\ queue' = ready
     /\ nextId' = nextId + 1
     /\ lock' = NoOne
     /\ pc' = [pc EXCEPT ![t] = "save"]
     /\ UNCHANGED <<mode, crashes, tip, archived, usersFile, paid, accepted, userInfos,
                    found, file, workVars, calculating>>

-----------------------------------------------------------------------------
(* saveCurrentBlock: the end of HandleSubmission, and PoolSaveThread's loop *)

AtSave(p) == pc[p] = IF p = Saver THEN "idle" ELSE "save"

\* Block::save returns before it opens the file when the round has no users.
SaveNothing(t) ==
  /\ mode = "up" /\ pc[t] = "save" /\ CanLock(t)
  /\ ~SavesCurrent(queue)
  /\ pc' = [pc EXCEPT ![t] = "idle"]
  /\ UNCHANGED <<mode, crashes, tip, diskVars, bookVars, lock, userInfos, found, file, workVars, calculating>>

OpenCurrent(p) ==
  /\ mode = "up" /\ AtSave(p) /\ CanLock(p)
  /\ SavesCurrent(queue)
  /\ lock' = p
  /\ blocks' = [blocks EXCEPT ![Current] = Torn]
  /\ pc' = [pc EXCEPT ![p] = "saving"]
  /\ UNCHANGED <<mode, crashes, tip, archived, usersFile, paid, bookVars, userInfos,
                 found, file, workVars, calculating>>

WriteCurrent(p) ==
  /\ mode = "up" /\ pc[p] = "saving"
  /\ blocks' = [blocks EXCEPT ![Current] = SavedRound(Last(queue))]
  /\ lock' = NoOne
  /\ pc' = [pc EXCEPT ![p] = "idle"]
  /\ UNCHANGED <<mode, crashes, tip, archived, usersFile, paid, bookVars, userInfos,
                 found, file, workVars, calculating>>

\* PoolSaveThread's getCurrent()->getRunningTotal() once the queue is empty: the
\* worker died on the rename of the last round.
SaverDereferencesNull ==
  /\ mode = "up" /\ pc[Saver] = "idle" /\ queue = <<>>
  /\ Die
  /\ UNCHANGED diskVars

-----------------------------------------------------------------------------
(* PoolWorkThread and processBalances(seen) *)

\* pindexPrev != pindexBest: Sendwork (PoolWork.tla), then pindexPrev is read again.
WakeWorker ==
  /\ mode = "up" /\ work = "idle" /\ seen # tip
  /\ seen' = tip /\ work' = "enter"
  /\ UNCHANGED <<mode, crashes, tip, diskVars, bookVars, lock, userInfos, threadVars, taken, calculating>>

EnterProcessBalances ==
  /\ mode = "up" /\ work = "enter" /\ CanLock(Worker)
  /\ lock' = Worker /\ work' = "scan"
  /\ UNCHANGED <<mode, crashes, tip, diskVars, bookVars, userInfos, threadVars, seen, taken, calculating>>

\* Mutation: the delay is forgotten.
MaturedAtOnce(height) == height # 0 /\ height < seen % UIntRange

\* Mutation: off by one.
MaturedLate(height) == height # 0 /\ height + 1 < (seen - PAYOUT_DELAY) % UIntRange

\* The loop's condition on the head's height, in unsigned arithmetic.
Matured(height) == height # 0 /\ height < (seen - PAYOUT_DELAY) % UIntRange

\* deq, calculateXPMPerUser, addBalance for each user; saveUserInfos truncates the file.
CreditRound ==
  LET head == Head(queue)
      r    == IF head.calculated THEN head ELSE calculateXPMPerUser(head)
  IN /\ mode = "up" /\ work = "scan" /\ queue # <<>> /\ Matured(head.height)
     /\ queue' = deq(queue) /\ taken' = r
     /\ userInfos' = [userInfos EXCEPT
                        !.known = @ \cup UserList(r),
                        !.balance = [u \in Users |-> @[u] + r.pay[u]],
                        !.ledger = Append(@, r)]
     /\ usersFile' = Torn
     /\ work' = "credited"
     /\ UNCHANGED <<mode, crashes, tip, blocks, archived, paid, accepted, nextId,
                    lock, threadVars, seen, calculating>>

\* Mutation: saveUserInfos before the loop that adds the balances.
SavedUsersBeforeCredit ==
  [userInfos EXCEPT !.named = {}, !.ledger = Front(@),
                    !.balance = [u \in Users |-> @[u] - taken.pay[u]]]

\* The entries saveUserInfos writes: addresses and amounts, no usernames.
SavedUsers == [userInfos EXCEPT !.named = {}]

WriteUsers ==
  /\ mode = "up" /\ work = "credited"
  /\ usersFile' = SavedUsers
  /\ work' = "move"
  /\ UNCHANGED <<mode, crashes, tip, blocks, archived, paid, bookVars, lock, userInfos,
                 threadVars, seen, taken, calculating>>

\* rename(blocks/height, oldblocks/height)
MoveRoundFile ==
  /\ mode = "up" /\ work = "move" /\ blocks[taken.height] # NoFile
  /\ archived' = archived \cup {blocks[taken.height].id}
  /\ blocks' = [blocks EXCEPT ![taken.height] = NoFile]
  /\ work' = "scan" /\ taken' = NoRound
  /\ UNCHANGED <<mode, crashes, tip, usersFile, paid, bookVars, lock, userInfos,
                 threadVars, seen, calculating>>

\* rename throws: the exception unlocks and leaves PoolWorkThread's loop for good.
MoveFails ==
  /\ mode = "up" /\ work = "move" /\ blocks[taken.height] = NoFile
  /\ lock' = NoOne /\ work' = "dead" /\ taken' = NoRound
  /\ UNCHANGED <<mode, crashes, tip, diskVars, bookVars, userInfos, threadVars, seen, calculating>>

\* The loop's condition dereferences peek() after the last round was dequeued.
ScanEmptyQueue ==
  /\ mode = "up" /\ work = "scan" /\ queue = <<>>
  /\ Die
  /\ UNCHANGED diskVars

LeaveScan ==
  /\ mode = "up" /\ work = "scan" /\ queue # <<>> /\ ~Matured(Head(queue).height)
  /\ lock' = NoOne /\ work' = "calculate" /\ calculating' = AtStart
  /\ UNCHANGED <<mode, crashes, tip, diskVars, bookVars, userInfos, threadVars, seen, taken>>

(* updateUnconfirmedUserBalances without the lock: calculateAllXPM *)

\* Rounds after the worker's place that are to be computed.
ToCalculate == {i \in DOMAIN queue : i > calculating.round /\ NeedsCalculation(queue[i])
                                       /\ UserList(queue[i]) # {}}

\* What the worker reads when it comes to user u of round i.
Reading(i, u, total) ==
  [round |-> i, user |-> u, shares |-> queue[i].shares[u], total |-> total, xpm |-> queue[i].xpm]

\* The next round without amounts, and its first user.
NextRound ==
  /\ mode = "up" /\ work = "calculate" /\ calculating.user = 0 /\ ToCalculate # {}
  /\ LET i == Min(ToCalculate)
     IN calculating' = Reading(i, Min(UserList(queue[i])), RunningTotal(queue[i]))
  /\ UNCHANGED <<mode, crashes, tip, diskVars, bookVars, lock, userInfos, threadVars, workVars>>

\* The user's amount, of what was read before or is there now: the round's total may
\* have been loaded once for all its users.  Then the next user of the list.
StoreXPM ==
  LET i == calculating.round
      u == calculating.user
      later == UsersAfter(queue[i], u)
  IN /\ mode = "up" /\ work = "calculate" /\ u # 0
     /\ \E total \in {calculating.total, RunningTotal(queue[i])},
           xpm \in {calculating.xpm, queue[i].xpm} :
          queue' = [queue EXCEPT ![i].pay[u] = Portion(xpm, calculating.shares, total)]
     /\ \/ /\ later # {}
           /\ calculating' = Reading(i, Min(later), calculating.total)
           /\ UNCHANGED work
        \/ /\ later = {}
           /\ calculating' = [AtStart EXCEPT !.round = i]
           /\ work' = "marking"
     /\ UNCHANGED <<mode, crashes, tip, diskVars, accepted, nextId, lock, userInfos,
                    threadVars, seen, taken>>

\* calculatedXPM = true, whatever was added to the round since.
MarkCalculated ==
  /\ mode = "up" /\ work = "marking"
  /\ queue' = [queue EXCEPT ![calculating.round].calculated = TRUE]
  /\ work' = "calculate"
  /\ UNCHANGED <<mode, crashes, tip, diskVars, accepted, nextId, lock, userInfos,
                 threadVars, seen, taken, calculating>>

LeaveCalculation ==
  /\ mode = "up" /\ work = "calculate" /\ calculating.user = 0 /\ ToCalculate = {}
  /\ work' = "pay" /\ calculating' = AtStart
  /\ UNCHANGED <<mode, crashes, tip, diskVars, bookVars, lock, userInfos, threadVars,
                 seen, taken>>

\* Users who are due a payment: the address checked is the entry's username.
Due == IF seen % PayoutEvery = 0
       THEN {u \in userInfos.named : userInfos.balance[u] >= MIN_PAYOUT}
       ELSE {}

\* No one is due, or CreateTransaction or CommitTransaction failed.
NoPayout ==
  /\ mode = "up" /\ work = "pay"
  /\ work' = "idle"
  /\ UNCHANGED <<mode, crashes, tip, diskVars, bookVars, lock, userInfos, threadVars,
                 seen, taken, calculating>>

\* Mutation: every balance is reset.
ResetAll(balances) == Nobody

Reset(balances) == [u \in Users |-> IF u \in Due THEN 0 ELSE balances[u]]

\* The transaction is in the wallet; the balances are reset in memory only.
SendPayouts ==
  /\ mode = "up" /\ work = "pay" /\ Due # {}
  /\ paid' = [u \in Users |-> IF u \in Due THEN paid[u] + userInfos.balance[u] ELSE paid[u]]
  /\ userInfos' = [userInfos EXCEPT !.balance = Reset(@)]
  /\ work' = "idle"
  /\ UNCHANGED <<mode, crashes, tip, blocks, archived, usersFile, bookVars, lock,
                 threadVars, seen, taken, calculating>>

\* EnsureWalletIsUnlocked throws a json Object, which no handler of the thread catches.
WalletLocked ==
  /\ mode = "up" /\ work = "pay" /\ Due # {} /\ crashes < MaxCrashes
  /\ Die
  /\ UNCHANGED diskVars

-----------------------------------------------------------------------------
Handler(t) ==
  \/ \E u \in Users : AddShares(t, u) \/ AddFinderShares(t, u)
  \/ MineBlock(t) \/ LabelRound(t) \/ OpenRoundFile(t) \/ BeginRound(t) \/ SaveNothing(t)

SaveCurrent(p) == OpenCurrent(p) \/ WriteCurrent(p)

ProcessBalances ==
  \/ EnterProcessBalances \/ CreditRound \/ WriteUsers \/ MoveRoundFile \/ MoveFails
  \/ ScanEmptyQueue \/ LeaveScan
  \/ NextRound \/ StoreXPM \/ MarkCalculated \/ LeaveCalculation
  \/ NoPayout \/ SendPayouts \/ WalletLocked

Next ==
  \/ Crash \/ StartPool \/ StartRefused
  \/ NewTip
  \/ \E t \in IOThreads : Handler(t)
  \/ \E p \in Savers : SaveCurrent(p)
  \/ SaverDereferencesNull
  \/ WakeWorker \/ ProcessBalances

Spec == Init /\ [][Next]_vars

\* Threads keep running, and one that waits for poolQueueLock gets it in the end.
HandlerEnds(t) ==
  \/ LabelRound(t) \/ \E u \in Users : AddFinderShares(t, u)
  \/ OpenRoundFile(t) \/ BeginRound(t) \/ SaveNothing(t)

Fairness ==
  /\ WF_vars(StartPool) /\ WF_vars(WakeWorker) /\ SF_vars(ProcessBalances)
  /\ \A t \in IOThreads : SF_vars(HandlerEnds(t) \/ SaveCurrent(t))
  /\ WF_vars(WriteCurrent(Saver))

FairSpec == Spec /\ Fairness

-----------------------------------------------------------------------------
(* Properties *)

Ids(q) == {q[i].id : i \in DOMAIN q}
SharesIn(q, u) == SumFunction([i \in DOMAIN q |-> q[i].shares[u]])
PayIn(q, u) == SumFunction([i \in DOMAIN q |-> q[i].pay[u]])

IsUsers(x) == x \in UserInfos /\ x.named \subseteq x.known

\* Every variable keeps its type.
TypeOK ==
  /\ mode \in {"down", "up", "refused"} /\ crashes \in Nat
  /\ tip \in StartTip..MaxTip
  /\ accepted \in [Users -> Nat] /\ nextId \in Nat
  /\ IsRounds(queue)
  /\ lock \in Savers \cup {Worker, NoOne}
  /\ IsUsers(userInfos)
  /\ DOMAIN blocks = Files
  /\ \A f \in Files : blocks[f] \in {NoFile, Torn} \/ blocks[f] \in Round
  /\ archived \subseteq Nat
  /\ usersFile \in {NoFile, Torn} \/ IsUsers(usersFile)
  /\ paid \in [Users -> Nat]
  /\ pc \in [Savers -> {"idle", "mined", "labelled", "closed", "writing", "save", "saving"}]
  /\ found \in [IOThreads -> Files] /\ file \in [IOThreads -> Files]
  /\ work \in {"idle", "enter", "scan", "credited", "move", "calculate", "marking", "pay",
               "dead"}
  /\ seen \in StartTip..MaxTip /\ taken \in Round
  /\ calculating \in [round : Nat, user : Users \cup {0}, shares : Nat, total : Nat, xpm : Nat]

\* pool.cpp 585, 604, 212: every share a miner was told is accepted is counted
\* in exactly one round, from the submission to the credit.
SharesConserved ==
  crashes = 0 => \A u \in Users :
    accepted[u] = SharesIn(queue, u) + SharesIn(userInfos.ledger, u)

\* pool.cpp 188, 246, 254: what a user was credited is in his balance or was
\* paid to him, never both and never neither, while the pool has not crashed.
BalanceConserved ==
  crashes = 0 => \A u \in Users :
    userInfos.balance[u] + paid[u] = PayIn(userInfos.ledger, u)

\* pool.cpp 219-221: a round's file leaves the blocks directory only after the
\* users file holds its credit, so no crash can lose a credited round (a users
\* file torn by a later credit stops StartPool instead), while one handler at a
\* time finds a block: two can label rounds with one height and share a file.
NoCreditLost ==
  \A id \in archived :
    /\ usersFile # NoFile
    /\ usersFile = Torn => mode # "up" \/ work = "credited"
    /\ usersFile # Torn => id \in Ids(usersFile.ledger)
    /\ mode = "up" => id \in Ids(userInfos.ledger)

\* pool.cpp 211, 582: a round is credited only when PAYOUT_DELAY blocks have been
\* built on the block it found, though its height is read after that block and in
\* unsigned arithmetic (below height PAYOUT_DELAY the difference wraps).
CreditedIsConfirmed ==
  [][work' = "credited" /\ work # "credited" /\ seen >= PAYOUT_DELAY =>
       taken'.block + PAYOUT_DELAY < tip]_vars

\* pool.cpp 563, 582, 587, 592: every found round in the queue is on disk, whichever
\* height the moving best block gave its file (one handler at a time).
FoundRoundsOnDisk ==
  mode = "up" /\ crashes = 0 => \A i \in 1..(Len(queue) - 1) :
    \E f \in Files : blocks[f] \in Round /\ blocks[f].id = queue[i].id

\* pool.cpp 205-225, 677: a found round PAYOUT_DELAY below the best block is
\* credited, unless a failed rename has ended PoolWorkThread.
MaturedIsCredited ==
  \A id \in 1..MaxShares :    \* every found round has a share of its own
    (\E i \in DOMAIN queue : queue[i].id = id /\ queue[i].height # 0
                               /\ queue[i].height + PAYOUT_DELAY < tip)
      ~> (id \in Ids(userInfos.ledger) \/ work = "dead" \/ crashes > 0)

-----------------------------------------------------------------------------
(* The accounts the threads, locks and files implement *)

\* A found round is open until its finder's share is in it.
RearIsOpen ==
  queue # <<>> /\ (Last(queue).height = 0 \/ \E t \in IOThreads : pc[t] = "labelled")

Accounts == INSTANCE PoolAccounts WITH
  ShareValues <- {calcShares(ShareLength)},
  live        <- crashes = 0,
  open        <- IF RearIsOpen THEN Last(queue).shares ELSE Nobody,
  closed      <- [i \in 1..(IF RearIsOpen THEN Len(queue) - 1 ELSE Len(queue)) |-> queue[i].shares],
  balance     <- userInfos.balance

\* pool.cpp 205-259, 576-605: shares, rounds, credits and payouts follow PoolAccounts,
\* though a round is closed, credited and paid by several threads in many steps.
ImplementsAccounts == Accounts!Spec

-----------------------------------------------------------------------------
(* What the code says and does not do *)

\* pool.cpp 220 "Move the file to the oldblocks location so we dont double
\* spend": no round is credited twice, crashes and restarts included.
NeverCreditedAgain == Cardinality(Ids(userInfos.ledger)) = Len(userInfos.ledger)

=============================================================================
