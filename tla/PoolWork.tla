----------------------------- MODULE PoolWork -----------------------------
(***************************************************************************)
(* The connections of the pool (pool.cpp): PoolAcceptThread accepts them,  *)
(* a thread per connection (CPoolClient::Run) greets the miner, sends the  *)
(* first work and registers the client, PoolWorkThread sends new work to   *)
(* every registered client when the best block changes, and the io_service *)
(* threads run HandleSubmission, of which a client has at most one at a    *)
(* time.                                                                   *)
(*                                                                         *)
(* clientsLock guards the registry, and the worker keeps it while it sends *)
(* to every client.  Nothing guards a client's keys and submitted list:    *)
(* Sendwork writes them on the worker's thread while HandleSubmission of   *)
(* the same client reads them on another.  Each group of reads or writes   *)
(* another thread can come between is an action.                           *)
(*                                                                         *)
(* A work unit is a parent block and a merkle root.  The coinbase a root   *)
(* is computed from holds a height and an extraNonce; IncrementExtraNonce  *)
(* restarts the caller's count whenever its static hashPrevBlock, shared   *)
(* by every thread that makes templates, is not the template's parent.     *)
(* A solution is the rest of a header, with the birthdays; ShareSolutions  *)
(* meet the share target, BlockSolutions the network's too.  What a        *)
(* credited submission earns is in PoolLedger.                             *)
(***************************************************************************)
EXTENDS Integers, FiniteSets

CONSTANTS Clients,          \* the connections of a behaviour
          ShareSolutions, BlockSolutions,
          NoSolution,       \* in place of one
          StartTip, MaxTip, \* the best block: a new number each time it changes
          AcceptLimit       \* 600 in PoolAcceptThread

Solutions == ShareSolutions \cup BlockSolutions

ASSUME WorkAssumption ==
  /\ IsFiniteSet(Clients) /\ NoSolution \notin Solutions
  /\ ShareSolutions \cap BlockSolutions = {}
  /\ StartTip \in Nat \ {0} /\ MaxTip \in Nat /\ StartTip <= MaxTip
  /\ AcceptLimit \in Nat

VARIABLES
  tip,         \* pindexBest
  conn,        \* per connection, how far Run or HandleSubmission has come
  closed,      \* connections the miner has closed
  silent,      \* connections whose miner no longer reads
  clients,     \* CPoolClient::clients
  clientsLock, \* held by PoolWorkThread
  hashPrevBlock, \* the static of IncrementExtraNonce
  template,    \* per client, the parent of the template being sent
  extraNonce,  \* per client
  work,        \* per client, keys[0].block: the parent and the root
  stage,       \* per client, how far a Sendwork to him has come
  issued,      \* per client, the work units written to his socket
  submitted,   \* per client, the solutions in his submitted list
  sub,         \* per client, the submission being handled
  paid,        \* per client, root and solution: times it was paid as a share
  mined,       \* the submissions CheckWork accepted, by parent
  worker,      \* PoolWorkThread
  todo,        \* registered clients its loop has not sent to yet
  seen         \* its pindexPrev

clientVars == <<hashPrevBlock, template, extraNonce, work, stage, issued, submitted>>
workerVars == <<worker, todo, seen>>
vars == <<tip, conn, closed, silent, clients, clientsLock, clientVars, sub, paid, mined,
          workerVars>>

Tips    == {n \in Nat : n >= StartTip}
Roots   == [height : Tips \cup {0}, nonce : Nat]
NoRoot  == [height |-> 0, nonce |-> 0]
NoWork  == [prev |-> StartTip, root |-> NoRoot]    \* keys[0] before the first Sendwork
NoSub   == [prev |-> StartTip, root |-> NoRoot, sol |-> NoSolution]

Init ==
  /\ tip = StartTip
  /\ conn = [c \in Clients |-> "free"] /\ closed = {} /\ silent = {}
  /\ clients = {} /\ clientsLock = FALSE
  /\ hashPrevBlock = 0
  /\ template = [c \in Clients |-> StartTip]
  /\ extraNonce = [c \in Clients |-> 0]
  /\ work = [c \in Clients |-> NoWork]
  /\ stage = [c \in Clients |-> "done"]
  /\ issued = [c \in Clients |-> {}]
  /\ submitted = [c \in Clients |-> {}]
  /\ sub = [c \in Clients |-> NoSub]
  /\ paid = [c \in Clients |-> [s \in {} |-> 0]]
  /\ mined = {}
  /\ worker = "idle" /\ todo = {} /\ seen = StartTip

\* Another node's block becomes the best one.
NewTip ==
  /\ tip < MaxTip
  /\ tip' = tip + 1
  /\ UNCHANGED <<conn, closed, silent, clients, clientsLock, clientVars, sub, paid, mined,
                 workerVars>>

\* The miner's socket is closed or lost.
CloseSocket(c) ==
  /\ conn[c] \notin {"free", "gone", "leaked"} /\ c \notin closed
  /\ closed' = closed \cup {c}
  /\ UNCHANGED <<tip, conn, silent, clients, clientsLock, clientVars, sub, paid, mined,
                 workerVars>>

\* The miner has left his socket open and reads no more, as the next write to him
\* finds: it never returns.
StopReading(c) ==
  /\ stage[c] = "assigned" \/ conn[c] = "answering"
  /\ c \notin closed \cup silent
  /\ silent' = silent \cup {c}
  /\ UNCHANGED <<tip, conn, closed, clients, clientsLock, clientVars, sub, paid, mined,
                 workerVars>>

-----------------------------------------------------------------------------
(* Sendwork, called by Run before the client is registered and by the      *)
(* worker after.                                                           *)

MaySend(c) == \/ conn[c] = "greeted"
              \/ /\ worker = "sending" /\ c \in todo
                 /\ \A d \in todo : stage[d] = "done"   \* one client after the other

\* CreateNewBlock, on the best block.
CreateTemplate(c) ==
  /\ MaySend(c) /\ stage[c] = "done"
  /\ template' = [template EXCEPT ![c] = tip]
  /\ stage' = [stage EXCEPT ![c] = "created"]
  /\ UNCHANGED <<tip, conn, closed, silent, clients, clientsLock, hashPrevBlock, extraNonce,
                 work, issued,
                 submitted, sub, paid, mined, workerVars>>

\* hashPrevBlock != pblock->hashPrevBlock; two threads at it may both find it so.
Restarts(c) == {hashPrevBlock # template[c]}
                 \cup {TRUE : d \in {d \in Clients \ {c} : stage[d] = "created"}}

\* Mutation: the parent is not the template's.
WorkOfNext(c, nonce) == [prev |-> template[c] + 1, root |-> [height |-> tip, nonce |-> nonce]]

\* The height in the coinbase is pindexBest's when IncrementExtraNonce is called.
WorkOf(c, nonce) == [prev |-> template[c], root |-> [height |-> tip, nonce |-> nonce]]

\* IncrementExtraNonce; keys[0].block = *pblock
AssignWork(c) ==
  \E restart \in Restarts(c) :
    LET nonce == (IF restart THEN 0 ELSE extraNonce[c]) + 1
    IN /\ stage[c] = "created"
       /\ hashPrevBlock' = template[c]
       /\ extraNonce' = [extraNonce EXCEPT ![c] = nonce]
       /\ work' = [work EXCEPT ![c] = WorkOf(c, nonce)]
       /\ stage' = [stage EXCEPT ![c] = "assigned"]
       /\ UNCHANGED <<tip, conn, closed, silent, clients, clientsLock, template, issued,
                      submitted, sub, paid,
                      mined, workerVars>>

WriteWork(c) ==
  /\ stage[c] = "assigned" /\ c \notin silent
  /\ issued' = [issued EXCEPT ![c] = @ \cup {work[c]}]
  /\ stage' = [stage EXCEPT ![c] = "written"]
  /\ UNCHANGED <<tip, conn, closed, silent, clients, clientsLock, hashPrevBlock, template,
                 extraNonce, work,
                 submitted, sub, paid, mined, workerVars>>

\* Sendwork returns: Run goes on to register, the worker to the next client.
Sent(c) ==
  /\ stage' = [stage EXCEPT ![c] = "done"]
  /\ conn' = [conn EXCEPT ![c] = IF @ = "greeted" THEN "served" ELSE @]
  /\ todo' = todo \ {c}
  /\ UNCHANGED <<tip, closed, silent, clients, clientsLock, hashPrevBlock, template,
                 extraNonce, work, issued,
                 sub, paid, mined, worker, seen>>

ClearSubmitted(c) ==
  /\ stage[c] = "written"
  /\ submitted' = [submitted EXCEPT ![c] = {}]
  /\ Sent(c)

\* No block template: return.
TemplateFails(c) ==
  /\ MaySend(c) /\ stage[c] = "done"
  /\ UNCHANGED submitted
  /\ Sent(c)

\* The write throws: Sendwork returns without clearing the list.
WriteWorkFails(c) ==
  /\ stage[c] = "assigned" /\ c \in closed
  /\ UNCHANGED submitted
  /\ Sent(c)

Sendwork(c) ==
  \/ CreateTemplate(c) \/ AssignWork(c) \/ WriteWork(c) \/ ClearSubmitted(c)
  \/ TemplateFails(c) \/ WriteWorkFails(c)

\* The node's own miner or a getwork call goes through IncrementExtraNonce.
OtherMiner ==
  \E parent \in StartTip..tip :
    /\ hashPrevBlock # parent
    /\ hashPrevBlock' = parent
    /\ UNCHANGED <<tip, conn, closed, silent, clients, clientsLock, template, extraNonce, work,
                   stage, issued,
                   submitted, sub, paid, mined, workerVars>>

-----------------------------------------------------------------------------
\* Mutation: clients are registered and erased without the lock.
ClientsUnlocked(c) == TRUE

\* boost::unique_lock on clientsLock, for Run and HandleSubmission
ClientsFree(c) == ~clientsLock

(* PoolAcceptThread and CPoolClient::Run *)

\* The size of the registry is read without clientsLock.
Accept(c) ==
  /\ conn[c] = "free" /\ Cardinality(clients) <= AcceptLimit
  /\ conn' = [conn EXCEPT ![c] = "running"]
  /\ UNCHANGED <<tip, closed, silent, clients, clientsLock, clientVars, sub, paid, mined,
                 workerVars>>

ReadHello(c) ==
  /\ conn[c] = "running"
  /\ conn' = [conn EXCEPT ![c] = "greeted"]
  /\ UNCHANGED <<tip, closed, silent, clients, clientsLock, clientVars, sub, paid, mined,
                 workerVars>>

\* A short hello or a lost connection: Run returns and the object is kept by no one.
HelloFails(c) ==
  /\ conn[c] = "running"
  /\ conn' = [conn EXCEPT ![c] = "leaked"]
  /\ UNCHANGED <<tip, closed, silent, clients, clientsLock, clientVars, sub, paid, mined,
                 workerVars>>

Register(c) ==
  /\ conn[c] = "served" /\ ClientsFree(c)
  /\ clients' = clients \cup {c}
  /\ conn' = [conn EXCEPT ![c] = "reading"]
  /\ UNCHANGED <<tip, closed, silent, clientsLock, clientVars, sub, paid, mined, workerVars>>

-----------------------------------------------------------------------------
(* HandleSubmission *)

\* The 88 bytes of a submission for work the miner was sent have arrived.
Receive(c) ==
  \E w \in issued[c], sol \in Solutions :
    /\ conn[c] = "reading"
    /\ sol \in BlockSolutions => tip < MaxTip   \* bound on the blocks found
    /\ sub' = [sub EXCEPT ![c] = [prev |-> w.prev, root |-> w.root, sol |-> sol]]
    /\ conn' = [conn EXCEPT ![c] = "matching"]
    /\ UNCHANGED <<tip, closed, silent, clients, clientsLock, clientVars, paid, mined,
                   workerVars>>

\* The loop over keys: kbp is found, or the submission is answered with 0.
MatchRoot(c) ==
  /\ conn[c] = "matching"
  /\ conn' = [conn EXCEPT ![c] = IF work[c].root = sub[c].root THEN "checking" ELSE "answering"]
  /\ UNCHANGED <<tip, closed, silent, clients, clientsLock, clientVars, sub, paid, mined,
                 workerVars>>

\* Mutation: the submitted list is not looked at.
ValidWithoutList(c) == sub[c].prev = work[c].prev /\ sub[c].root = work[c].root

\* hashPrevBlock, the submitted list, and the fields of kbp->block once more.
Valid(c) ==
  /\ sub[c].prev = work[c].prev
  /\ sub[c].sol \notin submitted[c]
  /\ sub[c].root = work[c].root

Verdict(c) == CASE ~Valid(c) -> "answering"
                [] Valid(c) /\ sub[c].sol \in BlockSolutions -> "solved"
                [] OTHER -> "earned"

CheckSubmission(c) ==
  /\ conn[c] = "checking"
  /\ conn' = [conn EXCEPT ![c] = Verdict(c)]
  /\ UNCHANGED <<tip, closed, silent, clients, clientsLock, clientVars, sub, paid, mined,
                 workerVars>>

TimesPaid(c, s) == IF s \in DOMAIN paid[c] THEN paid[c][s] ELSE 0

\* submitted.push_back, then poolQueue.addShares.
PayShare(c) ==
  /\ conn[c] = "earned"
  /\ submitted' = [submitted EXCEPT ![c] = @ \cup {sub[c].sol}]
  /\ paid' = [paid EXCEPT ![c] = [s \in DOMAIN @ \cup {sub[c]} |->
                                    IF s = sub[c] THEN TimesPaid(c, s) + 1 ELSE @[s]]]
  /\ conn' = [conn EXCEPT ![c] = "answering"]
  /\ UNCHANGED <<tip, closed, silent, clients, clientsLock, hashPrevBlock, template,
                 extraNonce, work, stage,
                 issued, sub, mined, workerVars>>

\* Mutation: no stale check.
AcceptedStale(c) == sub[c].root = work[c].root

\* CheckWork under cs_main: the parent is hashBestChain, and ProcessBlock finds
\* the merkle root to be that of the transactions copied from kbp->block.
Accepted(c) == sub[c].prev = tip /\ sub[c].root = work[c].root

CheckWork(c) ==
  /\ conn[c] = "solved"
  /\ IF Accepted(c)
     THEN tip' = tip + 1 /\ mined' = mined \cup {[client |-> c, sub |-> sub[c]]}
     ELSE UNCHANGED <<tip, mined>>
  /\ conn' = [conn EXCEPT ![c] = "answering"]
  /\ UNCHANGED <<closed, silent, clients, clientsLock, clientVars, sub, paid, workerVars>>

\* The response is written and the next read is started.
Answer(c) ==
  /\ conn[c] = "answering" /\ c \notin silent
  /\ conn' = [conn EXCEPT ![c] = "reading"]
  /\ sub' = [sub EXCEPT ![c] = NoSub]
  /\ UNCHANGED <<tip, closed, silent, clients, clientsLock, clientVars, paid, mined, workerVars>>

\* The write throws: no read is started, and the client stays registered.
AnswerFails(c) ==
  /\ conn[c] = "answering" /\ c \in closed
  /\ conn' = [conn EXCEPT ![c] = "abandoned"]
  /\ sub' = [sub EXCEPT ![c] = NoSub]
  /\ UNCHANGED <<tip, closed, silent, clients, clientsLock, clientVars, paid, mined, workerVars>>

\* Mutation: the loop stops at i > 0.
EraseButFirst(c) == IF clients = {c} THEN clients ELSE clients \ {c}

Erase(c) == clients \ {c}

\* The read ends with an error: erase from clients, delete this.
Disconnect(c) ==
  /\ conn[c] = "reading" /\ c \in closed /\ ClientsFree(c)
  /\ clients' = Erase(c)
  /\ conn' = [conn EXCEPT ![c] = "gone"]
  /\ UNCHANGED <<tip, closed, silent, clientsLock, clientVars, sub, paid, mined, workerVars>>

HandleSubmission(c) ==
  \/ Receive(c) \/ MatchRoot(c) \/ CheckSubmission(c) \/ PayShare(c) \/ CheckWork(c)
  \/ Answer(c) \/ AnswerFails(c) \/ Disconnect(c)

-----------------------------------------------------------------------------
(* PoolWorkThread *)

StartSending ==
  /\ worker = "idle" /\ seen # tip /\ ~clientsLock
  /\ clientsLock' = TRUE /\ worker' = "sending" /\ todo' = clients
  /\ UNCHANGED <<tip, conn, closed, silent, clients, clientVars, sub, paid, mined, seen>>

\* The loop is over: unlock, pindexPrev = pindexBest, read once more.
FinishSending ==
  /\ worker = "sending" /\ todo = {}
  /\ clientsLock' = FALSE /\ worker' = "idle" /\ seen' = tip
  /\ UNCHANGED <<tip, conn, closed, silent, clients, clientVars, sub, paid, mined, todo>>

-----------------------------------------------------------------------------
Run(c) == ReadHello(c) \/ HelloFails(c) \/ Register(c)

Next ==
  \/ NewTip \/ OtherMiner \/ StartSending \/ FinishSending
  \/ \E c \in Clients :
       CloseSocket(c) \/ StopReading(c) \/ Accept(c) \/ Run(c) \/ Sendwork(c) \/ HandleSubmission(c)

Spec == Init /\ [][Next]_vars

\* The worker runs on unless it writes to a silent miner, and so does a handler; one
\* that waits for clientsLock gets it if it is free again and again.
Fairness ==
  /\ WF_vars(FinishSending \/ \E c \in todo : Sendwork(c))
  /\ \A c \in Clients :
       /\ WF_vars(MatchRoot(c) \/ CheckSubmission(c) \/ PayShare(c) \/ CheckWork(c)
                    \/ Answer(c) \/ AnswerFails(c))
       /\ SF_vars(Disconnect(c))

FairSpec == Spec /\ Fairness

-----------------------------------------------------------------------------
(* Properties *)

Handling == {"matching", "checking", "solved", "earned", "answering"}
Registered == {"reading", "abandoned"} \cup Handling

WorkUnit   == [prev : Tips, root : Roots]
Submission == [prev : Tips, root : Roots, sol : Solutions \cup {NoSolution}]

TypeOK ==
  /\ tip \in Tips
  /\ conn \in [Clients -> {"free", "running", "leaked", "greeted", "served", "gone"}
                            \cup Registered]
  /\ closed \subseteq Clients /\ silent \subseteq Clients
  /\ clients \subseteq Clients /\ clientsLock \in BOOLEAN
  /\ hashPrevBlock \in Tips \cup {0} /\ extraNonce \in [Clients -> Nat]
  /\ template \in [Clients -> Tips] /\ \A c \in Clients : template[c] <= tip
  /\ work \in [Clients -> WorkUnit] /\ \A c \in Clients : work[c].prev <= tip
  /\ stage \in [Clients -> {"done", "created", "assigned", "written"}]
  /\ issued \in [Clients -> SUBSET WorkUnit]
  /\ submitted \in [Clients -> SUBSET Solutions]
  /\ sub \in [Clients -> Submission]
  /\ \A c \in Clients : conn[c] \in Handling => sub[c].sol \in Solutions
  /\ DOMAIN paid = Clients
  /\ \A c \in Clients : DOMAIN paid[c] \subseteq Submission
                        /\ paid[c] \in [DOMAIN paid[c] -> Nat]
  /\ mined \subseteq [client : Clients, sub : Submission]
  /\ worker \in {"idle", "sending"} /\ todo \subseteq Clients /\ seen \in Tips

\* pool.cpp 341, 640-649, 687: the registry holds exactly the clients that have
\* been registered and not deleted.
RegistryIsExact == \A c \in Clients : c \in clients <=> conn[c] \in Registered

\* pool.cpp 649, 687-688: no thread sends work through a CPoolClient that
\* HandleSubmission has deleted or Run has given up, whatever the order of
\* disconnections, registrations and new best blocks.
NoUseAfterFree ==
  \A c \in Clients :
    stage[c] # "done" \/ (worker = "sending" /\ c \in todo) => conn[c] \notin {"gone", "leaked"}

\* pool.cpp 544-549, 597, 398, main.cpp 4772: a share is paid at most twice, once on
\* each side of one clear() of Sendwork, though a client can be sent the same
\* merkle root again.
PaidAtMostTwice == \A c \in Clients : \A s \in DOMAIN paid[c] : paid[c][s] <= 2

\* pool.cpp 576, main.cpp 4857: of the blocks found on one parent, by any
\* clients on any threads, the round is closed by one.
OneBlockPerParent == \A m, n \in mined : m.sub.prev = n.sub.prev => m = n

\* What makes the registry and the worker's loop safe: the worker holds the lock
\* while it sends, to registered clients only, and a Sendwork under way is
\* Run's or the worker's.
RegistryInv ==
  /\ RegistryIsExact
  /\ clientsLock <=> worker = "sending"
  /\ todo \subseteq clients /\ (worker = "idle" => todo = {})
  /\ \A c \in Clients : stage[c] # "done" => conn[c] = "greeted" \/ c \in todo

\* Every parent mined on is behind the best block.
MinedInv == OneBlockPerParent /\ \A m \in mined : m.sub.prev < tip

\* No root is ahead of the best block.  The worker sends to a client once for the
\* heights above seen, and what it then sends has such a height; before he is
\* registered a client is paid nothing.
HeightsInv ==
  /\ seen <= tip /\ (worker = "sending" => seen < tip)
  /\ \A c \in Clients :
       /\ work[c].root.height <= tip /\ sub[c].root.height <= tip
       /\ \A w \in issued[c] : w.root.height <= tip
       /\ \A s \in DOMAIN paid[c] : s.root.height <= tip
       /\ stage[c] \in {"assigned", "written"} /\ c \in todo => work[c].root.height > seen
       /\ DOMAIN paid[c] # {} => conn[c] \in Registered \cup {"gone"}

\* The worker has not sent to c for the heights above seen: c's list has not been
\* cleared since he was paid for a root of such a height.
Unsent(c) == worker = "idle" \/ c \in todo

SharesOK(c) ==
  \A s \in DOMAIN paid[c] :
    /\ paid[c][s] <= 2
    /\ s.root = work[c].root /\ paid[c][s] = 2 => s.sol \in submitted[c]
    /\ Unsent(c) /\ s.root.height > seen => paid[c][s] <= 1 /\ s.sol \in submitted[c]

EarnedOK(c) ==
  conn[c] = "earned" =>
    /\ TimesPaid(c, sub[c]) <= 1
    /\ Unsent(c) /\ sub[c].root.height > seen => TimesPaid(c, sub[c]) = 0

PaidInv == \A c \in Clients : SharesOK(c) /\ EarnedOK(c)

\* The worker writes to a miner who does not read, and keeps clientsLock meanwhile.
HeldUp == \E c \in todo : stage[c] = "assigned" /\ c \in silent \ closed

\* pool.cpp 615, 636-651, 653, 685-690: a client whose socket is closed leaves the
\* registry, though handlers and the worker wait for clientsLock, the worker keeps it
\* while it writes to sockets, and writes to closed ones fail: unless the response to
\* him could not be written and his reads have ended, or a miner who has stopped
\* reading holds up the worker.
ClosedClientsLeave ==
  \A c \in Clients : (c \in closed /\ c \in clients)
                        ~> (c \notin clients \/ conn[c] = "abandoned" \/ HeldUp)

=============================================================================
