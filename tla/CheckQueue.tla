----------------------------- MODULE CheckQueue -----------------------------
(***************************************************************************)
(* The queue of script checks (checkqueue.h).  While ConnectBlock walks    *)
(* the transactions of a block, the thread that runs it (the master) adds  *)
(* their checks; worker threads take them in batches and the master joins  *)
(* them at the end, until nothing is left and the verdict is known.        *)
(*                                                                         *)
(* What a thread does under the mutex is one step, except that waking up   *)
(* (or entering) and looking at the queue are two: CCheckQueueControl      *)
(* reads the counters without the mutex, and can do so in between (the     *)
(* program then aborts: control is "aborted").                             *)
(* fQuit is never set by the code, and has no variable.                    *)
(***************************************************************************)
EXTENDS Integers, FiniteSets

CONSTANTS Workers,      \* the threads that run ThreadScriptCheck
          Master,       \* the thread that connects blocks, under cs_main
          Checks,       \* the checks a block may need
          Failing,      \* those of them whose script does not verify
          nBatchSize,
          NoOne         \* nobody holds the mutex

ASSUME CheckQueueAssumption ==
  /\ IsFiniteSet(Workers) /\ Master \notin Workers
  /\ NoOne \notin Workers \cup {Master}
  /\ IsFiniteSet(Checks) /\ Failing \subseteq Checks
  /\ nBatchSize \in Nat \ {0}

Threads == Workers \cup {Master}

VARIABLES
  mutex,      \* its holder
  queue,      \* checks waiting; their order does not matter (checkqueue.h 41)
  nIdle, nTotal, nTodo, fAllOk,
  pc,         \* where each thread is in Loop; the master is "out" between two calls
  vChecks,    \* the batch each thread has taken
  fOk,        \* each thread's verdict on its batch
  control,    \* the CCheckQueueControl of ConnectBlock: "none", "open", "done" or "aborted"
  added,      \* bookkeeping: the checks of this block
  evaluated,  \* bookkeeping: those whose script was run
  verdict     \* what Wait returned

loopVars == <<pc, vChecks, fOk>>
countVars == <<nIdle, nTotal, nTodo, fAllOk>>
blockVars == <<control, added, evaluated, verdict>>
vars == <<mutex, queue, countVars, loopVars, blockVars>>

\* The workers are started before the first block; the queue is made by a static.
Init ==
  /\ mutex = NoOne /\ queue = {}
  /\ nIdle = 0 /\ nTotal = 0 /\ nTodo = 0 /\ fAllOk = TRUE
  /\ pc = [t \in Threads |-> IF t = Master THEN "out" ELSE "top"]
  /\ vChecks = [t \in Threads |-> {}] /\ fOk = [t \in Threads |-> TRUE]
  /\ control = "none" /\ added = {} /\ evaluated = {} /\ verdict = TRUE

-----------------------------------------------------------------------------
(* Loop *)

\* Mutation: the condition counts a batch as one check.
NotifiedLate(t, todo) ==
  IF todo = 0 /\ t # Master /\ pc[Master] = "asleep" /\ Cardinality(vChecks[t]) = 1
  THEN [pc EXCEPT ![t] = "scan", ![Master] = "woken"]
  ELSE [pc EXCEPT ![t] = "scan"]

\* condMaster.notify_one(), when the last check is done and not by the master.
Notified(t, todo) ==
  IF todo = 0 /\ t # Master /\ pc[Master] = "asleep"
  THEN [pc EXCEPT ![t] = "scan", ![Master] = "woken"]
  ELSE [pc EXCEPT ![t] = "scan"]

\* The first iteration.
Join(t) ==
  /\ pc[t] = "top" /\ vChecks[t] = {} /\ mutex = NoOne
  /\ mutex' = t
  /\ nTotal' = nTotal + 1
  /\ pc' = [pc EXCEPT ![t] = "scan"]
  /\ UNCHANGED <<queue, nIdle, nTodo, fAllOk, vChecks, fOk, blockVars>>

\* Mutation: a batch counts as one check.
CleanUpOne(t) ==
  LET todo == nTodo - 1
  IN /\ pc[t] = "top" /\ vChecks[t] # {} /\ mutex = NoOne
     /\ mutex' = t
     /\ fAllOk' = (fAllOk /\ fOk[t])
     /\ nTodo' = todo
     /\ vChecks' = [vChecks EXCEPT ![t] = {}]
     /\ pc' = Notified(t, todo)
     /\ UNCHANGED <<queue, nIdle, nTotal, fOk, blockVars>>

\* The clean-up of the previous iteration.
CleanUp(t) ==
  LET todo == nTodo - Cardinality(vChecks[t])
  IN /\ pc[t] = "top" /\ vChecks[t] # {} /\ mutex = NoOne
     /\ mutex' = t
     /\ fAllOk' = (fAllOk /\ fOk[t])
     /\ nTodo' = todo
     /\ vChecks' = [vChecks EXCEPT ![t] = {}]
     /\ pc' = Notified(t, todo)
     /\ UNCHANGED <<queue, nIdle, nTotal, fOk, blockVars>>

\* cond.wait returns: the mutex is held again.
WakeUp(t) ==
  /\ pc[t] = "woken" /\ mutex = NoOne
  /\ mutex' = t
  /\ nIdle' = nIdle - 1
  /\ pc' = [pc EXCEPT ![t] = "scan"]
  /\ UNCHANGED <<queue, nTotal, nTodo, fAllOk, vChecks, fOk, blockVars>>

\* A condition variable may also wake up by itself.
WakeSpuriously(t) ==
  /\ pc[t] = "asleep"
  /\ pc' = [pc EXCEPT ![t] = "woken"]
  /\ UNCHANGED <<mutex, queue, countVars, vChecks, fOk, blockVars>>

\* Mutation: the master leaves when the queue is empty, whatever the workers still hold.
MayLeaveEarly(t) == t = Master

MayLeave(t) == t = Master /\ nTodo = 0

\* The master returns the verdict and resets it for the next block.
Leave(t) ==
  /\ pc[t] = "scan" /\ queue = {} /\ MayLeave(t)
  /\ nTotal' = nTotal - 1
  /\ verdict' = fAllOk /\ fAllOk' = TRUE
  /\ control' = "done"
  /\ pc' = [pc EXCEPT ![t] = "out"]
  /\ mutex' = NoOne
  /\ UNCHANGED <<queue, nIdle, nTodo, vChecks, fOk, added, evaluated>>

\* Mutation: nIdle++ is left out.
SleepUncounted(t) ==
  /\ pc[t] = "scan" /\ queue = {} /\ ~MayLeave(t)
  /\ pc' = [pc EXCEPT ![t] = "asleep"]
  /\ mutex' = NoOne
  /\ UNCHANGED <<queue, countVars, vChecks, fOk, blockVars>>

Sleep(t) ==
  /\ pc[t] = "scan" /\ queue = {} /\ ~MayLeave(t)
  /\ nIdle' = nIdle + 1
  /\ pc' = [pc EXCEPT ![t] = "asleep"]
  /\ mutex' = NoOne
  /\ UNCHANGED <<queue, nTotal, nTodo, fAllOk, vChecks, fOk, blockVars>>

\* Smaller and smaller batches, from 1 to nBatchSize.
nNow == LET share == Cardinality(queue) \div (nTotal + nIdle + 1)
            least == IF share < nBatchSize THEN share ELSE nBatchSize
        IN IF least < 1 THEN 1 ELSE least

Take(t) ==
  /\ pc[t] = "scan" /\ queue # {}
  /\ \E batch \in SUBSET queue :
       /\ Cardinality(batch) = nNow
       /\ queue' = queue \ batch
       /\ vChecks' = [vChecks EXCEPT ![t] = batch]
  /\ fOk' = [fOk EXCEPT ![t] = fAllOk]
  /\ pc' = [pc EXCEPT ![t] = "work"]
  /\ mutex' = NoOne
  /\ UNCHANGED <<countVars, blockVars>>

\* Without the mutex: checks are run until one fails; none is when one has failed before.
Work(t) ==
  /\ pc[t] = "work"
  /\ \E run \in SUBSET vChecks[t] :
       /\ IF fOk[t] THEN \/ run = vChecks[t] /\ run \cap Failing = {}
                         \/ \E c \in Failing : run \cap Failing = {c}
                    ELSE run = {}
       /\ evaluated' = evaluated \cup run
       /\ fOk' = [fOk EXCEPT ![t] = @ /\ run \cap Failing = {}]
  /\ pc' = [pc EXCEPT ![t] = "top"]
  /\ UNCHANGED <<mutex, queue, countVars, vChecks, control, added, verdict>>

-----------------------------------------------------------------------------
(* The master, in ConnectBlock *)

\* The assertions of the constructor, read without the mutex.
QueueUnused == nTotal = nIdle /\ nTodo = 0 /\ fAllOk = TRUE

OpenControl ==
  /\ control \in {"none", "done"}
  /\ control' = IF QueueUnused THEN "open" ELSE "aborted"
  /\ added' = {} /\ evaluated' = {}
  /\ UNCHANGED <<mutex, queue, countVars, loopVars, verdict>>

\* condWorker.notify_one() or notify_all(): which waiting workers are woken.
Woken(n) ==
  LET asleep == {w \in Workers : pc[w] = "asleep"}
  IN IF n = 0 \/ asleep = {} THEN {{}}
     ELSE IF n = 1 THEN {{w} : w \in asleep} ELSE {asleep}

\* The checks of one transaction.
Add(checks) ==
  /\ control = "open" /\ pc[Master] = "out" /\ mutex = NoOne
  /\ checks \cap added = {}
  /\ queue' = queue \cup checks /\ added' = added \cup checks
  /\ nTodo' = nTodo + Cardinality(checks)
  /\ \E woken \in Woken(Cardinality(checks)) :
       pc' = [t \in Threads |-> IF t \in woken THEN "woken" ELSE pc[t]]
  /\ UNCHANGED <<mutex, nIdle, nTotal, fAllOk, vChecks, fOk, control, evaluated, verdict>>

\* control.Wait(), or the destructor of control when ConnectBlock returns before.
Wait ==
  /\ control = "open" /\ pc[Master] = "out"
  /\ pc' = [pc EXCEPT ![Master] = "top"]
  /\ UNCHANGED <<mutex, queue, countVars, vChecks, fOk, blockVars>>

Loop(t) ==
  Join(t) \/ CleanUp(t) \/ WakeUp(t) \/ Leave(t) \/ Sleep(t) \/ Take(t) \/ Work(t)

Next ==
  /\ control # "aborted"
  /\ \/ \E t \in Threads : Loop(t) \/ WakeSpuriously(t)
     \/ OpenControl \/ Wait
     \/ \E checks \in SUBSET Checks : Add(checks)

Spec == Init /\ [][Next]_vars

\* Threads run on, and one that waits for the mutex gets it in the end, though others
\* may wake up by themselves again and again.
Fairness == \A t \in Threads : SF_vars(control # "aborted" /\ Loop(t))

FairSpec == Spec /\ Fairness

-----------------------------------------------------------------------------
(* Properties *)

\* Every variable keeps its type.
TypeOK ==
  /\ mutex \in Threads \cup {NoOne} /\ queue \subseteq Checks
  /\ nIdle \in Nat /\ nTotal \in Nat /\ nTodo \in Nat /\ fAllOk \in BOOLEAN
  /\ pc \in [Threads -> {"out", "top", "scan", "asleep", "woken", "work"}]
  /\ vChecks \in [Threads -> SUBSET Checks] /\ fOk \in [Threads -> BOOLEAN]
  /\ control \in {"none", "open", "done", "aborted"}
  /\ added \subseteq Checks /\ evaluated \subseteq Checks /\ verdict \in BOOLEAN

\* checkqueue.h 139-143: the checks that are in the queue or in somebody's batch.
Outstanding == queue \cup UNION {vChecks[t] : t \in Threads}

\* checkqueue.h 85, 143: nTodo, which alone tells the master when to stop,
\* counts every check that is in the queue or in a batch, each once.
TodoIsOutstanding ==
  /\ nTodo = Cardinality(Outstanding)
  /\ \A t \in Threads : vChecks[t] \cap queue = {}
  /\ \A t, s \in Threads : t # s => vChecks[t] \cap vChecks[s] = {}

\* checkqueue.h 107-116: when Wait returns, no check of the block is
\* left anywhere; it returned true only if every one was run and verified, and false
\* only if one that was run did not, whoever ran it and however the batches fell.
VerdictIsRight ==
  control = "done" =>
    /\ Outstanding = {}
    /\ verdict => evaluated = added /\ added \cap Failing = {}
    /\ ~verdict => evaluated \cap Failing # {}

\* A thread holds the mutex exactly while it looks at the queue, and has a batch exactly from
\* taking it to its clean-up; the master is in Loop only while a block is being connected.
ThreadsInv ==
  /\ \A t \in Threads : mutex = t <=> pc[t] = "scan"
  /\ \A t \in Threads : /\ vChecks[t] # {} => pc[t] \in {"top", "work"}
                        /\ pc[t] = "work" => vChecks[t] # {}
  /\ pc[Master] # "out" => control = "open"

\* nIdle and nTotal count the threads they are about.
Idling == {t \in Threads : pc[t] \in {"asleep", "woken"}}
Joined == {t \in Threads : \/ pc[t] \in {"scan", "asleep", "woken", "work"}
                           \/ pc[t] = "top" /\ vChecks[t] # {}}
CountsInv == nIdle = Cardinality(Idling) /\ nTotal = Cardinality(Joined)

\* What is outstanding belongs to the block being connected.
BatchesInv ==
  /\ TodoIsOutstanding
  /\ Outstanding \subseteq added
  /\ control \in {"none", "done"} => Outstanding = {}

\* fAllOk speaks of the checks no longer outstanding, fOk of the batch at hand.
VerdictInv ==
  /\ evaluated \subseteq added
  /\ control = "open" /\ fAllOk => added \ Outstanding \subseteq evaluated \ Failing
  /\ control = "open" /\ ~fAllOk => evaluated \cap Failing # {}
  /\ \A t \in Threads : ~fOk[t] /\ vChecks[t] # {} => evaluated \cap Failing # {}
  /\ \A t \in Threads : pc[t] = "top" /\ vChecks[t] # {} /\ fOk[t]
                        => vChecks[t] \subseteq evaluated \ Failing
  /\ VerdictIsRight

\* checkqueue.h 96-117: the master's Wait returns, though it may sleep on
\* a condition that one worker signals once.
WaitReturns == pc[Master] = "top" ~> control = "done"

=============================================================================
