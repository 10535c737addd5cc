-------------------------- MODULE CheckQueueProofs --------------------------
(***************************************************************************)
(* Proofs about CheckQueue: for any number of workers, any checks and any  *)
(* batch size, nTodo counts what is outstanding, so that the master leaves *)
(* no check behind and returns the right verdict.                          *)
(***************************************************************************)
EXTENDS CheckQueue, FiniteSetTheorems, TLAPS

\* TypeOK without the counters, whose types follow from what they count.
SetsOK ==
  /\ mutex \in Threads \cup {NoOne} /\ queue \subseteq Checks /\ fAllOk \in BOOLEAN
  /\ pc \in [Threads -> {"out", "top", "scan", "asleep", "woken", "work"}]
  /\ vChecks \in [Threads -> SUBSET Checks] /\ fOk \in [Threads -> BOOLEAN]
  /\ control \in {"none", "open", "done", "aborted"}
  /\ added \subseteq Checks /\ evaluated \subseteq Checks /\ verdict \in BOOLEAN

Inv == SetsOK /\ ThreadsInv /\ CountsInv /\ BatchesInv /\ VerdictInv

-----------------------------------------------------------------------------
(* Facts about the operators *)

\* The threads are finitely many, and the master is none of the workers.
LEMMA ThreadsFacts ==
  ASSUME CheckQueueAssumption
  PROVE  /\ IsFiniteSet(Threads) /\ Master \in Threads /\ NoOne \notin Threads
         /\ \A w \in Workers : w # Master /\ w \in Threads
BY FS_AddElement DEF CheckQueueAssumption, Threads

\* A batch is never empty.
LEMMA NowIsPositive == nNow # 0
BY DEF nNow

\* Waking the master up changes its place only, and only from asleep to woken.
LEMMA NotifiedFacts ==
  ASSUME CheckQueueAssumption, SetsOK, NEW t \in Threads, NEW todo, pc[t] # "asleep"
  PROVE  LET p == Notified(t, todo)
         IN /\ p \in [Threads -> {"out", "top", "scan", "asleep", "woken", "work"}]
            /\ p[t] = "scan"
            /\ \A s \in Threads : s # t => \/ p[s] = pc[s]
                                           \/ pc[s] = "asleep" /\ p[s] = "woken"
BY ThreadsFacts DEF Notified, SetsOK

-----------------------------------------------------------------------------
(* Types *)

\* The types hold at the start.
LEMMA SetsInit == CheckQueueAssumption /\ Init => SetsOK
BY ThreadsFacts DEF Init, SetsOK

\* A step of Loop keeps the types.
LEMMA SetsLoop ==
  ASSUME CheckQueueAssumption, SetsOK, NEW t \in Threads, Loop(t)
  PROVE  SetsOK'
<1> USE ThreadsFacts DEF SetsOK, loopVars, countVars, blockVars
<1>1. CASE Join(t)
  BY <1>1 DEF Join
<1>2. CASE CleanUp(t)
  <2>1. pc' \in [Threads -> {"out", "top", "scan", "asleep", "woken", "work"}]
    BY <1>2, NotifiedFacts DEF CleanUp
  <2>2. fAllOk' \in BOOLEAN
    BY <1>2 DEF CleanUp
  <2> QED
    BY <1>2, <2>1, <2>2 DEF CleanUp
<1>3. CASE WakeUp(t)
  BY <1>3 DEF WakeUp
<1>4. CASE Leave(t)
  BY <1>4 DEF Leave
<1>5. CASE Sleep(t)
  BY <1>5 DEF Sleep
<1>6. CASE Take(t)
  BY <1>6 DEF Take
<1>7. CASE Work(t)
  <2>1. PICK run \in SUBSET vChecks[t] :
          /\ evaluated' = evaluated \cup run
          /\ fOk' = [fOk EXCEPT ![t] = @ /\ run \cap Failing = {}]
    BY <1>7 DEF Work
  <2>2. fOk' \in [Threads -> BOOLEAN]
    BY <2>1
  <2>3. evaluated' \subseteq Checks
    BY <2>1
  <2> QED
    BY <1>7, <2>2, <2>3 DEF Work
<1> QED
  BY <1>1, <1>2, <1>3, <1>4, <1>5, <1>6, <1>7 DEF Loop

\* Every step keeps the types.
LEMMA SetsStep ==
  ASSUME CheckQueueAssumption, SetsOK, Next
  PROVE  SetsOK'
<1> USE ThreadsFacts DEF SetsOK, loopVars, countVars, blockVars
<1>1. CASE \E t \in Threads : Loop(t)
  BY <1>1, SetsLoop
<1>2. CASE \E t \in Threads : WakeSpuriously(t)
  BY <1>2 DEF WakeSpuriously
<1>3. CASE OpenControl
  BY <1>3 DEF OpenControl
<1>4. CASE Wait
  BY <1>4 DEF Wait
<1>5. CASE \E checks \in SUBSET Checks : Add(checks)
  <2>1. PICK checks \in SUBSET Checks : Add(checks)
    BY <1>5
  <2>2. PICK woken \in Woken(Cardinality(checks)) :
          pc' = [t \in Threads |-> IF t \in woken THEN "woken" ELSE pc[t]]
    BY <2>1 DEF Add
  <2> QED
    BY <2>1, <2>2 DEF Add
<1> QED
  BY <1>1, <1>2, <1>3, <1>4, <1>5 DEF Next

-----------------------------------------------------------------------------
(* Who is where *)

\* At the start nobody holds the mutex or a batch.
LEMMA ThreadsInit == CheckQueueAssumption /\ Init => ThreadsInv
BY ThreadsFacts DEF Init, ThreadsInv

\* A step of Loop keeps mutex, batches and places in agreement.
LEMMA ThreadsLoop ==
  ASSUME CheckQueueAssumption, SetsOK, ThreadsInv, NEW t \in Threads, Loop(t)
  PROVE  ThreadsInv'
<1> USE ThreadsFacts DEF SetsOK, ThreadsInv, loopVars, countVars, blockVars
<1>1. CASE Join(t)
  BY <1>1 DEF Join
<1>2. CASE CleanUp(t)
  <2>1. /\ pc'[t] = "scan"
        /\ \A s \in Threads : s # t => \/ pc'[s] = pc[s]
                                       \/ pc[s] = "asleep" /\ pc'[s] = "woken"
    BY <1>2, NotifiedFacts DEF CleanUp
  <2> QED
    BY <1>2, <2>1 DEF CleanUp
<1>3. CASE WakeUp(t)
  BY <1>3 DEF WakeUp
<1>4. CASE Leave(t)
  BY <1>4 DEF Leave, MayLeave
<1>5. CASE Sleep(t)
  BY <1>5 DEF Sleep
<1>6. CASE Take(t)
  <2>1. PICK batch \in SUBSET queue :
          Cardinality(batch) = nNow /\ vChecks' = [vChecks EXCEPT ![t] = batch]
    BY <1>6 DEF Take
  <2>2. batch # {}
    BY <2>1, NowIsPositive, FS_EmptySet
  <2> QED
    BY <1>6, <2>1, <2>2 DEF Take
<1>7. CASE Work(t)
  BY <1>7 DEF Work
<1> QED
  BY <1>1, <1>2, <1>3, <1>4, <1>5, <1>6, <1>7 DEF Loop

\* Every step keeps mutex, batches and places in agreement.
LEMMA ThreadsStep ==
  ASSUME CheckQueueAssumption, SetsOK, ThreadsInv, Next
  PROVE  ThreadsInv'
<1> USE ThreadsFacts DEF SetsOK, ThreadsInv, loopVars, countVars, blockVars
<1>1. CASE \E t \in Threads : Loop(t)
  BY <1>1, ThreadsLoop
<1>2. CASE \E t \in Threads : WakeSpuriously(t)
  BY <1>2 DEF WakeSpuriously
<1>3. CASE OpenControl
  BY <1>3 DEF OpenControl
<1>4. CASE Wait
  BY <1>4 DEF Wait
<1>5. CASE \E checks \in SUBSET Checks : Add(checks)
  <2>1. PICK checks \in SUBSET Checks : Add(checks)
    BY <1>5
  <2>2. PICK woken \in Woken(Cardinality(checks)) :
          pc' = [t \in Threads |-> IF t \in woken THEN "woken" ELSE pc[t]]
    BY <2>1 DEF Add
  <2>3. \A w \in woken : pc[w] = "asleep" /\ w # Master
    BY <2>2 DEF Woken
  <2> QED
    BY <2>1, <2>2, <2>3 DEF Add
<1> QED
  BY <1>1, <1>2, <1>3, <1>4, <1>5 DEF Next

-----------------------------------------------------------------------------
(* The counters nIdle and nTotal *)

\* What nIdle and nTotal count is finite.
LEMMA CountedFinite ==
  ASSUME CheckQueueAssumption
  PROVE  /\ IsFiniteSet(Idling) /\ Idling \subseteq Threads
         /\ IsFiniteSet(Joined) /\ Joined \subseteq Threads
BY ThreadsFacts, FS_Subset DEF Idling, Joined

\* At the start no worker has joined.
LEMMA CountsInit == CheckQueueAssumption /\ Init => CountsInv
<1> SUFFICES ASSUME CheckQueueAssumption, Init
             PROVE  CountsInv
  OBVIOUS
<1>1. Idling = {} /\ Joined = {}
  BY ThreadsFacts DEF Init, Idling, Joined
<1> QED
  BY <1>1, FS_EmptySet DEF Init, CountsInv

\* A step of Loop keeps nIdle and nTotal exact.
LEMMA CountsLoop ==
  ASSUME CheckQueueAssumption, SetsOK, ThreadsInv, ThreadsInv', CountsInv, NEW t \in Threads, Loop(t)
  PROVE  CountsInv'
<1> USE ThreadsFacts DEF SetsOK, ThreadsInv, loopVars, countVars, blockVars
<1>1. CASE Join(t)
  <2>1. Idling' = Idling /\ Joined' = Joined \cup {t} /\ t \notin Joined
    BY <1>1 DEF Join, Idling, Joined
  <2> QED
    BY <1>1, <2>1, CountedFinite, FS_AddElement DEF Join, CountsInv
<1>2. CASE CleanUp(t)
  <2>1. /\ pc'[t] = "scan"
        /\ \A s \in Threads : s # t => \/ pc'[s] = pc[s]
                                       \/ pc[s] = "asleep" /\ pc'[s] = "woken"
    BY <1>2, NotifiedFacts DEF CleanUp
  <2>2. Idling' = Idling /\ Joined' = Joined
    BY <1>2, <2>1 DEF CleanUp, Idling, Joined
  <2> QED
    BY <1>2, <2>2 DEF CleanUp, CountsInv
<1>3. CASE WakeUp(t)
  <2>1. Idling' = Idling \ {t} /\ Joined' = Joined /\ t \in Idling
    BY <1>3 DEF WakeUp, Idling, Joined
  <2> QED
    BY <1>3, <2>1, CountedFinite, FS_RemoveElement DEF WakeUp, CountsInv
<1>4. CASE Leave(t)
  <2>1. Idling' = Idling /\ Joined' = Joined \ {t} /\ t \in Joined
    BY <1>4 DEF Leave, Idling, Joined
  <2> QED
    BY <1>4, <2>1, CountedFinite, FS_RemoveElement DEF Leave, CountsInv
<1>5. CASE Sleep(t)
  <2>1. Idling' = Idling \cup {t} /\ Joined' = Joined /\ t \notin Idling
    BY <1>5 DEF Sleep, Idling, Joined
  <2> QED
    BY <1>5, <2>1, CountedFinite, FS_AddElement DEF Sleep, CountsInv
<1>6. CASE Take(t)
  <2>1. Idling' = Idling /\ Joined' = Joined
    BY <1>6 DEF Take, Idling, Joined
  <2> QED
    BY <1>6, <2>1 DEF Take, CountsInv
<1>7. CASE Work(t)
  <2>1. Idling' = Idling /\ Joined' = Joined
    BY <1>7 DEF Work, Idling, Joined
  <2> QED
    BY <1>7, <2>1 DEF Work, CountsInv
<1> QED
  BY <1>1, <1>2, <1>3, <1>4, <1>5, <1>6, <1>7 DEF Loop

\* Every step keeps nIdle and nTotal exact.
LEMMA CountsStep ==
  ASSUME CheckQueueAssumption, SetsOK, ThreadsInv, ThreadsInv', CountsInv, Next
  PROVE  CountsInv'
<1> USE ThreadsFacts DEF SetsOK, ThreadsInv, loopVars, countVars, blockVars
<1>1. CASE \E t \in Threads : Loop(t)
  BY <1>1, CountsLoop
<1>2. CASE \E t \in Threads : WakeSpuriously(t)
  <2>1. Idling' = Idling /\ Joined' = Joined
    BY <1>2 DEF WakeSpuriously, Idling, Joined
  <2> QED
    BY <1>2, <2>1 DEF WakeSpuriously, CountsInv
<1>3. CASE OpenControl
  BY <1>3 DEF OpenControl, CountsInv, Idling, Joined
<1>4. CASE Wait
  <2>1. Idling' = Idling /\ Joined' = Joined
    BY <1>4 DEF Wait, Idling, Joined
  <2> QED
    BY <1>4, <2>1 DEF Wait, CountsInv
<1>5. CASE \E checks \in SUBSET Checks : Add(checks)
  <2>1. PICK checks \in SUBSET Checks : Add(checks)
    BY <1>5
  <2>2. PICK woken \in Woken(Cardinality(checks)) :
          pc' = [t \in Threads |-> IF t \in woken THEN "woken" ELSE pc[t]]
    BY <2>1 DEF Add
  <2>3. \A w \in woken : pc[w] = "asleep"
    BY <2>2 DEF Woken
  <2>4. Idling' = Idling /\ Joined' = Joined
    BY <2>1, <2>2, <2>3 DEF Add, Idling, Joined
  <2> QED
    BY <2>1, <2>4 DEF Add, CountsInv
<1> QED
  BY <1>1, <1>2, <1>3, <1>4, <1>5 DEF Next

-----------------------------------------------------------------------------
(* nTodo and what is outstanding *)

\* What is outstanding, element by element, and that it is finite.
LEMMA OutstandingFacts ==
  ASSUME CheckQueueAssumption, SetsOK
  PROVE  /\ \A c : c \in Outstanding <=> \/ c \in queue
                                         \/ \E t \in Threads : c \in vChecks[t]
         /\ IsFiniteSet(Outstanding)
         /\ \A S \in SUBSET Checks : IsFiniteSet(S) /\ Cardinality(S) \in Nat
<1>1. \A c : c \in Outstanding <=> c \in queue \/ \E t \in Threads : c \in vChecks[t]
  BY DEF Outstanding
<1>2. Outstanding \in SUBSET Checks
  BY <1>1 DEF SetsOK
<1>3. \A S \in SUBSET Checks : IsFiniteSet(S) /\ Cardinality(S) \in Nat
  BY FS_Subset, FS_CardinalityType DEF CheckQueueAssumption
<1> QED
  BY <1>1, <1>2, <1>3

\* At the start nothing is outstanding.
LEMMA BatchesInit == CheckQueueAssumption /\ Init => BatchesInv
<1> SUFFICES ASSUME CheckQueueAssumption, Init
             PROVE  BatchesInv
  OBVIOUS
<1>1. Outstanding = {}
  BY DEF Init, Outstanding
<1> QED
  BY <1>1, FS_EmptySet DEF Init, BatchesInv, TodoIsOutstanding

\* A batch that is cleaned up is no longer outstanding, and nothing else changes.
LEMMA CleanUpBatch ==
  ASSUME CheckQueueAssumption, SetsOK, SetsOK', BatchesInv, NEW t \in Threads, CleanUp(t)
  PROVE  /\ Outstanding' = Outstanding \ vChecks[t]
         /\ vChecks[t] \subseteq Outstanding
         /\ vChecks'[t] = {} /\ \A s \in Threads : s # t => vChecks'[s] = vChecks[s]
<1>1. vChecks' = [vChecks EXCEPT ![t] = {}] /\ queue' = queue
  BY DEF CleanUp
<1>2. vChecks'[t] = {} /\ \A s \in Threads : s # t => vChecks'[s] = vChecks[s]
  BY <1>1 DEF SetsOK
<1>3. vChecks[t] \subseteq Outstanding
  BY OutstandingFacts
<1>4. \A c : c \in Outstanding' <=> c \in queue \/ \E s \in Threads : c \in vChecks'[s]
  BY <1>1 DEF Outstanding
<1>5. \A c : c \in Outstanding' <=> c \in Outstanding /\ c \notin vChecks[t]
  BY <1>2, <1>4, OutstandingFacts DEF BatchesInv, TodoIsOutstanding
<1> QED
  BY <1>2, <1>3, <1>5

\* Taking a batch leaves outstanding what was.
LEMMA TakeBatch ==
  ASSUME CheckQueueAssumption, SetsOK, BatchesInv, NEW t \in Threads, ThreadsInv, Take(t)
  PROVE  /\ Outstanding' = Outstanding
         /\ \A s \in Threads : s # t => vChecks'[s] = vChecks[s]
         /\ vChecks'[t] \subseteq queue /\ queue' = queue \ vChecks'[t]
<1>1. PICK batch \in SUBSET queue :
        queue' = queue \ batch /\ vChecks' = [vChecks EXCEPT ![t] = batch]
  BY DEF Take
<1>2. vChecks[t] = {}
  BY DEF Take, ThreadsInv
<1>3. vChecks'[t] = batch /\ \A s \in Threads : s # t => vChecks'[s] = vChecks[s]
  BY <1>1 DEF SetsOK
<1>4. \A c : c \in Outstanding' <=> c \in queue' \/ \E s \in Threads : c \in vChecks'[s]
  BY DEF Outstanding
<1>5. \A c : c \in Outstanding' <=> c \in Outstanding
  BY <1>1, <1>2, <1>3, <1>4, OutstandingFacts
<1> QED
  BY <1>1, <1>3, <1>5

\* The checks added are outstanding, and were not before.
LEMMA AddBatch ==
  ASSUME CheckQueueAssumption, SetsOK, BatchesInv, NEW checks \in SUBSET Checks, Add(checks)
  PROVE  Outstanding' = Outstanding \cup checks /\ Outstanding \cap checks = {}
<1>1. queue' = queue \cup checks /\ vChecks' = vChecks /\ checks \cap added = {}
  BY DEF Add
<1> QED
  BY <1>1, OutstandingFacts DEF Outstanding, BatchesInv

\* Neither the batches nor the checks of the block change, and a block ends only when
\* nothing is outstanding.
Quiet == /\ UNCHANGED <<queue, vChecks, nTodo, added>>
         /\ control' = control \/ Outstanding = {}

\* A step is quiet, or one of the four that move checks or begin a block.
LEMMA QuietStep ==
  ASSUME CheckQueueAssumption, SetsOK, ThreadsInv, BatchesInv, Next
  PROVE  \/ Quiet
         \/ \E t \in Threads : CleanUp(t) \/ Take(t)
         \/ OpenControl
         \/ \E checks \in SUBSET Checks : Add(checks)
<1> USE DEF Quiet, loopVars, countVars, blockVars
<1>1. ASSUME NEW t \in Threads, Loop(t)
      PROVE  Quiet \/ CleanUp(t) \/ Take(t)
  <2>1. CASE Leave(t)
    <3>1. nTodo = 0
      BY <2>1 DEF Leave, MayLeave
    <3>2. Outstanding = {}
      BY <3>1, OutstandingFacts, FS_EmptySet DEF BatchesInv, TodoIsOutstanding
    <3> QED
      BY <2>1, <3>2 DEF Leave
  <2> QED
    BY <1>1, <2>1 DEF Loop, Join, WakeUp, Sleep, Work
<1>2. (\E t \in Threads : WakeSpuriously(t)) \/ Wait => Quiet
  BY DEF WakeSpuriously, Wait
<1> QED
  BY <1>1, <1>2 DEF Next

\* Every step keeps nTodo exact and the batches apart.
LEMMA BatchesStep ==
  ASSUME CheckQueueAssumption, SetsOK, SetsOK', ThreadsInv, BatchesInv, Next
  PROVE  BatchesInv'
<1>1. CASE Quiet
  <2>1. Outstanding' = Outstanding
    BY <1>1 DEF Quiet, Outstanding
  <2> QED
    BY <1>1, <2>1 DEF Quiet, BatchesInv, TodoIsOutstanding
<1>2. ASSUME NEW t \in Threads, CleanUp(t)
      PROVE  BatchesInv'
  <2>1. Outstanding \cap vChecks[t] = vChecks[t]
    BY <1>2, CleanUpBatch
  <2>2. Cardinality(Outstanding') = Cardinality(Outstanding) - Cardinality(vChecks[t])
    <3>1. Cardinality(Outstanding \ vChecks[t])
            = Cardinality(Outstanding) - Cardinality(Outstanding \cap vChecks[t])
      BY OutstandingFacts, FS_Difference
    <3>2. Outstanding' = Outstanding \ vChecks[t]
      BY <1>2, CleanUpBatch
    <3> QED
      BY <2>1, <3>1, <3>2
  <2>3. nTodo' = nTodo - Cardinality(vChecks[t]) /\ queue' = queue /\ added' = added /\ control' = control
    BY <1>2 DEF CleanUp, blockVars
  <2> QED
    BY <1>2, <2>2, <2>3, CleanUpBatch DEF BatchesInv, TodoIsOutstanding
<1>3. ASSUME NEW t \in Threads, Take(t)
      PROVE  BatchesInv'
  <2>1. nTodo' = nTodo /\ added' = added /\ control' = control
    BY <1>3 DEF Take, countVars, blockVars
  <2> QED
    BY <1>3, <2>1, TakeBatch DEF BatchesInv, TodoIsOutstanding
<1>4. CASE OpenControl
  <2>1. Outstanding = {} /\ Outstanding' = Outstanding
    BY <1>4 DEF OpenControl, BatchesInv, Outstanding, loopVars
  <2> QED
    BY <1>4, <2>1 DEF OpenControl, BatchesInv, TodoIsOutstanding, loopVars, countVars
<1>5. ASSUME NEW checks \in SUBSET Checks, Add(checks)
      PROVE  BatchesInv'
  <2>1. Outstanding' = Outstanding \cup checks /\ Outstanding \cap checks = {}
    BY <1>5, AddBatch
  <2>2. Cardinality(Outstanding') = Cardinality(Outstanding) + Cardinality(checks)
    <3>1. IsFiniteSet(Outstanding) /\ IsFiniteSet(checks)
      BY OutstandingFacts
    <3>2. Cardinality(Outstanding \cup checks)
            = Cardinality(Outstanding) + Cardinality(checks) - Cardinality(Outstanding \cap checks)
      BY <3>1, FS_Union
    <3>3. Cardinality(Outstanding \cap checks) = 0
      BY <2>1, FS_EmptySet
    <3>4. Cardinality(Outstanding) \in Nat /\ Cardinality(checks) \in Nat
      BY <3>1, FS_CardinalityType
    <3> QED
      BY <2>1, <3>2, <3>3, <3>4
  <2>3. /\ nTodo' = nTodo + Cardinality(checks) /\ queue' = queue \cup checks
        /\ added' = added \cup checks /\ vChecks' = vChecks /\ control' = "open"
    BY <1>5 DEF Add
  <2> QED
    BY <2>1, <2>2, <2>3, OutstandingFacts DEF BatchesInv, TodoIsOutstanding
<1> QED
  BY <1>1, <1>2, <1>3, <1>4, <1>5, QuietStep

-----------------------------------------------------------------------------
(* The verdict *)

\* The verdict is right at the start, when there is none.
LEMMA VerdictInit == CheckQueueAssumption /\ Init => VerdictInv
BY DEF Init, VerdictInv, VerdictIsRight

\* Whoever has a batch has it of the block being connected.
LEMMA BatchOpen ==
  ASSUME CheckQueueAssumption, SetsOK, BatchesInv, control # "aborted", Outstanding # {}
  PROVE  control = "open"
BY DEF SetsOK, BatchesInv

\* A clean-up passes the verdict of a batch on.
LEMMA VerdictCleanUp ==
  ASSUME CheckQueueAssumption, Inv, SetsOK', control # "aborted", NEW t \in Threads, CleanUp(t)
  PROVE  VerdictInv'
<1>1. control = "open" /\ vChecks[t] # {}
  BY CleanUpBatch, BatchOpen DEF CleanUp, Inv
<1>2. /\ Outstanding' = Outstanding \ vChecks[t] /\ vChecks[t] \subseteq Outstanding
      /\ vChecks'[t] = {} /\ \A s \in Threads : s # t => vChecks'[s] = vChecks[s]
  BY CleanUpBatch DEF Inv
<1>3. /\ fAllOk' = (fAllOk /\ fOk[t]) /\ fOk' = fOk /\ pc[t] = "top"
      /\ UNCHANGED <<control, added, evaluated, verdict>>
  BY DEF CleanUp, blockVars
<1>4. \A s \in Threads : pc'[s] = "top" => pc[s] = "top"
  BY NotifiedFacts DEF CleanUp, Inv
<1>5. fAllOk' => added' \ Outstanding' \subseteq evaluated' \ Failing
  BY <1>1, <1>2, <1>3 DEF Inv, VerdictInv
<1>6. ~fAllOk' => evaluated' \cap Failing # {}
  BY <1>1, <1>3 DEF Inv, VerdictInv
<1> QED
  BY <1>1, <1>2, <1>3, <1>4, <1>5, <1>6 DEF Inv, VerdictInv, VerdictIsRight

\* The master leaves with the verdict of the whole block.
LEMMA VerdictLeave ==
  ASSUME CheckQueueAssumption, Inv, NEW t \in Threads, Leave(t)
  PROVE  VerdictInv'
<1>1. control = "open" /\ Outstanding = {}
  BY OutstandingFacts, FS_EmptySet DEF Leave, MayLeave, Inv, ThreadsInv, BatchesInv, TodoIsOutstanding
<1>2. /\ UNCHANGED <<queue, vChecks, fOk, added, evaluated>> /\ pc' = [pc EXCEPT ![t] = "out"]
      /\ control' = "done" /\ verdict' = fAllOk
  BY DEF Leave
<1>3. Outstanding' = {}
  BY <1>1, <1>2 DEF Outstanding
<1>4. \A s \in Threads : vChecks[s] = {}
  BY <1>1, OutstandingFacts DEF Inv
<1> QED
  BY <1>1, <1>2, <1>3, <1>4 DEF Inv, VerdictInv, VerdictIsRight

\* A batch starts with the verdict so far.
LEMMA VerdictTake ==
  ASSUME CheckQueueAssumption, Inv, control # "aborted", NEW t \in Threads, Take(t)
  PROVE  VerdictInv'
<1>1. /\ Outstanding' = Outstanding
      /\ \A s \in Threads : s # t => vChecks'[s] = vChecks[s]
  BY TakeBatch DEF Inv
<1>2. control = "open"
  BY OutstandingFacts, BatchOpen DEF Take, Inv
<1>3. /\ fOk' = [fOk EXCEPT ![t] = fAllOk] /\ pc' = [pc EXCEPT ![t] = "work"]
      /\ UNCHANGED <<fAllOk, control, added, evaluated, verdict>>
  BY DEF Take, countVars, blockVars
<1> QED
  BY <1>1, <1>2, <1>3 DEF Inv, SetsOK, VerdictInv, VerdictIsRight

\* Running a batch establishes its verdict.
LEMMA VerdictWork ==
  ASSUME CheckQueueAssumption, Inv, control # "aborted", NEW t \in Threads, Work(t)
  PROVE  VerdictInv'
<1>1. PICK run \in SUBSET vChecks[t] :
        /\ IF fOk[t] THEN \/ run = vChecks[t] /\ run \cap Failing = {}
                          \/ \E c \in Failing : run \cap Failing = {c}
                     ELSE run = {}
        /\ evaluated' = evaluated \cup run
        /\ fOk' = [fOk EXCEPT ![t] = @ /\ run \cap Failing = {}]
  BY DEF Work
<1>2. UNCHANGED <<queue, vChecks, fAllOk, control, added, verdict>> /\ pc' = [pc EXCEPT ![t] = "top"]
  BY DEF Work, countVars
<1>3. vChecks[t] # {} /\ vChecks[t] \subseteq Outstanding
  BY OutstandingFacts DEF Work, Inv, ThreadsInv
<1>4. control = "open" /\ Outstanding' = Outstanding
  BY <1>2, <1>3, BatchOpen DEF Inv, Outstanding
<1>5. evaluated' \subseteq added'
  BY <1>1, <1>2, <1>3 DEF Inv, VerdictInv, BatchesInv
<1>6. fOk'[t] = (fOk[t] /\ run \cap Failing = {}) /\ \A s \in Threads : s # t => fOk'[s] = fOk[s]
  BY <1>1 DEF Inv, SetsOK
<1>7. ~fOk'[t] => evaluated' \cap Failing # {}
  BY <1>1, <1>3, <1>6 DEF Inv, VerdictInv
<1>8. fOk'[t] => vChecks[t] \subseteq evaluated' \ Failing
  BY <1>1, <1>6
<1>9. \A s \in Threads : s # t => pc'[s] = pc[s]
  BY <1>2 DEF Inv, SetsOK
<1> QED
  BY <1>1, <1>2, <1>4, <1>5, <1>6, <1>7, <1>8, <1>9 DEF Inv, VerdictInv, VerdictIsRight

\* Checks added are outstanding, and say nothing yet.
LEMMA VerdictAdd ==
  ASSUME CheckQueueAssumption, Inv, NEW checks \in SUBSET Checks, Add(checks)
  PROVE  VerdictInv'
<1>1. Outstanding' = Outstanding \cup checks
  BY AddBatch DEF Inv
<1>2. /\ UNCHANGED <<fAllOk, vChecks, fOk, control, evaluated, verdict>>
      /\ control = "open" /\ added' = added \cup checks
  BY DEF Add
<1>3. PICK woken \in Woken(Cardinality(checks)) :
        pc' = [s \in Threads |-> IF s \in woken THEN "woken" ELSE pc[s]]
  BY DEF Add
<1>4. \A s \in Threads : pc'[s] = "top" => pc[s] = "top"
  BY <1>3
<1> QED
  BY <1>1, <1>2, <1>4 DEF Inv, VerdictInv, VerdictIsRight

\* A new block starts with the verdict reset.
LEMMA VerdictOpen ==
  ASSUME CheckQueueAssumption, Inv, OpenControl
  PROVE  VerdictInv'
<1>1. Outstanding = {} /\ \A s \in Threads : vChecks[s] = {}
  BY OutstandingFacts DEF OpenControl, Inv, BatchesInv
<1>2. /\ vChecks' = vChecks /\ added' = {} /\ evaluated' = {} /\ fAllOk' = fAllOk
      /\ \/ control' = "open" /\ fAllOk
         \/ control' = "aborted"
  BY DEF OpenControl, QueueUnused, loopVars, countVars
<1> QED
  BY <1>1, <1>2 DEF Inv, VerdictInv, VerdictIsRight

\* Steps that neither touch the batches nor the verdict.
LEMMA VerdictQuiet ==
  ASSUME CheckQueueAssumption, Inv, NEW t \in Threads,
         \/ Join(t) \/ WakeUp(t) \/ Sleep(t) \/ WakeSpuriously(t)
         \/ t = Master /\ Wait
  PROVE  VerdictInv'
<1>1. UNCHANGED <<queue, vChecks, fOk, fAllOk, control, added, evaluated, verdict>>
  BY DEF Join, WakeUp, Sleep, WakeSpuriously, Wait, countVars, blockVars
<1>2. \A s \in Threads : pc'[s] = "top" /\ vChecks[s] # {} => pc[s] = "top"
  BY ThreadsFacts DEF Join, WakeUp, Sleep, WakeSpuriously, Wait, Inv, SetsOK, ThreadsInv
<1>3. Outstanding' = Outstanding
  BY <1>1 DEF Outstanding
<1> QED
  BY <1>1, <1>2, <1>3 DEF Inv, VerdictInv, VerdictIsRight

-----------------------------------------------------------------------------
(* The theorems *)

\* The inductive invariant holds at the start.
LEMMA InvInit == CheckQueueAssumption /\ Init => Inv
BY SetsInit, ThreadsInit, CountsInit, BatchesInit, VerdictInit DEF Inv

\* Every step keeps the inductive invariant.
LEMMA InvStep == CheckQueueAssumption /\ Inv /\ [Next]_vars => Inv'
<1> SUFFICES ASSUME CheckQueueAssumption, Inv, [Next]_vars
             PROVE  Inv'
  OBVIOUS
<1>1. CASE UNCHANGED vars
  BY <1>1 DEF vars, countVars, loopVars, blockVars, Inv, SetsOK, ThreadsInv, CountsInv, Idling,
     Joined, BatchesInv, TodoIsOutstanding, Outstanding, VerdictInv, VerdictIsRight
<1>2. CASE Next
  <2>1. SetsOK' /\ ThreadsInv' /\ control # "aborted"
    BY <1>2, SetsStep, ThreadsStep DEF Inv, Next
  <2>2. CountsInv' /\ BatchesInv'
    BY <1>2, <2>1, CountsStep, BatchesStep DEF Inv
  <2>3. VerdictInv'
    BY <1>2, <2>1, ThreadsFacts, VerdictCleanUp, VerdictLeave, VerdictTake, VerdictWork, VerdictAdd,
       VerdictOpen, VerdictQuiet DEF Next, Loop
  <2> QED
    BY <2>1, <2>2, <2>3 DEF Inv
<1> QED
  BY <1>1, <1>2

\* The inductive invariant types the counters too.
LEMMA InvTyping == CheckQueueAssumption /\ Inv => TypeOK
<1> SUFFICES ASSUME CheckQueueAssumption, Inv
             PROVE  TypeOK
  OBVIOUS
<1>1. nIdle \in Nat /\ nTotal \in Nat
  BY CountedFinite, FS_CardinalityType DEF Inv, CountsInv
<1>2. nTodo \in Nat
  BY OutstandingFacts, FS_CardinalityType DEF Inv, BatchesInv, TodoIsOutstanding
<1> QED
  BY <1>1, <1>2 DEF Inv, SetsOK, TypeOK

\* The inductive invariant holds always.
LEMMA Invariance == Spec => []Inv
<1>1. Init => Inv
  BY CheckQueueAssumption, InvInit
<1>2. Inv /\ [Next]_vars => Inv'
  BY CheckQueueAssumption, InvStep
<1> QED
  BY <1>1, <1>2, PTL DEF Spec

\* Every variable keeps its type: in particular no counter of checkqueue.h 41-59 falls below
\* zero, whatever the number of workers and the batch size.
THEOREM Typing == Spec => []TypeOK
<1>1. Inv => TypeOK
  BY CheckQueueAssumption, InvTyping
<1> QED
  BY <1>1, Invariance, PTL

\* checkqueue.h 85, 143: nTodo counts every check in the queue or in a batch, each once.
THEOREM TodoExact == Spec => []TodoIsOutstanding
<1>1. Inv => TodoIsOutstanding
  BY DEF Inv, BatchesInv
<1> QED
  BY <1>1, Invariance, PTL

\* checkqueue.h 107-116: when Wait returns, no check of the block is left anywhere, and the
\* verdict is the one the scripts of the block deserve.
THEOREM VerdictRight == Spec => []VerdictIsRight
<1>1. Inv => VerdictIsRight
  BY DEF Inv, VerdictInv
<1> QED
  BY <1>1, Invariance, PTL

=============================================================================
