-------------------------- MODULE PoolWorkProofs --------------------------
(***************************************************************************)
(* What holds of PoolWork for every set of clients and solutions and every *)
(* bound on the chain: types, a registry without dangling clients, at most *)
(* one block per parent, and at most two payments for a share.             *)
(***************************************************************************)
EXTENDS PoolWork, TLAPS

\* Every variable keeps its type.
LEMMA TypeInit == Init => TypeOK
<1> SUFFICES ASSUME Init PROVE TypeOK
  OBVIOUS
<1> USE WorkAssumption DEF Init, Tips
<1>1. NoWork \in WorkUnit /\ NoSub \in Submission
  BY DEF NoWork, NoSub, NoRoot, Roots, WorkUnit, Submission
<1>2. ASSUME NEW c \in Clients
      PROVE  DOMAIN paid[c] \subseteq Submission /\ paid[c] \in [DOMAIN paid[c] -> Nat]
  <2>1. paid[c] = [s \in {} |-> 0]
    OBVIOUS
  <2> QED
    BY <2>1
<1>3. work \in [Clients -> WorkUnit] /\ \A c \in Clients : work[c].prev <= tip
  BY <1>1 DEF NoWork
<1>4. sub \in [Clients -> Submission] /\ (\A c \in Clients : conn[c] \notin Handling)
  BY <1>1 DEF Handling
<1>5. DOMAIN paid = Clients /\ tip \in Tips /\ seen \in Tips /\ hashPrevBlock \in Tips \cup {0}
  OBVIOUS
<1>6. conn \in [Clients -> {"free", "running", "leaked", "greeted", "served", "gone"}
                             \cup Registered]
  OBVIOUS
<1> QED
  BY <1>2, <1>3, <1>4, <1>5, <1>6 DEF TypeOK

\* Every step keeps the variables in their types.
LEMMA TypeStep == TypeOK /\ [Next]_vars => TypeOK'
<1> SUFFICES ASSUME TypeOK, [Next]_vars PROVE TypeOK'
  OBVIOUS
<1> USE WorkAssumption DEF Tips, Registered, Handling
<1>1. CASE NewTip
  <2>1. tip' \in Tips /\ \A c \in Clients : work[c].prev <= tip'
    BY <1>1 DEF TypeOK, NewTip, WorkUnit
  <2> QED
    BY <1>1, <2>1 DEF TypeOK, NewTip, clientVars, workerVars
<1>2. CASE StartSending
  BY <1>2 DEF TypeOK, StartSending, clientVars
<1>3. CASE FinishSending
  BY <1>3 DEF TypeOK, FinishSending, clientVars
<1>4. ASSUME NEW c \in Clients, CloseSocket(c) \/ StopReading(c) PROVE TypeOK'
  BY <1>4 DEF TypeOK, CloseSocket, StopReading, clientVars, workerVars
<1>5. ASSUME NEW c \in Clients, Accept(c) PROVE TypeOK'
  BY <1>5 DEF TypeOK, Accept, clientVars, workerVars
<1>6. ASSUME NEW c \in Clients, Run(c) PROVE TypeOK'
  BY <1>6 DEF TypeOK, Run, ReadHello, HelloFails, Register, clientVars, workerVars
<1>7. ASSUME NEW c \in Clients, Sendwork(c) PROVE TypeOK'
  <2>6. CASE CreateTemplate(c)
    BY <2>6 DEF TypeOK, CreateTemplate, workerVars
  <2>1. CASE AssignWork(c)
    <3> PICK restart \in Restarts(c) :
          LET nonce == (IF restart THEN 0 ELSE extraNonce[c]) + 1
          IN /\ hashPrevBlock' = template[c]
             /\ extraNonce' = [extraNonce EXCEPT ![c] = nonce]
             /\ work' = [work EXCEPT ![c] = WorkOf(c, nonce)]
      BY <2>1 DEF AssignWork
    <3> DEFINE nonce == (IF restart THEN 0 ELSE extraNonce[c]) + 1
    <3>1. nonce \in Nat /\ template[c] \in Tips /\ tip \in Tips /\ template[c] <= tip
      BY DEF TypeOK
    <3>2. WorkOf(c, nonce) \in WorkUnit /\ WorkOf(c, nonce).prev = template[c]
      BY <3>1 DEF WorkOf, WorkUnit, Roots
    <3> HIDE DEF nonce
    <3>3. work' \in [Clients -> WorkUnit] /\ \A d \in Clients : work'[d].prev <= tip
      BY <3>1, <3>2 DEF TypeOK, nonce
    <3>4. extraNonce' \in [Clients -> Nat] /\ hashPrevBlock' \in Tips
      BY <3>1 DEF TypeOK, nonce
    <3> QED
      BY <2>1, <3>3, <3>4 DEF TypeOK, AssignWork, workerVars
  <2>2. CASE WriteWork(c)
    BY <2>2 DEF TypeOK, WriteWork, WorkUnit, workerVars
  <2>3. CASE ClearSubmitted(c)
    BY <2>3 DEF TypeOK, ClearSubmitted, Sent
  <2>4. CASE TemplateFails(c)
    BY <2>4 DEF TypeOK, TemplateFails, Sent
  <2>5. CASE WriteWorkFails(c)
    BY <2>5 DEF TypeOK, WriteWorkFails, Sent
  <2> QED
    BY <1>7, <2>1, <2>2, <2>3, <2>4, <2>5, <2>6 DEF Sendwork
<1>8. ASSUME NEW c \in Clients, HandleSubmission(c) PROVE TypeOK'
  <2>1. CASE Receive(c)
    BY <2>1 DEF TypeOK, Receive, WorkUnit, Submission, clientVars, workerVars
  <2>2. CASE MatchRoot(c)
    BY <2>2 DEF TypeOK, MatchRoot, clientVars, workerVars
  <2>3. CASE CheckSubmission(c)
    <3>1. Verdict(c) \in {"answering", "solved", "earned"}
      BY DEF Verdict
    <3> QED
      BY <2>3, <3>1 DEF TypeOK, CheckSubmission, clientVars, workerVars
  <2>4. CASE PayShare(c)
    <3> DEFINE f == [s \in DOMAIN paid[c] \cup {sub[c]} |->
                       IF s = sub[c] THEN TimesPaid(c, s) + 1 ELSE paid[c][s]]
    <3>1. paid' = [paid EXCEPT ![c] = f]
      BY <2>4 DEF PayShare
    <3>2. DOMAIN f \subseteq Submission /\ f \in [DOMAIN f -> Nat]
      <4>1. sub[c] \in Submission /\ DOMAIN f = DOMAIN paid[c] \cup {sub[c]}
        BY DEF TypeOK
      <4>2. \A s \in DOMAIN f : f[s] \in Nat
        BY DEF TypeOK, TimesPaid
      <4> QED
        BY <4>1, <4>2 DEF TypeOK
    <3> HIDE DEF f
    <3>3. DOMAIN paid' = Clients
          /\ \A d \in Clients : DOMAIN paid'[d] \subseteq Submission
                                /\ paid'[d] \in [DOMAIN paid'[d] -> Nat]
      BY <3>1, <3>2 DEF TypeOK
    <3>4. submitted' \in [Clients -> SUBSET Solutions]
      BY <2>4 DEF PayShare, TypeOK
    <3> QED
      BY <2>4, <3>3, <3>4 DEF TypeOK, PayShare, workerVars
  <2>5. CASE CheckWork(c)
    <3>1. tip' \in Tips /\ tip' >= tip
      BY <2>5 DEF TypeOK, CheckWork
    <3>2. mined' \subseteq [client : Clients, sub : Submission]
      BY <2>5 DEF TypeOK, CheckWork
    <3>3. \A d \in Clients : work[d].prev <= tip'
      BY <3>1 DEF TypeOK, WorkUnit
    <3> QED
      BY <2>5, <3>1, <3>2, <3>3 DEF TypeOK, CheckWork, clientVars, workerVars
  <2>6. CASE Answer(c) \/ AnswerFails(c)
    <3>1. NoSub \in Submission
      BY DEF NoSub, NoRoot, Roots, Submission
    <3>5. sub' = [sub EXCEPT ![c] = NoSub] /\ conn'[c] \notin Handling
          /\ \A d \in Clients \ {c} : conn'[d] = conn[d]
      BY <2>6 DEF Answer, AnswerFails, TypeOK
    <3>2. sub' \in [Clients -> Submission]
          /\ \A d \in Clients : conn'[d] \in Handling => sub'[d].sol \in Solutions
      BY <3>1, <3>5 DEF TypeOK
    <3>3. CASE Answer(c)
      BY <3>2, <3>3 DEF TypeOK, Answer, clientVars, workerVars
    <3>4. CASE AnswerFails(c)
      BY <3>2, <3>4 DEF TypeOK, AnswerFails, clientVars, workerVars
    <3> QED
      BY <2>6, <3>3, <3>4
  <2>7. CASE Disconnect(c)
    BY <2>7 DEF TypeOK, Disconnect, Erase, clientVars, workerVars
  <2> QED
    BY <1>8, <2>1, <2>2, <2>3, <2>4, <2>5, <2>6, <2>7 DEF HandleSubmission
<1>10. CASE OtherMiner
  BY <1>10 DEF TypeOK, OtherMiner, workerVars
<1>9. CASE UNCHANGED vars
  BY <1>9 DEF TypeOK, vars, clientVars, workerVars
<1> QED
  BY <1>1, <1>2, <1>3, <1>4, <1>5, <1>6, <1>7, <1>8, <1>9, <1>10 DEF Next

-----------------------------------------------------------------------------
(* The registry and the worker's loop *)

\* The registry is exact at the start.
LEMMA RegistryInit == Init => RegistryInv
  BY DEF Init, RegistryInv, RegistryIsExact, Registered, Handling

\* Registering, erasing and deleting clients keep the registry exact.
LEMMA RegistryStep == TypeOK /\ RegistryInv /\ [Next]_vars => RegistryInv'
<1> SUFFICES ASSUME TypeOK, RegistryInv, [Next]_vars PROVE RegistryInv'
  OBVIOUS
<1> USE DEF TypeOK, RegistryInv, RegistryIsExact, Registered, Handling
<1>1. CASE NewTip \/ OtherMiner
  BY <1>1 DEF NewTip, OtherMiner, clientVars, workerVars
<1>2. CASE StartSending
  BY <1>2 DEF StartSending, clientVars
<1>3. CASE FinishSending
  BY <1>3 DEF FinishSending, clientVars
<1>4. ASSUME NEW c \in Clients, CloseSocket(c) \/ StopReading(c) \/ Accept(c) PROVE RegistryInv'
  BY <1>4 DEF CloseSocket, StopReading, Accept, clientVars, workerVars
<1>5. ASSUME NEW c \in Clients, Run(c) PROVE RegistryInv'
  <2>1. CASE ReadHello(c) \/ HelloFails(c)
    BY <2>1 DEF ReadHello, HelloFails, clientVars, workerVars
  <2>2. CASE Register(c)   \* the worker is idle: it has no clients to do
    BY <2>2 DEF Register, ClientsFree, clientVars, workerVars
  <2> QED
    BY <1>5, <2>1, <2>2 DEF Run
<1>6. ASSUME NEW c \in Clients, Sendwork(c) PROVE RegistryInv'
  <2>1. CASE CreateTemplate(c)
    BY <2>1 DEF CreateTemplate, MaySend, workerVars
  <2>2. CASE AssignWork(c) \/ WriteWork(c)
    BY <2>2 DEF AssignWork, WriteWork, workerVars
  <2>3. CASE Sent(c)
    BY <2>3 DEF Sent
  <2> QED
    BY <1>6, <2>1, <2>2, <2>3 DEF Sendwork, ClearSubmitted, TemplateFails, WriteWorkFails
<1>7. ASSUME NEW c \in Clients, HandleSubmission(c) PROVE RegistryInv'
  <2>1. CASE Receive(c) \/ MatchRoot(c)
    BY <2>1 DEF Receive, MatchRoot, clientVars, workerVars
  <2>5. CASE PayShare(c)
    BY <2>5 DEF PayShare, workerVars
  <2>6. CASE Answer(c) \/ AnswerFails(c)
    BY <2>6 DEF Answer, AnswerFails, clientVars, workerVars
  <2>2. CASE CheckSubmission(c)
    <3>1. Verdict(c) \in {"answering", "solved", "earned"}
      BY DEF Verdict
    <3> QED
      BY <2>2, <3>1 DEF CheckSubmission, clientVars, workerVars
  <2>3. CASE CheckWork(c)
    BY <2>3 DEF CheckWork, clientVars, workerVars
  <2>4. CASE Disconnect(c)   \* the lock keeps the worker out: c is not to do
    BY <2>4 DEF Disconnect, ClientsFree, Erase, clientVars, workerVars
  <2> QED
    BY <1>7, <2>1, <2>2, <2>3, <2>4, <2>5, <2>6 DEF HandleSubmission
<1>8. CASE UNCHANGED vars
  BY <1>8 DEF vars, clientVars, workerVars
<1> QED
  BY <1>1, <1>2, <1>3, <1>4, <1>5, <1>6, <1>7, <1>8 DEF Next

\* The types hold in every behaviour.
THEOREM Typing == Spec => []TypeOK
<1> QED
  BY TypeInit, TypeStep, PTL DEF Spec

\* The registry invariant holds from the start on.
LEMMA Registry == Spec => []RegistryInv
<1> QED
  BY Typing, RegistryInit, RegistryStep, PTL DEF Spec

\* The registry holds exactly the clients that were registered and not deleted.
THEOREM RegistryCorrect == Spec => []RegistryIsExact
<1>1. RegistryInv => RegistryIsExact
  BY DEF RegistryInv
<1> QED
  BY <1>1, Registry, PTL

\* Neither Run nor the worker ever sends through a deleted client.
THEOREM NoDanglingClient == Spec => []NoUseAfterFree
<1>1. RegistryInv => NoUseAfterFree
  BY DEF RegistryInv, RegistryIsExact, NoUseAfterFree, Registered, Handling
<1> QED
  BY <1>1, Registry, PTL

-----------------------------------------------------------------------------
(* Blocks *)

\* A second block on a parent is turned down by CheckWork.
LEMMA MinedStep == TypeOK /\ MinedInv /\ [Next]_vars => MinedInv'
<1> SUFFICES ASSUME TypeOK, MinedInv, [Next]_vars PROVE MinedInv'
  OBVIOUS
<1>1. ASSUME NEW c \in Clients, CheckWork(c) PROVE MinedInv'
  <2> DEFINE new == [client |-> c, sub |-> sub[c]]
  <2>1. CASE Accepted(c)
    <3>1. tip' = tip + 1 /\ mined' = mined \cup {new} /\ new.sub.prev = tip
      BY <1>1, <2>1 DEF CheckWork, Accepted
    <3>2. \A m \in mined : m.sub.prev < tip /\ m.sub.prev \in Nat
      BY DEF MinedInv, TypeOK, Submission, Tips
    <3> QED
      BY <3>1, <3>2 DEF MinedInv, OneBlockPerParent, TypeOK, Tips
  <2>2. CASE ~Accepted(c)
    BY <1>1, <2>2 DEF CheckWork, MinedInv, OneBlockPerParent
  <2> QED
    BY <2>1, <2>2
<1>2. ASSUME mined' = mined, tip' \in {tip, tip + 1} PROVE MinedInv'
  <2>1. \A m \in mined : m.sub.prev \in Nat
    BY DEF TypeOK, Submission, Tips
  <2> QED
    BY <1>2, <2>1 DEF MinedInv, OneBlockPerParent, TypeOK, Tips
<1>3. CASE NewTip \/ OtherMiner \/ StartSending \/ FinishSending \/ UNCHANGED vars
  BY <1>2, <1>3 DEF NewTip, OtherMiner, StartSending, FinishSending, vars
<1>4. ASSUME NEW c \in Clients, CloseSocket(c) \/ StopReading(c) \/ Accept(c) \/ Run(c)
      PROVE MinedInv'
  BY <1>2, <1>4 DEF CloseSocket, StopReading, Accept, Run, ReadHello, HelloFails, Register
<1>5. ASSUME NEW c \in Clients, Sendwork(c) PROVE MinedInv'
  BY <1>2, <1>5 DEF Sendwork, CreateTemplate, AssignWork, WriteWork, ClearSubmitted,
                    TemplateFails,
                    WriteWorkFails, Sent
<1>6. ASSUME NEW c \in Clients, HandleSubmission(c) PROVE MinedInv'
  BY <1>1, <1>2, <1>6 DEF HandleSubmission, Receive, MatchRoot, CheckSubmission, PayShare,
                          Answer, AnswerFails, Disconnect
<1> QED
  BY <1>3, <1>4, <1>5, <1>6 DEF Next

\* However many clients solve a parent at once, one solution closes the round.
THEOREM OneBlock == Spec => []OneBlockPerParent
<1>1. Init => MinedInv
  BY DEF Init, MinedInv, OneBlockPerParent
<1>2. MinedInv => OneBlockPerParent
  BY DEF MinedInv
<1> QED
  BY <1>1, <1>2, Typing, MinedStep, PTL DEF Spec

-----------------------------------------------------------------------------
(* Shares *)

\* A paid share has a height no greater than tip, and a client who was paid one is
\* or was registered.
LEMMA HeightsInit == Init => HeightsInv
<1> SUFFICES ASSUME Init PROVE HeightsInv
  OBVIOUS
<1>1. \A c \in Clients : DOMAIN paid[c] = {} /\ issued[c] = {}
  BY DEF Init
<1>2. NoRoot.height = 0 /\ NoWork.root = NoRoot /\ NoSub.root = NoRoot
  BY DEF NoRoot, NoWork, NoSub
<1> QED
  BY <1>1, <1>2, WorkAssumption DEF Init, HeightsInv

\* Work only goes up in height: what the worker sends is as high as what it has seen,
\* and what it has seen no higher than the best block.
LEMMA HeightsStep == TypeOK /\ RegistryInv /\ HeightsInv /\ [Next]_vars => HeightsInv'
<1> SUFFICES ASSUME TypeOK, RegistryInv, HeightsInv, [Next]_vars PROVE HeightsInv'
  OBVIOUS
<1>0. /\ tip \in Nat /\ seen \in Nat
      /\ \A d \in Clients :
           /\ work[d].root.height \in Nat /\ sub[d].root.height \in Nat
           /\ \A w \in issued[d] : w.root.height \in Nat
           /\ \A s \in DOMAIN paid[d] : s.root.height \in Nat
  BY DEF TypeOK, WorkUnit, Submission, Roots, Tips
\* Steps that move only the best block and the connections of registered clients.
<1>1. ASSUME UNCHANGED <<work, issued, paid, stage, worker, todo, seen>>,
             tip' \in {tip, tip + 1},
             \A d \in Clients : /\ sub'[d] = sub[d]
                                /\ conn[d] \in Registered \cup {"gone"}
                                     => conn'[d] \in Registered \cup {"gone"}
      PROVE  HeightsInv'
  BY <1>0, <1>1 DEF HeightsInv
<1>2. CASE NewTip \/ OtherMiner \/ UNCHANGED vars
  BY <1>1, <1>2 DEF NewTip, OtherMiner, vars, clientVars, workerVars, TypeOK
<1>3. CASE StartSending
  <2>1. \A d \in Clients : stage[d] \in {"assigned", "written"} => d \notin clients
    BY <1>3 DEF StartSending, RegistryInv, RegistryIsExact, Registered, Handling
  <2> QED
    BY <1>0, <1>3, <2>1 DEF StartSending, HeightsInv, clientVars
<1>4. CASE FinishSending
  BY <1>0, <1>4 DEF FinishSending, HeightsInv, clientVars
<1>5. ASSUME NEW c \in Clients, CloseSocket(c) \/ StopReading(c) \/ Accept(c) \/ Run(c)
      PROVE HeightsInv'
  BY <1>1, <1>5 DEF CloseSocket, StopReading, Accept, Run, ReadHello, HelloFails, Register,
                    clientVars,
                    workerVars, TypeOK, Registered, Handling
<1>6. ASSUME NEW c \in Clients, Sendwork(c) PROVE HeightsInv'
  <2>1. CASE CreateTemplate(c)
    BY <2>1 DEF CreateTemplate, HeightsInv, TypeOK, workerVars
  <2>2. CASE AssignWork(c)
    <3>1. /\ \E n : work' = [work EXCEPT ![c] = WorkOf(c, n)]
          /\ stage[c] = "created" /\ stage' = [stage EXCEPT ![c] = "assigned"]
          /\ UNCHANGED <<tip, conn, issued, sub, paid, worker, todo, seen>>
      BY <2>2 DEF AssignWork, workerVars
    <3>2. work'[c].root.height = tip /\ \A d \in Clients \ {c} : work'[d] = work[d]
      BY <3>1 DEF WorkOf, TypeOK
    <3>3. c \in todo => seen < tip
      BY DEF HeightsInv, RegistryInv, TypeOK
    <3> QED
      BY <1>0, <3>1, <3>2, <3>3 DEF HeightsInv, TypeOK
  <2>3. CASE WriteWork(c)
    BY <1>0, <2>3 DEF WriteWork, HeightsInv, TypeOK, workerVars
  <2>4. CASE Sent(c)
    BY <1>0, <2>4 DEF Sent, HeightsInv, TypeOK, RegistryInv, RegistryIsExact, Registered, Handling
  <2> QED
    BY <1>6, <2>1, <2>2, <2>3, <2>4 DEF Sendwork, ClearSubmitted, TemplateFails, WriteWorkFails
<1>7. ASSUME NEW c \in Clients, HandleSubmission(c) PROVE HeightsInv'
  <2>1. CASE Receive(c)
    BY <1>0, <2>1 DEF Receive, HeightsInv, TypeOK, Registered, Handling, clientVars, workerVars
  <2>2. CASE PayShare(c)
    <3>1. /\ DOMAIN paid'[c] = DOMAIN paid[c] \cup {sub[c]}
          /\ \A d \in Clients \ {c} : paid'[d] = paid[d]
          /\ conn'[c] \in Registered /\ \A d \in Clients \ {c} : conn'[d] = conn[d]
          /\ UNCHANGED <<tip, work, stage, issued, sub, worker, todo, seen>>
      BY <2>2 DEF PayShare, TypeOK, Registered, Handling, workerVars
    <3> QED
      BY <3>1 DEF HeightsInv
  <2>3. CASE Answer(c) \/ AnswerFails(c)
    <3>1. /\ sub'[c].root.height = 0 /\ \A d \in Clients \ {c} : sub'[d] = sub[d]
          /\ conn'[c] \in Registered /\ \A d \in Clients \ {c} : conn'[d] = conn[d]
          /\ UNCHANGED <<tip, work, issued, stage, paid, worker, todo, seen>>
      BY <2>3 DEF Answer, AnswerFails, NoSub, NoRoot, TypeOK, Registered, Handling, clientVars,
                  workerVars
    <3> QED
      BY <1>0, <3>1 DEF HeightsInv
  <2>4. CASE MatchRoot(c) \/ CheckSubmission(c) \/ CheckWork(c) \/ Disconnect(c)
    <3>1. Verdict(c) \in {"answering", "solved", "earned"}
      BY DEF Verdict
    <3> QED
      BY <1>1, <2>4, <3>1 DEF MatchRoot, CheckSubmission, CheckWork, Disconnect, clientVars,
                              workerVars, TypeOK, Registered, Handling
  <2> QED
    BY <1>7, <2>1, <2>2, <2>3, <2>4 DEF HandleSubmission
<1> QED
  BY <1>2, <1>3, <1>4, <1>5, <1>6, <1>7 DEF Next

\* No share is paid at the start.
LEMMA PaidInit == Init => PaidInv
<1> SUFFICES ASSUME Init, NEW c \in Clients PROVE SharesOK(c) /\ EarnedOK(c)
  BY DEF PaidInv
<1>1. DOMAIN paid[c] = {} /\ conn[c] = "free"
  BY DEF Init
<1> QED
  BY <1>1 DEF SharesOK, EarnedOK

\* Every step keeps the bounds on the payments of a share.
LEMMA PaidStep ==
  TypeOK /\ RegistryInv /\ HeightsInv /\ PaidInv /\ [Next]_vars => PaidInv'
<1> SUFFICES ASSUME TypeOK, RegistryInv, HeightsInv, PaidInv, [Next]_vars PROVE PaidInv'
  OBVIOUS
\* Steps that leave every client's shares alone, and bring no submission to "earned".
<1>1. ASSUME UNCHANGED <<paid, work, submitted, worker, todo, seen>>,
             \A d \in Clients : conn'[d] = "earned" => conn[d] = "earned" /\ sub'[d] = sub[d]
      PROVE  PaidInv'
  BY <1>1 DEF PaidInv, SharesOK, EarnedOK, TimesPaid, Unsent
\* Steps of a client that leave the others' shares alone.
<1>2. ASSUME NEW c \in Clients,
             worker' = worker, seen' = seen, todo' = todo \/ todo' = todo \ {c},
             \A d \in Clients \ {c} :
               /\ paid'[d] = paid[d] /\ work'[d] = work[d] /\ submitted'[d] = submitted[d]
               /\ conn'[d] = conn[d] /\ sub'[d] = sub[d],
             SharesOK(c)', EarnedOK(c)'
      PROVE  PaidInv'
  BY <1>2 DEF PaidInv, SharesOK, EarnedOK, TimesPaid, Unsent
<1>3. /\ tip \in Nat /\ seen \in Nat
      /\ \A d \in Clients : sub[d].root.height \in Nat /\ work[d].root.height \in Nat
      /\ \A d \in Clients : \A s \in DOMAIN paid[d] : paid[d][s] \in Nat /\ s.root.height \in Nat
  BY DEF TypeOK, WorkUnit, Submission, Roots, Tips
<1>4. ASSUME NEW c \in Clients, CreateTemplate(c) \/ WriteWork(c) PROVE PaidInv'
  BY <1>1, <1>4 DEF CreateTemplate, WriteWork, workerVars
<1>5. ASSUME NEW c \in Clients, AssignWork(c) PROVE PaidInv'
  <2>1. /\ stage[c] = "created"
        /\ \E n : work' = [work EXCEPT ![c] = WorkOf(c, n)]
        /\ UNCHANGED <<paid, submitted, conn, sub, worker, todo, seen, tip>>
    BY <1>5 DEF AssignWork, workerVars
  <2>2. work'[c].root.height = tip /\ \A d \in Clients \ {c} : work'[d] = work[d]
    BY <2>1 DEF WorkOf, TypeOK
  <2>3. CASE c \in todo   \* the worker's: nothing above seen was paid twice
    <3>1. seen < tip /\ Unsent(c)
      BY <2>3 DEF HeightsInv, RegistryInv, TypeOK, Unsent
    <3> QED
      BY <1>2, <1>3, <2>1, <2>2, <3>1 DEF PaidInv, SharesOK, EarnedOK, TimesPaid, Unsent
  <2>4. CASE c \notin todo   \* Run's: nothing was paid
    <3>1. DOMAIN paid[c] = {} /\ conn[c] # "earned"
      BY <2>1, <2>4 DEF HeightsInv, RegistryInv, Registered, Handling
    <3> QED
      BY <1>2, <2>1, <2>2, <3>1 DEF SharesOK, EarnedOK
  <2> QED
    BY <2>3, <2>4
<1>6. ASSUME NEW c \in Clients, Sent(c), submitted'[c] = submitted[c] \/ stage[c] = "written",
             \A d \in Clients \ {c} : submitted'[d] = submitted[d]
      PROVE  PaidInv'
  <2>1. /\ todo' = todo \ {c} /\ UNCHANGED <<paid, work, sub, worker, seen>>
        /\ conn'[c] \in {conn[c], "served"} /\ \A d \in Clients \ {c} : conn'[d] = conn[d]
    BY <1>6 DEF Sent, TypeOK
  <2>2. CASE stage[c] = "written" /\ c \in todo   \* the root sent is above seen
    <3>1. work[c].root.height > seen /\ Unsent(c)
      BY <2>2 DEF HeightsInv, Unsent
    <3>2. SharesOK(c)'
      BY <1>3, <2>1, <3>1, <2>2 DEF PaidInv, SharesOK, Unsent, RegistryInv, TypeOK
    <3>3. EarnedOK(c)'
      BY <1>3, <2>1, <2>2 DEF PaidInv, EarnedOK, TimesPaid, Unsent, RegistryInv, TypeOK
    <3> QED
      BY <1>2, <1>6, <2>1, <3>2, <3>3
  <2>3. CASE c \notin todo /\ stage[c] # "done"
    <3>1. DOMAIN paid[c] = {} /\ conn[c] # "earned"
      BY <2>3 DEF HeightsInv, RegistryInv, Registered, Handling
    <3> QED
      BY <1>2, <1>6, <2>1, <3>1 DEF SharesOK, EarnedOK
  <2>4. CASE submitted'[c] = submitted[c]
    <3>1. SharesOK(c)' /\ EarnedOK(c)'
      BY <1>3, <2>1, <2>4 DEF PaidInv, SharesOK, EarnedOK, TimesPaid, Unsent
    <3> QED
      BY <1>2, <1>6, <2>1, <3>1
  <2> QED
    BY <1>6, <2>2, <2>3, <2>4
<1>7. ASSUME NEW c \in Clients, Sendwork(c) PROVE PaidInv'
  BY <1>4, <1>5, <1>6, <1>7
     DEF Sendwork, ClearSubmitted, TemplateFails, WriteWorkFails, TypeOK
<1>8. CASE StartSending
  <2>1. /\ worker = "idle" /\ worker' = "sending" /\ todo' = clients
        /\ UNCHANGED <<paid, work, submitted, conn, sub, seen>>
    BY <1>8 DEF StartSending, clientVars
  <2> QED
    BY <1>3, <2>1 DEF PaidInv, SharesOK, EarnedOK, TimesPaid, Unsent
<1>9. CASE FinishSending   \* seen catches up with every root
  <2>1. seen' = tip /\ UNCHANGED <<paid, work, submitted, conn, sub>>
    BY <1>9 DEF FinishSending, clientVars
  <2> QED
    BY <1>3, <2>1 DEF PaidInv, SharesOK, EarnedOK, TimesPaid, Unsent, HeightsInv
<1>10. ASSUME NEW c \in Clients, CheckSubmission(c) PROVE PaidInv'
  <2>1. /\ conn' = [conn EXCEPT ![c] = Verdict(c)]
        /\ UNCHANGED <<paid, work, submitted, sub, worker, todo, seen>>
    BY <1>10 DEF CheckSubmission, clientVars, workerVars
  <2>2. SharesOK(c)'
    BY <2>1 DEF PaidInv, SharesOK, Unsent
  <2>3. ASSUME Verdict(c) = "earned" PROVE EarnedOK(c)'   \* the solution is not in the list
    <3>1. sub[c].sol \notin submitted[c] /\ sub[c].root = work[c].root
      BY <2>3 DEF Verdict, Valid
    <3>2. CASE sub[c] \in DOMAIN paid[c]
      BY <2>1, <3>1, <3>2, <1>3 DEF PaidInv, SharesOK, EarnedOK, TimesPaid, Unsent
    <3>3. CASE sub[c] \notin DOMAIN paid[c]
      BY <2>1, <3>3 DEF EarnedOK, TimesPaid
    <3> QED
      BY <3>2, <3>3
  <2>4. EarnedOK(c)'
    BY <2>1, <2>3 DEF EarnedOK, TypeOK
  <2> QED
    BY <1>2, <2>1, <2>2, <2>4 DEF TypeOK
<1>11. ASSUME NEW c \in Clients, PayShare(c) PROVE PaidInv'
  <2> DEFINE s0 == sub[c]
  <2>1. /\ conn[c] = "earned" /\ conn' = [conn EXCEPT ![c] = "answering"]
        /\ submitted' = [submitted EXCEPT ![c] = submitted[c] \cup {s0.sol}]
        /\ UNCHANGED <<work, sub, worker, todo, seen>>
    BY <1>11 DEF PayShare, workerVars
  <2>2. /\ DOMAIN paid'[c] = DOMAIN paid[c] \cup {s0}
        /\ paid'[c][s0] = TimesPaid(c, s0) + 1
        /\ \A s \in DOMAIN paid[c] \ {s0} : paid'[c][s] = paid[c][s]
        /\ \A d \in Clients \ {c} : paid'[d] = paid[d]
    BY <1>11 DEF PayShare, TypeOK
  <2>3. /\ TimesPaid(c, s0) \in Nat /\ TimesPaid(c, s0) <= 1
        /\ Unsent(c) /\ s0.root.height > seen => TimesPaid(c, s0) = 0
    BY <2>1, <1>3 DEF PaidInv, EarnedOK, TimesPaid
  <2>4. submitted'[c] = submitted[c] \cup {s0.sol}
    BY <2>1 DEF TypeOK
  <2>5. SharesOK(c)'
    <3> SUFFICES ASSUME NEW s \in DOMAIN paid'[c]
        PROVE /\ paid'[c][s] <= 2
              /\ s.root = work[c].root /\ paid'[c][s] = 2 => s.sol \in submitted'[c]
              /\ Unsent(c) /\ s.root.height > seen => paid'[c][s] <= 1 /\ s.sol \in submitted'[c]
      BY <2>1 DEF SharesOK, Unsent
    <3>1. CASE s = s0
      BY <3>1, <2>2, <2>3, <2>4
    <3>2. CASE s # s0
      BY <3>2, <2>2, <2>4 DEF PaidInv, SharesOK
    <3> QED
      BY <3>1, <3>2
  <2>6. EarnedOK(c)'
    BY <2>1 DEF EarnedOK, TypeOK
  <2> QED
    BY <1>2, <2>1, <2>2, <2>5, <2>6 DEF TypeOK
<1>12. CASE NewTip \/ OtherMiner \/ UNCHANGED vars
  BY <1>1, <1>12 DEF NewTip, OtherMiner, vars, clientVars, workerVars
<1>13. ASSUME NEW c \in Clients, CloseSocket(c) \/ StopReading(c) \/ Accept(c) \/ Run(c)
      PROVE PaidInv'
  BY <1>1, <1>13 DEF CloseSocket, StopReading, Accept, Run, ReadHello, HelloFails, Register,
                     clientVars,
                     workerVars, TypeOK
<1>14. ASSUME NEW c \in Clients, Receive(c) \/ MatchRoot(c) \/ CheckWork(c) PROVE PaidInv'
  BY <1>1, <1>14 DEF Receive, MatchRoot, CheckWork, clientVars, workerVars, TypeOK
<1>15. ASSUME NEW c \in Clients, Answer(c) \/ AnswerFails(c) \/ Disconnect(c) PROVE PaidInv'
  BY <1>1, <1>15 DEF Answer, AnswerFails, Disconnect, clientVars, workerVars, TypeOK
<1>16. ASSUME NEW c \in Clients, HandleSubmission(c) PROVE PaidInv'
  BY <1>10, <1>11, <1>14, <1>15, <1>16 DEF HandleSubmission
<1> QED
  BY <1>7, <1>8, <1>9, <1>12, <1>13, <1>16 DEF Next

\* Whatever a miner resends and however the work changes under his submissions,
\* a share is paid at most twice.
THEOREM NoThirdPayment == Spec => []PaidAtMostTwice
<1>1. PaidInv => PaidAtMostTwice
  BY DEF PaidInv, SharesOK, PaidAtMostTwice
<1>2. Init => HeightsInv /\ PaidInv
  BY HeightsInit, PaidInit
<1>3. TypeOK /\ RegistryInv /\ HeightsInv /\ PaidInv /\ [Next]_vars => (HeightsInv /\ PaidInv)'
  BY HeightsStep, PaidStep
<1> QED
  BY <1>1, <1>2, <1>3, Typing, Registry, PTL DEF Spec
=============================================================================
