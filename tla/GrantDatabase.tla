--------------------------- MODULE GrantDatabase ---------------------------
(***************************************************************************)
(* The grant database of a node (main.cpp): blocks of the best chain are   *)
(* processed, GRANTBLOCKINTERVAL behind the block that pays, into balances *)
(* and votes; the awards counted from them must be in the coinbase of      *)
(* every block whose height is a multiple of the interval, from the second *)
(* multiple on.                                                            *)
(*                                                                         *)
(* SetBestChain asks for the awards under cs_main, one block of a branch   *)
(* after another, and changes the pnext links when all are connected.      *)
(* Threads that make block templates (the pool, a miner, getblocktemplate) *)
(* ask for them under the lock grantdb only, along the same links, and     *)
(* choose the template's parent later, under cs_main.  The database is     *)
(* read and written block by block, by whoever holds grantdb.              *)
(*                                                                         *)
(* A block is the list of the branch numbers of it and the blocks below    *)
(* it.  The content of the database is the list of the blocks processed,   *)
(* and the awards counted from it are that list: no two contents are taken *)
(* to elect the same winners (the count itself is in Election).            *)
(***************************************************************************)
EXTENDS Integers, Sequences, SequencesExt

CONSTANTS GRANTBLOCKINTERVAL,
          Threads,        \* threads that make templates
          Net,            \* the thread that handles the blocks of the network
          Nobody,         \* holder of a free lock
          NoFile,         \* grantdb.dat does not exist
          NoTemplate,     \* CreateNewBlock has returned none
          MaxHeight,      \* bound on the chain
          MaxBranches,    \* bound on the number of branches
          MaxRestarts     \* bound on the number of restarts

ASSUME GrantAssumption ==
  /\ GRANTBLOCKINTERVAL \in Nat \ {0, 1}
  /\ MaxHeight \in Nat /\ MaxBranches \in Nat /\ MaxRestarts \in Nat
  /\ Net \notin Threads /\ Nobody \notin Threads \cup {Net}

NoAwards == <<>>

VARIABLES
  chain,      \* pnext links from the genesis block: [branch, pays] at heights 1, 2, ...
  best,       \* the chain that ends in pindexBest
  saved,      \* the chain of the coins written last: a restart goes back to it
  newChain,   \* the chain SetBestChain connects
  pfork,      \* height at which it leaves the best chain
  connected,  \* height up to which its view is connected
  net,        \* what the network's thread is at
  branches,   \* number of the last branch
  refused,    \* a block that pays the awards of its own chain was refused
  settled,    \* longest list of blocks that were to be counted for a chain
  steady,     \* every chain so far has those blocks, and no branch an interval of new ones
  restarts,
  cs_main, grantdb,                     \* holders of the locks
  crashed,    \* a NULL block was read
  dbHeight,   \* grantDatabaseBlockHeight
  content,    \* the blocks balances and votingPreferences were made from, genesis left out
  pointer,    \* gdBlockPointer, when it is not NULL
  stage,      \* what the holder of grantdb is at, while it processes blocks
  goal,       \* requiredGrantDatabaseHeight of the holder of grantdb
  awards,     \* grantAwards
  file,       \* blocks/grantdb.dat
  phase,      \* where CreateNewBlock is, by thread
  coinbase,   \* the awards it has put into its block, by thread
  template    \* the last block made by CreateNewBlock, with its parent

branchVars == <<newChain, pfork, connected, net, branches, refused, settled, steady>>
chainVars == <<chain, best, saved, branchVars>>
dbVars == <<dbHeight, content, pointer, stage, goal, awards, file, crashed>>
templateVars == <<phase, coinbase, template>>
vars == <<chainVars, restarts, cs_main, grantdb, dbVars, templateVars>>

Init ==
  /\ chain = <<>> /\ best = <<>> /\ saved = <<>> /\ newChain = <<>>
  /\ pfork = 0 /\ connected = 0 /\ net = "idle" /\ branches = 0 /\ refused = FALSE
  /\ settled = <<>> /\ steady = TRUE /\ restarts = 0
  /\ cs_main = Nobody /\ grantdb = Nobody /\ crashed = FALSE
  /\ dbHeight = -1 /\ content = <<>> /\ pointer = <<>> /\ stage = "next" /\ goal = 0
  /\ awards = NoAwards /\ file = NoFile
  /\ phase = [t \in Threads |-> "idle"] /\ coinbase = [t \in Threads |-> NoAwards]
  /\ template = NoTemplate

isGrantAwardBlock(nHeight) ==
  nHeight % GRANTBLOCKINTERVAL = 0 /\ nHeight # 0 /\ nHeight # GRANTBLOCKINTERVAL

Blocks(c, n) == [i \in 1..n |-> c[i].branch]

\* A list of blocks goes along chain c, as far as both go.
Along(blocks, c) == \A n \in 1..Len(blocks) : n <= Len(c) => blocks[n] = c[n].branch

\* What the network's rules make the block after a list of blocks pay.
DueAfter(blocks) ==
  LET nHeight == Len(blocks) + 1
  IN IF isGrantAwardBlock(nHeight) THEN SubSeq(blocks, 1, nHeight - GRANTBLOCKINTERVAL) ELSE NoAwards

\* What they make a block of chain c pay.
Due(c, nHeight) == DueAfter(Blocks(c, nHeight - 1))

-----------------------------------------------------------------------------
(* ensureGrantDatabaseUptoDate, for the holder of grantdb *)

\* Mutation: votes are counted up to the block that pays.
RequiredHeightAt(nHeight) == nHeight

\* The height votes are counted up to.
RequiredHeight(nHeight) == nHeight - GRANTBLOCKINTERVAL

\* Mutation: a file that has processed too many blocks is loaded too.
UsableAlways(required) == dbHeight = -1 /\ file # NoFile

\* The file is read after a start only, when it is not later than required.
Usable(required) == dbHeight = -1 /\ file # NoFile /\ file.height <= required

\* Mutation: the height is written before the block's votes are counted in the file.
EnsureUptoDateOneLess(nHeight) ==
  LET required == RequiredHeight(nHeight)
  IN /\ goal' = required /\ stage' = "next"
     /\ IF Usable(required)
        THEN /\ dbHeight' = file.height - 1 /\ content' = file.content
             /\ pointer' = Blocks(chain, file.height - 1)
        ELSE UNCHANGED <<dbHeight, content, pointer>>
     /\ UNCHANGED <<awards, file, crashed>>

\* deSerializeGrantDB; the pointer goes along the best chain, whichever chain the
\* file was made from, and stops where the chain does.
EnsureUptoDate(nHeight) ==
  LET required == RequiredHeight(nHeight)
  IN /\ goal' = required /\ stage' = "next"
     /\ IF Usable(required)
        THEN /\ dbHeight' = file.height /\ content' = file.content
             /\ pointer' = Blocks(chain, IF file.height <= Len(chain) THEN file.height ELSE Len(chain))
        ELSE UNCHANGED <<dbHeight, content, pointer>>
     /\ UNCHANGED <<awards, file, crashed>>

UptoDate == stage = "next" /\ dbHeight >= goal

\* pnext of the block at the pointer: that of a disconnected block, and of the
\* last one, is NULL.
Leads == Len(pointer) < Len(chain) /\ Along(pointer, chain)

\* Who processes blocks: SetBestChain, or a template's thread.
Counting(p) == /\ ~crashed /\ grantdb = p
               /\ p \in Threads => phase[p] \in {"counting", "testing"}

\* processNextBlockIntoGrantDatabase goes to the next block, and waits in
\* GetTransaction for cs_main if the block spends anything, ...
NextBlock(p) ==
  /\ Counting(p) /\ stage = "next" /\ dbHeight < goal
  /\ IF dbHeight = -1 \/ Leads
     THEN /\ pointer' = IF dbHeight = -1 THEN <<>> ELSE Append(pointer, chain[Len(pointer) + 1].branch)
          /\ stage' \in {"block"} \cup (IF dbHeight = -1 \/ cs_main = p THEN {} ELSE {"inputs"})
          /\ UNCHANGED crashed
     ELSE crashed' = TRUE /\ UNCHANGED <<pointer, stage>>
  /\ UNCHANGED <<chainVars, restarts, cs_main, grantdb, dbHeight, content, goal, awards, file, templateVars>>

\* Mutation: the awards are counted before the last block is.
CountedAtBefore(height) == isGrantAwardBlock(height + 1 + GRANTBLOCKINTERVAL)

\* The awards of the block an interval above are counted, and the database saved.
CountedAt(height) == isGrantAwardBlock(height + GRANTBLOCKINTERVAL)

\* ... and processes it.
ProcessBlock(p) ==
  /\ Counting(p)
  /\ \/ stage = "block"
     \/ stage = "inputs" /\ cs_main \in {Nobody, p}
  /\ dbHeight' = dbHeight + 1 /\ stage' = "next"
  /\ content' = IF dbHeight = -1 THEN <<>> ELSE Append(content, Last(pointer))
  /\ IF CountedAt(dbHeight')
     THEN awards' = content' /\ file' = [height |-> dbHeight', content |-> content']
     ELSE UNCHANGED <<awards, file>>
  /\ UNCHANGED <<chainVars, restarts, cs_main, grantdb, pointer, goal, crashed, templateVars>>

-----------------------------------------------------------------------------
(* SetBestChain, for blocks of the network and of this node, under cs_main *)

AwardsPaid(c) == \A n \in 1..Len(c) : c[n].pays = Due(c, n)

ToCount(c) == Blocks(c, IF Len(c) + 1 < GRANTBLOCKINTERVAL THEN 0 ELSE Len(c) + 1 - GRANTBLOCKINTERVAL)

SetBestChain(c, fork) ==
  /\ ~crashed /\ cs_main = Nobody
  /\ newChain' = c /\ pfork' = fork /\ connected' = fork /\ net' = "connect" /\ cs_main' = Net
  /\ steady' = (steady /\ Along(settled, c) /\ Len(c) < fork + GRANTBLOCKINTERVAL)
  /\ settled' = IF Len(ToCount(c)) > Len(settled) THEN ToCount(c) ELSE settled
  /\ UNCHANGED <<chain, best, saved, refused, restarts, grantdb, dbVars, templateVars>>

\* A branch of the network: blocks numbered 0, which may come again after a restart
\* or a reorganisation, or new ones, the last of which may not pay what it should.
\* Which of two branches has more work is not told apart by their lengths.
Branch(fork, length, branch, paying) ==
  LET blocks == [n \in 1..length |-> IF n <= fork THEN best[n].branch ELSE branch]
  IN [n \in 1..length |->
        IF n <= fork THEN best[n]
        ELSE [branch |-> branch,
              pays |-> IF paying \/ n < length THEN DueAfter(SubSeq(blocks, 1, n - 1)) ELSE NoAwards]]

NetworkBranch ==
  \E fork \in 0..Len(best), length \in 1..MaxHeight, branch \in {0, branches + 1},
     paying \in BOOLEAN :
    /\ fork < length
    /\ branch = 0 => paying
    /\ branch # 0 => branches < MaxBranches
    /\ fork < Len(best) => best[fork + 1].branch # branch
    /\ ~refused /\ AwardsPaid(best)
    /\ branches' = IF branch = 0 THEN branches ELSE branch
    /\ SetBestChain(Branch(fork, length, branch, paying), fork)

\* CheckWork: the template's parent is still the best block.
MineTemplate ==
  /\ template # NoTemplate /\ template.parent = Blocks(best, Len(best))
  /\ Len(best) < MaxHeight /\ branches < MaxBranches
  /\ branches' = branches + 1
  /\ SetBestChain(Append(best, [branch |-> branches + 1, pays |-> template.pays]), Len(best))

\* SetBestChain returns.
Return == /\ net' = "idle" /\ cs_main' = Nobody
          /\ newChain' = <<>> /\ pfork' = 0 /\ connected' = 0

Connecting == ~crashed /\ net = "connect" /\ connected < Len(newChain)

\* Mutation: a block that pays no awards is connected too.
PaysAny(n, counted) == newChain[n].pays \in {counted, NoAwards}

\* The coinbase pays the awards counted, and no more.
Pays(n, counted) == newChain[n].pays = counted

Connect(counted) ==
  LET n == connected + 1
  IN IF Pays(n, counted)
     THEN /\ connected' = n
          /\ UNCHANGED <<newChain, pfork, net, branches, refused, settled, steady, cs_main>>
     ELSE /\ refused' = (refused \/ newChain[n].pays = Due(newChain, n))
          /\ Return /\ UNCHANGED <<branches, settled, steady>>

\* One ConnectBlock, which takes grantdb; a block that pays awards has them counted first.
ConnectBlock ==
  /\ Connecting /\ grantdb = Nobody /\ ~isGrantAwardBlock(connected + 1)
  /\ Connect(NoAwards)
  /\ UNCHANGED <<chain, best, saved, restarts, grantdb, dbVars, templateVars>>

GetGrantAwards ==
  /\ Connecting /\ grantdb = Nobody /\ isGrantAwardBlock(connected + 1)
  /\ grantdb' = Net /\ EnsureUptoDate(connected + 1)
  /\ UNCHANGED <<chainVars, restarts, cs_main, templateVars>>

ConnectAwardBlock ==
  /\ Connecting /\ grantdb = Net /\ UptoDate
  /\ Connect(awards) /\ grantdb' = Nobody
  /\ UNCHANGED <<chain, best, saved, restarts, dbVars, templateVars>>

\* The coins go to disk now, or not while the node downloads the chain.
Flush ==
  /\ ~crashed /\ net = "connect" /\ connected = Len(newChain)
  /\ saved' \in {saved, newChain} /\ net' = "disconnect"
  /\ UNCHANGED <<chain, best, newChain, pfork, connected, branches, refused, settled, steady>>
  /\ UNCHANGED <<restarts, cs_main, grantdb, dbVars, templateVars>>

\* pnext of the blocks above the fork, from the best block down ...
Disconnect ==
  /\ ~crashed /\ net = "disconnect"
  /\ IF Len(chain) > pfork THEN chain' = Front(chain) /\ UNCHANGED net
                           ELSE net' = "link" /\ UNCHANGED chain
  /\ UNCHANGED <<best, saved, newChain, pfork, connected, branches, refused, settled, steady>>
  /\ UNCHANGED <<restarts, cs_main, grantdb, dbVars, templateVars>>

\* ... and of those of the new branch, from the fork up, before pindexBest moves.
Link ==
  /\ ~crashed /\ net = "link" /\ Len(chain) < Len(newChain)
  /\ chain' = Append(chain, newChain[Len(chain) + 1])
  /\ UNCHANGED <<best, saved, branchVars, restarts, cs_main, grantdb, dbVars, templateVars>>

NewBest ==
  /\ ~crashed /\ net = "link" /\ Len(chain) = Len(newChain)
  /\ best' = newChain /\ Return
  /\ UNCHANGED <<chain, saved, branches, refused, settled, steady>>
  /\ UNCHANGED <<restarts, grantdb, dbVars, templateVars>>

-----------------------------------------------------------------------------
(* CreateNewBlock, for each thread that makes templates *)

Goes(t, from, to) == ~crashed /\ phase[t] = from /\ phase' = [phase EXCEPT ![t] = to]

\* Under grantdb: is the next block one that pays awards?
CreateNewBlock(t) ==
  /\ grantdb = Nobody
  /\ IF isGrantAwardBlock(Len(best) + 1)
     THEN Goes(t, "idle", "asked") /\ grantdb' = t /\ UNCHANGED coinbase
     ELSE Goes(t, "idle", "made") /\ coinbase' = [coinbase EXCEPT ![t] = NoAwards] /\ UNCHANGED grantdb
  /\ UNCHANGED <<chainVars, restarts, cs_main, dbVars, template>>

\* getGrantAwards reads the best block again, and throws if it is no longer so.
AskAwards(t) ==
  /\ IF isGrantAwardBlock(Len(best) + 1)
     THEN Goes(t, "asked", "counting") /\ EnsureUptoDate(Len(best) + 1) /\ UNCHANGED grantdb
     ELSE Goes(t, "asked", "idle") /\ grantdb' = Nobody /\ UNCHANGED dbVars
  /\ UNCHANGED <<chainVars, restarts, cs_main, coinbase, template>>

AddAwards(t) ==
  /\ Goes(t, "counting", "made") /\ UptoDate
  /\ coinbase' = [coinbase EXCEPT ![t] = awards] /\ grantdb' = Nobody
  /\ UNCHANGED <<chainVars, restarts, cs_main, dbVars, template>>

\* Under cs_main, to the end: pindexPrev is the best block now ...
ChooseParent(t) ==
  /\ Goes(t, "made", "chosen") /\ cs_main = Nobody
  /\ cs_main' = t
  /\ UNCHANGED <<chainVars, restarts, grantdb, dbVars, coinbase, template>>

\* Mutation: the template is not tried.
TestedNever(t, counted) == TRUE

Tested(t, counted) == coinbase[t] = counted

\* The template is returned if it connects, and CreateNewBlock throws if it does not.
Finish(t, counted) ==
  /\ cs_main' = Nobody /\ coinbase' = [coinbase EXCEPT ![t] = NoAwards]
  /\ template' = IF Tested(t, counted)
                 THEN [parent |-> Blocks(best, Len(best)), pays |-> coinbase[t]] ELSE template

\* ... and ConnectBlock is tried on the template.
TestBlock(t) ==
  /\ grantdb = Nobody
  /\ IF isGrantAwardBlock(Len(best) + 1)
     THEN /\ Goes(t, "chosen", "testing")
          /\ grantdb' = t /\ EnsureUptoDate(Len(best) + 1)
          /\ UNCHANGED <<cs_main, coinbase, template>>
     ELSE /\ Goes(t, "chosen", "idle")
          /\ Finish(t, NoAwards)
          /\ UNCHANGED <<grantdb, dbVars>>
  /\ UNCHANGED <<chainVars, restarts>>

TestAwardBlock(t) ==
  /\ Goes(t, "testing", "idle") /\ UptoDate
  /\ Finish(t, awards) /\ grantdb' = Nobody
  /\ UNCHANGED <<chainVars, restarts, dbVars>>

-----------------------------------------------------------------------------
\* The process is killed at any moment, or ends when nothing is under way, and
\* starts again from the coins on disk.
Restart ==
  /\ restarts < MaxRestarts
  /\ restarts' = restarts + 1
  /\ \E c \in {saved} \cup (IF net = "idle" /\ ~crashed THEN {best} ELSE {}) :
       /\ chain' = c /\ best' = c /\ saved' = c
       /\ steady' = (steady /\ Along(settled, c))
  /\ Return /\ grantdb' = Nobody /\ crashed' = FALSE
  /\ dbHeight' = -1 /\ content' = <<>> /\ pointer' = <<>> /\ stage' = "next" /\ goal' = 0
  /\ awards' = NoAwards
  /\ phase' = [t \in Threads |-> "idle"] /\ coinbase' = [t \in Threads |-> NoAwards]
  /\ template' = NoTemplate
  /\ UNCHANGED <<branches, refused, settled, file>>

CreateBlocks(t) ==
  \/ CreateNewBlock(t) \/ AskAwards(t) \/ AddAwards(t) \/ ChooseParent(t)
  \/ TestBlock(t) \/ TestAwardBlock(t)

Next ==
  \/ NetworkBranch \/ MineTemplate
  \/ ConnectBlock \/ GetGrantAwards \/ ConnectAwardBlock
  \/ Flush \/ Disconnect \/ Link \/ NewBest
  \/ \E p \in Threads \cup {Net} : NextBlock(p) \/ ProcessBlock(p)
  \/ \E t \in Threads : CreateBlocks(t)
  \/ Restart

Spec == Init /\ [][Next]_vars

-----------------------------------------------------------------------------
(* Properties *)

Branches == 0..MaxBranches
Block == [branch : Branches, pays : Seq(Branches)]
IsChain(c) == c \in Seq(Block) /\ Len(c) <= MaxHeight
IsList(blocks) == blocks \in Seq(Branches) /\ Len(blocks) <= MaxHeight
IsFile(f) == /\ f = [height |-> f.height, content |-> f.content]
             /\ IsList(f.content) /\ f.height = Len(f.content)
IsTemplate(b) == IsList(b.parent) /\ b.pays \in Seq(Branches)

TypeOK ==
  /\ IsChain(chain) /\ IsChain(best) /\ IsChain(saved) /\ IsChain(newChain)
  /\ pfork \in Nat /\ connected \in pfork..Len(newChain)
  /\ net \in {"idle", "connect", "disconnect", "link"}
  /\ branches \in Branches /\ refused \in BOOLEAN /\ steady \in BOOLEAN
  /\ IsList(settled) /\ restarts \in 0..MaxRestarts
  /\ cs_main \in Threads \cup {Net, Nobody} /\ grantdb \in Threads \cup {Net, Nobody}
  /\ dbHeight \in -1..MaxHeight /\ IsList(content)
  /\ Len(content) = (IF dbHeight = -1 THEN 0 ELSE dbHeight)
  /\ IsList(pointer) /\ stage \in {"next", "block", "inputs"} /\ goal \in 0..MaxHeight
  /\ stage # "next" => dbHeight < goal /\ (dbHeight # -1 => pointer # <<>>)
  /\ IsList(awards) /\ (file = NoFile \/ IsFile(file)) /\ crashed \in BOOLEAN
  /\ phase \in [Threads -> {"idle", "asked", "counting", "made", "chosen", "testing"}]
  /\ coinbase \in [Threads -> Seq(Branches)]
  /\ template = NoTemplate \/ IsTemplate(template)

\* main.cpp 5443, 5452, 5463: blocks once processed are never taken back; while no
\* chain replaces blocks that were to be counted, the database, in memory and as far
\* as the chain goes on disk, and the awards last counted are those of the chain.
DatabaseOfChain ==
  steady => /\ Len(content) <= Len(chain) /\ Along(content, chain)
            /\ grantdb = Nobody => awards \in {NoAwards, content}
            /\ file # NoFile => Along(file.content, chain)

\* main.cpp 5530: so long the block after the pointer is there when it is read, by
\* a template too, and while SetBestChain resets and sets the links.
NoNullBlock == steady => ~crashed

\* main.cpp 1952-1995: so long a node that has not been restarted refuses no block
\* that pays the awards of its chain ...
ValidIsAccepted == steady /\ restarts = 0 => ~refused

\* ... has none in its chain, made by itself or by others, that does not ...
AwardsArePaid == steady /\ restarts = 0 => AwardsPaid(best)

\* ... and main.cpp 4510-4527, 4565: makes none that does not, wherever the best block
\* moves between the count of the awards and the choice of the parent.
TemplatesPay ==
  steady /\ restarts = 0 /\ template # NoTemplate => template.pays = DueAfter(template.parent)

\* All of them say what holds while the chains are steady: TLC follows no others.
Followed == steady

\* What keeps them.  Each lock's holder is where it holds it, and blocks are processed
\* by the holder of grantdb, up to the height an award block asks for.
Counts == grantdb # Nobody /\ (grantdb \in Threads => phase[grantdb] # "asked")

LocksInv ==
  /\ cs_main = Net <=> net # "idle"
  /\ net \in {"disconnect", "link"} => connected = Len(newChain)
  /\ \A t \in Threads : /\ cs_main = t <=> phase[t] \in {"chosen", "testing"}
                        /\ grantdb = t <=> phase[t] \in {"asked", "counting", "testing"}
  /\ grantdb = Net => /\ net = "connect" /\ connected < Len(newChain)
                      /\ isGrantAwardBlock(connected + 1) /\ goal = RequiredHeight(connected + 1)
  /\ cs_main # Net /\ cs_main = grantdb /\ Counts =>
       isGrantAwardBlock(Len(best) + 1) /\ goal = RequiredHeight(Len(best) + 1)
  /\ Counts => goal # 0 /\ goal % GRANTBLOCKINTERVAL = 0
  /\ stage # "next" => Counts

\* The blocks to be counted for a chain are known, and it has them.
Known(c) == Len(c) + 1 - GRANTBLOCKINTERVAL <= Len(settled)

\* A list of blocks that has been counted.
Sure(blocks) == Len(blocks) <= Len(settled) /\ \A n \in 1..Len(blocks) : blocks[n] = settled[n]

\* While SetBestChain runs, the chain is the old one down to the fork and the new one
\* from there, and only blocks above what was to be counted are replaced.
ChainsInv ==
  /\ Known(best) /\ Known(saved) /\ Along(settled, best) /\ Along(settled, chain)
  /\ net \in {"idle", "connect"} => chain = best
  /\ net # "idle" =>
       /\ Known(newChain) /\ Along(settled, newChain)
       /\ pfork <= Len(best) /\ pfork < Len(newChain) /\ Len(newChain) < pfork + GRANTBLOCKINTERVAL
       /\ pfork < Len(best) => Len(settled) <= pfork
       /\ pfork <= Len(chain)
       /\ \A n \in 1..pfork : newChain[n] = best[n]
  /\ net = "disconnect" => \A n \in 1..pfork : chain[n] = best[n]
  /\ net = "link" => /\ Len(chain) <= Len(newChain)
                     /\ \A n \in 1..Len(chain) : chain[n] = newChain[n]

\* What is processed, loaded or on disk are blocks that were to be counted, as is what
\* is still asked for; no chain is shorter.
DatabaseInv ==
  /\ ~crashed
  /\ Sure(content) /\ Len(content) <= Len(best)
  /\ goal <= Len(settled) /\ goal <= Len(best)
  /\ Sure(pointer)
  /\ stage = "next" => Len(pointer) = Len(content)
  /\ stage # "next" => Len(pointer) = dbHeight + 1
  /\ file # NoFile => Sure(file.content)
  /\ awards \in {NoAwards, content} \/ (Counts /\ dbHeight < goal)

SteadyInv == steady => ChainsInv /\ DatabaseInv

\* What keeps the awards right until a restart: those counted last are of the content
\* of the database, which is never beyond what a block asks for.
AwardsInv ==
  steady /\ restarts = 0 =>
    /\ ~refused /\ AwardsPaid(best)
    /\ net # "idle" => \A n \in 1..connected : newChain[n].pays = Due(newChain, n)
    /\ dbHeight = -1 => file = NoFile
    /\ Counts => dbHeight <= goal
    /\ dbHeight # -1 /\ (Counts => dbHeight = goal) =>
         dbHeight % GRANTBLOCKINTERVAL = 0 /\ awards = content
    /\ template # NoTemplate => template.pays = DueAfter(template.parent)

-----------------------------------------------------------------------------
\* main.cpp 1960 "Ensure fees are going to award winners": every award block in
\* the chain pays the winners, restarts or not.
FeesGoToWinners == steady => AwardsPaid(best)

\* doc/coding.md 52-55, "Deadlocks due to inconsistent lock ordering ... are a
\* problem": a thread that holds grantdb never waits for cs_main while the holder of
\* cs_main waits for grantdb.
LocksNeverCross ==
  ~ \E p \in Threads :
      /\ Counting(p) /\ stage = "inputs"
      /\ cs_main \notin {p, Nobody}
      /\ IF cs_main = Net THEN net = "connect" /\ connected < Len(newChain)
                          ELSE phase[cs_main] = "chosen"

=============================================================================
