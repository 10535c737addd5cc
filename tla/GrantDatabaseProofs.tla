------------------------ MODULE GrantDatabaseProofs ------------------------
(***************************************************************************)
(* Proofs about GrantDatabase: while no chain replaces blocks that were to *)
(* be counted, the grant database holds the votes of the best chain and    *)
(* never follows a NULL pointer, whatever the templates and the restarts;  *)
(* and until its first restart a node refuses no block that pays the       *)
(* awards of its chain, connects none that does not, and makes none.       *)
(* Every variable keeps its type, and every lock its holder, whatever      *)
(* replaces what.                                                          *)
(***************************************************************************)
EXTENDS GrantDatabase, SequenceTheorems, TLAPS

USE DEF NoAwards

(* Lists of blocks *)

\* The first n blocks of a chain are a list of n of them.
LEMMA BlocksType ==
  ASSUME NEW c \in Seq(Block), NEW n \in 0..Len(c)
  PROVE  /\ Blocks(c, n) \in Seq(Branches) /\ Len(Blocks(c, n)) = n
         /\ \A i \in 1..n : Blocks(c, n)[i] = c[i].branch
<1>1. ASSUME NEW i \in 1..n PROVE c[i].branch \in Branches
  <2>1. c[i] \in Block
    BY ElementOfSeq, i \in 1..Len(c)
  <2> QED
    BY <2>1 DEF Block
<1> QED
  BY <1>1 DEF Blocks

\* The first blocks of a list are a list of so many of them.
LEMMA FirstOf ==
  ASSUME NEW S, NEW s \in Seq(S), NEW n \in Int, n <= Len(s)
  PROVE  /\ SubSeq(s, 1, n) \in Seq(S)
         /\ Len(SubSeq(s, 1, n)) = IF n >= 0 THEN n ELSE 0
         /\ \A i \in 1..n : SubSeq(s, 1, n)[i] = s[i]
<1>1. \A i \in 1..n : s[i] \in S
  BY ElementOfSeq
<1>2. /\ SubSeq(s, 1, n) \in Seq(S)
      /\ Len(SubSeq(s, 1, n)) = IF 1 <= n THEN n - 1 + 1 ELSE 0
      /\ \A i \in 1..(n - 1 + 1) : SubSeq(s, 1, n)[i] = s[1 + i - 1]
  BY <1>1, SubSeqProperties
<1> QED
  BY <1>2

\* What is due after a list of blocks is a list of them.
LEMMA DueType ==
  ASSUME GrantAssumption, NEW blocks \in Seq(Branches)
  PROVE  DueAfter(blocks) \in Seq(Branches)
<1>1. Len(blocks) \in Nat /\ GRANTBLOCKINTERVAL \in Nat /\ GRANTBLOCKINTERVAL > 1
  BY DEF GrantAssumption
<1>2. Len(blocks) + 1 - GRANTBLOCKINTERVAL \in Int /\ Len(blocks) + 1 - GRANTBLOCKINTERVAL <= Len(blocks)
  BY <1>1
<1>3. SubSeq(blocks, 1, Len(blocks) + 1 - GRANTBLOCKINTERVAL) \in Seq(Branches)
  BY <1>2, FirstOf
<1> QED
  BY <1>3 DEF DueAfter

\* The blocks to be counted for a chain are a list of its first blocks.
LEMMA ToCountType ==
  ASSUME GrantAssumption, NEW c \in Seq(Block)
  PROVE  /\ ToCount(c) \in Seq(Branches) /\ Len(ToCount(c)) <= Len(c)
         /\ Len(ToCount(c)) = IF Len(c) + 1 < GRANTBLOCKINTERVAL THEN 0 ELSE Len(c) + 1 - GRANTBLOCKINTERVAL
         /\ \A i \in 1..Len(ToCount(c)) : ToCount(c)[i] = c[i].branch
<1> DEFINE n == IF Len(c) + 1 < GRANTBLOCKINTERVAL THEN 0 ELSE Len(c) + 1 - GRANTBLOCKINTERVAL
<1>1. n \in 0..Len(c)
  BY DEF GrantAssumption
<1>2. ToCount(c) = Blocks(c, n)
  BY DEF ToCount
<1> HIDE DEF n
<1>3. /\ ToCount(c) \in Seq(Branches) /\ Len(ToCount(c)) = n
      /\ \A i \in 1..n : ToCount(c)[i] = c[i].branch
  BY <1>1, <1>2, BlocksType
<1>4. Len(ToCount(c)) <= Len(c)
  BY <1>1, <1>3
<1> QED
  BY <1>3, <1>4 DEF n

-----------------------------------------------------------------------------
(* Multiples of the interval *)

\* What divides evenly is a multiple.
LEMMA Quotient ==
  ASSUME NEW k \in Nat \ {0}, NEW a \in Nat, a % k = 0
  PROVE  \E q \in Int : a = q * k
<1>1. a = (a \div k) * k + (a % k) /\ a \div k \in Int
  BY Z3
<1>2. a = (a \div k) * k
  BY <1>1
<1> QED
  BY <1>1, <1>2, Zenon

\* The interval below a multiple is a multiple.
LEMMA MultipleBefore ==
  ASSUME NEW k \in Nat \ {0}, NEW a \in Nat, a % k = 0
  PROVE  (a - k) % k = 0
<1>1. PICK q \in Int : a = q * k
  BY Quotient
<1>2. a - k = (q - 1) * k
  BY <1>1
<1>3. ASSUME NEW r \in Int PROVE (r * k) % k = 0
  BY Z3
<1> QED
  BY <1>2, <1>3, q - 1 \in Int

\* Multiples less than the interval apart are equal.
LEMMA SameMultiple ==
  ASSUME NEW k \in Nat \ {0}, NEW a \in Nat, NEW b \in Nat,
         a % k = 0, b % k = 0, a <= b, b < a + k
  PROVE  a = b
<1>1. PICK q \in Int : a = q * k
  BY Quotient
<1>2. PICK r \in Int : b = r * k
  BY Quotient
<1>3. CASE r = q
  BY <1>1, <1>2, <1>3
<1>4. CASE r < q
  <2>1. (r + 1) * k <= q * k
    BY <1>4
  <2> QED
    BY <1>1, <1>2, <2>1
<1>5. CASE r > q
  <2>1. r * k >= (q + 1) * k
    BY <1>5
  <2>2. (q + 1) * k = q * k + k
    OBVIOUS
  <2> QED
    BY <1>1, <1>2, <2>1, <2>2
<1> QED
  BY <1>3, <1>4, <1>5

\* An award block is at a multiple of the interval, and so are the votes it counts.
LEMMA AwardHeight ==
  ASSUME GrantAssumption, NEW n \in Nat, isGrantAwardBlock(n)
  PROVE  /\ n - GRANTBLOCKINTERVAL \in Nat \ {0}
         /\ (n - GRANTBLOCKINTERVAL) % GRANTBLOCKINTERVAL = 0
<1> DEFINE k == GRANTBLOCKINTERVAL
<1>1. k \in Nat \ {0} /\ n % k = 0 /\ n # 0 /\ n # k
  BY DEF GrantAssumption, isGrantAwardBlock
<1> HIDE DEF k
<1>2. 0 % k = 0
  BY <1>1, Z3
<1>3. n >= k
  BY <1>1, <1>2, SameMultiple
<1>4. (n - k) % k = 0
  BY <1>1, MultipleBefore
<1> QED
  BY <1>1, <1>3, <1>4 DEF k

\* A multiple above another is the interval above it, or more.
LEMMA NextMultiple ==
  ASSUME NEW k \in Nat \ {0}, NEW a \in Nat, NEW b \in Nat, a % k = 0, b % k = 0, a < b
  PROVE  a <= b - k
<1>1. SUFFICES ASSUME b < a + k PROVE FALSE
  OBVIOUS
<1>2. a = b
  BY <1>1, a <= b, SameMultiple
<1> QED
  BY <1>2

-----------------------------------------------------------------------------
(* Types *)

ChainTypes ==
  /\ IsChain(chain) /\ IsChain(best) /\ IsChain(saved) /\ IsChain(newChain)
  /\ pfork \in Nat /\ connected \in pfork..Len(newChain)
  /\ net \in {"idle", "connect", "disconnect", "link"}
  /\ branches \in Branches /\ refused \in BOOLEAN /\ steady \in BOOLEAN
  /\ IsList(settled) /\ restarts \in 0..MaxRestarts

LockTypes == cs_main \in Threads \cup {Net, Nobody} /\ grantdb \in Threads \cup {Net, Nobody}

DatabaseTypes ==
  /\ dbHeight \in -1..MaxHeight /\ IsList(content)
  /\ Len(content) = (IF dbHeight = -1 THEN 0 ELSE dbHeight)
  /\ IsList(pointer) /\ stage \in {"next", "block", "inputs"} /\ goal \in 0..MaxHeight
  /\ stage # "next" => dbHeight < goal /\ (dbHeight # -1 => pointer # <<>>)
  /\ IsList(awards) /\ (file = NoFile \/ IsFile(file)) /\ crashed \in BOOLEAN

TemplateTypes ==
  /\ phase \in [Threads -> {"idle", "asked", "counting", "made", "chosen", "testing"}]
  /\ coinbase \in [Threads -> Seq(Branches)]
  /\ template = NoTemplate \/ IsTemplate(template)

LEMMA TypeParts == TypeOK <=> ChainTypes /\ LockTypes /\ DatabaseTypes /\ TemplateTypes
BY DEF TypeOK, ChainTypes, LockTypes, DatabaseTypes, TemplateTypes

LEMMA TypePartsNext == TypeOK' <=> ChainTypes' /\ LockTypes' /\ DatabaseTypes' /\ TemplateTypes'
BY DEF TypeOK, ChainTypes, LockTypes, DatabaseTypes, TemplateTypes

\* What a step leaves alone keeps its type.
LEMMA ChainTypesKept ==
  ASSUME ChainTypes, UNCHANGED chainVars, UNCHANGED restarts PROVE ChainTypes'
BY DEF ChainTypes, chainVars, branchVars, IsChain, IsList

LEMMA DatabaseTypesKept ==
  ASSUME DatabaseTypes, UNCHANGED dbVars PROVE DatabaseTypes'
BY DEF DatabaseTypes, dbVars, IsList, IsFile

LEMMA TemplateTypesKept ==
  ASSUME TemplateTypes, UNCHANGED templateVars PROVE TemplateTypes'
BY DEF TemplateTypes, templateVars, IsTemplate, IsList

\* A list of the blocks of a chain is one of the model's bounds.
LEMMA BlocksList ==
  ASSUME GrantAssumption, NEW c, IsChain(c), NEW n \in 0..Len(c)
  PROVE  IsList(Blocks(c, n)) /\ Len(Blocks(c, n)) = n
<1>1. c \in Seq(Block) /\ Len(c) <= MaxHeight
  BY DEF IsChain
<1>2. Blocks(c, n) \in Seq(Branches) /\ Len(Blocks(c, n)) = n
  BY <1>1, BlocksType
<1>3. n <= MaxHeight
  BY <1>1 DEF GrantAssumption
<1> QED
  BY <1>2, <1>3 DEF IsList

\* Asked for by an award block, the database keeps its types.
LEMMA EnsureTypes ==
  ASSUME GrantAssumption, ChainTypes, DatabaseTypes, NEW n \in Nat, n <= MaxHeight + 1,
         isGrantAwardBlock(n), EnsureUptoDate(n)
  PROVE  DatabaseTypes' /\ goal' = n - GRANTBLOCKINTERVAL /\ stage' = "next"
<1>1. /\ goal' = n - GRANTBLOCKINTERVAL /\ stage' = "next"
      /\ awards' = awards /\ file' = file /\ crashed' = crashed
  BY DEF EnsureUptoDate, RequiredHeight
<1>2. n - GRANTBLOCKINTERVAL \in 0..MaxHeight
  BY AwardHeight DEF GrantAssumption
<1>3. CASE Usable(n - GRANTBLOCKINTERVAL)
  <2> DEFINE m == IF file.height <= Len(chain) THEN file.height ELSE Len(chain)
  <2>1. /\ dbHeight' = file.height /\ content' = file.content /\ pointer' = Blocks(chain, m)
    BY <1>3 DEF EnsureUptoDate, RequiredHeight
  <2>2. IsFile(file)
    BY <1>3 DEF DatabaseTypes, Usable
  <2>3. m \in 0..Len(chain) /\ IsChain(chain)
    BY <2>2 DEF IsFile, IsList, ChainTypes, IsChain
  <2> HIDE DEF m
  <2>4. IsList(pointer')
    BY <2>1, <2>3, BlocksList
  <2>5. file.height \in 0..MaxHeight /\ IsList(content') /\ Len(content') = file.height
    BY <2>1, <2>2 DEF IsFile, IsList
  <2>6. IsList(awards') /\ (file' = NoFile \/ IsFile(file')) /\ crashed' \in BOOLEAN
    BY <1>1 DEF DatabaseTypes
  <2>7. file.height # -1
    BY <2>5
  <2> QED
    BY <1>1, <1>2, <2>1, <2>4, <2>5, <2>6, <2>7 DEF DatabaseTypes
<1>4. CASE ~Usable(n - GRANTBLOCKINTERVAL)
  <2>1. dbHeight' = dbHeight /\ content' = content /\ pointer' = pointer
    BY <1>4 DEF EnsureUptoDate, RequiredHeight
  <2> QED
    BY <1>1, <1>2, <2>1 DEF DatabaseTypes, IsFile, IsList
<1> QED
  BY <1>1, <1>3, <1>4

\* A step of the holder of grantdb to the next block keeps the database's types.
LEMMA NextBlockTypes ==
  ASSUME GrantAssumption, ChainTypes, DatabaseTypes, NEW p, NextBlock(p)
  PROVE  DatabaseTypes'
<1>1. /\ dbHeight' = dbHeight /\ content' = content /\ goal' = goal /\ awards' = awards /\ file' = file
      /\ stage = "next" /\ dbHeight < goal
  BY DEF NextBlock
<1>2. CASE dbHeight = -1
  <2>1. pointer' = <<>> /\ stage' \in {"block", "inputs"} /\ crashed' = crashed
    BY <1>2 DEF NextBlock
  <2>2. IsList(pointer')
    BY <2>1 DEF IsList, GrantAssumption
  <2> QED
    BY <1>1, <1>2, <2>1, <2>2 DEF DatabaseTypes, IsList, IsFile
<1>3. CASE dbHeight # -1 /\ Leads
  <2>1. /\ pointer' = Append(pointer, chain[Len(pointer) + 1].branch)
        /\ stage' \in {"block", "inputs"} /\ crashed' = crashed
    BY <1>3 DEF NextBlock
  <2>2. /\ pointer \in Seq(Branches) /\ Len(pointer) \in Nat /\ Len(pointer) < Len(chain)
        /\ chain \in Seq(Block) /\ Len(chain) <= MaxHeight
    BY <1>3 DEF Leads, DatabaseTypes, IsList, ChainTypes, IsChain
  <2>3. chain[Len(pointer) + 1] \in Block
    BY <2>2, ElementOfSeq, Len(pointer) + 1 \in 1..Len(chain)
  <2>4. chain[Len(pointer) + 1].branch \in Branches
    BY <2>3 DEF Block
  <2>5. pointer' \in Seq(Branches) /\ Len(pointer') = Len(pointer) + 1
    BY <2>1, <2>2, <2>4
  <2>6. IsList(pointer') /\ pointer' # <<>>
    BY <2>2, <2>5 DEF IsList, GrantAssumption
  <2> QED
    BY <1>1, <2>1, <2>6 DEF DatabaseTypes, IsList, IsFile
<1>4. CASE dbHeight # -1 /\ ~Leads
  <2>1. pointer' = pointer /\ stage' = stage /\ crashed' = TRUE
    BY <1>4 DEF NextBlock
  <2> QED
    BY <1>1, <2>1 DEF DatabaseTypes, IsList, IsFile
<1> QED
  BY <1>2, <1>3, <1>4

\* So does the processing of a block.
LEMMA ProcessBlockTypes ==
  ASSUME GrantAssumption, ChainTypes, DatabaseTypes, NEW p, ProcessBlock(p)
  PROVE  DatabaseTypes' /\ Len(content') = dbHeight'
<1>1. /\ pointer' = pointer /\ goal' = goal /\ crashed' = crashed
      /\ stage \in {"block", "inputs"} /\ stage' = "next" /\ dbHeight' = dbHeight + 1
      /\ content' = IF dbHeight = -1 THEN <<>> ELSE Append(content, Last(pointer))
      /\ \/ awards' = content' /\ file' = [height |-> dbHeight', content |-> content']
         \/ awards' = awards /\ file' = file
  BY DEF ProcessBlock
<1>2. dbHeight' \in 0..MaxHeight
  BY <1>1 DEF DatabaseTypes, GrantAssumption
<1>3. IsList(content') /\ Len(content') = dbHeight'
  <2>1. CASE dbHeight = -1
    BY <1>1, <2>1 DEF IsList, GrantAssumption
  <2>2. CASE dbHeight # -1
    <3>1. /\ pointer \in Seq(Branches) /\ pointer # <<>> /\ content \in Seq(Branches)
          /\ Len(content) = dbHeight /\ dbHeight \in Nat
      BY <1>1, <2>2 DEF DatabaseTypes, IsList
    <3>2. Last(pointer) \in Branches
      BY <3>1, ElementOfSeq, Len(pointer) \in 1..Len(pointer) DEF Last
    <3>3. content' \in Seq(Branches) /\ Len(content') = Len(content) + 1
      BY <1>1, <2>2, <3>1, <3>2
    <3> QED
      BY <1>1, <1>2, <3>1, <3>3 DEF IsList
  <2> QED
    BY <2>1, <2>2
<1>4. IsList(awards') /\ (file' = NoFile \/ IsFile(file'))
  <2>1. CASE awards' = content' /\ file' = [height |-> dbHeight', content |-> content']
    BY <2>1, <1>3 DEF IsFile
  <2>2. CASE awards' = awards /\ file' = file
    BY <2>2 DEF DatabaseTypes
  <2> QED
    BY <1>1, <2>1, <2>2
<1> QED
  BY <1>1, <1>2, <1>3, <1>4 DEF DatabaseTypes, IsList

\* A branch of the network is a chain of typed blocks, the first of them those of the
\* best chain; the blocks above the fork are numbered alike.
LEMMA BranchType ==
  ASSUME GrantAssumption, IsChain(best), NEW fork \in 0..Len(best), NEW length \in 1..MaxHeight,
         NEW branch \in Branches, NEW paying \in BOOLEAN, fork < length
  PROVE  /\ IsChain(Branch(fork, length, branch, paying))
         /\ Len(Branch(fork, length, branch, paying)) = length
         /\ \A n \in 1..fork : Branch(fork, length, branch, paying)[n] = best[n]
         /\ \A n \in (fork + 1)..length : Branch(fork, length, branch, paying)[n].branch = branch
<1> DEFINE blocks == [n \in 1..length |-> IF n <= fork THEN best[n].branch ELSE branch]
           pays(n) == IF paying \/ n < length THEN DueAfter(SubSeq(blocks, 1, n - 1)) ELSE NoAwards
           b == [n \in 1..length |-> IF n <= fork THEN best[n] ELSE [branch |-> branch, pays |-> pays(n)]]
<1>1. Branch(fork, length, branch, paying) = b
  BY DEF Branch
<1>2. best \in Seq(Block)
  BY DEF IsChain
<1>3. ASSUME NEW n \in 1..fork PROVE best[n] \in Block /\ best[n].branch \in Branches
  <2>1. best[n] \in Block
    BY <1>2, ElementOfSeq, n \in 1..Len(best)
  <2> QED
    BY <2>1 DEF Block
<1>4. blocks \in Seq(Branches) /\ Len(blocks) = length
  BY <1>3
<1> HIDE DEF blocks
<1>5. ASSUME NEW n \in 1..length PROVE pays(n) \in Seq(Branches)
  <2>1. SubSeq(blocks, 1, n - 1) \in Seq(Branches)
    BY <1>4, n - 1 \in Int, n - 1 <= length, FirstOf
  <2>2. DueAfter(SubSeq(blocks, 1, n - 1)) \in Seq(Branches)
    BY <2>1, DueType
  <2> QED
    BY <2>2
<1> HIDE DEF pays
<1>6. ASSUME NEW n \in 1..length
      PROVE  (IF n <= fork THEN best[n] ELSE [branch |-> branch, pays |-> pays(n)]) \in Block
  <2>1. [branch |-> branch, pays |-> pays(n)] \in Block
    BY <1>5 DEF Block
  <2> QED
    BY <2>1, <1>3
<1>7. b \in Seq(Block) /\ Len(b) = length
  BY <1>6
<1>8. \A n \in 1..fork : b[n] = best[n]
  OBVIOUS
<1>9. \A n \in (fork + 1)..length : b[n].branch = branch
  OBVIOUS
<1> HIDE DEF b
<1>10. IsChain(b)
  BY <1>7 DEF IsChain
<1> QED
  BY <1>1, <1>7, <1>8, <1>9, <1>10

\* SetBestChain starts with a typed chain that it does not fork from too high.
LEMMA SetBestChainTypes ==
  ASSUME GrantAssumption, ChainTypes, NEW c, IsChain(c), NEW fork \in 0..Len(c),
         branches' \in Branches, SetBestChain(c, fork)
  PROVE  ChainTypes'
<1>1. /\ newChain' = c /\ pfork' = fork /\ connected' = fork /\ net' = "connect"
      /\ chain' = chain /\ best' = best /\ saved' = saved /\ refused' = refused /\ restarts' = restarts
      /\ steady' \in BOOLEAN
      /\ settled' = settled \/ settled' = ToCount(c)
  BY DEF SetBestChain
<1>2. IsList(ToCount(c))
  <2>1. ToCount(c) \in Seq(Branches) /\ Len(ToCount(c)) <= Len(c) /\ Len(c) <= MaxHeight /\ c \in Seq(Block)
    BY ToCountType DEF IsChain
  <2> QED
    BY <2>1 DEF IsList, GrantAssumption
<1>3. IsList(settled')
  BY <1>1, <1>2 DEF ChainTypes
<1>4. connected' \in pfork'..Len(newChain')
  BY <1>1 DEF IsChain
<1> QED
  BY <1>1, <1>3, <1>4 DEF ChainTypes

\* The chains keep their types when blocks are offered ...
LEMMA NetworkTypes ==
  ASSUME GrantAssumption, ChainTypes, NetworkBranch
  PROVE  ChainTypes'
<1>1. PICK fork \in 0..Len(best), length \in 1..MaxHeight, branch \in {0, branches + 1}, paying \in BOOLEAN :
        /\ fork < length /\ (branch # 0 => branches < MaxBranches)
        /\ branches' = IF branch = 0 THEN branches ELSE branch
        /\ SetBestChain(Branch(fork, length, branch, paying), fork)
  BY DEF NetworkBranch
<1>2. branch \in Branches /\ branches' \in Branches /\ IsChain(best)
  BY <1>1 DEF ChainTypes, Branches, GrantAssumption
<1>3. /\ IsChain(Branch(fork, length, branch, paying))
      /\ Len(Branch(fork, length, branch, paying)) = length
  BY <1>1, <1>2, BranchType
<1> QED
  BY <1>1, <1>2, <1>3, SetBestChainTypes

LEMMA MineTypes ==
  ASSUME GrantAssumption, ChainTypes, TemplateTypes, MineTemplate
  PROVE  ChainTypes'
<1> DEFINE b == [branch |-> branches + 1, pays |-> template.pays]
<1>1. /\ template # NoTemplate /\ Len(best) < MaxHeight /\ branches < MaxBranches
      /\ branches' = branches + 1 /\ SetBestChain(Append(best, b), Len(best))
  BY DEF MineTemplate
<1>2. b \in Block /\ branches' \in Branches
  BY <1>1 DEF TemplateTypes, IsTemplate, ChainTypes, Branches, GrantAssumption, Block
<1> HIDE DEF b
<1>3. best \in Seq(Block)
  BY DEF ChainTypes, IsChain
<1>4. Append(best, b) \in Seq(Block) /\ Len(Append(best, b)) = Len(best) + 1
  BY <1>2, <1>3
<1>5. IsChain(Append(best, b)) /\ Len(best) \in 0..Len(Append(best, b))
  BY <1>1, <1>3, <1>4 DEF IsChain, GrantAssumption
<1> QED
  BY <1>1, <1>2, <1>5, SetBestChainTypes

\* ... when one is connected or refused ...
LEMMA ConnectTypes ==
  ASSUME GrantAssumption, ChainTypes, Connecting, NEW counted, Connect(counted),
         chain' = chain, best' = best, saved' = saved, restarts' = restarts
  PROVE  ChainTypes' /\ (cs_main' = cs_main \/ cs_main' = Nobody)
<1>1. CASE Pays(connected + 1, counted)
  <2>1. /\ connected' = connected + 1 /\ newChain' = newChain /\ pfork' = pfork /\ net' = net
        /\ branches' = branches /\ refused' = refused /\ settled' = settled /\ steady' = steady
        /\ cs_main' = cs_main
    BY <1>1 DEF Connect
  <2>2. connected' \in pfork'..Len(newChain')
    BY <2>1 DEF ChainTypes, IsChain, Connecting
  <2> QED
    BY <2>1, <2>2 DEF ChainTypes
<1>2. CASE ~Pays(connected + 1, counted)
  <2>1. /\ connected' = 0 /\ newChain' = <<>> /\ pfork' = 0 /\ net' = "idle" /\ cs_main' = Nobody
        /\ refused' = (refused \/ newChain[connected + 1].pays = Due(newChain, connected + 1))
        /\ branches' = branches /\ settled' = settled /\ steady' = steady
    BY <1>2 DEF Connect, Return
  <2>2. IsChain(newChain') /\ connected' \in pfork'..Len(newChain') /\ refused' \in BOOLEAN
    BY <2>1 DEF IsChain, GrantAssumption, ChainTypes
  <2> QED
    BY <2>1, <2>2 DEF ChainTypes
<1> QED
  BY <1>1, <1>2

\* ... and while the links and the best block change.
LEMMA LinkTypes ==
  ASSUME GrantAssumption, ChainTypes, Flush \/ Disconnect \/ Link \/ NewBest
  PROVE  ChainTypes'
<1>1. CASE Flush
  BY <1>1 DEF Flush, ChainTypes
<1>2. CASE Disconnect
  <2>1. CASE Len(chain) > pfork
    <3>1. chain \in Seq(Block) /\ Len(chain) <= MaxHeight /\ Len(chain) \in Nat /\ Len(chain) > 0
      BY <2>1 DEF ChainTypes, IsChain
    <3>2. chain' = SubSeq(chain, 1, Len(chain) - 1)
      BY <1>2, <2>1 DEF Disconnect, Front
    <3>3. chain' \in Seq(Block) /\ Len(chain') = Len(chain) - 1
      <4> DEFINE m == Len(chain) - 1
      <4>1. m \in Int /\ m <= Len(chain) /\ m >= 0
        BY <3>1
      <4> HIDE DEF m
      <4>2. SubSeq(chain, 1, m) \in Seq(Block) /\ Len(SubSeq(chain, 1, m)) = m
        BY <3>1, <4>1, FirstOf
      <4> QED
        BY <3>2, <4>2 DEF m
    <3>4. IsChain(chain')
      BY <3>1, <3>3 DEF IsChain, GrantAssumption
    <3> QED
      BY <1>2, <2>1, <3>4 DEF Disconnect, ChainTypes
  <2>2. CASE ~(Len(chain) > pfork)
    BY <1>2, <2>2 DEF Disconnect, ChainTypes
  <2> QED
    BY <2>1, <2>2
<1>3. CASE Link
  <2>1. /\ chain \in Seq(Block) /\ newChain \in Seq(Block) /\ Len(newChain) <= MaxHeight
        /\ Len(chain) < Len(newChain) /\ Len(chain) \in Nat
        /\ chain' = Append(chain, newChain[Len(chain) + 1])
    BY <1>3 DEF Link, ChainTypes, IsChain
  <2>2. newChain[Len(chain) + 1] \in Block
    BY <2>1, ElementOfSeq, Len(chain) + 1 \in 1..Len(newChain)
  <2>3. chain' \in Seq(Block) /\ Len(chain') = Len(chain) + 1
    BY <2>1, <2>2
  <2>4. IsChain(chain')
    BY <2>1, <2>3 DEF IsChain, GrantAssumption
  <2> QED
    BY <1>3, <2>4 DEF Link, branchVars, ChainTypes
<1>4. CASE NewBest
  <2>1. /\ best' = newChain /\ newChain' = <<>> /\ pfork' = 0 /\ connected' = 0 /\ net' = "idle"
        /\ UNCHANGED <<chain, saved, branches, refused, settled, steady, restarts>>
    BY <1>4 DEF NewBest, Return
  <2>2. IsChain(newChain') /\ connected' \in pfork'..Len(newChain')
    BY <2>1 DEF IsChain, GrantAssumption
  <2> QED
    BY <2>1, <2>2 DEF ChainTypes
<1> QED
  BY <1>1, <1>2, <1>3, <1>4

\* A template's steps.
LEMMA CreateTypes ==
  ASSUME GrantAssumption, TypeOK, NEW t \in Threads, CreateBlocks(t)
  PROVE  TypeOK'
<1>0. ChainTypes /\ LockTypes /\ DatabaseTypes /\ TemplateTypes
  BY TypeParts
<1>1. UNCHANGED chainVars /\ UNCHANGED restarts
  BY DEF CreateBlocks, CreateNewBlock, AskAwards, AddAwards, ChooseParent, TestBlock, TestAwardBlock
<1>2. ChainTypes'
  BY <1>0, <1>1, ChainTypesKept
<1>3. LockTypes'
  BY <1>0 DEF CreateBlocks, CreateNewBlock, AskAwards, AddAwards, ChooseParent, TestBlock, TestAwardBlock,
              Finish, LockTypes
<1>4. phase' \in [Threads -> {"idle", "asked", "counting", "made", "chosen", "testing"}]
  BY <1>0 DEF CreateBlocks, CreateNewBlock, AskAwards, AddAwards, ChooseParent, TestBlock, TestAwardBlock,
              Goes, TemplateTypes
<1>5. Len(best) + 1 \in Nat /\ Len(best) + 1 <= MaxHeight + 1
  BY <1>0 DEF ChainTypes, IsChain, GrantAssumption
<1>6. UNCHANGED dbVars \/ (isGrantAwardBlock(Len(best) + 1) /\ EnsureUptoDate(Len(best) + 1))
  BY DEF CreateBlocks, CreateNewBlock, AskAwards, AddAwards, ChooseParent, TestBlock, TestAwardBlock
<1>7. DatabaseTypes'
  BY <1>0, <1>5, <1>6, EnsureTypes, DatabaseTypesKept
<1>8. ASSUME NEW counted, Finish(t, counted)
      PROVE  coinbase' \in [Threads -> Seq(Branches)] /\ (template' = NoTemplate \/ IsTemplate(template'))
  <2>1. coinbase' = [coinbase EXCEPT ![t] = <<>>]
    BY <1>8 DEF Finish
  <2>2. coinbase' \in [Threads -> Seq(Branches)]
    BY <1>0, <2>1 DEF TemplateTypes
  <2>3. CASE Tested(t, counted)
    <3>1. template' = [parent |-> Blocks(best, Len(best)), pays |-> coinbase[t]]
      BY <1>8, <2>3 DEF Finish
    <3>2. IsChain(best) /\ Len(best) \in 0..Len(best)
      BY <1>0 DEF ChainTypes, IsChain
    <3>3. IsList(Blocks(best, Len(best)))
      BY <3>2, BlocksList
    <3> QED
      BY <1>0, <2>2, <3>1, <3>3 DEF TemplateTypes, IsTemplate
  <2>4. CASE ~Tested(t, counted)
    <3>1. template' = template
      BY <1>8, <2>4 DEF Finish
    <3> QED
      BY <1>0, <2>2, <3>1 DEF TemplateTypes, IsTemplate
  <2> QED
    BY <2>3, <2>4
<1>9. coinbase' \in [Threads -> Seq(Branches)] /\ (template' = NoTemplate \/ IsTemplate(template'))
  <2>1. CASE (\E counted : Finish(t, counted))
    BY <2>1, <1>8
  <2>2. CASE template' = template /\ coinbase' = coinbase
    BY <1>0, <2>2 DEF TemplateTypes, IsTemplate
  <2>3. CASE template' = template /\ (\E l \in Seq(Branches) : coinbase' = [coinbase EXCEPT ![t] = l])
    BY <1>0, <2>3 DEF TemplateTypes, IsTemplate
  <2>4. <<>> \in Seq(Branches) /\ awards \in Seq(Branches)
    BY <1>0 DEF DatabaseTypes, IsList
  <2>5. CreateNewBlock(t) \/ AddAwards(t) =>
          \/ template' = template /\ coinbase' = coinbase
          \/ template' = template /\ (\E l \in Seq(Branches) : coinbase' = [coinbase EXCEPT ![t] = l])
    BY <2>4 DEF CreateNewBlock, AddAwards
  <2>6. AskAwards(t) \/ ChooseParent(t) => template' = template /\ coinbase' = coinbase
    BY DEF AskAwards, ChooseParent
  <2>7. TestBlock(t) \/ TestAwardBlock(t) =>
          (template' = template /\ coinbase' = coinbase) \/ (\E counted : Finish(t, counted))
    BY DEF TestBlock, TestAwardBlock
  <2> QED
    BY <2>1, <2>2, <2>3, <2>5, <2>6, <2>7 DEF CreateBlocks
<1>10. TemplateTypes'
  BY <1>4, <1>9 DEF TemplateTypes
<1> QED
  BY <1>2, <1>3, <1>7, <1>10, TypePartsNext

\* A restart.
LEMMA RestartTypes ==
  ASSUME GrantAssumption, TypeOK, Restart
  PROVE  TypeOK'
<1>0. ChainTypes /\ LockTypes /\ DatabaseTypes /\ TemplateTypes
  BY TypeParts
<1>1. PICK c \in {saved, best} :
        /\ chain' = c /\ best' = c /\ saved' = c
        /\ steady' = (steady /\ Along(settled, c))
  BY DEF Restart
<1>2. /\ restarts < MaxRestarts /\ restarts' = restarts + 1
      /\ net' = "idle" /\ cs_main' = Nobody /\ newChain' = <<>> /\ pfork' = 0 /\ connected' = 0
      /\ grantdb' = Nobody /\ UNCHANGED <<branches, refused, settled>>
  BY DEF Restart, Return
<1>3. IsChain(<<>>) /\ Len(<<>>) = 0 /\ IsList(<<>>)
  BY DEF IsChain, IsList, GrantAssumption
<1>4. ChainTypes'
  BY <1>0, <1>1, <1>2, <1>3 DEF ChainTypes, GrantAssumption
<1>5. LockTypes'
  BY <1>2 DEF LockTypes
<1>6. DatabaseTypes'
  <2>1. /\ dbHeight' = -1 /\ content' = <<>> /\ pointer' = <<>> /\ stage' = "next" /\ goal' = 0
        /\ awards' = <<>> /\ file' = file /\ crashed' = FALSE
    BY DEF Restart
  <2>2. -1 \in -1..MaxHeight /\ 0 \in 0..MaxHeight
    BY DEF GrantAssumption
  <2>3. file' = NoFile \/ IsFile(file')
    BY <1>0, <2>1 DEF DatabaseTypes
  <2>4. IsList(content') /\ IsList(pointer') /\ IsList(awards') /\ Len(content') = 0
    BY <1>3, <2>1, Zenon
  <2>5. /\ dbHeight' \in -1..MaxHeight /\ goal' \in 0..MaxHeight /\ stage' \in {"next", "block", "inputs"}
        /\ ~(stage' # "next") /\ dbHeight' = -1 /\ crashed' \in BOOLEAN
    BY <2>1, <2>2
  <2> QED
    BY <2>3, <2>4, <2>5, Zenon DEF DatabaseTypes
<1>7. TemplateTypes'
  <2>1. /\ phase' = [t \in Threads |-> "idle"] /\ coinbase' = [t \in Threads |-> <<>>]
        /\ template' = NoTemplate
    BY DEF Restart
  <2> QED
    BY <2>1 DEF TemplateTypes
<1> QED
  BY <1>4, <1>5, <1>6, <1>7, TypePartsNext

LEMMA StepTypes == GrantAssumption /\ TypeOK /\ [Next]_vars => TypeOK'
<1> SUFFICES ASSUME GrantAssumption, TypeOK, [Next]_vars PROVE TypeOK'
  OBVIOUS
<1>0. ChainTypes /\ LockTypes /\ DatabaseTypes /\ TemplateTypes
  BY TypeParts
<1>1. CASE NetworkBranch
  <2>1. ChainTypes'
    BY <1>0, <1>1, NetworkTypes
  <2>2. cs_main' = Net /\ grantdb' = grantdb /\ UNCHANGED dbVars /\ UNCHANGED templateVars
    BY <1>1 DEF NetworkBranch, SetBestChain
  <2> QED
    BY <1>0, <2>1, <2>2, DatabaseTypesKept, TemplateTypesKept, TypePartsNext DEF LockTypes
<1>2. CASE MineTemplate
  <2>1. ChainTypes'
    BY <1>0, <1>2, MineTypes
  <2>2. cs_main' = Net /\ grantdb' = grantdb /\ UNCHANGED dbVars /\ UNCHANGED templateVars
    BY <1>2 DEF MineTemplate, SetBestChain
  <2> QED
    BY <1>0, <2>1, <2>2, DatabaseTypesKept, TemplateTypesKept, TypePartsNext DEF LockTypes
<1>3. CASE ConnectBlock \/ ConnectAwardBlock
  <2>1. /\ Connecting /\ (\E counted : Connect(counted))
        /\ UNCHANGED <<chain, best, saved, restarts>> /\ UNCHANGED dbVars /\ UNCHANGED templateVars
        /\ grantdb' \in {grantdb, Nobody}
    BY <1>3 DEF ConnectBlock, ConnectAwardBlock
  <2>2. ChainTypes' /\ cs_main' \in {cs_main, Nobody}
    BY <1>0, <2>1, ConnectTypes
  <2> QED
    BY <1>0, <2>1, <2>2, DatabaseTypesKept, TemplateTypesKept, TypePartsNext DEF LockTypes
<1>4. CASE GetGrantAwards
  <2>1. /\ Connecting /\ isGrantAwardBlock(connected + 1) /\ EnsureUptoDate(connected + 1)
        /\ grantdb' = Net /\ cs_main' = cs_main
        /\ UNCHANGED chainVars /\ UNCHANGED restarts /\ UNCHANGED templateVars
    BY <1>4 DEF GetGrantAwards
  <2>2. connected + 1 \in Nat /\ connected + 1 <= MaxHeight + 1
    BY <1>0, <2>1 DEF Connecting, ChainTypes, IsChain, GrantAssumption
  <2>3. DatabaseTypes'
    BY <1>0, <2>1, <2>2, EnsureTypes
  <2> QED
    BY <1>0, <2>1, <2>3, ChainTypesKept, TemplateTypesKept, TypePartsNext DEF LockTypes
<1>5. CASE Flush \/ Disconnect \/ Link \/ NewBest
  <2>1. ChainTypes'
    BY <1>0, <1>5, LinkTypes
  <2>2. /\ cs_main' \in {cs_main, Nobody} /\ grantdb' = grantdb
        /\ UNCHANGED dbVars /\ UNCHANGED templateVars
    BY <1>5 DEF Flush, Disconnect, Link, NewBest, Return
  <2> QED
    BY <1>0, <2>1, <2>2, DatabaseTypesKept, TemplateTypesKept, TypePartsNext DEF LockTypes
<1>6. ASSUME NEW p \in Threads \cup {Net}, NextBlock(p) \/ ProcessBlock(p) PROVE TypeOK'
  <2>1. /\ cs_main' = cs_main /\ grantdb' = grantdb
        /\ UNCHANGED chainVars /\ UNCHANGED restarts /\ UNCHANGED templateVars
    BY <1>6 DEF NextBlock, ProcessBlock
  <2>2. DatabaseTypes'
    BY <1>0, <1>6, NextBlockTypes, ProcessBlockTypes
  <2> QED
    BY <1>0, <2>1, <2>2, ChainTypesKept, TemplateTypesKept, TypePartsNext DEF LockTypes
<1>7. CASE Restart
  BY <1>7, RestartTypes
<1>8. CASE UNCHANGED vars
  <2>1. /\ cs_main' = cs_main /\ grantdb' = grantdb /\ UNCHANGED dbVars
        /\ UNCHANGED chainVars /\ UNCHANGED restarts /\ UNCHANGED templateVars
    BY <1>8 DEF vars
  <2> QED
    BY <1>0, <2>1, ChainTypesKept, DatabaseTypesKept, TemplateTypesKept, TypePartsNext DEF LockTypes
<1> QED
  BY <1>1, <1>2, <1>3, <1>4, <1>5, <1>6, <1>7, <1>8, CreateTypes DEF Next

LEMMA InitTypes == GrantAssumption /\ Init => TypeOK
<1> SUFFICES ASSUME GrantAssumption, Init PROVE TypeOK
  OBVIOUS
<1>1. IsChain(<<>>) /\ Len(<<>>) = 0 /\ IsList(<<>>) /\ 0 \in Branches /\ <<>> \in Seq(Branches)
  BY DEF IsChain, IsList, GrantAssumption, Branches
<1>2. ChainTypes /\ LockTypes
  <2>1. 0 \in 0..MaxRestarts /\ 0 \in 0..0 /\ 0 \in Nat
    BY DEF GrantAssumption
  <2>2. IsChain(chain) /\ IsChain(best) /\ IsChain(saved) /\ IsChain(newChain) /\ Len(newChain) = 0
    BY <1>1, Zenon DEF Init
  <2>3. IsList(settled)
    BY <1>1, Zenon DEF Init
  <2> QED
    BY <1>1, <2>1, <2>2, <2>3 DEF Init, ChainTypes, LockTypes
<1>3. DatabaseTypes
  <2>1. -1 \in -1..MaxHeight /\ 0 \in 0..MaxHeight
    BY DEF GrantAssumption
  <2>2. IsList(content) /\ IsList(pointer) /\ IsList(awards) /\ Len(content) = 0
    BY <1>1, Zenon DEF Init
  <2>3. /\ dbHeight \in -1..MaxHeight /\ goal \in 0..MaxHeight /\ stage \in {"next", "block", "inputs"}
        /\ ~(stage # "next") /\ dbHeight = -1 /\ file = NoFile /\ crashed \in BOOLEAN
    BY <2>1 DEF Init
  <2> QED
    BY <2>2, <2>3, Zenon DEF DatabaseTypes
<1>4. TemplateTypes
  BY <1>1 DEF Init, TemplateTypes
<1> QED
  BY <1>2, <1>3, <1>4, TypeParts

\* The type invariant, for branches that replace whatever they may: heights, lists of
\* blocks and awards, in memory, in the file and in the templates, fit each other.
THEOREM Typing == Spec => []TypeOK
<1>1. Init => TypeOK
  BY GrantAssumption, InitTypes
<1>2. TypeOK /\ [Next]_vars => TypeOK'
  BY GrantAssumption, StepTypes
<1> QED
  BY <1>1, <1>2, PTL DEF Spec

-----------------------------------------------------------------------------
(* The locks *)

\* Asked for by an award block, the database counts up to a multiple of the interval.
LEMMA EnsureGoal ==
  ASSUME GrantAssumption, NEW n \in Nat, isGrantAwardBlock(n), EnsureUptoDate(n)
  PROVE  /\ goal' = RequiredHeight(n) /\ goal' = n - GRANTBLOCKINTERVAL
         /\ goal' # 0 /\ goal' % GRANTBLOCKINTERVAL = 0 /\ stage' = "next"
<1>1. goal' = RequiredHeight(n) /\ goal' = n - GRANTBLOCKINTERVAL /\ stage' = "next"
  BY DEF EnsureUptoDate, RequiredHeight
<1> QED
  BY <1>1, AwardHeight

\* SetBestChain's thread.
LEMMA LocksNet ==
  ASSUME GrantAssumption, TypeOK, LocksInv,
         \/ NetworkBranch \/ MineTemplate \/ ConnectBlock \/ GetGrantAwards \/ ConnectAwardBlock
         \/ Flush \/ Disconnect \/ Link \/ NewBest
  PROVE  LocksInv'
<1>1. CASE NetworkBranch \/ MineTemplate
  <2>1. /\ cs_main = Nobody /\ cs_main' = Net /\ net' = "connect"
        /\ UNCHANGED <<grantdb, phase, goal, stage>> /\ best' = best
    BY <1>1 DEF NetworkBranch, MineTemplate, SetBestChain, dbVars, templateVars
  <2>2. net = "idle"
    BY <2>1 DEF LocksInv, GrantAssumption
  <2>3. grantdb # Net
    BY <2>2 DEF LocksInv
  <2> QED
    BY <2>1, <2>2, <2>3 DEF LocksInv, Counts, GrantAssumption
<1>2. CASE ConnectBlock \/ ConnectAwardBlock
  <2>1. /\ net = "connect" /\ connected < Len(newChain)
        /\ UNCHANGED <<phase, goal, stage, best>> /\ grantdb' \in {Nobody}
        /\ (grantdb = Nobody \/ (grantdb = Net /\ stage = "next"))
        /\ \/ net' = net /\ cs_main' = cs_main /\ newChain' = newChain
           \/ net' = "idle" /\ cs_main' = Nobody
    BY <1>2 DEF ConnectBlock, ConnectAwardBlock, Connecting, Connect, Return, dbVars, templateVars, UptoDate
  <2>2. cs_main = Net
    BY <2>1 DEF LocksInv
  <2>3. \A t \in Threads : grantdb # t
    BY <2>1 DEF GrantAssumption
  <2>4. stage' = "next"
    BY <2>1 DEF LocksInv, Counts
  <2> QED
    BY <2>1, <2>2, <2>3, <2>4 DEF LocksInv, Counts, GrantAssumption
<1>3. CASE GetGrantAwards
  <2>1. /\ net = "connect" /\ connected < Len(newChain) /\ isGrantAwardBlock(connected + 1)
        /\ grantdb = Nobody /\ grantdb' = Net /\ EnsureUptoDate(connected + 1)
        /\ UNCHANGED <<net, connected, newChain, cs_main, phase, best>>
    BY <1>3 DEF GetGrantAwards, Connecting, chainVars, branchVars, templateVars
  <2>2. connected + 1 \in Nat
    BY DEF TypeOK, IsChain
  <2>3. /\ goal' = RequiredHeight(connected + 1) /\ goal' # 0 /\ goal' % GRANTBLOCKINTERVAL = 0
        /\ stage' = "next"
    BY <2>1, <2>2, EnsureGoal
  <2>4. cs_main = Net
    BY <2>1 DEF LocksInv
  <2> QED
    BY <2>1, <2>3, <2>4 DEF LocksInv, Counts, GrantAssumption, RequiredHeight
<1>4. CASE Flush \/ Disconnect \/ Link \/ NewBest
  <2>1. /\ net # "idle" /\ UNCHANGED <<phase, goal, stage, grantdb>>
        /\ \/ /\ net' # "idle" /\ UNCHANGED <<cs_main, connected, newChain, best>>
              /\ net' \in {"disconnect", "link"}
              /\ net \in {"disconnect", "link"} \/ connected = Len(newChain)
           \/ net' = "idle" /\ cs_main' = Nobody
    BY <1>4 DEF Flush, Disconnect, Link, NewBest, Return, dbVars, templateVars, branchVars
  <2>2. cs_main = Net /\ grantdb # Net
    BY <1>4, <2>1 DEF LocksInv, Flush, Disconnect, Link, NewBest, TypeOK
  <2> QED
    BY <2>1, <2>2 DEF LocksInv, Counts, GrantAssumption
<1> QED
  BY <1>1, <1>2, <1>3, <1>4

\* A step of thread t changes no other thread's.
LEMMA Others ==
  ASSUME TypeOK, NEW t \in Threads, NEW from, NEW to, Goes(t, from, to)
  PROVE  phase[t] = from /\ phase'[t] = to /\ \A u \in Threads : u # t => phase'[u] = phase[u]
BY DEF Goes, TypeOK

\* A template's thread.
LEMMA LocksTemplate ==
  ASSUME GrantAssumption, TypeOK, LocksInv, NEW t \in Threads, CreateBlocks(t)
  PROVE  LocksInv'
<1>0. /\ t # Nobody /\ t # Net /\ Net # Nobody
      /\ \A u \in Threads : u # Nobody /\ u # Net
  BY DEF GrantAssumption
<1>1. UNCHANGED <<net, connected, newChain, best>>
  BY DEF CreateBlocks, CreateNewBlock, AskAwards, AddAwards, ChooseParent, TestBlock, TestAwardBlock,
         chainVars, branchVars
<1>n. Len(best) + 1 \in Nat
  BY DEF TypeOK, IsChain
<1>2. CASE CreateNewBlock(t)
  <2>1. grantdb = Nobody /\ cs_main' = cs_main /\ goal' = goal /\ stage' = stage
    BY <1>2 DEF CreateNewBlock, dbVars
  <2>2. \/ Goes(t, "idle", "asked") /\ grantdb' = t
        \/ Goes(t, "idle", "made") /\ grantdb' = grantdb
    BY <1>2 DEF CreateNewBlock
  <2>3. /\ phase[t] = "idle" /\ \A u \in Threads : u # t => phase'[u] = phase[u]
        /\ \/ phase'[t] = "asked" /\ grantdb' = t
           \/ phase'[t] = "made" /\ grantdb' = grantdb
    BY <2>2, Others
  <2>4. stage = "next"
    BY <2>1 DEF LocksInv, Counts
  <2> QED
    BY <1>0, <1>1, <2>1, <2>3, <2>4 DEF LocksInv, Counts
<1>3. CASE AskAwards(t)
  <2>1. CASE isGrantAwardBlock(Len(best) + 1)
    <3>1. Goes(t, "asked", "counting") /\ EnsureUptoDate(Len(best) + 1) /\ grantdb' = grantdb /\ cs_main' = cs_main
      BY <1>3, <2>1 DEF AskAwards
    <3>2. phase[t] = "asked" /\ phase'[t] = "counting" /\ \A u \in Threads : u # t => phase'[u] = phase[u]
      BY <3>1, Others
    <3>3. goal' # 0 /\ goal' % GRANTBLOCKINTERVAL = 0 /\ stage' = "next"
      BY <1>n, <2>1, <3>1, EnsureGoal
    <3> QED
      BY <1>0, <1>1, <3>1, <3>2, <3>3 DEF LocksInv, Counts
  <2>2. CASE ~isGrantAwardBlock(Len(best) + 1)
    <3>1. Goes(t, "asked", "idle") /\ grantdb' = Nobody /\ cs_main' = cs_main /\ goal' = goal /\ stage' = stage
      BY <1>3, <2>2 DEF AskAwards, dbVars
    <3>2. phase[t] = "asked" /\ phase'[t] = "idle" /\ \A u \in Threads : u # t => phase'[u] = phase[u]
      BY <3>1, Others
    <3>3. stage = "next" /\ grantdb = t
      BY <3>2 DEF LocksInv, Counts
    <3> QED
      BY <1>0, <1>1, <3>1, <3>2, <3>3 DEF LocksInv, Counts
  <2> QED
    BY <2>1, <2>2
<1>4. CASE AddAwards(t)
  <2>1. /\ Goes(t, "counting", "made") /\ stage = "next" /\ grantdb' = Nobody /\ cs_main' = cs_main
        /\ goal' = goal /\ stage' = stage
    BY <1>4 DEF AddAwards, UptoDate, dbVars
  <2>2. phase[t] = "counting" /\ phase'[t] = "made" /\ \A u \in Threads : u # t => phase'[u] = phase[u]
    BY <2>1, Others
  <2>3. grantdb = t
    BY <2>2 DEF LocksInv
  <2> QED
    BY <1>0, <1>1, <2>1, <2>2, <2>3 DEF LocksInv, Counts
<1>5. CASE ChooseParent(t)
  <2>1. /\ Goes(t, "made", "chosen") /\ cs_main = Nobody /\ cs_main' = t /\ grantdb' = grantdb
        /\ goal' = goal /\ stage' = stage
    BY <1>5 DEF ChooseParent, dbVars
  <2>2. phase[t] = "made" /\ phase'[t] = "chosen" /\ \A u \in Threads : u # t => phase'[u] = phase[u]
    BY <2>1, Others
  <2>3. net = "idle" /\ grantdb # t /\ (Counts' <=> Counts)
    BY <1>0, <2>1, <2>2 DEF LocksInv, Counts
  <2> QED
    BY <1>0, <1>1, <2>1, <2>2, <2>3 DEF LocksInv
<1>6. CASE TestBlock(t)
  <2>1. CASE isGrantAwardBlock(Len(best) + 1)
    <3>1. /\ Goes(t, "chosen", "testing") /\ EnsureUptoDate(Len(best) + 1) /\ grantdb = Nobody /\ grantdb' = t
          /\ cs_main' = cs_main
      BY <1>6, <2>1 DEF TestBlock
    <3>2. phase[t] = "chosen" /\ phase'[t] = "testing" /\ \A u \in Threads : u # t => phase'[u] = phase[u]
      BY <3>1, Others
    <3>3. /\ goal' = RequiredHeight(Len(best) + 1) /\ goal' # 0 /\ goal' % GRANTBLOCKINTERVAL = 0
          /\ stage' = "next"
      BY <1>n, <2>1, <3>1, EnsureGoal
    <3> QED
      BY <1>0, <1>1, <2>1, <3>1, <3>2, <3>3 DEF LocksInv, Counts, RequiredHeight
  <2>2. CASE ~isGrantAwardBlock(Len(best) + 1)
    <3>1. /\ Goes(t, "chosen", "idle") /\ grantdb = Nobody /\ grantdb' = Nobody /\ cs_main' = Nobody
          /\ goal' = goal /\ stage' = stage
      BY <1>6, <2>2 DEF TestBlock, Finish, dbVars
    <3>2. phase[t] = "chosen" /\ phase'[t] = "idle" /\ \A u \in Threads : u # t => phase'[u] = phase[u]
      BY <3>1, Others
    <3>3. stage = "next" /\ cs_main = t /\ net = "idle"
      BY <1>0, <3>1, <3>2 DEF LocksInv, Counts
    <3> QED
      BY <1>0, <1>1, <3>1, <3>2, <3>3 DEF LocksInv, Counts
  <2> QED
    BY <2>1, <2>2
<1>7. CASE TestAwardBlock(t)
  <2>1. /\ Goes(t, "testing", "idle") /\ stage = "next" /\ grantdb' = Nobody /\ cs_main' = Nobody
        /\ goal' = goal /\ stage' = stage
    BY <1>7 DEF TestAwardBlock, Finish, UptoDate, dbVars
  <2>2. phase[t] = "testing" /\ phase'[t] = "idle" /\ \A u \in Threads : u # t => phase'[u] = phase[u]
    BY <2>1, Others
  <2>3. grantdb = t /\ cs_main = t /\ net = "idle"
    BY <1>0, <2>2 DEF LocksInv
  <2> QED
    BY <1>0, <1>1, <2>1, <2>2, <2>3 DEF LocksInv, Counts
<1> QED
  BY <1>2, <1>3, <1>4, <1>5, <1>6, <1>7 DEF CreateBlocks

LEMMA LocksStep == GrantAssumption /\ TypeOK /\ LocksInv /\ [Next]_vars => LocksInv'
<1> SUFFICES ASSUME GrantAssumption, TypeOK, LocksInv, [Next]_vars PROVE LocksInv'
  OBVIOUS
<1>1. ASSUME NEW p \in Threads \cup {Net}, NextBlock(p) \/ ProcessBlock(p) PROVE LocksInv'
  <2>1. /\ UNCHANGED <<net, connected, newChain, best, cs_main, grantdb, phase, goal>>
        /\ Counting(p)
    BY <1>1 DEF NextBlock, ProcessBlock, chainVars, branchVars, templateVars
  <2>2. Counts
    BY <2>1 DEF Counting, Counts, GrantAssumption
  <2> QED
    BY <2>1, <2>2 DEF LocksInv, Counts, isGrantAwardBlock, RequiredHeight
<1>2. CASE Restart
  <2>1. /\ cs_main' = Nobody /\ grantdb' = Nobody /\ net' = "idle" /\ stage' = "next"
        /\ phase' = [t \in Threads |-> "idle"]
    BY <1>2 DEF Restart, Return
  <2> QED
    BY <2>1 DEF LocksInv, Counts, GrantAssumption
<1>3. CASE UNCHANGED vars
  <2>1. UNCHANGED <<net, connected, newChain, best, cs_main, grantdb, phase, goal, stage>>
    BY <1>3 DEF vars, chainVars, branchVars, dbVars, templateVars
  <2> QED
    BY <2>1 DEF LocksInv, Counts, isGrantAwardBlock, RequiredHeight
<1> QED
  BY <1>1, <1>2, <1>3, LocksNet, LocksTemplate DEF Next

LEMMA InitLocks == GrantAssumption /\ Init => LocksInv
BY DEF Init, LocksInv, Counts, GrantAssumption

-----------------------------------------------------------------------------
(* The database is that of the chain, while the chains are steady *)

\* The types that the arguments below need.
LEMMA Heights ==
  ASSUME GrantAssumption, TypeOK
  PROVE  /\ chain \in Seq(Block) /\ best \in Seq(Block) /\ newChain \in Seq(Block) /\ saved \in Seq(Block)
         /\ Len(chain) \in Nat /\ Len(best) \in Nat /\ Len(newChain) \in Nat /\ Len(saved) \in Nat
         /\ pfork \in Nat /\ connected \in Nat /\ Len(settled) \in Nat /\ goal \in Nat
         /\ settled \in Seq(Branches) /\ content \in Seq(Branches) /\ pointer \in Seq(Branches)
         /\ Len(content) \in Nat /\ Len(pointer) \in Nat /\ dbHeight \in Int
         /\ (dbHeight = -1 /\ Len(content) = 0) \/ (dbHeight \in Nat /\ Len(content) = dbHeight)
         /\ GRANTBLOCKINTERVAL \in Nat /\ GRANTBLOCKINTERVAL > 1
BY DEF TypeOK, IsChain, IsList, GrantAssumption

\* No chain is shorter than what was counted of the best one, nor does a branch leave it
\* further down.
LEMMA Floor ==
  ASSUME GrantAssumption, TypeOK, ChainsInv, NEW k \in Nat, k <= Len(settled), k <= Len(best)
  PROVE  k <= Len(chain) /\ (net # "idle" => k <= pfork)
<1>1. /\ Len(chain) \in Nat /\ Len(best) \in Nat /\ pfork \in Nat /\ Len(settled) \in Nat
  BY Heights
<1>2. CASE net = "idle"
  BY <1>1, <1>2 DEF ChainsInv
<1>3. CASE net # "idle"
  <2>1. pfork <= Len(best) /\ pfork <= Len(chain) /\ (pfork < Len(best) => Len(settled) <= pfork)
    BY <1>3 DEF ChainsInv
  <2> QED
    BY <1>1, <2>1
<1> QED
  BY <1>2, <1>3

\* What was sure stays sure when more blocks are to be counted.
LEMMA SureKept ==
  ASSUME NEW blocks, Len(blocks) \in Nat, Len(settled) \in Nat, Len(settled') \in Nat,
         Len(settled) <= Len(settled'), \A n \in 1..Len(settled) : settled'[n] = settled[n], Sure(blocks)
  PROVE  Len(blocks) <= Len(settled') /\ \A n \in 1..Len(blocks) : blocks[n] = settled'[n]
BY DEF Sure

\* SetBestChain starts: when the chains stay steady, what is to be counted of the new
\* one lies below its fork, and the fork above what was to be counted before.
LEMMA ChainsStart ==
  ASSUME GrantAssumption, TypeOK, LocksInv, ChainsInv,
         NEW c, IsChain(c), NEW fork \in Nat, fork <= Len(best), fork < Len(c),
         \A n \in 1..fork : c[n] = best[n],
         fork < Len(best) => best[fork + 1].branch # c[fork + 1].branch,
         SetBestChain(c, fork), steady'
  PROVE  /\ ChainsInv'
         /\ Len(settled) <= Len(settled') /\ \A n \in 1..Len(settled) : settled'[n] = settled[n]
<1>1. /\ Len(best) \in Nat /\ Len(settled) \in Nat /\ Len(saved) \in Nat
      /\ GRANTBLOCKINTERVAL \in Nat /\ GRANTBLOCKINTERVAL > 1
  BY Heights
<1>2. /\ newChain' = c /\ pfork' = fork /\ net' = "connect" /\ cs_main = Nobody
      /\ chain' = chain /\ best' = best /\ saved' = saved
      /\ Along(settled, c) /\ Len(c) < fork + GRANTBLOCKINTERVAL
      /\ settled' = IF Len(ToCount(c)) > Len(settled) THEN ToCount(c) ELSE settled
  BY DEF SetBestChain
<1>3. net = "idle" /\ chain = best
  <2>1. net = "idle"
    BY <1>2 DEF LocksInv, GrantAssumption
  <2> QED
    BY <2>1 DEF ChainsInv
<1>4. /\ c \in Seq(Block) /\ Len(c) \in Nat
      /\ Len(ToCount(c)) \in Nat /\ Len(ToCount(c)) <= fork
      /\ Len(c) + 1 - GRANTBLOCKINTERVAL <= Len(ToCount(c))
      /\ \A i \in 1..Len(ToCount(c)) : ToCount(c)[i] = c[i].branch
  <2>1. c \in Seq(Block)
    BY DEF IsChain
  <2>2. /\ Len(ToCount(c)) = IF Len(c) + 1 < GRANTBLOCKINTERVAL THEN 0 ELSE Len(c) + 1 - GRANTBLOCKINTERVAL
        /\ \A i \in 1..Len(ToCount(c)) : ToCount(c)[i] = c[i].branch
    BY <2>1, ToCountType
  <2>3. Len(c) \in Nat
    BY <2>1
  <2> QED
    BY <1>1, <1>2, <2>1, <2>2, <2>3
<1> DEFINE l == ToCount(c)
<1> HIDE DEF l
<1>5. /\ Len(l) \in Nat /\ Len(l) <= fork /\ Len(c) + 1 - GRANTBLOCKINTERVAL <= Len(l)
      /\ \A i \in 1..Len(l) : l[i] = c[i].branch
      /\ settled' = IF Len(l) > Len(settled) THEN l ELSE settled
  BY <1>2, <1>4 DEF l
<1>6. \A n \in 1..Len(settled) : n <= Len(c) => settled[n] = c[n].branch
  BY <1>2 DEF Along
<1>7. /\ Len(settled') \in Nat /\ Len(settled) <= Len(settled') /\ Len(l) <= Len(settled')
      /\ Len(settled') = Len(settled) \/ Len(settled') <= fork
  BY <1>1, <1>5
<1>8. \A n \in 1..Len(settled) : settled'[n] = settled[n]
  <2>1. CASE Len(l) > Len(settled)
    <3> SUFFICES ASSUME NEW n \in 1..Len(settled) PROVE settled'[n] = settled[n]
      OBVIOUS
    <3>1. n <= Len(c) /\ n \in 1..Len(l)
      BY <1>1, <1>4, <1>5, <2>1
    <3> QED
      BY <1>5, <1>6, <2>1, <3>1
  <2>2. CASE ~(Len(l) > Len(settled))
    BY <1>5, <2>2
  <2> QED
    BY <2>1, <2>2
<1>9. \A n \in 1..Len(settled') : n <= Len(c) => settled'[n] = c[n].branch
  BY <1>5, <1>6
<1>10. \A n \in 1..Len(settled') : n <= Len(best) => settled'[n] = best[n].branch
  <2> SUFFICES ASSUME NEW n \in 1..Len(settled'), n <= Len(best) PROVE settled'[n] = best[n].branch
    OBVIOUS
  <2>1. CASE n <= Len(settled)
    <3>1. n \in 1..Len(settled) /\ settled[n] = best[n].branch
      BY <2>1, <1>7 DEF ChainsInv, Along
    <3> QED
      BY <3>1, <1>8
  <2>2. CASE n > Len(settled)
    <3>1. n \in 1..fork /\ n <= Len(c)
      BY <1>1, <1>4, <1>7, <2>2
    <3> QED
      BY <3>1, <1>9
  <2> QED
    BY <1>1, <2>1, <2>2
<1>11. fork < Len(best) => Len(settled') <= fork
  <2> SUFFICES ASSUME fork < Len(best), fork < Len(settled') PROVE FALSE
    BY <1>7
  <2>1. fork + 1 \in 1..Len(settled') /\ fork + 1 <= Len(c) /\ fork + 1 <= Len(best)
    BY <1>1, <1>4, <1>7
  <2> QED
    BY <2>1, <1>9, <1>10
<1>12. Known(best) /\ Known(saved)
  BY DEF ChainsInv
<1>13. /\ Len(best) + 1 - GRANTBLOCKINTERVAL <= Len(settled') /\ Len(saved) + 1 - GRANTBLOCKINTERVAL <= Len(settled')
       /\ Len(c) + 1 - GRANTBLOCKINTERVAL <= Len(settled')
  BY <1>1, <1>4, <1>5, <1>7, <1>12 DEF Known
<1>14. ChainsInv'
  BY <1>2, <1>3, <1>9, <1>10, <1>11, <1>13 DEF ChainsInv, Known, Along
<1> QED
  BY <1>7, <1>8, <1>14

\* The content of the file, when there is one.
LEMMA FileType ==
  ASSUME TypeOK, file # NoFile
  PROVE  /\ file.content \in Seq(Branches) /\ Len(file.content) \in Nat
         /\ file.height = Len(file.content)
<1>1. IsFile(file)
  BY DEF TypeOK
<1> QED
  BY <1>1 DEF IsFile, IsList

\* Whatever thread it is, the database it does not touch stays as sure.
LEMMA DatabaseKept ==
  ASSUME GrantAssumption, TypeOK, TypeOK', DatabaseInv, UNCHANGED dbVars,
         Len(settled) <= Len(settled'), \A n \in 1..Len(settled) : settled'[n] = settled[n],
         Len(content) <= Len(best'), goal <= Len(best'),
         dbHeight < goal /\ Counts => Counts'
  PROVE  DatabaseInv'
<1>1. /\ Len(settled) \in Nat /\ Len(settled') \in Nat /\ Len(content) \in Nat /\ Len(pointer) \in Nat
      /\ goal \in Nat /\ dbHeight \in Int
  <2>1. IsList(settled')
    BY DEF TypeOK
  <2>2. Len(settled') \in Nat
    BY <2>1 DEF IsList
  <2> QED
    BY <2>2, Heights
<1>2. /\ dbHeight' = dbHeight /\ content' = content /\ pointer' = pointer /\ stage' = stage
      /\ goal' = goal /\ awards' = awards /\ file' = file /\ crashed' = crashed
  BY DEF dbVars
<1>3. Sure(content)' /\ Sure(pointer)'
  <2>1. Sure(content) /\ Sure(pointer)
    BY DEF DatabaseInv
  <2>2. /\ Len(content) <= Len(settled') /\ \A n \in 1..Len(content) : content[n] = settled'[n]
        /\ Len(pointer) <= Len(settled') /\ \A n \in 1..Len(pointer) : pointer[n] = settled'[n]
    BY <1>1, <2>1, SureKept
  <2> QED
    BY <1>2, <2>2 DEF Sure
<1>4. file' # NoFile => Sure(file.content)'
  <2> SUFFICES ASSUME file # NoFile PROVE Sure(file.content)'
    BY <1>2
  <2>1. Len(file.content) \in Nat
    BY FileType
  <2> QED
    BY <1>1, <1>2, <2>1, SureKept DEF DatabaseInv, Sure
<1>5. goal' <= Len(settled')
  BY <1>1, <1>2 DEF DatabaseInv
<1>6. awards' \in {NoAwards, content'} \/ (Counts' /\ dbHeight' < goal')
  BY <1>2 DEF DatabaseInv
<1> QED
  BY <1>2, <1>3, <1>4, <1>5, <1>6 DEF DatabaseInv

\* Asked for a block whose count lies below the fork, the database stays sure.
LEMMA EnsureKeeps ==
  ASSUME GrantAssumption, TypeOK, ChainsInv, DatabaseInv, stage = "next", ~Counts, Counts',
         NEW n \in Nat, isGrantAwardBlock(n), EnsureUptoDate(n),
         n - GRANTBLOCKINTERVAL <= Len(settled), n - GRANTBLOCKINTERVAL <= Len(best),
         settled' = settled, best' = best
  PROVE  DatabaseInv'
<1> DEFINE r == n - GRANTBLOCKINTERVAL
<1>1. /\ goal' = r /\ stage' = "next" /\ r \in Nat
      /\ awards' = awards /\ file' = file /\ crashed' = crashed
  BY AwardHeight DEF EnsureUptoDate, RequiredHeight
<1>2. /\ Len(chain) \in Nat /\ Len(best) \in Nat /\ Len(settled) \in Nat
      /\ r <= Len(settled) /\ r <= Len(best)
  BY Heights
<1>3. RequiredHeight(n) = r
  BY DEF RequiredHeight
<1> HIDE DEF r
<1>4. awards \in {NoAwards, content} /\ ~crashed /\ (file # NoFile => Sure(file.content))
  BY DEF DatabaseInv
<1>5. CASE Usable(r)
  <2>1. file # NoFile /\ dbHeight = -1 /\ file.height <= r
    BY <1>5 DEF Usable
  <2>2. /\ Len(file.content) \in Nat /\ file.height = Len(file.content)
    BY <2>1, FileType
  <2>3. Sure(file.content)
    BY <2>1, <1>4
  <2>4. file.height <= Len(settled) /\ file.height <= Len(best)
    BY <1>1, <1>2, <2>1, <2>2
  <2>5. file.height <= Len(chain)
    BY <2>2, <2>4, Floor
  <2>6. dbHeight' = file.height /\ content' = file.content /\ pointer' = Blocks(chain, file.height)
    BY <1>3, <1>5, <2>5 DEF EnsureUptoDate
  <2>7. chain \in Seq(Block) /\ file.height \in 0..Len(chain)
    BY Heights, <2>2, <2>5
  <2>8. /\ Len(pointer') = file.height
        /\ \A i \in 1..file.height : pointer'[i] = chain[i].branch
    BY <2>6, <2>7, BlocksType
  <2>9. \A i \in 1..file.height : chain[i].branch = settled[i]
    BY <2>2, <2>4, <2>5, <1>2 DEF ChainsInv, Along
  <2>10. Sure(pointer)'
    BY <1>2, <2>4, <2>8, <2>9 DEF Sure
  <2>11. Sure(content)' /\ (file' # NoFile => Sure(file.content)')
    BY <1>1, <2>3, <2>6 DEF Sure
  <2>12. Len(content) = 0 /\ content \in Seq(Branches)
    BY <2>1, Heights
  <2>13. awards = NoAwards
    BY <1>4, <2>12
  <2> QED
    BY <1>1, <1>2, <1>4, <2>2, <2>4, <2>6, <2>8, <2>10, <2>11, <2>13 DEF DatabaseInv
<1>6. CASE ~Usable(r)
  <2>1. dbHeight' = dbHeight /\ content' = content /\ pointer' = pointer
    BY <1>3, <1>6 DEF EnsureUptoDate
  <2>2. Sure(content)' /\ Sure(pointer)' /\ (file' # NoFile => Sure(file.content)')
    BY <1>1, <2>1 DEF DatabaseInv, Sure
  <2>3. Len(pointer) = Len(content) /\ Len(content) <= Len(best)
    BY DEF DatabaseInv
  <2> QED
    BY <1>1, <1>2, <1>4, <2>1, <2>2, <2>3 DEF DatabaseInv
<1> QED
  BY <1>5, <1>6

\* The next block is there, and one of those to be counted.
LEMMA NextBlockKeeps ==
  ASSUME GrantAssumption, TypeOK, LocksInv, ChainsInv, DatabaseInv, NEW p \in Threads \cup {Net}, NextBlock(p)
  PROVE  DatabaseInv'
<1>0. /\ dbHeight' = dbHeight /\ content' = content /\ goal' = goal /\ awards' = awards /\ file' = file
      /\ settled' = settled /\ best' = best /\ grantdb' = grantdb /\ phase' = phase
      /\ stage = "next" /\ dbHeight < goal /\ Counting(p)
  BY DEF NextBlock, chainVars, branchVars, templateVars
<1>1. Counts'
  BY <1>0 DEF Counting, Counts, GrantAssumption
<1>2. /\ Sure(content) /\ Sure(pointer) /\ Len(content) <= Len(best) /\ Len(pointer) = Len(content)
      /\ goal <= Len(settled) /\ goal <= Len(best) /\ ~crashed
      /\ (file # NoFile => Sure(file.content))
  BY <1>0 DEF DatabaseInv
<1>3. /\ Len(chain) \in Nat /\ Len(settled) \in Nat /\ goal \in Nat /\ Len(pointer) \in Nat
      /\ pointer \in Seq(Branches) /\ chain \in Seq(Block) /\ dbHeight \in Int
      /\ (dbHeight = -1 /\ Len(content) = 0) \/ (dbHeight \in Nat /\ Len(content) = dbHeight)
  BY Heights
<1>4. goal <= Len(chain)
  BY <1>2, <1>3, Floor
<1>5. CASE dbHeight = -1
  <2>1. pointer' = <<>> /\ stage' \in {"block", "inputs"} /\ crashed' = crashed
    BY <1>5 DEF NextBlock
  <2>2. Len(pointer') = 0
    BY <2>1
  <2> QED
    BY <1>0, <1>1, <1>2, <1>3, <1>5, <2>1, <2>2 DEF DatabaseInv, Sure
<1>6. CASE dbHeight # -1
  <2>1. dbHeight \in Nat /\ Len(pointer) = dbHeight /\ Len(pointer) < Len(chain) /\ Len(pointer) < Len(settled)
    BY <1>0, <1>2, <1>3, <1>4, <1>6
  <2>2. \A n \in 1..Len(settled) : n <= Len(chain) => settled[n] = chain[n].branch
    BY DEF ChainsInv, Along
  <2>3. Leads
    BY <1>2, <1>3, <2>1, <2>2 DEF Leads, Along, Sure
  <2>4. /\ pointer' = Append(pointer, chain[Len(pointer) + 1].branch)
        /\ stage' \in {"block", "inputs"} /\ crashed' = crashed
    BY <1>6, <2>3 DEF NextBlock
  <2>5. chain[Len(pointer) + 1].branch = settled[Len(pointer) + 1]
    BY <1>3, <2>1, <2>2
  <2>6. /\ Len(pointer') = Len(pointer) + 1 /\ pointer'[Len(pointer) + 1] = settled[Len(pointer) + 1]
        /\ \A n \in 1..Len(pointer) : pointer'[n] = pointer[n]
    <3>1. Len(pointer) + 1 \in 1..Len(chain)
      BY <1>3, <2>1
    <3>2. chain[Len(pointer) + 1] \in Block
      BY <1>3, <3>1, ElementOfSeq
    <3>3. chain[Len(pointer) + 1].branch \in Branches
      BY <3>2 DEF Block
    <3> QED
      BY <1>3, <2>4, <2>5, <3>3
  <2>7. Sure(pointer)'
    <3>1. \A n \in 1..Len(pointer) : pointer[n] = settled[n]
      BY <1>2 DEF Sure
    <3> QED
      BY <1>0, <1>3, <2>1, <2>6, <3>1 DEF Sure
  <2>8. Len(pointer') = dbHeight + 1
    BY <2>1, <2>6
  <2> QED
    BY <1>0, <1>1, <1>2, <2>4, <2>7, <2>8 DEF DatabaseInv, Sure
<1> QED
  BY <1>5, <1>6

\* The awards are counted at the height an award block asks for.
LEMMA CountedAtGoal ==
  ASSUME GrantAssumption, NEW g \in Nat \ {0}, g % GRANTBLOCKINTERVAL = 0
  PROVE  CountedAt(g)
<1> DEFINE k == GRANTBLOCKINTERVAL
<1>1. k \in Nat \ {0} /\ g % k = 0
  BY DEF GrantAssumption
<1> HIDE DEF k
<1>2. (g + k) % k = 0
  <2>1. PICK q \in Int : g = q * k
    BY <1>1, Quotient
  <2>2. g + k = (q + 1) * k
    BY <1>1, <2>1
  <2>3. ASSUME NEW r \in Int PROVE (r * k) % k = 0
    BY <1>1, Z3
  <2> QED
    BY <2>2, <2>3, q + 1 \in Int
<1>3. g + k # 0 /\ g + k # k
  BY <1>1
<1> QED
  BY <1>2, <1>3 DEF CountedAt, isGrantAwardBlock, k

\* A processed block is one of those to be counted, and the awards counted last are of
\* what is processed.
LEMMA ProcessBlockKeeps ==
  ASSUME GrantAssumption, TypeOK, TypeOK', LocksInv, DatabaseInv,
         NEW p \in Threads \cup {Net}, ProcessBlock(p)
  PROVE  DatabaseInv'
<1>0. /\ goal' = goal /\ pointer' = pointer /\ crashed' = crashed
      /\ settled' = settled /\ best' = best /\ grantdb' = grantdb /\ phase' = phase
      /\ stage # "next" /\ stage' = "next" /\ dbHeight' = dbHeight + 1 /\ Counting(p)
      /\ content' = IF dbHeight = -1 THEN <<>> ELSE Append(content, Last(pointer))
  BY DEF ProcessBlock, chainVars, branchVars, templateVars
<1>1. Counts /\ Counts'
  BY <1>0 DEF Counting, Counts, GrantAssumption
<1>2. /\ Sure(content) /\ Sure(pointer) /\ Len(pointer) = dbHeight + 1
      /\ goal <= Len(settled) /\ goal <= Len(best) /\ ~crashed
      /\ (file # NoFile => Sure(file.content))
  BY <1>0 DEF DatabaseInv
<1>3. /\ Len(settled) \in Nat /\ goal \in Nat /\ Len(pointer) \in Nat /\ Len(best) \in Nat
      /\ pointer \in Seq(Branches) /\ content \in Seq(Branches) /\ dbHeight \in Int
      /\ (dbHeight = -1 /\ Len(content) = 0) \/ (dbHeight \in Nat /\ Len(content) = dbHeight)
  BY Heights
<1>4. dbHeight < goal
  BY <1>0 DEF TypeOK
<1>5. Len(content') = dbHeight + 1 /\ \A n \in 1..Len(content') : content'[n] = settled[n]
  <2>1. CASE dbHeight = -1
    <3>1. Len(content') = 0
      BY <1>0, <2>1
    <3> QED
      BY <2>1, <3>1
  <2>2. CASE dbHeight # -1
    <3>1. dbHeight \in Nat /\ Len(content) = dbHeight /\ Len(pointer) \in 1..Len(pointer)
      BY <1>2, <1>3, <2>2
    <3>2. pointer[Len(pointer)] \in Branches /\ Last(pointer) = pointer[dbHeight + 1]
      BY <1>2, <1>3, <3>1, ElementOfSeq DEF Last
    <3>3. content' = Append(content, pointer[dbHeight + 1])
      BY <1>0, <2>2, <3>2
    <3>4. /\ Len(content') = dbHeight + 1 /\ content'[dbHeight + 1] = pointer[dbHeight + 1]
          /\ \A n \in 1..dbHeight : content'[n] = content[n]
      BY <1>2, <1>3, <3>1, <3>2, <3>3
    <3>5. /\ \A n \in 1..dbHeight : content[n] = settled[n]
          /\ pointer[dbHeight + 1] = settled[dbHeight + 1]
      BY <1>2, <3>1 DEF Sure
    <3> QED
      BY <3>1, <3>4, <3>5
  <2> QED
    BY <2>1, <2>2
<1>6. Len(content') <= Len(settled) /\ Len(content') <= Len(best)
  BY <1>2, <1>3, <1>4, <1>5
<1>7. Sure(content)' /\ Sure(pointer)' /\ (stage' = "next" => Len(pointer') = Len(content'))
  BY <1>0, <1>2, <1>5, <1>6 DEF Sure
<1>8. \/ awards' = content' /\ file' = [height |-> dbHeight', content |-> content']
      \/ awards' = awards /\ file' = file /\ ~CountedAt(dbHeight')
  BY DEF ProcessBlock
<1>9. file' # NoFile => Sure(file.content)'
  <2>1. CASE file' = [height |-> dbHeight', content |-> content']
    <3>1. file'.content = content'
      BY <2>1
    <3> QED
      BY <1>7, <3>1 DEF Sure
  <2>2. CASE file' = file
    BY <1>0, <1>2, <2>2 DEF Sure
  <2> QED
    BY <1>8, <2>1, <2>2
<1>10. awards' \in {NoAwards, content'} \/ dbHeight' < goal
  <2> SUFFICES ASSUME dbHeight' >= goal PROVE awards' = content'
    BY <1>0, <1>3
  <2>1. dbHeight' = goal
    BY <1>0, <1>3, <1>4
  <2>2. goal \in Nat \ {0} /\ goal % GRANTBLOCKINTERVAL = 0
    BY <1>1, <1>3 DEF LocksInv
  <2>3. CountedAt(dbHeight')
    BY <2>1, <2>2, CountedAtGoal
  <2> QED
    BY <1>8, <2>3
<1> QED
  BY <1>0, <1>1, <1>2, <1>6, <1>7, <1>9, <1>10 DEF DatabaseInv

\* Steps that leave the chains alone.
LEMMA ChainsKept ==
  ASSUME ChainsInv, UNCHANGED <<chain, best, saved, newChain, pfork, net, settled>>
  PROVE  ChainsInv'
BY DEF ChainsInv, Known, Along

\* A block of the branch is connected, or refused and the branch with it.
LEMMA ConnectChains ==
  ASSUME ChainsInv, Connecting, NEW counted, Connect(counted), UNCHANGED <<chain, best, saved>>
  PROVE  ChainsInv' /\ settled' = settled /\ steady' = steady
<1>1. CASE Pays(connected + 1, counted)
  <2>1. UNCHANGED <<newChain, pfork, net, settled, steady>>
    BY <1>1 DEF Connect
  <2> QED
    BY <2>1, ChainsKept
<1>2. CASE ~Pays(connected + 1, counted)
  <2>1. net' = "idle" /\ settled' = settled /\ steady' = steady /\ chain = best
    BY <1>2 DEF Connect, Return, Connecting, ChainsInv
  <2> QED
    BY <2>1 DEF ChainsInv, Known, Along
<1> QED
  BY <1>1, <1>2

\* The links change from the top of the old chain to that of the new one.
LEMMA FlushChains ==
  ASSUME GrantAssumption, TypeOK, ChainsInv, Flush
  PROVE  ChainsInv'
<1>1. /\ net = "connect" /\ net' = "disconnect" /\ saved' \in {saved, newChain}
      /\ UNCHANGED <<chain, best, newChain, pfork, settled>>
  BY DEF Flush
<1>2. chain = best /\ Known(saved) /\ Known(newChain)
  BY <1>1 DEF ChainsInv
<1>3. Known(saved)'
  BY <1>1, <1>2 DEF Known
<1> QED
  BY <1>1, <1>2, <1>3 DEF ChainsInv, Known, Along

LEMMA DisconnectChains ==
  ASSUME GrantAssumption, TypeOK, ChainsInv, Disconnect
  PROVE  ChainsInv'
<1>0. chain \in Seq(Block) /\ Len(chain) \in Nat /\ pfork \in Nat /\ Len(newChain) \in Nat /\ Len(settled) \in Nat
  BY Heights
<1>1. /\ net = "disconnect" /\ UNCHANGED <<best, saved, newChain, pfork, settled>>
  BY DEF Disconnect
<1>2. CASE Len(chain) > pfork
  <2>1. net' = "disconnect" /\ chain' = SubSeq(chain, 1, Len(chain) - 1)
    BY <1>1, <1>2 DEF Disconnect, Front
  <2> DEFINE m == Len(chain) - 1
  <2>2. m \in Int /\ m >= 0 /\ m < Len(chain) /\ pfork <= m
    BY <1>0, <1>2
  <2>3. chain' = SubSeq(chain, 1, m)
    BY <2>1
  <2> HIDE DEF m
  <2>4. Len(chain') = m /\ \A n \in 1..m : chain'[n] = chain[n]
    BY <1>0, <2>2, <2>3, FirstOf
  <2>5. Along(settled, chain)'
    BY <1>0, <1>1, <2>2, <2>4 DEF ChainsInv, Along
  <2>6. \A n \in 1..pfork : chain'[n] = best[n]
    BY <1>0, <1>1, <2>2, <2>4 DEF ChainsInv
  <2> QED
    BY <1>1, <2>1, <2>2, <2>4, <2>5, <2>6 DEF ChainsInv, Known, Along
<1>3. CASE ~(Len(chain) > pfork)
  <2>1. net' = "link" /\ chain' = chain
    BY <1>3 DEF Disconnect
  <2>2. pfork <= Len(chain) /\ pfork < Len(newChain) /\ \A n \in 1..pfork : chain[n] = best[n] /\ newChain[n] = best[n]
    BY <1>1 DEF ChainsInv
  <2>3. Len(chain) = pfork
    BY <1>0, <1>3, <2>2
  <2>4. Len(chain) <= Len(newChain) /\ \A n \in 1..Len(chain) : chain[n] = newChain[n]
    BY <1>0, <2>2, <2>3
  <2> QED
    BY <1>1, <2>1, <2>4 DEF ChainsInv, Known, Along
<1> QED
  BY <1>2, <1>3

LEMMA LinkChains ==
  ASSUME GrantAssumption, TypeOK, ChainsInv, Link
  PROVE  ChainsInv'
<1>0. /\ chain \in Seq(Block) /\ Len(chain) \in Nat /\ pfork \in Nat /\ newChain \in Seq(Block)
      /\ Len(newChain) \in Nat /\ Len(settled) \in Nat
  BY Heights
<1>1. /\ net = "link" /\ net' = net /\ UNCHANGED <<best, saved, newChain, pfork, settled>>
      /\ Len(chain) < Len(newChain) /\ chain' = Append(chain, newChain[Len(chain) + 1])
  BY DEF Link, branchVars
<1>2. newChain[Len(chain) + 1] \in Block
  BY <1>0, <1>1, ElementOfSeq, Len(chain) + 1 \in 1..Len(newChain)
<1>3. /\ Len(chain') = Len(chain) + 1 /\ chain'[Len(chain) + 1] = newChain[Len(chain) + 1]
      /\ \A n \in 1..Len(chain) : chain'[n] = chain[n]
  BY <1>0, <1>1, <1>2
<1>4. \A n \in 1..Len(chain) : chain[n] = newChain[n]
  BY <1>1 DEF ChainsInv
<1>5. Len(chain') <= Len(newChain) /\ \A n \in 1..Len(chain') : chain'[n] = newChain[n]
  BY <1>0, <1>1, <1>3, <1>4
<1>6. Along(settled, chain)'
  BY <1>0, <1>1, <1>5 DEF ChainsInv, Along
<1>7. pfork <= Len(chain')
  BY <1>0, <1>1, <1>3 DEF ChainsInv
<1> QED
  BY <1>1, <1>5, <1>6, <1>7 DEF ChainsInv, Known, Along

LEMMA NewBestChains ==
  ASSUME GrantAssumption, TypeOK, ChainsInv, NewBest
  PROVE  ChainsInv' /\ pfork < Len(best')
<1>0. /\ chain \in Seq(Block) /\ newChain \in Seq(Block) /\ Len(newChain) \in Nat
  BY Heights
<1>1. /\ net = "link" /\ net' = "idle" /\ best' = newChain /\ Len(chain) = Len(newChain)
      /\ UNCHANGED <<chain, saved, settled>>
  BY DEF NewBest, Return
<1>2. \A n \in 1..Len(chain) : chain[n] = newChain[n]
  BY <1>1 DEF ChainsInv
<1>3. chain = newChain
  BY <1>0, <1>1, <1>2, SeqEqual
<1>4. Known(newChain) /\ Along(settled, newChain) /\ Known(saved) /\ pfork < Len(newChain)
  BY <1>1 DEF ChainsInv
<1> QED
  BY <1>1, <1>3, <1>4 DEF ChainsInv, Known, Along

\* A branch offered is a chain that leaves the best one at the fork.
LEMMA NetworkStarts ==
  ASSUME GrantAssumption, TypeOK, NetworkBranch
  PROVE  \E c \in Seq(Block), fork \in Nat :
           /\ IsChain(c) /\ fork <= Len(best) /\ fork < Len(c)
           /\ \A n \in 1..fork : c[n] = best[n]
           /\ fork < Len(best) => best[fork + 1].branch # c[fork + 1].branch
           /\ SetBestChain(c, fork)
           /\ ~refused /\ AwardsPaid(best)
<1>1. PICK fork \in 0..Len(best), length \in 1..MaxHeight, branch \in {0, branches + 1}, paying \in BOOLEAN :
        /\ fork < length /\ (branch # 0 => branches < MaxBranches)
        /\ fork < Len(best) => best[fork + 1].branch # branch
        /\ ~refused /\ AwardsPaid(best)
        /\ SetBestChain(Branch(fork, length, branch, paying), fork)
  BY DEF NetworkBranch
<1>2. branch \in Branches /\ IsChain(best)
  BY <1>1 DEF TypeOK, Branches, GrantAssumption
<1> DEFINE c == Branch(fork, length, branch, paying)
<1>3. /\ IsChain(c) /\ Len(c) = length /\ \A n \in 1..fork : c[n] = best[n]
      /\ \A n \in (fork + 1)..length : c[n].branch = branch
  BY <1>1, <1>2, BranchType
<1>4. SetBestChain(c, fork)
  BY <1>1
<1> HIDE DEF c
<1>5. fork \in Nat /\ fork <= Len(best) /\ length \in Nat
  BY <1>1, Heights DEF GrantAssumption
<1>6. c[fork + 1].branch = branch
  BY <1>1, <1>3, <1>5, fork + 1 \in (fork + 1)..length
<1>7. c \in Seq(Block)
  BY <1>3 DEF IsChain
<1>8. /\ IsChain(c) /\ fork <= Len(best) /\ fork < Len(c)
      /\ \A n \in 1..fork : c[n] = best[n]
      /\ fork < Len(best) => best[fork + 1].branch # c[fork + 1].branch
  BY <1>1, <1>3, <1>5, <1>6
<1> QED
  BY <1>1, <1>4, <1>5, <1>7, <1>8, Zenon

LEMMA MineStarts ==
  ASSUME GrantAssumption, TypeOK, MineTemplate
  PROVE  \E b \in Block : SetBestChain(Append(best, b), Len(best)) /\ b.pays = template.pays
                          /\ IsChain(Append(best, b)) /\ Len(Append(best, b)) = Len(best) + 1
                          /\ template # NoTemplate /\ template.parent = Blocks(best, Len(best))
<1> DEFINE b == [branch |-> branches + 1, pays |-> template.pays]
<1>1. /\ template # NoTemplate /\ Len(best) < MaxHeight /\ branches < MaxBranches
      /\ template.parent = Blocks(best, Len(best)) /\ SetBestChain(Append(best, b), Len(best))
  BY DEF MineTemplate
<1>2. b \in Block /\ b.pays = template.pays
  BY <1>1 DEF TypeOK, IsTemplate, Branches, GrantAssumption, Block
<1> HIDE DEF b
<1>3. best \in Seq(Block)
  BY DEF TypeOK, IsChain
<1>4. Append(best, b) \in Seq(Block) /\ Len(Append(best, b)) = Len(best) + 1
  BY <1>2, <1>3
<1>5. IsChain(Append(best, b))
  BY <1>1, <1>3, <1>4 DEF IsChain, GrantAssumption
<1> QED
  BY <1>1, <1>2, <1>4, <1>5

\* Both at once: how SetBestChain starts.
LEMMA Starts ==
  ASSUME GrantAssumption, TypeOK, LocksInv, ChainsInv, NetworkBranch \/ MineTemplate, steady'
  PROVE  /\ ChainsInv' /\ steady
         /\ Len(settled) <= Len(settled') /\ \A n \in 1..Len(settled) : settled'[n] = settled[n]
         /\ best' = best /\ UNCHANGED dbVars /\ grantdb' = grantdb /\ phase' = phase
<1>1. \E c \in Seq(Block), fork \in Nat :
           /\ IsChain(c) /\ fork <= Len(best) /\ fork < Len(c)
           /\ \A n \in 1..fork : c[n] = best[n]
           /\ fork < Len(best) => best[fork + 1].branch # c[fork + 1].branch
           /\ SetBestChain(c, fork)
  <2>1. CASE NetworkBranch
    BY <2>1, NetworkStarts
  <2>2. CASE MineTemplate
    <3>1. PICK b \in Block : /\ SetBestChain(Append(best, b), Len(best))
                             /\ IsChain(Append(best, b)) /\ Len(Append(best, b)) = Len(best) + 1
      BY <2>2, MineStarts
    <3> DEFINE c == Append(best, b)
    <3>2. best \in Seq(Block) /\ Len(best) \in Nat
      BY Heights
    <3>3. /\ \A n \in 1..Len(best) : c[n] = best[n]
      BY <3>2
    <3>4. Len(best) <= Len(best) /\ Len(best) < Len(c) /\ ~(Len(best) < Len(best))
      BY <3>1, <3>2
    <3>5. SetBestChain(c, Len(best)) /\ IsChain(c)
      BY <3>1
    <3>6. c \in Seq(Block)
      BY <3>5 DEF IsChain
    <3> HIDE DEF c
    <3> QED
      BY <3>2, <3>3, <3>4, <3>5, <3>6, Zenon
  <2> QED
    BY <2>1, <2>2
<1>2. PICK c \in Seq(Block), fork \in Nat :
           /\ IsChain(c) /\ fork <= Len(best) /\ fork < Len(c)
           /\ \A n \in 1..fork : c[n] = best[n]
           /\ fork < Len(best) => best[fork + 1].branch # c[fork + 1].branch
           /\ SetBestChain(c, fork)
  BY <1>1
<1>3. /\ ChainsInv'
      /\ Len(settled) <= Len(settled') /\ \A n \in 1..Len(settled) : settled'[n] = settled[n]
  BY <1>2, ChainsStart
<1>4. steady /\ best' = best /\ UNCHANGED dbVars /\ grantdb' = grantdb /\ phase' = phase
  BY <1>2 DEF SetBestChain, templateVars
<1> QED
  BY <1>3, <1>4

\* SetBestChain's thread keeps the database sure ...
LEMMA SteadyNet ==
  ASSUME GrantAssumption, TypeOK, TypeOK', LocksInv, ChainsInv, DatabaseInv,
         \/ ConnectBlock \/ GetGrantAwards \/ ConnectAwardBlock
         \/ Flush \/ Disconnect \/ Link \/ NewBest
  PROVE  ChainsInv' /\ DatabaseInv'
<1>0. /\ Len(best) \in Nat /\ Len(newChain) \in Nat /\ connected \in Nat /\ pfork \in Nat
      /\ Len(settled) \in Nat /\ Len(content) \in Nat /\ goal \in Nat
      /\ GRANTBLOCKINTERVAL \in Nat /\ GRANTBLOCKINTERVAL > 1
  BY Heights
<1>1. CASE ConnectBlock \/ ConnectAwardBlock
  <2>1. /\ Connecting /\ (\E counted : Connect(counted)) /\ UNCHANGED <<chain, best, saved>>
        /\ UNCHANGED dbVars /\ (dbHeight < goal /\ Counts => Counts')
    BY <1>1 DEF ConnectBlock, ConnectAwardBlock, UptoDate, Counts, GrantAssumption, TypeOK
  <2>2. ChainsInv' /\ settled' = settled
    BY <2>1, ConnectChains
  <2>3. Len(content) <= Len(best') /\ goal <= Len(best')
    BY <2>1 DEF DatabaseInv
  <2>4. DatabaseInv'
    BY <1>0, <2>1, <2>2, <2>3, DatabaseKept
  <2> QED
    BY <2>2, <2>4
<1>2. CASE GetGrantAwards
  <2>1. /\ net = "connect" /\ connected < Len(newChain) /\ isGrantAwardBlock(connected + 1)
        /\ grantdb = Nobody /\ grantdb' = Net /\ EnsureUptoDate(connected + 1)
        /\ UNCHANGED <<chain, best, saved, newChain, pfork, net, settled>>
    BY <1>2 DEF GetGrantAwards, Connecting, chainVars, branchVars
  <2>2. ChainsInv'
    BY <2>1, ChainsKept
  <2>3. ~Counts /\ Counts' /\ stage = "next"
    BY <2>1 DEF Counts, LocksInv, GrantAssumption
  <2>4. /\ Known(newChain) /\ pfork <= Len(best) /\ Len(newChain) < pfork + GRANTBLOCKINTERVAL
    BY <2>1 DEF ChainsInv
  <2>5. connected + 1 - GRANTBLOCKINTERVAL <= Len(settled) /\ connected + 1 - GRANTBLOCKINTERVAL <= Len(best)
    BY <1>0, <2>1, <2>4 DEF Known
  <2> DEFINE n == connected + 1
  <2>6. /\ n \in Nat /\ isGrantAwardBlock(n) /\ EnsureUptoDate(n)
        /\ n - GRANTBLOCKINTERVAL <= Len(settled) /\ n - GRANTBLOCKINTERVAL <= Len(best)
    BY <1>0, <2>1, <2>5
  <2> HIDE DEF n
  <2>7. DatabaseInv'
    BY <2>1, <2>3, <2>6, EnsureKeeps
  <2> QED
    BY <2>2, <2>7
<1>3. CASE Flush \/ Disconnect \/ Link
  <2>1. ChainsInv'
    BY <1>3, FlushChains, DisconnectChains, LinkChains
  <2>2. UNCHANGED dbVars /\ settled' = settled /\ best' = best /\ grantdb' = grantdb /\ phase' = phase
    BY <1>3 DEF Flush, Disconnect, Link, branchVars, templateVars
  <2>3. Len(content) <= Len(best') /\ goal <= Len(best') /\ (Counts => Counts')
    BY <2>2 DEF DatabaseInv, Counts
  <2>4. DatabaseInv'
    BY <1>0, <2>2, <2>3, DatabaseKept
  <2> QED
    BY <2>1, <2>4
<1>4. CASE NewBest
  <2>1. ChainsInv' /\ pfork < Len(best') /\ best' = newChain
    BY <1>4, NewBestChains DEF NewBest
  <2>2. UNCHANGED dbVars /\ settled' = settled /\ net # "idle" /\ grantdb' = grantdb /\ phase' = phase
    BY <1>4 DEF NewBest, templateVars
  <2>3. Len(content) <= Len(settled) /\ Len(content) <= Len(best) /\ goal <= Len(settled) /\ goal <= Len(best)
    BY DEF DatabaseInv, Sure
  <2>4. Len(content) <= pfork /\ goal <= pfork
    BY <1>0, <2>2, <2>3, Floor
  <2>5. Len(content) <= Len(best') /\ goal <= Len(best')
    BY <1>0, <2>1, <2>4
  <2>6. DatabaseInv'
    BY <1>0, <2>2, <2>5, DatabaseKept DEF Counts
  <2> QED
    BY <2>1, <2>6
<1> QED
  BY <1>1, <1>2, <1>3, <1>4

\* ... and so does a template's ...
LEMMA SteadyTemplate ==
  ASSUME GrantAssumption, TypeOK, TypeOK', LocksInv, ChainsInv, DatabaseInv,
         NEW t \in Threads, CreateBlocks(t)
  PROVE  ChainsInv' /\ DatabaseInv' /\ steady' = steady
<1>0. /\ Len(best) \in Nat /\ Len(settled) \in Nat /\ Len(best) + 1 \in Nat
      /\ GRANTBLOCKINTERVAL \in Nat /\ GRANTBLOCKINTERVAL > 1
  BY Heights
<1>1. UNCHANGED chainVars
  BY DEF CreateBlocks, CreateNewBlock, AskAwards, AddAwards, ChooseParent, TestBlock, TestAwardBlock
<1>2. ChainsInv' /\ settled' = settled /\ best' = best /\ steady' = steady
  BY <1>1, ChainsKept DEF chainVars, branchVars
<1>3. CASE isGrantAwardBlock(Len(best) + 1) /\ (AskAwards(t) \/ TestBlock(t))
  <2>1. /\ EnsureUptoDate(Len(best) + 1) /\ isGrantAwardBlock(Len(best) + 1)
        /\ \/ Goes(t, "asked", "counting") /\ grantdb' = grantdb
           \/ Goes(t, "chosen", "testing") /\ grantdb' = t /\ grantdb = Nobody
    BY <1>3 DEF AskAwards, TestBlock
  <2>2. \/ phase[t] = "asked" /\ phase'[t] = "counting" /\ grantdb' = grantdb
        \/ phase[t] = "chosen" /\ phase'[t] = "testing" /\ grantdb' = t /\ grantdb = Nobody
    BY <2>1, Others
  <2>3. ~Counts /\ Counts'
    BY <2>2 DEF LocksInv, Counts, GrantAssumption
  <2>4. stage = "next"
    BY <2>3 DEF LocksInv
  <2>5. Len(best) + 1 - GRANTBLOCKINTERVAL <= Len(settled) /\ Len(best) + 1 - GRANTBLOCKINTERVAL <= Len(best)
    BY <1>0 DEF ChainsInv, Known
  <2>6. DatabaseInv'
    BY <1>0, <1>2, <2>1, <2>3, <2>4, <2>5, EnsureKeeps
  <2> QED
    BY <1>2, <2>6
<1>4. CASE ~(isGrantAwardBlock(Len(best) + 1) /\ (AskAwards(t) \/ TestBlock(t)))
  <2>1. UNCHANGED dbVars
    BY <1>4 DEF CreateBlocks, CreateNewBlock, AskAwards, AddAwards, ChooseParent, TestBlock, TestAwardBlock
  <2>2. \/ /\ CreateNewBlock(t) \/ ChooseParent(t)
           /\ grantdb' = grantdb \/ grantdb = Nobody
        \/ AddAwards(t) \/ TestAwardBlock(t)
        \/ AskAwards(t) /\ Goes(t, "asked", "idle")
        \/ TestBlock(t) /\ grantdb = Nobody
    BY <1>4 DEF CreateBlocks, CreateNewBlock, AskAwards, ChooseParent, TestBlock
  <2>3. dbHeight < goal /\ Counts => Counts'
    <3>1. CASE grantdb = Nobody
      BY <3>1 DEF Counts
    <3>2. CASE AddAwards(t) \/ TestAwardBlock(t)
      <4>1. dbHeight >= goal
        BY <3>2 DEF AddAwards, TestAwardBlock, UptoDate
      <4> QED
        BY <4>1, Heights
    <3>3. CASE Goes(t, "asked", "idle")
      <4>1. phase[t] = "asked"
        BY <3>3, Others
      <4>2. grantdb = t
        BY <4>1 DEF LocksInv
      <4> QED
        BY <4>1, <4>2 DEF Counts
    <3>4. CASE ChooseParent(t)
      <4>1. phase[t] = "made" /\ phase'[t] = "chosen" /\ \A u \in Threads : u # t => phase'[u] = phase[u]
        BY <3>4, Others DEF ChooseParent
      <4>2. grantdb # t /\ grantdb' = grantdb
        BY <3>4, <4>1 DEF LocksInv, ChooseParent
      <4> QED
        BY <4>1, <4>2 DEF Counts
    <3>5. CASE CreateNewBlock(t)
      <4>1. grantdb = Nobody
        BY <3>5 DEF CreateNewBlock
      <4> QED
        BY <4>1 DEF Counts
    <3> QED
      BY <2>2, <3>1, <3>2, <3>3, <3>4, <3>5
  <2>4. Len(content) <= Len(best') /\ goal <= Len(best')
    BY <1>2 DEF DatabaseInv
  <2>5. DatabaseInv'
    BY <1>0, <1>2, <2>1, <2>3, <2>4, DatabaseKept
  <2> QED
    BY <1>2, <2>5
<1> QED
  BY <1>3, <1>4

\* ... and a restart, when the chain it goes back to has what was counted.
LEMMA SteadyRestart ==
  ASSUME GrantAssumption, TypeOK, ChainsInv, DatabaseInv, Restart, steady'
  PROVE  ChainsInv' /\ DatabaseInv'
<1>0. Len(settled) \in Nat /\ Len(saved) \in Nat /\ Len(best) \in Nat
  BY Heights
<1>1. PICK c \in {saved, best} :
        /\ chain' = c /\ best' = c /\ saved' = c /\ steady' = (steady /\ Along(settled, c))
  BY DEF Restart
<1>2. /\ net' = "idle" /\ settled' = settled /\ file' = file
      /\ content' = <<>> /\ pointer' = <<>> /\ stage' = "next" /\ goal' = 0 /\ awards' = <<>> /\ crashed' = FALSE
  BY DEF Restart, Return
<1>3. ChainsInv'
  BY <1>1, <1>2 DEF ChainsInv, Known, Along
<1>4. /\ Len(content') = 0 /\ Len(pointer') = 0 /\ Len(best') \in Nat
  BY <1>0, <1>1, <1>2
<1>5. file' # NoFile => Sure(file.content)'
  BY <1>2 DEF DatabaseInv, Sure
<1>6. Sure(content)' /\ Sure(pointer)'
  BY <1>0, <1>2, <1>4 DEF Sure
<1>7. DatabaseInv'
  BY <1>0, <1>2, <1>4, <1>5, <1>6 DEF DatabaseInv
<1> QED
  BY <1>3, <1>7

LEMMA SteadyStep == GrantAssumption /\ TypeOK /\ LocksInv /\ SteadyInv /\ [Next]_vars => SteadyInv'
<1> SUFFICES ASSUME GrantAssumption, TypeOK, LocksInv, SteadyInv, [Next]_vars, steady'
             PROVE  ChainsInv' /\ DatabaseInv'
  BY DEF SteadyInv
<1>0. TypeOK'
  BY StepTypes
<1>1. ASSUME steady PROVE ChainsInv /\ DatabaseInv
  BY <1>1 DEF SteadyInv
<1>2. CASE NetworkBranch \/ MineTemplate
  <2>0. \E c, fork : SetBestChain(c, fork)
    BY <1>2, Zenon DEF NetworkBranch, MineTemplate
  <2>1. steady
    BY <2>0 DEF SetBestChain
  <2>2. /\ ChainsInv'
        /\ Len(settled) <= Len(settled') /\ \A n \in 1..Len(settled) : settled'[n] = settled[n]
        /\ best' = best /\ UNCHANGED dbVars /\ grantdb' = grantdb /\ phase' = phase
    BY <1>1, <1>2, <2>1, Starts
  <2>3. Len(content) <= Len(best') /\ goal <= Len(best') /\ (Counts => Counts')
    BY <1>1, <2>1, <2>2 DEF DatabaseInv, Counts
  <2>4. DatabaseInv'
    BY <1>0, <1>1, <2>1, <2>2, <2>3, DatabaseKept
  <2> QED
    BY <2>2, <2>4
<1>3. CASE ConnectBlock \/ GetGrantAwards \/ ConnectAwardBlock \/ Flush \/ Disconnect \/ Link \/ NewBest
  <2>1. steady
    BY <1>3 DEF ConnectBlock, GetGrantAwards, ConnectAwardBlock, Connect, Flush, Disconnect, Link, NewBest,
                chainVars, branchVars
  <2> QED
    BY <1>0, <1>1, <1>3, <2>1, SteadyNet
<1>4. ASSUME NEW p \in Threads \cup {Net}, NextBlock(p) \/ ProcessBlock(p)
      PROVE  ChainsInv' /\ DatabaseInv'
  <2>1. steady /\ UNCHANGED <<chain, best, saved, newChain, pfork, net, settled>>
    BY <1>4 DEF NextBlock, ProcessBlock, chainVars, branchVars
  <2>2. ChainsInv'
    BY <1>1, <2>1, ChainsKept
  <2> QED
    BY <1>0, <1>1, <1>4, <2>1, <2>2, NextBlockKeeps, ProcessBlockKeeps
<1>5. ASSUME NEW t \in Threads, CreateBlocks(t) PROVE ChainsInv' /\ DatabaseInv'
  <2>1. UNCHANGED chainVars
    BY <1>5 DEF CreateBlocks, CreateNewBlock, AskAwards, AddAwards, ChooseParent, TestBlock, TestAwardBlock
  <2>2. steady
    BY <2>1 DEF chainVars, branchVars
  <2> QED
    BY <1>0, <1>1, <1>5, <2>2, SteadyTemplate
<1>6. CASE Restart
  <2>1. steady
    BY <1>6 DEF Restart
  <2> QED
    BY <1>1, <1>6, <2>1, SteadyRestart
<1>7. CASE UNCHANGED vars
  <2>1. /\ steady /\ UNCHANGED <<chain, best, saved, newChain, pfork, net, settled, grantdb, phase>>
        /\ UNCHANGED dbVars
    BY <1>7 DEF vars, chainVars, branchVars, templateVars
  <2>2. ChainsInv'
    BY <1>1, <2>1, ChainsKept
  <2>3. Len(settled) \in Nat
    BY Heights
  <2>4. Len(content) <= Len(best') /\ goal <= Len(best') /\ (Counts => Counts')
    BY <1>1, <2>1 DEF DatabaseInv, Counts
  <2>5. DatabaseInv'
    BY <1>0, <1>1, <2>1, <2>3, <2>4, DatabaseKept
  <2> QED
    BY <2>2, <2>5
<1> QED
  BY <1>2, <1>3, <1>4, <1>5, <1>6, <1>7 DEF Next

LEMMA InitSteady == GrantAssumption /\ Init => SteadyInv
<1> SUFFICES ASSUME GrantAssumption, Init PROVE SteadyInv
  OBVIOUS
<1>1. /\ chain = <<>> /\ best = <<>> /\ saved = <<>> /\ net = "idle" /\ settled = <<>>
      /\ ~crashed /\ content = <<>> /\ pointer = <<>> /\ stage = "next" /\ goal = 0 /\ awards = <<>> /\ file = NoFile
  BY DEF Init
<1>2. ChainsInv
  BY <1>1 DEF ChainsInv, Known, Along, GrantAssumption
<1>3. DatabaseInv
  BY <1>1 DEF DatabaseInv, Sure
<1> QED
  BY <1>2, <1>3 DEF SteadyInv

-----------------------------------------------------------------------------
(* The awards of a block are those of its chain, until a restart *)

\* What the database counts: a file is read after a restart only, no block asks for less
\* than was counted, and the awards are those of the blocks counted.
CountedInv ==
  /\ dbHeight = -1 => file = NoFile
  /\ Counts => dbHeight <= goal
  /\ dbHeight # -1 /\ (Counts => dbHeight = goal) =>
       dbHeight % GRANTBLOCKINTERVAL = 0 /\ awards = content

\* What the blocks pay: in the best chain, in a branch as far as it is connected, and
\* in a template.
PaidInv ==
  /\ ~refused /\ AwardsPaid(best)
  /\ net # "idle" => \A n \in 1..connected : newChain[n].pays = Due(newChain, n)
  /\ template # NoTemplate => template.pays = DueAfter(template.parent)

LEMMA AwardsParts == AwardsInv <=> (steady /\ restarts = 0 => CountedInv /\ PaidInv)
BY DEF AwardsInv, CountedInv, PaidInv

LEMMA AwardsPartsNext == AwardsInv' <=> (steady' /\ restarts' = 0 => CountedInv' /\ PaidInv')
BY DEF AwardsInv, CountedInv, PaidInv

\* Chains with the same blocks below have the same awards due.
LEMMA SameDue ==
  ASSUME NEW c, NEW d, NEW k \in Nat, \A i \in 1..k : c[i] = d[i], NEW n \in 1..k
  PROVE  Due(c, n) = Due(d, n)
<1>1. Blocks(c, n - 1) = Blocks(d, n - 1)
  BY DEF Blocks
<1> QED
  BY <1>1 DEF Due

\* Nothing is due but in award blocks.
LEMMA NothingDue ==
  ASSUME NEW c \in Seq(Block), NEW n \in 0..Len(c), ~isGrantAwardBlock(n + 1)
  PROVE  DueAfter(Blocks(c, n)) = NoAwards
<1>1. Len(Blocks(c, n)) = n
  BY BlocksType
<1> QED
  BY <1>1 DEF DueAfter

\* What is due in an award block are the blocks of its chain, up to the interval below.
LEMMA DueIsCounted ==
  ASSUME GrantAssumption, NEW c \in Seq(Block), NEW n \in 0..Len(c), isGrantAwardBlock(n + 1),
         NEW l \in Seq(Branches), Len(l) = n + 1 - GRANTBLOCKINTERVAL,
         \A i \in 1..Len(l) : l[i] = c[i].branch
  PROVE  DueAfter(Blocks(c, n)) = l
<1> DEFINE b == Blocks(c, n)
           m == n + 1 - GRANTBLOCKINTERVAL
<1>1. b \in Seq(Branches) /\ Len(b) = n /\ \A i \in 1..n : b[i] = c[i].branch
  BY BlocksType
<1>2. n \in Nat /\ Len(l) \in Nat /\ m = Len(l) /\ m <= n /\ m \in Int
  BY DEF GrantAssumption
<1>3. DueAfter(b) = SubSeq(b, 1, m)
  BY <1>1 DEF DueAfter
<1> HIDE DEF b, m
<1>4. /\ SubSeq(b, 1, m) \in Seq(Branches) /\ Len(SubSeq(b, 1, m)) = m
      /\ \A i \in 1..m : SubSeq(b, 1, m)[i] = b[i]
  BY <1>1, <1>2, FirstOf
<1>5. \A i \in 1..m : SubSeq(b, 1, m)[i] = l[i]
  BY <1>1, <1>2, <1>4
<1>6. SubSeq(b, 1, m) = l
  BY <1>2, <1>4, <1>5, SeqEqual
<1> QED
  BY <1>3, <1>6 DEF b

\* What is sure is along the chains it was counted for.
LEMMA SureAlong ==
  ASSUME NEW c, NEW l, Len(l) \in Nat, Len(l) <= Len(c), Len(c) \in Nat, Len(settled) \in Nat,
         Sure(l), Along(settled, c)
  PROVE  \A i \in 1..Len(l) : l[i] = c[i].branch
BY DEF Sure, Along

\* What counting a block's votes leaves alone.
LEMMA CountedKept ==
  ASSUME CountedInv, UNCHANGED dbVars, Counts' <=> Counts
  PROVE  CountedInv'
BY DEF CountedInv, dbVars

\* An award block above everything counted is asked for: no more than it needs is counted.
LEMMA CountedEnsure ==
  ASSUME GrantAssumption, TypeOK, CountedInv, ~Counts, Counts', NEW n \in Nat, isGrantAwardBlock(n),
         EnsureUptoDate(n), Len(content) < n
  PROVE  CountedInv'
<1>1. ~Usable(n - GRANTBLOCKINTERVAL)
  BY DEF CountedInv, Usable
<1>2. /\ dbHeight' = dbHeight /\ content' = content /\ awards' = awards /\ file' = file
      /\ goal' = n - GRANTBLOCKINTERVAL
  BY <1>1 DEF EnsureUptoDate, RequiredHeight
<1>3. n - GRANTBLOCKINTERVAL \in Nat /\ (n - GRANTBLOCKINTERVAL) % GRANTBLOCKINTERVAL = 0
  BY AwardHeight
<1>4. (dbHeight = -1 /\ Len(content) = 0) \/ (dbHeight \in Nat /\ Len(content) = dbHeight)
  BY Heights
<1> DEFINE k == GRANTBLOCKINTERVAL
           g == n - GRANTBLOCKINTERVAL
<1>5. k \in Nat \ {0} /\ g \in Nat /\ g % k = 0 /\ g + k = n
  BY <1>3 DEF GrantAssumption
<1>6. dbHeight # -1 => dbHeight % k = 0
  BY DEF CountedInv
<1>7. dbHeight <= g
  <2> HIDE DEF k, g
  <2> SUFFICES ASSUME dbHeight # -1, g < dbHeight PROVE FALSE
    BY <1>4, <1>5
  <2>1. dbHeight \in Nat /\ dbHeight % k = 0 /\ dbHeight < n
    BY <1>4, <1>6
  <2>2. g <= dbHeight - k
    BY <1>5, <2>1, NextMultiple
  <2> QED
    BY <1>5, <2>1, <2>2
<1> QED
  BY <1>2, <1>7 DEF CountedInv

\* The last block asked for has the awards counted.
LEMMA CountedProcess ==
  ASSUME GrantAssumption, TypeOK, LocksInv, CountedInv, NEW p \in Threads \cup {Net}, ProcessBlock(p)
  PROVE  CountedInv'
<1>1. /\ goal' = goal /\ grantdb' = grantdb /\ phase' = phase
      /\ stage # "next" /\ dbHeight' = dbHeight + 1 /\ Counting(p)
      /\ awards' = content' \/ ~CountedAt(dbHeight')
  BY DEF ProcessBlock, templateVars
<1>2. Counts /\ Counts'
  BY <1>1 DEF Counting, Counts, GrantAssumption
<1>3. dbHeight < goal /\ dbHeight \in -1..MaxHeight /\ goal \in Nat /\ MaxHeight \in Nat
  BY <1>1, Heights DEF TypeOK, GrantAssumption
<1>4. dbHeight' # -1 /\ dbHeight' <= goal
  BY <1>1, <1>3
<1>5. ASSUME dbHeight' = goal PROVE dbHeight' % GRANTBLOCKINTERVAL = 0 /\ awards' = content'
  <2>1. goal \in Nat \ {0} /\ goal % GRANTBLOCKINTERVAL = 0
    BY <1>2, <1>3 DEF LocksInv
  <2>2. CountedAt(dbHeight')
    BY <1>5, <2>1, CountedAtGoal
  <2> QED
    BY <1>1, <1>5, <2>1, <2>2
<1> QED
  BY <1>1, <1>2, <1>4, <1>5 DEF CountedInv

\* Up to date, the awards counted are those of the first blocks of the chain asked for.
LEMMA CountedDue ==
  ASSUME GrantAssumption, TypeOK, LocksInv, DatabaseInv, CountedInv, Counts, UptoDate,
         NEW c \in Seq(Block), NEW n \in 0..Len(c), isGrantAwardBlock(n + 1),
         goal = RequiredHeight(n + 1), Along(settled, c)
  PROVE  awards = DueAfter(Blocks(c, n))
<1>1. /\ Len(c) \in Nat /\ n \in Nat /\ n + 1 \in Nat /\ Len(settled) \in Nat /\ content \in Seq(Branches)
      /\ GRANTBLOCKINTERVAL \in Nat /\ GRANTBLOCKINTERVAL > 1
      /\ dbHeight \in Int /\ goal \in Nat
      /\ (dbHeight = -1 /\ Len(content) = 0) \/ (dbHeight \in Nat /\ Len(content) = dbHeight)
  BY Heights
<1>2. goal = n + 1 - GRANTBLOCKINTERVAL
  BY DEF RequiredHeight
<1>3. dbHeight = goal /\ awards = content
  BY <1>1 DEF CountedInv, UptoDate
<1>4. Len(content) = n + 1 - GRANTBLOCKINTERVAL /\ Len(content) <= Len(c) /\ Sure(content) /\ Len(content) \in Nat
  BY <1>1, <1>2, <1>3 DEF DatabaseInv
<1>5. \A i \in 1..Len(content) : content[i] = c[i].branch
  BY <1>1, <1>4, SureAlong
<1> QED
  BY <1>1, <1>3, <1>4, <1>5, DueIsCounted

\* The blocks below the fork of a branch pay what they paid in the best chain.
LEMMA PaidStart ==
  ASSUME GrantAssumption, TypeOK, PaidInv, NetworkBranch \/ MineTemplate
  PROVE  PaidInv'
<1>1. \E c \in Seq(Block) : \E fork \in 0..Len(best) : SetBestChain(c, fork) /\ \A n \in 1..fork : c[n] = best[n]
  <2>1. CASE NetworkBranch
    <3>1. PICK c \in Seq(Block), fork \in Nat :
           fork <= Len(best) /\ SetBestChain(c, fork) /\ \A n \in 1..fork : c[n] = best[n]
      BY <2>1, NetworkStarts
    <3>2. fork \in 0..Len(best)
      BY <3>1, Heights
    <3> QED
      BY <3>1, <3>2
  <2>2. CASE MineTemplate
    <3>1. PICK b \in Block : SetBestChain(Append(best, b), Len(best)) /\ IsChain(Append(best, b))
      BY <2>2, MineStarts
    <3> DEFINE c == Append(best, b)
    <3>2. best \in Seq(Block) /\ Len(best) \in 0..Len(best)
      BY Heights
    <3>3. \A n \in 1..Len(best) : c[n] = best[n]
      BY <3>2
    <3>4. SetBestChain(c, Len(best)) /\ c \in Seq(Block)
      BY <3>1 DEF IsChain
    <3> HIDE DEF c
    <3> QED
      BY <3>2, <3>3, <3>4
  <2> QED
    BY <2>1, <2>2
<1>2. PICK c \in Seq(Block) : \E fork \in 0..Len(best) : SetBestChain(c, fork) /\ \A n \in 1..fork : c[n] = best[n]
  BY <1>1
<1>3. PICK fork \in 0..Len(best) : SetBestChain(c, fork) /\ \A n \in 1..fork : c[n] = best[n]
  BY <1>2
<1>4. /\ newChain' = c /\ connected' = fork /\ best' = best /\ refused' = refused /\ template' = template
  BY <1>3 DEF SetBestChain, templateVars
<1>5. Len(best) \in Nat /\ fork \in Nat /\ fork <= Len(best)
  BY <1>3, Heights
<1>6. ASSUME NEW n \in 1..fork PROVE c[n].pays = Due(c, n)
  <2>1. c[n] = best[n] /\ n \in 1..Len(best)
    BY <1>3, <1>5
  <2>2. best[n].pays = Due(best, n)
    BY <2>1 DEF PaidInv, AwardsPaid
  <2>3. Due(c, n) = Due(best, n)
    BY <1>3, <1>5, SameDue
  <2> QED
    BY <2>1, <2>2, <2>3
<1>7. \A n \in 1..connected' : newChain'[n].pays = Due(newChain', n)
  BY <1>4, <1>6
<1> QED
  BY <1>4, <1>7 DEF PaidInv, AwardsPaid

\* A block is connected when it pays what is due, and refused only when it does not.
LEMMA PaidConnect ==
  ASSUME GrantAssumption, TypeOK, PaidInv, Connecting, NEW counted, Connect(counted),
         counted = DueAfter(Blocks(newChain, connected)), best' = best, template' = template
  PROVE  PaidInv'
<1>1. connected \in Nat /\ net # "idle" /\ Due(newChain, connected + 1) = counted
  BY Heights DEF Connecting, Due
<1>2. CASE Pays(connected + 1, counted)
  <2>1. connected' = connected + 1 /\ newChain' = newChain /\ refused' = refused
    BY <1>2 DEF Connect
  <2>2. newChain[connected + 1].pays = Due(newChain, connected + 1)
    BY <1>1, <1>2 DEF Pays
  <2>3. \A n \in 1..(connected + 1) : newChain[n].pays = Due(newChain, n)
    BY <1>1, <2>2 DEF PaidInv
  <2> QED
    BY <2>1, <2>3 DEF PaidInv, AwardsPaid
<1>3. CASE ~Pays(connected + 1, counted)
  <2>0. newChain[connected + 1].pays # Due(newChain, connected + 1)
    BY <1>1, <1>3 DEF Pays
  <2>1. net' = "idle" /\ ~refused'
    BY <1>3, <2>0 DEF Connect, Return, PaidInv
  <2> QED
    BY <2>1 DEF PaidInv, AwardsPaid
<1> QED
  BY <1>2, <1>3

\* A template that passes its test pays what is due after its parent.
LEMMA PaidFinish ==
  ASSUME PaidInv, NEW t \in Threads, NEW counted, Finish(t, counted),
         counted = DueAfter(Blocks(best, Len(best))), UNCHANGED chainVars
  PROVE  PaidInv'
<1>1. UNCHANGED <<best, refused, net, connected, newChain>>
  BY DEF chainVars, branchVars
<1>2. template' # NoTemplate => template'.pays = DueAfter(template'.parent)
  BY DEF Finish, Tested, PaidInv
<1> QED
  BY <1>1, <1>2 DEF PaidInv, AwardsPaid

\* What else is left alone.
LEMMA PaidKept ==
  ASSUME PaidInv, UNCHANGED <<best, refused, net, connected, newChain, template>>
  PROVE  PaidInv'
BY DEF PaidInv, AwardsPaid

\* SetBestChain's thread pays what is due ...
LEMMA AwardsNet ==
  ASSUME GrantAssumption, TypeOK, LocksInv, ChainsInv, DatabaseInv, CountedInv, PaidInv,
         \/ ConnectBlock \/ GetGrantAwards \/ ConnectAwardBlock
         \/ Flush \/ Disconnect \/ Link \/ NewBest
  PROVE  CountedInv' /\ PaidInv'
<1>0. /\ Len(best) \in Nat /\ newChain \in Seq(Block) /\ Len(newChain) \in Nat /\ connected \in Nat
      /\ pfork \in Nat /\ Len(settled) \in Nat /\ Len(content) \in Nat /\ connected <= Len(newChain)
  BY Heights DEF TypeOK, IsChain
<1>1. CASE ConnectBlock
  <2>1. /\ Connecting /\ Connect(NoAwards) /\ ~isGrantAwardBlock(connected + 1)
        /\ grantdb = Nobody /\ grantdb' = grantdb /\ UNCHANGED dbVars
        /\ best' = best /\ template' = template
    BY <1>1 DEF ConnectBlock, templateVars
  <2>2. NoAwards = DueAfter(Blocks(newChain, connected))
    BY <1>0, <2>1, NothingDue
  <2>3. CountedInv'
    BY <2>1, CountedKept DEF Counts
  <2> QED
    BY <2>1, <2>2, <2>3, PaidConnect
<1>2. CASE ConnectAwardBlock
  <2>1. /\ Connecting /\ Connect(awards) /\ UptoDate
        /\ grantdb = Net /\ grantdb' = Nobody /\ UNCHANGED dbVars
        /\ best' = best /\ template' = template
    BY <1>2 DEF ConnectAwardBlock, templateVars
  <2>2. /\ isGrantAwardBlock(connected + 1) /\ goal = RequiredHeight(connected + 1)
        /\ Counts /\ ~Counts' /\ net # "idle"
    BY <2>1 DEF LocksInv, Counts, GrantAssumption, Connecting
  <2>3. Along(settled, newChain)
    BY <2>2 DEF ChainsInv
  <2>4. awards = DueAfter(Blocks(newChain, connected))
    BY <1>0, <2>1, <2>2, <2>3, CountedDue
  <2>5. dbHeight = goal
    BY <2>1, <2>2, Heights DEF CountedInv, UptoDate
  <2>6. CountedInv'
    BY <2>1, <2>2, <2>5 DEF CountedInv, dbVars
  <2> QED
    BY <2>1, <2>4, <2>6, PaidConnect
<1>3. CASE GetGrantAwards
  <2>1. /\ net # "idle" /\ isGrantAwardBlock(connected + 1)
        /\ grantdb = Nobody /\ grantdb' = Net /\ EnsureUptoDate(connected + 1)
        /\ UNCHANGED <<best, refused, net, connected, newChain, template>>
    BY <1>3 DEF GetGrantAwards, Connecting, chainVars, branchVars, templateVars
  <2>2. ~Counts /\ Counts'
    BY <2>1 DEF Counts, GrantAssumption
  <2>3. Len(content) <= Len(settled) /\ Len(content) <= Len(best)
    BY DEF DatabaseInv, Sure
  <2>4. Len(content) <= pfork
    BY <1>0, <2>1, <2>3, Floor
  <2>5. pfork <= connected
    BY <1>0 DEF TypeOK
  <2> DEFINE n == connected + 1
  <2>6. n \in Nat /\ isGrantAwardBlock(n) /\ EnsureUptoDate(n) /\ Len(content) < n
    BY <1>0, <2>1, <2>4, <2>5
  <2> HIDE DEF n
  <2>7. CountedInv'
    BY <2>2, <2>6, CountedEnsure
  <2> QED
    BY <2>1, <2>7, PaidKept
<1>4. CASE Flush \/ Disconnect \/ Link
  <2>1. /\ best' = best /\ refused' = refused /\ newChain' = newChain /\ connected' = connected
        /\ template' = template /\ net # "idle"
        /\ UNCHANGED dbVars /\ grantdb' = grantdb /\ phase' = phase
    BY <1>4 DEF Flush, Disconnect, Link, branchVars, templateVars
  <2>2. CountedInv'
    BY <2>1, CountedKept DEF Counts
  <2>3. PaidInv'
    BY <2>1 DEF PaidInv, AwardsPaid
  <2> QED
    BY <2>2, <2>3
<1>5. CASE NewBest
  <2>1. /\ best' = newChain /\ refused' = refused /\ template' = template /\ net = "link" /\ net' = "idle"
        /\ UNCHANGED dbVars /\ grantdb' = grantdb /\ phase' = phase
    BY <1>5 DEF NewBest, Return, templateVars
  <2>2. connected = Len(newChain)
    BY <2>1 DEF LocksInv
  <2>3. CountedInv'
    BY <2>1, CountedKept DEF Counts
  <2>4. PaidInv'
    BY <2>1, <2>2 DEF PaidInv, AwardsPaid
  <2> QED
    BY <2>3, <2>4
<1> QED
  BY <1>1, <1>2, <1>3, <1>4, <1>5

\* ... and a template's thread puts into its block what is due.
LEMMA AwardsTemplate ==
  ASSUME GrantAssumption, TypeOK, LocksInv, ChainsInv, DatabaseInv, CountedInv, PaidInv,
         NEW t \in Threads, CreateBlocks(t)
  PROVE  CountedInv' /\ PaidInv'
<1>0. /\ best \in Seq(Block) /\ Len(best) \in Nat /\ Len(best) + 1 \in Nat /\ Len(best) \in 0..Len(best)
      /\ Len(content) \in Nat /\ Len(content) <= Len(best)
  BY Heights DEF DatabaseInv
<1>1. UNCHANGED chainVars /\ UNCHANGED <<best, refused, net, connected, newChain>>
  <2>1. UNCHANGED chainVars
    BY DEF CreateBlocks, CreateNewBlock, AskAwards, AddAwards, ChooseParent, TestBlock, TestAwardBlock
  <2> QED
    BY <2>1 DEF chainVars, branchVars
<1>2. CASE isGrantAwardBlock(Len(best) + 1) /\ (AskAwards(t) \/ TestBlock(t))
  <2>1. /\ EnsureUptoDate(Len(best) + 1) /\ template' = template
        /\ \/ Goes(t, "asked", "counting") /\ grantdb' = grantdb
           \/ Goes(t, "chosen", "testing") /\ grantdb' = t /\ grantdb = Nobody
    BY <1>2 DEF AskAwards, TestBlock
  <2>2. \/ phase[t] = "asked" /\ phase'[t] = "counting" /\ grantdb' = grantdb
        \/ phase[t] = "chosen" /\ phase'[t] = "testing" /\ grantdb' = t /\ grantdb = Nobody
    BY <2>1, Others
  <2>3. ~Counts /\ Counts'
    BY <2>2 DEF LocksInv, Counts, GrantAssumption
  <2> DEFINE n == Len(best) + 1
  <2>4. n \in Nat /\ isGrantAwardBlock(n) /\ EnsureUptoDate(n) /\ Len(content) < n
    BY <1>0, <1>2, <2>1
  <2> HIDE DEF n
  <2>5. CountedInv'
    BY <2>3, <2>4, CountedEnsure
  <2> QED
    BY <1>1, <2>1, <2>5, PaidKept
<1>3. CASE AddAwards(t) \/ TestAwardBlock(t)
  <2>1. /\ UptoDate /\ grantdb' = Nobody /\ UNCHANGED dbVars
        /\ Goes(t, "counting", "made") \/ Goes(t, "testing", "idle")
    BY <1>3 DEF AddAwards, TestAwardBlock
  <2>2. phase[t] \in {"counting", "testing"} /\ (TestAwardBlock(t) => phase[t] = "testing")
    BY <2>1, Others DEF TestAwardBlock
  <2>3. grantdb = t /\ Counts /\ ~Counts'
    BY <2>1, <2>2 DEF LocksInv, Counts, GrantAssumption
  <2>4. dbHeight = goal
    BY <2>1, <2>3, Heights DEF CountedInv, UptoDate
  <2>5. CountedInv'
    BY <2>1, <2>3, <2>4 DEF CountedInv, dbVars
  <2>6. CASE AddAwards(t)
    <3>1. template' = template
      BY <2>6 DEF AddAwards
    <3> QED
      BY <1>1, <2>5, <3>1, PaidKept
  <2>7. CASE TestAwardBlock(t)
    <3>1. cs_main = t /\ cs_main # Net /\ cs_main = grantdb
      BY <2>2, <2>3, <2>7 DEF LocksInv, GrantAssumption
    <3>2. isGrantAwardBlock(Len(best) + 1) /\ goal = RequiredHeight(Len(best) + 1)
      BY <2>3, <3>1 DEF LocksInv
    <3>3. Along(settled, best)
      BY DEF ChainsInv
    <3>4. awards = DueAfter(Blocks(best, Len(best)))
      BY <1>0, <2>1, <2>3, <3>2, <3>3, CountedDue
    <3>5. Finish(t, awards)
      BY <2>7 DEF TestAwardBlock
    <3> QED
      BY <1>1, <2>5, <3>4, <3>5, PaidFinish
  <2> QED
    BY <1>3, <2>6, <2>7
<1>4. CASE ~isGrantAwardBlock(Len(best) + 1) /\ TestBlock(t)
  <2>1. Finish(t, NoAwards) /\ grantdb = Nobody /\ grantdb' = grantdb /\ UNCHANGED dbVars
    BY <1>4 DEF TestBlock
  <2>2. NoAwards = DueAfter(Blocks(best, Len(best)))
    BY <1>0, <1>4, NothingDue
  <2>3. CountedInv'
    BY <2>1, CountedKept DEF Counts
  <2>4. PaidInv'
    BY <1>1, <2>1, <2>2, PaidFinish
  <2> QED
    BY <2>3, <2>4
<1>5. CASE CreateNewBlock(t) \/ ChooseParent(t) \/ (~isGrantAwardBlock(Len(best) + 1) /\ AskAwards(t))
  <2>1. UNCHANGED dbVars /\ template' = template
    BY <1>5 DEF CreateNewBlock, ChooseParent, AskAwards
  <2>2. Counts' <=> Counts
    <3>0. t # Nobody /\ t # Net /\ Net # Nobody /\ Net \notin Threads /\ Nobody \notin Threads
      BY DEF GrantAssumption
    <3>1. CASE CreateNewBlock(t)
      <4>1. \/ phase'[t] = "asked" /\ grantdb' = t
            \/ grantdb' = Nobody
        BY <3>1, Others DEF CreateNewBlock
      <4>2. grantdb = Nobody
        BY <3>1 DEF CreateNewBlock
      <4> QED
        BY <3>0, <4>1, <4>2 DEF Counts
    <3>2. CASE ChooseParent(t)
      <4>1. phase[t] = "made" /\ phase'[t] = "chosen" /\ \A u \in Threads : u # t => phase'[u] = phase[u]
        BY <3>2, Others DEF ChooseParent
      <4>2. grantdb # t /\ grantdb' = grantdb
        BY <3>2, <4>1 DEF LocksInv, ChooseParent
      <4> QED
        BY <4>1, <4>2 DEF Counts
    <3>3. CASE ~isGrantAwardBlock(Len(best) + 1) /\ AskAwards(t)
      <4>1. Goes(t, "asked", "idle") /\ grantdb' = Nobody
        BY <3>3 DEF AskAwards
      <4>2. phase[t] = "asked"
        BY <4>1, Others
      <4>3. grantdb = t
        BY <4>2 DEF LocksInv
      <4> QED
        BY <4>1, <4>2, <4>3 DEF Counts
    <3> QED
      BY <1>5, <3>1, <3>2, <3>3
  <2>3. CountedInv'
    BY <2>1, <2>2, CountedKept
  <2> QED
    BY <1>1, <2>1, <2>3, PaidKept
<1> QED
  BY <1>2, <1>3, <1>4, <1>5 DEF CreateBlocks

LEMMA AwardsStep ==
  GrantAssumption /\ TypeOK /\ LocksInv /\ SteadyInv /\ AwardsInv /\ [Next]_vars => AwardsInv'
<1> SUFFICES ASSUME GrantAssumption, TypeOK, LocksInv, SteadyInv, AwardsInv, [Next]_vars,
                    steady', restarts' = 0
             PROVE  CountedInv' /\ PaidInv'
  BY AwardsPartsNext
<1>1. ASSUME steady, restarts = 0 PROVE ChainsInv /\ DatabaseInv /\ CountedInv /\ PaidInv
  BY <1>1, AwardsParts DEF SteadyInv
<1>2. CASE NetworkBranch \/ MineTemplate
  <2>0. \E c, fork : SetBestChain(c, fork)
    BY <1>2, Zenon DEF NetworkBranch, MineTemplate
  <2>1. steady /\ restarts' = restarts /\ UNCHANGED dbVars /\ grantdb' = grantdb /\ phase' = phase
    BY <2>0 DEF SetBestChain, templateVars
  <2>2. CountedInv'
    BY <1>1, <2>1, CountedKept DEF Counts
  <2> QED
    BY <1>1, <1>2, <2>1, <2>2, PaidStart
<1>3. CASE ConnectBlock \/ GetGrantAwards \/ ConnectAwardBlock \/ Flush \/ Disconnect \/ Link \/ NewBest
  <2>1. steady /\ restarts' = restarts
    BY <1>3 DEF ConnectBlock, GetGrantAwards, ConnectAwardBlock, Connect, Flush, Disconnect, Link, NewBest,
                chainVars, branchVars
  <2> QED
    BY <1>1, <1>3, <2>1, AwardsNet
<1>4. ASSUME NEW p \in Threads \cup {Net}, NextBlock(p) \/ ProcessBlock(p)
      PROVE  CountedInv' /\ PaidInv'
  <2>1. /\ steady /\ restarts' = restarts /\ grantdb' = grantdb /\ phase' = phase
        /\ UNCHANGED <<best, refused, net, connected, newChain, template>>
    BY <1>4 DEF NextBlock, ProcessBlock, chainVars, branchVars, templateVars
  <2>2. CASE NextBlock(p)
    <3>1. /\ dbHeight' = dbHeight /\ content' = content /\ goal' = goal /\ awards' = awards /\ file' = file
      BY <2>2 DEF NextBlock
    <3> QED
      BY <1>1, <2>1, <3>1, PaidKept DEF CountedInv, Counts
  <2>3. CASE ProcessBlock(p)
    BY <1>1, <2>1, <2>3, CountedProcess, PaidKept
  <2> QED
    BY <1>4, <2>2, <2>3
<1>5. ASSUME NEW t \in Threads, CreateBlocks(t) PROVE CountedInv' /\ PaidInv'
  <2>1. UNCHANGED chainVars /\ UNCHANGED restarts
    BY <1>5 DEF CreateBlocks, CreateNewBlock, AskAwards, AddAwards, ChooseParent, TestBlock, TestAwardBlock
  <2>2. steady /\ restarts = 0
    BY <2>1 DEF chainVars, branchVars
  <2> QED
    BY <1>1, <1>5, <2>2, AwardsTemplate
<1>6. CASE Restart
  <2>1. restarts' = restarts + 1 /\ restarts \in Nat
    BY <1>6 DEF Restart, TypeOK
  <2> QED
    BY <2>1
<1>7. CASE UNCHANGED vars
  <2>1. /\ steady /\ restarts = 0 /\ grantdb' = grantdb /\ phase' = phase /\ UNCHANGED dbVars
        /\ UNCHANGED <<best, refused, net, connected, newChain, template>>
    BY <1>7 DEF vars, chainVars, branchVars, templateVars
  <2> QED
    BY <1>1, <2>1, CountedKept, PaidKept DEF Counts
<1> QED
  BY <1>2, <1>3, <1>4, <1>5, <1>6, <1>7 DEF Next

LEMMA InitAwards == GrantAssumption /\ Init => AwardsInv
<1> SUFFICES ASSUME GrantAssumption, Init PROVE AwardsInv
  OBVIOUS
<1>1. CountedInv
  BY DEF Init, CountedInv, Counts
<1>2. Len(best) = 0 /\ net = "idle" /\ ~refused /\ template = NoTemplate
  BY DEF Init
<1>3. PaidInv
  BY <1>2 DEF PaidInv, AwardsPaid
<1> QED
  BY <1>1, <1>3, AwardsParts

-----------------------------------------------------------------------------
(* What the node relies on *)

LEMMA Inductive == Spec => [](TypeOK /\ LocksInv /\ SteadyInv /\ AwardsInv)
<1>1. Init => TypeOK /\ LocksInv /\ SteadyInv /\ AwardsInv
  BY GrantAssumption, InitTypes, InitLocks, InitSteady, InitAwards
<1>2. TypeOK /\ LocksInv /\ SteadyInv /\ AwardsInv /\ [Next]_vars
      => (TypeOK /\ LocksInv /\ SteadyInv /\ AwardsInv)'
  BY GrantAssumption, StepTypes, LocksStep, SteadyStep, AwardsStep
<1> QED
  BY <1>1, <1>2, PTL DEF Spec

\* While no chain replaces blocks that were to be counted, what is processed, what is in
\* the file and what the awards were counted from are blocks of the chain the pnext links
\* make, whoever counts, at every step of SetBestChain and after every restart.
THEOREM DatabaseCorrect == Spec => []DatabaseOfChain
<1>1. TypeOK /\ SteadyInv => DatabaseOfChain
  <2> SUFFICES ASSUME TypeOK, SteadyInv, steady
               PROVE  /\ Len(content) <= Len(chain) /\ Along(content, chain)
                      /\ grantdb = Nobody => awards \in {NoAwards, content}
                      /\ file # NoFile => Along(file.content, chain)
    BY DEF DatabaseOfChain
  <2>1. ChainsInv /\ DatabaseInv
    BY DEF SteadyInv
  <2>2. /\ Len(content) \in Nat /\ Len(chain) \in Nat /\ Len(settled) \in Nat /\ Sure(content)
        /\ Len(content) <= Len(settled) /\ Len(content) <= Len(best)
    BY <2>1, GrantAssumption, Heights DEF DatabaseInv, Sure
  <2>3. Len(content) <= Len(chain)
    BY <2>1, <2>2, GrantAssumption, Floor
  <2>4. \A n \in 1..Len(settled) : n <= Len(chain) => settled[n] = chain[n].branch
    BY <2>1 DEF ChainsInv, Along
  <2>5. Along(content, chain)
    BY <2>2, <2>4 DEF Sure, Along
  <2>6. grantdb = Nobody => awards \in {NoAwards, content}
    BY <2>1 DEF DatabaseInv, Counts
  <2>7. ASSUME file # NoFile PROVE Along(file.content, chain)
    <3>1. Len(file.content) \in Nat /\ Sure(file.content)
      BY <2>1, <2>7, FileType DEF DatabaseInv
    <3> QED
      BY <2>2, <2>4, <3>1 DEF Sure, Along
  <2> QED
    BY <2>3, <2>5, <2>6, <2>7
<1> QED
  BY <1>1, Inductive, PTL

\* So long the block after the pointer is never NULL, also when a template reads the
\* links SetBestChain is changing.
THEOREM NullNeverRead == Spec => []NoNullBlock
<1>1. SteadyInv => NoNullBlock
  BY DEF SteadyInv, DatabaseInv, NoNullBlock
<1> QED
  BY <1>1, Inductive, PTL

\* So long, until its first restart, a node refuses no block that pays the awards of its
\* chain, whatever templates are made in between ...
THEOREM ValidAccepted == Spec => []ValidIsAccepted
<1>1. AwardsInv => ValidIsAccepted
  BY DEF AwardsInv, ValidIsAccepted
<1> QED
  BY <1>1, Inductive, PTL

\* ... every block of its best chain pays them ...
THEOREM AwardsPaidUntilRestart == Spec => []AwardsArePaid
<1>1. AwardsInv => AwardsArePaid
  BY DEF AwardsInv, AwardsArePaid
<1> QED
  BY <1>1, Inductive, PTL

\* ... and so does every template it makes, though the awards are counted before the
\* parent is chosen.
THEOREM TemplatesPayAwards == Spec => []TemplatesPay
<1>1. AwardsInv => TemplatesPay
  BY DEF AwardsInv, TemplatesPay
<1> QED
  BY <1>1, Inductive, PTL
=============================================================================
