--------------------------- MODULE DmaBufMgrProofs ---------------------------
(***************************************************************************)
(* Proofs about DmaBufMgr and about the loops of DmaBufLoops, for every    *)
(* heap size, word width and set of block sizes that DmaBufAssumption      *)
(* allows.                                                                 *)
(***************************************************************************)
EXTENDS DmaBufLoops, InductionLemmas

\* The inductive invariant.
BufIInv == BufTypeOK /\ BitsMatchBlocks /\ ClearEnds

-----------------------------------------------------------------------------
(* Arithmetic of the status array. *)

\* The array has at least one word.
LEMMA ArraySize ==
  /\ statusSize \in Nat \ {0}
  /\ Total \in Nat \ {0}
PROOF
  <1>1. Lines + WordBits - 1 >= WordBits
    BY DmaBufAssumption, SMT
  <1>2. statusSize \in Nat \ {0}
    BY <1>1, DmaBufAssumption, SMT DEF statusSize
  <1>3. \A s, w \in Nat \ {0} : s * w \in Nat \ {0}
    BY SMT
  <1> QED
    BY <1>2, <1>3, DmaBufAssumption DEF Total

\* A bit of the array lies in one of its words.
LEMMA WordOfBit ==
  ASSUME NEW v \in Bits PROVE v \div WordBits \in 0 .. statusSize - 1
PROOF
  <1>1. v \in Nat /\ v < statusSize * WordBits
    BY ArraySize, SMT DEF Bits, Total
  <1>2. \A w \in Nat \ {0}, s \in Nat, q \in Int : q >= s => q * w >= s * w
    BY SMT
  <1>3. v \div WordBits \in Nat /\ (v \div WordBits) * WordBits <= v
    BY <1>1, DmaBufAssumption, SMT
  <1>4. ~ (v \div WordBits >= statusSize)
    BY <1>1, <1>2, <1>3, ArraySize, DmaBufAssumption, SMT
  <1> QED
    BY <1>3, <1>4, ArraySize, SMT

\* The search stays in the array.
LEMMA VisitedBit ==
  ASSUME BufTypeOK, NEW i \in Bits PROVE Visited(i) \in Bits
PROOF
  <1>1. searchPos * WordBits + i \in Int
    BY ArraySize, DmaBufAssumption, SMT DEF BufTypeOK, Bits
  <1>2. \A x \in Int : x % Total \in 0 .. Total - 1
    BY ArraySize, SMT
  <1> QED
    BY <1>1, <1>2 DEF Visited, Bits

\* The bits marked as unavailable are bits of the array.
LEMMA InitBitsType == InitBits \subseteq Bits
PROOF
  <1>1. Lines % WordBits \in 0 .. WordBits - 1
    BY DmaBufAssumption, SMT
  <1>2. (statusSize - 1) * WordBits >= 0 /\ (statusSize - 1) * WordBits \in Int
    BY ArraySize, DmaBufAssumption, SMT
  <1> QED
    BY <1>1, <1>2, ArraySize, DmaBufAssumption, SMT DEF InitBits, Bits

-----------------------------------------------------------------------------
(* Consequences of the invariant. *)

\* The lines of a block but its last are set.
LEMMA InteriorSet ==
  ASSUME BufIInv, NEW b \in blocks
  PROVE  b.start .. b.start + b.lines - 2 \subseteq usedStatus
PROOF
  BY DEF BufIInv, BitsMatchBlocks

\* What a block is made of.
LEMMA BlockType ==
  ASSUME BufTypeOK, NEW b \in blocks
  PROVE  /\ b.start \in Nat /\ b.lines \in Nat /\ b.lines >= 2
         /\ b = [start |-> b.start, lines |-> b.lines]
PROOF
  <1>1. b \in Block
    BY DEF BufTypeOK
  <1>2. b.start \in Bits /\ b.lines \in Sizes /\ b = [start |-> b.start, lines |-> b.lines]
    BY <1>1 DEF Block
  <1> QED
    BY <1>2, ArraySize, DmaBufAssumption, SMT DEF Bits

\* Blocks between clear bits cannot overlap.
LEMMA Apart ==
  ASSUME BufIInv PROVE NoOverlap
PROOF
  <1> SUFFICES ASSUME NEW b \in blocks, NEW c \in blocks,
                      NEW k \in Extent(b) \cap Extent(c)
               PROVE  b = c
    BY DEF NoOverlap
  <1> USE DEF BufIInv
  <1>1. /\ b.start \in Nat /\ b.lines \in Nat /\ b.lines >= 2
        /\ c.start \in Nat /\ c.lines \in Nat /\ c.lines >= 2
    BY BlockType
  <1>2. \A d \in blocks : /\ d.start - 1 \notin usedStatus
                          /\ d.start + d.lines - 1 \notin usedStatus
    BY DEF ClearEnds
  <1>3. /\ \A j \in b.start .. b.start + b.lines - 2 : j \in usedStatus
        /\ \A j \in c.start .. c.start + c.lines - 2 : j \in usedStatus
    BY InteriorSet
  <1>4. k \in Int /\ b.start <= k /\ k <= b.start + b.lines - 1
                  /\ c.start <= k /\ k <= c.start + c.lines - 1
    BY <1>1, SMT DEF Extent
  <1>5. b.start = c.start
    <2>1. CASE b.start < c.start
      <3>1. c.start - 1 \in b.start .. b.start + b.lines - 2
        BY <1>1, <1>4, <2>1, SMT
      <3> QED
        BY <3>1, <1>2, <1>3
    <2>2. CASE c.start < b.start
      <3>1. b.start - 1 \in c.start .. c.start + c.lines - 2
        BY <1>1, <1>4, <2>2, SMT
      <3> QED
        BY <3>1, <1>2, <1>3
    <2> QED
      BY <1>1, <2>1, <2>2, SMT
  <1>6. b.lines = c.lines
    <2>1. CASE b.lines < c.lines
      <3>1. b.start + b.lines - 1 \in c.start .. c.start + c.lines - 2
        BY <1>1, <1>5, <2>1, SMT
      <3> QED
        BY <3>1, <1>2, <1>3
    <2>2. CASE c.lines < b.lines
      <3>1. c.start + c.lines - 1 \in b.start .. b.start + b.lines - 2
        BY <1>1, <1>5, <2>2, SMT
      <3> QED
        BY <3>1, <1>2, <1>3
    <2> QED
      BY <1>1, <2>1, <2>2, SMT
  <1> QED
    BY <1>5, <1>6, BlockType

\* The loop of CyU3PDmaBufferFree stops at the last line of the block.
LEMMA OnesOfBlock ==
  ASSUME BufIInv, NEW b \in blocks PROVE OnesFrom(b.start) = b.lines - 1
PROOF
  <1> USE DEF BufIInv
  <1>1. b.start \in Nat /\ b.lines \in Nat /\ b.lines >= 2
    BY BlockType
  <1>2. \A j \in b.start .. b.start + b.lines - 2 : j \in usedStatus
    BY InteriorSet
  <1>3. b.start + b.lines - 1 \in Bits /\ b.start + b.lines - 1 \notin usedStatus
    BY DEF ClearEnds
  <1> DEFINE Stop(c) == /\ b.start .. b.start + c - 1 \subseteq usedStatus
                        /\ b.start + c \notin usedStatus
  <1>4. b.lines - 1 \in 0 .. Total - b.start
    BY <1>1, <1>3, ArraySize, SMT DEF Bits
  <1>5. Stop(b.lines - 1)
    BY <1>1, <1>2, <1>3, SMT
  <1>6. ASSUME NEW c \in 0 .. Total - b.start, Stop(c) PROVE c = b.lines - 1
    <2>0. c \in Int /\ c >= 0
      BY SMT
    <2>1. CASE c < b.lines - 1
      <3>1. b.start + c \in b.start .. b.start + b.lines - 2
        BY <1>1, <2>0, <2>1, SMT
      <3> QED
        BY <3>1, <1>2, <1>6
    <2>2. CASE c > b.lines - 1
      <3>1. b.start + b.lines - 1 \in b.start .. b.start + c - 1
        BY <1>1, <2>0, <2>2, SMT
      <3> QED
        BY <3>1, <1>3, <1>6
    <2> QED
      BY <1>1, <2>0, <2>1, <2>2, SMT
  <1>7. OnesFrom(b.start) = CHOOSE c \in 0 .. Total - b.start : Stop(c)
    BY DEF OnesFrom
  <1> QED
    BY <1>4, <1>5, <1>6, <1>7

-----------------------------------------------------------------------------
(* The invariant is inductive. *)

\* What an allocation does, for the run p .. p + n of clear bits it found.
LEMMA AllocStep ==
  ASSUME BufIInv, NEW n \in Sizes, CyU3PDmaBufferAlloc(n)
  PROVE  \E p \in Bits :
           /\ p + n \in Bits
           /\ \A k \in p .. p + n : k \notin usedStatus
           /\ usedStatus' = usedStatus \cup (p + 1 .. p + n - 1)
           /\ searchPos' \in 0 .. statusSize - 1
           /\ blocks' = blocks \cup {[start |-> p + 1, lines |-> n]}
PROOF
  <1>1. PICK i \in Bits :
          /\ Counted(n, i)
          /\ usedStatus' = usedStatus \cup
               (Visited(i) - n + 1 .. Visited(i) - n + 1 + (n - 1) - 1)
          /\ searchPos' = Visited(i) \div WordBits
          /\ blocks' = blocks \cup {[start |-> Visited(i) - n + 1, lines |-> n]}
    BY DEF CyU3PDmaBufferAlloc, Reaches, CyU3PDmaBufMgrSetStatus
  <1>2. Visited(i) \in Bits
    BY VisitedBit DEF BufIInv
  <1>3. Visited(i) \in Nat /\ n \in Nat /\ Visited(i) >= n
    BY <1>1, <1>2, ArraySize, DmaBufAssumption, SMT DEF Bits, Counted
  <1> DEFINE p == Visited(i) - n
  <1>4. p \in Bits /\ p + n = Visited(i)
    BY <1>2, <1>3, ArraySize, DmaBufAssumption, SMT DEF Bits
  <1>5. \A k \in p .. p + n : k \notin usedStatus
    BY <1>1, <1>4 DEF Counted
  <1>6. usedStatus' = usedStatus \cup (p + 1 .. p + n - 1)
    <2>1. Visited(i) - n + 1 + (n - 1) - 1 = p + n - 1
      BY <1>3, SMT
    <2> QED
      BY <1>1, <2>1
  <1>7. searchPos' \in 0 .. statusSize - 1
    BY <1>1, <1>2, WordOfBit
  <1> HIDE DEF p
  <1>8. blocks' = blocks \cup {[start |-> p + 1, lines |-> n]}
    BY <1>1 DEF p
  <1> QED
    BY <1>2, <1>4, <1>5, <1>6, <1>7, <1>8

\* An allocation preserves the invariant: the run it takes begins and ends with
\* a clear bit that no block needs set and no later block may set.
LEMMA AllocPreserves ==
  ASSUME BufIInv, NEW n \in Sizes, CyU3PDmaBufferAlloc(n)
  PROVE  BufIInv'
PROOF
  <1> USE DEF BufIInv
  <1>1. PICK p \in Bits :
          /\ p + n \in Bits
          /\ \A k \in p .. p + n : k \notin usedStatus
          /\ usedStatus' = usedStatus \cup (p + 1 .. p + n - 1)
          /\ searchPos' \in 0 .. statusSize - 1
          /\ blocks' = blocks \cup {[start |-> p + 1, lines |-> n]}
    BY AllocStep
  <1> DEFINE new == [start |-> p + 1, lines |-> n]
  <1>2. p \in Nat /\ n \in Nat /\ n >= 2 /\ p + n < Total
    BY <1>1, ArraySize, DmaBufAssumption, SMT DEF Bits
  <1>3. p + 1 .. p + n - 1 \subseteq Bits /\ p + 1 \in Bits
    BY <1>2, ArraySize, SMT DEF Bits
  <1>4. new \in Block
    BY <1>3 DEF Block
  <1>5. BufTypeOK'
    BY <1>1, <1>3, <1>4 DEF BufTypeOK, Bits, Block
  <1>6. new.start .. new.start + new.lines - 2 = p + 1 .. p + n - 1
    BY <1>2, SMT
  <1>7. BitsMatchBlocks'
    <2>1. usedStatus = InitBits \cup
            UNION {b.start .. b.start + b.lines - 2 : b \in blocks}
      BY DEF BitsMatchBlocks
    <2> HIDE DEF new
    <2>2. UNION {b.start .. b.start + b.lines - 2 : b \in blocks \cup {new}}
            = (UNION {b.start .. b.start + b.lines - 2 : b \in blocks})
                \cup (p + 1 .. p + n - 1)
      BY <1>6
    <2>3. usedStatus' = InitBits \cup
            UNION {b.start .. b.start + b.lines - 2 : b \in blocks \cup {new}}
      BY <1>1, <2>1, <2>2
    <2> QED
      BY <1>1, <2>3 DEF BitsMatchBlocks, new
  <1>8. ClearEnds'
    <2> SUFFICES ASSUME NEW b \in blocks'
                 PROVE  /\ b.start - 1 \in Bits \ usedStatus'
                        /\ b.start + b.lines - 1 \in Bits \ usedStatus'
                        /\ (b.start .. b.start + b.lines - 2) \cap InitBits = {}
      BY DEF ClearEnds
    <2>1. CASE b \in blocks
      <3>1. b.start \in Nat /\ b.lines \in Nat /\ b.lines >= 2
        BY <2>1, BlockType
      <3>2. \A j \in b.start .. b.start + b.lines - 2 : j \in usedStatus
        BY <2>1, InteriorSet
      <3>3. /\ b.start - 1 \in Bits \ usedStatus
            /\ b.start + b.lines - 1 \in Bits \ usedStatus
            /\ (b.start .. b.start + b.lines - 2) \cap InitBits = {}
        BY <2>1 DEF ClearEnds
      <3>4. b.start - 1 \notin p + 1 .. p + n - 1
        <4> SUFFICES ASSUME b.start - 1 \in p + 1 .. p + n - 1 PROVE FALSE
          OBVIOUS
        <4>1. b.start \in p .. p + n /\ b.start \in b.start .. b.start + b.lines - 2
          BY <1>2, <3>1, SMT
        <4> QED
          BY <4>1, <1>1, <3>2
      <3>5. b.start + b.lines - 1 \notin p + 1 .. p + n - 1
        <4> SUFFICES ASSUME b.start + b.lines - 1 \in p + 1 .. p + n - 1 PROVE FALSE
          OBVIOUS
        <4>1. /\ b.start + b.lines - 2 \in p .. p + n
              /\ b.start + b.lines - 2 \in b.start .. b.start + b.lines - 2
          BY <1>2, <3>1, SMT
        <4> QED
          BY <4>1, <1>1, <3>2
      <3> QED
        BY <1>1, <3>3, <3>4, <3>5
    <2>2. CASE b = new
      <3>1. b.start - 1 = p /\ b.start + b.lines - 1 = p + n
        BY <1>2, <2>2, SMT
      <3>2. p \notin usedStatus /\ p + n \notin usedStatus
        BY <1>1, <1>2, SMT
      <3>3. p \notin p + 1 .. p + n - 1 /\ p + n \notin p + 1 .. p + n - 1
        BY <1>2, SMT
      <3>4. InitBits \subseteq usedStatus
        BY DEF BitsMatchBlocks
      <3>5. \A j \in p + 1 .. p + n - 1 : j \in p .. p + n
        BY <1>2, SMT
      <3>6. (p + 1 .. p + n - 1) \cap InitBits = {}
        BY <1>1, <3>4, <3>5
      <3> QED
        BY <1>1, <1>6, <2>2, <3>1, <3>2, <3>3, <3>6
    <2> QED
      BY <1>1, <2>1, <2>2
  <1> QED
    BY <1>5, <1>7, <1>8

\* What a free does.
LEMMA FreeStep ==
  ASSUME BufIInv, NEW b \in blocks, CyU3PDmaBufferFree(b)
  PROVE  /\ usedStatus' = usedStatus \ (b.start .. b.start + b.lines - 2)
         /\ searchPos' = 0
         /\ blocks' = blocks \ {b}
PROOF
  <1>1. OnesFrom(b.start) = b.lines - 1
    BY OnesOfBlock
  <1>2. b.start \in Nat /\ b.lines \in Nat
    BY BlockType DEF BufIInv
  <1>3. b.start + (b.lines - 1) - 1 = b.start + b.lines - 2
    BY <1>2, SMT
  <1> QED
    BY <1>1, <1>3 DEF CyU3PDmaBufferFree, CyU3PDmaBufMgrSetStatus

\* A free preserves the invariant: it clears the bits of its block only.
LEMMA FreePreserves ==
  ASSUME BufIInv, NEW b \in blocks, CyU3PDmaBufferFree(b)
  PROVE  BufIInv'
PROOF
  <1> USE DEF BufIInv
  <1> DEFINE In(c) == c.start .. c.start + c.lines - 2
  <1>1. /\ usedStatus' = usedStatus \ In(b)
        /\ searchPos' = 0
        /\ blocks' = blocks \ {b}
    BY FreeStep
  <1>2. BufTypeOK'
    <2>1. 0 \in 0 .. statusSize - 1
      BY ArraySize, SMT
    <2> QED
      BY <1>1, <2>1 DEF BufTypeOK, Bits, Block
  <1>3. \A c \in blocks : In(c) \subseteq Extent(c)
    BY BlockType, SMT DEF Extent
  <1>4. \A c \in blocks \ {b} : In(c) \cap In(b) = {}
    BY <1>3, Apart DEF NoOverlap
  <1>5. In(b) \cap InitBits = {}
    BY DEF ClearEnds
  <1>6. usedStatus = InitBits \cup UNION {In(c) : c \in blocks}
    BY DEF BitsMatchBlocks
  <1> HIDE DEF In
  <1>7. usedStatus \ In(b) = InitBits \cup UNION {In(c) : c \in blocks \ {b}}
    BY <1>4, <1>5, <1>6
  <1>8. BitsMatchBlocks'
    BY <1>1, <1>7 DEF BitsMatchBlocks, In
  <1>9. ClearEnds'
    BY <1>1 DEF ClearEnds
  <1> QED
    BY <1>2, <1>8, <1>9

\* BufIInv holds in every reachable state.
LEMMA BufInvariant == BufSpec => []BufIInv
PROOF
  <1>1. BufInit => BufIInv
    <2> SUFFICES ASSUME BufInit PROVE BufIInv
      OBVIOUS
    <2>1. BufTypeOK
      BY ArraySize, InitBitsType, SMT DEF BufInit, BufTypeOK
    <2>2. BitsMatchBlocks /\ ClearEnds
      BY DEF BufInit, BitsMatchBlocks, ClearEnds
    <2> QED
      BY <2>1, <2>2 DEF BufIInv
  <1>2. BufIInv /\ [BufNext]_bufVars => BufIInv'
    <2> SUFFICES ASSUME BufIInv, [BufNext]_bufVars PROVE BufIInv'
      OBVIOUS
    <2>1. ASSUME NEW n \in Sizes, CyU3PDmaBufferAlloc(n) PROVE BufIInv'
      BY <2>1, AllocPreserves
    <2>2. ASSUME NEW b \in blocks, CyU3PDmaBufferFree(b) PROVE BufIInv'
      BY <2>2, FreePreserves
    <2>3. CASE UNCHANGED bufVars
      BY <2>3 DEF BufIInv, BufTypeOK, BitsMatchBlocks, ClearEnds, bufVars, Bits, Block
    <2> QED
      BY <2>1, <2>2, <2>3 DEF BufNext
  <1> QED
    BY <1>1, <1>2, PTL DEF BufSpec

-----------------------------------------------------------------------------
(* What the search finds. *)

\* The bit at distance i from the start of the search, before and after it wraps.
LEMMA VisitedValue ==
  ASSUME NEW x \in Int
  PROVE  /\ 0 <= x /\ x < Total => x % Total = x
         /\ Total <= x /\ x < 2 * Total => x % Total = x - Total
PROOF
  BY ArraySize, SMT

\* The search begins in the array.
LEMMA SearchStart ==
  ASSUME BufTypeOK
  PROVE  searchPos * WordBits \in Nat /\ searchPos * WordBits < Total
PROOF
  <1>1. searchPos \in Nat /\ searchPos < statusSize
    BY ArraySize, SMT DEF BufTypeOK
  <1>2. \A s, t \in Nat, w \in Nat \ {0} : s < t => s * w \in Nat /\ s * w < t * w
    BY SMT
  <1> QED
    BY <1>1, <1>2, ArraySize, DmaBufAssumption DEF Total

\* A run that does not lie across the starting point is counted.
LEMMA UncutFound ==
  ASSUME BufTypeOK PROVE UncutRunsFound
PROOF
  <1> SUFFICES ASSUME NEW n \in Sizes, NEW p \in Room(n),
                      ~ (p < searchPos * WordBits /\ searchPos * WordBits <= p + n)
               PROVE  \E i \in Bits : Counted(n, i)
    BY DEF UncutRunsFound, Found
  <1> DEFINE from == searchPos * WordBits
  <1>1. from \in Nat /\ from < Total
    BY SearchStart
  <1>2. /\ n \in Nat /\ p \in Nat /\ p + n < Total
        /\ \A k \in p .. p + n : k \notin usedStatus
    BY ArraySize, DmaBufAssumption, SMT DEF Room, Bits
  <1>3. ~ (p < from /\ from <= p + n)
    OBVIOUS
  <1>4. \A i \in Bits : Visited(i) = (from + i) % Total
    BY DEF Visited
  <1> HIDE DEF from
  <1>5. CASE from <= p
    <2>1. p + n - from \in Bits /\ from + (p + n - from) = p + n
      BY <1>1, <1>2, <1>5, ArraySize, SMT DEF Bits
    <2>2. Visited(p + n - from) = p + n
      BY <2>1, <1>2, <1>4, VisitedValue, SMT
    <2>3. p + n - from >= n /\ p + n >= n /\ p + n - n = p
      BY <1>1, <1>2, <1>5, SMT
    <2> QED
      BY <2>1, <2>2, <2>3, <1>2 DEF Counted
  <1>6. CASE p + n < from
    <2> DEFINE y == p + n + Total
    <2>1. p + n + Total - from \in Bits /\ from + (p + n + Total - from) = y
      BY <1>1, <1>2, <1>6, ArraySize, SMT DEF Bits
    <2>2. y \in Int /\ Total <= y /\ y < 2 * Total /\ y - Total = p + n
      BY <1>2, ArraySize, SMT
    <2> HIDE DEF y
    <2>3. Visited(p + n + Total - from) = p + n
      <3>1. y % Total = p + n
        BY <2>2, VisitedValue
      <3> QED
        BY <2>1, <3>1, <1>4
    <2>4. p + n + Total - from >= n /\ p + n >= n /\ p + n - n = p
      BY <1>1, <1>2, <1>6, ArraySize, SMT
    <2> QED
      BY <2>1, <2>3, <2>4, <1>2 DEF Counted
  <1> QED
    BY <1>1, <1>2, <1>3, <1>5, <1>6, SMT

\* After a free the run of the freed block, from the clear bit before it to its
\* own clear last bit, is found from the top of the heap.
LEMMA FreedFound ==
  ASSUME BufIInv, NEW b \in blocks, CyU3PDmaBufferFree(b)
  PROVE  Found(b.lines)'
PROOF
  <1> USE DEF BufIInv
  <1>1. /\ usedStatus' = usedStatus \ (b.start .. b.start + b.lines - 2)
        /\ searchPos' = 0
    BY FreeStep
  <1>2. b.start \in Nat /\ b.lines \in Nat /\ b.lines >= 2
    BY BlockType
  <1>3. /\ b.start - 1 \in Bits /\ b.start - 1 \notin usedStatus
        /\ b.start + b.lines - 1 \in Bits /\ b.start + b.lines - 1 \notin usedStatus
    BY DEF ClearEnds
  <1> DEFINE e == b.start + b.lines - 1
  <1>4. \A k \in e - b.lines .. e : k \notin usedStatus'
    <2> SUFFICES ASSUME NEW k \in e - b.lines .. e PROVE k \notin usedStatus'
      OBVIOUS
    <2>1. \/ k = b.start - 1
          \/ k \in b.start .. b.start + b.lines - 2
          \/ k = b.start + b.lines - 1
      BY <1>2, SMT
    <2> QED
      BY <2>1, <1>1, <1>3
  <1>5. e \in Nat /\ e < Total /\ e >= b.lines
    BY <1>2, <1>3, ArraySize, SMT DEF Bits
  <1>6. Visited(e)' = e
    <2>1. searchPos' * WordBits + e = e
      BY <1>1, <1>5, DmaBufAssumption, SMT
    <2>2. Visited(e)' = (searchPos' * WordBits + e) % Total
      BY DEF Visited, Total, statusSize
    <2>3. e % Total = e
      BY <1>5, VisitedValue, SMT
    <2> QED
      BY <2>1, <2>2, <2>3
  <1> HIDE DEF e
  <1>7. e \in Bits
    BY <1>3 DEF e
  <1>8. Counted(b.lines, e)'
    BY <1>4, <1>5, <1>6 DEF Counted
  <1> QED
    BY <1>7, <1>8 DEF Found, Bits

-----------------------------------------------------------------------------
(* The search loop, turn by turn. *)

SearchState ==
  [wordnum : 0 .. statusSize - 1, bitnum : 0 .. WordBits - 1, count : Nat, start : Int,
   tmp : Nat, found : BOOLEAN]

\* A place in the array is its word and bit.
LEMMA PlaceOfBit ==
  ASSUME NEW w \in Nat, NEW b \in 0 .. WordBits - 1, NEW s \in Nat
  PROVE  /\ w < s => w * WordBits + b < s * WordBits
         /\ w >= s => w * WordBits + b >= s * WordBits
         /\ (w * WordBits + b) \div WordBits = w
<1>1. WordBits \in Nat \ {0} /\ b \in Nat /\ b < WordBits
  BY DmaBufAssumption
<1>2. \A p, q \in Nat : p < q => p * WordBits + WordBits <= q * WordBits
  BY <1>1, SMT
<1>3. \A p, q \in Nat : p >= q => p * WordBits >= q * WordBits
  BY <1>1, SMT
<1>4. w * WordBits \in Nat /\ s * WordBits \in Nat
  BY <1>1, SMT
<1>5. (w * WordBits + b) \div WordBits = w
  BY <1>1, <1>4, SMT
<1> QED BY <1>1, <1>2, <1>3, <1>4, <1>5, SMT

\* The bit after a bit.
LEMMA NextVisited ==
  ASSUME BufTypeOK, NEW k \in Nat, k < Total
  PROVE  /\ Visited(k) \in Bits
         /\ Visited(k + 1) = IF Visited(k) + 1 = Total THEN 0 ELSE Visited(k) + 1
<1> DEFINE from == searchPos * WordBits
<1>1. from \in Nat /\ from < Total /\ Total \in Nat \ {0} BY SearchStart, ArraySize
<1>2. \A i \in Int : Visited(i) = (from + i) % Total BY DEF Visited
<1> HIDE DEF from
<1>3. PICK x \in Int, y \in Int : x = from + k /\ y = from + (k + 1)
  BY <1>1
<1>4. Visited(k) = x % Total /\ Visited(k + 1) = y % Total
  BY <1>2, <1>3
<1>5. x % Total = IF x < Total THEN x ELSE x - Total
  BY <1>1, <1>3, VisitedValue
<1>6. y % Total = IF y < Total THEN y ELSE y - Total
  BY <1>1, <1>3, VisitedValue
<1> QED BY <1>1, <1>3, <1>4, <1>5, <1>6, SMT DEF Bits

\* A turn stays among the values of the local variables.
LEMMA SearchTurnType ==
  ASSUME BufTypeOK, NEW n \in Nat, NEW l \in SearchState
  PROVE  SearchTurn(n, l) \in SearchState
<1>1. /\ l.wordnum \in 0 .. statusSize - 1 /\ l.bitnum \in 0 .. WordBits - 1
      /\ l.count \in Nat /\ l.start \in Int /\ l.tmp \in Nat /\ l.found \in BOOLEAN
  BY DEF SearchState
<1> DEFINE cnt == IF l.bitnum \notin Word(l.wordnum) THEN l.count + 1 ELSE 0
           st  == IF l.bitnum \notin Word(l.wordnum) /\ l.count = 0
                  THEN l.wordnum * WordBits + l.bitnum + 1 ELSE l.start
<1>2. cnt \in Nat BY <1>1
<1>3. st \in Int
  <2>1. l.wordnum * WordBits + l.bitnum + 1 \in Int BY <1>1, DmaBufAssumption, ArraySize, SMT
  <2> QED BY <1>1, <2>1
<1> HIDE DEF cnt, st
<1>4. [l EXCEPT !.count = cnt, !.start = st, !.found = TRUE] \in SearchState
  BY <1>2, <1>3 DEF SearchState
<1>5. Onwards(l, cnt, st) \in SearchState
  <2> DEFINE last  == l.bitnum + 1 = WordBits
             wraps == last /\ l.wordnum + 1 = statusSize
             w == IF wraps THEN 0 ELSE IF last THEN l.wordnum + 1 ELSE l.wordnum
             b == IF last THEN 0 ELSE l.bitnum + 1
             t == IF last THEN l.tmp + 1 ELSE l.tmp
             c == IF wraps THEN 0 ELSE cnt
  <2>1. w \in 0 .. statusSize - 1 BY <1>1, ArraySize
  <2>2. b \in 0 .. WordBits - 1 BY <1>1, DmaBufAssumption
  <2>3. t \in Nat /\ c \in Nat BY <1>1, <1>2
  <2>4. Onwards(l, cnt, st) = [wordnum |-> w, bitnum |-> b, count |-> c, start |-> st,
                               tmp |-> t, found |-> FALSE]
    BY Zenon DEF Onwards
  <2> HIDE DEF w, b, t, c, last, wraps
  <2> QED BY <1>3, <2>1, <2>2, <2>3, <2>4 DEF SearchState
<1>6. SearchTurn(n, l) =
        IF l.found \/ l.tmp >= statusSize THEN l
        ELSE IF cnt = n + 1 THEN [l EXCEPT !.count = cnt, !.start = st, !.found = TRUE]
        ELSE Onwards(l, cnt, st)
  BY Zenon DEF SearchTurn, cnt, st
<1> QED BY <1>4, <1>5, <1>6

\* The loop is the sequence of its turns.
LEMMA SearchTurns ==
  ASSUME BufTypeOK, NEW n \in Nat
  PROVE  \E loop \in [0 .. Total -> SearchState] :
           /\ Search(n) = loop[Total] /\ loop[0] = SearchBegins
           /\ \A k \in 1 .. Total : loop[k] = SearchTurn(n, loop[k - 1])
<1> DEFINE IsLoop(g) ==
             g = [k \in 0 .. Total |-> IF k = 0 THEN SearchBegins ELSE SearchTurn(n, g[k - 1])]
           turn == [l \in SearchState |-> SearchTurn(n, l)]
           turns == [k \in 1 .. Total |-> turn]
           loop == CHOOSE g : IsLoop(g)
<1>1. SearchBegins \in SearchState
  BY ArraySize, DmaBufAssumption DEF SearchBegins, SearchState, BufTypeOK
<1>2. turn \in [SearchState -> SearchState]
  BY SearchTurnType
<1> HIDE DEF turn
<1>3. turns \in StepsOn(SearchState, Total) BY <1>2 DEF StepsOn
<1> HIDE DEF turns
<1>4. Total \in Nat \ {0} BY ArraySize
<1>5. Runs(SearchState, Total, SearchBegins, turns) # {} BY <1>1, <1>3, <1>4, Recursion
<1>6. PICK g \in [0 .. Total -> SearchState] :
        g[0] = SearchBegins /\ \A k \in 1 .. Total : g[k] = turns[k][g[k - 1]]
  BY <1>5 DEF Runs
<1>7. ASSUME NEW k \in 1 .. Total PROVE g[k] = SearchTurn(n, g[k - 1])
  <2>1. k - 1 \in 0 .. Total BY <1>4
  <2>2. turns[k] = turn BY DEF turns
  <2>3. turn[g[k - 1]] = SearchTurn(n, g[k - 1]) BY <1>6, <2>1 DEF turn
  <2> QED BY <1>6, <2>2, <2>3
<1>8. IsLoop(g)
  <2> DEFINE h == [k \in 0 .. Total |-> IF k = 0 THEN SearchBegins ELSE SearchTurn(n, g[k - 1])]
  <2>1. \A k \in 0 .. Total : k # 0 => k \in 1 .. Total BY <1>4
  <2>2. \A k \in 0 .. Total : h[k] = g[k] BY <1>6, <1>7, <2>1, Zenon
  <2>3. h = [k \in 0 .. Total |-> g[k]] BY <2>2
  <2>4. g = [k \in 0 .. Total |-> g[k]] BY <1>6
  <2> QED BY <2>3, <2>4
<1>9. IsLoop(loop)
  <2>1. \E f : IsLoop(f) BY <1>8
  <2> QED BY <2>1, Zenon
<1>10. Search(n) = loop[Total] BY Zenon DEF Search
<1> HIDE DEF loop
<1>11. /\ \A k \in 0 .. Total :
            loop[k] = IF k = 0 THEN SearchBegins ELSE SearchTurn(n, loop[k - 1])
       /\ DOMAIN loop = 0 .. Total /\ loop = [k \in DOMAIN loop |-> loop[k]]
  BY <1>9
<1>12. loop[0] = SearchBegins /\ \A k \in 1 .. Total : loop[k] = SearchTurn(n, loop[k - 1])
  <2>1. 0 \in 0 .. Total /\ \A k \in 1 .. Total : k \in 0 .. Total /\ k # 0 BY <1>4
  <2> QED BY <1>11, <2>1
<1>13. \A k \in 0 .. Total : loop[k] \in SearchState
  <2>1. ASSUME NEW k \in 1 .. Total, loop[k - 1] \in SearchState PROVE loop[k] \in SearchState
    BY <1>12, <2>1, SearchTurnType
  <2> QED BY <1>1, <1>4, <1>12, <2>1, RecursionType
<1> QED BY <1>10, <1>11, <1>12, <1>13

\* What the search knows after k turns without a break: it stands at its k-th bit, has
\* counted the clear bits before it as far as they go, and was at no end of a block yet.
Searching(n, k, l) ==
  /\ l.wordnum * WordBits + l.bitnum = Visited(k)
  /\ l.tmp * WordBits + l.bitnum = k
  /\ l.count <= n /\ l.count <= k /\ l.count <= Visited(k)
  /\ \A j \in Visited(k) - l.count .. Visited(k) - 1 : j \notin usedStatus
  /\ l.count = k \/ l.count = Visited(k) \/ Visited(k) - l.count - 1 \in usedStatus
  /\ l.count > 0 => l.start = Visited(k) - l.count + 1
  /\ \A i \in 0 .. k - 1 : ~Counted(n, i)

\* ... and after a break.
Broken(n, l) ==
  \E i \in Bits :
    /\ Reaches(n, i)
    /\ l.start = Visited(i) - n + 1
    /\ l.wordnum = Visited(i) \div WordBits

SearchInv(n, k, l) == IF l.found THEN Broken(n, l) ELSE Searching(n, k, l)

\* The count that the loop keeps tells whether the search may stop at the bit it is at.
LEMMA CountedNow ==
  ASSUME BufTypeOK, NEW n \in Nat, NEW k \in Bits, NEW c \in Nat,
         c <= n, c <= k, c <= Visited(k), Visited(k) \in Bits,
         \A j \in Visited(k) - c .. Visited(k) - 1 : j \notin usedStatus,
         c = k \/ c = Visited(k) \/ Visited(k) - c - 1 \in usedStatus
  PROVE  Counted(n, k) = (Visited(k) \notin usedStatus /\ c = n)
<1> DEFINE v == Visited(k)
<1>1. v \in Nat /\ k \in Nat BY ArraySize DEF Bits
<1>2. Counted(n, k) = (k >= n /\ v >= n /\ \A j \in v - n .. v : j \notin usedStatus)
  BY Zenon DEF Counted
<1> HIDE DEF v
<1>3. CASE v \in usedStatus
  <2>1. v \in v - n .. v BY <1>1
  <2> QED BY <1>2, <1>3, <2>1 DEF v
<1>4. CASE v \notin usedStatus /\ c = n
  <2>1. \A j \in v - n .. v : j = v \/ j \in v - c .. v - 1 BY <1>1, <1>4
  <2>2. k >= n /\ v >= n BY <1>4 DEF v
  <2>3. \A j \in v - n .. v : j \notin usedStatus BY <1>4, <2>1 DEF v
  <2>4. Counted(n, k) BY <1>2, <2>2, <2>3
  <2> QED BY <1>4, <2>4 DEF v
<1>5. CASE c < n
  <2>1. ASSUME Counted(n, k) PROVE FALSE
    <3>1. k >= n /\ v >= n BY <1>2, <2>1
    <3>2. v - c - 1 \in usedStatus BY <1>1, <1>5, <3>1 DEF v
    <3>3. v - c - 1 \in v - n .. v BY <1>1, <1>5
    <3> QED BY <1>2, <2>1, <3>2, <3>3
  <2>2. c # n BY <1>5
  <2> QED BY <1>2, <2>1, <2>2
<1> QED BY <1>3, <1>4, <1>5 DEF v

\* A turn at the k-th bit keeps the invariant.
LEMMA SearchTurnKeeps ==
  ASSUME BufTypeOK, NEW n \in Nat, NEW k \in Bits, NEW l \in SearchState,
         ~l.found, Searching(n, k, l)
  PROVE  SearchInv(n, k + 1, SearchTurn(n, l))
<1> DEFINE v     == Visited(k)
           clear == l.bitnum \notin Word(l.wordnum)
           cnt   == IF clear THEN l.count + 1 ELSE 0
           st    == IF clear /\ l.count = 0 THEN l.wordnum * WordBits + l.bitnum + 1
                    ELSE l.start
           last  == l.bitnum + 1 = WordBits
           wraps == last /\ l.wordnum + 1 = statusSize
           next  == Onwards(l, cnt, st)
<1>1. /\ l.wordnum \in Nat /\ l.wordnum < statusSize /\ l.bitnum \in 0 .. WordBits - 1
      /\ l.count \in Nat /\ l.start \in Int /\ l.tmp \in Nat
  BY ArraySize DEF SearchState
<1>2. k \in Nat /\ k < Total /\ v \in Nat /\ v < Total
  <2>1. k \in Nat /\ k < Total BY ArraySize DEF Bits
  <2>2. v \in Bits BY <2>1, NextVisited
  <2> QED BY <2>1, <2>2, ArraySize DEF Bits
<1>3. /\ l.wordnum * WordBits + l.bitnum = v /\ l.tmp * WordBits + l.bitnum = k
      /\ l.count <= n /\ l.count <= k /\ l.count <= v
      /\ \A j \in v - l.count .. v - 1 : j \notin usedStatus
      /\ l.count = k \/ l.count = v \/ v - l.count - 1 \in usedStatus
      /\ l.count > 0 => l.start = v - l.count + 1
      /\ \A i \in 0 .. k - 1 : ~Counted(n, i)
  BY Zenon DEF Searching
<1>4. statusSize \in Nat \ {0} /\ WordBits \in Nat \ {0} /\ Total \in Nat \ {0}
  BY ArraySize, DmaBufAssumption
<1>5. l.tmp < statusSize
  <2>1. l.tmp >= statusSize => k >= Total BY <1>1, <1>3, <1>4, PlaceOfBit DEF Total
  <2> QED BY <1>1, <1>2, <1>4, <2>1
<1>6. clear = (v \notin usedStatus)
  BY <1>1, <1>3 DEF Word
<1>7. Counted(n, k) = (v \notin usedStatus /\ l.count = n)
  <2>1. v \in Bits BY <1>2, <1>4, SMT DEF Bits
  <2> QED BY <1>1, <1>3, <2>1, CountedNow
<1>8. wraps = (v + 1 = Total)
  <2>1. (l.wordnum + 1) * WordBits = v + (WordBits - l.bitnum)
    <3>1. \A w \in Nat : (w + 1) * WordBits = w * WordBits + WordBits BY <1>4, SMT
    <3> QED BY <1>1, <1>2, <1>3, <1>4, <3>1
  <2>2. CASE l.wordnum + 1 = statusSize
    <3>1. Total = v + (WordBits - l.bitnum) BY <2>1, <2>2 DEF Total
    <3> QED BY <1>1, <1>2, <1>4, <2>2, <3>1
  <2>3. CASE l.wordnum + 1 # statusSize
    <3>1. l.wordnum + 1 \in Nat /\ l.wordnum + 1 < statusSize /\ 0 \in 0 .. WordBits - 1
      BY <1>1, <1>4, <2>3
    <3>2. (l.wordnum + 1) * WordBits + 0 < statusSize * WordBits
      BY <1>4, <3>1, PlaceOfBit
    <3>3. v + (WordBits - l.bitnum) < Total BY <1>1, <1>2, <1>4, <2>1, <3>2 DEF Total
    <3> QED BY <1>1, <1>2, <1>4, <2>3, <3>3
  <2> QED BY <2>2, <2>3
<1>9. v \div WordBits = l.wordnum
  <2>1. (l.wordnum * WordBits + l.bitnum) \div WordBits = l.wordnum
    BY <1>1, PlaceOfBit
  <2> QED BY <1>3, <2>1
<1>10. Visited(k + 1) = IF v + 1 = Total THEN 0 ELSE v + 1
  BY <1>2, NextVisited
<1>11. st = IF v \notin usedStatus /\ l.count = 0 THEN v + 1 ELSE l.start
  BY <1>3, <1>6
<1>12. cnt = IF v \notin usedStatus THEN l.count + 1 ELSE 0
  BY <1>6
<1>13. SearchTurn(n, l) =
         IF l.found \/ l.tmp >= statusSize THEN l
         ELSE IF cnt = n + 1 THEN [l EXCEPT !.count = cnt, !.start = st, !.found = TRUE]
         ELSE Onwards(l, cnt, st)
  BY Zenon DEF SearchTurn
<1>14. SearchTurn(n, l) = IF cnt = n + 1
                          THEN [l EXCEPT !.count = cnt, !.start = st, !.found = TRUE]
                          ELSE next
  BY <1>1, <1>4, <1>5, <1>13
<1>15. st \in Int /\ cnt \in Nat BY <1>1, <1>2, <1>11, <1>12
<1> HIDE DEF cnt, st
<1>16. CASE cnt = n + 1
  <2> DEFINE r == [l EXCEPT !.count = cnt, !.start = st, !.found = TRUE]
  <2>1. v \notin usedStatus /\ l.count = n BY <1>1, <1>12, <1>16
  <2>2. st = v - n + 1 BY <1>1, <1>2, <1>3, <1>11, <2>1
  <2>3. r.found /\ r.start = v - n + 1 /\ r.wordnum = v \div WordBits
    BY <1>9, <2>2 DEF SearchState
  <2>4. Reaches(n, k)
    <3>1. Counted(n, k) BY <1>7, <2>1
    <3> QED BY <1>3, <3>1 DEF Reaches
  <2>5. SearchTurn(n, l) = r BY <1>14, <1>16
  <2> HIDE DEF r
  <2>6. Broken(n, r) BY <2>3, <2>4 DEF Broken
  <2> QED BY <2>3, <2>5, <2>6 DEF SearchInv
<1>17. CASE cnt # n + 1
  <2> DEFINE w == IF wraps THEN 0 ELSE IF last THEN l.wordnum + 1 ELSE l.wordnum
             b == IF last THEN 0 ELSE l.bitnum + 1
             c == IF wraps THEN 0 ELSE cnt
             t == IF last THEN l.tmp + 1 ELSE l.tmp
             u == Visited(k + 1)
  <2>1. next = [wordnum |-> w, bitnum |-> b, count |-> c, start |-> st, tmp |-> t,
                found |-> FALSE]
    BY Zenon DEF Onwards
  <2>2. SearchTurn(n, l) = next BY <1>14, <1>17
  <2>3. u = IF wraps THEN 0 ELSE v + 1 BY <1>8, <1>10
  <2>4. \A p \in Nat : (p + 1) * WordBits = p * WordBits + WordBits BY <1>4, SMT
  <2>5. w * WordBits + b = u
    <3>1. CASE wraps
      <4>1. w = 0 /\ b = 0 /\ u = 0 BY <2>3, <3>1
      <4> QED BY <1>4, <4>1
    <3>2. CASE ~wraps /\ last
      <4>1. w = l.wordnum + 1 /\ b = 0 /\ u = v + 1 BY <2>3, <3>2
      <4>2. w * WordBits = l.wordnum * WordBits + WordBits BY <1>1, <2>4, <4>1
      <4> QED BY <1>1, <1>2, <1>3, <1>4, <3>2, <4>1, <4>2
    <3>3. CASE ~last
      <4>1. w = l.wordnum /\ b = l.bitnum + 1 /\ u = v + 1 BY <2>3, <3>3
      <4> QED BY <1>1, <1>2, <1>3, <1>4, <4>1
    <3> QED BY <3>1, <3>2, <3>3
  <2>6. t * WordBits + b = k + 1
    <3>1. CASE last
      <4>1. t = l.tmp + 1 /\ b = 0 BY <3>1
      <4>2. t * WordBits = l.tmp * WordBits + WordBits BY <1>1, <2>4, <4>1
      <4> QED BY <1>1, <1>2, <1>3, <1>4, <3>1, <4>1, <4>2
    <3>2. CASE ~last
      <4>1. t = l.tmp /\ b = l.bitnum + 1 BY <3>2
      <4> QED BY <1>1, <1>2, <1>3, <1>4, <4>1
    <3> QED BY <3>1, <3>2
  <2>7. c \in Nat /\ c <= n /\ c <= k + 1 /\ c <= u
    BY <1>1, <1>2, <1>3, <1>12, <1>15, <1>17, <2>3
  <2>8. \A j \in u - c .. u - 1 : j \notin usedStatus
    <3> SUFFICES ASSUME NEW j \in u - c .. u - 1 PROVE j \notin usedStatus OBVIOUS
    <3>1. ~wraps
      <4>1. CASE wraps
        <5>1. c = 0 /\ u = 0 BY <2>3, <4>1
        <5> QED BY <5>1
      <4> QED BY <4>1
    <3>2. u = v + 1 /\ c = cnt BY <2>3, <3>1
    <3>3. v \notin usedStatus /\ c = l.count + 1 BY <1>1, <1>2, <1>12, <3>2
    <3>4. j = v \/ j \in v - l.count .. v - 1 BY <1>1, <1>2, <3>2, <3>3
    <3> QED BY <1>3, <3>3, <3>4
  <2>9. c = k + 1 \/ c = u \/ u - c - 1 \in usedStatus
    <3>1. CASE wraps
      <4>1. c = 0 /\ u = 0 BY <2>3, <3>1
      <4> QED BY <4>1
    <3>2. CASE ~wraps /\ v \in usedStatus
      <4>1. c = 0 /\ u - c - 1 = v BY <1>2, <1>12, <2>3, <3>2
      <4> QED BY <3>2, <4>1
    <3>3. CASE ~wraps /\ v \notin usedStatus
      <4>1. c = l.count + 1 /\ u = v + 1 BY <1>12, <2>3, <3>3
      <4>2. u - c - 1 = v - l.count - 1 BY <1>1, <1>2, <4>1
      <4> QED BY <1>3, <4>1, <4>2
    <3> QED BY <3>1, <3>2, <3>3
  <2>10. c > 0 => st = u - c + 1
    BY <1>1, <1>2, <1>3, <1>11, <1>12, <2>3
  <2>11. \A i \in 0 .. (k + 1) - 1 : ~Counted(n, i)
    <3>1. ~Counted(n, k) BY <1>1, <1>7, <1>12, <1>17
    <3>2. \A i \in 0 .. (k + 1) - 1 : i = k \/ i \in 0 .. k - 1 BY <1>2
    <3> QED BY <1>3, <3>1, <3>2
  <2> HIDE DEF w, b, c, t, u
  <2>12. /\ next.wordnum = w /\ next.bitnum = b /\ next.count = c /\ next.start = st
         /\ next.tmp = t /\ next.found = FALSE
    BY <2>1
  <2> HIDE DEF next
  <2>13. Searching(n, k + 1, next)
    BY <2>5, <2>6, <2>7, <2>8, <2>9, <2>10, <2>11, <2>12, Zenon DEF Searching, u
  <2> QED BY <2>2, <2>12, <2>13 DEF SearchInv
<1> QED BY <1>16, <1>17

\* After its last turn the loop has either found the first bit that the search reaches or
\* counted at none.
LEMMA SearchEnds ==
  ASSUME BufTypeOK, NEW n \in Nat
  PROVE  Search(n) \in SearchState /\ SearchInv(n, Total, Search(n))
<1>1. PICK loop \in [0 .. Total -> SearchState] :
        /\ Search(n) = loop[Total] /\ loop[0] = SearchBegins
        /\ \A k \in 1 .. Total : loop[k] = SearchTurn(n, loop[k - 1])
  BY SearchTurns
<1>2. Total \in Nat \ {0} BY ArraySize
<1> DEFINE T == {k \in Nat : k <= Total => SearchInv(n, k, loop[k])}
<1>3. 0 \in T
  <2> DEFINE from == searchPos * WordBits
  <2>1. from \in Nat /\ from < Total BY SearchStart
  <2>2. Visited(0) = from
    <3>1. from + 0 = from BY <2>1
    <3>2. from % Total = from BY <1>2, <2>1, VisitedValue
    <3>3. Visited(0) = (from + 0) % Total BY DEF Visited
    <3> QED BY <3>1, <3>2, <3>3
  <2>3. from + 0 = from /\ 0 * WordBits + 0 = 0 BY <2>1, DmaBufAssumption
  <2> DEFINE l == SearchBegins
  <2>4. /\ l.wordnum * WordBits = from /\ l.bitnum = 0 /\ l.count = 0 /\ l.tmp = 0
        /\ l.found = FALSE
    BY DEF SearchBegins
  <2> HIDE DEF from, l
  <2>5. Searching(n, 0, l)
    BY <2>1, <2>2, <2>3, <2>4 DEF Searching
  <2> QED BY <1>1, <2>4, <2>5 DEF SearchInv, l
<1>4. ASSUME NEW k \in Nat, k \in T PROVE k + 1 \in T
  <2> SUFFICES ASSUME k + 1 <= Total PROVE SearchInv(n, k + 1, loop[k + 1])
    OBVIOUS
  <2>1. PICK m \in 1 .. Total : m = k + 1 BY <1>2
  <2>2. k \in Bits /\ k \in 0 .. Total /\ m - 1 = k /\ k <= Total
    BY <1>2, <2>1 DEF Bits
  <2>3. loop[k] \in SearchState /\ SearchInv(n, k, loop[k]) BY <1>1, <1>4, <2>2
  <2>4. loop[k + 1] = SearchTurn(n, loop[k]) BY <1>1, <2>1, <2>2
  <2>5. CASE loop[k].found
    <3>1. loop[k + 1] = loop[k] BY <2>4, <2>5 DEF SearchTurn
    <3> QED BY <2>3, <2>5, <3>1 DEF SearchInv
  <2>6. CASE ~loop[k].found
    <3>1. Searching(n, k, loop[k]) BY <2>3, <2>6 DEF SearchInv
    <3> QED BY <2>2, <2>3, <2>4, <2>6, <3>1, SearchTurnKeeps
  <2> QED BY <2>5, <2>6
<1>5. Nat \subseteq T
  <2> HIDE DEF T
  <2> QED BY <1>3, <1>4, SetInduction
<1>6. SearchInv(n, Total, loop[Total]) BY <1>2, <1>5
<1> QED BY <1>1, <1>2, <1>6

\* The search stops where CyU3PDmaBufferAlloc of the model takes its block.
LEMMA SearchIsReached ==
  ASSUME BufTypeOK PROVE SearchAgrees
<1> SUFFICES ASSUME NEW n \in Sizes
             PROVE  /\ Search(n).found = (\E i \in Bits : Reaches(n, i))
                    /\ \A i \in Bits : Reaches(n, i) =>
                         /\ Search(n).start = Visited(i) - n + 1
                         /\ Search(n).wordnum = Visited(i) \div WordBits
  BY Zenon DEF SearchAgrees
<1> DEFINE r == Search(n)
<1>1. n \in Nat BY DmaBufAssumption
<1>2. r \in SearchState /\ SearchInv(n, Total, r) BY <1>1, SearchEnds
<1>3. r.found \in BOOLEAN BY <1>2 DEF SearchState
<1> HIDE DEF r
<1>4. CASE r.found
  <2>1. PICK j \in Bits : /\ Reaches(n, j)
                          /\ r.start = Visited(j) - n + 1
                          /\ r.wordnum = Visited(j) \div WordBits
    BY <1>2, <1>4 DEF SearchInv, Broken
  <2>2. ASSUME NEW i \in Bits, Reaches(n, i) PROVE i = j
    <3>1. i \in Nat /\ j \in Nat BY ArraySize DEF Bits
    <3>2. ~(j < i) /\ ~(i < j)
      <4>1. j < i => j \in 0 .. i - 1 BY <3>1
      <4>2. i < j => i \in 0 .. j - 1 BY <3>1
      <4> QED BY <2>1, <2>2, <4>1, <4>2 DEF Reaches
    <3> QED BY <3>1, <3>2
  <2>3. \A i \in Bits : Reaches(n, i) =>
          r.start = Visited(i) - n + 1 /\ r.wordnum = Visited(i) \div WordBits
    BY <2>1, <2>2
  <2>4. r.found = (\E i \in Bits : Reaches(n, i)) BY Zenon, <1>3, <1>4, <2>1
  <2> QED BY Zenon, <2>3, <2>4 DEF r
<1>5. CASE ~r.found
  <2>1. \A i \in 0 .. Total - 1 : ~Counted(n, i)
    BY <1>2, <1>5 DEF SearchInv, Searching
  <2>2. \A i \in Bits : ~Reaches(n, i) BY <2>1 DEF Reaches, Bits
  <2>3. r.found = (\E i \in Bits : Reaches(n, i)) BY Zenon, <1>3, <1>5, <2>2
  <2> QED BY Zenon, <2>2, <2>3 DEF r
<1> QED BY <1>4, <1>5

-----------------------------------------------------------------------------
(* The mask loop, turn by turn. *)

MaskState ==
  [wordnum : Nat, numBits : Int, startbit : Int, endbit : Int, changed : SUBSET Int]

\* With m bits of p .. p + n - 1 left to do, those before them are changed, and the mask
\* covers the next of them up to the end of their word.
MaskInv(p, n, k, l) ==
  /\ l.numBits >= 0 /\ l.numBits <= n - k
  /\ l.changed = p .. p + n - l.numBits - 1
  /\ l.numBits > 0 =>
       /\ l.wordnum * WordBits + l.startbit = p + n - l.numBits
       /\ l.startbit < l.endbit /\ l.endbit <= WordBits
       /\ l.endbit - l.startbit <= l.numBits
       /\ l.endbit = WordBits \/ l.endbit - l.startbit = l.numBits

\* A turn stays among the values of the local variables.
LEMMA MaskTurnType ==
  ASSUME NEW l \in MaskState PROVE MaskTurn(l) \in MaskState
<1> DEFINE left == l.numBits - (l.endbit - l.startbit)
           e == IF left >= WordBits THEN WordBits ELSE left
           c == l.changed \cup {l.wordnum * WordBits + b : b \in l.startbit .. l.endbit - 1}
<1>1. /\ l.wordnum \in Nat /\ l.numBits \in Int /\ l.startbit \in Int /\ l.endbit \in Int
      /\ l.changed \in SUBSET Int
  BY DEF MaskState
<1>2. left \in Int /\ e \in Int BY <1>1, DmaBufAssumption
<1>3. c \in SUBSET Int
  <2>1. l.wordnum * WordBits \in Int BY <1>1, DmaBufAssumption, SMT
  <2>2. \A b \in l.startbit .. l.endbit - 1 : l.wordnum * WordBits + b \in Int
    BY <1>1, <2>1
  <2> QED BY <1>1, <2>2
<1>4. MaskTurn(l) = IF l.numBits = 0 THEN l
                    ELSE [wordnum |-> l.wordnum + 1, numBits |-> left, startbit |-> 0,
                          endbit |-> e, changed |-> c]
  BY Zenon DEF MaskTurn
<1> HIDE DEF left, e, c
<1> QED BY <1>1, <1>2, <1>3, <1>4 DEF MaskState

\* The loop is the sequence of its turns.
LEMMA MaskTurns ==
  ASSUME NEW p \in Nat, NEW n \in Nat
  PROVE  \E loop \in [0 .. n -> MaskState] :
           /\ SetStatusBits(p, n) = loop[n].changed /\ loop[0] = FirstMask(p, n)
           /\ \A k \in 1 .. n : loop[k] = MaskTurn(loop[k - 1])
<1> DEFINE first == FirstMask(p, n)
           IsLoop(g) == g = [k \in 0 .. n |-> IF k = 0 THEN FirstMask(p, n)
                                              ELSE MaskTurn(g[k - 1])]
           turn == [l \in MaskState |-> MaskTurn(l)]
           turns == [k \in 1 .. n |-> turn]
           loop == CHOOSE g : IsLoop(g)
<1>1. first \in MaskState
  <2>1. p \div WordBits \in Nat /\ p % WordBits \in Int BY DmaBufAssumption, SMT
  <2> QED BY <2>1, DmaBufAssumption DEF FirstMask, MaskState
<1>2. turn \in [MaskState -> MaskState]
  BY MaskTurnType
<1> HIDE DEF turn
<1>3. turns \in StepsOn(MaskState, n) BY <1>2 DEF StepsOn
<1> HIDE DEF turns
<1>5. Runs(MaskState, n, first, turns) # {} BY <1>1, <1>3, Recursion
<1>6. PICK g \in [0 .. n -> MaskState] :
        g[0] = first /\ \A k \in 1 .. n : g[k] = turns[k][g[k - 1]]
  BY <1>5 DEF Runs
<1>7. ASSUME NEW k \in 1 .. n PROVE g[k] = MaskTurn(g[k - 1])
  <2>1. k - 1 \in 0 .. n OBVIOUS
  <2>2. turns[k] = turn BY DEF turns
  <2>3. turn[g[k - 1]] = MaskTurn(g[k - 1]) BY <1>6, <2>1 DEF turn
  <2> QED BY <1>6, <2>2, <2>3
<1>8. IsLoop(g)
  <2> DEFINE h == [k \in 0 .. n |-> IF k = 0 THEN FirstMask(p, n) ELSE MaskTurn(g[k - 1])]
  <2>1. \A k \in 0 .. n : k # 0 => k \in 1 .. n OBVIOUS
  <2>2. \A k \in 0 .. n : h[k] = g[k] BY <1>6, <1>7, <2>1, Zenon
  <2>3. h = [k \in 0 .. n |-> g[k]] BY <2>2
  <2>4. g = [k \in 0 .. n |-> g[k]] BY <1>6
  <2> QED BY <2>3, <2>4
<1>9. IsLoop(loop)
  <2>1. \E f : IsLoop(f) BY <1>8
  <2> QED BY <2>1, Zenon
<1>10. SetStatusBits(p, n) = loop[n].changed BY Zenon DEF SetStatusBits
<1> HIDE DEF loop
<1>11. /\ \A k \in 0 .. n :
            loop[k] = IF k = 0 THEN FirstMask(p, n) ELSE MaskTurn(loop[k - 1])
       /\ DOMAIN loop = 0 .. n /\ loop = [k \in DOMAIN loop |-> loop[k]]
  BY <1>9
<1>12. loop[0] = first /\ \A k \in 1 .. n : loop[k] = MaskTurn(loop[k - 1])
  <2>1. 0 \in 0 .. n /\ \A k \in 1 .. n : k \in 0 .. n /\ k # 0 OBVIOUS
  <2> QED BY <1>11, <2>1
<1>13. \A k \in 0 .. n : loop[k] \in MaskState
  <2>1. ASSUME NEW k \in 1 .. n, loop[k - 1] \in MaskState PROVE loop[k] \in MaskState
    BY <1>12, <2>1, MaskTurnType
  <2> HIDE DEF first
  <2> QED BY <1>1, <1>12, <2>1, RecursionType
<1> QED BY <1>10, <1>11, <1>12, <1>13

\* A turn with bits left to do keeps the invariant.
LEMMA MaskTurnKeeps ==
  ASSUME NEW p \in Nat, NEW n \in Nat, NEW k \in Nat, NEW l \in MaskState,
         l.numBits # 0, MaskInv(p, n, k, l)
  PROVE  MaskInv(p, n, k + 1, MaskTurn(l))
<1> DEFINE left == l.numBits - (l.endbit - l.startbit)
           e == IF left >= WordBits THEN WordBits ELSE left
           c == l.changed \cup {l.wordnum * WordBits + b : b \in l.startbit .. l.endbit - 1}
           r == MaskTurn(l)
<1>1. /\ l.wordnum \in Nat /\ l.numBits \in Int /\ l.startbit \in Int /\ l.endbit \in Int
      /\ WordBits \in Nat \ {0}
  BY DmaBufAssumption DEF MaskState
<1>2. /\ l.numBits > 0 /\ l.numBits <= n - k
      /\ l.startbit < l.endbit /\ l.endbit <= WordBits
      /\ l.endbit - l.startbit <= l.numBits
      /\ l.endbit = WordBits \/ l.endbit - l.startbit = l.numBits
  BY <1>1 DEF MaskInv
<1>3. r = [wordnum |-> l.wordnum + 1, numBits |-> left, startbit |-> 0,
           endbit |-> e, changed |-> c]
  BY Zenon DEF MaskTurn
<1> HIDE DEF r
<1>4. PICK at \in Int : at = l.wordnum * WordBits
  <2>1. l.wordnum * WordBits \in Int BY <1>1, SMT
  <2> QED BY <2>1
<1>5. at + l.startbit = p + n - l.numBits
  BY <1>1, <1>2, <1>4 DEF MaskInv
<1>6. l.changed = p .. p + n - l.numBits - 1
  BY <1>1, <1>2 DEF MaskInv
<1>7. left \in Int /\ left >= 0 /\ left <= n - (k + 1) BY <1>1, <1>2
<1>8. c = p .. p + n - left - 1
  <2>1. \A j \in Int : j \in {at + b : b \in l.startbit .. l.endbit - 1}
                       <=> at + l.startbit <= j /\ j < at + l.endbit
    <3> SUFFICES ASSUME NEW j \in Int
                 PROVE  (\E b \in l.startbit .. l.endbit - 1 : j = at + b)
                        <=> at + l.startbit <= j /\ j < at + l.endbit
      OBVIOUS
    <3>1. at + l.startbit <= j /\ j < at + l.endbit =>
            j - at \in l.startbit .. l.endbit - 1 /\ j = at + (j - at)
      BY <1>1
    <3>2. \A b \in l.startbit .. l.endbit - 1 :
            j = at + b => at + l.startbit <= j /\ j < at + l.endbit
      BY <1>1
    <3> QED BY <3>1, <3>2
  <2>2. {at + b : b \in l.startbit .. l.endbit - 1} \subseteq Int BY <1>1
  <2> DEFINE new == {at + b : b \in l.startbit .. l.endbit - 1}
  <2>3. c = l.changed \cup new BY <1>4
  <2> HIDE DEF new, c
  <2>4. \A j \in Int : j \in new <=> p + n - l.numBits <= j /\ j < p + n - left
    BY <1>1, <1>2, <1>5, <2>1 DEF new
  <2>5. new \subseteq Int BY <2>2 DEF new
  <2>6. \A j \in Int : j \in l.changed <=> p <= j /\ j < p + n - l.numBits
    BY <1>1, <1>6
  <2>7. l.changed \subseteq Int BY <1>1, <1>6
  <2>8. \A j \in Int : j \in c <=> p <= j /\ j < p + n - left
    <3>1. 0 < l.numBits /\ left < l.numBits /\ p <= p + n - l.numBits BY <1>1, <1>2, <1>7
    <3> HIDE DEF left
    <3> QED BY <1>1, <1>7, <2>3, <2>4, <2>6, <3>1
  <2>9. c \subseteq Int BY <2>3, <2>5, <2>7
  <2>10. \A j \in Int : j \in p .. p + n - left - 1 <=> p <= j /\ j < p + n - left
    <3> HIDE DEF left
    <3> QED BY <1>7
  <2>11. p .. p + n - left - 1 \subseteq Int OBVIOUS
  <2> HIDE DEF left
  <2> QED BY <2>8, <2>9, <2>10, <2>11
<1>9. left > 0 => /\ (l.wordnum + 1) * WordBits + 0 = p + n - left
                  /\ 0 < e /\ e <= WordBits /\ e - 0 <= left
                  /\ e = WordBits \/ e - 0 = left
  <2>1. (l.wordnum + 1) * WordBits = at + WordBits
    <3>1. \A w \in Nat : (w + 1) * WordBits = w * WordBits + WordBits BY <1>1, SMT
    <3> QED BY <1>1, <1>4, <3>1
  <2>2. left > 0 => at + WordBits + 0 = p + n - left BY <1>1, <1>2, <1>7, <1>5
  <2>3. left > 0 => /\ 0 < e /\ e <= WordBits /\ e - 0 <= left
                    /\ e = WordBits \/ e - 0 = left
    <3> HIDE DEF left
    <3> QED BY <1>1, <1>7
  <2> HIDE DEF e, left
  <2> QED BY Zenon, <2>1, <2>2, <2>3
<1> HIDE DEF left, e, c
<1>10. /\ r.wordnum = l.wordnum + 1 /\ r.numBits = left /\ r.startbit = 0
      /\ r.endbit = e /\ r.changed = c
  BY <1>3
<1>11. MaskInv(p, n, k + 1, r)
  BY <1>7, <1>8, <1>9, <1>10, Zenon DEF MaskInv
<1> QED BY <1>11 DEF r

\* The masks change the bits of the range and no others.
LEMMA MasksCover ==
  ASSUME NEW p \in Nat, NEW n \in Nat \ {0} PROVE SetStatusBits(p, n) = p .. p + n - 1
<1>1. PICK loop \in [0 .. n -> MaskState] :
        /\ SetStatusBits(p, n) = loop[n].changed /\ loop[0] = FirstMask(p, n)
        /\ \A k \in 1 .. n : loop[k] = MaskTurn(loop[k - 1])
  BY MaskTurns
<1> DEFINE T == {k \in Nat : k <= n => MaskInv(p, n, k, loop[k])}
<1>2. 0 \in T
  <2> DEFINE l == FirstMask(p, n)
             s == p % WordBits
             w == p \div WordBits
             e == IF s + n < WordBits THEN s + n ELSE WordBits
  <2>1. s \in 0 .. WordBits - 1 /\ w \in Nat /\ p = w * WordBits + s
    BY DmaBufAssumption, SMT
  <2>2. l = [wordnum |-> w, numBits |-> n, startbit |-> s, endbit |-> e, changed |-> {}]
    BY Zenon DEF FirstMask
  <2> HIDE DEF l, s, w
  <2>3. p .. p + n - n - 1 = {} OBVIOUS
  <2>4. s < e /\ e <= WordBits /\ e - s <= n /\ (e = WordBits \/ e - s = n)
    BY <2>1, DmaBufAssumption
  <2> HIDE DEF e
  <2>5. MaskInv(p, n, 0, l) BY <2>1, <2>2, <2>3, <2>4 DEF MaskInv
  <2> QED BY <1>1, <2>5 DEF l
<1>3. ASSUME NEW k \in Nat, k \in T PROVE k + 1 \in T
  <2> SUFFICES ASSUME k + 1 <= n PROVE MaskInv(p, n, k + 1, loop[k + 1])
    OBVIOUS
  <2>1. PICK m \in 1 .. n : m = k + 1 OBVIOUS
  <2>2. k \in 0 .. n /\ m - 1 = k /\ k <= n BY <2>1
  <2>3. loop[k] \in MaskState /\ MaskInv(p, n, k, loop[k]) BY <1>1, <1>3, <2>2
  <2>4. loop[k + 1] = MaskTurn(loop[k]) BY <1>1, <2>1, <2>2
  <2>5. CASE loop[k].numBits = 0
    <3>1. loop[k + 1] = loop[k] BY <2>4, <2>5 DEF MaskTurn
    <3> QED BY <2>3, <2>5, <3>1 DEF MaskInv
  <2>6. CASE loop[k].numBits # 0
    BY <2>3, <2>4, <2>6, MaskTurnKeeps
  <2> QED BY <2>5, <2>6
<1>4. Nat \subseteq T
  <2> HIDE DEF T
  <2> QED BY <1>2, <1>3, SetInduction
<1>5. MaskInv(p, n, n, loop[n]) /\ loop[n] \in MaskState BY <1>1, <1>4
<1>6. loop[n].numBits = 0 /\ loop[n].changed = p .. p + n - loop[n].numBits - 1
  BY <1>5 DEF MaskInv, MaskState
<1>7. p + n - 0 - 1 = p + n - 1 OBVIOUS
<1> QED BY <1>1, <1>6, <1>7

-----------------------------------------------------------------------------
(* The theorems. *)

\* The blocks handed out are blocks of the status array (cyfxtx.c:852-1079).
THEOREM BlocksTyped == BufSpec => []BufTypeOK
PROOF
  <1>1. BufIInv => BufTypeOK
    BY DEF BufIInv
  <1> QED
    BY <1>1, BufInvariant, PTL

\* The status array accounts for the blocks, line by line.
THEOREM BitsAccountForBlocks == BufSpec => []BitsMatchBlocks
PROOF
  <1>1. BufIInv => BitsMatchBlocks
    BY DEF BufIInv
  <1> QED
    BY <1>1, BufInvariant, PTL

\* Every block stays between two clear bits, which is what makes "the last bit
\* is left as zero" (cyfxtx.c:917-920) safe.
THEOREM BlocksEndClear == BufSpec => []ClearEnds
PROOF
  <1>1. BufIInv => ClearEnds
    BY DEF BufIInv
  <1> QED
    BY <1>1, BufInvariant, PTL

\* No line is handed out twice.
THEOREM NeverTwice == BufSpec => []NoOverlap
PROOF
  <1> QED
    BY Apart, BufInvariant, PTL

\* Blocks stay in the heap when it fills its last status word, and also when it
\* fills at least half of it: the mask of CyU3PDmaBufferInit (cyfxtx.c:731-738)
\* is wrong only for less.
THEOREM HeapNotExceeded ==
  ASSUME Lines % WordBits = 0 \/ 2 * (Lines % WordBits) >= WordBits
  PROVE  BufSpec => []BlocksInHeap
PROOF
  <1>1. BufIInv => BlocksInHeap
    <2> SUFFICES ASSUME BufIInv, NEW b \in blocks
                 PROVE  Extent(b) \subseteq 0 .. Lines - 1
      BY DEF BlocksInHeap
    <2> DEFINE r == Lines % WordBits
               q == Lines \div WordBits
    <2>1. /\ b.start \in Nat /\ b.lines \in Nat /\ b.lines >= 2
          /\ b.start + b.lines - 1 < Total
      BY BlockType, ArraySize, SMT DEF BufIInv, ClearEnds, Bits
    <2>2. b.start + b.lines - 1 \notin InitBits
      BY DEF BufIInv, ClearEnds, BitsMatchBlocks
    <2>3. /\ r \in 0 .. WordBits - 1 /\ q \in Nat
          /\ Lines = q * WordBits + r
      BY DmaBufAssumption, SMT
    <2>4. b.start + b.lines - 1 < Lines
      <3>1. CASE r = 0
        <4>1. Lines + WordBits - 1 = q * WordBits + (WordBits - 1)
          BY <2>3, <3>1, DmaBufAssumption, SMT
        <4>2. statusSize * WordBits <= Lines + WordBits - 1
          BY DmaBufAssumption, SMT DEF statusSize
        <4>3. \A s, t \in Nat, w \in Nat \ {0} : s >= t + 1 => s * w >= t * w + w
          BY SMT
        <4>4. ~ (statusSize >= q + 1)
          BY <4>1, <4>2, <4>3, <2>3, ArraySize, DmaBufAssumption, SMT
        <4>5. \A s, t \in Nat, w \in Nat : s <= t => s * w <= t * w
          BY SMT
        <4>6. statusSize * WordBits <= q * WordBits
          BY <4>4, <4>5, <2>3, ArraySize, DmaBufAssumption, SMT
        <4> QED
          BY <4>6, <2>1, <2>3, <3>1, ArraySize, DmaBufAssumption, SMT DEF Total
      <3>2. CASE r # 0 /\ 2 * r >= WordBits
        <4>1. statusSize * WordBits <= Lines + WordBits - 1
          BY DmaBufAssumption, SMT DEF statusSize
        <4>2. \A s, t \in Nat, w \in Nat \ {0} : s >= t + 2 => s * w >= t * w + 2 * w
          BY SMT
        <4>3. ~ (statusSize >= q + 2)
          BY <4>1, <4>2, <2>3, ArraySize, DmaBufAssumption, SMT
        <4>4. \A s, t \in Int, w \in Nat : s <= t => s * w <= t * w
          BY SMT
        <4>5. (statusSize - 1) * WordBits <= q * WordBits
          BY <4>3, <4>4, <2>3, ArraySize, DmaBufAssumption, SMT
        <4>6. b.start + b.lines - 1 < (statusSize - 1) * WordBits + (WordBits - r)
          BY <2>1, <2>2, <3>2, <2>3, ArraySize, DmaBufAssumption, SMT DEF InitBits
        <4> QED
          BY <4>5, <4>6, <2>1, <2>3, <3>2, ArraySize, DmaBufAssumption, SMT
      <3> QED
        BY <3>1, <3>2
    <2> QED
      BY <2>1, <2>4, DmaBufAssumption, SMT DEF Extent
  <1> QED
    BY <1>1, BufInvariant, PTL

\* The search misses no run but those that lie across its starting point.
THEOREM SearchFindsUncut == BufSpec => []UncutRunsFound
PROOF
  <1>1. BufIInv => UncutRunsFound
    BY UncutFound DEF BufIInv
  <1> QED
    BY <1>1, BufInvariant, PTL

\* A block that was freed can be allocated again.
THEOREM FreedCanBeAllocated == BufSpec => FreeMakesRoom
PROOF
  <1>1. BufIInv /\ [BufNext]_bufVars
          => [\A b \in blocks : b \notin blocks' => Found(b.lines)']_bufVars
    <2> SUFFICES ASSUME BufIInv, BufNext, NEW b \in blocks, b \notin blocks'
                 PROVE  Found(b.lines)'
      OBVIOUS
    <2>1. ASSUME NEW n \in Sizes, CyU3PDmaBufferAlloc(n) PROVE FALSE
      BY <2>1 DEF CyU3PDmaBufferAlloc
    <2>2. ASSUME NEW c \in blocks, CyU3PDmaBufferFree(c) PROVE b = c
      BY <2>2 DEF CyU3PDmaBufferFree
    <2>3. CyU3PDmaBufferFree(b)
      BY <2>1, <2>2 DEF BufNext
    <2> QED
      BY <2>3, FreedFound
  <1> QED
    BY <1>1, BufInvariant, PTL DEF BufSpec, FreeMakesRoom

\* The search and mask loops of the code are the sets that the other theorems are about.
THEOREM LoopsAgreeHolds == BufSpec => []LoopsAgree
PROOF
  <1>1. BufIInv => MasksAgree
    <2> SUFFICES ASSUME BufIInv, NEW b \in blocks
                 PROVE  SetStatusBits(b.start, b.lines - 1) = b.start .. b.start + b.lines - 2
      BY DEF MasksAgree
    <2>1. b.start \in Nat /\ b.lines - 1 \in Nat \ {0}
      BY BlockType DEF BufIInv
    <2>2. SetStatusBits(b.start, b.lines - 1) = b.start .. b.start + (b.lines - 1) - 1
      BY <2>1, MasksCover
    <2>3. b.start + (b.lines - 1) - 1 = b.start + b.lines - 2
      BY BlockType DEF BufIInv
    <2> QED
      BY <2>2, <2>3
  <1>2. BufIInv => SearchAgrees
    BY SearchIsReached DEF BufIInv
  <1> QED
    BY <1>1, <1>2, BufInvariant, PTL DEF LoopsAgree
=============================================================================
