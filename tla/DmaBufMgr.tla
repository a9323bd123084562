------------------------------ MODULE DmaBufMgr ------------------------------
(***************************************************************************)
(* The DMA buffer allocator of the firmware (fx3/cyfxtx.c).  The heap is   *)
(* an array of cache lines with one status bit each, kept in words of      *)
(* WordBits bits.  A block of n lines has its first n-1 bits set and its   *)
(* last bit clear: the clear bit ends the block when it is freed, so the   *)
(* search asks for one clear bit more than lines and gives out the lines   *)
(* after the first of them.                                                *)
(*                                                                         *)
(* Both operations run under the mutex of the allocator, so each is one    *)
(* step; a call that does not get the mutex changes nothing.               *)
(***************************************************************************)
EXTENDS Integers, FiniteSets

CONSTANTS
  Lines,    \* CY_U3P_BUFFER_HEAP_SIZE / FX3_CACHE_LINE_SZ
  WordBits, \* 32
  Sizes     \* the block sizes asked for, in lines

ASSUME DmaBufAssumption ==
  /\ Lines \in Nat \ {0}
  /\ WordBits \in Nat \ {0}
  /\ Sizes \subseteq Nat \ {0, 1} \* at least two lines, cyfxtx.c:898

VARIABLES
  usedStatus, \* the bits that are set
  searchPos,  \* the word the next search begins with
  blocks      \* the blocks handed out and not freed: what the callers hold

bufVars == <<usedStatus, searchPos, blocks>>

\* Mutant: a word more than the heap has.
statusSize_Long == Lines \div WordBits + 1

statusSize == (Lines + WordBits - 1) \div WordBits
Total      == statusSize * WordBits
Bits       == 0 .. Total - 1

Block    == [start : Bits, lines : Sizes]
Extent(b) == b.start .. b.start + b.lines - 1

-----------------------------------------------------------------------------
\* The bits CyU3PDmaBufferInit sets in the last word when the heap does not
\* fill it: those from tmp upwards.
InitBits ==
  LET r == Lines % WordBits IN
  IF r = 0 THEN {}
  ELSE (statusSize - 1) * WordBits + (WordBits - r) .. Total - 1

BufInit ==
  /\ usedStatus = InitBits
  /\ searchPos = 0
  /\ blocks = {}

\* The i-th bit of the search: it goes through every word once, from searchPos
\* to the end and then from the first word.
Visited(i) == (searchPos * WordBits + i) % Total

\* Mutants: one clear bit less is asked for; the search stops one word early.
Counted_Short(n, i) ==
  /\ i >= n - 1 /\ Visited(i) >= n - 1
  /\ \A k \in Visited(i) - n + 1 .. Visited(i) : k \notin usedStatus

Counted_Early(n, i) ==
  /\ i >= n /\ Visited(i) >= n /\ i < Total - WordBits
  /\ \A k \in Visited(i) - n .. Visited(i) : k \notin usedStatus

\* The search counts n + 1 clear bits in a row when it has reached its i-th
\* bit; the count starts again where the array wraps.
Counted(n, i) ==
  /\ i >= n /\ Visited(i) >= n
  /\ \A k \in Visited(i) - n .. Visited(i) : k \notin usedStatus

Reaches(n, i) == Counted(n, i) /\ \A j \in 0 .. i - 1 : ~Counted(n, j)

CyU3PDmaBufMgrSetStatus(startPos, numBits, value) ==
  LET range == startPos .. startPos + numBits - 1
  IN  usedStatus' = IF value THEN usedStatus \cup range ELSE usedStatus \ range

CyU3PDmaBufferAlloc(n) ==
  \E i \in Bits :
    LET start == Visited(i) - n + 1 IN
    /\ Reaches(n, i)
    /\ CyU3PDmaBufMgrSetStatus(start, n - 1, TRUE)
    /\ searchPos' = Visited(i) \div WordBits
    /\ blocks' = blocks \cup {[start |-> start, lines |-> n]}

\* The number of set bits from s on.
OnesFrom(s) ==
  CHOOSE c \in 0 .. Total - s :
    /\ s .. s + c - 1 \subseteq usedStatus
    /\ s + c \notin usedStatus

\* Mutant: the search position is kept.
Free_KeepPos(b) ==
  /\ b \in blocks
  /\ CyU3PDmaBufMgrSetStatus(b.start, OnesFrom(b.start), FALSE)
  /\ blocks' = blocks \ {b}
  /\ UNCHANGED searchPos

CyU3PDmaBufferFree(b) ==
  /\ b \in blocks
  /\ CyU3PDmaBufMgrSetStatus(b.start, OnesFrom(b.start), FALSE)
  /\ searchPos' = 0
  /\ blocks' = blocks \ {b}

BufNext ==
  \/ \E n \in Sizes : CyU3PDmaBufferAlloc(n)
  \/ \E b \in blocks : CyU3PDmaBufferFree(b)

BufSpec == BufInit /\ [][BufNext]_bufVars

-----------------------------------------------------------------------------
\* The blocks are blocks of the status array.
BufTypeOK ==
  /\ usedStatus \subseteq Bits
  /\ searchPos \in 0 .. statusSize - 1
  /\ blocks \subseteq Block

\* No cache line is handed out twice, although the last line of every block
\* looks free in the status array.
NoOverlap ==
  \A b, c \in blocks : b # c => Extent(b) \cap Extent(c) = {}

\* Every block lies in the heap (cyfxtx.c:731-732: the status bits beyond the
\* valid memory range are marked as unavailable).
BlocksInHeap == \A b \in blocks : Extent(b) \subseteq 0 .. Lines - 1

\* The status array is exactly what the blocks account for: every line of a
\* block but its last, so that freeing leaves no bit behind and clears none of
\* a neighbour.
BitsMatchBlocks ==
  usedStatus = InitBits \cup
               UNION {b.start .. b.start + b.lines - 2 : b \in blocks}

\* Every block is held between two clear bits, the one before it and that of its
\* own last line, and its other bits are not among those marked as unavailable:
\* a free finds the end of its block, and no later block takes its last line.
\* NoOverlap follows from this and BitsMatchBlocks.
ClearEnds ==
  \A b \in blocks :
    /\ b.start - 1 \in Bits \ usedStatus
    /\ b.start + b.lines - 1 \in Bits \ usedStatus
    /\ (b.start .. b.start + b.lines - 2) \cap InitBits = {}

\* The runs of clear bits an allocation of n lines could use, and the outcome
\* of the search.
Room(n)  == {p \in Bits : p + n < Total /\ (p .. p + n) \cap usedStatus = {}}
Found(n) == \E i \in Bits : Counted(n, i)

\* The search finds a block whenever there is one (cyfxtx.c:900: "Search through
\* the status array to find the first block that fits the need").
AllocComplete == \A n \in Sizes : Room(n) # {} => Found(n)

\* The cached position costs an allocation nothing but the runs that lie across
\* it: every other run of clear bits that is long enough is found, also those
\* before the position and those that end with the heap (cyfxtx.c:903-944).
UncutRunsFound ==
  \A n \in Sizes : \A p \in Room(n) :
    ~ (p < searchPos * WordBits /\ searchPos * WordBits <= p + n) => Found(n)

\* Whoever frees a block can allocate one of that size at once, wherever the
\* search stood before: the clear bit before the block is still there, and the
\* next search starts at the top of the heap (cyfxtx.c:1068-1070).
FreeMakesRoom ==
  [][\A b \in blocks : b \notin blocks' => Found(b.lines)']_bufVars
=============================================================================
