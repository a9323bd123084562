------------------------------ MODULE HeapCalls ------------------------------
(***************************************************************************)
(* The list of in-use blocks that both heaps of the firmware keep for      *)
(* their leak checks (fx3/cyfxtx.c), statement by statement, when several  *)
(* threads call the heap.  The code is there twice: in the buffer heap the *)
(* calls hold its mutex, in the driver heap only the byte pool of ThreadX  *)
(* is protected and the list is changed without a lock.  Locked tells the  *)
(* two apart.  A call that does not get the mutex in time does nothing.    *)
(*                                                                         *)
(* The heap itself is the set of places not in use: how one is found is    *)
(* the subject of DmaBufMgr.  Places can overlap, so what a free leaves    *)
(* behind is overwritten when memory goes into a block that begins         *)
(* elsewhere; who still reads the old header then reads anything.  An      *)
(* increment of a counter is one step.                                     *)
(***************************************************************************)
EXTENDS Integers, FiniteSets, SequencesExt

CONSTANTS
  Threads,  \* who calls the heap
  Blocks,   \* the places where it can put a block: where the block begins
  Overlapping, \* the pairs of places that share memory
  Null,     \* the null pointer
  Locked,   \* TRUE in the buffer heap, FALSE in the driver heap
  MaxAllocs \* bound: allocations in a behaviour

ASSUME HeapCallsAssumption ==
  /\ Null \notin Blocks \cup Threads /\ IsFiniteSet(Blocks)
  /\ Overlapping \subseteq SUBSET Blocks
  /\ Locked \in BOOLEAN
  /\ MaxAllocs \in Nat

VARIABLES
  owned,                        \* the blocks the callers hold
  unused,                       \* the blocks of the heap
  prev_blk, next_blk, alloc_id, \* the headers
  signed,                       \* the blocks with both signatures in place
  spoiled,                      \* places whose old header or footer is overwritten
  list,                         \* the head of the in-use list
  allocCnt, freeCnt,
  lock,                         \* the thread with the mutex
  at, blk,                      \* where each thread is, and its block_p (Null when idle)
  alarm,                        \* the threads whose last check has failed
  beside                        \* those with an allocation under way during their check

heapVars  == <<owned, unused, prev_blk, next_blk, alloc_id, signed, spoiled, list,
               allocCnt, freeCnt>>
checkVars == <<alarm, beside>>
callVars  == <<lock, at, blk, checkVars>>
heapCalls == <<heapVars, callVars>>

\* The places a block at b shares memory with.
Overlap(b) == {c \in Blocks \ {b} : {b, c} \in Overlapping}

Pointers == Blocks \cup {Null}

\* The statements of an allocation, a free and a corruption check.
AllocSteps == {"number", "link", "chain", "publish", "footer"}
FreeSteps  == {"count", "unlink_next", "unlink_prev", "unhead", "release"}

-----------------------------------------------------------------------------
Goto(t, from, to) == at[t] = from /\ at' = [at EXCEPT ![t] = to]

MutexGet(t) == IF Locked THEN lock = Null /\ lock' = t ELSE UNCHANGED lock
MutexPut(t) == IF Locked THEN lock' = Null ELSE UNCHANGED lock

\* An allocation: the byte pool, or the search, finds a place for the block.  The checks
\* under way see it.
Take(t, b) ==
  /\ Goto(t, "idle", "number")
  /\ MutexGet(t)
  /\ {b} \cup Overlap(b) \subseteq unused /\ allocCnt < MaxAllocs
  /\ unused' = unused \ {b}
  /\ blk' = [blk EXCEPT ![t] = b]
  /\ beside' = beside \cup {s \in Threads : at[s] = "check"}
  /\ UNCHANGED <<owned, prev_blk, next_blk, alloc_id, signed, spoiled, list, allocCnt,
                 freeCnt, alarm>>

\* alloc_id and alloc_size: whether there is an end signature where the footer of this
\* size goes is up to what lay there before.
Number(t) ==
  /\ Goto(t, "number", "link")
  /\ alloc_id' = [alloc_id EXCEPT ![blk[t]] = allocCnt]
  /\ allocCnt' = allocCnt + 1
  /\ signed' \in {signed \cup {blk[t]}, signed \ {blk[t]}}
  /\ UNCHANGED <<owned, unused, prev_blk, next_blk, spoiled, list, freeCnt, lock, blk,
                 checkVars>>

\* The pointers and the start signature: the header is whole again.
Link(t) ==
  /\ Goto(t, "link", "chain")
  /\ prev_blk' = [prev_blk EXCEPT ![blk[t]] = list]
  /\ next_blk' = [next_blk EXCEPT ![blk[t]] = Null]
  /\ spoiled' = spoiled \ {blk[t]}
  /\ UNCHANGED <<owned, unused, alloc_id, signed, list, allocCnt, freeCnt, lock, blk,
                 checkVars>>

Chain(t) ==
  /\ Goto(t, "chain", "publish")
  /\ next_blk' = IF list # Null THEN [next_blk EXCEPT ![list] = blk[t]] ELSE next_blk
  /\ UNCHANGED <<owned, unused, prev_blk, alloc_id, signed, spoiled, list, allocCnt, freeCnt,
                 lock, blk, checkVars>>

Publish(t) ==
  /\ Goto(t, "publish", "footer")
  /\ list' = blk[t]
  /\ UNCHANGED <<owned, unused, prev_blk, next_blk, alloc_id, signed, spoiled, allocCnt,
                 freeCnt, lock, blk, checkVars>>

\* Mutant: the end signature is left out.
Footer_Unsigned(t) ==
  /\ Goto(t, "footer", "idle")
  /\ MutexPut(t)
  /\ owned' = owned \cup {blk[t]}
  /\ blk' = [blk EXCEPT ![t] = Null]
  /\ UNCHANGED <<unused, prev_blk, next_blk, alloc_id, signed, spoiled, list, allocCnt, freeCnt,
                 checkVars>>

\* The end signature is the last word written; then the caller has the block.
Footer(t) ==
  /\ Goto(t, "footer", "idle")
  /\ MutexPut(t)
  /\ signed' = signed \cup {blk[t]}
  /\ owned' = owned \cup {blk[t]}
  /\ blk' = [blk EXCEPT ![t] = Null]
  /\ UNCHANGED <<unused, prev_blk, next_blk, alloc_id, spoiled, list, allocCnt, freeCnt,
                 checkVars>>

-----------------------------------------------------------------------------
\* A free: a bad signature is reported to the callback and changes nothing else.
Give(t, b) ==
  /\ Goto(t, "idle", "count")
  /\ MutexGet(t)
  /\ b \in owned
  /\ owned' = owned \ {b}
  /\ blk' = [blk EXCEPT ![t] = b]
  /\ UNCHANGED <<unused, prev_blk, next_blk, alloc_id, signed, spoiled, list, allocCnt, freeCnt,
                 checkVars>>

Count(t) ==
  /\ Goto(t, "count", "unlink_next")
  /\ freeCnt' = freeCnt + 1
  /\ UNCHANGED <<owned, unused, prev_blk, next_blk, alloc_id, signed, spoiled, list, allocCnt,
                 lock, blk, checkVars>>

\* Mutant: the newer neighbour loses all older blocks.
UnlinkNext_Cut(t) ==
  /\ Goto(t, "unlink_next", "unlink_prev")
  /\ prev_blk' = IF next_blk[blk[t]] # Null
                 THEN [prev_blk EXCEPT ![next_blk[blk[t]]] = Null] ELSE prev_blk
  /\ UNCHANGED <<owned, unused, next_blk, alloc_id, signed, spoiled, list, allocCnt, freeCnt,
                 lock, blk, checkVars>>

UnlinkNext(t) ==
  /\ Goto(t, "unlink_next", "unlink_prev")
  /\ prev_blk' = IF next_blk[blk[t]] # Null
                 THEN [prev_blk EXCEPT ![next_blk[blk[t]]] = prev_blk[blk[t]]] ELSE prev_blk
  /\ UNCHANGED <<owned, unused, next_blk, alloc_id, signed, spoiled, list, allocCnt, freeCnt,
                 lock, blk, checkVars>>

\* Mutant: the older neighbour keeps its pointer.
UnlinkPrev_Skip(t) ==
  /\ Goto(t, "unlink_prev", "unhead")
  /\ UNCHANGED <<heapVars, lock, blk, checkVars>>

UnlinkPrev(t) ==
  /\ Goto(t, "unlink_prev", "unhead")
  /\ next_blk' = IF prev_blk[blk[t]] # Null
                 THEN [next_blk EXCEPT ![prev_blk[blk[t]]] = next_blk[blk[t]]] ELSE next_blk
  /\ UNCHANGED <<owned, unused, prev_blk, alloc_id, signed, spoiled, list, allocCnt, freeCnt,
                 lock, blk, checkVars>>

Unhead(t) ==
  /\ Goto(t, "unhead", "release")
  /\ list' = IF list = blk[t] THEN prev_blk[blk[t]] ELSE list
  /\ UNCHANGED <<owned, unused, prev_blk, next_blk, alloc_id, signed, spoiled, allocCnt,
                 freeCnt, lock, blk, checkVars>>

Release(t) ==
  /\ Goto(t, "release", "idle")
  /\ MutexPut(t)
  /\ unused' = unused \cup {blk[t]}
  /\ blk' = [blk EXCEPT ![t] = Null]
  /\ UNCHANGED <<owned, prev_blk, next_blk, alloc_id, signed, spoiled, list, allocCnt, freeCnt,
                 checkVars>>

-----------------------------------------------------------------------------
\* A corruption check: it follows prev_blk, in both heaps without a lock, and fails at
\* the first block without its signatures.
CheckBegin(t) ==
  /\ Goto(t, "idle", "check")
  /\ blk' = [blk EXCEPT ![t] = list]
  /\ alarm' = alarm \ {t}
  /\ beside' = IF \E s \in Threads : at[s] \in AllocSteps THEN beside \cup {t} ELSE beside \ {t}
  /\ UNCHANGED <<heapVars, lock>>

CheckNext(t) ==
  /\ Goto(t, "check", "check")
  /\ blk[t] \in signed \ spoiled
  /\ blk' = [blk EXCEPT ![t] = prev_blk[blk[t]]]
  /\ UNCHANGED <<heapVars, lock, checkVars>>

\* Where the header was overwritten what lies there may pass for signatures, and anything
\* for a pointer.
CheckAstray(t) ==
  /\ Goto(t, "check", "check")
  /\ blk[t] \in spoiled
  /\ \E p \in Pointers : blk' = [blk EXCEPT ![t] = p]
  /\ UNCHANGED <<heapVars, lock, checkVars>>

CheckEnd(t) ==
  /\ Goto(t, "check", "idle")
  /\ blk' = [blk EXCEPT ![t] = Null]
  /\ \/ blk[t] = Null /\ UNCHANGED alarm
     \/ blk[t] \in Blocks \ (signed \ spoiled) /\ alarm' = alarm \cup {t}
  /\ UNCHANGED <<heapVars, lock, beside>>

-----------------------------------------------------------------------------
\* Whoever has block c writes to it, over what an old block left there.
Overwrite(c) ==
  /\ c \notin unused
  /\ \E b \in Overlap(c) \ spoiled : spoiled' = spoiled \cup {b}
  /\ UNCHANGED <<owned, unused, prev_blk, next_blk, alloc_id, signed, list, allocCnt,
                 freeCnt, callVars>>

-----------------------------------------------------------------------------
HeapInit ==
  /\ owned = {} /\ unused = Blocks /\ signed = {} /\ spoiled = {}
  /\ prev_blk \in {[b \in Blocks |-> Null]} /\ next_blk = prev_blk
  /\ alloc_id = [b \in Blocks |-> 0]
  /\ list = Null /\ allocCnt = 0 /\ freeCnt = 0
  /\ lock = Null /\ alarm = {} /\ beside = {}
  /\ at = [t \in Threads |-> "idle"] /\ blk = [t \in Threads |-> Null]

Caller(t) ==
  \/ \E b \in Blocks : Take(t, b) \/ Give(t, b)
  \/ Number(t) \/ Link(t) \/ Chain(t) \/ Publish(t) \/ Footer(t)
  \/ Count(t) \/ UnlinkNext(t) \/ UnlinkPrev(t) \/ Unhead(t) \/ Release(t)
  \/ CheckBegin(t) \/ CheckNext(t) \/ CheckAstray(t) \/ CheckEnd(t)

HeapNext == (\E t \in Threads : Caller(t)) \/ (\E c \in Blocks : Overwrite(c))

HeapSpec == HeapInit /\ [][HeapNext]_heapCalls

-----------------------------------------------------------------------------
\* The blocks found by following prev_blk from the head, at most all of them.
Traversal ==
  LET nth[i \in 1 .. Cardinality(Blocks)] ==
        IF i = 1 THEN list
        ELSE IF nth[i - 1] = Null THEN Null ELSE prev_blk[nth[i - 1]]
  IN  [i \in {j \in 1 .. Cardinality(Blocks) : nth[j] # Null} |-> nth[i]]

\* Every block a caller holds is found by following prev_blk (cyfxtx.c:439-441 and
\* 1129-1131: "All of the blocks can be identified by traversing the list using the
\* prev_blk pointer"), at every moment, also while another call is under way.
AllBlocksListed == owned \subseteq ToSet(Traversal)

\* Between calls the two pointers of neighbours agree, the head is the only block
\* without a newer one, and ids grow towards the head, so the list has no cycle.
LinkedBothWays ==
  lock = Null =>
    /\ list = Null <=> owned = {}
    /\ list # Null => list \in owned /\ next_blk[list] = Null
    /\ \A b \in owned :
         /\ prev_blk[b] # Null => prev_blk[b] \in owned /\ next_blk[prev_blk[b]] = b
         /\ next_blk[b] = Null => b = list
         /\ next_blk[b] # Null =>
              /\ next_blk[b] \in owned /\ prev_blk[next_blk[b]] = b
              /\ alloc_id[b] < alloc_id[next_blk[b]]

\* Nobody corrupts memory here, and yet a check fails now and then: it follows the list
\* without the mutex (cyfxtx.c:1161-1178), meets a block that is listed (964) before its
\* end signature is written (967), or stands at a block that has been freed, the memory of
\* which has gone into another one.  Both take an allocation under way at some time during
\* the check: frees alone, in any number and at any place of the list, never make it fail.
AlarmNeedsAllocation == alarm \subseteq beside

\* The list implements the one of InUseList: a block appears in one step and
\* disappears in one step, and the others keep their order.
Listed == INSTANCE InUseList WITH listed <- Traversal
ListImplemented == Listed!ListSpec
=============================================================================
