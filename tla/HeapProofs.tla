----------------------------- MODULE HeapProofs -----------------------------
(***************************************************************************)
(* Proofs about the library code of the firmware beside the allocator.     *)
(*  - HeapCalls, with the mutex: the in-use list is in order whenever the  *)
(*    mutex is free, and implements InUseList; a check, which takes no     *)
(*    mutex, fails only beside an allocation;                              *)
(*  - FirmwareHeaps: the leak checks tell the truth, and the status array  *)
(*    of the buffer heap is a block of the driver heap;                    *)
(*  - MemHelpers: the fill, the copy and the comparison are right for      *)
(*    every memory, every length and every overlap.                        *)
(***************************************************************************)
EXTENDS HeapCalls, FirmwareHeaps, MemHelpers, InductionLemmas,
        FiniteSetTheorems, SequenceTheorems

-----------------------------------------------------------------------------
(* HeapCalls: the list is in order between two statements of the thread that holds *)
(* the mutex. *)

\* The head of a list of sz blocks c.
First(sz, c) == IF sz = 0 THEN Null ELSE c[1]

\* Following prev_blk from the head gives the sz blocks c, and their ids fall.
InOrder(sz, c) ==
  /\ list = First(sz, c)
  /\ \A i \in 1..sz : prev_blk[c[i]] = IF i = sz THEN Null ELSE c[i + 1]
  /\ \A i, j \in 1..sz : i < j => alloc_id[c[j]] < alloc_id[c[i]]

Shows(sz, c, S) == \A b \in Blocks : b \in S <=> \E i \in 1..sz : c[i] = b

\* What next_blk is for the i-th block.
Newer(c, i) == IF i = 1 THEN Null ELSE c[i - 1]

\* The list of the blocks S is in order.
Whole(sz, c, S) ==
  InOrder(sz, c) /\ Shows(sz, c, S) /\ \A i \in 1..sz : next_blk[c[i]] = Newer(c, i)

\* Between two statements of the thread that holds the mutex, with its block b.
HalfWay(sz, c, from, b) ==
  \/ from \in {"number", "link", "chain", "release"} /\ Whole(sz, c, owned)
  \/ /\ from = "publish" /\ InOrder(sz, c) /\ Shows(sz, c, owned)
     /\ \A i \in 1..sz : next_blk[c[i]] = IF i = 1 THEN b ELSE c[i - 1]
  \/ from \in {"footer", "count", "unlink_next"} /\ Whole(sz, c, owned \cup {b})
  \/ from = "unlink_prev" /\ list = b /\ Whole(sz, c, owned \cup {b})
  \/ /\ from = "unlink_prev" /\ list # b /\ InOrder(sz, c) /\ Shows(sz, c, owned)
     /\ \A i \in 1..sz :
          IF c[i] = prev_blk[b] THEN i > 1 /\ next_blk[c[i]] = b /\ next_blk[b] = c[i - 1]
                                ELSE next_blk[c[i]] = Newer(c, i)
  \/ /\ from = "unhead" /\ list = b /\ InOrder(sz, c) /\ Shows(sz, c, owned \cup {b})
     /\ \A i \in 1..sz : next_blk[c[i]] = IF i <= 2 THEN Null ELSE c[i - 1]
  \/ from = "unhead" /\ list # b /\ Whole(sz, c, owned)

ListInv ==
  \E sz \in 0..Cardinality(Blocks) : \E c \in [1..sz -> Blocks] :
    IF lock = Null THEN Whole(sz, c, owned) ELSE HalfWay(sz, c, at[lock], blk[lock])

Away == {"idle", "check"}

\* Who holds the mutex, and which block is his.
MutexInv ==
  /\ owned \cap unused = {}
  /\ \A t \in Threads : t # lock => at[t] \in Away
  /\ lock # Null =>
       /\ lock \in Threads /\ at[lock] \in AllocSteps \cup FreeSteps
       /\ blk[lock] \in Blocks \ (owned \cup unused)

\* Ids are handed out in order, and the block on its way into the list has the newest
\* and points at the head.
IdInv ==
  /\ \A b \in owned : alloc_id[b] < allocCnt
  /\ lock # Null /\ at[lock] # "number" => alloc_id[blk[lock]] < allocCnt
  /\ lock # Null /\ at[lock] \in {"link", "chain", "publish"} =>
       \A b \in owned : alloc_id[b] < alloc_id[blk[lock]]
  /\ lock # Null /\ at[lock] \in {"chain", "publish"} =>
       prev_blk[blk[lock]] = list /\ next_blk[blk[lock]] = Null

\* Listed blocks have their signatures, places in use share no memory, and nothing is
\* written over a block in use.
PlaceInv ==
  /\ owned \subseteq signed \ spoiled
  /\ lock # Null /\ at[lock] \in FreeSteps => blk[lock] \in signed \ spoiled
  /\ lock # Null /\ at[lock] \in {"chain", "publish", "footer"} => blk[lock] \notin spoiled
  /\ \A b \in Blocks \ unused : Overlap(b) \subseteq unused

\* Blocks that a check can walk through without failing, and that nobody writes over as
\* long as nothing is allocated: freed or not, they stay as they are.
Sound(S) ==
  /\ S \subseteq signed \ spoiled
  /\ \A x \in S : prev_blk[x] \in S \cup {Null} /\ Overlap(x) \subseteq unused

\* A check beside which nothing has been allocated stands at such a block.
CheckInv ==
  /\ alarm \subseteq beside
  /\ \A t, s \in Threads : at[t] = "check" /\ at[s] \in AllocSteps => t \in beside
  /\ \A t \in Threads : at[t] = "check" /\ t \notin beside =>
       \E S \in SUBSET Blocks : Sound(S) /\ blk[t] \in S \cup {Null}

CallsTypeOK ==
  /\ owned \subseteq Blocks /\ unused \subseteq Blocks /\ signed \subseteq Blocks
  /\ spoiled \subseteq Blocks
  /\ prev_blk \in [Blocks -> Pointers] /\ next_blk \in [Blocks -> Pointers]
  /\ alloc_id \in [Blocks -> Nat] /\ allocCnt \in Nat /\ freeCnt \in Nat
  /\ list \in Pointers /\ lock \in Threads \cup {Null}
  /\ at \in [Threads -> AllocSteps \cup FreeSteps \cup Away]
  /\ blk \in [Threads -> Pointers]
  /\ alarm \subseteq Threads /\ beside \subseteq Threads

CallsInv == CallsTypeOK /\ MutexInv /\ IdInv /\ ListInv /\ PlaceInv /\ CheckInv

-----------------------------------------------------------------------------
(* HeapCalls: changes of a list. *)

\* Changes that leave the blocks of the list alone.
LEMMA OrderKept ==
  ASSUME NEW sz \in Nat, NEW c \in [1..sz -> Blocks], InOrder(sz, c), list' = list,
         \A i \in 1..sz : prev_blk'[c[i]] = prev_blk[c[i]] /\ alloc_id'[c[i]] = alloc_id[c[i]]
  PROVE  InOrder(sz, c)'
BY DEF InOrder, First

\* A list has no block twice.
LEMMA Distinct ==
  ASSUME CallsTypeOK, NEW sz \in Nat, NEW c \in [1..sz -> Blocks], InOrder(sz, c),
         NEW i \in 1..sz, NEW j \in 1..sz, c[i] = c[j]
  PROVE  i = j
<1>1. i < j => alloc_id[c[j]] < alloc_id[c[i]]
  BY DEF InOrder
<1>2. j < i => alloc_id[c[i]] < alloc_id[c[j]]
  BY DEF InOrder
<1>3. alloc_id[c[i]] \in Nat
  BY DEF CallsTypeOK
<1> QED BY <1>1, <1>2, <1>3

\* A list has no more blocks than there are.
LEMMA FitsHeap ==
  ASSUME NEW sz \in Nat, NEW c \in [1..sz -> Blocks],
         \A i, j \in 1..sz : c[i] = c[j] => i = j
  PROVE  sz \in 0..Cardinality(Blocks)
<1>1. c \in Injection(1..sz, Blocks)
  BY DEF Injection, IsInjective
<1>2. Cardinality(1..sz) <= Cardinality(Blocks) /\ Cardinality(Blocks) \in Nat
  BY <1>1, FS_Injection, FS_CardinalityType, HeapCallsAssumption
<1>3. Cardinality(1..sz) = sz
  BY FS_Interval
<1> QED BY <1>2, <1>3, HeapCallsAssumption

\* The list with block b put before its head, and without its pos-th block.
Pushed(sz, c, b) == [i \in 1..(sz + 1) |-> IF i = 1 THEN b ELSE c[i - 1]]
Dropped(sz, c, pos) == [i \in 1..(sz - 1) |-> IF i < pos THEN c[i] ELSE c[i + 1]]

\* What the two lists hold, place by place.
LEMMA PushedIs ==
  ASSUME NEW sz \in Nat, NEW c \in [1..sz -> Blocks], NEW b \in Blocks
  PROVE  /\ sz + 1 \in Nat /\ Pushed(sz, c, b) \in [1..(sz + 1) -> Blocks]
         /\ Pushed(sz, c, b)[1] = b
         /\ \A i \in 2..(sz + 1) : Pushed(sz, c, b)[i] = c[i - 1] /\ i - 1 \in 1..sz
         /\ \A i \in 1..sz : Pushed(sz, c, b)[i + 1] = c[i] /\ i + 1 \in 2..(sz + 1)
<1>1. \A i \in 1..(sz + 1) : i # 1 => i - 1 \in 1..sz
  OBVIOUS
<1>2. Pushed(sz, c, b) \in [1..(sz + 1) -> Blocks]
  BY <1>1 DEF Pushed
<1>3. \A i \in 1..sz : i + 1 \in 2..(sz + 1) /\ i + 1 \in 1..(sz + 1) /\ i + 1 # 1 /\ (i + 1) - 1 = i
  OBVIOUS
<1>4. \A i \in 2..(sz + 1) : i - 1 \in 1..sz /\ i # 1 /\ i \in 1..(sz + 1)
  OBVIOUS
<1>5. 1 \in 1..(sz + 1) /\ sz + 1 \in Nat
  OBVIOUS
<1>6. /\ Pushed(sz, c, b)[1] = b
      /\ \A i \in 2..(sz + 1) : Pushed(sz, c, b)[i] = c[i - 1]
  BY <1>4, <1>5 DEF Pushed
<1>7. \A i \in 1..sz : Pushed(sz, c, b)[i + 1] = c[i]
  BY <1>3 DEF Pushed
<1> QED BY <1>2, <1>3, <1>4, <1>5, <1>6, <1>7

LEMMA DroppedIs ==
  ASSUME NEW sz \in Nat, NEW c \in [1..sz -> Blocks], NEW pos \in 1..sz
  PROVE  /\ sz - 1 \in Nat /\ Dropped(sz, c, pos) \in [1..(sz - 1) -> Blocks]
         /\ \A i \in 1..(sz - 1) : i < pos => Dropped(sz, c, pos)[i] = c[i] /\ i \in 1..sz
         /\ \A i \in 1..(sz - 1) : i >= pos => Dropped(sz, c, pos)[i] = c[i + 1] /\ i + 1 \in 1..sz
<1>1. \A i \in 1..(sz - 1) : i \in 1..sz /\ i + 1 \in 1..sz
  OBVIOUS
<1>2. Dropped(sz, c, pos) \in [1..(sz - 1) -> Blocks]
  BY <1>1 DEF Dropped
<1>3. sz - 1 \in Nat
  OBVIOUS
<1>4. \A i \in 1..(sz - 1) : i >= pos => ~(i < pos)
  OBVIOUS
<1> QED BY <1>1, <1>2, <1>3, <1>4 DEF Dropped

\* A new block at the head.
LEMMA PushOrder ==
  ASSUME CallsTypeOK, NEW sz \in Nat, NEW c \in [1..sz -> Blocks],
         InOrder(sz, c), NEW b \in Blocks, NEW S, Shows(sz, c, S),
         prev_blk[b] = list, \A x \in S : alloc_id[x] < alloc_id[b],
         list' = b, prev_blk' = prev_blk, alloc_id' = alloc_id
  PROVE  /\ sz + 1 \in 0..Cardinality(Blocks)
         /\ InOrder(sz + 1, Pushed(sz, c, b))'
         /\ Shows(sz + 1, Pushed(sz, c, b), S \cup {b})
<1> DEFINE d == Pushed(sz, c, b)
           m == sz + 1
<1>1. /\ m \in Nat /\ d \in [1..m -> Blocks] /\ d[1] = b
      /\ \A i \in 2..m : d[i] = c[i - 1] /\ i - 1 \in 1..sz
      /\ \A i \in 1..sz : d[i + 1] = c[i] /\ i + 1 \in 2..m
  BY PushedIs
<1>2. \A i \in 1..m : i = 1 \/ i \in 2..m
  OBVIOUS
<1>3. m # 0 /\ 1 \in 1..m /\ (m = 1 <=> sz = 0) /\ \A i \in 2..m : i # 1 /\ i \in 1..m
  OBVIOUS
<1>4. \A i \in 1..sz : c[i] \in S /\ c[i] \in Blocks /\ alloc_id[c[i]] < alloc_id[b]
  BY DEF Shows
<1> HIDE DEF d
<1>5. ASSUME NEW i \in 1..m
      PROVE  prev_blk[d[i]] = IF i = m THEN Null ELSE d[i + 1]
  <2>1. CASE i = 1
    <3>1. sz = 0 => prev_blk[b] = Null
      BY DEF InOrder, First
    <3>2. sz # 0 => prev_blk[b] = c[1] /\ 1 \in 1..sz
      BY DEF InOrder, First
    <3>3. sz # 0 => d[1 + 1] = c[1]
      BY <1>1, <3>2
    <3> QED BY <1>1, <1>3, <2>1, <3>1, <3>2, <3>3
  <2>2. CASE i \in 2..m
    <3>1. PICK pos \in 1..sz : pos = i - 1 /\ (i = m <=> pos = sz) /\ i = pos + 1
      BY <1>1, <2>2
    <3>2. d[i] = c[pos] /\ prev_blk[c[pos]] = IF pos = sz THEN Null ELSE c[pos + 1]
      BY <1>1, <2>2, <3>1 DEF InOrder
    <3>3. pos # sz => pos + 1 \in 1..sz /\ d[i + 1] = c[pos + 1]
      BY <1>1, <3>1
    <3> QED BY <3>1, <3>2, <3>3
  <2> QED BY <1>2, <2>1, <2>2
<1>6. ASSUME NEW i \in 1..m, NEW j \in 1..m, i < j
      PROVE  alloc_id[d[j]] < alloc_id[d[i]]
  <2>1. j \in 2..m
    BY <1>6
  <2>2. CASE i = 1
    BY <1>1, <1>4, <2>1, <2>2
  <2>3. CASE i \in 2..m
    <3>1. i - 1 \in 1..sz /\ j - 1 \in 1..sz /\ i - 1 < j - 1
      BY <1>6, <2>1, <2>3
    <3>2. d[i] = c[i - 1] /\ d[j] = c[j - 1]
      BY <1>1, <2>1, <2>3
    <3> QED BY <3>1, <3>2 DEF InOrder
  <2> QED BY <1>2, <2>2, <2>3
<1>7. \A i, j \in 1..m : d[i] = d[j] => i = j
  <2> SUFFICES ASSUME NEW i \in 1..m, NEW j \in 1..m, d[i] = d[j] PROVE i = j
    OBVIOUS
  <2>1. alloc_id[d[i]] \in Nat /\ alloc_id[d[j]] \in Nat
    BY <1>1 DEF CallsTypeOK
  <2>2. ~(i < j) /\ ~(j < i)
    BY <1>6, <2>1
  <2> QED BY <2>2
<1>8. m \in 0..Cardinality(Blocks)
  BY <1>1, <1>7, FitsHeap
<1>9. InOrder(m, d)'
  BY <1>1, <1>3, <1>5, <1>6 DEF InOrder, First
<1>10. ASSUME NEW x \in Blocks
       PROVE  x \in S \cup {b} <=> \E i \in 1..m : d[i] = x
  <2>1. x \in S => \E i \in 1..m : d[i] = x
    <3> SUFFICES ASSUME x \in S PROVE \E i \in 1..m : d[i] = x
      OBVIOUS
    <3>1. PICK pos \in 1..sz : c[pos] = x
      BY DEF Shows
    <3>2. d[pos + 1] = x /\ pos + 1 \in 1..m
      BY <1>1, <3>1
    <3> QED BY <3>2
  <2>2. x = b => \E i \in 1..m : d[i] = x
    BY <1>1, <1>3
  <2>3. ASSUME NEW i \in 1..m, d[i] = x PROVE x \in S \cup {b}
    BY <1>1, <1>2, <1>4, <2>3
  <2> QED BY <2>1, <2>2, <2>3
<1>11. Shows(m, d, S \cup {b})
  BY <1>10 DEF Shows
<1> QED BY <1>8, <1>9, <1>11 DEF d

\* The pos-th block has been taken out of the chain of prev_blk.
LEMMA DropOrder ==
  ASSUME CallsTypeOK, NEW sz \in Nat, NEW c \in [1..sz -> Blocks],
         InOrder(sz, c), NEW pos \in 1..sz, NEW S, Shows(sz, c, S),
         alloc_id' = alloc_id,
         list' = IF pos = 1 THEN prev_blk[c[1]] ELSE list,
         \A i \in 1..sz : i # pos - 1 => prev_blk'[c[i]] = prev_blk[c[i]],
         pos > 1 => prev_blk'[c[pos - 1]] = prev_blk[c[pos]]
  PROVE  /\ InOrder(sz - 1, Dropped(sz, c, pos))'
         /\ Shows(sz - 1, Dropped(sz, c, pos), S \ {c[pos]})
<1> DEFINE d == Dropped(sz, c, pos)
           m == sz - 1
<1>1. /\ m \in Nat /\ d \in [1..m -> Blocks]
      /\ \A i \in 1..m : i < pos => d[i] = c[i] /\ i \in 1..sz
      /\ \A i \in 1..m : i >= pos => d[i] = c[i + 1] /\ i + 1 \in 1..sz
  BY DroppedIs
<1>2. \A i \in 1..m : i \in 1..sz /\ i + 1 \in 1..sz
  OBVIOUS
<1> HIDE DEF d
<1>3. ASSUME NEW i \in 1..m
      PROVE  prev_blk'[d[i]] = IF i = m THEN Null ELSE d[i + 1]
  <2>1. CASE i < pos - 1
    <3>1. i < pos /\ i # pos - 1 /\ i # sz /\ i # m /\ i + 1 \in 1..m /\ i + 1 < pos
      BY <2>1
    <3>2. d[i] = c[i] /\ d[i + 1] = c[i + 1]
      BY <1>1, <3>1
    <3>3. prev_blk'[c[i]] = c[i + 1]
      BY <1>2, <3>1 DEF InOrder
    <3> QED BY <3>1, <3>2, <3>3
  <2>2. CASE i = pos - 1
    <3>1. i < pos /\ pos > 1 /\ (i = m <=> pos = sz) /\ i + 1 = pos /\ pos - 1 \in 1..m
      BY <2>2
    <3>2. d[i] = c[pos - 1] /\ prev_blk'[c[pos - 1]] = prev_blk[c[pos]]
      BY <1>1, <2>2, <3>1
    <3>3. prev_blk[c[pos]] = IF pos = sz THEN Null ELSE c[pos + 1]
      BY DEF InOrder
    <3>4. i # m => i + 1 \in 1..m /\ i + 1 >= pos /\ (i + 1) + 1 = pos + 1
      BY <2>2
    <3>5. i # m => d[i + 1] = c[pos + 1]
      BY <1>1, <3>4
    <3> QED BY <3>1, <3>2, <3>3, <3>5
  <2>3. CASE i >= pos
    <3>1. i + 1 # pos - 1 /\ (i = m <=> i + 1 = sz)
      BY <2>3
    <3>2. d[i] = c[i + 1] /\ prev_blk'[c[i + 1]] = prev_blk[c[i + 1]]
      BY <1>1, <1>2, <2>3, <3>1
    <3>3. prev_blk[c[i + 1]] = IF i + 1 = sz THEN Null ELSE c[(i + 1) + 1]
      BY <1>2 DEF InOrder
    <3>4. i # m => i + 1 \in 1..m /\ i + 1 >= pos
      BY <2>3
    <3>5. i # m => d[i + 1] = c[(i + 1) + 1]
      BY <1>1, <3>4
    <3> QED BY <3>1, <3>2, <3>3, <3>5
  <2> QED BY <2>1, <2>2, <2>3
<1>4. ASSUME NEW i \in 1..m, NEW j \in 1..m, i < j
      PROVE  alloc_id[d[j]] < alloc_id[d[i]]
  <2>1. \A x, y \in 1..sz : x < y => alloc_id[c[y]] < alloc_id[c[x]]
    BY DEF InOrder
  <2>2. CASE j < pos
    <3>1. d[i] = c[i] /\ d[j] = c[j]
      BY <1>1, <1>4, <2>2
    <3> QED BY <1>2, <1>4, <2>1, <3>1
  <2>3. CASE i < pos /\ j >= pos
    <3>1. d[i] = c[i] /\ d[j] = c[j + 1] /\ i < j + 1
      BY <1>1, <1>4, <2>3
    <3> QED BY <1>2, <2>1, <3>1
  <2>4. CASE i >= pos
    <3>1. d[i] = c[i + 1] /\ d[j] = c[j + 1] /\ i + 1 < j + 1
      BY <1>1, <1>4, <2>4
    <3> QED BY <1>2, <2>1, <3>1
  <2> QED BY <2>2, <2>3, <2>4
<1>5. list' = First(m, d)
  <2>1. CASE pos = 1
    <3>1. prev_blk[c[1]] = IF sz = 1 THEN Null ELSE c[2]
      BY <2>1 DEF InOrder
    <3>2. (m = 0 <=> sz = 1) /\ (m # 0 => 1 \in 1..m /\ 1 >= pos)
      BY <2>1
    <3>3. m # 0 => d[1] = c[2]
      BY <1>1, <3>2
    <3> QED BY <2>1, <3>1, <3>2, <3>3 DEF First
  <2>2. CASE pos # 1
    <3>1. m # 0 /\ sz # 0 /\ 1 \in 1..m /\ 1 < pos
      BY <2>2
    <3>2. d[1] = c[1]
      BY <1>1, <3>1
    <3> QED BY <2>2, <3>1, <3>2 DEF First, InOrder
  <2> QED BY <2>1, <2>2
<1>6. InOrder(m, d)'
  BY <1>1, <1>3, <1>4, <1>5 DEF InOrder, First
<1>7. ASSUME NEW x \in Blocks
      PROVE  x \in S \ {c[pos]} <=> \E i \in 1..m : d[i] = x
  <2>1. ASSUME x \in S \ {c[pos]} PROVE \E i \in 1..m : d[i] = x
    <3>1. PICK j \in 1..sz : c[j] = x
      BY <2>1 DEF Shows
    <3>2. j # pos
      BY <2>1, <3>1
    <3>3. CASE j < pos
      <4>1. j \in 1..m
        BY <3>3
      <4> QED BY <1>1, <3>1, <3>3, <4>1
    <3>4. CASE j > pos
      <4>1. j - 1 \in 1..m /\ j - 1 >= pos /\ (j - 1) + 1 = j
        BY <3>4
      <4> QED BY <1>1, <3>1, <4>1
    <3> QED BY <3>2, <3>3, <3>4
  <2>2. ASSUME NEW i \in 1..m, d[i] = x PROVE x \in S \ {c[pos]}
    <3>1. CASE i < pos
      <4>1. d[i] = c[i] /\ i \in 1..sz /\ i # pos
        BY <1>1, <3>1
      <4>2. c[i] \in S /\ c[i] # c[pos]
        BY <4>1, Distinct DEF Shows
      <4> QED BY <2>2, <4>1, <4>2
    <3>2. CASE i >= pos
      <4>1. d[i] = c[i + 1] /\ i + 1 \in 1..sz /\ i + 1 # pos
        BY <1>1, <3>2
      <4>2. c[i + 1] \in S /\ c[i + 1] # c[pos]
        BY <4>1, Distinct DEF Shows
      <4> QED BY <2>2, <4>1, <4>2
    <3> QED BY <3>1, <3>2
  <2> QED BY <2>1, <2>2
<1>8. Shows(m, d, S \ {c[pos]})
  BY <1>7 DEF Shows
<1> QED BY <1>6, <1>8 DEF d

\* What a step does to the list: nothing, a new head, or one block less.
Kept ==
  \E sz \in 0..Cardinality(Blocks) : \E c \in [1..sz -> Blocks] :
    InOrder(sz, c) /\ InOrder(sz, c)'

Gained ==
  \E b \in Blocks, sz \in 0..Cardinality(Blocks) : \E c \in [1..sz -> Blocks] :
    /\ sz + 1 \in 0..Cardinality(Blocks) /\ \A i \in 1..sz : c[i] # b
    /\ InOrder(sz, c) /\ InOrder(sz + 1, Pushed(sz, c, b))'

Lost ==
  \E sz \in 1..Cardinality(Blocks) : \E c \in [1..sz -> Blocks], pos \in 1..sz :
    InOrder(sz, c) /\ InOrder(sz - 1, Dropped(sz, c, pos))'

-----------------------------------------------------------------------------
(* HeapCalls: the holder of the mutex, the ids, the signatures. *)

\* A thread in the middle of an allocation or a free holds the mutex and has a block of
\* its own.
LEMMA Holder ==
  ASSUME MutexInv, CallsTypeOK, NEW t \in Threads, at[t] \notin Away
  PROVE  lock = t /\ lock # Null /\ blk[t] \in Blocks /\ blk[t] \notin owned /\ blk[t] \notin unused
BY HeapCallsAssumption DEF MutexInv, CallsTypeOK

\* Every statement keeps the types.
LEMMA TypeKept ==
  ASSUME CallsInv, Locked = TRUE, NEW t \in Threads, Caller(t)
  PROVE  CallsTypeOK'
<1> USE HeapCallsAssumption
    DEF Goto, MutexGet, MutexPut, heapVars, checkVars, Away, AllocSteps, FreeSteps
<1>1. CallsTypeOK /\ MutexInv
  BY DEF CallsInv
<1>3. ASSUME NEW b \in Blocks, Take(t, b) PROVE CallsTypeOK'
  BY <1>1, <1>3 DEF Take, CallsTypeOK, Pointers
<1>4. ASSUME NEW b \in Blocks, Give(t, b) PROVE CallsTypeOK'
  BY <1>1, <1>4 DEF Give, CallsTypeOK, Pointers
<1>5. CASE CheckBegin(t)
  BY <1>1, <1>5 DEF CheckBegin, CallsTypeOK, Pointers
<1>6. CASE CheckNext(t)
  BY <1>1, <1>6 DEF CheckNext, CallsTypeOK, Pointers
<1>7. CASE CheckEnd(t)
  BY <1>1, <1>7 DEF CheckEnd, CallsTypeOK, Pointers
<1>8. at[t] \notin Away => blk[t] \in Blocks
  BY <1>1, Holder
<1>9. CASE Number(t)
  BY <1>1, <1>8, <1>9 DEF Number, CallsTypeOK, Pointers
<1>10. CASE Link(t)
  BY <1>1, <1>8, <1>10 DEF Link, CallsTypeOK, Pointers
<1>11. CASE Chain(t)
  BY <1>1, <1>8, <1>11 DEF Chain, CallsTypeOK, Pointers
<1>12. CASE Publish(t)
  BY <1>1, <1>8, <1>12 DEF Publish, CallsTypeOK, Pointers
<1>13. CASE Footer(t)
  BY <1>1, <1>8, <1>13 DEF Footer, CallsTypeOK, Pointers
<1>14. CASE Count(t)
  BY <1>1, <1>8, <1>14 DEF Count, CallsTypeOK, Pointers
<1>15. CASE UnlinkNext(t)
  BY <1>1, <1>8, <1>15 DEF UnlinkNext, CallsTypeOK, Pointers
<1>16. CASE UnlinkPrev(t)
  BY <1>1, <1>8, <1>16 DEF UnlinkPrev, CallsTypeOK, Pointers
<1>17. CASE Unhead(t)
  BY <1>1, <1>8, <1>17 DEF Unhead, CallsTypeOK, Pointers
<1>18. CASE Release(t)
  BY <1>1, <1>8, <1>18 DEF Release, CallsTypeOK, Pointers
<1>19. CASE CheckAstray(t)
  BY <1>1, <1>19 DEF CheckAstray, CallsTypeOK, Pointers
<1> QED BY <1>3, <1>4, <1>5, <1>6, <1>7, <1>9, <1>10, <1>11, <1>12, <1>13, <1>14,
          <1>15, <1>16, <1>17, <1>18, <1>19 DEF Caller

\* The list and the block of the holder, in a call that is under way.
LEMMA HolderList ==
  ASSUME CallsInv, NEW t \in Threads, at[t] \notin Away
  PROVE  /\ lock = t /\ lock # Null /\ blk[t] \in Blocks /\ blk[t] \notin owned
         /\ \E sz \in 0..Cardinality(Blocks) : \E c \in [1..sz -> Blocks] :
              HalfWay(sz, c, at[t], blk[t])
<1>1. lock = t /\ lock # Null /\ blk[t] \in Blocks /\ blk[t] \notin owned
  BY Holder DEF CallsInv
<1> QED BY <1>1 DEF CallsInv, ListInv

\* The list a step leaves behind, while a call is under way and after it.
LEMMA StillOn ==
  ASSUME NEW sz \in 0..Cardinality(Blocks), NEW c \in [1..sz -> Blocks], lock' # Null,
         HalfWay(sz, c, at[lock], blk[lock])'
  PROVE  ListInv'
BY DEF ListInv

LEMMA NowOver ==
  ASSUME NEW sz \in 0..Cardinality(Blocks), NEW c \in [1..sz -> Blocks], lock' = Null,
         Whole(sz, c, owned)'
  PROVE  ListInv'
BY DEF ListInv

\* The blocks of a list are listed.
LEMMA Member ==
  ASSUME NEW sz \in Nat, NEW c \in [1..sz -> Blocks], NEW S, Shows(sz, c, S), NEW i \in 1..sz
  PROVE  c[i] \in S /\ c[i] \in Blocks
BY DEF Shows

\* Every statement keeps the mutex with one thread, which has one block.
LEMMA MutexKept ==
  ASSUME CallsInv, Locked = TRUE, CallsTypeOK', NEW t \in Threads, Caller(t)
  PROVE  MutexInv'
<1> USE HeapCallsAssumption DEF Goto, MutexGet, MutexPut, heapVars, Away, AllocSteps, FreeSteps
<1>1. CallsTypeOK /\ CallsTypeOK' /\ MutexInv /\ IdInv /\ PlaceInv
  BY DEF CallsInv
<1>3. ASSUME NEW b \in Blocks, Take(t, b) PROVE MutexInv'
  BY <1>1, <1>3 DEF Take, MutexInv, CallsTypeOK, Pointers
<1>4. ASSUME NEW b \in Blocks, Give(t, b) PROVE MutexInv'
  BY <1>1, <1>4 DEF Give, MutexInv, CallsTypeOK, Pointers
<1>5. CASE CheckBegin(t)
  BY <1>1, <1>5 DEF CheckBegin, MutexInv, CallsTypeOK, Pointers
<1>6. CASE CheckNext(t)
  BY <1>1, <1>6 DEF CheckNext, MutexInv, CallsTypeOK, Pointers
<1>7. CASE CheckEnd(t)
  BY <1>1, <1>7 DEF CheckEnd, MutexInv, CallsTypeOK, Pointers
<1>8. at[t] \notin Away =>
         lock = t /\ lock # Null /\ blk[t] \in Blocks /\ blk[t] \notin owned /\ blk[t] \notin unused
  BY <1>1, Holder
<1>9. CASE Number(t)
  BY <1>1, <1>8, <1>9 DEF Number, MutexInv, CallsTypeOK, Pointers
<1>10. CASE Link(t)
  BY <1>1, <1>8, <1>10 DEF Link, MutexInv, CallsTypeOK, Pointers
<1>11. CASE Chain(t)
  BY <1>1, <1>8, <1>11 DEF Chain, MutexInv, CallsTypeOK, Pointers
<1>12. CASE Publish(t)
  BY <1>1, <1>8, <1>12 DEF Publish, MutexInv, CallsTypeOK, Pointers
<1>13. CASE Footer(t)
  BY <1>1, <1>8, <1>13 DEF Footer, MutexInv, CallsTypeOK, Pointers
<1>14. CASE Count(t)
  BY <1>1, <1>8, <1>14 DEF Count, MutexInv, CallsTypeOK, Pointers
<1>15. CASE UnlinkNext(t)
  BY <1>1, <1>8, <1>15 DEF UnlinkNext, MutexInv, CallsTypeOK, Pointers
<1>16. CASE UnlinkPrev(t)
  BY <1>1, <1>8, <1>16 DEF UnlinkPrev, MutexInv, CallsTypeOK, Pointers
<1>17. CASE Unhead(t)
  BY <1>1, <1>8, <1>17 DEF Unhead, MutexInv, CallsTypeOK, Pointers
<1>18. CASE Release(t)
  BY <1>1, <1>8, <1>18 DEF Release, MutexInv, CallsTypeOK, Pointers
<1>19. CASE CheckAstray(t)
  BY <1>1, <1>19 DEF CheckAstray, MutexInv, CallsTypeOK, Pointers
<1> QED BY <1>3, <1>4, <1>5, <1>6, <1>7, <1>9, <1>10, <1>11, <1>12, <1>13, <1>14,
          <1>15, <1>16, <1>17, <1>18, <1>19 DEF Caller

\* Every statement keeps the ids in order.
LEMMA IdsKept ==
  ASSUME CallsInv, Locked = TRUE, CallsTypeOK', NEW t \in Threads, Caller(t)
  PROVE  IdInv'
<1> USE HeapCallsAssumption DEF Goto, MutexGet, MutexPut, heapVars, Away, AllocSteps, FreeSteps
<1>1. CallsTypeOK /\ CallsTypeOK' /\ MutexInv /\ IdInv /\ PlaceInv
  BY DEF CallsInv
<1>3. ASSUME NEW b \in Blocks, Take(t, b) PROVE IdInv'
  BY <1>1, <1>3 DEF Take, IdInv, MutexInv, CallsTypeOK, Pointers
<1>4. ASSUME NEW b \in Blocks, Give(t, b) PROVE IdInv'
  BY <1>1, <1>4 DEF Give, IdInv, MutexInv, CallsTypeOK, Pointers
<1>5. CASE CheckBegin(t)
  BY <1>1, <1>5 DEF CheckBegin, IdInv, MutexInv, CallsTypeOK, Pointers
<1>6. CASE CheckNext(t)
  BY <1>1, <1>6 DEF CheckNext, IdInv, MutexInv, CallsTypeOK, Pointers
<1>7. CASE CheckEnd(t)
  BY <1>1, <1>7 DEF CheckEnd, IdInv, MutexInv, CallsTypeOK, Pointers
<1>8. at[t] \notin Away =>
         lock = t /\ lock # Null /\ blk[t] \in Blocks /\ blk[t] \notin owned /\ blk[t] \notin unused
  BY <1>1, Holder
<1>9. CASE Number(t)
  BY <1>1, <1>8, <1>9 DEF Number, IdInv, MutexInv, CallsTypeOK, Pointers
<1>10. CASE Link(t)
  BY <1>1, <1>8, <1>10 DEF Link, IdInv, MutexInv, CallsTypeOK, Pointers
<1>11. CASE Chain(t)
  <2>1. at[t] = "chain" /\ at[t] \notin Away
    BY <1>11 DEF Chain
  <2>2. PICK sz \in 0..Cardinality(Blocks) : \E c \in [1..sz -> Blocks] : Whole(sz, c, owned)
    BY <2>1, HolderList DEF HalfWay
  <2>3. PICK c \in [1..sz -> Blocks] : Whole(sz, c, owned)
    BY <2>2
  <2>4. list # Null => list = c[1] /\ 1 \in 1..sz
    BY <2>3 DEF Whole, InOrder, First
  <2>5. list # Null => list \in owned
    BY <2>3, <2>4, Member DEF Whole
  <2> QED BY <1>1, <1>8, <1>11, <2>5 DEF Chain, IdInv, MutexInv, CallsTypeOK, Pointers
<1>12. CASE Publish(t)
  BY <1>1, <1>8, <1>12 DEF Publish, IdInv, MutexInv, CallsTypeOK, Pointers
<1>13. CASE Footer(t)
  BY <1>1, <1>8, <1>13 DEF Footer, IdInv, MutexInv, CallsTypeOK, Pointers
<1>14. CASE Count(t)
  BY <1>1, <1>8, <1>14 DEF Count, IdInv, MutexInv, CallsTypeOK, Pointers
<1>15. CASE UnlinkNext(t)
  BY <1>1, <1>8, <1>15 DEF UnlinkNext, IdInv, MutexInv, CallsTypeOK, Pointers
<1>16. CASE UnlinkPrev(t)
  BY <1>1, <1>8, <1>16 DEF UnlinkPrev, IdInv, MutexInv, CallsTypeOK, Pointers
<1>17. CASE Unhead(t)
  BY <1>1, <1>8, <1>17 DEF Unhead, IdInv, MutexInv, CallsTypeOK, Pointers
<1>18. CASE Release(t)
  BY <1>1, <1>8, <1>18 DEF Release, IdInv, MutexInv, CallsTypeOK, Pointers
<1>19. CASE CheckAstray(t)
  BY <1>1, <1>19 DEF CheckAstray, IdInv, MutexInv, CallsTypeOK, Pointers
<1> QED BY <1>3, <1>4, <1>5, <1>6, <1>7, <1>9, <1>10, <1>11, <1>12, <1>13, <1>14,
          <1>15, <1>16, <1>17, <1>18, <1>19 DEF Caller

\* Every statement keeps the places in use apart and their signatures in place.
LEMMA PlacesKept ==
  ASSUME CallsInv, Locked = TRUE, CallsTypeOK', NEW t \in Threads, Caller(t)
  PROVE  PlaceInv'
<1> USE HeapCallsAssumption DEF Goto, MutexGet, MutexPut, heapVars, Away, AllocSteps, FreeSteps
<1>1. CallsTypeOK /\ CallsTypeOK' /\ MutexInv /\ IdInv /\ PlaceInv
  BY DEF CallsInv
<1>3. ASSUME NEW b \in Blocks, Take(t, b) PROVE PlaceInv'
  BY <1>1, <1>3 DEF Take, PlaceInv, Overlap, MutexInv, CallsTypeOK, Pointers
<1>4. ASSUME NEW b \in Blocks, Give(t, b) PROVE PlaceInv'
  BY <1>1, <1>4 DEF Give, PlaceInv, Overlap, MutexInv, CallsTypeOK, Pointers
<1>5. CASE CheckBegin(t)
  BY <1>1, <1>5 DEF CheckBegin, PlaceInv, Overlap, MutexInv, CallsTypeOK, Pointers
<1>6. CASE CheckNext(t)
  BY <1>1, <1>6 DEF CheckNext, PlaceInv, Overlap, MutexInv, CallsTypeOK, Pointers
<1>7. CASE CheckEnd(t)
  BY <1>1, <1>7 DEF CheckEnd, PlaceInv, Overlap, MutexInv, CallsTypeOK, Pointers
<1>8. at[t] \notin Away =>
         lock = t /\ lock # Null /\ blk[t] \in Blocks /\ blk[t] \notin owned /\ blk[t] \notin unused
  BY <1>1, Holder
<1>9. CASE Number(t)
  BY <1>1, <1>8, <1>9 DEF Number, PlaceInv, Overlap, MutexInv, CallsTypeOK, Pointers
<1>10. CASE Link(t)
  BY <1>1, <1>8, <1>10 DEF Link, PlaceInv, Overlap, MutexInv, CallsTypeOK, Pointers
<1>11. CASE Chain(t)
  BY <1>1, <1>8, <1>11 DEF Chain, PlaceInv, Overlap, MutexInv, CallsTypeOK, Pointers
<1>12. CASE Publish(t)
  BY <1>1, <1>8, <1>12 DEF Publish, PlaceInv, Overlap, MutexInv, CallsTypeOK, Pointers
<1>13. CASE Footer(t)
  BY <1>1, <1>8, <1>13 DEF Footer, PlaceInv, Overlap, MutexInv, CallsTypeOK, Pointers
<1>14. CASE Count(t)
  BY <1>1, <1>8, <1>14 DEF Count, PlaceInv, Overlap, MutexInv, CallsTypeOK, Pointers
<1>15. CASE UnlinkNext(t)
  BY <1>1, <1>8, <1>15 DEF UnlinkNext, PlaceInv, Overlap, MutexInv, CallsTypeOK, Pointers
<1>16. CASE UnlinkPrev(t)
  BY <1>1, <1>8, <1>16 DEF UnlinkPrev, PlaceInv, Overlap, MutexInv, CallsTypeOK, Pointers
<1>17. CASE Unhead(t)
  BY <1>1, <1>8, <1>17 DEF Unhead, PlaceInv, Overlap, MutexInv, CallsTypeOK, Pointers
<1>18. CASE Release(t)
  BY <1>1, <1>8, <1>18 DEF Release, PlaceInv, Overlap, MutexInv, CallsTypeOK, Pointers
<1>19. CASE CheckAstray(t)
  BY <1>1, <1>19 DEF CheckAstray, PlaceInv, Overlap, MutexInv, CallsTypeOK, Pointers
<1> QED BY <1>3, <1>4, <1>5, <1>6, <1>7, <1>9, <1>10, <1>11, <1>12, <1>13, <1>14,
          <1>15, <1>16, <1>17, <1>18, <1>19 DEF Caller

-----------------------------------------------------------------------------
(* HeapCalls: what each statement does to the list. *)

\* An allocation and a free begin with the list as it was.
LEMMA ListTake ==
  ASSUME CallsInv, Locked = TRUE, NEW t \in Threads, NEW b \in Blocks, Take(t, b) \/ Give(t, b)
  PROVE  ListInv'
<1> USE HeapCallsAssumption DEF Goto, MutexGet
<1>1. lock = Null /\ lock' = t /\ t # Null /\ blk'[lock'] = b /\ at'[lock'] \in {"number", "count"}
  BY DEF Take, Give, CallsInv, CallsTypeOK
<1>2a. PICK sz \in 0..Cardinality(Blocks) : \E c \in [1..sz -> Blocks] : Whole(sz, c, owned)
  BY <1>1 DEF CallsInv, ListInv
<1>2. PICK c \in [1..sz -> Blocks] : Whole(sz, c, owned)
  BY <1>2a
<1>3. InOrder(sz, c)' /\ \A i \in 1..sz : next_blk'[c[i]] = Newer(c, i)
  BY <1>2 DEF Take, Give, Whole, InOrder
<1>4. CASE Take(t, b)
  <2>1. Whole(sz, c, owned)' /\ at'[lock'] = "number"
    BY <1>1, <1>2, <1>3, <1>4 DEF Whole, Take, CallsInv, CallsTypeOK
  <2> QED BY <1>1, <2>1, StillOn DEF HalfWay
<1>5. CASE Give(t, b)
  <2>1. (owned \cup {b})' = owned /\ at'[lock'] = "count"
    BY <1>1, <1>5 DEF Give, CallsInv, CallsTypeOK
  <2>2. Whole(sz, c, owned \cup {b})'
    BY <1>2, <1>3, <2>1 DEF Whole
  <2> QED BY <1>1, <2>1, <2>2, StillOn DEF HalfWay
<1> QED BY <1>4, <1>5

\* The header of the new block is not in the list yet.
LEMMA ListNumberLink ==
  ASSUME CallsInv, CallsTypeOK', Locked = TRUE, NEW t \in Threads, Number(t) \/ Link(t)
  PROVE  ListInv' /\ Kept
<1> USE HeapCallsAssumption DEF Goto, Away
<1>1. at[t] \notin Away /\ at[t] \in {"number", "link"}
  BY DEF Number, Link
<1>2. lock = t /\ lock # Null /\ blk[t] \in Blocks /\ blk[t] \notin owned
  BY <1>1, HolderList
<1>3a. PICK sz \in 0..Cardinality(Blocks) : \E c \in [1..sz -> Blocks] : Whole(sz, c, owned)
  BY <1>1, HolderList DEF HalfWay
<1>3. PICK c \in [1..sz -> Blocks] : Whole(sz, c, owned)
  BY <1>3a
<1>4. \A i \in 1..sz : c[i] \in owned /\ c[i] \in Blocks
  BY <1>3, Member DEF Whole
<1>5. /\ list' = list /\ owned' = owned /\ lock' = lock /\ at'[t] \in {"link", "chain"}
      /\ \A i \in 1..sz : /\ prev_blk'[c[i]] = prev_blk[c[i]]
                          /\ next_blk'[c[i]] = next_blk[c[i]]
                          /\ alloc_id'[c[i]] = alloc_id[c[i]]
  BY <1>2, <1>4 DEF Number, Link, CallsInv, CallsTypeOK
<1>6. InOrder(sz, c)'
  BY <1>3, <1>5, OrderKept DEF Whole
<1>7. Whole(sz, c, owned)'
  BY <1>3, <1>5, <1>6 DEF Whole
<1>8. Kept
  BY <1>3, <1>6 DEF Kept, Whole
<1>9. ListInv'
  BY <1>2, <1>5, <1>7, StillOn DEF HalfWay
<1> QED BY <1>8, <1>9

\* The head gets the new block for its newer neighbour.
LEMMA ListChain ==
  ASSUME CallsInv, Locked = TRUE, NEW t \in Threads, Chain(t)
  PROVE  ListInv'
<1> USE HeapCallsAssumption DEF Goto, Away
<1>1. at[t] \notin Away /\ at[t] = "chain"
  BY DEF Chain
<1>2. lock = t /\ lock # Null /\ blk[t] \in Blocks /\ blk[t] \notin owned
  BY <1>1, HolderList
<1>3a. PICK sz \in 0..Cardinality(Blocks) : \E c \in [1..sz -> Blocks] : Whole(sz, c, owned)
  BY <1>1, HolderList DEF HalfWay
<1>3. PICK c \in [1..sz -> Blocks] : Whole(sz, c, owned)
  BY <1>3a
<1>4. /\ list' = list /\ owned' = owned /\ lock' = lock /\ at'[t] = "publish"
      /\ blk' = blk /\ prev_blk' = prev_blk /\ alloc_id' = alloc_id
  BY DEF Chain, CallsInv, CallsTypeOK
<1>5. InOrder(sz, c)'
  BY <1>3, <1>4, OrderKept DEF Whole
<1>6. ASSUME NEW i \in 1..sz
      PROVE  next_blk'[c[i]] = IF i = 1 THEN blk[t] ELSE c[i - 1]
  <2>1. list = c[1] /\ list # Null /\ 1 \in 1..sz /\ list \in Blocks
    BY <1>3 DEF Whole, InOrder, First
  <2>2. i # 1 => c[i] # list
    BY <1>3, <2>1, Distinct DEF CallsInv, Whole
  <2>3. next_blk[c[i]] = Newer(c, i) /\ c[i] \in Blocks
    BY <1>3 DEF Whole
  <2>4. next_blk' = [next_blk EXCEPT ![list] = blk[t]] /\ next_blk \in [Blocks -> Pointers]
    BY <2>1 DEF Chain, CallsInv, CallsTypeOK
  <2> QED BY <2>1, <2>2, <2>3, <2>4 DEF Newer
<1>7. Shows(sz, c, owned')
  BY <1>3, <1>4 DEF Whole
<1>8. HalfWay(sz, c, at[lock], blk[lock])'
  BY <1>2, <1>4, <1>5, <1>6, <1>7 DEF HalfWay
<1> QED BY <1>2, <1>4, <1>8, StillOn

\* The new block becomes the head (cyfxtx.c:964).
LEMMA ListPublish ==
  ASSUME CallsInv, Locked = TRUE, NEW t \in Threads, Publish(t)
  PROVE  ListInv' /\ Gained
<1> USE HeapCallsAssumption DEF Goto, Away
<1>1. at[t] \notin Away /\ at[t] = "publish"
  BY DEF Publish
<1>2. PICK b \in Blocks : lock = t /\ lock # Null /\ blk[t] = b /\ b \notin owned
  BY <1>1, HolderList
<1>3a. PICK sz \in 0..Cardinality(Blocks) : \E c \in [1..sz -> Blocks] :
          HalfWay(sz, c, "publish", b)
  BY <1>1, <1>2, HolderList
<1>3b. PICK c \in [1..sz -> Blocks] : HalfWay(sz, c, "publish", b)
  BY <1>3a
<1>3. /\ InOrder(sz, c) /\ Shows(sz, c, owned)
      /\ \A i \in 1..sz : next_blk[c[i]] = IF i = 1 THEN b ELSE c[i - 1]
  BY <1>3b DEF HalfWay
<1>4. /\ list' = b /\ owned' = owned /\ lock' = lock /\ at'[t] = "footer"
      /\ blk' = blk /\ prev_blk' = prev_blk /\ next_blk' = next_blk /\ alloc_id' = alloc_id
  BY <1>2 DEF Publish, CallsInv, CallsTypeOK
<1>5. /\ prev_blk[b] = list /\ next_blk[b] = Null
      /\ \A x \in owned : alloc_id[x] < alloc_id[b]
  BY <1>1, <1>2 DEF CallsInv, IdInv
<1>5a. sz \in Nat
  BY FS_CardinalityType
<1> DEFINE d == Pushed(sz, c, b)
<1>6. /\ sz + 1 \in 0..Cardinality(Blocks) /\ InOrder(sz + 1, d)'
      /\ Shows(sz + 1, d, owned \cup {b})
  BY <1>3, <1>4, <1>5, <1>5a, PushOrder DEF CallsInv
<1>7. /\ sz + 1 \in Nat /\ d \in [1..(sz + 1) -> Blocks] /\ d[1] = b
      /\ \A i \in 2..(sz + 1) : d[i] = c[i - 1] /\ i - 1 \in 1..sz
  <2>1. c \in [1..sz -> Blocks] /\ b \in Blocks
    OBVIOUS
  <2>2. /\ sz + 1 \in Nat /\ d \in [1..(sz + 1) -> Blocks]
        /\ d[1] = b
        /\ \A i \in 2..(sz + 1) : d[i] = c[i - 1] /\ i - 1 \in 1..sz
        /\ \A i \in 1..sz : d[i + 1] = c[i] /\ i + 1 \in 2..(sz + 1)
    BY ONLY <1>5a, <2>1, PushedIs
  <2> QED BY <2>2
<1> HIDE DEF d
<1>8. ASSUME NEW i \in 1..(sz + 1)
      PROVE  next_blk'[d[i]] = Newer(d, i)
  <2>1. CASE i = 1
    BY <1>4, <1>5, <1>7, <2>1 DEF Newer
  <2>2. CASE i = 2
    <3>1. d[2] = c[1] /\ 1 \in 1..sz
      BY <1>7, <2>2
    <3> QED BY <1>3, <1>4, <1>7, <2>2, <3>1 DEF Newer
  <2>3. CASE i > 2
    <3>1. PICK j \in 2..sz : i = j + 1
      BY <2>3
    <3>2. d[i] = c[j] /\ d[j] = c[j - 1] /\ j \in 1..sz /\ j # 1 /\ i - 1 = j /\ i # 1
      BY <1>7, <2>3, <3>1
    <3> QED BY <1>3, <1>4, <3>2 DEF Newer
  <2> QED BY <2>1, <2>2, <2>3
<1>9. Whole(sz + 1, d, owned \cup {b})'
  BY <1>4, <1>6, <1>8 DEF Whole
<1>10. HalfWay(sz + 1, d, at[lock], blk[lock])'
  BY <1>2, <1>4, <1>9 DEF HalfWay
<1>11. ListInv'
  BY <1>2, <1>4, <1>6, <1>7, <1>10, StillOn
<1>12. \A i \in 1..sz : c[i] # b
  BY <1>2, <1>3, <1>5a, Member
<1>13. InOrder(sz + 1, Pushed(sz, c, b))'
  BY <1>6 DEF d
<1> QED BY <1>3, <1>6, <1>11, <1>12, <1>13 DEF Gained

\* The end signature and the counters do not touch the list.
LEMMA ListFooterCount ==
  ASSUME CallsInv, Locked = TRUE, NEW t \in Threads, Footer(t) \/ Count(t)
  PROVE  ListInv'
<1> USE HeapCallsAssumption DEF Goto, Away, MutexPut
<1>1. at[t] \notin Away /\ at[t] \in {"footer", "count"}
  BY DEF Footer, Count
<1>2. lock = t /\ lock # Null /\ blk[t] \in Blocks /\ blk[t] \notin owned
  BY <1>1, HolderList
<1>3a. PICK sz \in 0..Cardinality(Blocks) : \E c \in [1..sz -> Blocks] : Whole(sz, c, owned \cup {blk[t]})
  BY <1>1, HolderList DEF HalfWay
<1>3. PICK c \in [1..sz -> Blocks] : Whole(sz, c, owned \cup {blk[t]})
  BY <1>3a
<1>4. InOrder(sz, c)' /\ \A i \in 1..sz : next_blk'[c[i]] = Newer(c, i)
  BY <1>3 DEF Footer, Count, Whole, InOrder
<1>5. CASE Footer(t)
  <2>1. owned' = owned \cup {blk[t]} /\ lock' = Null
    BY <1>5 DEF Footer
  <2>2. Whole(sz, c, owned)'
    BY <1>3, <1>4, <2>1 DEF Whole
  <2> QED BY <2>1, <2>2, NowOver
<1>6. CASE Count(t)
  <2>1. (owned \cup {blk[t]})' = owned \cup {blk[t]} /\ lock' = t /\ at'[t] = "unlink_next"
    BY <1>2, <1>6 DEF Count, CallsInv, CallsTypeOK
  <2>2. Whole(sz, c, owned \cup {blk[t]})'
    BY <1>3, <1>4, <2>1 DEF Whole
  <2>3. HalfWay(sz, c, at[lock], blk[lock])'
    BY <2>1, <2>2 DEF HalfWay
  <2> QED BY <1>2, <2>1, <2>3, StillOn
<1> QED BY <1>5, <1>6

\* The mutex is given back with the list in order.
LEMMA ListRelease ==
  ASSUME CallsInv, Locked = TRUE, NEW t \in Threads, Release(t)
  PROVE  ListInv'
<1> USE HeapCallsAssumption DEF Goto, Away, MutexPut
<1>1. at[t] \notin Away /\ at[t] = "release"
  BY DEF Release
<1>2a. PICK sz \in 0..Cardinality(Blocks) : \E c \in [1..sz -> Blocks] : Whole(sz, c, owned)
  BY <1>1, HolderList DEF HalfWay
<1>2. PICK c \in [1..sz -> Blocks] : Whole(sz, c, owned)
  BY <1>2a
<1>3. owned' = owned /\ lock' = Null
  BY DEF Release
<1>4. Whole(sz, c, owned)'
  BY <1>2, <1>3 DEF Release, Whole, InOrder
<1> QED BY <1>3, <1>4, NowOver

\* The newer neighbour of the freed block takes over its older one.
LEMMA ListUnlinkNext ==
  ASSUME CallsInv, Locked = TRUE, NEW t \in Threads, UnlinkNext(t)
  PROVE  ListInv' /\ (Kept \/ Lost)
<1> USE HeapCallsAssumption DEF Goto, Away
<1>1. at[t] \notin Away /\ at[t] = "unlink_next"
  BY DEF UnlinkNext
<1>2. PICK b \in Blocks : lock = t /\ lock # Null /\ blk[t] = b /\ b \notin owned
  BY <1>1, HolderList
<1>3a. PICK sz \in 0..Cardinality(Blocks) : \E c \in [1..sz -> Blocks] :
        Whole(sz, c, owned \cup {b})
  BY <1>1, <1>2, HolderList DEF HalfWay
<1>3. PICK c \in [1..sz -> Blocks] :
        Whole(sz, c, owned \cup {b})
  BY <1>3a
<1>4. /\ list' = list /\ owned' = owned /\ lock' = lock /\ at'[t] = "unlink_prev"
      /\ blk' = blk /\ next_blk' = next_blk /\ alloc_id' = alloc_id
      /\ prev_blk' = IF next_blk[b] # Null THEN [prev_blk EXCEPT ![next_blk[b]] = prev_blk[b]]
                     ELSE prev_blk
  BY <1>2 DEF UnlinkNext, CallsInv, CallsTypeOK
<1>5. sz \in Nat
  BY FS_CardinalityType
<1>6. PICK pos \in 1..sz : c[pos] = b
  BY <1>3 DEF Whole, Shows
<1>7. next_blk[b] = Newer(c, pos)
  BY <1>3, <1>6 DEF Whole
<1>8. CASE pos = 1
  <2>1. next_blk[b] = Null /\ list = b
    BY <1>3, <1>6, <1>7, <1>8 DEF Newer, Whole, InOrder, First
  <2>2. prev_blk' = prev_blk
    BY <1>4, <2>1
  <2>3. InOrder(sz, c)'
    BY <1>3, <1>4, <1>5, <2>2, OrderKept DEF Whole
  <2>4. Whole(sz, c, owned \cup {b})'
    BY <1>3, <1>4, <2>3 DEF Whole
  <2>5. HalfWay(sz, c, at[lock], blk[lock])'
    BY <1>2, <1>4, <2>1, <2>4 DEF HalfWay
  <2>6. Kept
    BY <1>3, <2>3 DEF Kept, Whole
  <2> QED BY <1>2, <1>4, <2>5, <2>6, StillOn
<1>9. CASE pos > 1
  <2>1. next_blk[b] = c[pos - 1] /\ pos - 1 \in 1..sz /\ c[pos - 1] \in Blocks
    BY <1>7, <1>9 DEF Newer
  <2>2. prev_blk' = [prev_blk EXCEPT ![c[pos - 1]] = prev_blk[b]] /\ prev_blk \in [Blocks -> Pointers]
    BY <1>4, <2>1 DEF CallsInv, CallsTypeOK
  <2>3. \A i, j \in 1..sz : c[i] = c[j] => i = j
    BY <1>3, <1>5, Distinct DEF CallsInv, Whole
  <2>4. \A i \in 1..sz : i # pos - 1 => prev_blk'[c[i]] = prev_blk[c[i]]
    BY <2>1, <2>2, <2>3
  <2>5. prev_blk'[c[pos - 1]] = prev_blk[c[pos]] /\ prev_blk'[b] = prev_blk[b] /\ list # b
    <3>1. list = c[1] /\ 1 \in 1..sz
      BY <1>3 DEF Whole, InOrder, First
    <3> QED BY <1>6, <1>9, <2>1, <2>2, <2>3, <2>4, <3>1
  <2> DEFINE d == Dropped(sz, c, pos)
  <2>6. InOrder(sz - 1, d)' /\ Shows(sz - 1, d, (owned \cup {b}) \ {c[pos]})
    <3>1. list' = IF pos = 1 THEN prev_blk[c[1]] ELSE list
      BY <1>4, <1>9
    <3>2. pos > 1 => prev_blk'[c[pos - 1]] = prev_blk[c[pos]]
      BY <2>5
    <3>3. CallsTypeOK /\ InOrder(sz, c) /\ Shows(sz, c, owned \cup {b}) /\ alloc_id' = alloc_id
      BY <1>3, <1>4 DEF CallsInv, Whole
    <3> QED BY <1>5, <2>4, <3>1, <3>2, <3>3, DropOrder
  <2>7. /\ sz - 1 \in Nat /\ d \in [1..(sz - 1) -> Blocks]
        /\ \A i \in 1..(sz - 1) : i < pos => d[i] = c[i] /\ i \in 1..sz
        /\ \A i \in 1..(sz - 1) : i >= pos => d[i] = c[i + 1] /\ i + 1 \in 1..sz
    BY <1>5, DroppedIs
  <2> HIDE DEF d
  <2>8. prev_blk[b] = IF pos = sz THEN Null ELSE c[pos + 1]
    BY <1>3, <1>6 DEF Whole, InOrder
  <2>9. ASSUME NEW i \in 1..(sz - 1)
        PROVE  IF d[i] = prev_blk'[b]
               THEN i > 1 /\ next_blk'[d[i]] = b /\ next_blk'[b] = d[i - 1]
               ELSE next_blk'[d[i]] = Newer(d, i)
    <3>1. CASE i < pos
      <4>1. d[i] = c[i] /\ i \in 1..sz /\ i # pos + 1
        BY <2>7, <3>1
      <4>2. d[i] # prev_blk'[b]
        <5>1. pos # sz => pos + 1 \in 1..sz
          OBVIOUS
        <5> QED BY <2>3, <2>5, <2>8, <4>1, <5>1
      <4>3. next_blk[c[i]] = Newer(c, i)
        BY <1>3, <4>1 DEF Whole
      <4>4. i # 1 => i - 1 \in 1..(sz - 1) /\ i - 1 < pos
        BY <3>1
      <4>5. i # 1 => d[i - 1] = c[i - 1]
        BY <2>7, <4>4
      <4> QED BY <1>4, <4>1, <4>2, <4>3, <4>5 DEF Newer
    <3>2. CASE i = pos
      <4>1. d[i] = c[pos + 1] /\ pos + 1 \in 1..sz /\ pos # sz /\ pos + 1 # 1 /\ (pos + 1) - 1 = pos
        BY <2>7, <3>2
      <4>2. d[i] = prev_blk'[b]
        BY <2>5, <2>8, <4>1
      <4>3. next_blk[c[pos + 1]] = c[pos]
        BY <1>3, <4>1 DEF Whole, Newer
      <4>4. i - 1 \in 1..(sz - 1) /\ i - 1 < pos
        BY <1>9, <3>2
      <4>5. d[i - 1] = c[pos - 1]
        BY <2>7, <3>2, <4>4
      <4> QED BY <1>4, <1>6, <1>9, <2>1, <3>2, <4>1, <4>2, <4>3, <4>5
    <3>3. CASE i > pos
      <4>1. d[i] = c[i + 1] /\ i + 1 \in 1..sz /\ i + 1 # pos + 1 /\ i + 1 # 1 /\ (i + 1) - 1 = i
            /\ i # 1
        BY <2>7, <3>3
      <4>2. d[i] # prev_blk'[b]
        <5>1. pos # sz => pos + 1 \in 1..sz
          OBVIOUS
        <5> QED BY <2>3, <2>5, <2>8, <4>1, <5>1
      <4>3. next_blk[c[i + 1]] = c[i]
        BY <1>3, <4>1 DEF Whole, Newer
      <4>4. i - 1 \in 1..(sz - 1) /\ i - 1 >= pos /\ (i - 1) + 1 = i
        BY <3>3
      <4>5. d[i - 1] = c[i]
        BY <2>7, <4>4
      <4> QED BY <1>4, <4>1, <4>2, <4>3, <4>5 DEF Newer
    <3> QED BY <3>1, <3>2, <3>3
  <2>10. Shows(sz - 1, d, owned')
    <3>1. (owned \cup {b}) \ {c[pos]} = owned
      BY <1>2, <1>6
    <3> QED BY <1>4, <2>6, <3>1
  <2>11. HalfWay(sz - 1, d, at[lock], blk[lock])'
    BY <1>2, <1>4, <2>5, <2>6, <2>9, <2>10 DEF HalfWay
  <2>12. sz - 1 \in 0..Cardinality(Blocks)
    BY <1>6, <2>7, FS_CardinalityType
  <2>13. ListInv'
    BY <1>2, <1>4, <2>7, <2>11, <2>12, StillOn
  <2>14. Lost
    <3>1. InOrder(sz, c) /\ sz \in 1..Cardinality(Blocks)
      BY <1>3, <1>5, <1>6, FS_CardinalityType DEF Whole
    <3>2. InOrder(sz - 1, Dropped(sz, c, pos))'
      BY <2>6 DEF d
    <3> QED BY <3>1, <3>2 DEF Lost
  <2> QED BY <2>13, <2>14
<1> QED BY <1>8, <1>9

\* The older neighbour takes over the newer one.
LEMMA ListUnlinkPrev ==
  ASSUME CallsInv, Locked = TRUE, NEW t \in Threads, UnlinkPrev(t)
  PROVE  ListInv'
<1> USE HeapCallsAssumption DEF Goto, Away
<1>1. at[t] \notin Away /\ at[t] = "unlink_prev"
  BY DEF UnlinkPrev
<1>2. PICK b \in Blocks : lock = t /\ lock # Null /\ blk[t] = b /\ b \notin owned
  BY <1>1, HolderList
<1>3a. PICK sz \in 0..Cardinality(Blocks) : \E c \in [1..sz -> Blocks] :
          HalfWay(sz, c, "unlink_prev", b)
  BY <1>1, <1>2, HolderList
<1>3. PICK c \in [1..sz -> Blocks] : HalfWay(sz, c, "unlink_prev", b)
  BY <1>3a
<1>4. /\ list' = list /\ owned' = owned /\ lock' = lock /\ at'[t] = "unhead"
      /\ blk' = blk /\ prev_blk' = prev_blk /\ alloc_id' = alloc_id
      /\ next_blk' = IF prev_blk[b] # Null THEN [next_blk EXCEPT ![prev_blk[b]] = next_blk[b]]
                     ELSE next_blk
      /\ next_blk \in [Blocks -> Pointers] /\ prev_blk[b] \in Pointers
  BY <1>2 DEF UnlinkPrev, CallsInv, CallsTypeOK
<1>5. sz \in Nat
  BY FS_CardinalityType
<1>6. InOrder(sz, c) /\ InOrder(sz, c)'
  <2>1. InOrder(sz, c)
    BY <1>3 DEF HalfWay, Whole
  <2> QED BY <1>4, <1>5, <2>1, OrderKept
<1>7. \A i, j \in 1..sz : c[i] = c[j] => i = j
  BY <1>5, <1>6, Distinct DEF CallsInv
<1>8. CASE list = b
  <2>1. Whole(sz, c, owned \cup {b})
    BY <1>3, <1>8 DEF HalfWay
  <2>2. list = c[1] /\ 1 \in 1..sz
    BY <1>5, <1>6, <1>8 DEF InOrder, First
  <2>3. prev_blk[b] = (IF sz = 1 THEN Null ELSE c[2]) /\ next_blk[b] = Null
    BY <1>8, <2>1, <2>2 DEF Whole, InOrder, Newer
  <2>4. ASSUME NEW i \in 1..sz
        PROVE  next_blk'[c[i]] = IF i <= 2 THEN Null ELSE c[i - 1]
    <3>1. next_blk[c[i]] = Newer(c, i) /\ c[i] \in Blocks
      BY <2>1 DEF Whole
    <3>2. CASE i = 2
      <4>1. sz # 1
        BY <3>2
      <4> QED BY <1>4, <2>3, <3>1, <3>2, <4>1
    <3>3. CASE i # 2
      <4>1. sz # 1 => 2 \in 1..sz
        BY <1>5, <2>2
      <4>2. c[i] # prev_blk[b]
        BY <1>7, <2>3, <3>1, <3>3, <4>1
      <4> QED BY <1>4, <3>1, <3>3, <4>2 DEF Newer
    <3> QED BY <3>2, <3>3
  <2>5. Shows(sz, c, owned' \cup {b})
    BY <1>4, <2>1 DEF Whole
  <2>6. HalfWay(sz, c, at[lock], blk[lock])'
    BY <1>2, <1>4, <1>6, <1>8, <2>4, <2>5 DEF HalfWay
  <2> QED BY <1>2, <1>4, <2>6, StillOn
<1>9. CASE list # b
  <2>1. /\ Shows(sz, c, owned)
        /\ \A i \in 1..sz :
             IF c[i] = prev_blk[b] THEN i > 1 /\ next_blk[c[i]] = b /\ next_blk[b] = c[i - 1]
                                   ELSE next_blk[c[i]] = Newer(c, i)
    BY <1>3, <1>9 DEF HalfWay
  <2>2. ASSUME NEW i \in 1..sz PROVE next_blk'[c[i]] = Newer(c, i)
    <3>1. c[i] \in Blocks
      OBVIOUS
    <3>2. CASE c[i] = prev_blk[b]
      <4>1. i > 1 /\ next_blk[b] = c[i - 1]
        BY <2>1, <3>2
      <4> QED BY <1>4, <3>1, <3>2, <4>1 DEF Newer
    <3>3. CASE c[i] # prev_blk[b]
      BY <1>4, <2>1, <3>1, <3>3
    <3> QED BY <3>2, <3>3
  <2>3. Whole(sz, c, owned)'
    BY <1>4, <1>6, <2>1, <2>2 DEF Whole
  <2>4. HalfWay(sz, c, at[lock], blk[lock])'
    BY <1>2, <1>4, <1>9, <2>3 DEF HalfWay
  <2> QED BY <1>2, <1>4, <2>4, StillOn
<1> QED BY <1>8, <1>9

\* A freed head hands the list to its older neighbour.
LEMMA ListUnhead ==
  ASSUME CallsInv, Locked = TRUE, NEW t \in Threads, Unhead(t)
  PROVE  ListInv' /\ (Kept \/ Lost)
<1> USE HeapCallsAssumption DEF Goto, Away
<1>1. at[t] \notin Away /\ at[t] = "unhead"
  BY DEF Unhead
<1>2. PICK b \in Blocks : lock = t /\ lock # Null /\ blk[t] = b /\ b \notin owned
  BY <1>1, HolderList
<1>3a. PICK sz \in 0..Cardinality(Blocks) : \E c \in [1..sz -> Blocks] :
          HalfWay(sz, c, "unhead", b)
  BY <1>1, <1>2, HolderList
<1>3. PICK c \in [1..sz -> Blocks] : HalfWay(sz, c, "unhead", b)
  BY <1>3a
<1>4. /\ list' = (IF list = b THEN prev_blk[b] ELSE list) /\ owned' = owned /\ lock' = lock
      /\ at'[t] = "release" /\ blk' = blk /\ prev_blk' = prev_blk /\ next_blk' = next_blk
      /\ alloc_id' = alloc_id
  BY <1>2 DEF Unhead, CallsInv, CallsTypeOK
<1>5. sz \in Nat
  BY FS_CardinalityType
<1>6. CASE list # b
  <2>1. Whole(sz, c, owned) /\ list' = list
    BY <1>3, <1>4, <1>6 DEF HalfWay
  <2>2. Whole(sz, c, owned)'
    BY <1>4, <2>1 DEF Whole, InOrder
  <2>3. HalfWay(sz, c, at[lock], blk[lock])'
    BY <1>2, <1>4, <2>2 DEF HalfWay
  <2>4. InOrder(sz, c) /\ InOrder(sz, c)'
    BY <2>1, <2>2 DEF Whole
  <2>5. Kept
    BY <2>4 DEF Kept
  <2> QED BY <1>2, <1>4, <2>3, <2>5, StillOn
<1>7. CASE list = b
  <2>1. /\ InOrder(sz, c) /\ Shows(sz, c, owned \cup {b})
        /\ \A i \in 1..sz : next_blk[c[i]] = IF i <= 2 THEN Null ELSE c[i - 1]
    BY <1>3, <1>7 DEF HalfWay
  <2>2. b = c[1] /\ 1 \in 1..sz
    BY <1>5, <1>7, <2>1 DEF InOrder, First
  <2> DEFINE d == Dropped(sz, c, 1)
  <2>3. InOrder(sz - 1, d)' /\ Shows(sz - 1, d, (owned \cup {b}) \ {c[1]})
    <3>1. CallsTypeOK
      BY DEF CallsInv
    <3>2. /\ alloc_id' = alloc_id /\ list' = prev_blk[c[1]]
          /\ \A i \in 1..sz : i # 1 - 1 => prev_blk'[c[i]] = prev_blk[c[i]]
          /\ ~(1 > 1)
      BY <1>4, <1>7, <2>2
    <3> QED BY ONLY <1>5, <2>1, <2>2, <3>1, <3>2, DropOrder, 1 \in 1..sz, c \in [1..sz -> Blocks]
  <2>4. /\ sz - 1 \in Nat /\ d \in [1..(sz - 1) -> Blocks]
        /\ \A i \in 1..(sz - 1) : d[i] = c[i + 1] /\ i + 1 \in 1..sz
    <3>1. \A i \in 1..(sz - 1) : i >= 1
      OBVIOUS
    <3> QED BY <1>5, <2>2, <3>1, DroppedIs
  <2> HIDE DEF d
  <2>5. ASSUME NEW i \in 1..(sz - 1) PROVE next_blk'[d[i]] = Newer(d, i)
    <3>1. /\ d[i] = c[i + 1] /\ i + 1 \in 1..sz /\ (i + 1) - 1 = i /\ (i + 1 <= 2 <=> i = 1)
      BY <2>4
    <3>2. next_blk[c[i + 1]] = IF i = 1 THEN Null ELSE c[i]
      BY <2>1, <3>1
    <3>3. i # 1 => i - 1 \in 1..(sz - 1) /\ (i - 1) + 1 = i
      OBVIOUS
    <3>4. i # 1 => d[i - 1] = c[i]
      BY <2>4, <3>3
    <3> QED BY <1>4, <3>1, <3>2, <3>4 DEF Newer
  <2>6. Shows(sz - 1, d, owned')
    <3>1. (owned \cup {b}) \ {c[1]} = owned
      BY <1>2, <2>2
    <3> QED BY <1>4, <2>3, <3>1
  <2>7. Whole(sz - 1, d, owned)'
    BY <2>3, <2>5, <2>6 DEF Whole
  <2>8. HalfWay(sz - 1, d, at[lock], blk[lock])'
    BY <1>2, <1>4, <2>7 DEF HalfWay
  <2>9. sz - 1 \in 0..Cardinality(Blocks)
    BY <2>2, <2>4, FS_CardinalityType
  <2>10. ListInv'
    BY <1>2, <1>4, <2>4, <2>8, <2>9, StillOn
  <2>11. Lost
    <3>1. sz \in 1..Cardinality(Blocks)
      BY <1>5, <2>2, FS_CardinalityType
    <3>2. InOrder(sz - 1, Dropped(sz, c, 1))'
      BY <2>3 DEF d
    <3> QED BY <2>1, <2>2, <3>1, <3>2 DEF Lost
  <2> QED BY <2>10, <2>11
<1> QED BY <1>6, <1>7

\* A corruption check changes nothing.
LEMMA ListCheck ==
  ASSUME CallsInv, NEW t \in Threads,
         CheckBegin(t) \/ CheckNext(t) \/ CheckAstray(t) \/ CheckEnd(t)
  PROVE  ListInv'
<1> USE DEF Goto, heapVars
<1>1. /\ lock' = lock /\ at[t] \in Away /\ t # lock
      /\ list' = list /\ owned' = owned /\ prev_blk' = prev_blk /\ next_blk' = next_blk
      /\ alloc_id' = alloc_id
      /\ lock # Null => at'[lock] = at[lock] /\ blk'[lock] = blk[lock]
  BY HeapCallsAssumption
     DEF CheckBegin, CheckNext, CheckAstray, CheckEnd, CallsInv, CallsTypeOK, MutexInv, Away,
         AllocSteps, FreeSteps
<1>2a. PICK sz \in 0..Cardinality(Blocks) : \E c \in [1..sz -> Blocks] :
        IF lock = Null THEN Whole(sz, c, owned) ELSE HalfWay(sz, c, at[lock], blk[lock])
  BY DEF CallsInv, ListInv
<1>2. PICK c \in [1..sz -> Blocks] :
        IF lock = Null THEN Whole(sz, c, owned) ELSE HalfWay(sz, c, at[lock], blk[lock])
  BY <1>2a
<1>3. CASE lock = Null
  <2>1. Whole(sz, c, owned)'
    BY <1>1, <1>2, <1>3 DEF Whole, InOrder
  <2> QED BY <1>1, <1>3, <2>1, NowOver
<1>4. CASE lock # Null
  <2>1. HalfWay(sz, c, at[lock], blk[lock])'
    BY <1>1, <1>2, <1>4 DEF HalfWay, Whole, InOrder
  <2> QED BY <1>1, <1>4, <2>1, StillOn
<1> QED BY <1>3, <1>4

\* While nothing is allocated the listed blocks, the one on its way out included, are a
\* sound place for a check.
LEMMA ListSound ==
  ASSUME CallsInv, \A s \in Threads : at[s] \notin AllocSteps
  PROVE  \E S \in SUBSET Blocks : Sound(S) /\ list \in S \cup {Null}
<1>1. CallsTypeOK /\ MutexInv /\ PlaceInv
  BY DEF CallsInv
<1>2. PICK sz \in 0..Cardinality(Blocks) : \E c \in [1..sz -> Blocks] :
        IF lock = Null THEN Whole(sz, c, owned) ELSE HalfWay(sz, c, at[lock], blk[lock])
  BY DEF CallsInv, ListInv
<1>3. PICK c \in [1..sz -> Blocks] :
        IF lock = Null THEN Whole(sz, c, owned) ELSE HalfWay(sz, c, at[lock], blk[lock])
  BY <1>2
<1>4. sz \in Nat
  BY FS_CardinalityType, HeapCallsAssumption
<1>5. lock # Null => at[lock] \in FreeSteps
  BY <1>1 DEF MutexInv
<1>6. InOrder(sz, c)
  BY <1>3, <1>5 DEF HalfWay, Whole, FreeSteps
<1>7. ASSUME NEW i \in 1..sz
      PROVE  c[i] \in owned \/ (lock # Null /\ c[i] = blk[lock])
  <2>1. Shows(sz, c, owned) \/ (lock # Null /\ Shows(sz, c, owned \cup {blk[lock]}))
    BY <1>3, <1>5 DEF HalfWay, Whole, FreeSteps
  <2> QED BY <1>4, <2>1, Member
<1> DEFINE S == {c[i] : i \in 1..sz}
<1>8. S \subseteq Blocks /\ S \subseteq signed \ spoiled
  BY <1>1, <1>5, <1>7 DEF PlaceInv
<1>9. ASSUME NEW x \in S PROVE prev_blk[x] \in S \cup {Null} /\ Overlap(x) \subseteq unused
  <2>1. PICK i \in 1..sz : x = c[i]
    OBVIOUS
  <2>2. prev_blk[x] \in S \cup {Null}
    <3>1. i # sz => i + 1 \in 1..sz
      BY <1>4
    <3> QED BY <1>6, <2>1, <3>1 DEF InOrder
  <2>3. x \in Blocks \ unused
    BY <1>1, <1>7, <2>1 DEF MutexInv
  <2> QED BY <1>1, <2>2, <2>3 DEF PlaceInv
<1>10. list \in S \cup {Null}
  <2>1. sz # 0 => 1 \in 1..sz
    BY <1>4
  <2> QED BY <1>6, <2>1 DEF InOrder, First
<1> HIDE DEF S
<1> QED BY <1>8, <1>9, <1>10 DEF Sound

\* A free that is about to link the neighbours is the older one of its newer neighbour.
LEMMA NewerPoints ==
  ASSUME CallsInv, NEW t \in Threads, at[t] = "unlink_next", next_blk[blk[t]] # Null
  PROVE  next_blk[blk[t]] \in Blocks /\ prev_blk[next_blk[blk[t]]] = blk[t]
<1>1. at[t] \notin Away
  BY DEF Away
<1>2. PICK b \in Blocks : blk[t] = b
  BY <1>1, HolderList
<1>3. PICK sz \in 0..Cardinality(Blocks) : \E c \in [1..sz -> Blocks] :
        Whole(sz, c, owned \cup {b})
  BY <1>1, <1>2, HolderList DEF HalfWay
<1>4. PICK c \in [1..sz -> Blocks] : Whole(sz, c, owned \cup {b})
  BY <1>3
<1>5. PICK pos \in 1..sz : c[pos] = b
  BY <1>4 DEF Whole, Shows
<1>6. pos # 1 /\ next_blk[b] = c[pos - 1]
  BY <1>2, <1>4, <1>5 DEF Whole, Newer
<1>7. sz \in Nat
  BY FS_CardinalityType, HeapCallsAssumption
<1>8. pos - 1 \in 1..sz /\ pos - 1 # sz /\ (pos - 1) + 1 = pos
  BY <1>6, <1>7
<1>9. prev_blk[c[pos - 1]] = c[pos]
  BY <1>4, <1>8 DEF Whole, InOrder
<1> QED BY <1>2, <1>5, <1>6, <1>8, <1>9

\* What is sound stays sound, but for an allocation.
LEMMA SoundKept ==
  ASSUME CallsInv, CallsTypeOK', Locked = TRUE, NEW t \in Threads, Caller(t),
         at[t] \notin AllocSteps, \A b \in Blocks : ~Take(t, b),
         NEW S \in SUBSET Blocks, Sound(S)
  PROVE  Sound(S)'
<1>1. CallsTypeOK /\ MutexInv
  BY DEF CallsInv
<1>2. CASE UnlinkNext(t)
  <2>1. at[t] = "unlink_next" /\ at[t] \notin Away
    BY <1>2 DEF UnlinkNext, Goto, Away
  <2>2. UNCHANGED <<signed, spoiled, unused>>
    BY <1>2 DEF UnlinkNext
  <2>3. PICK b \in Blocks : blk[t] = b
    BY <1>1, <2>1, Holder
  <2>4. CASE next_blk[b] = Null
    BY <1>2, <2>2, <2>3, <2>4 DEF UnlinkNext, Sound, Overlap
  <2>5. CASE next_blk[b] # Null
    <3>1. PICK x \in Blocks : next_blk[b] = x /\ prev_blk[x] = b
      BY <2>1, <2>3, <2>5, NewerPoints
    <3>2. prev_blk' = [prev_blk EXCEPT ![x] = prev_blk[b]] /\ prev_blk \in [Blocks -> Pointers]
      BY <1>1, <1>2, <2>3, <2>5, <3>1 DEF UnlinkNext, CallsTypeOK
    <3>3. x \in S => b \in S
      BY <3>1, HeapCallsAssumption DEF Sound
    <3>4. \A y \in S : prev_blk'[y] \in S \cup {Null}
      BY <3>2, <3>3 DEF Sound
    <3> QED BY <2>2, <3>4 DEF Sound, Overlap
  <2> QED BY <2>4, <2>5
<1>3. CASE ~UnlinkNext(t)
  <2>1. prev_blk' = prev_blk /\ signed' = signed /\ spoiled' = spoiled
    BY <1>3 DEF Caller, Give, Number, Link, Chain, Publish, Footer, Count, UnlinkPrev, Unhead,
                Release, CheckBegin, CheckNext, CheckAstray, CheckEnd, Goto, AllocSteps, heapVars
  <2>2. unused \subseteq unused'
    BY <1>3 DEF Caller, Give, Number, Link, Chain, Publish, Footer, Count, UnlinkPrev, Unhead,
                Release, CheckBegin, CheckNext, CheckAstray, CheckEnd, Goto, AllocSteps, heapVars
  <2> QED BY <2>1, <2>2 DEF Sound, Overlap
<1> QED BY <1>2, <1>3

\* Every statement keeps what is said of the checks.
LEMMA ChecksKept ==
  ASSUME CallsInv, Locked = TRUE, CallsTypeOK', NEW t \in Threads, Caller(t)
  PROVE  CheckInv'
<1> USE HeapCallsAssumption DEF AllocSteps
<1>1. CallsTypeOK /\ CheckInv
  BY DEF CallsInv
<1>2. ASSUME NEW b \in Blocks, Take(t, b) PROVE CheckInv'
  <2>1. /\ at' = [at EXCEPT ![t] = "number"] /\ alarm' = alarm
        /\ beside' = beside \cup {s \in Threads : at[s] = "check"}
    BY <1>2 DEF Take, Goto
  <2>2. \A s \in Threads : at'[s] = "check" => s \in beside'
    BY <1>1, <2>1 DEF CallsTypeOK
  <2> QED BY <1>1, <2>1, <2>2 DEF CheckInv
<1>3. CASE at[t] \in AllocSteps
  <2>1. /\ at' \in [Threads -> AllocSteps \cup FreeSteps \cup Away] /\ beside' = beside
        /\ alarm' = alarm /\ \A s \in Threads : at'[s] = "check" => at[s] = "check"
    BY <1>1, <1>3 DEF Caller, Take, Give, Number, Link, Chain, Publish, Footer, Count, UnlinkNext,
         UnlinkPrev, Unhead, Release, CheckBegin, CheckNext, CheckAstray, CheckEnd, Goto,
         CallsTypeOK, checkVars
  <2>2. \A s \in Threads : at'[s] = "check" => s \in beside'
    BY <1>1, <1>3, <2>1 DEF CheckInv
  <2> QED BY <1>1, <2>1, <2>2 DEF CheckInv
<1>4. CASE CheckBegin(t)
  <2>1. /\ at' = [at EXCEPT ![t] = "check"] /\ blk' = [blk EXCEPT ![t] = list]
        /\ at[t] = "idle" /\ alarm' = alarm \ {t} /\ UNCHANGED heapVars
        /\ beside' = IF \E s \in Threads : at[s] \in AllocSteps THEN beside \cup {t}
                     ELSE beside \ {t}
    BY <1>4 DEF CheckBegin, Goto
  <2>2. alarm' \subseteq beside'
    BY <1>1, <2>1 DEF CheckInv
  <2>3. \A s \in Threads : /\ at'[s] = IF s = t THEN "check" ELSE at[s]
                          /\ blk'[s] = IF s = t THEN list ELSE blk[s]
    BY <1>1, <2>1 DEF CallsTypeOK
  <2>4. \A s, r \in Threads : at'[s] = "check" /\ at'[r] \in AllocSteps => s \in beside'
    BY <1>1, <2>1, <2>3 DEF CheckInv
  <2>5. \A S \in SUBSET Blocks : Sound(S) => Sound(S)'
    BY <2>1 DEF Sound, Overlap, heapVars
  <2>6. ASSUME NEW s \in Threads, at'[s] = "check", s \notin beside'
        PROVE  \E S \in SUBSET Blocks : Sound(S)' /\ blk'[s] \in S \cup {Null}
    <3>1. CASE s = t
      <4>1. \A r \in Threads : at[r] \notin AllocSteps
        BY <2>1, <2>6, <3>1
      <4>2. PICK S \in SUBSET Blocks : Sound(S) /\ list \in S \cup {Null}
        BY <4>1, ListSound
      <4> QED BY <2>3, <2>5, <3>1, <4>2
    <3>2. CASE s # t
      <4>1. at[s] = "check" /\ s \notin beside /\ blk'[s] = blk[s]
        BY <2>1, <2>3, <2>6, <3>2
      <4>2. PICK S \in SUBSET Blocks : Sound(S) /\ blk[s] \in S \cup {Null}
        BY <1>1, <4>1 DEF CheckInv
      <4> QED BY <2>5, <4>1, <4>2
    <3> QED BY <3>1, <3>2
  <2> QED BY <2>2, <2>4, <2>6 DEF CheckInv
<1>5. CASE at[t] \notin AllocSteps /\ ~CheckBegin(t) /\ \A b \in Blocks : ~Take(t, b)
  <2>1. /\ beside' = beside
        /\ \A s \in Threads : s # t => at'[s] = at[s] /\ blk'[s] = blk[s]
        /\ at'[t] \notin AllocSteps
        /\ at'[t] = "check" => at[t] = "check" /\ (CheckNext(t) \/ CheckAstray(t))
        /\ alarm' = alarm \/ CheckEnd(t)
    BY <1>1, <1>5 DEF Caller, Give, Number, Link, Chain, Publish, Footer, Count, UnlinkNext,
         UnlinkPrev, Unhead, Release, CheckNext, CheckAstray, CheckEnd, Goto, CallsTypeOK, checkVars
  <2>2. ASSUME at[t] = "check", t \notin beside
        PROVE  \E S \in SUBSET Blocks : Sound(S) /\ Sound(S)' /\ blk[t] \in S \cup {Null}
    BY <1>1, <1>5, <2>2, SoundKept DEF CheckInv
  <2>3. alarm' \subseteq beside'
    <3>1. CASE alarm' = alarm
      BY <1>1, <2>1, <3>1 DEF CheckInv
    <3>2. CASE CheckEnd(t) /\ alarm' # alarm
      <4>1. alarm' = alarm \cup {t} /\ blk[t] \in Blocks \ (signed \ spoiled) /\ at[t] = "check"
        BY <3>2 DEF CheckEnd, Goto
      <4>2. t \in beside
        <5>1. SUFFICES ASSUME t \notin beside PROVE FALSE
          OBVIOUS
        <5>2. PICK S \in SUBSET Blocks : Sound(S) /\ blk[t] \in S \cup {Null}
          BY <2>2, <4>1, <5>1
        <5> QED BY <4>1, <5>2 DEF Sound
      <4> QED BY <1>1, <2>1, <4>1, <4>2 DEF CheckInv
    <3> QED BY <2>1, <3>1, <3>2
  <2>4. \A s, r \in Threads : at'[s] = "check" /\ at'[r] \in AllocSteps => s \in beside'
    BY <1>1, <2>1 DEF CheckInv
  <2>5. ASSUME NEW s \in Threads, at'[s] = "check", s \notin beside'
        PROVE  \E S \in SUBSET Blocks : Sound(S)' /\ blk'[s] \in S \cup {Null}
    <3>1. CASE s # t
      <4>1. at[s] = "check" /\ s \notin beside /\ blk'[s] = blk[s]
        BY <2>1, <2>5, <3>1
      <4>2. PICK S \in SUBSET Blocks : Sound(S) /\ blk[s] \in S \cup {Null}
        BY <1>1, <4>1 DEF CheckInv
      <4> QED BY <1>5, <4>1, <4>2, SoundKept
    <3>2. CASE s = t
      <4>1. at[t] = "check" /\ t \notin beside /\ (CheckNext(t) \/ CheckAstray(t))
        BY <2>1, <2>5, <3>2
      <4>2. PICK S \in SUBSET Blocks : Sound(S) /\ Sound(S)' /\ blk[t] \in S \cup {Null}
        BY <2>2, <4>1
      <4>3. blk[t] \notin spoiled
        BY <1>1, <4>2 DEF Sound, CallsTypeOK
      <4>4. blk[t] \in signed /\ blk' = [blk EXCEPT ![t] = prev_blk[blk[t]]]
        BY <4>1, <4>3 DEF CheckNext, CheckAstray
      <4>5. blk[t] \in S
        BY <1>1, <4>2, <4>4 DEF CallsTypeOK
      <4>6. blk'[t] = prev_blk[blk[t]]
        BY <1>1, <4>4 DEF CallsTypeOK
      <4> QED BY <3>2, <4>2, <4>5, <4>6 DEF Sound
    <3> QED BY <3>1, <3>2
  <2> QED BY <2>3, <2>4, <2>5 DEF CheckInv
<1> QED BY <1>2, <1>3, <1>4, <1>5

\* The invariant holds at the start.
LEMMA CallsStart == HeapInit => CallsInv
<1> SUFFICES ASSUME HeapInit PROVE CallsInv
  OBVIOUS
<1>1. CallsTypeOK
  BY HeapCallsAssumption DEF HeapInit, CallsTypeOK, Pointers, Away
<1>2. MutexInv /\ IdInv /\ PlaceInv /\ CheckInv
  BY HeapCallsAssumption
     DEF HeapInit, MutexInv, IdInv, PlaceInv, Overlap, CheckInv, Away, AllocSteps
<1>3. ListInv
  <2>1. 0 \in 0..Cardinality(Blocks) /\ [i \in 1..0 |-> Null] \in [1..0 -> Blocks]
    BY HeapCallsAssumption, FS_CardinalityType
  <2>2. Whole(0, [i \in 1..0 |-> Null], owned) /\ lock = Null
    BY DEF HeapInit, Whole, InOrder, Shows, First
  <2> QED BY <2>1, <2>2 DEF ListInv
<1> QED BY <1>1, <1>2, <1>3 DEF CallsInv

\* Every statement keeps the list.
LEMMA ListsKept ==
  ASSUME CallsInv, Locked = TRUE, CallsTypeOK', NEW t \in Threads, Caller(t)
  PROVE  ListInv'
<1>1. CASE \E b \in Blocks : Take(t, b) \/ Give(t, b)
  BY <1>1, ListTake
<1>2. CASE CheckBegin(t) \/ CheckNext(t) \/ CheckAstray(t) \/ CheckEnd(t)
  BY <1>2, ListCheck
<1>3. CASE Number(t) \/ Link(t)
  BY <1>3, ListNumberLink
<1>4. CASE Chain(t)
  BY <1>4, ListChain
<1>5. CASE Publish(t)
  BY <1>5, ListPublish
<1>6. CASE Footer(t) \/ Count(t)
  BY <1>6, ListFooterCount
<1>7. CASE UnlinkNext(t)
  BY <1>7, ListUnlinkNext
<1>8. CASE UnlinkPrev(t)
  BY <1>8, ListUnlinkPrev
<1>9. CASE Unhead(t)
  BY <1>9, ListUnhead
<1>10. CASE Release(t)
  BY <1>10, ListRelease
<1> QED BY <1>1, <1>2, <1>3, <1>4, <1>5, <1>6, <1>7, <1>8, <1>9, <1>10 DEF Caller

\* What is written over a place not in use disturbs nobody but a check beside an
\* allocation.
LEMMA OverwriteKeeps ==
  ASSUME CallsInv, NEW c \in Blocks, Overwrite(c)
  PROVE  CallsInv'
<1>1. PICK b \in Overlap(c) \ spoiled : spoiled' = spoiled \cup {b}
  BY DEF Overwrite
<1>2. /\ UNCHANGED <<owned, unused, prev_blk, next_blk, alloc_id, signed, list, allocCnt,
                    freeCnt, lock, at, blk, alarm, beside>>
      /\ c \notin unused /\ b \in Blocks /\ c \in Overlap(b)
  BY DEF Overwrite, callVars, checkVars, Overlap
<1>3. CallsTypeOK /\ MutexInv /\ IdInv /\ ListInv /\ PlaceInv /\ CheckInv
  BY DEF CallsInv
<1>4. b \in unused
  BY <1>1, <1>2, <1>3 DEF PlaceInv
<1>5. CallsTypeOK' /\ MutexInv' /\ IdInv'
  BY <1>1, <1>2, <1>3 DEF CallsTypeOK, MutexInv, IdInv
<1>6. ListInv'
  <2>1. /\ owned' = owned /\ prev_blk' = prev_blk /\ next_blk' = next_blk /\ alloc_id' = alloc_id
        /\ list' = list /\ lock' = lock /\ at' = at /\ blk' = blk
    BY <1>2
  <2> QED BY <1>3, <2>1 DEF ListInv, HalfWay, Whole, InOrder
<1>7. PlaceInv'
  BY <1>1, <1>2, <1>3, <1>4 DEF PlaceInv, MutexInv, Overlap, AllocSteps, FreeSteps
<1>8. ASSUME NEW S \in SUBSET Blocks, Sound(S) PROVE Sound(S)'
  <2>1. b \notin S
    BY <1>2, <1>8 DEF Sound
  <2> QED BY <1>1, <1>2, <1>8, <2>1 DEF Sound, Overlap
<1>9. CheckInv'
  BY <1>2, <1>3, <1>8 DEF CheckInv
<1> QED BY <1>5, <1>6, <1>7, <1>9 DEF CallsInv

\* Every statement of every thread keeps the invariant, when calls hold the mutex.
LEMMA CallsStep ==
  ASSUME CallsInv, Locked = TRUE, [HeapNext]_heapCalls
  PROVE  CallsInv'
<1>1. ASSUME NEW t \in Threads, Caller(t) PROVE CallsInv'
  <2>1. CallsTypeOK'
    BY <1>1, TypeKept
  <2>2. MutexInv' /\ IdInv' /\ ListInv' /\ PlaceInv' /\ CheckInv'
    BY <1>1, <2>1, MutexKept, IdsKept, ListsKept, PlacesKept, ChecksKept
  <2> QED BY <2>1, <2>2 DEF CallsInv
<1>2. CASE \E c \in Blocks : Overwrite(c)
  BY <1>2, OverwriteKeeps
<1>3. CASE UNCHANGED heapCalls
  <2> USE DEF heapCalls, heapVars, callVars, checkVars
  <2>1. CallsTypeOK' /\ MutexInv' /\ IdInv' /\ PlaceInv' /\ CheckInv'
    BY <1>3 DEF CallsInv, CallsTypeOK, MutexInv, IdInv, PlaceInv, CheckInv, Sound, Overlap
  <2>2. ListInv'
    BY <1>3 DEF CallsInv, ListInv, HalfWay, Whole, InOrder
  <2> QED BY <2>1, <2>2 DEF CallsInv
<1> QED BY <1>1, <1>2, <1>3 DEF HeapNext

\* With the mutex, the list is in order, or half way in the known manner of its holder, in
\* every state: for any number of threads, any finite set of blocks, any number of calls.
THEOREM CallsInvariant == ASSUME Locked = TRUE PROVE HeapSpec => []CallsInv
<1>1. HeapInit => CallsInv
  BY CallsStart
<1>2. CallsInv /\ [HeapNext]_heapCalls => CallsInv'
  BY CallsStep
<1> QED BY <1>1, <1>2, PTL DEF HeapSpec

-----------------------------------------------------------------------------
(* HeapCalls: the properties. *)

\* Between calls the invariant is what LinkedBothWays says.
LEMMA CallsShowLinks == CallsInv => LinkedBothWays
<1> SUFFICES ASSUME CallsInv, lock = Null
             PROVE  /\ list = Null <=> owned = {}
                    /\ list # Null => list \in owned /\ next_blk[list] = Null
                    /\ \A b \in owned :
                         /\ prev_blk[b] # Null =>
                              prev_blk[b] \in owned /\ next_blk[prev_blk[b]] = b
                         /\ next_blk[b] = Null => b = list
                         /\ next_blk[b] # Null =>
                              /\ next_blk[b] \in owned /\ prev_blk[next_blk[b]] = b
                              /\ alloc_id[b] < alloc_id[next_blk[b]]
  BY DEF LinkedBothWays
<1>1a. PICK sz \in 0..Cardinality(Blocks) : \E c \in [1..sz -> Blocks] : Whole(sz, c, owned)
  BY DEF CallsInv, ListInv
<1>1. PICK c \in [1..sz -> Blocks] : Whole(sz, c, owned)
  BY <1>1a
<1>2. sz \in Nat /\ owned \subseteq Blocks /\ Null \notin Blocks
  BY HeapCallsAssumption, FS_CardinalityType DEF CallsInv, CallsTypeOK
<1>3. /\ \A i \in 1..sz : c[i] \in owned /\ c[i] \in Blocks
      /\ \A b \in owned : \E i \in 1..sz : c[i] = b
  BY <1>1, <1>2, Member DEF Whole, Shows
<1>4. list = IF sz = 0 THEN Null ELSE c[1]
  BY <1>1 DEF Whole, InOrder, First
<1>5. (sz = 0 => owned = {}) /\ (sz # 0 => 1 \in 1..sz)
  BY <1>2, <1>3
<1>6. \A i \in 1..sz : next_blk[c[i]] = IF i = 1 THEN Null ELSE c[i - 1]
  BY <1>1 DEF Whole, Newer
<1>7. (list = Null <=> owned = {}) /\ (list # Null => list \in owned /\ next_blk[list] = Null)
  BY <1>2, <1>3, <1>4, <1>5, <1>6
<1>8. ASSUME NEW b \in owned
      PROVE  /\ prev_blk[b] # Null => prev_blk[b] \in owned /\ next_blk[prev_blk[b]] = b
             /\ next_blk[b] = Null => b = list
             /\ next_blk[b] # Null => /\ next_blk[b] \in owned /\ prev_blk[next_blk[b]] = b
                                      /\ alloc_id[b] < alloc_id[next_blk[b]]
  <2>1. PICK i \in 1..sz : c[i] = b
    BY <1>3
  <2>2. prev_blk[b] = (IF i = sz THEN Null ELSE c[i + 1])
    BY <1>1, <2>1 DEF Whole, InOrder
  <2>3. prev_blk[b] # Null => prev_blk[b] \in owned /\ next_blk[prev_blk[b]] = b
    <3>1. i # sz => i + 1 \in 1..sz /\ i + 1 # 1 /\ (i + 1) - 1 = i
      OBVIOUS
    <3> QED BY <1>3, <1>6, <2>1, <2>2, <3>1
  <2>4. i # 1 => i - 1 \in 1..sz /\ i - 1 # sz /\ (i - 1) + 1 = i /\ i - 1 < i
    OBVIOUS
  <2>5. next_blk[b] = Null => b = list
    BY <1>2, <1>3, <1>4, <1>6, <2>1, <2>4
  <2>6. next_blk[b] # Null => /\ next_blk[b] \in owned /\ prev_blk[next_blk[b]] = b
                              /\ alloc_id[b] < alloc_id[next_blk[b]]
    <3>1. next_blk[b] # Null => i # 1 /\ next_blk[b] = c[i - 1]
      BY <1>6, <2>1
    <3>2. i # 1 => prev_blk[c[i - 1]] = c[i] /\ alloc_id[c[i]] < alloc_id[c[i - 1]]
      BY <1>1, <2>4 DEF Whole, InOrder
    <3> QED BY <1>3, <2>1, <2>4, <3>1, <3>2
  <2> QED BY <2>3, <2>5, <2>6
<1> QED BY <1>7, <1>8

\* The doubly linked list of the buffer heap (cyfxtx.c:951-967, 1033-1047) is consistent
\* whenever the mutex is free.
THEOREM LinkedBothWaysHolds == ASSUME Locked = TRUE PROVE HeapSpec => []LinkedBothWays
BY CallsInvariant, CallsShowLinks, PTL

\* A corruption check, which runs without the mutex (cyfxtx.c:1161), fails only when an
\* allocation was under way at some time between its beginning and its end: for any number
\* of threads, whichever places overlap, and whatever is written over freed blocks.
THEOREM AlarmNeedsAllocationHolds ==
  ASSUME Locked = TRUE PROVE HeapSpec => []AlarmNeedsAllocation
<1>1. CallsInv => AlarmNeedsAllocation
  BY DEF CallsInv, CheckInv, AlarmNeedsAllocation
<1> QED BY <1>1, CallsInvariant, PTL

-----------------------------------------------------------------------------
(* HeapCalls: the list of InUseList. *)

\* The function that Traversal is defined by.
IsWalk(f) ==
  f = [i \in 1..Cardinality(Blocks) |->
         IF i = 1 THEN list
         ELSE IF f[i - 1] = Null THEN Null ELSE prev_blk[f[i - 1]]]

\* Traversal finds the blocks of a list in order.
LEMMA TraversalIs ==
  ASSUME NEW sz \in 0..Cardinality(Blocks), NEW c \in [1..sz -> Blocks], InOrder(sz, c)
  PROVE  Traversal = c
<1>1. Cardinality(Blocks) \in Nat /\ Null \notin Blocks
  BY FS_CardinalityType, HeapCallsAssumption
<1>2. PICK top \in Nat : top = Cardinality(Blocks)
  BY <1>1
<1>3. sz \in Nat /\ sz <= top /\ \A i \in 1..top : i <= sz => i \in 1..sz /\ c[i] \in Blocks
  BY <1>1, <1>2
<1> DEFINE g == [i \in 1..top |-> IF i <= sz THEN c[i] ELSE Null]
<1>4. ASSUME NEW i \in 1..top
      PROVE  g[i] = IF i = 1 THEN list
                    ELSE IF g[i - 1] = Null THEN Null ELSE prev_blk[g[i - 1]]
  <2>1. CASE i = 1
    <3>1. i <= sz <=> sz # 0
      BY <1>3, <2>1
    <3> QED BY <2>1, <3>1 DEF InOrder, First
  <2>2. CASE i # 1
    <3>1. i - 1 \in 1..top /\ (i - 1) + 1 = i
      BY <2>2
    <3>2. CASE i - 1 > sz
      <4>1. ~(i <= sz) /\ ~(i - 1 <= sz)
        BY <1>3, <3>2
      <4> QED BY <2>2, <3>1, <4>1
    <3>3. CASE i - 1 = sz
      <4>1. ~(i <= sz) /\ i - 1 <= sz /\ i - 1 \in 1..sz
        BY <1>3, <3>1, <3>3
      <4>2. prev_blk[c[i - 1]] = Null /\ c[i - 1] # Null
        BY <1>1, <3>3, <4>1 DEF InOrder
      <4> QED BY <2>2, <3>1, <4>1, <4>2
    <3>4. CASE i - 1 < sz
      <4>1. i <= sz /\ i - 1 <= sz /\ i - 1 \in 1..sz /\ i - 1 # sz
        BY <1>3, <3>1, <3>4
      <4>2. prev_blk[c[i - 1]] = c[i] /\ c[i - 1] # Null
        BY <1>1, <3>1, <4>1 DEF InOrder
      <4> QED BY <2>2, <3>1, <4>1, <4>2
    <3>5. i - 1 > sz \/ i - 1 = sz \/ i - 1 < sz
      BY <1>3
    <3> QED BY <3>2, <3>3, <3>4, <3>5
  <2> QED BY <2>1, <2>2
<1>5. g = [i \in 1..top |-> IF i = 1 THEN list
                            ELSE IF g[i - 1] = Null THEN Null ELSE prev_blk[g[i - 1]]]
  <2> DEFINE h == [i \in 1..top |-> IF i = 1 THEN list
                            ELSE IF g[i - 1] = Null THEN Null ELSE prev_blk[g[i - 1]]]
  <2>1. DOMAIN g = 1..top /\ g = [i \in DOMAIN g |-> g[i]]
    OBVIOUS
  <2> HIDE DEF g
  <2>2. DOMAIN h = 1..top /\ \A i \in 1..top : h[i] = g[i]
    BY <1>4
  <2>3. h = [i \in 1..top |-> g[i]]
    BY <2>2
  <2> QED BY <2>1, <2>3
<1>6. \E f : IsWalk(f)
  <2> HIDE DEF g
  <2> QED BY <1>2, <1>5 DEF IsWalk
<1> DEFINE nth == CHOOSE f : IsWalk(f)
<1>7. IsWalk(nth)
  BY <1>6, Zenon
<1>8. Traversal = [i \in {j \in 1..Cardinality(Blocks) : nth[j] # Null} |-> nth[i]]
  BY Zenon DEF Traversal, IsWalk
<1> HIDE DEF nth
<1>9. \A i \in 1..top : nth[i] = g[i]
  <2> DEFINE T == {i \in Nat : i + 1 \in 1..top => nth[i + 1] = g[i + 1]}
  <2>1. \A i \in 1..top : nth[i] = IF i = 1 THEN list
                            ELSE IF nth[i - 1] = Null THEN Null ELSE prev_blk[nth[i - 1]]
    BY <1>2, <1>7 DEF IsWalk
  <2> HIDE DEF g
  <2>2. 0 \in T
    BY <1>4, <2>1
  <2>3. ASSUME NEW i \in Nat, i \in T PROVE i + 1 \in T
    <3>1. i + 1 \in Nat
      OBVIOUS
    <3>2. ASSUME (i + 1) + 1 \in 1..top PROVE nth[(i + 1) + 1] = g[(i + 1) + 1]
      <4>1. PICK j \in 1..top : j = (i + 1) + 1
        BY <3>2
      <4>2. j # 1 /\ j - 1 = i + 1 /\ i + 1 \in 1..top
        BY <3>2, <4>1
      <4>3. nth[j - 1] = g[j - 1]
        BY <2>3, <4>2
      <4> QED BY <1>4, <2>1, <4>1, <4>2, <4>3
    <3> QED BY <3>1, <3>2
  <2>4. Nat \subseteq T
    <3> HIDE DEF T
    <3> QED BY <2>2, <2>3, SetInduction
  <2>5. ASSUME NEW i \in 1..top PROVE nth[i] = g[i]
    <3>1. PICK j \in Nat : i = j + 1
      <4>1. i - 1 \in Nat /\ i = (i - 1) + 1
        OBVIOUS
      <4> QED BY <4>1
    <3>2. j \in T
      BY <2>4
    <3> QED BY <3>1, <3>2
  <2> QED BY <2>5
<1>10. {j \in 1..top : nth[j] # Null} = 1..sz
  <2>1. ASSUME NEW j \in 1..top PROVE nth[j] # Null <=> j <= sz
    BY <1>1, <1>3, <1>9
  <2>2. \A j \in 1..sz : j \in 1..top /\ j <= sz
    BY <1>3
  <2>3. \A j \in 1..top : j <= sz => j \in 1..sz
    BY <1>3
  <2> QED BY <2>1, <2>2, <2>3
<1>11. \A i \in 1..sz : nth[i] = c[i]
  <2>1. \A i \in 1..sz : i \in 1..top /\ i <= sz
    BY <1>3
  <2> QED BY <1>9, <2>1
<1>12. Traversal = [i \in 1..sz |-> nth[i]]
  BY <1>2, <1>8, <1>10
<1>13. [i \in 1..sz |-> nth[i]] = c
  BY <1>11
<1> QED BY <1>12, <1>13

\* The same as one formula, and for the next state.
LEMMA WalkNow ==
  \A sz \in 0..Cardinality(Blocks) : \A c \in [1..sz -> Blocks] : InOrder(sz, c) => Traversal = c
BY TraversalIs

LEMMA WalkNext ==
  \A sz \in 0..Cardinality(Blocks) : \A c \in [1..sz -> Blocks] :
    InOrder(sz, c)' => Traversal' = c
<1>1. \A sz \in 0..Cardinality(Blocks) : \A c \in [1..sz -> Blocks] :
        InOrder(sz, c) => Traversal = c
  BY TraversalIs
<1>2. (\A sz \in 0..Cardinality(Blocks) : \A c \in [1..sz -> Blocks] :
         InOrder(sz, c) => Traversal = c)'
  BY <1>1, PTL
<1> QED BY <1>2

\* A list that is kept is not seen to change.
LEMMA KeptIs == ASSUME Kept PROVE Traversal' = Traversal
BY WalkNow, WalkNext DEF Kept

\* A list is a sequence.
LEMMA ListAsSeq ==
  ASSUME NEW sz \in 0..Cardinality(Blocks), NEW c \in [1..sz -> Blocks]
  PROVE  c \in Seq(Blocks) /\ Len(c) = sz /\ DOMAIN c = 1..sz /\ sz \in Nat
<1>1. sz \in Nat
  BY FS_CardinalityType, HeapCallsAssumption
<1>2. c \in Seq(Blocks)
  BY <1>1, SeqDef
<1>3. DOMAIN c = 1..sz
  OBVIOUS
<1>4. Len(c) \in Nat /\ DOMAIN c = 1..Len(c)
  BY <1>2, LenProperties
<1>5. Len(c) = sz
  <2> SUFFICES ASSUME NEW m \in Nat, 1..m = 1..sz PROVE m = sz
    BY <1>3, <1>4
  <2>1. (m = 0 \/ m \in 1..sz) /\ (sz = 0 \/ sz \in 1..m)
    BY <1>1
  <2> QED BY <1>1, <2>1
<1> QED BY <1>1, <1>2, <1>3, <1>5

\* A new head is an allocation of InUseList.
LEMMA GainedIs ==
  ASSUME Gained
  PROVE  \E b \in Blocks : Listed!ListAlloc(b)
<1>1. PICK b \in Blocks, sz \in 0..Cardinality(Blocks) : \E c \in [1..sz -> Blocks] :
        /\ sz + 1 \in 0..Cardinality(Blocks) /\ \A i \in 1..sz : c[i] # b
        /\ InOrder(sz, c) /\ InOrder(sz + 1, Pushed(sz, c, b))'
  BY DEF Gained
<1>2. PICK c \in [1..sz -> Blocks] :
        /\ sz + 1 \in 0..Cardinality(Blocks) /\ \A i \in 1..sz : c[i] # b
        /\ InOrder(sz, c) /\ InOrder(sz + 1, Pushed(sz, c, b))'
  BY <1>1
<1>3. c \in Seq(Blocks) /\ Len(c) = sz /\ DOMAIN c = 1..sz /\ sz \in Nat
  BY ListAsSeq
<1> DEFINE d == Pushed(sz, c, b)
<1>4. /\ sz + 1 \in Nat /\ d \in [1..(sz + 1) -> Blocks]
      /\ d[1] = b
      /\ \A i \in 2..(sz + 1) : d[i] = c[i - 1] /\ i - 1 \in 1..sz
      /\ \A i \in 1..sz : d[i + 1] = c[i] /\ i + 1 \in 2..(sz + 1)
  <2>1. sz \in Nat /\ c \in [1..sz -> Blocks] /\ b \in Blocks
    BY <1>3
  <2> QED BY ONLY <2>1, PushedIs
<1>5. Traversal = c /\ Traversal' = d
  BY <1>2, <1>4, WalkNow, WalkNext
<1> HIDE DEF d
<1>6. d = <<b>> \o c
  <2>1. d \in Seq(Blocks) /\ Len(d) = sz + 1
    BY <1>2, <1>4, ListAsSeq
  <2>2. <<b>> \in Seq(Blocks) /\ Len(<<b>>) = 1 /\ <<b>>[1] = b
    OBVIOUS
  <2>3. /\ <<b>> \o c \in Seq(Blocks) /\ Len(<<b>> \o c) = 1 + sz
        /\ \A i \in 1..(1 + sz) : (<<b>> \o c)[i] = IF i <= 1 THEN <<b>>[i] ELSE c[i - 1]
    BY <1>3, <2>2, ConcatProperties
  <2> DEFINE e == <<b>> \o c
  <2> HIDE DEF e
  <2>4. ASSUME NEW i \in 1..(sz + 1) PROVE d[i] = e[i]
    <3>1. i = 1 \/ i \in 2..(sz + 1)
      OBVIOUS
    <3>2. e[i] = IF i <= 1 THEN <<b>>[i] ELSE c[i - 1]
      BY <1>3, <2>3 DEF e
    <3> QED BY <1>4, <2>2, <3>1, <3>2
  <2>5. e \in Seq(Blocks) /\ Len(e) = sz + 1
    BY <1>3, <2>3 DEF e
  <2>6. d = e
    BY <2>1, <2>4, <2>5, SeqEqual
  <2> QED BY <2>6 DEF e
<1>7. b \notin ToSet(c)
  BY <1>2, <1>3 DEF ToSet
<1> QED BY <1>5, <1>6, <1>7 DEF Listed!ListAlloc, Listed!ToSet, ToSet

\* A block less is a free of InUseList.
LEMMA LostIs ==
  ASSUME Lost
  PROVE  \E i \in DOMAIN Traversal : Listed!ListFree(i)
<1>1. PICK sz \in 1..Cardinality(Blocks) : \E c \in [1..sz -> Blocks], pos \in 1..sz :
        InOrder(sz, c) /\ InOrder(sz - 1, Dropped(sz, c, pos))'
  BY DEF Lost
<1>2. PICK c \in [1..sz -> Blocks], pos \in 1..sz :
        InOrder(sz, c) /\ InOrder(sz - 1, Dropped(sz, c, pos))'
  BY <1>1
<1>3. sz \in 0..Cardinality(Blocks) /\ sz - 1 \in 0..Cardinality(Blocks)
  BY FS_CardinalityType, HeapCallsAssumption
<1>4. c \in Seq(Blocks) /\ Len(c) = sz /\ DOMAIN c = 1..sz /\ sz \in Nat
  BY <1>3, ListAsSeq
<1> DEFINE d == Dropped(sz, c, pos)
<1>5. /\ sz - 1 \in Nat /\ d \in [1..(sz - 1) -> Blocks]
      /\ \A i \in 1..(sz - 1) : i < pos => d[i] = c[i] /\ i \in 1..sz
      /\ \A i \in 1..(sz - 1) : i >= pos => d[i] = c[i + 1] /\ i + 1 \in 1..sz
  BY <1>4, DroppedIs
<1>6. Traversal = c /\ Traversal' = d
  BY <1>2, <1>3, <1>5, WalkNow, WalkNext
<1> HIDE DEF d
<1>7. d = SubSeq(c, 1, pos - 1) \o SubSeq(c, pos + 1, sz)
  <2>1. \A i \in 1..sz : c[i] \in Blocks
    OBVIOUS
  <2> DEFINE u == SubSeq(c, 1, pos - 1)
             v == SubSeq(c, pos + 1, sz)
             e == u \o v
  <2>2. /\ pos - 1 \in Int /\ 1 \in Int /\ pos + 1 \in Int /\ sz \in Int
        /\ \A i \in 1..(pos - 1) : c[i] \in Blocks
        /\ \A i \in (pos + 1)..sz : c[i] \in Blocks
    BY <1>4, <2>1
  <2>3. /\ u \in Seq(Blocks) /\ Len(u) = IF 1 <= pos - 1 THEN pos - 1 - 1 + 1 ELSE 0
        /\ \A i \in 1..(pos - 1 - 1 + 1) : u[i] = c[1 + i - 1]
    BY <2>2, SubSeqProperties
  <2>4. /\ v \in Seq(Blocks) /\ Len(v) = IF pos + 1 <= sz THEN sz - (pos + 1) + 1 ELSE 0
        /\ \A i \in 1..(sz - (pos + 1) + 1) : v[i] = c[pos + 1 + i - 1]
    BY <2>2, SubSeqProperties
  <2> HIDE DEF u, v
  <2>5. Len(u) = pos - 1 /\ Len(v) = sz - pos
    BY <1>4, <2>3, <2>4
  <2>6. \A i \in 1..(pos - 1) : u[i] = c[i]
    <3> SUFFICES ASSUME NEW i \in 1..(pos - 1) PROVE u[i] = c[i]
      OBVIOUS
    <3>1. i \in 1..(pos - 1 - 1 + 1) /\ 1 + i - 1 = i
      OBVIOUS
    <3> QED BY <2>3, <3>1
  <2>7. \A i \in 1..(sz - pos) : v[i] = c[pos + i]
    <3> SUFFICES ASSUME NEW i \in 1..(sz - pos) PROVE v[i] = c[pos + i]
      OBVIOUS
    <3>1. i \in 1..(sz - (pos + 1) + 1) /\ pos + 1 + i - 1 = pos + i
      BY <1>4
    <3> QED BY <2>4, <3>1
  <2>8. /\ e \in Seq(Blocks) /\ Len(e) = (pos - 1) + (sz - pos)
        /\ \A i \in 1..((pos - 1) + (sz - pos)) :
             e[i] = IF i <= pos - 1 THEN u[i] ELSE v[i - (pos - 1)]
    <3>1. /\ e \in Seq(Blocks) /\ Len(e) = Len(u) + Len(v)
          /\ \A i \in 1..Len(u) + Len(v) : e[i] = IF i <= Len(u) THEN u[i] ELSE v[i - Len(u)]
      BY <2>3, <2>4, ConcatProperties
    <3> HIDE DEF e
    <3> QED BY <2>5, <3>1
  <2> HIDE DEF e
  <2>9. d \in Seq(Blocks) /\ Len(d) = sz - 1
    BY <1>3, <1>5, ListAsSeq
  <2>10. (pos - 1) + (sz - pos) = sz - 1
    BY <1>4
  <2>11. ASSUME NEW i \in 1..(sz - 1) PROVE d[i] = e[i]
    <3>1. e[i] = IF i <= pos - 1 THEN u[i] ELSE v[i - (pos - 1)]
      BY <2>8, <2>10
    <3>2. CASE i < pos
      <4>1. i <= pos - 1 /\ i \in 1..(pos - 1)
        BY <3>2
      <4> QED BY <1>5, <2>6, <3>1, <3>2, <4>1
    <3>3. CASE i >= pos
      <4>1. /\ ~(i <= pos - 1) /\ i - (pos - 1) \in 1..(sz - pos)
            /\ pos + (i - (pos - 1)) = i + 1
        BY <1>4, <3>3
      <4> QED BY <1>5, <2>7, <3>1, <3>3, <4>1
    <3> QED BY <3>2, <3>3
  <2>12. d = e
    BY <2>8, <2>9, <2>10, <2>11, SeqEqual
  <2> QED BY <2>12 DEF e, u, v
<1> QED BY <1>4, <1>6, <1>7 DEF Listed!ListFree, Listed!RemoveAt, RemoveAt

\* Every step of a call changes the list as InUseList says.
LEMMA ListStep ==
  ASSUME CallsInv, CallsTypeOK', Locked = TRUE, [HeapNext]_heapCalls
  PROVE  Listed!ListNext \/ Traversal' = Traversal
<1>1. ASSUME NEW t \in Threads, Caller(t)
      PROVE  Listed!ListNext \/ Traversal' = Traversal
  <2>1. CASE Link(t)
    BY <2>1, ListNumberLink, KeptIs
  <2>2. CASE Publish(t)
    BY <2>2, ListPublish, GainedIs DEF Listed!ListNext
  <2>3. CASE UnlinkNext(t)
    BY <2>3, ListUnlinkNext, KeptIs, LostIs DEF Listed!ListNext
  <2>4. CASE Unhead(t)
    BY <2>4, ListUnhead, KeptIs, LostIs DEF Listed!ListNext
  <2>5. CASE list' = list /\ prev_blk' = prev_blk
    BY <2>5 DEF Traversal
  <2>6. \/ list' = list /\ prev_blk' = prev_blk
        \/ Link(t) \/ Publish(t) \/ UnlinkNext(t) \/ Unhead(t)
    BY <1>1 DEF Take, Give, CheckBegin, Caller, Number, Chain, Footer, Count, UnlinkPrev,
                Release, CheckNext, CheckAstray, CheckEnd, heapVars
  <2> QED BY <2>1, <2>2, <2>3, <2>4, <2>5, <2>6
<1>2. CASE \E c \in Blocks : Overwrite(c)
  BY <1>2 DEF Overwrite, Traversal
<1>3. CASE UNCHANGED heapCalls
  BY <1>3 DEF heapCalls, heapVars, Traversal
<1> QED BY <1>1, <1>2, <1>3 DEF HeapNext

\* With the mutex, the calls of any number of threads implement the list of InUseList: a
\* block appears in one step and disappears in one step, and the others keep their order.
THEOREM ListImplementedHolds == ASSUME Locked = TRUE PROVE HeapSpec => ListImplemented
<1>1. HeapInit => Listed!ListInit
  <2> SUFFICES ASSUME HeapInit PROVE Traversal = <<>>
    BY DEF Listed!ListInit
  <2>1. 0 \in 0..Cardinality(Blocks) /\ <<>> \in [1..0 -> Blocks]
    BY HeapCallsAssumption, FS_CardinalityType
  <2>2. InOrder(0, <<>>)
    BY DEF HeapInit, InOrder, First
  <2> QED BY <2>1, <2>2, WalkNow
<1>2. CallsInv /\ CallsInv' /\ [HeapNext]_heapCalls => [Listed!ListNext]_Traversal
  BY ListStep DEF CallsInv
<1>3. ListImplemented <=> Listed!ListInit /\ [][Listed!ListNext]_Traversal
  BY DEF ListImplemented, Listed!ListSpec
<1> QED BY CallsInvariant, <1>1, <1>2, <1>3, PTL DEF HeapSpec

\* The list shows every block that a caller holds.
LEMMA OwnedIsListed == CallsInv => AllBlocksListed
<1> SUFFICES ASSUME CallsInv PROVE AllBlocksListed
  OBVIOUS
<1>1. PICK sz \in 0..Cardinality(Blocks) : \E c \in [1..sz -> Blocks] :
        IF lock = Null THEN Whole(sz, c, owned) ELSE HalfWay(sz, c, at[lock], blk[lock])
  BY DEF CallsInv, ListInv
<1>2. PICK c \in [1..sz -> Blocks] :
        IF lock = Null THEN Whole(sz, c, owned) ELSE HalfWay(sz, c, at[lock], blk[lock])
  BY <1>1
<1>3. InOrder(sz, c) /\ (Shows(sz, c, owned) \/ Shows(sz, c, owned \cup {blk[lock]}))
  BY <1>2 DEF HalfWay, Whole
<1>4. owned \subseteq Blocks
  BY DEF CallsInv, CallsTypeOK
<1>5. \A b \in owned : \E i \in 1..sz : c[i] = b
  BY <1>3, <1>4 DEF Shows
<1>6. Traversal = c
  BY <1>3, WalkNow
<1> QED BY <1>5, <1>6 DEF AllBlocksListed, ToSet

\* In the buffer heap the comment at cyfxtx.c:1129 is true at every moment; the run
\* DriverHeapRace shows that in the driver heap, without the mutex, it is not (439).
THEOREM AllBlocksListedHolds == ASSUME Locked = TRUE PROVE HeapSpec => []AllBlocksListed
BY CallsInvariant, OwnedIsListed, PTL

-----------------------------------------------------------------------------
(* FirmwareHeaps: the checks describe the blocks in use. *)

HeapsTypeOK ==
  /\ drv \in Heap(MemBlocks) /\ buf \in Heap(BufBlocks)
  /\ mutex \in BOOLEAN /\ region \in BOOLEAN
  /\ usedStatus \in MemBlocks \cup {NullPtr}

\* What the header, the list and the counters of a heap tell; a heap that is not up has
\* nothing in it, so that the checks can be switched on there.
Described(h) ==
  /\ IsFiniteSet(h.held)
  /\ h.headed = IF h.checks THEN h.held ELSE {}
  /\ h.checks => h.listed = h.held
  /\ h.allocs - h.frees = IF h.checks THEN Cardinality(h.held) ELSE 0
  /\ ~h.checks => h.listed = {} /\ h.allocs = 0
  /\ ~h.ready => h.held = {} /\ h.allocs = 0

HeapsInv == HeapsTypeOK /\ Described(drv) /\ Described(buf) /\ StatusArrayOwned

\* The heaps with one field changed, and with a block more or less.
LEMMA TypeOfHeap ==
  ASSUME NEW P, NEW h \in Heap(P)
  PROVE  /\ h.ready \in BOOLEAN /\ h.checks \in BOOLEAN
         /\ h.held \subseteq P /\ h.headed \subseteq P /\ h.listed \subseteq P
         /\ h.allocs \in 0..MaxCounted /\ h.frees \in 0..MaxCounted
         /\ h.allocs \in Int /\ h.frees \in Int
BY HeapsAssumption DEF Heap

LEMMA WithBlockDescribed ==
  ASSUME NEW P, NEW h \in Heap(P), Described(h), h.ready, NEW b \in P, b \notin h.held,
         h.allocs < MaxCounted
  PROVE  /\ WithBlock(h, b) \in Heap(P) /\ Described(WithBlock(h, b))
         /\ WithBlock(h, b).ready /\ WithBlock(h, b).held = h.held \cup {b}
<1>1. IsFiniteSet(h.held \cup {b}) /\ Cardinality(h.held \cup {b}) = Cardinality(h.held) + 1
  BY FS_AddElement DEF Described
<1>2. Cardinality(h.held) \in Nat
  BY FS_CardinalityType DEF Described
<1>3. CASE h.checks
  <2> DEFINE g == WithBlock(h, b)
  <2>1. g = [h EXCEPT !.held = @ \cup {b}, !.headed = @ \cup {b}, !.listed = @ \cup {b},
                      !.allocs = @ + 1]
    BY <1>3 DEF WithBlock
  <2>2. h.allocs + 1 \in 0..MaxCounted
    <3>1. h.allocs \in 0..MaxCounted /\ h.allocs < MaxCounted /\ MaxCounted \in Nat
      BY TypeOfHeap, HeapsAssumption
    <3> QED BY <3>1
  <2>3. g \in Heap(P)
    <3>1. /\ h.held \cup {b} \subseteq P /\ h.headed \cup {b} \subseteq P
          /\ h.listed \cup {b} \subseteq P
      BY TypeOfHeap
    <3> QED BY <2>1, <2>2, <3>1 DEF Heap
  <2>4. /\ g.held = h.held \cup {b} /\ g.headed = h.headed \cup {b}
        /\ g.listed = h.listed \cup {b} /\ g.allocs = h.allocs + 1 /\ g.frees = h.frees
        /\ g.ready = h.ready /\ g.checks = h.checks
    BY <2>1 DEF Heap
  <2> HIDE DEF g
  <2>5. g.allocs - g.frees = Cardinality(g.held)
    <3>1. h.allocs \in Int /\ h.frees \in Int
      BY TypeOfHeap
    <3>2. h.allocs - h.frees = Cardinality(h.held)
      BY <1>3 DEF Described
    <3> QED BY <1>1, <1>2, <2>4, <3>1, <3>2
  <2>6. Described(g)
    BY <1>1, <1>3, <2>4, <2>5 DEF Described
  <2> QED BY <2>3, <2>4, <2>6 DEF g
<1>4. CASE ~h.checks
  <2> DEFINE g == WithBlock(h, b)
  <2>1. g = [h EXCEPT !.held = @ \cup {b}]
    BY <1>4 DEF WithBlock
  <2>2. g \in Heap(P)
    BY <2>1 DEF Heap
  <2>3. /\ g.held = h.held \cup {b} /\ g.headed = h.headed /\ g.listed = h.listed
        /\ g.allocs = h.allocs /\ g.frees = h.frees
        /\ g.ready = h.ready /\ g.checks = h.checks
    BY <2>1 DEF Heap
  <2> HIDE DEF g
  <2>4. Described(g)
    BY <1>1, <1>4, <2>3 DEF Described
  <2> QED BY <2>2, <2>3, <2>4 DEF g
<1> QED BY <1>3, <1>4

LEMMA WithoutBlockDescribed ==
  ASSUME NEW P, NEW h \in Heap(P), Described(h), NEW b \in h.held
  PROVE  /\ WithoutBlock(h, b) \in Heap(P) /\ Described(WithoutBlock(h, b))
         /\ WithoutBlock(h, b).ready = h.ready
         /\ WithoutBlock(h, b).held = h.held \ {b}
<1>1. IsFiniteSet(h.held \ {b}) /\ Cardinality(h.held \ {b}) = Cardinality(h.held) - 1
  BY FS_RemoveElement DEF Described
<1>2. Cardinality(h.held) \in Nat /\ Cardinality(h.held \ {b}) \in Nat
  BY <1>1, FS_CardinalityType DEF Described
<1>3. CASE h.checks
  <2> DEFINE g == WithoutBlock(h, b)
  <2>1. g = [h EXCEPT !.held = @ \ {b}, !.headed = @ \ {b}, !.listed = @ \ {b},
                      !.frees = @ + 1]
    BY <1>3 DEF WithoutBlock
  <2>2. h.frees + 1 \in 0..MaxCounted
    <3>1. h.allocs - h.frees = Cardinality(h.held)
      BY <1>3 DEF Described
    <3>2. Cardinality(h.held) >= 1
      BY <1>1, <1>2
    <3> QED BY <1>2, <3>1, <3>2, TypeOfHeap, HeapsAssumption
  <2>3. g \in Heap(P)
    BY <2>1, <2>2 DEF Heap
  <2>4. /\ g.held = h.held \ {b} /\ g.headed = h.headed \ {b}
        /\ g.listed = h.listed \ {b} /\ g.frees = h.frees + 1 /\ g.allocs = h.allocs
        /\ g.ready = h.ready /\ g.checks = h.checks
    BY <2>1 DEF Heap
  <2> HIDE DEF g
  <2>5. g.allocs - g.frees = Cardinality(g.held)
    <3>1. h.allocs \in Int /\ h.frees \in Int
      BY TypeOfHeap
    <3>2. h.allocs - h.frees = Cardinality(h.held)
      BY <1>3 DEF Described
    <3> QED BY <1>1, <1>2, <2>4, <3>1, <3>2
  <2>6. h.ready
    BY DEF Described
  <2>7. Described(g)
    BY <1>1, <1>3, <2>4, <2>5, <2>6 DEF Described
  <2> QED BY <2>3, <2>4, <2>7 DEF g
<1>4. CASE ~h.checks
  <2> DEFINE g == WithoutBlock(h, b)
  <2>1. g = [h EXCEPT !.held = @ \ {b}, !.headed = @ \ {b}]
    BY <1>4 DEF WithoutBlock
  <2>2. g \in Heap(P)
    BY <2>1 DEF Heap
  <2>3. /\ g.held = h.held \ {b} /\ g.headed = h.headed \ {b} /\ g.listed = h.listed
        /\ g.allocs = h.allocs /\ g.frees = h.frees
        /\ g.ready = h.ready /\ g.checks = h.checks
    BY <2>1 DEF Heap
  <2> HIDE DEF g
  <2>4. h.headed \ {b} = {} /\ h.ready
    BY <1>4 DEF Described
  <2>5. Described(g)
    BY <1>1, <1>4, <2>3, <2>4 DEF Described
  <2> QED BY <2>2, <2>3, <2>5 DEF g
<1> QED BY <1>3, <1>4

\* A heap that has gone away, and one that is switched or comes up.
LEMMA EmptiedDescribed ==
  ASSUME NEW P, NEW h \in Heap(P)
  PROVE  Emptied(h) \in Heap(P) /\ Described(Emptied(h)) /\ ~Emptied(h).ready
<1> DEFINE g == Emptied(h)
<1>1. 0 \in 0..MaxCounted /\ {} \subseteq P
  BY HeapsAssumption
<1>2. g \in Heap(P)
  BY <1>1 DEF Heap, Emptied
<1>3. /\ g.held = {} /\ g.headed = {} /\ g.listed = {} /\ g.allocs = 0 /\ g.frees = 0
      /\ g.ready = FALSE /\ g.checks = h.checks
  BY DEF Heap, Emptied
<1> HIDE DEF g
<1>4. Described(g)
  BY <1>3, FS_EmptySet DEF Described
<1> QED BY <1>2, <1>3, <1>4 DEF g

LEMMA SwitchedDescribed ==
  ASSUME NEW P, NEW h \in Heap(P), Described(h), ~h.ready, NEW on \in BOOLEAN
  PROVE  /\ [h EXCEPT !.checks = on] \in Heap(P) /\ Described([h EXCEPT !.checks = on])
         /\ ~[h EXCEPT !.checks = on].ready
<1> DEFINE g == [h EXCEPT !.checks = on]
<1>1. g \in Heap(P)
  BY DEF Heap
<1>2. /\ g.held = h.held /\ g.headed = h.headed /\ g.listed = h.listed
      /\ g.allocs = h.allocs /\ g.frees = h.frees /\ g.ready = h.ready /\ g.checks = on
  BY DEF Heap
<1> HIDE DEF g
<1>3. h.held = {} /\ h.headed = {} /\ h.listed = {} /\ h.allocs = 0
  BY DEF Described
<1>4. h.allocs - h.frees = 0 /\ Cardinality({}) = 0 /\ IsFiniteSet({})
  BY <1>3, FS_EmptySet DEF Described
<1>5. Described(g)
  BY <1>2, <1>3, <1>4 DEF Described
<1> QED BY <1>1, <1>2, <1>5 DEF g

LEMMA UpDescribed ==
  ASSUME NEW P, NEW h \in Heap(P), Described(h)
  PROVE  /\ [h EXCEPT !.ready = TRUE] \in Heap(P) /\ Described([h EXCEPT !.ready = TRUE])
         /\ [h EXCEPT !.ready = TRUE].ready
         /\ [h EXCEPT !.ready = TRUE].held = h.held
<1> DEFINE g == [h EXCEPT !.ready = TRUE]
<1>1. g \in Heap(P)
  BY DEF Heap
<1>2. /\ g.held = h.held /\ g.headed = h.headed /\ g.listed = h.listed
      /\ g.allocs = h.allocs /\ g.frees = h.frees /\ g.ready = TRUE /\ g.checks = h.checks
  BY DEF Heap
<1> HIDE DEF g
<1>3. Described(g)
  BY <1>2 DEF Described
<1> QED BY <1>1, <1>2, <1>3 DEF g

LEMMA HeapsInvInit == HeapsInit => HeapsInv
<1> SUFFICES ASSUME HeapsInit PROVE HeapsInv
  OBVIOUS
<1>1. 0 \in 0..MaxCounted
  BY HeapsAssumption
<1>2. EmptyHeap \in Heap(MemBlocks) /\ EmptyHeap \in Heap(BufBlocks)
  BY <1>1 DEF EmptyHeap, Heap
<1>3. Described(EmptyHeap)
  BY FS_EmptySet DEF EmptyHeap, Described
<1>4. mutex = FALSE /\ region = FALSE /\ usedStatus = NullPtr /\ ~buf.ready
  BY DEF HeapsInit, EmptyHeap
<1>5. StatusArrayOwned
  BY <1>4 DEF StatusArrayOwned, HeapsInit, EmptyHeap
<1> QED BY <1>2, <1>3, <1>4, <1>5 DEF HeapsInv, HeapsTypeOK, HeapsInit

LEMMA HeapsInvNext == HeapsInv /\ [HeapsNext]_heapsVars => HeapsInv'
<1> SUFFICES ASSUME HeapsInv, [HeapsNext]_heapsVars PROVE HeapsInv'
  OBVIOUS
<1>0. /\ drv \in Heap(MemBlocks) /\ buf \in Heap(BufBlocks)
      /\ mutex \in BOOLEAN /\ region \in BOOLEAN /\ usedStatus \in MemBlocks \cup {NullPtr}
      /\ Described(drv) /\ Described(buf)
  BY DEF HeapsInv, HeapsTypeOK
<1>1. /\ mutex <=> region
      /\ region <=> usedStatus # NullPtr
      /\ buf.ready <=> region
      /\ region => drv.ready /\ usedStatus \in drv.held
  BY <1>0, TypeOfHeap DEF HeapsInv, StatusArrayOwned
<1>2. ASSUME drv' \in Heap(MemBlocks), Described(drv)',
             region => drv'.ready /\ usedStatus \in drv'.held,
             UNCHANGED <<buf, mutex, usedStatus, region>>
      PROVE  HeapsInv'
  BY <1>0, <1>2 DEF HeapsInv, HeapsTypeOK, StatusArrayOwned, Described
<1>3. ASSUME buf' \in Heap(BufBlocks), Described(buf)', buf'.ready = buf.ready,
             UNCHANGED <<drv, mutex, usedStatus, region>>
      PROVE  HeapsInv'
  BY <1>0, <1>3 DEF HeapsInv, HeapsTypeOK, StatusArrayOwned, Described
<1>4. ASSUME drv' \in Heap(MemBlocks), Described(drv)',
             buf' \in Heap(BufBlocks), Described(buf)', ~buf'.ready,
             mutex' = FALSE, region' = FALSE, usedStatus' = NullPtr
      PROVE  HeapsInv'
  <2>1. buf'.ready = FALSE
    BY <1>4, TypeOfHeap
  <2> QED BY <1>4, <2>1 DEF HeapsInv, HeapsTypeOK, StatusArrayOwned
<1>5. CASE CyU3PMemInit
  <2>1. drv' = [drv EXCEPT !.ready = TRUE] /\ UNCHANGED <<buf, mutex, usedStatus, region>>
    BY <1>5 DEF CyU3PMemInit
  <2>2. /\ drv' \in Heap(MemBlocks) /\ Described(drv') /\ drv'.ready
        /\ drv'.held = drv.held
    BY <1>0, <2>1, UpDescribed
  <2> QED BY <1>1, <1>2, <2>1, <2>2 DEF Described
<1>6. CASE CyU3PDmaBufferInit
  <2>1. PICK b \in MemBlocks \ drv.held : drv' = WithBlock(drv, b) /\ usedStatus' = b
    BY <1>6 DEF CyU3PDmaBufferInit
  <2>2. /\ mutex' = TRUE /\ region' = TRUE /\ buf' = [buf EXCEPT !.ready = TRUE]
        /\ drv.ready /\ drv.allocs < MaxCounted
    BY <1>6 DEF CyU3PDmaBufferInit
  <2>3. /\ drv' \in Heap(MemBlocks) /\ Described(drv') /\ drv'.ready
        /\ drv'.held = drv.held \cup {b}
    BY <1>0, <2>1, <2>2, WithBlockDescribed
  <2>4. buf' \in Heap(BufBlocks) /\ Described(buf') /\ buf'.ready
    BY <1>0, <2>2, UpDescribed
  <2>5. b # NullPtr /\ buf'.ready = TRUE
    BY <2>4, HeapsAssumption, TypeOfHeap
  <2>6. HeapsTypeOK'
    BY <2>1, <2>2, <2>3, <2>4 DEF HeapsTypeOK
  <2>7. StatusArrayOwned'
    BY <2>1, <2>2, <2>3, <2>5 DEF StatusArrayOwned
  <2>8. Described(drv)' /\ Described(buf)'
    BY <2>3, <2>4 DEF Described
  <2> QED BY <2>6, <2>7, <2>8 DEF HeapsInv
<1>7. CASE CyU3PDmaBufferDeInit
  <2>1. /\ mutex /\ drv' = WithoutBlock(drv, usedStatus) /\ buf' = Emptied(buf)
        /\ usedStatus' = NullPtr /\ region' = FALSE /\ mutex' = FALSE
    BY <1>7 DEF CyU3PDmaBufferDeInit, DeInit
  <2>2. drv' \in Heap(MemBlocks) /\ Described(drv')
    BY <1>0, <1>1, <2>1, WithoutBlockDescribed
  <2>3. buf' \in Heap(BufBlocks) /\ Described(buf') /\ ~buf'.ready
    BY <1>0, <2>1, EmptiedDescribed
  <2> QED BY <1>4, <2>1, <2>2, <2>3 DEF Described
<1>8. CASE CyU3PFreeHeaps
  <2>1. drv' = Emptied(drv)
    BY <1>8 DEF CyU3PFreeHeaps
  <2>2. drv' \in Heap(MemBlocks) /\ Described(drv')
    BY <1>0, <2>1, EmptiedDescribed
  <2>3. CASE mutex
    <3>1. /\ buf' = Emptied(buf)
          /\ usedStatus' = NullPtr /\ region' = FALSE /\ mutex' = FALSE
      BY <1>8, <2>3 DEF CyU3PFreeHeaps
    <3>2. buf' \in Heap(BufBlocks) /\ Described(buf') /\ ~buf'.ready
      BY <1>0, <3>1, EmptiedDescribed
    <3> QED BY <1>4, <2>2, <3>1, <3>2 DEF Described
  <2>4. CASE ~mutex
    <3>1. UNCHANGED <<buf, mutex, usedStatus, region>>
      BY <1>8, <2>4 DEF CyU3PFreeHeaps
    <3> QED BY <1>1, <1>2, <2>2, <2>4, <3>1 DEF Described
  <2> QED BY <2>3, <2>4
<1>9. ASSUME NEW enable \in BOOLEAN, CyU3PMemEnableChecks(enable)
      PROVE  HeapsInv'
  <2>1. /\ ~drv.ready /\ drv' = [drv EXCEPT !.checks = enable]
        /\ UNCHANGED <<buf, mutex, usedStatus, region>>
    BY <1>9 DEF CyU3PMemEnableChecks
  <2>2. drv' \in Heap(MemBlocks) /\ Described(drv')
    BY <1>0, <2>1, SwitchedDescribed
  <2> QED BY <1>1, <1>2, <2>1, <2>2 DEF Described
<1>10. ASSUME NEW enable \in BOOLEAN, CyU3PBufEnableChecks(enable)
       PROVE  HeapsInv'
  <2>1. /\ usedStatus = NullPtr /\ buf' = [buf EXCEPT !.checks = enable]
        /\ UNCHANGED <<drv, mutex, usedStatus, region>>
    BY <1>10 DEF CyU3PBufEnableChecks
  <2>2. ~buf.ready
    BY <1>1, <2>1
  <2>3. buf' \in Heap(BufBlocks) /\ Described(buf') /\ ~buf'.ready
    BY <1>0, <2>1, <2>2, SwitchedDescribed
  <2>4. buf'.ready = buf.ready
    BY <1>0, <2>2, <2>3, TypeOfHeap
  <2> QED BY <1>3, <2>1, <2>3, <2>4 DEF Described
<1>11. ASSUME NEW b \in MemBlocks, CyU3PMemAlloc(b)
       PROVE  HeapsInv'
  <2>1. /\ drv.ready /\ b \notin drv.held /\ drv.allocs < MaxCounted
        /\ drv' = WithBlock(drv, b) /\ UNCHANGED <<buf, mutex, usedStatus, region>>
    BY <1>11 DEF CyU3PMemAlloc
  <2>2. /\ drv' \in Heap(MemBlocks) /\ Described(drv') /\ drv'.ready
        /\ drv'.held = drv.held \cup {b}
    BY <1>0, <2>1, WithBlockDescribed
  <2> QED BY <1>1, <1>2, <2>1, <2>2 DEF Described
<1>12. ASSUME NEW b \in MemBlocks, CyU3PMemFree(b)
       PROVE  HeapsInv'
  <2>1. /\ b \in drv.held /\ b # usedStatus /\ drv' = WithoutBlock(drv, b)
        /\ UNCHANGED <<buf, mutex, usedStatus, region>>
    BY <1>12 DEF CyU3PMemFree
  <2>2. /\ drv' \in Heap(MemBlocks) /\ Described(drv') /\ drv'.ready = drv.ready
        /\ drv'.held = drv.held \ {b}
    BY <1>0, <2>1, WithoutBlockDescribed
  <2> QED BY <1>1, <1>2, <2>1, <2>2 DEF Described
<1>13. ASSUME NEW b \in BufBlocks, CyU3PDmaBufferAlloc(b)
       PROVE  HeapsInv'
  <2>1. /\ region /\ b \notin buf.held /\ buf.allocs < MaxCounted
        /\ buf' = WithBlock(buf, b) /\ UNCHANGED <<drv, mutex, usedStatus, region>>
    BY <1>13 DEF CyU3PDmaBufferAlloc
  <2>2. buf.ready
    BY <1>1, <2>1
  <2>3. buf' \in Heap(BufBlocks) /\ Described(buf') /\ buf'.ready
    BY <1>0, <2>1, <2>2, WithBlockDescribed
  <2>4. buf'.ready = buf.ready
    BY <1>0, <2>2, <2>3, TypeOfHeap
  <2> QED BY <1>3, <2>1, <2>3, <2>4 DEF Described
<1>14. ASSUME NEW b \in BufBlocks, CyU3PDmaBufferFree(b)
       PROVE  HeapsInv'
  <2>1. /\ b \in buf.held /\ buf' = WithoutBlock(buf, b)
        /\ UNCHANGED <<drv, mutex, usedStatus, region>>
    BY <1>14 DEF CyU3PDmaBufferFree
  <2>2. buf' \in Heap(BufBlocks) /\ Described(buf') /\ buf'.ready = buf.ready
    BY <1>0, <2>1, WithoutBlockDescribed
  <2> QED BY <1>3, <2>1, <2>2 DEF Described
<1>15. CASE UNCHANGED heapsVars
  BY <1>15 DEF heapsVars, HeapsInv, HeapsTypeOK, Described, StatusArrayOwned
<1> QED
  BY <1>5, <1>6, <1>7, <1>8, <1>9, <1>10, <1>11, <1>12, <1>13, <1>14, <1>15 DEF HeapsNext

\* Both heaps are described by their headers, lists and counters, and the status array is
\* there with the buffer heap, in every reachable state: the inductive invariant.
THEOREM HeapsInvariant == HeapsSpec => []HeapsInv
BY HeapsInvInit, HeapsInvNext, PTL DEF HeapsSpec

\* A block in use has a header exactly when a free would look for one, and the leak check
\* reads the truth, for any number of blocks and any order in which the heaps come, go
\* and have their checks switched (cyfxtx.c, lines 382-446 and 1016-1130).
THEOREM LeakCheckTrueHolds == HeapsSpec => []LeakCheckTrue
<1>1. HeapsInv => LeakCheckTrue
  BY DEF HeapsInv, Described, LeakCheckTrue
<1> QED BY <1>1, HeapsInvariant, PTL

\* The buffer heap is there as a whole or not at all, and its status array is a block in
\* use of a living driver heap (lines 697-788).
THEOREM StatusArrayOwnedHolds == HeapsSpec => []StatusArrayOwned
<1>1. HeapsInv => StatusArrayOwned
  BY DEF HeapsInv
<1> QED BY <1>1, HeapsInvariant, PTL

-----------------------------------------------------------------------------
(* MemHelpers. *)

\* What holds in each loop: how far the pointers are, and which bytes are done.
DownInv ==
  pc \in {"down", "down8"} =>
    /\ call.op = "copy" /\ call.dest > call.src
    /\ p = call.dest + n /\ q = call.src + n
    /\ IF pc = "down"
       THEN k = 0 /\ n <= call.count /\ mem = Copied(n, call.count)
       ELSE n + Unroll <= call.count /\ mem = Copied(n + k + 1, call.count)

UpInv ==
  pc \in {"up", "set"} =>
    /\ call.op = IF pc = "up" THEN "copy" ELSE "set"
    /\ n <= call.count
    /\ p = call.dest + call.count - n /\ q = call.src + call.count - n
    /\ k > 0 => n >= Unroll
    /\ pc = "up" => call.dest <= call.src /\ mem = Copied(0, call.count - n + k)
    /\ pc = "set" => mem = Filled(call.count - n + k)

CmpInv ==
  pc = "cmp" =>
    /\ call.op = "cmp" /\ n <= call.count /\ ret = 0 /\ mem = mem0 /\ k = 0
    /\ p = call.dest + call.count - n /\ q = call.src + call.count - n
    /\ \A i \in 0..(call.count - n - 1) : mem0[call.dest + i] = mem0[call.src + i]

HelperInv ==
  /\ MemTypeOK
  /\ call.dest + call.count <= Size /\ call.src + call.count <= Size
  /\ pc = "call" => mem = mem0 /\ k = 0 /\ ret = 0
  /\ DownInv /\ UpInv /\ CmpInv
  /\ CopyMoves /\ SetFills /\ CmpTells

-----------------------------------------------------------------------------
(* A copy or a fill that has done no byte, or one byte more. *)

LEMMA NothingDone ==
  ASSUME mem0 \in [Addr -> 0..255], call \in Calls, MemAssumption,
         NEW c \in Int
  PROVE  Copied(c, c) = mem0 /\ Filled(0) = mem0
BY DEF Addr, Copied, Filled, Calls, MemAssumption

\* One byte more downwards: byte i, when all above it are done.
LEMMA CopyDown ==
  ASSUME MemAssumption, mem0 \in [Addr -> 0..255], call \in Calls,
         call.dest > call.src, call.dest + call.count <= Size,
         NEW i \in Nat, i < call.count
  PROVE  [Copied(i + 1, call.count) EXCEPT
            ![call.dest + i] = Copied(i + 1, call.count)[call.src + i]]
         = Copied(i, call.count)
<1>1. call.src + i \in Addr /\ call.dest + i \in Addr
  BY DEF Addr, Calls, MemAssumption
<1>2. Copied(i + 1, call.count)[call.src + i] = mem0[call.src + i]
  BY <1>1 DEF Addr, Copied, Calls, MemAssumption
<1>3. ASSUME NEW a \in Addr
      PROVE  [Copied(i + 1, call.count) EXCEPT ![call.dest + i] = mem0[call.src + i]][a]
             = Copied(i, call.count)[a]
  <2>1. CASE a = call.dest + i
    BY <1>1, <2>1 DEF Addr, Copied, Calls, MemAssumption
  <2>2. CASE a # call.dest + i
    BY <1>1, <2>2 DEF Addr, Copied, Calls, MemAssumption
  <2> QED BY <2>1, <2>2
<1> QED BY <1>2, <1>3 DEF Copied

\* One byte more upwards: byte i, when all below it are done.
LEMMA CopyUp ==
  ASSUME MemAssumption, mem0 \in [Addr -> 0..255], call \in Calls,
         call.dest <= call.src, call.src + call.count <= Size,
         NEW i \in Nat, i < call.count
  PROVE  [Copied(0, i) EXCEPT ![call.dest + i] = Copied(0, i)[call.src + i]]
         = Copied(0, i + 1)
<1>1. call.src + i \in Addr /\ call.dest + i \in Addr
  BY DEF Addr, Calls, MemAssumption
<1>2. Copied(0, i)[call.src + i] = mem0[call.src + i]
  BY <1>1 DEF Addr, Copied, Calls, MemAssumption
<1>3. ASSUME NEW a \in Addr
      PROVE  [Copied(0, i) EXCEPT ![call.dest + i] = mem0[call.src + i]][a]
             = Copied(0, i + 1)[a]
  <2>1. CASE a = call.dest + i
    BY <1>1, <2>1 DEF Addr, Copied, Calls, MemAssumption
  <2>2. CASE a # call.dest + i
    BY <1>1, <2>2 DEF Addr, Copied, Calls, MemAssumption
  <2> QED BY <2>1, <2>2
<1> QED BY <1>2, <1>3 DEF Copied

LEMMA FillUp ==
  ASSUME MemAssumption, mem0 \in [Addr -> 0..255], call \in Calls,
         call.dest + call.count <= Size, NEW i \in Nat, i < call.count
  PROVE  [Filled(i) EXCEPT ![call.dest + i] = call.data] = Filled(i + 1)
<1>1. call.dest + i \in Addr
  BY DEF Addr, Calls, MemAssumption
<1>2. ASSUME NEW a \in Addr
      PROVE  [Filled(i) EXCEPT ![call.dest + i] = call.data][a] = Filled(i + 1)[a]
  <2>1. CASE a = call.dest + i
    BY <1>1, <2>1 DEF Addr, Filled, Calls, MemAssumption
  <2>2. CASE a # call.dest + i
    BY <1>1, <2>2 DEF Addr, Filled, Calls, MemAssumption
  <2> QED BY <2>1, <2>2
<1> QED BY <1>2 DEF Filled
-----------------------------------------------------------------------------
(* The invariant. *)

LEMMA Arguments ==
  ASSUME MemAssumption, call \in Calls
  PROVE  /\ call.dest \in Nat /\ call.src \in Nat /\ call.count \in Nat
         /\ call.count <= Size /\ call.data \in 0..255
         /\ call.op \in {"set", "copy", "cmp"} /\ Size \in Nat
BY DEF Calls, MemAssumption

LEMMA Inside ==
  ASSUME Size \in Nat, NEW d \in Nat, NEW c \in Nat, d + c <= Size, NEW i \in Nat, i < c
  PROVE  d + i \in Addr
BY DEF Addr

LEMMA Index ==
  ASSUME NEW d \in Nat, NEW c \in Nat, NEW m \in Nat, NEW j \in 0..7, m <= c, j < m
  PROVE  /\ c - m + j \in Nat /\ c - m + j < c
         /\ (d + c - m) + j = d + (c - m + j)
OBVIOUS

LEMMA HelperInit == MemAssumption /\ MemInit => HelperInv
<1> SUFFICES ASSUME MemAssumption, MemInit PROVE HelperInv
  OBVIOUS
<1>1. call \in Calls /\ call.dest + call.count <= Size /\ call.src + call.count <= Size
  BY DEF MemInit
<1>2. MemTypeOK
  <2>1. mem \in [Addr -> 0..255] /\ mem0 \in [Addr -> 0..255]
    BY DEF MemInit, MemAssumption
  <2>2. /\ p \in 0..Size /\ q \in 0..Size /\ n \in 0..Size
        /\ k \in 0..(Unroll - 1) /\ ret \in -255..255
    BY DEF MemInit, MemAssumption, Unroll
  <2>3. pc \in {"call", "up", "down", "down8", "set", "cmp", "done"}
    BY DEF MemInit
  <2> QED BY <1>1, <2>1, <2>2, <2>3 DEF MemTypeOK
<1> QED BY <1>1, <1>2 DEF MemInit, HelperInv, DownInv, UpInv, CmpInv, CopyMoves, SetFills, CmpTells

LEMMA HelperStep == MemAssumption /\ HelperInv /\ [MemNext]_memVars => HelperInv'
<1>0. SUFFICES ASSUME MemAssumption, HelperInv, [MemNext]_memVars PROVE HelperInv'
  OBVIOUS
<1>a. /\ call \in Calls /\ call.dest + call.count <= Size /\ call.src + call.count <= Size
      /\ mem \in [Addr -> 0..255] /\ mem0 \in [Addr -> 0..255]
      /\ p \in 0..Size /\ q \in 0..Size /\ n \in 0..Size
  BY <1>0 DEF HelperInv, MemTypeOK
<1>c. k \in 0..(Unroll - 1) /\ ret \in -255..255
  BY <1>0 DEF HelperInv, MemTypeOK
<1>e. MemAssumption /\ MemTypeOK /\ DownInv /\ UpInv /\ CmpInv /\ (pc = "call" => mem = mem0 /\ k = 0 /\ ret = 0)
  BY <1>0 DEF HelperInv
<1>d. k \in 0..7
  BY <1>c DEF Unroll
<1>b. /\ call.dest \in Nat /\ call.src \in Nat /\ call.count \in Nat
      /\ call.count <= Size /\ call.data \in 0..255
      /\ call.op \in {"set", "copy", "cmp"} /\ Size \in Nat
  BY <1>a, <1>e, Arguments
<1>1. CASE Enter
  <2>1. mem' = mem /\ mem = mem0 /\ call' = call /\ mem0' = mem0 /\ n' = call.count
        /\ k' = 0 /\ ret' = 0
    BY <1>1, <1>e DEF Enter
  <2>2. Copied(call.count, call.count) = mem0 /\ Copied(0, 0) = mem0 /\ Filled(0) = mem0
    BY <1>e, <1>a, <1>b, NothingDone
  <2>3. Copied(call.count, call.count)' = mem0 /\ Copied(0, 0)' = mem0 /\ Filled(0)' = mem0
    BY <2>1, <2>2 DEF Addr, Copied, Filled
  <2>4. MemTypeOK'
    <3>1. p' \in 0..Size /\ q' \in 0..Size /\ n' \in 0..Size
      BY <1>1, <1>a, <1>b DEF Enter, GoesDown
    <3>2. pc' \in {"call", "up", "down", "down8", "set", "cmp", "done"}
      BY <1>1, <1>b DEF Enter, GoesDown
    <3> QED BY <1>1, <1>a, <1>c, <3>1, <3>2 DEF Enter, MemTypeOK
  <2>5. DownInv'
    BY <1>e, <1>1, <1>b, <2>1, <2>3 DEF Enter, GoesDown, DownInv
  <2>6. UpInv'
    BY <1>e, <1>1, <1>b, <2>1, <2>3 DEF Enter, GoesDown, UpInv
  <2>7. CmpInv'
    BY <1>e, <1>1, <1>b, <2>1 DEF Enter, GoesDown, CmpInv
  <2>8. CopyMoves' /\ SetFills' /\ CmpTells'
    BY <1>1, <1>b DEF Enter, GoesDown, CopyMoves, SetFills, CmpTells
  <2> QED BY <1>a, <2>1, <2>4, <2>5, <2>6, <2>7, <2>8 DEF HelperInv
<1>2. CASE DownChunk
  <2>1. /\ UNCHANGED <<mem, mem0, call, ret>> /\ k' = 7 /\ n' = n - 8 /\ n >= 8
        /\ pc = "down" /\ pc' = "down8" /\ p' = p - 8 /\ q' = q - 8
    BY <1>2 DEF DownChunk, Unroll
  <2>2. Copied(n + k + 1, call.count)' = Copied(n, call.count)
    BY <1>a, <2>1 DEF Copied
  <2>3. DownInv'
    BY <1>e, <1>a, <1>d, <1>b, <2>1, <2>2 DEF DownInv, Unroll
  <2>4. MemTypeOK'
    <3>1. p' \in 0..Size /\ q' \in 0..Size /\ n' \in 0..Size /\ k' \in 0..(Unroll - 1)
      BY <1>e, <1>a, <1>d, <1>b, <2>1 DEF DownInv, Unroll
    <3> QED BY <1>a, <1>c, <2>1, <3>1 DEF MemTypeOK
  <2> QED BY <1>e, <1>a, <2>1, <2>3, <2>4 DEF HelperInv, UpInv, CmpInv, CopyMoves, SetFills, CmpTells
<1>3. CASE DownBody
  <2>1. /\ UNCHANGED <<mem0, call, p, q, n, ret>> /\ pc = "down8"
        /\ mem' = [mem EXCEPT ![p + k] = mem[q + k]]
        /\ pc' = IF k = 0 THEN "down" ELSE "down8"
        /\ k' = IF k = 0 THEN 0 ELSE k - 1
    BY <1>3 DEF DownBody
  <2>2. /\ n + k \in Nat /\ n + k < call.count /\ p + k = call.dest + (n + k)
        /\ q + k = call.src + (n + k)
        /\ call.dest > call.src /\ call.op = "copy" /\ p + k \in Addr /\ q + k \in Addr
    <3>1. /\ p = call.dest + n /\ q = call.src + n /\ n + 8 <= call.count
          /\ call.dest > call.src /\ call.op = "copy"
      BY <1>e, <2>1 DEF DownInv, Unroll
    <3>2. n \in Nat /\ k \in 0..7
      BY <1>a, <1>b, <1>d
    <3>3. /\ n + k \in Nat /\ n + k < call.count /\ p + k = call.dest + (n + k)
          /\ q + k = call.src + (n + k)
      BY <1>b, <3>1, <3>2
    <3>4. p + k \in Addr /\ q + k \in Addr
      BY <1>a, <1>b, <3>3, Inside
    <3> QED BY <3>1, <3>3, <3>4
  <2>a. mem = Copied((n + k) + 1, call.count)
    BY <1>e, <2>1 DEF DownInv
  <2>3. mem' = Copied(n + k, call.count)
    BY <1>e, <1>a, <2>1, <2>2, <2>a, CopyDown
  <2>4. Copied(n + k, call.count) = IF k = 0 THEN Copied(n, call.count)'
                                              ELSE Copied(n + k + 1, call.count)'
    <3>1. n + k = IF k = 0 THEN n ELSE n + (k - 1) + 1
      BY <1>a, <1>d
    <3> QED BY <2>1, <3>1 DEF Copied
  <2>5. DownInv'
    BY <1>e, <1>a, <1>d, <1>b, <2>1, <2>2, <2>3, <2>4 DEF DownInv, Unroll
  <2>6. MemTypeOK'
    <3>1. mem' \in [Addr -> 0..255]
      BY <1>a, <2>1, <2>2
    <3>2. k' \in 0..(Unroll - 1)
      BY <1>a, <1>d, <2>1 DEF Unroll
    <3> QED BY <1>a, <1>c, <2>1, <3>1, <3>2 DEF MemTypeOK
  <2> QED BY <1>e, <1>a, <2>1, <2>5, <2>6 DEF HelperInv, UpInv, CmpInv, CopyMoves, SetFills, CmpTells
<1>4. CASE DownByte
  <2>1. /\ UNCHANGED <<mem0, call, pc, k, ret>> /\ pc = "down" /\ n \in 1..7
        /\ p' = p - 1 /\ q' = q - 1 /\ n' = n - 1
        /\ mem' = [mem EXCEPT ![p - 1] = mem[q - 1]]
    BY <1>4 DEF DownByte, Unroll
  <2>2. /\ n - 1 \in Nat /\ n - 1 < call.count /\ p - 1 = call.dest + (n - 1)
        /\ q - 1 = call.src + (n - 1)
        /\ call.dest > call.src /\ call.op = "copy" /\ p - 1 \in Addr /\ q - 1 \in Addr
    <3>1. /\ p = call.dest + n /\ q = call.src + n /\ n <= call.count
          /\ call.dest > call.src /\ call.op = "copy"
      BY <1>e, <2>1 DEF DownInv
    <3>2. n \in 1..7
      BY <2>1
    <3>3. /\ n - 1 \in Nat /\ n - 1 < call.count /\ p - 1 = call.dest + (n - 1)
          /\ q - 1 = call.src + (n - 1)
      BY <1>b, <3>1, <3>2
    <3>4. p - 1 \in Addr /\ q - 1 \in Addr
      BY <1>a, <1>b, <3>3, Inside
    <3> QED BY <3>1, <3>3, <3>4
  <2>a. mem = Copied((n - 1) + 1, call.count)
    <3>1. (n - 1) + 1 = n
      BY <2>1
    <3> QED BY <1>e, <2>1, <3>1 DEF DownInv
  <2>3. mem' = Copied(n - 1, call.count)
    BY <1>e, <1>a, <2>1, <2>2, <2>a, CopyDown
  <2>4. Copied(n - 1, call.count) = Copied(n, call.count)'
    BY <2>1 DEF Copied
  <2>5. DownInv'
    BY <1>e, <1>a, <1>b, <2>1, <2>2, <2>3, <2>4 DEF DownInv
  <2>6. MemTypeOK'
    <3>1. mem' \in [Addr -> 0..255]
      BY <1>a, <2>1, <2>2
    <3>2. p' \in 0..Size /\ q' \in 0..Size /\ n' \in 0..Size
      BY <1>a, <1>b, <2>1, <2>2 DEF Addr
    <3> QED BY <1>a, <1>c, <2>1, <3>1, <3>2 DEF MemTypeOK
  <2> QED BY <1>e, <1>a, <2>1, <2>5, <2>6 DEF HelperInv, UpInv, CmpInv, CopyMoves, SetFills, CmpTells
<1>5. ASSUME NEW loop \in {"up", "set"}, NEW byte \in 0..255,
             byte = IF loop = "up" THEN mem[q + k] ELSE call.data,
             UpBody(loop, byte) \/ (k = 0 /\ UpByte(loop, byte))
      PROVE  HelperInv'
  <2>1. /\ UNCHANGED <<mem0, call, pc, ret>> /\ pc = loop /\ n > 0 /\ (k > 0 => n >= 8)
        /\ mem' = [mem EXCEPT ![p + k] = byte]
        /\ k' \in 0..7 /\ (k' > 0 => n' >= 8)
        /\ n' \in Nat /\ p' = p + (n - n') /\ q' = q + (n - n') /\ n' <= n
        /\ k' - n' = k - n + 1
    <3>1. CASE UpBody(loop, byte)
      BY <1>a, <1>d, <1>5, <3>1 DEF UpBody, Unroll
    <3>2. CASE k = 0 /\ UpByte(loop, byte)
      BY <1>a, <1>d, <1>5, <3>2 DEF UpByte, Unroll
    <3> QED BY <1>5, <3>1, <3>2
  <2> DEFINE i == call.count - n + k
  <2>2. /\ i \in Nat /\ i < call.count /\ p + k = call.dest + i /\ q + k = call.src + i
        /\ p + k \in Addr /\ i + 1 = call.count - n' + k'
    <3>1. /\ p = call.dest + call.count - n /\ q = call.src + call.count - n
          /\ n <= call.count
      BY <1>e, <1>5, <2>1 DEF UpInv
    <3>2. k \in 0..7 /\ n \in Nat /\ n' \in Nat /\ k < n /\ k' \in 0..7 /\ k' - n' = k - n + 1
      <4>1. n > 0 /\ (k > 0 => n >= 8) /\ k' \in 0..7 /\ n' \in Nat /\ k' - n' = k - n + 1
        BY <2>1
      <4>2. k \in 0..7 /\ n \in Nat
        BY <1>a, <1>b, <1>d
      <4>3. k < n
        BY <4>1, <4>2
      <4> QED BY <4>1, <4>2, <4>3, Zenon
    <3>3. /\ i \in Nat /\ i < call.count /\ p + k = call.dest + i /\ q + k = call.src + i
          /\ i + 1 = call.count - n' + k'
      <4>1. /\ i \in Nat /\ i < call.count /\ p + k = call.dest + i
        BY <1>b, <3>1, <3>2, Index
      <4>2. q + k = call.src + i
        BY <1>b, <3>1, <3>2, Index
      <4>3. i + 1 = call.count - n' + k'
        <5>1. k \in Nat /\ k' \in Nat
          BY <3>2
        <5>2. PICK m2 \in Nat : m2 = n'
          BY <3>2
        <5>3. PICK j2 \in Nat : j2 = k'
          BY <5>1
        <5>4. j2 - m2 = k - n + 1
          BY <3>2, <5>2, <5>3
        <5>5. i + 1 = call.count - m2 + j2
          BY <1>b, <3>2, <5>1, <5>4
        <5> QED BY <5>2, <5>3, <5>5
      <4> QED BY <4>1, <4>2, <4>3
    <3>4. p + k \in Addr
      BY <1>a, <1>b, <3>3, Inside
    <3> QED BY <3>3, <3>4
  <2>3. pc = "up" => mem = Copied(0, i) /\ call.dest <= call.src
    BY <1>e, <1>5, <2>1 DEF UpInv
  <2>4. pc = "up" => mem' = Copied(0, i + 1)
    BY <1>e, <1>a, <1>5, <2>1, <2>2, <2>3, CopyUp
  <2>5. pc = "set" => mem' = Filled(i + 1)
    BY <1>e, <1>a, <1>5, <2>1, <2>2, FillUp DEF UpInv
  <2>6. Copied(0, i + 1) = Copied(0, call.count - n + k)'
        /\ Filled(i + 1) = Filled(call.count - n + k)'
    BY <2>1, <2>2 DEF Copied, Filled
  <2>7. UpInv'
    <3>1. pc' = pc /\ call' = call /\ call.op = (IF pc = "up" THEN "copy" ELSE "set")
      BY <1>e, <1>5, <2>1 DEF UpInv
    <3>2. n' <= call.count /\ p' = call.dest + call.count - n' /\ q' = call.src + call.count - n'
      BY <1>e, <1>a, <1>b, <1>5, <2>1 DEF UpInv
    <3> QED BY <1>e, <2>1, <2>3, <2>4, <2>5, <2>6, <3>1, <3>2 DEF UpInv, Unroll
  <2>8. MemTypeOK'
    <3>1. mem' \in [Addr -> 0..255]
      BY <1>a, <2>1, <2>2
    <3>2. p' \in 0..Size /\ q' \in 0..Size /\ n' \in 0..Size /\ k' \in 0..(Unroll - 1)
      <4>1. /\ p = call.dest + call.count - n /\ q = call.src + call.count - n
            /\ n <= call.count
        BY <1>e, <1>5, <2>1 DEF UpInv
      <4> QED BY <1>a, <1>d, <1>b, <2>1, <4>1 DEF Unroll
    <3> QED BY <1>a, <1>c, <2>1, <3>1, <3>2 DEF MemTypeOK
  <2> QED BY <1>e, <1>a, <1>5, <2>1, <2>7, <2>8 DEF HelperInv, DownInv, CmpInv, CopyMoves, SetFills, CmpTells
<1>6. CASE Leave("down") \/ Leave("up") \/ Leave("set") \/ Leave("cmp")
  <2>1. /\ UNCHANGED <<mem, mem0, call, p, q, n, k, ret>> /\ n = 0 /\ pc' = "done"
        /\ pc \in {"down", "up", "set", "cmp"}
    BY <1>6 DEF Leave
  <2>2. CASE pc = "down"
    <3>1. call.op = "copy" /\ mem = Copied(0, call.count)
      BY <1>e, <2>1, <2>2 DEF DownInv
    <3> QED BY <1>e, <1>a, <2>1, <3>1 DEF HelperInv, MemTypeOK, DownInv, UpInv, CmpInv, CopyMoves, SetFills, CmpTells, Copied
  <2>3. CASE pc = "up"
    <3>1. call.op = "copy" /\ mem = Copied(0, call.count - n + k) /\ k = 0
      BY <1>e, <1>a, <1>d, <2>1, <2>3 DEF UpInv, Unroll
    <3>2. call.count - n + k = call.count
      BY <1>b, <2>1, <3>1
    <3>3. mem = Copied(0, call.count)
      BY <3>1, <3>2
    <3> QED BY <1>e, <1>a, <2>1, <3>1, <3>3 DEF HelperInv, MemTypeOK, DownInv, UpInv, CmpInv, CopyMoves, SetFills, CmpTells, Copied
  <2>4. CASE pc = "set"
    <3>1. call.op = "set" /\ mem = Filled(call.count - n + k) /\ k = 0
      BY <1>e, <1>a, <1>d, <2>1, <2>4 DEF UpInv, Unroll
    <3>2. call.count - n + k = call.count
      BY <1>b, <2>1, <3>1
    <3>3. mem = Filled(call.count)
      BY <3>1, <3>2
    <3> QED BY <1>e, <1>a, <2>1, <3>1, <3>3 DEF HelperInv, MemTypeOK, DownInv, UpInv, CmpInv, CopyMoves, SetFills, CmpTells, Filled
  <2>5. CASE pc = "cmp"
    <3>1. /\ call.op = "cmp" /\ ret = 0 /\ mem = mem0
          /\ \A j \in 0..(call.count - n - 1) : mem0[call.dest + j] = mem0[call.src + j]
      BY <1>e, <2>5 DEF CmpInv
    <3>2. call.count - n - 1 = call.count - 1
      BY <1>b, <2>1
    <3>3. \A j \in 0..(call.count - 1) : mem0[call.dest + j] = mem0[call.src + j]
      BY <3>1, <3>2
    <3>4. CmpTells'
      BY <2>1, <3>1, <3>3 DEF CmpTells
    <3> QED BY <1>e, <1>a, <2>1, <3>1, <3>4 DEF HelperInv, MemTypeOK, DownInv, UpInv, CmpInv, CopyMoves, SetFills
  <2> QED BY <2>1, <2>2, <2>3, <2>4, <2>5
<1>7. CASE Compare
  <2>1. /\ pc = "cmp" /\ n > 0 /\ ret' = mem[p] - mem[q] /\ UNCHANGED <<mem, mem0, call, k>>
        /\ IF mem[p] = mem[q]
           THEN p' = p + 1 /\ q' = q + 1 /\ n' = n - 1 /\ UNCHANGED pc
           ELSE pc' = "done" /\ UNCHANGED <<p, q, n>>
    BY <1>7 DEF Compare
  <2> DEFINE i == call.count - n
  <2>2. /\ call.op = "cmp" /\ n <= call.count /\ ret = 0 /\ mem = mem0 /\ k = 0
        /\ p = call.dest + call.count - n /\ q = call.src + call.count - n
        /\ \A j \in 0..(i - 1) : mem0[call.dest + j] = mem0[call.src + j]
    BY <1>e, <2>1 DEF CmpInv
  <2>3. /\ i \in 0..(call.count - 1) /\ p = call.dest + i /\ q = call.src + i
        /\ p \in Addr /\ q \in Addr
    <3>1. /\ n > 0 /\ n <= call.count /\ n \in Nat
          /\ p = call.dest + call.count - n /\ q = call.src + call.count - n
      BY <1>a, <2>1, <2>2
    <3>2. i \in Nat /\ i < call.count /\ p = call.dest + i /\ q = call.src + i
      BY <1>b, <3>1
    <3>3. p \in Addr /\ q \in Addr
      BY <1>a, <1>b, <3>2, Inside
    <3> QED BY <1>b, <3>2, <3>3
  <2>4. mem[p] \in 0..255 /\ mem[q] \in 0..255
    BY <1>a, <2>3
  <2>5. MemTypeOK'
    <3>1. ret' \in -255..255
      <4>1. \A x, y \in 0..255 : x - y \in -255..255
        OBVIOUS
      <4> QED BY <2>1, <2>4, <4>1
    <3>2. p' \in 0..Size /\ q' \in 0..Size /\ n' \in 0..Size
      <4>1. p \in 0..(Size - 1) /\ q \in 0..(Size - 1) /\ n \in 1..Size
        BY <1>a, <1>b, <2>1, <2>3 DEF Addr
      <4>2. p + 1 \in 0..Size /\ q + 1 \in 0..Size /\ n - 1 \in 0..Size
        BY <1>b, <4>1
      <4> QED BY <1>a, <2>1, <4>2
    <3>3. pc' \in {"cmp", "done"}
      BY <2>1
    <3> QED BY <1>a, <1>c, <2>1, <3>1, <3>2, <3>3 DEF MemTypeOK
  <2>6. CASE mem[p] = mem[q]
    <3>1. \A j \in 0..(call.count - n' - 1) : mem0[call.dest + j] = mem0[call.src + j]
      <4>1. n' = n - 1 /\ mem0[call.dest + i] = mem0[call.src + i]
        BY <2>1, <2>2, <2>3, <2>6
      <4>2. ASSUME NEW j \in 0..(call.count - n' - 1), j # i PROVE j \in 0..(i - 1)
        BY <1>a, <1>b, <4>1, <4>2
      <4> QED BY <2>2, <4>1, <4>2
    <3>2. ret' = 0
      BY <2>1, <2>4, <2>6
    <3>3. CmpInv'
      <4>1. n' <= call.count /\ p' = call.dest + call.count - n' /\ q' = call.src + call.count - n'
        BY <1>a, <1>b, <2>1, <2>2, <2>6
      <4> QED BY <1>e, <2>1, <2>2, <3>1, <3>2, <4>1 DEF CmpInv
    <3> QED BY <1>e, <1>a, <2>1, <2>5, <2>6, <3>3 DEF HelperInv, DownInv, UpInv, CopyMoves, SetFills, CmpTells
  <2>7. CASE mem[p] # mem[q]
    <3>1. CmpTells'
      <4>1. ret' # 0 /\ ret' = mem0[call.dest + i] - mem0[call.src + i]
            /\ mem0[call.dest + i] # mem0[call.src + i]
        <5>1. \A x, y \in 0..255 : x # y => x - y # 0
          OBVIOUS
        <5> QED BY <2>1, <2>2, <2>3, <2>4, <2>7, <5>1
      <4>2. \A j \in 0..(call.count - 1) :
              mem0[call.dest + j] # mem0[call.src + j] => i <= j
        BY <1>a, <1>b, <2>2, <2>3
      <4> QED BY <2>1, <2>2, <2>3, <4>1, <4>2 DEF CmpTells
    <3> QED BY <1>e, <1>a, <2>1, <2>2, <2>5, <2>7, <3>1 DEF HelperInv, DownInv, UpInv, CmpInv, CopyMoves, SetFills
  <2> QED BY <2>6, <2>7
<1>8. CASE UNCHANGED memVars
  <2>1. UNCHANGED <<mem, mem0, call, pc, p, q, n, k, ret>>
    BY <1>8 DEF memVars
  <2>2. MemTypeOK' /\ CmpInv' /\ CmpTells'
    BY <1>0, <2>1 DEF HelperInv, MemTypeOK, CmpInv, CmpTells
  <2>3. DownInv' /\ UpInv' /\ CopyMoves' /\ SetFills'
    BY <1>0, <2>1 DEF HelperInv, DownInv, UpInv, CopyMoves, SetFills, Copied, Filled
  <2> QED BY <1>0, <2>1, <2>2, <2>3 DEF HelperInv
<1>9. CASE UpBody("set", call.data) \/ UpByte("set", call.data)
  <2>1. UpByte("set", call.data) => k = 0
    BY <1>e, <1>a, <1>d DEF UpByte, UpInv, Unroll
  <2> QED BY <1>b, <1>5, <1>9, <2>1
<1>10. CASE UpBody("up", mem[q + k]) \/ UpByte("up", mem[q])
  <2>1. UpByte("up", mem[q]) => k = 0
    BY <1>e, <1>a, <1>d DEF UpByte, UpInv, Unroll
  <2>2. /\ pc = "up" /\ n > k
    BY <1>a, <1>d, <1>10, <2>1 DEF UpBody, UpByte, Unroll
  <2>3. q + k \in Addr
    <3>1. n <= call.count /\ q = call.src + call.count - n /\ k \in 0..7 /\ n \in Nat /\ n > k
      BY <1>a, <1>d, <1>e, <2>2 DEF UpInv
    <3>2. call.count - n + k \in Nat /\ call.count - n + k < call.count
          /\ q + k = call.src + (call.count - n + k)
      BY <1>b, <3>1
    <3> QED BY <1>a, <1>b, <3>2, Inside
  <2>4. mem[q + k] \in 0..255
    BY <1>a, <2>3
  <2>5. k = 0 => q + k = q
    BY <1>a
  <2> QED BY <1>5, <1>10, <2>1, <2>4, <2>5
<1> QED BY <1>0, <1>1, <1>2, <1>3, <1>4, <1>6, <1>7, <1>8, <1>9, <1>10
       DEF MemNext, CyU3PMemSet, CyU3PMemCopy, CyU3PMemCmp

-----------------------------------------------------------------------------

\* The invariant, for every memory, every address and every count.
THEOREM HelperInvariant == MemSpec => []HelperInv
<1>1. MemInit => HelperInv
  BY MemAssumption, HelperInit
<1>2. HelperInv /\ [MemNext]_memVars => HelperInv'
  BY MemAssumption, HelperStep
<1> QED BY <1>1, <1>2, PTL DEF MemSpec

\* CyU3PMemCopy moves its bytes for every length and every overlap (cyfxtx.c, 551).
THEOREM CopyIsCorrect == MemSpec => []CopyMoves
<1>1. HelperInv => CopyMoves
  BY DEF HelperInv
<1> QED BY <1>1, HelperInvariant, PTL

\* CyU3PMemSet fills its bytes and no other (cyfxtx.c, 510).
THEOREM SetIsCorrect == MemSpec => []SetFills
<1>1. HelperInv => SetFills
  BY DEF HelperInv
<1> QED BY <1>1, HelperInvariant, PTL

\* CyU3PMemCmp finds the first difference (cyfxtx.c, 632).
THEOREM CmpIsCorrect == MemSpec => []CmpTells
<1>1. HelperInv => CmpTells
  BY DEF HelperInv
<1> QED BY <1>1, HelperInvariant, PTL

\* Every call of a helper does what its name says and nothing else.
THEOREM HelpersAreCorrect == MemSpec => []HelpersCorrect
<1>1. CopyMoves /\ SetFills /\ CmpTells => HelpersCorrect
  BY DEF HelpersCorrect
<1> QED BY <1>1, CopyIsCorrect, SetIsCorrect, CmpIsCorrect, PTL


\* No helper leaves the memory it was given.
THEOREM HelperTypeCorrect == MemSpec => []MemTypeOK
<1>1. HelperInv => MemTypeOK
  BY DEF HelperInv
<1> QED BY <1>1, HelperInvariant, PTL
=============================================================================
