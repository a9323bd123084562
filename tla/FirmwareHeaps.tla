---------------------------- MODULE FirmwareHeaps ----------------------------
(***************************************************************************)
(* The life of the two heaps of the firmware (fx3/cyfxtx.c): switching     *)
(* their checks on, initialisation, which may fail half way, use, and      *)
(* de-initialisation.  The buffer heap keeps its status array in a block   *)
(* of the driver heap, so the order in which the two come and go matters.  *)
(* A block has a header when it was allocated with checks on, and a free   *)
(* looks for a header when checks are on at that time.                     *)
(*                                                                         *)
(* Every call is one step: HeapCalls takes the list apart, DmaBufMgr the   *)
(* search.  De-initialisation is called by a thread, so it waits for the   *)
(* mutex.  Callers give up their blocks when the heap goes away.           *)
(***************************************************************************)
EXTENDS Integers, FiniteSets

CONSTANTS
  MemBlocks, \* the places for blocks in the driver heap
  BufBlocks, \* and in the buffer heap
  MaxCounted, \* bound: counted allocations of a heap
  NullPtr

ASSUME HeapsAssumption == MaxCounted \in Nat /\ NullPtr \notin MemBlocks \cup BufBlocks

VARIABLES
  drv,        \* the driver heap
  buf,        \* the buffer heap
  mutex,      \* glBufferManager.lock exists
  usedStatus, \* the block with the status array
  region      \* startAddr and regionSize are set

heapsVars == <<drv, buf, mutex, usedStatus, region>>

Heap(Places) ==
  [ready : BOOLEAN,         \* glMemPoolInit; for buffers: can be allocated from
   checks : BOOLEAN,        \* glMemEnableChecks, glBufMgrEnableChecks
   held : SUBSET Places,    \* blocks in use
   headed : SUBSET Places,  \* those with a header
   listed : SUBSET Places,  \* the in-use list
   allocs : 0..MaxCounted, frees : 0..MaxCounted]

-----------------------------------------------------------------------------
(* What a call does to a heap h. *)

WithBlock(h, b) ==
  IF h.checks
  THEN [h EXCEPT !.held = @ \cup {b}, !.headed = @ \cup {b}, !.listed = @ \cup {b},
                 !.allocs = @ + 1]
  ELSE [h EXCEPT !.held = @ \cup {b}]

WithoutBlock(h, b) ==
  IF h.checks
  THEN [h EXCEPT !.held = @ \ {b}, !.headed = @ \ {b}, !.listed = @ \ {b}, !.frees = @ + 1]
  ELSE [h EXCEPT !.held = @ \ {b}, !.headed = @ \ {b}]

\* Mutant: the list survives.
Emptied_KeepList(h) ==
  [h EXCEPT !.ready = FALSE, !.held = {}, !.headed = {}, !.allocs = 0, !.frees = 0]

Emptied(h) ==
  [h EXCEPT !.ready = FALSE, !.held = {}, !.headed = {}, !.listed = {},
            !.allocs = 0, !.frees = 0]

-----------------------------------------------------------------------------
(* The driver heap. *)

CyU3PMemEnableChecks(enable) ==
  /\ ~drv.ready
  /\ drv' = [drv EXCEPT !.checks = enable]
  /\ UNCHANGED <<buf, mutex, usedStatus, region>>

CyU3PMemInit ==
  /\ ~drv.ready
  /\ drv' = [drv EXCEPT !.ready = TRUE]
  /\ UNCHANGED <<buf, mutex, usedStatus, region>>

CyU3PMemAlloc(b) ==
  /\ drv.ready /\ b \notin drv.held /\ drv.allocs < MaxCounted
  /\ drv' = WithBlock(drv, b)
  /\ UNCHANGED <<buf, mutex, usedStatus, region>>

CyU3PMemFree(b) ==
  /\ b \in drv.held \ {usedStatus}
  /\ drv' = WithoutBlock(drv, b)
  /\ UNCHANGED <<buf, mutex, usedStatus, region>>

-----------------------------------------------------------------------------
(* The buffer heap. *)

CyU3PBufEnableChecks(enable) ==
  /\ usedStatus = NullPtr
  /\ buf' = [buf EXCEPT !.checks = enable]
  /\ UNCHANGED <<drv, mutex, usedStatus, region>>

\* Without a status array the mutex is destroyed again; when it cannot be created,
\* or the heap is there already, nothing happens.
CyU3PDmaBufferInit ==
  /\ ~region /\ drv.ready /\ drv.allocs < MaxCounted
  /\ \E b \in MemBlocks \ drv.held :
       /\ drv' = WithBlock(drv, b)
       /\ usedStatus' = b
  /\ mutex' = TRUE /\ region' = TRUE
  /\ buf' = [buf EXCEPT !.ready = TRUE]

\* The part under the mutex, on a driver heap m.
DeInit(m) ==
  /\ drv' = WithoutBlock(m, usedStatus)
  /\ buf' = Emptied(buf)
  /\ usedStatus' = NullPtr /\ region' = FALSE /\ mutex' = FALSE

CyU3PDmaBufferDeInit == mutex /\ DeInit(drv)

CyU3PDmaBufferAlloc(b) ==
  /\ mutex /\ region /\ b \notin buf.held /\ buf.allocs < MaxCounted
  /\ buf' = WithBlock(buf, b)
  /\ UNCHANGED <<drv, mutex, usedStatus, region>>

CyU3PDmaBufferFree(b) ==
  /\ mutex /\ b \in buf.held
  /\ buf' = WithoutBlock(buf, b)
  /\ UNCHANGED <<drv, mutex, usedStatus, region>>

\* Mutant: the buffer heap is left as it is.
CyU3PFreeHeaps_MemOnly ==
  /\ drv' = Emptied(drv)
  /\ UNCHANGED <<buf, mutex, usedStatus, region>>

\* Both heaps, the buffer heap first; then the byte pool is destroyed.
CyU3PFreeHeaps ==
  /\ IF mutex
     THEN buf' = Emptied(buf) /\ usedStatus' = NullPtr /\ region' = FALSE /\ mutex' = FALSE
     ELSE UNCHANGED <<buf, mutex, usedStatus, region>>
  /\ drv' = Emptied(drv)

-----------------------------------------------------------------------------
EmptyHeap ==
  [ready |-> FALSE, checks |-> FALSE, held |-> {}, headed |-> {}, listed |-> {},
   allocs |-> 0, frees |-> 0]

HeapsInit ==
  /\ drv = EmptyHeap /\ buf = EmptyHeap
  /\ mutex = FALSE /\ usedStatus = NullPtr /\ region = FALSE

HeapsNext ==
  \/ CyU3PMemInit \/ CyU3PDmaBufferInit \/ CyU3PDmaBufferDeInit \/ CyU3PFreeHeaps
  \/ \E enable \in BOOLEAN : CyU3PMemEnableChecks(enable) \/ CyU3PBufEnableChecks(enable)
  \/ \E b \in MemBlocks : CyU3PMemAlloc(b) \/ CyU3PMemFree(b)
  \/ \E b \in BufBlocks : CyU3PDmaBufferAlloc(b) \/ CyU3PDmaBufferFree(b)

HeapsSpec == HeapsInit /\ [][HeapsNext]_heapsVars

-----------------------------------------------------------------------------
(* Properties. *)

\* A block in use has a header exactly when a free would look for one: otherwise the
\* free would take 20 bytes of another block for a header, or give the byte pool an
\* address inside a block (lines 382-410 and 1016-1043).  The list and the counters that
\* the leak check reads describe the blocks in use, also after the heaps went away and
\* came back (lines 423-446 and 1099-1130).
LeakCheckTrue ==
  \A h \in {drv, buf} :
    /\ h.headed = IF h.checks THEN h.held ELSE {}
    /\ h.checks => h.listed = h.held /\ h.allocs - h.frees = Cardinality(h.held)

\* The buffer heap is there as a whole or not at all, and its status array is a
\* block in use of a living driver heap (lines 697-788).
StatusArrayOwned ==
  /\ mutex = region /\ region = (usedStatus # NullPtr) /\ buf.ready = region
  /\ region => drv.ready /\ usedStatus \in drv.held
=============================================================================
