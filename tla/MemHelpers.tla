----------------------------- MODULE MemHelpers -----------------------------
(***************************************************************************)
(* The memory helpers of the firmware (fx3/cyfxtx.c): CyU3PMemSet,         *)
(* CyU3PMemCopy and CyU3PMemCmp, one call, byte by byte.  The loops are    *)
(* unrolled by eight; the copy picks its direction from the addresses, so  *)
(* that blocks may overlap.  mem0 remembers the memory before the call.    *)
(***************************************************************************)
EXTENDS Integers

CONSTANTS
  Size,    \* addresses are 0..Size-1
  Contents \* what the memory may hold at the call: functions on addresses

Addr == 0..(Size - 1)

ASSUME MemAssumption == Size \in Nat /\ Contents \subseteq [Addr -> 0..255]

Unroll == 8

VARIABLES
  mem, mem0,
  call, \* the arguments: op, dest, src, count, data
  pc,   \* "call", "up", "down", "down8", "set", "cmp", "done"
  p, q, \* dest and src (ptr; ptr1 and ptr2) as they move
  n,    \* count as it falls
  k,    \* the index in the unrolled body
  ret   \* the result of the comparison

memVars == <<mem, mem0, call, pc, p, q, n, k, ret>>

Calls == [op : {"set", "copy", "cmp"}, dest : 0..Size, src : 0..Size,
          count : 0..Size, data : {0, 255}]

-----------------------------------------------------------------------------
(* The call, and the loops. *)

\* Mutant: a copy always runs upwards.
GoesDown_Never(c) == FALSE

GoesDown(c) == c.op = "copy" /\ c.dest > c.src

Enter ==
  /\ pc = "call"
  /\ pc' = IF GoesDown(call) THEN "down" ELSE IF call.op = "copy" THEN "up" ELSE call.op
  /\ p' = IF GoesDown(call) THEN call.dest + call.count ELSE call.dest
  /\ q' = IF GoesDown(call) THEN call.src + call.count ELSE call.src
  /\ n' = call.count
  /\ UNCHANGED <<mem, mem0, call, k, ret>>

\* The end of the loop in state loop.
Leave(loop) ==
  /\ pc = loop /\ n = 0
  /\ pc' = "done"
  /\ UNCHANGED <<mem, mem0, call, p, q, n, k, ret>>

DownChunk ==
  /\ pc = "down" /\ n >= Unroll
  /\ p' = p - Unroll /\ q' = q - Unroll /\ n' = n - Unroll
  /\ k' = Unroll - 1
  /\ pc' = "down8"
  /\ UNCHANGED <<mem, mem0, call, ret>>

DownBody ==
  /\ pc = "down8"
  /\ mem' = [mem EXCEPT ![p + k] = mem[q + k]]
  /\ pc' = IF k = 0 THEN "down" ELSE "down8"
  /\ k' = IF k = 0 THEN 0 ELSE k - 1
  /\ UNCHANGED <<mem0, call, p, q, n, ret>>

DownByte ==
  /\ pc = "down" /\ n \in 1..(Unroll - 1)
  /\ p' = p - 1 /\ q' = q - 1 /\ n' = n - 1
  /\ mem' = [mem EXCEPT ![p - 1] = mem[q - 1]]
  /\ UNCHANGED <<mem0, call, pc, k, ret>>

\* The unrolled loop upwards, storing byte.
UpBody(loop, byte) ==
  /\ pc = loop /\ n >= Unroll
  /\ mem' = [mem EXCEPT ![p + k] = byte]
  /\ IF k = Unroll - 1
     THEN p' = p + Unroll /\ q' = q + Unroll /\ n' = n - Unroll /\ k' = 0
     ELSE k' = k + 1 /\ UNCHANGED <<p, q, n>>
  /\ UNCHANGED <<mem0, call, pc, ret>>

UpByte(loop, byte) ==
  /\ pc = loop /\ n \in 1..(Unroll - 1)
  /\ mem' = [mem EXCEPT ![p] = byte]
  /\ p' = p + 1 /\ q' = q + 1 /\ n' = n - 1
  /\ UNCHANGED <<mem0, call, pc, k, ret>>

CyU3PMemSet ==
  UpBody("set", call.data) \/ UpByte("set", call.data) \/ Leave("set")

CyU3PMemCopy ==
  \/ DownChunk \/ DownBody \/ DownByte \/ Leave("down")
  \/ UpBody("up", mem[q + k]) \/ UpByte("up", mem[q]) \/ Leave("up")

Compare ==
  /\ pc = "cmp" /\ n > 0
  /\ ret' = mem[p] - mem[q]
  /\ IF mem[p] = mem[q]
     THEN p' = p + 1 /\ q' = q + 1 /\ n' = n - 1 /\ UNCHANGED pc
     ELSE pc' = "done" /\ UNCHANGED <<p, q, n>>
  /\ UNCHANGED <<mem, mem0, call, k>>

CyU3PMemCmp == Compare \/ Leave("cmp")

MemInit ==
  /\ mem \in Contents /\ mem0 = mem
  /\ call \in {c \in Calls : c.dest + c.count <= Size /\ c.src + c.count <= Size}
  /\ pc = "call" /\ p = 0 /\ q = 0 /\ n = 0 /\ k = 0 /\ ret = 0

MemNext == Enter \/ CyU3PMemSet \/ CyU3PMemCopy \/ CyU3PMemCmp

MemSpec == MemInit /\ [][MemNext]_memVars

-----------------------------------------------------------------------------
(* Properties. *)

\* The variables stay within their types; no address leaves the memory.
MemTypeOK ==
  /\ mem \in [Addr -> 0..255] /\ mem0 \in [Addr -> 0..255]
  /\ call \in Calls
  /\ pc \in {"call", "up", "down", "down8", "set", "cmp", "done"}
  /\ p \in 0..Size /\ q \in 0..Size /\ n \in 0..Size
  /\ k \in 0..(Unroll - 1) /\ ret \in -255..255

\* The memory in which the bytes dest+lo .. dest+hi-1 have been copied.
Copied(lo, hi) ==
  [a \in Addr |->
     IF call.dest + lo <= a /\ a < call.dest + hi
     THEN mem0[call.src + (a - call.dest)] ELSE mem0[a]]

\* A copy leaves the old bytes of the source at the destination and every other
\* byte alone, whatever the overlap: each byte is read before it is overwritten,
\* also inside the unrolled body (cyfxtx.c, lines 557-618).
CopyMoves ==
  pc = "done" /\ call.op = "copy" => mem = Copied(0, call.count)

\* The memory in which the bytes up to dest+hi-1 have been set.
Filled(hi) ==
  [a \in Addr |-> IF call.dest <= a /\ a < call.dest + hi THEN call.data ELSE mem0[a]]

\* A fill sets its bytes and no other, for a count that is no multiple of eight too
\* (lines 516-536).
SetFills == pc = "done" /\ call.op = "set" => mem = Filled(call.count)

\* A comparison returns the difference of the first bytes that differ, or 0 for equal
\* blocks, and writes nothing (lines 638-651).
CmpTells ==
  pc = "done" /\ call.op = "cmp" =>
    LET Differ == {i \in 0..(call.count - 1) :
                     mem0[call.dest + i] # mem0[call.src + i]}
    IN /\ mem = mem0
       /\ (ret = 0) = (Differ = {})
       /\ ret # 0 => \E i \in Differ :
            /\ ret = mem0[call.dest + i] - mem0[call.src + i]
            /\ \A j \in Differ : i <= j

\* Every call does what its name says, and nothing else.
HelpersCorrect == CopyMoves /\ SetFills /\ CmpTells
=============================================================================
