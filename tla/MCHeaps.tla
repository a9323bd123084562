------------------------------- MODULE MCHeaps -------------------------------
(* The library code of the firmware (fx3/cyfxtx.c) beside the search of the   *)
(* buffer heap: the list calls, the life of the heaps and the memory helpers. *)
(* They share no state, so that each can be checked on its own: a behaviour   *)
(* runs the part it began with, and the other two stay as they are.           *)
EXTENDS HeapCalls, FirmwareHeaps, MemHelpers

VARIABLE part

heapPartsVars == <<heapCalls, heapsVars, memVars, part>>

\* Memories: all bytes different, and two that make blocks equal for a while.
MCContents ==
  {[a \in Addr |-> a], [a \in Addr |-> a % 3], [a \in Addr |-> IF a = 13 THEN 1 ELSE 0]}

\* One state of the helpers, for the behaviours of the other parts.
Unused == call.op = "set" /\ call.dest + call.src + call.count + call.data = 0 /\ mem[1] = 1
          /\ mem[3] = 3

HeapPartsInit ==
  /\ HeapInit /\ HeapsInit /\ MemInit
  /\ part \in {"calls", "lifecycle", "helpers"}
  /\ part # "helpers" => Unused

ListCalls == part = "calls" /\ HeapNext /\ UNCHANGED <<heapsVars, memVars, part>>
Lifecycle   == part = "lifecycle" /\ HeapsNext /\ UNCHANGED <<heapCalls, memVars, part>>
Helper      == part = "helpers" /\ MemNext /\ UNCHANGED <<heapCalls, heapsVars, part>>
HelperEnded == part = "helpers" /\ pc = "done" /\ UNCHANGED heapPartsVars

HeapPartsNext == ListCalls \/ Lifecycle \/ Helper \/ HelperEnded

HeapPartsSpec == HeapPartsInit /\ [][HeapPartsNext]_heapPartsVars
=============================================================================
