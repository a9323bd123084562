------------------------------ MODULE InUseList ------------------------------
(***************************************************************************)
(* What the leak checks of the firmware's heaps promise (fx3/cyfxtx.c):    *)
(* the in-use list holds the blocks of the heap, newest first; a block     *)
(* enters it with its allocation and leaves it when it is freed.           *)
(* HeapCalls, the calls of several threads, implements this specification. *)
(***************************************************************************)
EXTENDS SequencesExt

CONSTANT Blocks \* the places where the heap can put a block

VARIABLE listed \* the blocks that the list of in-use blocks shows

ListInit == listed = <<>>

ListAlloc(b) ==
  /\ b \notin ToSet(listed)
  /\ listed' = <<b>> \o listed

ListFree(i) == listed' = RemoveAt(listed, i)

ListNext ==
  \/ \E b \in Blocks : ListAlloc(b)
  \/ \E i \in DOMAIN listed : ListFree(i)

ListSpec == ListInit /\ [][ListNext]_listed
=============================================================================
