----------------------------- MODULE MCDmaBufMgr -----------------------------
(* The allocator on three words of six lines: blocks within a word, ending at *)
(* a word boundary, and over three words.                                     *)
EXTENDS DmaBufLoops

SmallSizes == {2, 3, 9}
=============================================================================
