----------------------------- MODULE DmaBufLoops -----------------------------
(***************************************************************************)
(* The two bit loops of fx3/cyfxtx.c as they are written, word by word,    *)
(* against the set expressions DmaBufMgr uses for them.  A loop is the     *)
(* function from the number of turns to the local variables; a turn after  *)
(* the last changes nothing.                                               *)
(***************************************************************************)
EXTENDS DmaBufMgr

-----------------------------------------------------------------------------
(* The search of CyU3PDmaBufferAlloc. *)

\* A word of the status array, as the set of its bit numbers that are set.
Word(w) == {b \in 0 .. WordBits - 1 : w * WordBits + b \in usedStatus}

SearchBegins ==
  [wordnum |-> searchPos, bitnum |-> 0, count |-> 0, start |-> 0, tmp |-> 0,
   found |-> FALSE]

\* The next bit, in the next word after the last bit, in the first after the last word.
Onwards(l, cnt, st) ==
  LET last  == l.bitnum + 1 = WordBits
      wraps == last /\ l.wordnum + 1 = statusSize
  IN  [wordnum |-> IF wraps THEN 0 ELSE IF last THEN l.wordnum + 1 ELSE l.wordnum,
       bitnum  |-> IF last THEN 0 ELSE l.bitnum + 1,
       count   |-> IF wraps THEN 0 ELSE cnt,
       start   |-> st,
       tmp     |-> IF last THEN l.tmp + 1 ELSE l.tmp,
       found   |-> FALSE]

SearchTurn(size, l) ==
  LET clear == l.bitnum \notin Word(l.wordnum)
      cnt   == IF clear THEN l.count + 1 ELSE 0
      st    == IF clear /\ l.count = 0 THEN l.wordnum * WordBits + l.bitnum + 1 ELSE l.start
  IN  IF l.found \/ l.tmp >= statusSize THEN l
      ELSE IF cnt = size + 1 THEN [l EXCEPT !.count = cnt, !.start = st, !.found = TRUE]
      ELSE Onwards(l, cnt, st)

Search(size) ==
  LET loop[k \in 0 .. Total] ==
        IF k = 0 THEN SearchBegins ELSE SearchTurn(size, loop[k - 1])
  IN  loop[Total]

-----------------------------------------------------------------------------
(* The masks of CyU3PDmaBufMgrSetStatus: the bits that they change. *)

\* Mutant: the end of the first mask forgets its start.
FirstMask_NoStart(startPos, numBits) ==
  [wordnum |-> startPos \div WordBits, numBits |-> numBits,
   startbit |-> startPos % WordBits,
   endbit |-> IF numBits < WordBits THEN numBits ELSE WordBits,
   changed |-> {}]

FirstMask(startPos, numBits) ==
  LET s == startPos % WordBits
  IN  [wordnum |-> startPos \div WordBits, numBits |-> numBits, startbit |-> s,
       endbit |-> IF s + numBits < WordBits THEN s + numBits ELSE WordBits,
       changed |-> {}]

MaskTurn(l) ==
  LET left == l.numBits - (l.endbit - l.startbit)
  IN  IF l.numBits = 0 THEN l
      ELSE [wordnum  |-> l.wordnum + 1,
            numBits  |-> left,
            startbit |-> 0,
            endbit   |-> IF left >= WordBits THEN WordBits ELSE left,
            changed  |-> l.changed \cup
                         {l.wordnum * WordBits + b : b \in l.startbit .. l.endbit - 1}]

SetStatusBits(startPos, numBits) ==
  LET loop[k \in 0 .. numBits] ==
        IF k = 0 THEN FirstMask(startPos, numBits) ELSE MaskTurn(loop[k - 1])
  IN  loop[numBits].changed

-----------------------------------------------------------------------------
\* In every state the search loop (cyfxtx.c:901-944) stops at the block that
\* CyU3PDmaBufferAlloc takes, and fails exactly when no bit is reached.
SearchAgrees ==
  \A n \in Sizes :
    LET loop == Search(n)
    IN  /\ loop.found = (\E i \in Bits : Reaches(n, i))
        /\ \A i \in Bits : Reaches(n, i) =>
             /\ loop.start = Visited(i) - n + 1
             /\ loop.wordnum = Visited(i) \div WordBits

\* The mask loop (cyfxtx.c:803-839) changes the bits of the blocks handed out
\* and no others, also when a block crosses words or ends at a word boundary.
MasksAgree ==
  \A b \in blocks :
    SetStatusBits(b.start, b.lines - 1) = b.start .. b.start + b.lines - 2

\* The loops of the code and the sets that DmaBufMgr has for them are the same.
LoopsAgree == SearchAgrees /\ MasksAgree
=============================================================================
