----------------------------- MODULE HostProofs -----------------------------
(***************************************************************************)
(* Proofs about the application.                                           *)
(*  - HostTransfer: the slots of the queue are used in turn, and a call    *)
(*    that returns true on a clean card has all the data, for every length *)
(*    of the queue, every number of transfers and every mix of faults;     *)
(*  - HostWindow: the lists and the chosen endpoints are those of the      *)
(*    device, for all devices and while they come and go;                  *)
(*  - HostPlot: the x axis ends within its limits, for captures of any     *)
(*    size and whatever the mouse asks for.                                *)
(***************************************************************************)
EXTENDS HostTransfer, HostWindow, HostPlot, InductionLemmas, SequenceTheorems

-----------------------------------------------------------------------------
(* HostTransfer: the queue of reads. *)
\* How far slot s is ahead of slot q in the order the loop takes them.
Off(s, q) == (s - q) % QueueSize

\* Reads that are finished, and reads that are begun but not finished.
Finished    == transfer_count - transfer_ctr
Outstanding == buffer_counter - Finished

\* The slots with a read of their own: those next in turn.
Used(s) ==
  /\ pc # "ready"
  /\ Off(s, q_ctr) < Outstanding
  /\ pc = "next" => Off(s, q_ctr) > 0

States  == {"none", "pending", "refused", "done", "failed", "cancelled"}
Reads   == [buf : Nat, state : States, data : Chunks \cup {Garbage}]
Replies == {NoReply} \cup {r \in [next : Nat, of : 0 .. MaxTransfers, stale : BOOLEAN] :
                             r.next < r.of}

DataOK ==
  /\ pc \in {"ready", "begin", "wait", "finish", "next", "abort"}
  /\ status \in BOOLEAN /\ clean \in BOOLEAN /\ faults \in Int
  /\ inBuf \in [Buffers -> Chunks \cup {Garbage}]
  /\ slot \in [Slots -> Reads] /\ inflight \in Seq(Slots)
  /\ mailbox \in Replies /\ reply \in Replies /\ card \in Seq(Chunks)

CountersOK ==
  /\ transfer_count \in 0 .. MaxTransfers /\ transfer_ctr \in 0 .. transfer_count
  /\ buffer_counter \in 0 .. transfer_count /\ q_ctr \in Slots /\ read_offset \in Nat
  /\ pc = "begin" => /\ transfer_count > 0 /\ transfer_ctr = transfer_count
                     /\ q_ctr = 0 /\ buffer_counter <= QueueSize
  /\ pc \in {"wait", "finish", "next"} =>
       /\ transfer_ctr > 0 /\ read_offset \in 1 .. buffer_counter
       /\ Outstanding \in 1 .. QueueSize
       /\ buffer_counter < transfer_count => Outstanding = QueueSize
  /\ pc = "abort" => transfer_ctr = transfer_count \/ Outstanding = 0

SlotsOK ==
  /\ \A s \in Slots : IF Used(s)
                      THEN slot[s].state # "none" /\ slot[s].buf = Finished + Off(s, q_ctr)
                      ELSE slot[s] = NoRead
  /\ \A i \in 1 .. Len(inflight) : slot[inflight[i]].state = "pending"
  /\ \A i, j \in 1 .. Len(inflight) :
       i < j => Off(inflight[i], q_ctr) < Off(inflight[j], q_ctr)
  /\ pc = "finish" => slot[q_ctr].state # "pending"

QueueInv == DataOK /\ CountersOK /\ SlotsOK

\* In direct mode the buffers of the reads that are not finished are as new.
FreshInv ==
  pc # "ready" =>
    \A i \in Buffers : i >= Finished + (IF pc = "next" THEN 1 ELSE 0) => inBuf[i] = Garbage

-----------------------------------------------------------------------------
(* The order of the slots. *)

LEMMA OffValue ==
  ASSUME HostAssumption, NEW s \in Slots, NEW q \in Slots
  PROVE  Off(s, q) = IF s >= q THEN s - q ELSE s - q + QueueSize
<1>1. CASE s >= q
  <2>1. s - q \in 0 .. QueueSize - 1 BY <1>1 DEF Slots, HostAssumption
  <2> DEFINE d == s - q
  <2>2. d \in 0 .. QueueSize - 1 BY <2>1
  <2> HIDE DEF d
  <2>3. d % QueueSize = d BY <2>2 DEF HostAssumption
  <2> QED BY <1>1, <2>3 DEF d, Off
<1>2. CASE ~(s >= q)
  <2> DEFINE d == s - q
  <2>2. d \in (1 - QueueSize) .. (-1) BY <1>2 DEF Slots, HostAssumption
  <2> HIDE DEF d
  <2>3. d % QueueSize = d + QueueSize BY <2>2 DEF HostAssumption
  <2> QED BY <1>2, <2>3 DEF d, Off
<1> QED BY <1>1, <1>2

LEMMA NextValue ==
  ASSUME HostAssumption, q_ctr \in Slots
  PROVE  NextQCtr = IF q_ctr + 1 = QueueSize THEN 0 ELSE q_ctr + 1
<1>1. CASE q_ctr + 1 = QueueSize BY <1>1 DEF NextQCtr, HostAssumption
<1>2. CASE q_ctr + 1 # QueueSize
  <2> DEFINE d == q_ctr + 1
  <2>1. d \in 0 .. QueueSize - 1 BY <1>2 DEF Slots, HostAssumption
  <2> HIDE DEF d
  <2>2. d % QueueSize = d BY <2>1 DEF HostAssumption
  <2> QED BY <1>2, <2>2 DEF d, NextQCtr
<1> QED BY <1>1, <1>2

LEMMA OffOrder ==
  ASSUME HostAssumption, NEW q \in Slots, NEW s \in Slots
  PROVE  /\ Off(s, q) \in 0 .. QueueSize - 1
         /\ (Off(s, q) = 0) = (s = q)
         /\ \A r \in Slots : Off(r, q) = Off(s, q) => r = s
<1>1. \A r \in Slots : Off(r, q) = IF r >= q THEN r - q ELSE r - q + QueueSize
  BY OffValue
<1>2. Off(s, q) \in 0 .. QueueSize - 1 BY <1>1 DEF Slots, HostAssumption
<1>3. (Off(s, q) = 0) = (s = q) BY <1>1 DEF Slots, HostAssumption
<1>4. ASSUME NEW r \in Slots, Off(r, q) = Off(s, q) PROVE r = s
  BY <1>1, <1>4 DEF Slots, HostAssumption
<1> QED BY <1>2, <1>3, <1>4

\* The slot in turn goes to the end of the order, the others move up.
LEMMA OffNext ==
  ASSUME HostAssumption, q_ctr \in Slots, NEW s \in Slots
  PROVE  /\ NextQCtr \in Slots
         /\ Off(s, NextQCtr) = IF s = q_ctr THEN QueueSize - 1 ELSE Off(s, q_ctr) - 1
<1>1. NextQCtr \in Slots BY NextValue DEF Slots, HostAssumption
<1> QED BY <1>1, NextValue, OffValue DEF Slots, HostAssumption

LEMMA OffZero == ASSUME HostAssumption, NEW s \in Slots PROVE Off(s, 0) = s /\ 0 \in Slots
BY OffValue DEF Slots, HostAssumption

-----------------------------------------------------------------------------
(* Types: the data of every action. *)

LEMMA SlotUpdate ==
  ASSUME DataOK, NEW s \in Slots, NEW r \in Reads
  PROVE  [slot EXCEPT ![s] = r] \in [Slots -> Reads]
BY DEF DataOK

LEMMA GarbageData == Garbage \in Chunks \cup {Garbage} /\ NoRead \in Reads
BY DEF NoRead, Reads, States

LEMMA ReadType ==
  ASSUME NEW b \in Nat, NEW st \in States, NEW d \in Chunks \cup {Garbage}
  PROVE  [buf |-> b, state |-> st, data |-> d] \in Reads
BY DEF Reads

LEMMA NoReplyType == NoReply \in Replies
BY DEF Replies

LEMMA OutdatedType == ASSUME HostAssumption, NEW r \in Replies PROVE Outdated(r) \in Replies
BY DEF Outdated, Replies, NoReply

\* A read that begins is pending or refused; a refused one clears status.
LEMMA BeginType ==
  ASSUME DataOK, NEW s \in Slots, NEW b \in Nat, BeginDataXfer(s, b)
  PROVE  /\ slot' \in [Slots -> Reads] /\ inflight' \in Seq(Slots)
         /\ status' \in BOOLEAN /\ faults' \in Int
<1>1. [buf |-> b, state |-> "pending", data |-> Garbage] \in Reads
  BY ReadType, GarbageData DEF States
<1>2. [buf |-> b, state |-> "refused", data |-> Garbage] \in Reads
  BY ReadType, GarbageData DEF States
<1>3. slot' \in [Slots -> Reads] BY <1>1, <1>2, SlotUpdate DEF BeginDataXfer
<1>4. inflight' \in Seq(Slots)
  <2>1. inflight \in Seq(Slots) BY DEF DataOK
  <2>2. inflight' = inflight \/ inflight' = Append(inflight, s) BY DEF BeginDataXfer
  <2> QED BY <2>1, <2>2
<1>5. status' \in BOOLEAN /\ faults' \in Int
  <2>1. status \in BOOLEAN /\ faults \in Int BY DEF DataOK
  <2>2. \/ status' = status /\ faults' = faults
        \/ status' = FALSE /\ faults' = faults + 1
    BY DEF BeginDataXfer, Fault
  <2>3. status' \in BOOLEAN BY <2>1, <2>2
  <2>4. faults' = faults \/ faults' = faults + 1 BY <2>2
  <2>5. faults' \in Int BY <2>1, <2>4
  <2> QED BY <2>3, <2>5
<1> QED BY <1>3, <1>4, <1>5

LEMMA CancelledType == ASSUME DataOK PROVE Cancelled \in [Slots -> Reads]
<1>1. ASSUME NEW s \in Slots PROVE [slot[s] EXCEPT !.state = "cancelled"] \in Reads
  BY DEF DataOK, Reads, States
<1> QED BY <1>1 DEF DataOK, Cancelled

LEMMA StartType == ASSUME HostAssumption, DataOK, Start PROVE DataOK'
<1>1. inBuf' \in [Buffers -> Chunks \cup {Garbage}] BY DEF Start
<1>2. ASSUME NEW i \in 1 .. Len(card) PROVE [card[i] EXCEPT !.stale = TRUE] \in Chunks
  <2>0. card \in Seq(Chunks) BY DEF DataOK
  <2>1. card[i] \in Chunks BY <2>0
  <2> DEFINE c == card[i]
  <2> HIDE DEF c
  <2>2. c \in [no : Buffers, stale : BOOLEAN] BY <2>1 DEF c, Chunks
  <2>3. [c EXCEPT !.stale = TRUE] \in Chunks BY <2>2 DEF Chunks
  <2> QED BY <2>3 DEF c
<1>3. card' \in Seq(Chunks) BY <1>2 DEF DataOK, Start
<1>4. reply' \in Replies /\ mailbox' \in Replies BY OutdatedType DEF DataOK, Start
<1>5. clean' \in BOOLEAN
  <2>1. CardIdle \in BOOLEAN BY DEF CardIdle
  <2> QED BY <2>1 DEF Start
<1>6. /\ pc' = "begin" /\ status' = TRUE /\ faults' = 0
      /\ slot' = slot /\ inflight' = inflight
  BY DEF Start
<1> QED BY <1>1, <1>3, <1>4, <1>5, <1>6 DEF DataOK

LEMMA CompleteType == ASSUME HostAssumption, DataOK, Complete PROVE DataOK'
<1> DEFINE h == Head(inflight)
<1>1. h \in Slots /\ Tail(inflight) \in Seq(Slots) BY DEF DataOK, Complete
<1>2. Head(card) \in Chunks /\ Tail(card) \in Seq(Chunks) BY DEF DataOK, Complete
<1>3. slot' = [slot EXCEPT ![h] = [slot[h] EXCEPT !.state = "done", !.data = Head(card)]]
  BY <1>1 DEF DataOK, Complete, Reads
<1>4. [slot[h] EXCEPT !.state = "done", !.data = Head(card)] \in Reads
  BY <1>1, <1>2 DEF DataOK, Reads, States
<1> HIDE DEF h
<1>5. slot' \in [Slots -> Reads] BY <1>1, <1>3, <1>4, SlotUpdate
<1> QED BY <1>1, <1>2, <1>5 DEF DataOK, Complete, loopVars

LEMMA FailType == ASSUME HostAssumption, DataOK, Fail PROVE DataOK'
<1> DEFINE h == Head(inflight)
<1>1. h \in Slots /\ Tail(inflight) \in Seq(Slots) BY DEF DataOK, Fail
<1>3. slot' = [slot EXCEPT ![h] = [slot[h] EXCEPT !.state = "failed"]]
  BY <1>1 DEF DataOK, Fail
<1>4. [slot[h] EXCEPT !.state = "failed"] \in Reads BY <1>1 DEF DataOK, Reads, States
<1> HIDE DEF h
<1>5. slot' \in [Slots -> Reads] BY <1>1, <1>3, <1>4, SlotUpdate
<1> QED BY <1>1, <1>5 DEF DataOK, Fail, Fault, loopVars, cardVars

LEMMA ProduceType == ASSUME HostAssumption, DataOK, Produce PROVE DataOK'
<1>1. reply # NoReply BY DEF Produce, NoReply
<1>2. reply.next \in Buffers /\ reply.stale \in BOOLEAN
  BY <1>1 DEF DataOK, Produce, Replies, Buffers, HostAssumption
<1>3. [no |-> reply.next, stale |-> reply.stale] \in Chunks BY <1>2 DEF Chunks
<1>4. card' \in Seq(Chunks) BY <1>3 DEF DataOK, Produce
<1>5. reply' \in Replies
  BY <1>1, NoReplyType DEF DataOK, Produce, Replies, HostAssumption
<1> QED BY <1>4, <1>5 DEF DataOK, Produce, loopVars, readVars

LEMMA FinishType == ASSUME HostAssumption, QueueInv, FinishDataXfer PROVE DataOK'
<1>1. q_ctr \in Slots /\ slot[q_ctr] \in Reads BY DEF QueueInv, DataOK, CountersOK
<1>2. slot' \in [Slots -> Reads]
  BY <1>1, GarbageData, SlotUpdate DEF QueueInv, FinishDataXfer
<1>3. inBuf' \in [Buffers -> Chunks \cup {Garbage}]
  BY <1>1 DEF FinishDataXfer, QueueInv, DataOK, Reads
<1> QED BY <1>2, <1>3 DEF QueueInv, DataOK, FinishDataXfer, cardVars

-----------------------------------------------------------------------------
(* The counters and the slots, one lemma for each action. *)

\* A read that waits for the driver belongs to a slot in use.
LEMMA InflightUsed ==
  ASSUME HostAssumption, QueueInv, NEW i \in 1 .. Len(inflight)
  PROVE  inflight[i] \in Slots /\ Used(inflight[i])
<1>1. inflight[i] \in Slots BY DEF QueueInv, DataOK
<1>2. slot[inflight[i]].state = "pending" BY DEF QueueInv, SlotsOK
<1>3. NoRead.state # "pending" BY DEF NoRead
<1> QED BY <1>1, <1>2, <1>3 DEF QueueInv, SlotsOK

\* What a read that begins changes: its slot, and the end of the driver's queue.
LEMMA BeginSlot ==
  ASSUME QueueInv, NEW s \in Slots, NEW b \in Nat, BeginDataXfer(s, b),
         \A i \in 1 .. Len(inflight) : inflight[i] # s
  PROVE  /\ slot'[s].state # "none" /\ slot'[s].buf = b
         /\ \A r \in Slots : r # s => slot'[r] = slot[r]
         /\ \A i \in 1 .. Len(inflight') :
              \/ i \in 1 .. Len(inflight) /\ inflight'[i] = inflight[i]
              \/ i = Len(inflight) + 1 /\ inflight'[i] = s
         /\ \A i \in 1 .. Len(inflight') : slot'[inflight'[i]].state = "pending"
<1>1. slot \in [Slots -> Reads] /\ inflight \in Seq(Slots) BY DEF QueueInv, DataOK
<1>2. slot'[s].state # "none" /\ slot'[s].buf = b BY <1>1 DEF BeginDataXfer
<1>3. \A r \in Slots : r # s => slot'[r] = slot[r] BY <1>1 DEF BeginDataXfer
<1>4. \A i \in 1 .. Len(inflight) : slot[inflight[i]].state = "pending"
  BY DEF QueueInv, SlotsOK
<1>5. \/ inflight' = inflight
      \/ inflight' = Append(inflight, s) /\ slot'[s].state = "pending"
  BY <1>1 DEF BeginDataXfer
<1>6. \A i \in 1 .. Len(inflight') :
        \/ i \in 1 .. Len(inflight) /\ inflight'[i] = inflight[i]
        \/ i = Len(inflight) + 1 /\ inflight'[i] = s /\ slot'[s].state = "pending"
  <2>1. CASE inflight' = inflight BY <2>1
  <2>2. CASE inflight' = Append(inflight, s) /\ slot'[s].state = "pending" BY <1>1, <2>2
  <2> QED BY <1>5, <2>1, <2>2
<1>7. \A i \in 1 .. Len(inflight) : inflight[i] \in Slots BY <1>1
<1>8. \A i \in 1 .. Len(inflight') : slot'[inflight'[i]].state = "pending"
  BY <1>3, <1>4, <1>6, <1>7
<1> QED BY <1>2, <1>3, <1>6, <1>8

LEMMA StartKeeps == ASSUME HostAssumption, QueueInv, Start PROVE QueueInv'
<1>1. DataOK' BY StartType DEF QueueInv
<1>2. PICK n \in 1 .. MaxTransfers : transfer_count' = n /\ transfer_ctr' = n BY DEF Start
<1>3. /\ pc = "ready" /\ pc' = "begin" /\ buffer_counter' = 0 /\ q_ctr' = 0
      /\ read_offset' = 0 /\ slot' = slot /\ inflight' = inflight
  BY DEF Start
<1>4. 0 \in Slots BY DEF Slots, HostAssumption
<1>5. CountersOK' BY <1>2, <1>3, <1>4 DEF CountersOK, HostAssumption
<1>6. \A s \in Slots : slot[s] = NoRead /\ ~ Used(s) BY <1>3 DEF QueueInv, SlotsOK, Used
<1>7. Len(inflight) = 0
  <2>1. ASSUME NEW i \in 1 .. Len(inflight) PROVE FALSE BY <1>6, InflightUsed
  <2>2. Len(inflight) \in Nat BY DEF QueueInv, DataOK
  <2> QED BY <2>1, <2>2
<1>8. ASSUME NEW s \in Slots PROVE ~ Used(s)'
  <2>1. Off(s, 0) = s BY OffZero
  <2>2. Outstanding' = 0 BY <1>2, <1>3 DEF Outstanding, Finished
  <2>3. Used(s)' => Off(s, 0) < 0 BY <1>3, <2>2 DEF Used
  <2> QED BY <2>1, <2>3 DEF Slots, HostAssumption
<1>9. SlotsOK' BY <1>3, <1>6, <1>7, <1>8 DEF SlotsOK
<1> QED BY <1>1, <1>5, <1>9 DEF QueueInv

LEMMA BeginKeeps == ASSUME HostAssumption, QueueInv, Begin PROVE QueueInv'
<1> DEFINE b == buffer_counter
<1>1. /\ pc = "begin" /\ pc' = pc /\ q_ctr = 0 /\ q_ctr' = 0 /\ b < QueueSize
      /\ transfer_ctr = transfer_count /\ b < transfer_count /\ transfer_count > 0
      /\ transfer_count' = transfer_count /\ transfer_ctr' = transfer_ctr
      /\ buffer_counter' = b + 1 /\ read_offset' = read_offset
      /\ inBuf' = inBuf /\ clean' = clean
      /\ mailbox' = mailbox /\ reply' = reply /\ card' = card
  BY DEF QueueInv, CountersOK, Begin, cardVars
<1>2. b \in Slots /\ b \in Nat /\ transfer_count \in Nat /\ read_offset \in Nat
      /\ transfer_count \in 0 .. MaxTransfers
  BY <1>1 DEF QueueInv, CountersOK, Slots, HostAssumption
<1>3. BeginDataXfer(b, b) BY DEF Begin
<1>4. DataOK' BY <1>1, <1>2, <1>3, BeginType DEF QueueInv, DataOK
<1>5. CountersOK' BY <1>1, <1>2 DEF CountersOK, HostAssumption, Slots
<1>6. \A s \in Slots : Off(s, 0) = s /\ s \in Nat BY OffZero DEF Slots, HostAssumption
<1>7. /\ Outstanding = b /\ Outstanding' = b + 1 /\ Finished = 0 /\ Finished' = 0
  BY <1>1, <1>2 DEF Outstanding, Finished
<1>8. \A s \in Slots : /\ Used(s) <=> s < b
                       /\ Used(s)' <=> s < b + 1
  BY <1>1, <1>6, <1>7 DEF Used
<1>11. \A i \in 1 .. Len(inflight) : inflight[i] \in Slots /\ inflight[i] < b
  BY <1>8, InflightUsed
<1>9. /\ slot'[b].state # "none" /\ slot'[b].buf = b
      /\ \A s \in Slots : s # b => slot'[s] = slot[s]
      /\ \A i \in 1 .. Len(inflight') :
           \/ i \in 1 .. Len(inflight) /\ inflight'[i] = inflight[i]
           \/ i = Len(inflight) + 1 /\ inflight'[i] = b
      /\ \A i \in 1 .. Len(inflight') : slot'[inflight'[i]].state = "pending"
  <2>1. \A i \in 1 .. Len(inflight) : inflight[i] # b BY <1>2, <1>11
  <2> HIDE DEF b
  <2> QED BY <1>2, <1>3, <2>1, BeginSlot
<1>10. \A s \in Slots : IF Used(s)' THEN slot'[s].state # "none" /\ slot'[s].buf = s
                        ELSE slot'[s] = NoRead
  BY <1>1, <1>2, <1>6, <1>7, <1>8, <1>9 DEF QueueInv, SlotsOK
<1>12. Len(inflight) \in Nat BY DEF QueueInv, DataOK
<1>14. \A i, j \in 1 .. Len(inflight) : i < j => inflight[i] < inflight[j]
  BY <1>1, <1>6, <1>11 DEF QueueInv, SlotsOK
<1>15. \A i, j \in 1 .. Len(inflight') : i < j => inflight'[i] < inflight'[j]
  BY <1>2, <1>9, <1>11, <1>12, <1>14
<1>16. \A i \in 1 .. Len(inflight') : inflight'[i] \in Slots BY <1>4 DEF DataOK
<1>17. SlotsOK'
  <2>1. \A s \in Slots : IF Used(s)' THEN slot'[s].state # "none"
                                         /\ slot'[s].buf = Finished' + Off(s, q_ctr')
                         ELSE slot'[s] = NoRead
    BY <1>1, <1>6, <1>7, <1>10
  <2>2. \A i, j \in 1 .. Len(inflight') :
          i < j => Off(inflight'[i], q_ctr') < Off(inflight'[j], q_ctr')
    BY <1>1, <1>6, <1>15, <1>16
  <2> QED BY <1>1, <1>9, <2>1, <2>2 DEF SlotsOK
<1> QED BY <1>4, <1>5, <1>17 DEF QueueInv

\* Steps that leave the counters alone, and at most end reads of the driver,
\* taken from the front of its queue.
LEMMA SlotsKept ==
  ASSUME QueueInv, NEW d \in 0 .. 1,
         pc' = pc \/ {pc, pc'} \subseteq {"begin", "wait", "finish", "abort"},
         UNCHANGED <<transfer_count, transfer_ctr, buffer_counter, q_ctr>>,
         \A s \in Slots :
           \/ slot'[s] = slot[s]
           \/ /\ slot[s].state = "pending"
              /\ slot'[s].state # "none" /\ slot'[s].buf = slot[s].buf,
         \A i \in 1 .. Len(inflight') :
           /\ i + d \in 1 .. Len(inflight) /\ inflight'[i] = inflight[i + d]
           /\ slot'[inflight'[i]].state = "pending",
         Len(inflight') \in Nat,
         pc' = "finish" => slot'[q_ctr].state # "pending"
  PROVE  SlotsOK'
<1>1. Outstanding' = Outstanding /\ Finished' = Finished BY DEF Outstanding, Finished
<1>2. \A s \in Slots : Used(s)' = Used(s)
  <2>1. (pc' = "ready") = (pc = "ready") /\ (pc' = "next") = (pc = "next") OBVIOUS
  <2> QED BY <1>1, <2>1 DEF Used
<1>3. \A s \in Slots : slot[s].state = "pending" => Used(s)
  <2>1. NoRead.state # "pending" BY DEF NoRead
  <2> QED BY <2>1 DEF QueueInv, SlotsOK
<1>4. \A s \in Slots : IF Used(s)' THEN slot'[s].state # "none"
                                       /\ slot'[s].buf = Finished' + Off(s, q_ctr')
                       ELSE slot'[s] = NoRead
  BY <1>1, <1>2, <1>3 DEF QueueInv, SlotsOK
<1>5. ASSUME NEW i \in 1 .. Len(inflight'), NEW j \in 1 .. Len(inflight'), i < j
      PROVE  Off(inflight'[i], q_ctr') < Off(inflight'[j], q_ctr')
  <2>1. i + d < j + d BY <1>5
  <2> QED BY <2>1 DEF QueueInv, SlotsOK
<1> QED BY <1>4, <1>5 DEF SlotsOK

LEMMA SlotsSame ==
  ASSUME QueueInv, pc' = pc \/ {pc, pc'} \subseteq {"begin", "wait", "finish", "abort"},
         UNCHANGED <<transfer_count, transfer_ctr, buffer_counter, q_ctr, slot, inflight>>,
         pc' = "finish" => slot[q_ctr].state # "pending"
  PROVE  SlotsOK'
<1>1. inflight \in Seq(Slots) BY DEF QueueInv, DataOK
<1>2. \A i \in 1 .. Len(inflight') :
           /\ i + 0 \in 1 .. Len(inflight) /\ inflight'[i] = inflight[i + 0]
           /\ slot'[inflight'[i]].state = "pending"
  BY <1>1 DEF QueueInv, SlotsOK
<1>3. Len(inflight') \in Nat /\ 0 \in 0 .. 1 BY <1>1
<1> QED BY <1>2, <1>3, SlotsKept

LEMMA SendBulkKeeps == ASSUME HostAssumption, QueueInv, SendBulk PROVE QueueInv'
<1>1. /\ pc = "begin" /\ pc' \in {"wait", "abort"} /\ read_offset' = buffer_counter
      /\ ~ (buffer_counter < QueueSize /\ buffer_counter < transfer_count)
      /\ transfer_count' = transfer_count /\ transfer_ctr' = transfer_ctr
      /\ buffer_counter' = buffer_counter /\ q_ctr' = q_ctr
      /\ status' = status /\ clean' = clean /\ reply' = reply /\ card' = card
      /\ inBuf' = inBuf /\ slot' = slot /\ inflight' = inflight
  BY DEF SendBulk, readVars
<1>2. mailbox' \in Replies
  <2>1. [next |-> 0, of |-> transfer_count, stale |-> FALSE] \in Replies
    BY <1>1 DEF QueueInv, CountersOK, Replies
  <2> QED BY <2>1 DEF SendBulk, QueueInv, DataOK
<1>3. faults' \in Int BY DEF SendBulk, QueueInv, DataOK, Fault
<1>4. DataOK' BY <1>1, <1>2, <1>3 DEF QueueInv, DataOK
<1>5. /\ transfer_count \in Nat /\ transfer_count > 0 /\ buffer_counter \in Nat
      /\ transfer_ctr = transfer_count /\ buffer_counter <= QueueSize
      /\ buffer_counter <= transfer_count
  BY <1>1 DEF QueueInv, CountersOK, HostAssumption
<1>6. Outstanding' = buffer_counter BY <1>1, <1>5 DEF Outstanding, Finished
<1>7. CountersOK' BY <1>1, <1>5, <1>6 DEF QueueInv, CountersOK, HostAssumption
<1>8. SlotsOK' BY <1>1, SlotsSame
<1> QED BY <1>4, <1>7, <1>8 DEF QueueInv

LEMMA WaitForXferKeeps == ASSUME HostAssumption, QueueInv, WaitForXfer PROVE QueueInv'
<1>1. /\ pc = "wait" /\ pc' = "finish"
      /\ UNCHANGED <<transfer_count, transfer_ctr, buffer_counter, q_ctr, read_offset,
                     status, clean, faults, mailbox, reply, card, inBuf, slot, inflight>>
  BY DEF WaitForXfer, readVars, cardVars
<1>2. DataOK' BY <1>1 DEF QueueInv, DataOK
<1>3. CountersOK' BY <1>1 DEF QueueInv, CountersOK, Outstanding, Finished
<1>4. slot[q_ctr].state # "pending" BY DEF WaitForXfer, Answered
<1>5. {pc, pc'} \subseteq {"begin", "wait", "finish", "abort"} BY <1>1
<1>6. UNCHANGED <<transfer_count, transfer_ctr, buffer_counter, q_ctr, slot, inflight>> BY <1>1
<1>7. SlotsOK' BY <1>4, <1>5, <1>6, SlotsSame
<1> QED BY <1>2, <1>3, <1>7 DEF QueueInv

LEMMA WaitTimesOutKeeps == ASSUME HostAssumption, QueueInv, WaitTimesOut PROVE QueueInv'
<1>1. /\ pc = "wait" /\ pc' = "finish" /\ status' = FALSE
      /\ slot' = Cancelled /\ inflight' = <<>>
      /\ UNCHANGED <<transfer_count, transfer_ctr, buffer_counter, q_ctr, read_offset,
                     clean, mailbox, reply, card, inBuf>>
  BY DEF WaitTimesOut, cardVars
<1>2. faults' \in Int BY DEF WaitTimesOut, QueueInv, DataOK, Fault
<1>3. inflight' \in Seq(Slots) /\ Len(inflight') = 0 BY <1>1
<1>4. DataOK' BY <1>1, <1>2, <1>3, CancelledType DEF QueueInv, DataOK
<1>5. CountersOK' BY <1>1 DEF QueueInv, CountersOK, Outstanding, Finished
<1>6. ASSUME NEW s \in Slots
      PROVE  \/ slot'[s] = slot[s]
             \/ /\ slot[s].state = "pending"
                /\ slot'[s].state # "none" /\ slot'[s].buf = slot[s].buf
  <2>1. slot[s] \in [buf : Nat, state : States, data : Chunks \cup {Garbage}]
    BY DEF QueueInv, DataOK, Reads
  <2>2. slot'[s] = IF slot[s].state = "pending"
                   THEN [slot[s] EXCEPT !.state = "cancelled"] ELSE slot[s]
    BY <1>1 DEF Cancelled
  <2> QED BY <2>1, <2>2
<1>7. \A i \in 1 .. Len(inflight') : FALSE BY <1>3
<1>8. slot'[q_ctr].state # "pending"
  <2>1. slot[q_ctr] \in [buf : Nat, state : States, data : Chunks \cup {Garbage}]
        /\ q_ctr \in Slots
    BY DEF QueueInv, DataOK, CountersOK, Reads
  <2>2. slot'[q_ctr] = IF slot[q_ctr].state = "pending"
                       THEN [slot[q_ctr] EXCEPT !.state = "cancelled"] ELSE slot[q_ctr]
    BY <1>1, <2>1 DEF Cancelled
  <2> QED BY <2>1, <2>2
<1>9. SlotsOK' BY <1>1, <1>3, <1>6, <1>7, <1>8, SlotsKept
<1> QED BY <1>4, <1>5, <1>9 DEF QueueInv

LEMMA AbortKeeps == ASSUME HostAssumption, QueueInv, AbortAndReturn PROVE QueueInv'
<1>1. /\ pc = "abort" /\ pc' = "ready"
      /\ slot' = [s \in Slots |-> NoRead] /\ inflight' = <<>>
      /\ UNCHANGED <<transfer_count, transfer_ctr, buffer_counter, q_ctr, read_offset,
                     status, inBuf, mailbox, reply, card, clean, faults>>
  BY DEF AbortAndReturn, cardVars
<1>2. inflight' \in Seq(Slots) /\ Len(inflight') = 0 BY <1>1
<1>3. slot' \in [Slots -> Reads] BY <1>1, GarbageData
<1>4. DataOK' BY <1>1, <1>2, <1>3 DEF QueueInv, DataOK
<1>5. CountersOK' BY <1>1 DEF QueueInv, CountersOK, Outstanding, Finished
<1>6. \A s \in Slots : ~ Used(s)' /\ slot'[s] = NoRead BY <1>1 DEF Used
<1>7. (\A i \in 1 .. Len(inflight') : FALSE) /\ pc' # "finish" BY <1>1, <1>2
<1>8. SlotsOK' BY <1>6, <1>7 DEF SlotsOK
<1> QED BY <1>4, <1>5, <1>8 DEF QueueInv

\* The oldest read leaves the driver with another state.
LEMMA HeadLeaves ==
  ASSUME HostAssumption, QueueInv, inflight # <<>>, inflight' = Tail(inflight), UNCHANGED loopVars,
         \A s \in Slots : s # Head(inflight) => slot'[s] = slot[s],
         slot'[Head(inflight)].state # "none",
         slot'[Head(inflight)].buf = slot[Head(inflight)].buf
  PROVE  SlotsOK'
<1>1. inflight \in Seq(Slots) BY DEF QueueInv, DataOK
<1>2. Len(inflight) \in Nat /\ Len(inflight) >= 1 /\ Head(inflight) = inflight[1]
  BY <1>1
<1>3. Len(inflight') = Len(inflight) - 1 /\ Len(inflight') \in Nat BY <1>1, <1>2
<1>4. ASSUME NEW i \in 1 .. Len(inflight')
      PROVE  /\ i + 1 \in 1 .. Len(inflight) /\ inflight'[i] = inflight[i + 1]
             /\ slot'[inflight'[i]].state = "pending"
  <2>1. i + 1 \in 1 .. Len(inflight) /\ inflight'[i] = inflight[i + 1] BY <1>1, <1>2, <1>3
  <2>2. inflight[i + 1] \in Slots /\ 1 < i + 1 /\ 1 \in 1 .. Len(inflight) BY <1>1, <1>2, <2>1
  <2>3. Off(inflight[1], q_ctr) < Off(inflight[i + 1], q_ctr)
    BY <2>1, <2>2 DEF QueueInv, SlotsOK
  <2>4. inflight[i + 1] # Head(inflight)
    <3>1. SUFFICES ASSUME inflight[i + 1] = inflight[1] PROVE FALSE BY <1>2
    <3>2. q_ctr \in Slots /\ inflight[1] \in Slots BY <2>2, <3>1 DEF QueueInv, CountersOK
    <3>3. Off(inflight[1], q_ctr) \in 0 .. QueueSize - 1 BY <3>2, OffOrder
    <3> QED BY <2>3, <3>1, <3>3 DEF HostAssumption
  <2>5. slot[inflight[i + 1]].state = "pending" BY <2>1 DEF QueueInv, SlotsOK
  <2> QED BY <2>1, <2>2, <2>4, <2>5
<1>5. slot[Head(inflight)].state = "pending" BY <1>2 DEF QueueInv, SlotsOK
<1>6. \A s \in Slots :
           \/ slot'[s] = slot[s]
           \/ /\ slot[s].state = "pending"
              /\ slot'[s].state # "none" /\ slot'[s].buf = slot[s].buf
  BY <1>5
<1>7. pc' = pc /\ UNCHANGED <<transfer_count, transfer_ctr, buffer_counter, q_ctr>>
  BY DEF loopVars
<1>8. pc' = "finish" => slot'[q_ctr].state # "pending"
  BY <1>5, <1>7 DEF QueueInv, SlotsOK, CountersOK
<1> QED BY <1>3, <1>4, <1>6, <1>7, <1>8, SlotsKept

LEMMA CompleteKeeps == ASSUME HostAssumption, QueueInv, Complete PROVE QueueInv'
<1>1. DataOK' BY CompleteType DEF QueueInv
<1>2. slot \in [Slots -> Reads] /\ Head(inflight) \in Slots /\ UNCHANGED loopVars
  BY DEF Complete, QueueInv, DataOK
<1>3. /\ slot'[Head(inflight)].state = "done"
      /\ slot'[Head(inflight)].buf = slot[Head(inflight)].buf
      /\ \A s \in Slots : s # Head(inflight) => slot'[s] = slot[s]
  BY <1>2 DEF Complete, Reads
<1>4. SlotsOK' BY <1>2, <1>3, HeadLeaves DEF Complete
<1>5. CountersOK' BY <1>2 DEF QueueInv, CountersOK, Outstanding, Finished, loopVars
<1> QED BY <1>1, <1>4, <1>5 DEF QueueInv

LEMMA FailKeeps == ASSUME HostAssumption, QueueInv, Fail PROVE QueueInv'
<1>1. DataOK' BY FailType DEF QueueInv
<1>2. slot \in [Slots -> Reads] /\ Head(inflight) \in Slots /\ UNCHANGED loopVars
  BY DEF Fail, QueueInv, DataOK
<1>3. /\ slot'[Head(inflight)].state = "failed"
      /\ slot'[Head(inflight)].buf = slot[Head(inflight)].buf
      /\ \A s \in Slots : s # Head(inflight) => slot'[s] = slot[s]
  BY <1>2 DEF Fail, Reads
<1>4. SlotsOK' BY <1>2, <1>3, HeadLeaves DEF Fail
<1>5. CountersOK' BY <1>2 DEF QueueInv, CountersOK, Outstanding, Finished, loopVars
<1> QED BY <1>1, <1>4, <1>5 DEF QueueInv

LEMMA CardKeeps == ASSUME HostAssumption, QueueInv, Accept \/ Produce PROVE QueueInv'
<1>1. UNCHANGED <<loopVars, readVars, clean, faults>> BY DEF Accept, Produce
<1>2. DataOK'
  <2>1. CASE Accept BY <1>1, <2>1, NoReplyType DEF Accept, QueueInv, DataOK, loopVars, readVars
  <2>2. CASE Produce BY <2>2, ProduceType DEF QueueInv
  <2> QED BY <2>1, <2>2
<1>3. CountersOK' BY <1>1 DEF QueueInv, CountersOK, Outstanding, Finished, loopVars
<1>4. SlotsOK' BY <1>1, SlotsSame DEF loopVars, readVars, QueueInv, SlotsOK
<1> QED BY <1>2, <1>3, <1>4 DEF QueueInv

LEMMA FinishKeeps == ASSUME HostAssumption, QueueInv, FinishDataXfer PROVE QueueInv'
<1>1. DataOK' BY FinishType
<1>2. /\ pc = "finish" /\ pc' = "next" /\ slot' = [slot EXCEPT ![q_ctr] = NoRead]
      /\ UNCHANGED <<transfer_count, transfer_ctr, buffer_counter, q_ctr, read_offset, inflight>>
  BY DEF FinishDataXfer
<1>3. CountersOK' BY <1>2 DEF QueueInv, CountersOK, Outstanding, Finished
<1>4. q_ctr \in Slots /\ slot \in [Slots -> Reads] BY DEF QueueInv, DataOK, CountersOK
<1>5. slot'[q_ctr] = NoRead /\ \A s \in Slots : s # q_ctr => slot'[s] = slot[s]
  BY <1>2, <1>4
<1>6. Outstanding' = Outstanding /\ Finished' = Finished BY <1>2 DEF Outstanding, Finished
<1>7. \A s \in Slots : /\ Off(s, q_ctr) \in 0 .. QueueSize - 1
                       /\ (Off(s, q_ctr) = 0) = (s = q_ctr)
  BY <1>4, OffOrder
<1>8. \A s \in Slots : Used(s)' <=> Used(s) /\ s # q_ctr
  BY <1>2, <1>6, <1>7 DEF Used, HostAssumption
<1>9. \A s \in Slots : IF Used(s)' THEN slot'[s].state # "none"
                                       /\ slot'[s].buf = Finished' + Off(s, q_ctr')
                       ELSE slot'[s] = NoRead
  BY <1>2, <1>5, <1>6, <1>8 DEF QueueInv, SlotsOK
<1>10. ASSUME NEW i \in 1 .. Len(inflight)
       PROVE  inflight[i] \in Slots /\ slot'[inflight[i]].state = "pending"
  <2>1. inflight[i] \in Slots /\ slot[inflight[i]].state = "pending"
    BY DEF QueueInv, DataOK, SlotsOK
  <2>2. inflight[i] # q_ctr BY <1>2, <2>1 DEF QueueInv, SlotsOK
  <2> QED BY <1>5, <2>1, <2>2
<1>11. SlotsOK' BY <1>2, <1>9, <1>10 DEF QueueInv, SlotsOK
<1> QED BY <1>1, <1>3, <1>11 DEF QueueInv

\* The slot in turn is the last one afterwards, the others move up by one.
LEMMA NextReadKeeps == ASSUME HostAssumption, QueueInv, NextRead PROVE QueueInv'
<1> DEFINE More == buffer_counter < transfer_count
<1>1. /\ pc = "next" /\ pc' = IF LoopEnds THEN "abort" ELSE "wait"
      /\ q_ctr' = NextQCtr /\ transfer_ctr' = transfer_ctr - 1
      /\ UNCHANGED <<transfer_count, read_offset, inBuf, mailbox, reply, card, clean>>
  BY DEF NextRead, cardVars
<1>2. /\ transfer_count \in 0 .. MaxTransfers /\ transfer_ctr \in 1 .. transfer_count
      /\ buffer_counter \in 0 .. transfer_count /\ q_ctr \in Slots
      /\ read_offset \in 1 .. buffer_counter /\ Outstanding \in 1 .. QueueSize
      /\ More => Outstanding = QueueSize
  BY <1>1 DEF QueueInv, CountersOK, HostAssumption
<1>3. IF More THEN BeginDataXfer(q_ctr, buffer_counter) /\ buffer_counter' = buffer_counter + 1
      ELSE UNCHANGED <<slot, inflight, status, faults, buffer_counter>>
  BY DEF NextRead
<1>4. DataOK'
  <2>1. pc' \in {"abort", "wait"} BY <1>1
  <2>2. CASE More
    <3>1. buffer_counter \in Nat BY <1>2
    <3> QED BY <1>1, <1>2, <1>3, <2>1, <2>2, <3>1, BeginType DEF QueueInv, DataOK
  <2>3. CASE ~ More BY <1>1, <1>3, <2>1, <2>3 DEF QueueInv, DataOK
  <2> QED BY <2>2, <2>3
<1>5. /\ Finished' = Finished + 1
      /\ Outstanding' = IF More THEN Outstanding ELSE Outstanding - 1
      /\ Outstanding' \in 0 .. QueueSize /\ Finished \in Nat
      /\ buffer_counter = Finished + Outstanding
      /\ transfer_ctr' = 0 => Outstanding' = 0
      /\ buffer_counter' < transfer_count => Outstanding' = QueueSize
      /\ Outstanding' = 0 => transfer_ctr' = 0
  BY <1>1, <1>2, <1>3 DEF Outstanding, Finished, HostAssumption
<1>6. CountersOK'
  <2>1. pc' = IF transfer_ctr = 1 THEN "abort" ELSE "wait" BY <1>1 DEF LoopEnds
  <2>2. q_ctr' \in Slots BY <1>1, <1>2, OffNext
  <2> QED BY <1>1, <1>2, <1>3, <1>5, <2>1, <2>2 DEF CountersOK, HostAssumption
<1>7. \A s \in Slots :
        /\ Off(s, q_ctr) \in 0 .. QueueSize - 1
        /\ (Off(s, q_ctr) = 0) = (s = q_ctr)
        /\ Off(s, q_ctr') = IF s = q_ctr THEN QueueSize - 1 ELSE Off(s, q_ctr) - 1
  BY <1>1, <1>2, OffNext, OffOrder
<1>8. \A s \in Slots : /\ Used(s) <=> Off(s, q_ctr) \in 1 .. Outstanding - 1
                       /\ Used(s)' <=> Off(s, q_ctr') < Outstanding'
  BY <1>1, <1>2, <1>7 DEF Used, HostAssumption
<1>9. /\ slot[q_ctr] = NoRead
      /\ \A i \in 1 .. Len(inflight) : inflight[i] \in Slots /\ inflight[i] # q_ctr
  <2>1. ~ Used(q_ctr) BY <1>2, <1>7, <1>8
  <2> QED BY <1>2, <2>1, InflightUsed DEF QueueInv, SlotsOK
<1>10. /\ \A s \in Slots : s # q_ctr => slot'[s] = slot[s]
       /\ More => slot'[q_ctr].state # "none" /\ slot'[q_ctr].buf = buffer_counter
       /\ ~ More => slot'[q_ctr] = NoRead
       /\ \A i \in 1 .. Len(inflight') :
            \/ i \in 1 .. Len(inflight) /\ inflight'[i] = inflight[i]
            \/ More /\ i = Len(inflight) + 1 /\ inflight'[i] = q_ctr
       /\ \A i \in 1 .. Len(inflight') : slot'[inflight'[i]].state = "pending"
  <2>1. CASE More
    <3>1. buffer_counter \in Nat BY <1>2
    <3> QED BY <1>2, <1>3, <1>9, <2>1, <3>1, BeginSlot
  <2>2. CASE ~ More BY <1>3, <1>9, <2>2 DEF QueueInv, SlotsOK
  <2> QED BY <2>1, <2>2
<1>11. ASSUME NEW s \in Slots
       PROVE  IF Used(s)' THEN slot'[s].state # "none"
                             /\ slot'[s].buf = Finished' + Off(s, q_ctr')
              ELSE slot'[s] = NoRead
  <2>1. CASE s = q_ctr
    <3>1. Used(s)' <=> More BY <1>2, <1>5, <1>7, <1>8, <2>1 DEF HostAssumption
    <3>2. More => buffer_counter = Finished' + Off(s, q_ctr')
      BY <1>2, <1>5, <1>7, <2>1 DEF HostAssumption
    <3> QED BY <1>10, <2>1, <3>1, <3>2
  <2>2. CASE s # q_ctr
    <3>1. Used(s)' <=> Used(s) BY <1>2, <1>5, <1>7, <1>8, <2>2 DEF HostAssumption
    <3>2. Finished' + Off(s, q_ctr') = Finished + Off(s, q_ctr)
      BY <1>2, <1>5, <1>7, <2>2 DEF HostAssumption
    <3> QED BY <1>10, <2>2, <3>1, <3>2 DEF QueueInv, SlotsOK
  <2> QED BY <2>1, <2>2
<1>12. ASSUME NEW i \in 1 .. Len(inflight'), NEW j \in 1 .. Len(inflight'), i < j
       PROVE  Off(inflight'[i], q_ctr') < Off(inflight'[j], q_ctr')
  <2>1. i \in 1 .. Len(inflight) /\ inflight'[i] = inflight[i]
    BY <1>10, <1>12 DEF QueueInv, DataOK
  <2>2. CASE j \in 1 .. Len(inflight) /\ inflight'[j] = inflight[j]
    <3>1. Off(inflight[i], q_ctr) < Off(inflight[j], q_ctr)
      BY <1>12, <2>1, <2>2 DEF QueueInv, SlotsOK
    <3> QED BY <1>7, <1>9, <2>1, <2>2, <3>1 DEF HostAssumption
  <2>3. CASE inflight'[j] = q_ctr
    <3> DEFINE si == inflight[i]
    <3>1. si \in Slots /\ si # q_ctr BY <1>9, <2>1
    <3> HIDE DEF si
    <3>2. Off(si, q_ctr') < Off(q_ctr, q_ctr') BY <1>2, <1>7, <3>1 DEF HostAssumption
    <3> QED BY <2>1, <2>3, <3>2 DEF si
  <2> QED BY <1>10, <2>2, <2>3
<1>13. SlotsOK' BY <1>1, <1>10, <1>11, <1>12 DEF SlotsOK
<1> QED BY <1>4, <1>6, <1>13 DEF QueueInv

-----------------------------------------------------------------------------
(* Theorems. *)

\* The loop, the overlapped structures and the driver's queue agree on which
\* reads are begun and not finished.
THEOREM QueueInvariant == HostSpec => []QueueInv
<1>1. HostInit => QueueInv
  <2> SUFFICES ASSUME HostInit PROVE QueueInv OBVIOUS
  <2>1. DataOK
    <3>1. inBuf \in [Buffers -> Chunks \cup {Garbage}] BY DEF HostInit
    <3>2. slot \in [Slots -> Reads] BY GarbageData DEF HostInit
    <3>3. mailbox \in Replies /\ reply \in Replies BY NoReplyType DEF HostInit
    <3>4. inflight \in Seq(Slots) /\ card \in Seq(Chunks) BY DEF HostInit
    <3>5. pc = "ready" /\ status \in BOOLEAN /\ clean \in BOOLEAN BY DEF HostInit
    <3>6. faults \in Int BY DEF HostInit
    <3> QED BY <3>1, <3>2, <3>3, <3>4, <3>5, <3>6 DEF DataOK
  <2>2. CountersOK
    <3>1. 0 \in Slots BY HostAssumption DEF Slots, HostAssumption
    <3> QED BY <3>1, HostAssumption DEF HostInit, CountersOK, HostAssumption
  <2>3. SlotsOK
    <3>1. pc = "ready" /\ Len(inflight) = 0 BY DEF HostInit
    <3>2. \A s \in Slots : slot[s] = NoRead BY DEF HostInit
    <3>3. \A s \in Slots : ~ Used(s) BY <3>1 DEF Used
    <3> QED BY <3>1, <3>2, <3>3 DEF SlotsOK
  <2> QED BY <2>1, <2>2, <2>3 DEF QueueInv
<1>2. QueueInv /\ [HostNext]_hostVars => QueueInv'
  <2> SUFFICES ASSUME QueueInv, [HostNext]_hostVars PROVE QueueInv' OBVIOUS
  <2>1. CASE HostNext
    BY <2>1, HostAssumption, StartKeeps, BeginKeeps, SendBulkKeeps, WaitForXferKeeps,
       WaitTimesOutKeeps, FinishKeeps, NextReadKeeps, AbortKeeps, CompleteKeeps, CardKeeps,
       FailKeeps
       DEF HostNext, Call, Device
  <2>2. CASE UNCHANGED hostVars
    <3>1. UNCHANGED <<pc, transfer_count, transfer_ctr, buffer_counter, q_ctr, read_offset,
                      status, inBuf, slot, inflight, mailbox, reply, card, clean, faults>>
      BY <2>2 DEF hostVars, loopVars, readVars, cardVars
    <3>2. DataOK' BY <3>1 DEF QueueInv, DataOK
    <3>3. CountersOK' BY <3>1 DEF QueueInv, CountersOK, Outstanding, Finished
    <3>4. SlotsOK' BY <3>1, SlotsSame DEF QueueInv, SlotsOK
    <3> QED BY <3>2, <3>3, <3>4 DEF QueueInv
  <2> QED BY <2>1, <2>2
<1> QED BY <1>1, <1>2, PTL DEF HostSpec

\* The counters of send_and_read_bulk stay in their arrays, for every length of
\* the queue and every transfer_count.
THEOREM HostTypeOKHolds == HostSpec => []HostTypeOK
<1>1. QueueInv => HostTypeOK
  <2> SUFFICES ASSUME QueueInv PROVE HostTypeOK OBVIOUS
  <2>1. pc = "finish" => FinishIndex \in 0 .. transfer_count - 1
    BY HostAssumption DEF QueueInv, CountersOK, FinishIndex, HostAssumption
  <2>2. \A i \in Buffers : inBuf[i] \in Chunks \cup {Garbage} BY DEF QueueInv, DataOK
  <2>3. \A i \in 1 .. Len(card) : card[i] \in Chunks BY DEF QueueInv, DataOK
  <2> QED BY <2>1, <2>2, <2>3 DEF QueueInv, CountersOK, HostTypeOK
<1> QED BY <1>1, QueueInvariant, PTL

\* The loop waits for the reads in the order the driver completes them.
THEOREM OldestFirstHolds == HostSpec => []OldestFirst
<1>1. QueueInv => OldestFirst BY DEF QueueInv, SlotsOK, OldestFirst, Off
<1> QED BY <1>1, QueueInvariant, PTL

\* When the loop is over every read that was begun has been finished.
THEOREM EveryReadFinishedHolds == HostSpec => []EveryReadFinished
<1>1. QueueInv => EveryReadFinished
  <2> SUFFICES ASSUME QueueInv, pc = "abort", transfer_ctr < transfer_count
               PROVE  inflight = <<>> /\ \A s \in Slots : slot[s] = NoRead
    BY DEF EveryReadFinished
  <2>1. Outstanding = 0 BY HostAssumption DEF QueueInv, CountersOK, HostAssumption
  <2>2. q_ctr \in Slots /\ inflight \in Seq(Slots) BY DEF QueueInv, CountersOK, DataOK
  <2>3. ASSUME NEW s \in Slots PROVE ~ Used(s)
    <3>1. Off(s, q_ctr) \in 0 .. QueueSize - 1 BY <2>2, HostAssumption, OffOrder
    <3> QED BY <2>1, <3>1, HostAssumption DEF Used, HostAssumption
  <2>4. \A s \in Slots : slot[s] = NoRead BY <2>3 DEF QueueInv, SlotsOK
  <2>5. \A i \in 1 .. Len(inflight) : FALSE BY <2>3, HostAssumption, InflightUsed
  <2>6. Len(inflight) = 0 BY <2>2, <2>5
  <2> QED BY <2>2, <2>4, <2>6
<1> QED BY <1>1, QueueInvariant, PTL

-----------------------------------------------------------------------------
(* Where the data goes when the driver writes the buffers directly. *)

\* A read is finished into the first buffer that is still as new.
LEMMA FinishWrites ==
  ASSUME HostAssumption, XferMode = "direct", QueueInv, FinishDataXfer, NEW i \in Buffers
  PROVE  inBuf'[i] = inBuf[i] \/ i = Finished
<1>1. q_ctr \in Slots /\ pc = "finish" BY DEF QueueInv, CountersOK, FinishDataXfer
<1>2. Off(q_ctr, q_ctr) = 0 BY <1>1, OffOrder
<1>3. Used(q_ctr)
  BY <1>1, <1>2 DEF QueueInv, CountersOK, Used, HostAssumption
<1>4. Finished \in Nat BY <1>1 DEF QueueInv, CountersOK, Finished, HostAssumption
<1>5. slot[q_ctr].buf = Finished BY <1>1, <1>2, <1>3, <1>4 DEF QueueInv, SlotsOK
<1>6. inBuf' = inBuf \/ inBuf' = [inBuf EXCEPT ![Finished] = slot[q_ctr].data]
  BY <1>5 DEF FinishDataXfer
<1>7. inBuf \in [Buffers -> Chunks \cup {Garbage}] BY DEF QueueInv, DataOK
<1> QED BY <1>6, <1>7

LEMMA FreshKeeps ==
  ASSUME HostAssumption, XferMode = "direct", QueueInv, FreshInv, [HostNext]_hostVars
  PROVE  FreshInv'
<1>1. CASE Start BY <1>1 DEF Start, FreshInv
<1>2. CASE FinishDataXfer
  <2>1. pc = "finish" /\ Finished' = Finished /\ pc' = "next" BY <1>2 DEF FinishDataXfer, Finished
  <2>2. Finished \in Nat
    BY <2>1 DEF QueueInv, CountersOK, Finished, HostAssumption
  <2>3. ASSUME NEW i \in Buffers, i >= Finished + 1 PROVE inBuf'[i] = Garbage
    <3>1. i >= Finished /\ i # Finished BY <2>2, <2>3 DEF Buffers
    <3>2. inBuf[i] = Garbage BY <2>1, <2>2, <3>1 DEF FreshInv
    <3> QED BY <1>2, <3>1, <3>2, FinishWrites
  <2> QED BY <2>1, <2>3 DEF FreshInv
<1>3. CASE NextRead
  <2>1. pc = "next" /\ pc' # "next" /\ inBuf' = inBuf /\ Finished' = Finished + 1
    BY <1>3 DEF NextRead, Finished, QueueInv, CountersOK, HostAssumption
  <2>2. Finished \in Int BY <2>1 DEF QueueInv, CountersOK, Finished, HostAssumption
  <2> QED BY <2>1, <2>2 DEF FreshInv
<1>4. CASE ~ (Start \/ FinishDataXfer \/ NextRead)
  <2>1. inBuf' = inBuf /\ Finished' = Finished
    BY <1>4 DEF HostNext, Call, Device, Begin, SendBulk, WaitForXfer, WaitTimesOut,
                AbortAndReturn, Complete, Accept, Produce, Fail, hostVars, loopVars, readVars,
                Finished
  <2>2. pc = "ready" => pc' = "ready"
    BY <1>4 DEF HostNext, Call, Device, Begin, SendBulk, WaitForXfer, WaitTimesOut,
                AbortAndReturn, Complete, Accept, Produce, Fail, hostVars, loopVars
  <2>3. (pc' = "next") = (pc = "next") \/ pc' = "ready"
    BY <1>4 DEF HostNext, Call, Device, Begin, SendBulk, WaitForXfer, WaitTimesOut,
                AbortAndReturn, Complete, Accept, Produce, Fail, hostVars, loopVars
  <2> QED BY <2>1, <2>2, <2>3 DEF FreshInv
<1> QED BY <1>1, <1>2, <1>3, <1>4

\* When the driver writes the buffers directly, no
\* buffer that holds data of the call is written a second time.
THEOREM BufferWrittenOnceHolds ==
  ASSUME XferMode = "direct" PROVE HostSpec => BufferWrittenOnce
<1>1. HostInit => FreshInv BY DEF HostInit, FreshInv
<1>2. QueueInv /\ FreshInv /\ [HostNext]_hostVars => FreshInv'
  BY FreshKeeps, HostAssumption
<1>3. QueueInv /\ FreshInv /\ [HostNext]_hostVars =>
        [\A i \in Buffers : inBuf[i] # Garbage /\ pc # "ready" => inBuf'[i] = inBuf[i]]_hostVars
  <2> SUFFICES ASSUME QueueInv, FreshInv, HostNext,
                      NEW i \in Buffers, inBuf[i] # Garbage, pc # "ready"
               PROVE  inBuf'[i] = inBuf[i]
    OBVIOUS
  <2>1. CASE FinishDataXfer
    <3>1. inBuf'[i] = inBuf[i] \/ i = Finished BY <2>1, FinishWrites, HostAssumption
    <3>2. pc = "finish" BY <2>1 DEF FinishDataXfer
    <3>3. Finished \in Nat
      BY <3>2, HostAssumption DEF QueueInv, CountersOK, Finished, HostAssumption
    <3>4. i # Finished BY <3>2, <3>3 DEF FreshInv
    <3> QED BY <3>1, <3>4
  <2>2. CASE ~ FinishDataXfer
    BY <2>2 DEF HostNext, Call, Device, Start, Begin, SendBulk, WaitForXfer, WaitTimesOut,
                NextRead, AbortAndReturn, Complete, Accept, Produce, Fail, readVars
  <2> QED BY <2>1, <2>2
<1> QED BY <1>1, <1>2, <1>3, QueueInvariant, PTL DEF HostSpec, BufferWrittenOnce

-----------------------------------------------------------------------------
(* HostTransfer: the data of a call.  As long as no read of the call has failed *)
(* and nothing of an earlier call was left, the chunks of the reply pass        *)
(* through the card into the slots in order; a chunk that the card drops leaves *)
(* one read without an answer, so that the call cannot return true.             *)

\* Reads that the driver has answered, and chunks on their way to it.
Delivered == buffer_counter - Len(inflight)
InCard    == Len(card) + (reply.of - reply.next) + (mailbox.of - mailbox.next)

Chunk(i) == [no |-> i, stale |-> FALSE]

\* Nothing has gone wrong so far in this call.
OnTrack == pc # "ready" /\ clean /\ status /\ \A s \in Slots : slot[s].state # "failed"

\* The buffers that are filled.
Written == Finished + (IF pc = "next" THEN 1 ELSE 0)

CardOK ==
  clean /\ pc # "ready" =>
    /\ \A r \in {mailbox, reply} : r # NoReply => r.of = transfer_count /\ ~ r.stale
    /\ mailbox.next = 0
    /\ pc = "begin" => CardIdle

FlowOK ==
  OnTrack =>
    /\ Delivered + InCard <= transfer_count
    /\ pc = "begin" => Delivered = 0
    /\ \A i \in 1 .. Len(inflight) : slot[inflight[i]].buf = Delivered + (i - 1)

ContentsOK ==
  OnTrack /\ Delivered + InCard = transfer_count =>
    /\ \A i \in 1 .. Len(card) : card[i] = Chunk(Delivered + (i - 1))
    /\ \A s \in Slots : slot[s].state # "none" /\ slot[s].buf < Delivered =>
                         slot[s].data = Chunk(slot[s].buf)
    /\ \A i \in 0 .. Written - 1 : inBuf[i] = Chunk(i)

\* Only the end of the loop leads to the end of the call with status still true.
ReturnOK == pc = "abort" /\ status => transfer_ctr = 0 /\ transfer_count > 0

DeliveryInv == ReturnOK /\ CardOK /\ FlowOK /\ ContentsOK /\ GoodDataOnSuccess

\* The numbers that the invariant counts with.
LEMMA FlowNumbers ==
  ASSUME HostAssumption, QueueInv
  PROVE  /\ Len(inflight) \in Nat /\ Len(card) \in Nat /\ Delivered \in Int
         /\ reply.next \in Nat /\ reply.of \in Nat
         /\ mailbox.next \in Nat /\ mailbox.of \in Nat
         /\ reply # NoReply => reply.next < reply.of
         /\ mailbox # NoReply => mailbox.next < mailbox.of
         /\ reply = NoReply => reply.next = 0 /\ reply.of = 0
         /\ mailbox = NoReply => mailbox.next = 0 /\ mailbox.of = 0
         /\ InCard \in Nat
         /\ transfer_count \in Nat /\ transfer_ctr \in Nat /\ buffer_counter \in Nat
         /\ Finished \in Nat
<1>1. Len(inflight) \in Nat /\ Len(card) \in Nat BY DEF QueueInv, DataOK
<1>2. /\ transfer_count \in Nat /\ transfer_ctr \in Nat /\ buffer_counter \in Nat
      /\ Finished \in Nat
  BY DEF QueueInv, CountersOK, Finished, HostAssumption
<1>3. ASSUME NEW r \in Replies
      PROVE  /\ r.next \in Nat /\ r.of \in Nat
             /\ r # NoReply => r.next < r.of
             /\ r = NoReply => r.next = 0 /\ r.of = 0
  <2>1. CASE r = NoReply BY <2>1 DEF NoReply
  <2>2. CASE r # NoReply BY <2>2 DEF Replies, HostAssumption
  <2> QED BY <2>1, <2>2
<1>4. mailbox \in Replies /\ reply \in Replies BY DEF QueueInv, DataOK
<1>5. /\ reply.next \in Nat /\ reply.of \in Nat
      /\ reply # NoReply => reply.next < reply.of
      /\ reply = NoReply => reply.next = 0 /\ reply.of = 0
  BY <1>3, <1>4
<1>6. /\ mailbox.next \in Nat /\ mailbox.of \in Nat
      /\ mailbox # NoReply => mailbox.next < mailbox.of
      /\ mailbox = NoReply => mailbox.next = 0 /\ mailbox.of = 0
  BY <1>3, <1>4
<1>7. Delivered \in Int BY <1>1, <1>2 DEF Delivered
<1>8. reply.of - reply.next \in Nat /\ mailbox.of - mailbox.next \in Nat
  BY <1>5, <1>6
<1>9. InCard \in Nat BY <1>1, <1>8 DEF InCard
<1> QED BY <1>1, <1>2, <1>5, <1>6, <1>7, <1>9

\* The three places where a chunk can be on its way.
LEMMA InCardParts ==
  ASSUME HostAssumption, QueueInv
  PROVE  \E a, b, c \in Nat :
           /\ Len(card) = a /\ reply.of - reply.next = b /\ mailbox.of - mailbox.next = c
           /\ InCard = (a + b) + c
           /\ reply # NoReply => b > 0
           /\ mailbox # NoReply => c > 0
<1>1. PICK n \in Nat, o \in Nat : reply.next = n /\ reply.of = o BY FlowNumbers
<1>2. PICK m \in Nat, p \in Nat : mailbox.next = m /\ mailbox.of = p BY FlowNumbers
<1>3. PICK a \in Nat : Len(card) = a BY FlowNumbers
<1>4. reply = NoReply => n = 0 /\ o = 0 BY <1>1, FlowNumbers
<1>5. reply # NoReply => n < o BY <1>1, FlowNumbers
<1>6. mailbox = NoReply => m = 0 /\ p = 0 BY <1>2, FlowNumbers
<1>7. mailbox # NoReply => m < p BY <1>2, FlowNumbers
<1>8. o - n \in Nat /\ p - m \in Nat BY <1>4, <1>5, <1>6, <1>7
<1>9. /\ reply.of - reply.next = o - n /\ mailbox.of - mailbox.next = p - m
      /\ reply # NoReply => o - n > 0
      /\ mailbox # NoReply => p - m > 0
  BY <1>1, <1>2, <1>5, <1>7
<1>10. InCard = (a + (o - n)) + (p - m) BY <1>3, <1>9 DEF InCard
<1> QED BY <1>3, <1>8, <1>9, <1>10

\* A read that is not finished and not answered waits in the driver's queue.
LEMMA UnansweredPending ==
  ASSUME HostAssumption, QueueInv, FlowOK, OnTrack,
         NEW s \in Slots, Used(s), slot[s].buf >= Delivered
  PROVE  slot[s].state = "pending"
<1>1. Len(inflight) \in Nat /\ Delivered \in Int /\ buffer_counter \in Nat /\ Finished \in Nat
  BY FlowNumbers
<1>2. q_ctr \in Slots /\ s \in Slots BY DEF QueueInv, CountersOK
<1>3. /\ Off(s, q_ctr) \in 0 .. QueueSize - 1
      /\ \A r \in Slots : Off(r, q_ctr) = Off(s, q_ctr) => r = s
  BY <1>2, OffOrder
<1>4. slot[s].buf = Finished + Off(s, q_ctr) /\ Off(s, q_ctr) < buffer_counter - Finished
  BY DEF QueueInv, SlotsOK, Used, Outstanding
<1>5. PICK b \in Nat : slot[s].buf = b
  BY <1>1, <1>3, <1>4 DEF HostAssumption
<1>6. b >= buffer_counter - Len(inflight) /\ b < buffer_counter
  BY <1>1, <1>3, <1>4, <1>5 DEF Delivered, HostAssumption
<1> DEFINE i == (b - (buffer_counter - Len(inflight))) + 1
<1>7. i \in 1 .. Len(inflight) BY <1>1, <1>6
<1>8. (buffer_counter - Len(inflight)) + (i - 1) = b BY <1>1
<1> HIDE DEF i
<1>9. slot[inflight[i]].buf = b BY <1>7, <1>8 DEF FlowOK, Delivered
<1>10. inflight[i] \in Slots /\ Used(inflight[i]) BY <1>7, InflightUsed
<1> DEFINE r == inflight[i]
<1>11. slot[r].buf = Finished + Off(r, q_ctr) BY <1>10 DEF QueueInv, SlotsOK
<1>12. Off(r, q_ctr) \in 0 .. QueueSize - 1 BY <1>2, <1>10, OffOrder
<1>13. Off(r, q_ctr) = Off(s, q_ctr)
  BY <1>1, <1>3, <1>4, <1>5, <1>9, <1>11, <1>12 DEF HostAssumption
<1>14. r = s BY <1>3, <1>10, <1>13
<1>15. slot[r].state = "pending" BY <1>7 DEF QueueInv, SlotsOK
<1> QED BY <1>14, <1>15

\* No two reads in use have the same buffer.
LEMMA BuffersDiffer ==
  ASSUME HostAssumption, QueueInv, NEW r \in Slots, NEW s \in Slots, Used(r), Used(s),
         slot[r].buf = slot[s].buf
  PROVE  r = s
<1>1. q_ctr \in Slots /\ Finished \in Nat BY FlowNumbers DEF QueueInv, CountersOK
<1>2. slot[r].buf = Finished + Off(r, q_ctr) /\ slot[s].buf = Finished + Off(s, q_ctr)
  BY DEF QueueInv, SlotsOK
<1>3. Off(r, q_ctr) \in 0 .. QueueSize - 1 /\ Off(s, q_ctr) \in 0 .. QueueSize - 1
  BY <1>1, OffOrder
<1> DEFINE x == Off(r, q_ctr)
           y == Off(s, q_ctr)
<1>4. x \in Int /\ y \in Int BY <1>3 DEF HostAssumption
<1>5. Finished + x = Finished + y BY <1>2
<1> HIDE DEF x, y
<1>6. x = y BY <1>1, <1>4, <1>5
<1> QED BY <1>1, <1>6, OffOrder DEF x, y

-----------------------------------------------------------------------------
(* The data, one lemma for each action. *)

LEMMA StartDelivers ==
  ASSUME HostAssumption, QueueInv, Start PROVE DeliveryInv'
<1>1. /\ pc = "ready" /\ pc' = "begin" /\ buffer_counter' = 0 /\ inflight' = inflight
      /\ \E n \in 1 .. MaxTransfers : transfer_count' = n /\ transfer_ctr' = n
  BY DEF Start
<1>2. Len(inflight) = 0
  <2>1. ASSUME NEW i \in 1 .. Len(inflight) PROVE FALSE
    BY <1>1, InflightUsed DEF Used
  <2> QED BY <2>1, FlowNumbers
<1>3. clean' => CardIdle'
  <2> SUFFICES ASSUME CardIdle PROVE CardIdle' BY DEF Start
  <2>1. mailbox' = NoReply /\ reply' = NoReply BY DEF Start, Outdated, CardIdle
  <2>2. Len(card) = 0 BY DEF CardIdle
  <2>3. card' = <<>> BY <2>2 DEF Start
  <2> QED BY <2>1, <2>3 DEF CardIdle
<1>4. CardIdle' => InCard' = 0 /\ mailbox'.next = 0
  BY DEF CardIdle, InCard, NoReply
<1>5. Delivered' = 0 BY <1>1, <1>2 DEF Delivered
<1>6. transfer_count' \in Nat /\ transfer_count' > 0 BY <1>1 DEF HostAssumption
<1>7. CardOK' BY <1>1, <1>3, <1>4 DEF CardOK, CardIdle
<1>8. FlowOK' BY <1>1, <1>2, <1>3, <1>4, <1>5, <1>6 DEF FlowOK, OnTrack
<1>9. ContentsOK' BY <1>3, <1>4, <1>5, <1>6 DEF ContentsOK, OnTrack
<1>10. GoodDataOnSuccess' BY <1>1 DEF GoodDataOnSuccess
<1>11. ReturnOK' BY <1>1 DEF ReturnOK
<1> QED BY <1>7, <1>8, <1>9, <1>10, <1>11 DEF DeliveryInv

\* A read that begins goes to the end of the queue, if all goes well.
LEMMA BeginTrack ==
  ASSUME HostAssumption, QueueInv, FlowOK, pc # "ready", pc' # "ready",
         NEW s \in Slots, slot[s] = NoRead, BeginDataXfer(s, buffer_counter),
         buffer_counter' = buffer_counter + 1, clean' = clean, OnTrack'
  PROVE  /\ OnTrack /\ Delivered' = Delivered
         /\ slot'[s].buf = buffer_counter
         /\ \A r \in Slots : r # s => slot'[r] = slot[r]
         /\ \A i \in 1 .. Len(inflight') :
              slot'[inflight'[i]].buf = Delivered' + (i - 1)
<1>1. /\ slot \in [Slots -> Reads] /\ inflight \in Seq(Slots)
      /\ Len(inflight) \in Nat /\ buffer_counter \in Nat
  BY FlowNumbers DEF QueueInv, DataOK
<1>2. status' /\ clean' /\ \A r \in Slots : slot'[r].state # "failed" BY DEF OnTrack
<1>3. /\ inflight' = Append(inflight, s) /\ status' = status
      /\ slot' = [slot EXCEPT ![s] = [buf |-> buffer_counter, state |-> "pending",
                                      data |-> Garbage]]
  BY <1>2 DEF BeginDataXfer
<1>4. /\ slot'[s].buf = buffer_counter
      /\ \A r \in Slots : r # s => slot'[r] = slot[r]
  BY <1>1, <1>3
<1>5. OnTrack
  <2>1. NoRead.state # "failed" BY DEF NoRead
  <2>2. \A r \in Slots : slot[r].state # "failed" BY <1>2, <1>4, <2>1
  <2>3. status /\ clean BY <1>2, <1>3
  <2> QED BY <2>2, <2>3 DEF OnTrack
<1>6. Len(inflight') = Len(inflight) + 1 BY <1>1, <1>3
<1>7. Delivered' = Delivered BY <1>1, <1>6 DEF Delivered
<1>8. ASSUME NEW i \in 1 .. Len(inflight')
      PROVE  slot'[inflight'[i]].buf = Delivered' + (i - 1)
  <2>1. CASE i \in 1 .. Len(inflight)
    <3>1. inflight'[i] = inflight[i] /\ inflight[i] \in Slots BY <1>1, <1>3, <2>1
    <3>2. slot[inflight[i]].state = "pending" BY <2>1 DEF QueueInv, SlotsOK
    <3>3. NoRead.state # "pending" BY DEF NoRead
    <3>4. inflight[i] # s BY <3>2, <3>3
    <3>5. slot[inflight[i]].buf = Delivered + (i - 1) BY <1>5, <2>1 DEF FlowOK
    <3> QED BY <1>4, <1>7, <3>1, <3>4, <3>5
  <2>2. CASE i = Len(inflight) + 1
    <3>1. inflight'[i] = s BY <1>1, <1>3, <2>2
    <3>2. Delivered' + (i - 1) = buffer_counter BY <1>1, <1>7, <2>2 DEF Delivered
    <3> QED BY <1>4, <3>1, <3>2
  <2>3. i \in 1 .. Len(inflight) \/ i = Len(inflight) + 1 BY <1>1, <1>6
  <2> QED BY <2>1, <2>2, <2>3
<1> QED BY <1>4, <1>5, <1>7, <1>8

\* ... and the contents stay as they are.
LEMMA BeginContents ==
  ASSUME HostAssumption, QueueInv, DeliveryInv, pc # "ready", pc' # "ready",
         NEW s \in Slots, slot[s] = NoRead, BeginDataXfer(s, buffer_counter),
         buffer_counter' = buffer_counter + 1, Written' = Written,
         UNCHANGED <<clean, inBuf, transfer_count, card, reply, mailbox>>
  PROVE  ContentsOK'
<1> SUFFICES ASSUME OnTrack', Delivered' + InCard' = transfer_count'
             PROVE  /\ \A i \in 1 .. Len(card') : card'[i] = Chunk(Delivered' + (i - 1))
                    /\ \A r \in Slots : slot'[r].state # "none" /\ slot'[r].buf < Delivered' =>
                                         slot'[r].data = Chunk(slot'[r].buf)
                    /\ \A i \in 0 .. Written' - 1 : inBuf'[i] = Chunk(i)
  BY DEF ContentsOK, Chunk
<1>1. /\ OnTrack /\ Delivered' = Delivered /\ slot'[s].buf = buffer_counter
      /\ \A r \in Slots : r # s => slot'[r] = slot[r]
  BY BeginTrack DEF DeliveryInv
<1>2. InCard' = InCard BY DEF InCard
<1>3. /\ \A i \in 1 .. Len(card) : card[i] = Chunk(Delivered + (i - 1))
      /\ \A r \in Slots : slot[r].state # "none" /\ slot[r].buf < Delivered =>
                           slot[r].data = Chunk(slot[r].buf)
      /\ \A i \in 0 .. Written - 1 : inBuf[i] = Chunk(i)
  BY <1>1, <1>2 DEF DeliveryInv, ContentsOK
<1>4. ~ (buffer_counter < Delivered) BY FlowNumbers DEF Delivered
<1> QED BY <1>1, <1>3, <1>4

LEMMA BeginDelivers ==
  ASSUME HostAssumption, QueueInv, DeliveryInv, Begin PROVE DeliveryInv'
<1>1. /\ pc = "begin" /\ pc' = pc /\ q_ctr = 0 /\ buffer_counter < QueueSize
      /\ transfer_ctr = transfer_count /\ BeginDataXfer(buffer_counter, buffer_counter)
      /\ buffer_counter' = buffer_counter + 1
      /\ UNCHANGED <<transfer_count, transfer_ctr, clean, inBuf, card, reply, mailbox>>
  BY DEF QueueInv, CountersOK, Begin, cardVars
<1>2. buffer_counter \in Slots BY <1>1, FlowNumbers DEF Slots, HostAssumption
<1>3. slot[buffer_counter] = NoRead
  <2>1. Off(buffer_counter, 0) = buffer_counter BY <1>2, OffZero
  <2>2. Outstanding = buffer_counter BY <1>1, FlowNumbers DEF Outstanding, Finished
  <2>3. ~ Used(buffer_counter) BY <1>1, <2>1, <2>2, FlowNumbers DEF Used
  <2> QED BY <1>2, <2>3 DEF QueueInv, SlotsOK
<1>4. Written' = Written BY <1>1 DEF Written, Finished
<1>5. ContentsOK' BY <1>1, <1>2, <1>3, <1>4, BeginContents
<1>6. CardOK' BY <1>1 DEF DeliveryInv, CardOK, CardIdle
<1>7. FlowOK'
  <2> SUFFICES ASSUME OnTrack' PROVE FlowOK' BY DEF FlowOK
  <2>1. /\ OnTrack /\ Delivered' = Delivered
        /\ \A i \in 1 .. Len(inflight') : slot'[inflight'[i]].buf = Delivered' + (i - 1)
    BY <1>1, <1>2, <1>3, BeginTrack DEF DeliveryInv
  <2>2. InCard' = InCard BY <1>1 DEF InCard
  <2> QED BY <1>1, <2>1, <2>2 DEF DeliveryInv, FlowOK
<1>8. GoodDataOnSuccess' BY <1>1 DEF GoodDataOnSuccess
<1>9. ReturnOK' BY <1>1 DEF ReturnOK
<1> QED BY <1>5, <1>6, <1>7, <1>8, <1>9 DEF DeliveryInv

LEMMA SendBulkDelivers ==
  ASSUME HostAssumption, QueueInv, DeliveryInv, SendBulk PROVE DeliveryInv'
<1>1. /\ pc = "begin" /\ pc' = IF status THEN "wait" ELSE "abort"
      /\ UNCHANGED <<transfer_count, transfer_ctr, buffer_counter, q_ctr, status, clean,
                     inBuf, slot, inflight, card, reply>>
      /\ \/ mailbox' = [next |-> 0, of |-> transfer_count, stale |-> FALSE]
         \/ mailbox' = mailbox
  BY DEF SendBulk, readVars
<1>2. transfer_ctr = transfer_count /\ transfer_count > 0
  BY <1>1 DEF QueueInv, CountersOK
<1>3. clean => mailbox = NoReply /\ reply = NoReply /\ card = <<>>
  BY <1>1 DEF DeliveryInv, CardOK, CardIdle
<1>4. CardOK'
  <2>1. NoReply.next = 0 BY DEF NoReply
  <2> QED BY <1>1, <1>3, <2>1 DEF CardOK
<1>5. ASSUME OnTrack'
      PROVE  /\ OnTrack /\ Delivered' = Delivered /\ Delivered = 0 /\ Written' = 0
             /\ InCard' \in {0, transfer_count} /\ pc' = "wait"
             /\ Len(card) = 0 /\ card' = card
  <2>1. OnTrack BY <1>1, <1>5 DEF OnTrack
  <2>2. Delivered' = Delivered BY <1>1 DEF Delivered
  <2>3. Delivered = 0 BY <1>1, <2>1 DEF DeliveryInv, FlowOK
  <2>4. Written' = 0 BY <1>1, <1>2, FlowNumbers DEF Written, Finished
  <2>5. Len(card) = 0 BY <1>3, <2>1 DEF OnTrack
  <2>6. reply.of - reply.next = 0 BY <1>3, <2>1 DEF OnTrack, NoReply
  <2>7. mailbox'.of - mailbox'.next \in {0, transfer_count}
    <3>1. CASE mailbox' = mailbox BY <1>3, <2>1, <3>1 DEF OnTrack, NoReply
    <3>2. CASE mailbox' = [next |-> 0, of |-> transfer_count, stale |-> FALSE]
      BY <3>2, FlowNumbers
    <3> QED BY <1>1, <3>1, <3>2
  <2>8. InCard' \in {0, transfer_count}
    <3>1. PICK m \in {0, transfer_count} : mailbox'.of - mailbox'.next = m BY <2>7
    <3>2. Len(card') = 0 /\ reply'.of - reply'.next = 0 BY <1>1, <2>5, <2>6
    <3>3. InCard' = 0 + 0 + m BY <3>1, <3>2 DEF InCard
    <3> QED BY <3>3, FlowNumbers
  <2>9. pc' = "wait" BY <1>1, <2>1 DEF OnTrack
  <2> QED BY <1>1, <2>1, <2>2, <2>3, <2>4, <2>5, <2>8, <2>9
<1>6. FlowOK'
  <2> SUFFICES ASSUME OnTrack' PROVE FlowOK' BY DEF FlowOK
  <2>1. \A i \in 1 .. Len(inflight) : slot[inflight[i]].buf = Delivered + (i - 1)
    BY <1>5 DEF DeliveryInv, FlowOK
  <2>2. Delivered' + InCard' <= transfer_count' BY <1>1, <1>5, FlowNumbers
  <2> QED BY <1>1, <1>5, <2>1, <2>2 DEF FlowOK
<1>7. ContentsOK'
  <2> SUFFICES ASSUME OnTrack'
               PROVE  /\ \A i \in 1 .. Len(card') : FALSE
                      /\ \A s \in Slots : ~ (slot'[s].state # "none" /\ slot'[s].buf < Delivered')
                      /\ \A i \in 0 .. Written' - 1 : FALSE
    BY DEF ContentsOK
  <2>1. ASSUME NEW s \in Slots PROVE ~ (slot'[s].buf < Delivered')
    <3>1. slot[s].buf \in Nat BY DEF QueueInv, DataOK, Reads
    <3> QED BY <1>1, <1>5, <3>1
  <2> QED BY <1>5, <2>1
<1>8. GoodDataOnSuccess' BY <1>1 DEF GoodDataOnSuccess
<1>9. ReturnOK' BY <1>1 DEF ReturnOK
<1> QED BY <1>4, <1>6, <1>7, <1>8, <1>9 DEF DeliveryInv

LEMMA WaitDelivers ==
  ASSUME HostAssumption, QueueInv, DeliveryInv, WaitForXfer PROVE DeliveryInv'
<1>1. /\ pc = "wait" /\ pc' = "finish"
      /\ UNCHANGED <<transfer_count, transfer_ctr, buffer_counter, q_ctr, status, clean,
                     inBuf, slot, inflight, card, reply, mailbox>>
  BY DEF WaitForXfer, readVars, cardVars
<1>2. OnTrack' <=> OnTrack BY <1>1 DEF OnTrack
<1>3. Delivered' = Delivered /\ InCard' = InCard /\ Written' = Written
  BY <1>1 DEF Delivered, InCard, Written, Finished
<1>4. CardOK' BY <1>1 DEF DeliveryInv, CardOK
<1>5. FlowOK' BY <1>1, <1>2, <1>3 DEF DeliveryInv, FlowOK
<1>6. ContentsOK' BY <1>1, <1>2, <1>3 DEF DeliveryInv, ContentsOK, Chunk
<1>7. GoodDataOnSuccess' BY <1>1 DEF GoodDataOnSuccess
<1>8. ReturnOK' BY <1>1 DEF ReturnOK
<1> QED BY <1>4, <1>5, <1>6, <1>7, <1>8 DEF DeliveryInv

LEMMA TimeOutDelivers ==
  ASSUME HostAssumption, QueueInv, DeliveryInv, WaitTimesOut PROVE DeliveryInv'
<1>1. /\ pc = "wait" /\ pc' = "finish" /\ status' = FALSE
      /\ UNCHANGED <<transfer_count, clean, card, reply, mailbox>>
  BY DEF WaitTimesOut, cardVars
<1>2. CardOK' BY <1>1 DEF DeliveryInv, CardOK
<1>3. FlowOK' /\ ContentsOK' BY <1>1 DEF FlowOK, ContentsOK, OnTrack
<1>4. GoodDataOnSuccess' BY <1>1 DEF GoodDataOnSuccess
<1>5. ReturnOK' BY <1>1 DEF ReturnOK
<1> QED BY <1>2, <1>3, <1>4, <1>5 DEF DeliveryInv

\* The read of the slot in turn ends in the first buffer that is not filled.
LEMMA FinishDelivers ==
  ASSUME HostAssumption, XferMode = "direct", QueueInv, DeliveryInv, FinishDataXfer
  PROVE  DeliveryInv'
<1>1. /\ pc = "finish" /\ pc' = "next" /\ slot' = [slot EXCEPT ![q_ctr] = NoRead]
      /\ UNCHANGED <<transfer_count, transfer_ctr, buffer_counter, q_ctr, clean,
                     inflight, card, reply, mailbox>>
      /\ status' = (status /\ slot[q_ctr].state = "done")
  BY DEF FinishDataXfer, cardVars
<1>2. q_ctr \in Slots /\ slot \in [Slots -> Reads] BY DEF QueueInv, CountersOK, DataOK
<1>3. Delivered' = Delivered /\ InCard' = InCard BY <1>1 DEF Delivered, InCard
<1>4. ASSUME OnTrack' PROVE OnTrack /\ slot[q_ctr].state = "done"
  <2>1. status' /\ clean' /\ \A s \in Slots : slot'[s].state # "failed" BY <1>4 DEF OnTrack
  <2>2. status /\ slot[q_ctr].state = "done" BY <1>1, <2>1
  <2>3. \A s \in Slots : slot[s].state # "failed" BY <1>1, <1>2, <2>1, <2>2
  <2> QED BY <1>1, <2>1, <2>2, <2>3 DEF OnTrack
<1>5. CardOK' BY <1>1 DEF DeliveryInv, CardOK
<1>6. ASSUME NEW i \in 1 .. Len(inflight) PROVE slot'[inflight[i]] = slot[inflight[i]]
  <2>1. inflight[i] \in Slots /\ slot[inflight[i]].state = "pending"
    BY DEF QueueInv, DataOK, SlotsOK
  <2>2. inflight[i] # q_ctr BY <1>1, <2>1 DEF QueueInv, SlotsOK
  <2> QED BY <1>1, <1>2, <2>1, <2>2
<1>7. FlowOK'
  <2> SUFFICES ASSUME OnTrack' PROVE FlowOK' BY DEF FlowOK
  <2>1. OnTrack BY <1>4
  <2>2. \A i \in 1 .. Len(inflight') : slot'[inflight'[i]].buf = Delivered' + (i - 1)
    BY <1>1, <1>3, <1>6, <2>1 DEF DeliveryInv, FlowOK
  <2> QED BY <1>1, <1>3, <2>1, <2>2 DEF DeliveryInv, FlowOK
<1>8. ContentsOK'
  <2> SUFFICES ASSUME OnTrack', Delivered' + InCard' = transfer_count'
               PROVE  /\ \A i \in 1 .. Len(card') : card'[i] = Chunk(Delivered' + (i - 1))
                      /\ \A s \in Slots : slot'[s].state # "none" /\ slot'[s].buf < Delivered' =>
                                           slot'[s].data = Chunk(slot'[s].buf)
                      /\ \A i \in 0 .. Written' - 1 : inBuf'[i] = Chunk(i)
    BY DEF ContentsOK, Chunk
  <2>1. OnTrack /\ slot[q_ctr].state = "done" /\ Delivered + InCard = transfer_count
    BY <1>1, <1>3, <1>4
  <2>2. /\ \A i \in 1 .. Len(card) : card[i] = Chunk(Delivered + (i - 1))
        /\ \A s \in Slots : slot[s].state # "none" /\ slot[s].buf < Delivered =>
                             slot[s].data = Chunk(slot[s].buf)
        /\ \A i \in 0 .. Written - 1 : inBuf[i] = Chunk(i)
    BY <2>1 DEF DeliveryInv, ContentsOK
  <2>3. ASSUME NEW s \in Slots, slot'[s].state # "none", slot'[s].buf < Delivered'
        PROVE  slot'[s].data = Chunk(slot'[s].buf)
    <3>1. NoRead.state = "none" BY DEF NoRead
    <3>2. slot'[s] = slot[s] BY <1>1, <1>2, <2>3, <3>1
    <3> QED BY <1>3, <2>2, <2>3, <3>2
  <2>4. /\ Finished \in Nat /\ Off(q_ctr, q_ctr) = 0 /\ Used(q_ctr)
        /\ slot[q_ctr].buf = Finished
    <3>1. Finished \in Nat BY FlowNumbers
    <3>2. Off(q_ctr, q_ctr) = 0 BY <1>2, OffOrder
    <3>3. Used(q_ctr) BY <1>1, <3>2 DEF QueueInv, CountersOK, Used, HostAssumption
    <3>4. slot[q_ctr].buf = Finished BY <1>2, <3>1, <3>2, <3>3 DEF QueueInv, SlotsOK
    <3> QED BY <3>1, <3>2, <3>3, <3>4
  <2>5. slot[q_ctr].data = Chunk(Finished)
    <3>1. ~ (slot[q_ctr].buf >= Delivered)
      BY <1>1, <1>2, <2>1, <2>4, UnansweredPending DEF DeliveryInv
    <3>2. slot[q_ctr].buf < Delivered BY <2>4, <3>1, FlowNumbers
    <3> QED BY <1>2, <2>1, <2>2, <2>4, <3>2
  <2>6. inBuf' = [inBuf EXCEPT ![Finished] = Chunk(Finished)]
    BY <2>1, <2>4, <2>5 DEF FinishDataXfer
  <2>7. inBuf \in [Buffers -> Chunks \cup {Garbage}] /\ Finished \in Buffers
    <3>1. Finished < transfer_count
      BY <1>1, FlowNumbers DEF QueueInv, CountersOK, Finished
    <3>2. transfer_count <= MaxTransfers BY DEF QueueInv, CountersOK, HostAssumption
    <3> QED BY <2>4, <3>1, <3>2, FlowNumbers DEF QueueInv, DataOK, Buffers, HostAssumption
  <2>8. Written = Finished /\ Written' = Finished + 1
    BY <1>1, <2>4 DEF Written, Finished
  <2>9. ASSUME NEW i \in 0 .. Written' - 1 PROVE inBuf'[i] = Chunk(i)
    <3>1. i \in Buffers
      BY <2>4, <2>7, <2>8 DEF Buffers, HostAssumption
    <3>2. i = Finished \/ i \in 0 .. Written - 1 BY <2>4, <2>8
    <3> QED BY <2>2, <2>6, <2>7, <3>1, <3>2
  <2> QED BY <1>1, <1>3, <2>2, <2>3, <2>9
<1>9. GoodDataOnSuccess' BY <1>1 DEF GoodDataOnSuccess
<1>10. ReturnOK' BY <1>1 DEF ReturnOK
<1> QED BY <1>5, <1>7, <1>8, <1>9, <1>10 DEF DeliveryInv

LEMMA NextReadDelivers ==
  ASSUME HostAssumption, QueueInv, DeliveryInv, NextRead PROVE DeliveryInv'
<1> DEFINE More == buffer_counter < transfer_count
<1>1. /\ pc = "next" /\ pc' = IF LoopEnds THEN "abort" ELSE "wait"
      /\ transfer_ctr' = transfer_ctr - 1
      /\ UNCHANGED <<transfer_count, inBuf, mailbox, reply, card, clean>>
      /\ IF More THEN BeginDataXfer(q_ctr, buffer_counter) /\ buffer_counter' = buffer_counter + 1
         ELSE UNCHANGED <<slot, inflight, status, faults, buffer_counter>>
  BY DEF NextRead, cardVars
<1>2. q_ctr \in Slots /\ pc' # "ready" /\ pc' # "begin" /\ pc' # "next"
  BY <1>1 DEF QueueInv, CountersOK
<1>3. slot[q_ctr] = NoRead
  <2>1. Off(q_ctr, q_ctr) = 0 BY <1>2, OffOrder
  <2>2. ~ Used(q_ctr) BY <1>1, <2>1 DEF Used
  <2> QED BY <1>2, <2>2 DEF QueueInv, SlotsOK
<1>4. Written' = Written
  BY <1>1, <1>2, FlowNumbers DEF Written, Finished
<1>5. InCard' = InCard BY <1>1 DEF InCard
<1>6. ASSUME ~ More
      PROVE  /\ OnTrack' <=> OnTrack
             /\ Delivered' = Delivered /\ inflight' = inflight /\ slot' = slot
  BY <1>1, <1>2, <1>6 DEF OnTrack, Delivered
<1>7. CardOK' BY <1>1, <1>2 DEF DeliveryInv, CardOK
<1>8. FlowOK'
  <2> SUFFICES ASSUME OnTrack' PROVE FlowOK' BY DEF FlowOK
  <2>1. /\ OnTrack /\ Delivered' = Delivered
        /\ \A i \in 1 .. Len(inflight') : slot'[inflight'[i]].buf = Delivered' + (i - 1)
    <3>1. CASE More BY <1>1, <1>2, <1>3, <3>1, BeginTrack DEF DeliveryInv
    <3>2. CASE ~ More BY <1>6, <3>2 DEF DeliveryInv, FlowOK
    <3> QED BY <3>1, <3>2
  <2> QED BY <1>1, <1>2, <1>5, <2>1 DEF DeliveryInv, FlowOK
<1>9. ContentsOK'
  <2>1. CASE More BY <1>1, <1>2, <1>3, <1>4, <2>1, BeginContents
  <2>2. CASE ~ More BY <1>1, <1>4, <1>5, <1>6, <2>2 DEF DeliveryInv, ContentsOK, Chunk
  <2> QED BY <2>1, <2>2
<1>10. GoodDataOnSuccess' BY <1>2 DEF GoodDataOnSuccess
<1>11. ReturnOK' BY <1>1, FlowNumbers
  DEF LoopEnds, ReturnOK, QueueInv, CountersOK
<1> QED BY <1>7, <1>8, <1>9, <1>10, <1>11 DEF DeliveryInv

\* A call that has gone well to its end has emptied the card.
LEMMA AbortDelivers ==
  ASSUME HostAssumption, QueueInv, DeliveryInv, AbortAndReturn PROVE DeliveryInv'
<1>1. /\ pc = "abort" /\ pc' = "ready"
      /\ UNCHANGED <<transfer_count, status, inBuf, mailbox, reply, card, clean>>
  BY DEF AbortAndReturn, cardVars
<1>2. CardOK' /\ FlowOK' /\ ContentsOK' /\ ReturnOK'
  BY <1>1 DEF CardOK, FlowOK, ContentsOK, OnTrack, ReturnOK
<1>3. ASSUME status, clean
      PROVE  /\ \A i \in 0 .. transfer_count - 1 : inBuf[i] = Chunk(i)
             /\ CardIdle
  <2>1. transfer_ctr = 0 /\ transfer_count > 0
    BY <1>1, <1>3 DEF DeliveryInv, ReturnOK
  <2>2. Outstanding = 0 /\ Finished = transfer_count
    BY <1>1, <2>1, FlowNumbers DEF QueueInv, CountersOK, Finished
  <2>3. buffer_counter = transfer_count BY <2>2, FlowNumbers DEF Outstanding
  <2>4. ASSUME NEW s \in Slots PROVE ~ Used(s)
    <3>1. q_ctr \in Slots BY DEF QueueInv, CountersOK
    <3>2. Off(s, q_ctr) \in 0 .. QueueSize - 1 BY <3>1, OffOrder
    <3> QED BY <2>2, <3>2 DEF Used, HostAssumption
  <2>5. OnTrack
    <3>1. NoRead.state # "failed" BY DEF NoRead
    <3> QED BY <1>1, <1>3, <2>4, <3>1 DEF OnTrack, QueueInv, SlotsOK
  <2>6. Len(inflight) = 0
    <3>1. ASSUME NEW i \in 1 .. Len(inflight) PROVE FALSE BY <2>4, InflightUsed
    <3> QED BY <3>1, FlowNumbers
  <2>7. Delivered = transfer_count BY <2>3, <2>6, FlowNumbers DEF Delivered
  <2>8. InCard = 0 BY <2>5, <2>7, FlowNumbers DEF DeliveryInv, FlowOK
  <2>9. Written = transfer_count BY <1>1, <2>2, FlowNumbers DEF Written
  <2>10. \A i \in 0 .. transfer_count - 1 : inBuf[i] = Chunk(i)
    <3>1. Delivered + InCard = transfer_count BY <2>7, <2>8, FlowNumbers
    <3> QED BY <2>5, <2>9, <3>1 DEF DeliveryInv, ContentsOK
  <2>11. Len(card) = 0 /\ reply = NoReply /\ mailbox = NoReply
    <3>1. PICK a \in Nat, b \in Nat, c \in Nat :
            /\ Len(card) = a /\ reply.of - reply.next = b /\ mailbox.of - mailbox.next = c
            /\ reply # NoReply => b > 0
            /\ mailbox # NoReply => c > 0
            /\ InCard = (a + b) + c
      BY InCardParts
    <3>2. (a + b) + c = 0 BY <2>8, <3>1
    <3> QED BY <3>1, <3>2
  <2>12. card = <<>> BY <2>11 DEF QueueInv, DataOK
  <2> QED BY <2>10, <2>11, <2>12 DEF CardIdle
<1>4. GoodDataOnSuccess'
  <2> SUFFICES ASSUME status', clean'
               PROVE  /\ \A i \in 0 .. transfer_count' - 1 :
                            inBuf'[i] = [no |-> i, stale |-> FALSE]
                      /\ CardIdle'
    BY DEF GoodDataOnSuccess
  <2>1. \A i \in 0 .. transfer_count - 1 : inBuf[i] = [no |-> i, stale |-> FALSE]
    BY <1>1, <1>3 DEF Chunk
  <2>2. CardIdle' BY <1>1, <1>3 DEF CardIdle
  <2> QED BY <1>1, <2>1, <2>2
<1> QED BY <1>2, <1>4 DEF DeliveryInv

-----------------------------------------------------------------------------
(* The data, when the driver or the card takes a step. *)

\* Between two calls, and before the request, a clean card does nothing.
LEMMA IdleDoesNothing ==
  ASSUME CardIdle PROVE ~ Accept /\ ~ Produce /\ ~ Complete
<1>1. ~ Accept /\ ~ Complete BY DEF Accept, Complete, CardIdle
<1>2. ~ Produce BY DEF Produce, CardIdle, NoReply
<1> QED BY <1>1, <1>2

\* The driver holds no read between two calls.
LEMMA NoReadBetween ==
  ASSUME HostAssumption, QueueInv, pc = "ready" PROVE inflight = <<>>
<1>1. ASSUME NEW i \in 1 .. Len(inflight) PROVE FALSE BY InflightUsed DEF Used
<1>2. Len(inflight) = 0 BY <1>1, FlowNumbers
<1> QED BY <1>2 DEF QueueInv, DataOK

LEMMA DeviceCall ==
  ASSUME HostAssumption, QueueInv, DeliveryInv, Complete \/ Accept \/ Produce \/ Fail
  PROVE  /\ UNCHANGED <<loopVars, inBuf, clean>>
         /\ GoodDataOnSuccess' /\ ReturnOK'
<1>1. UNCHANGED <<loopVars, inBuf, clean>>
  BY DEF Complete, Accept, Produce, Fail, readVars
<1>2. ReturnOK' BY <1>1 DEF loopVars, DeliveryInv, ReturnOK
<1>3. GoodDataOnSuccess'
  <2> SUFFICES ASSUME pc' = "ready", status', clean' PROVE FALSE
    BY DEF GoodDataOnSuccess
  <2>1. pc = "ready" /\ status /\ clean BY <1>1 DEF loopVars
  <2>2. CardIdle BY <2>1 DEF DeliveryInv, GoodDataOnSuccess
  <2>3. inflight = <<>> BY <2>1, NoReadBetween
  <2> QED BY <2>2, <2>3, IdleDoesNothing DEF Fail
<1> QED BY <1>1, <1>2, <1>3

LEMMA FailDelivers ==
  ASSUME HostAssumption, QueueInv, DeliveryInv, Fail PROVE DeliveryInv'
<1>1. UNCHANGED <<loopVars, inBuf, clean>> /\ GoodDataOnSuccess' /\ ReturnOK'
  BY DeviceCall
<1>2. slot \in [Slots -> Reads] /\ Head(inflight) \in Slots /\ UNCHANGED cardVars
  BY DEF Fail, QueueInv, DataOK
<1>3. slot'[Head(inflight)].state = "failed" BY <1>2 DEF Fail, Reads
<1>4. ~ OnTrack' BY <1>2, <1>3 DEF OnTrack
<1>5. CardOK' BY <1>1, <1>2 DEF DeliveryInv, CardOK, CardIdle, loopVars, cardVars
<1> QED BY <1>1, <1>4, <1>5 DEF DeliveryInv, FlowOK, ContentsOK

LEMMA CompleteDelivers ==
  ASSUME HostAssumption, QueueInv, DeliveryInv, Complete PROVE DeliveryInv'
<1> DEFINE h == Head(inflight)
<1>1. UNCHANGED <<loopVars, inBuf, clean>> /\ GoodDataOnSuccess' /\ ReturnOK'
  BY DeviceCall
<1>2. /\ slot \in [Slots -> Reads] /\ inflight \in Seq(Slots) /\ card \in Seq(Chunks)
      /\ inflight # <<>> /\ card # <<>> /\ inflight' = Tail(inflight) /\ card' = Tail(card)
      /\ reply' = reply /\ mailbox' = mailbox
  BY DEF Complete, QueueInv, DataOK
<1>3. /\ h \in Slots /\ h = inflight[1] /\ Head(card) = card[1]
      /\ 1 \in 1 .. Len(inflight) /\ 1 \in 1 .. Len(card)
      /\ Len(inflight') = Len(inflight) - 1 /\ Len(card') = Len(card) - 1
      /\ \A i \in 1 .. Len(inflight') : i + 1 \in 1 .. Len(inflight)
                                        /\ inflight'[i] = inflight[i + 1]
      /\ \A i \in 1 .. Len(card') : i + 1 \in 1 .. Len(card) /\ card'[i] = card[i + 1]
  BY <1>2
<1>4. /\ slot'[h].state = "done" /\ slot'[h].buf = slot[h].buf
      /\ slot'[h].data = Head(card)
      /\ \A s \in Slots : s # h => slot'[s] = slot[s]
  BY <1>2, <1>3 DEF Complete, Reads
<1>5. slot[h].state = "pending" BY <1>3 DEF QueueInv, SlotsOK
<1> HIDE DEF h
<1>6. OnTrack' => OnTrack
  <2> SUFFICES ASSUME OnTrack' PROVE OnTrack OBVIOUS
  <2>1. \A s \in Slots : slot[s].state # "failed" BY <1>4, <1>5 DEF OnTrack
  <2> QED BY <1>1, <2>1 DEF OnTrack, loopVars
<1>7. Delivered' = Delivered + 1
  BY <1>1, <1>3, FlowNumbers DEF Delivered, loopVars
<1>8. InCard' = InCard - 1
  <2>1. PICK a \in Nat, b \in Nat, c \in Nat :
          /\ Len(card) = a /\ reply.of - reply.next = b /\ mailbox.of - mailbox.next = c
          /\ InCard = (a + b) + c
    BY InCardParts
  <2>3. Len(card') = a - 1 /\ reply'.of - reply'.next = b /\ mailbox'.of - mailbox'.next = c
    BY <1>2, <1>3, <2>1
  <2>4. InCard' = ((a - 1) + b) + c BY <2>3 DEF InCard
  <2> QED BY <2>1, <2>4
<1>9. Delivered' + InCard' = Delivered + InCard BY <1>7, <1>8, FlowNumbers
<1>10. CardOK'
  <2>1. pc = "begin" /\ clean => FALSE BY <1>2 DEF DeliveryInv, CardOK, CardIdle
  <2> QED BY <1>1, <1>2, <2>1 DEF DeliveryInv, CardOK, loopVars
<1>11. ASSUME NEW i \in 1 .. Len(inflight')
       PROVE  inflight'[i] \in Slots /\ inflight'[i] # h
  <2>1. i + 1 \in 1 .. Len(inflight) /\ inflight'[i] = inflight[i + 1] /\ 1 < i + 1
    BY <1>2, <1>3
  <2>2. inflight[i + 1] \in Slots BY <1>2, <2>1
  <2>3. Off(inflight[1], q_ctr) < Off(inflight[i + 1], q_ctr)
    BY <1>3, <2>1 DEF QueueInv, SlotsOK
  <2>4. Off(h, q_ctr) \in 0 .. QueueSize - 1
    BY <1>3, OffOrder DEF QueueInv, CountersOK
  <2>5. inflight[i + 1] # h
    <3> SUFFICES ASSUME inflight[i + 1] = h PROVE FALSE OBVIOUS
    <3>1. Off(h, q_ctr) < Off(h, q_ctr) BY <1>3, <2>3
    <3> QED BY <2>4, <3>1 DEF HostAssumption
  <2> QED BY <2>1, <2>2, <2>5
<1>12. FlowOK'
  <2> SUFFICES ASSUME OnTrack' PROVE FlowOK' BY DEF FlowOK
  <2>1. OnTrack BY <1>6
  <2>2. pc' = "begin" => FALSE
    BY <1>1, <1>2, <2>1 DEF DeliveryInv, CardOK, CardIdle, OnTrack, loopVars
  <2>3. ASSUME NEW i \in 1 .. Len(inflight')
        PROVE  slot'[inflight'[i]].buf = Delivered' + (i - 1)
    <3>1. slot'[inflight'[i]] = slot[inflight[i + 1]] BY <1>3, <1>4, <1>11
    <3>2. slot[inflight[i + 1]].buf = Delivered + ((i + 1) - 1)
      BY <1>3, <2>1 DEF DeliveryInv, FlowOK
    <3>3. i \in Nat BY <1>2, <1>3
    <3>4. Delivered + ((i + 1) - 1) = (Delivered + 1) + (i - 1) BY <3>3, FlowNumbers
    <3> QED BY <1>7, <3>1, <3>2, <3>4
  <2>4. Delivered' + InCard' <= transfer_count'
    BY <1>1, <1>9, <2>1 DEF DeliveryInv, FlowOK, loopVars
  <2> QED BY <2>2, <2>3, <2>4 DEF FlowOK
<1>13. ContentsOK'
  <2> SUFFICES ASSUME OnTrack', Delivered' + InCard' = transfer_count'
               PROVE  /\ \A i \in 1 .. Len(card') : card'[i] = Chunk(Delivered' + (i - 1))
                      /\ \A s \in Slots : slot'[s].state # "none" /\ slot'[s].buf < Delivered' =>
                                           slot'[s].data = Chunk(slot'[s].buf)
                      /\ \A i \in 0 .. Written' - 1 : inBuf'[i] = Chunk(i)
    BY DEF ContentsOK, Chunk
  <2>1. OnTrack /\ Delivered + InCard = transfer_count
    BY <1>1, <1>6, <1>9 DEF loopVars
  <2>2. /\ \A i \in 1 .. Len(card) : card[i] = Chunk(Delivered + (i - 1))
        /\ \A s \in Slots : slot[s].state # "none" /\ slot[s].buf < Delivered =>
                             slot[s].data = Chunk(slot[s].buf)
        /\ \A i \in 0 .. Written - 1 : inBuf[i] = Chunk(i)
    BY <2>1 DEF DeliveryInv, ContentsOK
  <2>3. ASSUME NEW i \in 1 .. Len(card') PROVE card'[i] = Chunk(Delivered' + (i - 1))
    <3>1. card'[i] = Chunk(Delivered + ((i + 1) - 1)) BY <1>3, <2>2
    <3>2. i \in Nat BY <1>2, <1>3
    <3>3. Delivered + ((i + 1) - 1) = (Delivered + 1) + (i - 1) BY <3>2, FlowNumbers
    <3> QED BY <1>7, <3>1, <3>3
  <2>4. slot[h].buf = Delivered
    <3>1. slot[h].buf = Delivered + (1 - 1) BY <1>3, <2>1 DEF DeliveryInv, FlowOK
    <3> QED BY <3>1, FlowNumbers
  <2>5. slot'[h].data = Chunk(Delivered)
    <3>1. card[1] = Chunk(Delivered + (1 - 1)) BY <1>3, <2>2
    <3>2. Delivered + (1 - 1) = Delivered BY FlowNumbers
    <3> QED BY <1>3, <1>4, <3>1, <3>2
  <2>6. ASSUME NEW s \in Slots, slot'[s].state # "none", slot'[s].buf < Delivered'
        PROVE  slot'[s].data = Chunk(slot'[s].buf)
    <3>1. CASE s = h BY <1>4, <2>4, <2>5, <3>1
    <3>2. CASE s # h
      <4>1. slot'[s] = slot[s] BY <1>4, <3>2
      <4>2. slot[s].buf \in Nat BY <1>2 DEF Reads
      <4>3. slot[s].buf # Delivered
        <5> SUFFICES ASSUME slot[s].buf = Delivered PROVE FALSE OBVIOUS
        <5>1. Used(s) /\ Used(h)
          <6>1. NoRead.state = "none" BY DEF NoRead
          <6> QED BY <1>3, <1>5, <2>6, <4>1, <6>1 DEF QueueInv, SlotsOK
        <5>2. s = h BY <1>3, <2>4, <5>1, BuffersDiffer
        <5> QED BY <3>2, <5>2
      <4>4. slot[s].buf < Delivered BY <1>7, <2>6, <4>1, <4>2, <4>3, FlowNumbers
      <4> QED BY <2>2, <2>6, <4>1, <4>4
    <3> QED BY <3>1, <3>2
  <2>7. Written' = Written BY <1>1 DEF Written, Finished, loopVars
  <2> QED BY <1>1, <2>2, <2>3, <2>6, <2>7
<1> QED BY <1>1, <1>10, <1>12, <1>13 DEF DeliveryInv

\* The request becomes the reply.
LEMMA AcceptDelivers ==
  ASSUME HostAssumption, QueueInv, DeliveryInv, Accept PROVE DeliveryInv'
<1>1. UNCHANGED <<loopVars, inBuf, clean>> /\ GoodDataOnSuccess' /\ ReturnOK'
  BY DeviceCall
<1>2. /\ mailbox # NoReply /\ reply = NoReply /\ reply' = mailbox /\ mailbox' = NoReply
      /\ UNCHANGED <<slot, inflight, card>>
  BY DEF Accept, readVars
<1>3. /\ OnTrack' <=> OnTrack
      /\ Delivered' = Delivered /\ Written' = Written
  BY <1>1, <1>2 DEF OnTrack, loopVars, Delivered, Written, Finished
<1>4. InCard' = InCard
  <2>1. PICK a \in Nat, b \in Nat, c \in Nat :
          /\ Len(card) = a /\ reply.of - reply.next = b /\ mailbox.of - mailbox.next = c
          /\ InCard = (a + b) + c
    BY InCardParts
  <2>2. b = 0 BY <1>2, <2>1 DEF NoReply
  <2>3. mailbox'.of - mailbox'.next = 0 BY <1>2 DEF NoReply
  <2>4. reply'.of - reply'.next = c /\ Len(card') = a BY <1>2, <2>1
  <2>5. InCard' = (a + c) + 0 BY <2>3, <2>4 DEF InCard
  <2> QED BY <2>1, <2>2, <2>5
<1>5. CardOK'
  <2>1. NoReply.next = 0 BY DEF NoReply
  <2>2. ~ CardIdle BY <1>2 DEF CardIdle
  <2> QED BY <1>1, <1>2, <2>1, <2>2 DEF DeliveryInv, CardOK, loopVars
<1>6. FlowOK' BY <1>1, <1>2, <1>3, <1>4 DEF DeliveryInv, FlowOK, loopVars
<1>7. ContentsOK' BY <1>1, <1>2, <1>3, <1>4 DEF DeliveryInv, ContentsOK, Chunk, loopVars
<1> QED BY <1>1, <1>5, <1>6, <1>7 DEF DeliveryInv

\* A chunk of the reply goes to the end of the card's queue, or is lost.
LEMMA ProduceDelivers ==
  ASSUME HostAssumption, QueueInv, DeliveryInv, Produce PROVE DeliveryInv'
<1>1. UNCHANGED <<loopVars, inBuf, clean>> /\ GoodDataOnSuccess' /\ ReturnOK'
  BY DeviceCall
<1>2. /\ reply.next < reply.of /\ reply # NoReply
      /\ UNCHANGED <<slot, inflight, mailbox>>
      /\ \/ card' = Append(card, [no |-> reply.next, stale |-> reply.stale])
         \/ card' = card
  BY DEF Produce, readVars, NoReply
<1>3. /\ OnTrack' <=> OnTrack
      /\ Delivered' = Delivered /\ Written' = Written
  BY <1>1, <1>2 DEF OnTrack, loopVars, Delivered, Written, Finished
<1>4. reply \in [next : Nat, of : 0 .. MaxTransfers, stale : BOOLEAN] /\ card \in Seq(Chunks)
  BY <1>2 DEF QueueInv, DataOK, Replies
<1>5. PICK n \in Nat, o \in Nat : reply.next = n /\ reply.of = o BY FlowNumbers
<1>6. /\ reply' = NoReply \/ reply' = [reply EXCEPT !.next = n + 1]
      /\ n + 1 = o => reply' = NoReply
      /\ n + 1 # o => reply' = [reply EXCEPT !.next = n + 1]
  BY <1>5 DEF Produce
<1>7. reply'.of - reply'.next = (o - n) - 1
  <2>1. CASE n + 1 = o
    <3>1. reply'.of - reply'.next = 0 - 0 BY <1>6, <2>1 DEF NoReply
    <3> QED BY <2>1, <3>1
  <2>2. CASE n + 1 # o
    <3>1. reply'.of = o /\ reply'.next = n + 1 BY <1>4, <1>5, <1>6, <2>2
    <3> QED BY <3>1
  <2> QED BY <2>1, <2>2
<1>8. reply' # NoReply => reply'.of = reply.of /\ reply'.stale = reply.stale
  BY <1>4, <1>6
<1>9. CardOK'
  <2>1. ~ CardIdle BY <1>2 DEF CardIdle
  <2> QED BY <1>1, <1>2, <1>8, <2>1 DEF DeliveryInv, CardOK, loopVars
<1>10. PICK a \in Nat, c \in Nat :
         /\ Len(card) = a /\ mailbox.of - mailbox.next = c
         /\ InCard = (a + (o - n)) + c
  <2>1. PICK a \in Nat, b \in Nat, c \in Nat :
          /\ Len(card) = a /\ reply.of - reply.next = b /\ mailbox.of - mailbox.next = c
          /\ InCard = (a + b) + c
    BY InCardParts
  <2>2. b = o - n BY <1>5, <2>1
  <2> QED BY <2>1, <2>2
<1>11. CASE card' = card
  <2>1. InCard' = (a + ((o - n) - 1)) + c BY <1>2, <1>7, <1>10, <1>11 DEF InCard
  <2>2. InCard' = InCard - 1 /\ InCard' \in Int BY <1>10, <2>1
  <2>3. OnTrack => Delivered' + InCard' < transfer_count'
    <3>1. OnTrack => Delivered + InCard <= transfer_count BY DEF DeliveryInv, FlowOK
    <3> QED BY <1>1, <1>3, <2>2, <3>1, FlowNumbers DEF loopVars
  <2>4. FlowOK'
    BY <1>1, <1>2, <1>3, <2>2, <2>3, FlowNumbers DEF DeliveryInv, FlowOK, loopVars
  <2>5. ContentsOK' BY <1>1, <1>3, <2>2, <2>3, FlowNumbers DEF ContentsOK, loopVars
  <2> QED BY <1>1, <1>9, <2>4, <2>5 DEF DeliveryInv
<1>12. CASE card' = Append(card, [no |-> reply.next, stale |-> reply.stale])
  <2>1. /\ Len(card') = a + 1 /\ card'[a + 1] = [no |-> reply.next, stale |-> reply.stale]
        /\ \A i \in 1 .. a : card'[i] = card[i]
    BY <1>4, <1>10, <1>12
  <2>2. InCard' = ((a + 1) + ((o - n) - 1)) + c BY <1>2, <1>7, <1>10, <2>1 DEF InCard
  <2>3. InCard' = InCard BY <1>10, <2>2
  <2>4. FlowOK' BY <1>1, <1>2, <1>3, <2>3 DEF DeliveryInv, FlowOK, loopVars
  <2>5. ContentsOK'
    <3> SUFFICES ASSUME OnTrack, Delivered + InCard = transfer_count
                 PROVE  ContentsOK'
      BY <1>1, <1>3, <2>3 DEF ContentsOK, loopVars
    <3>1. /\ \A i \in 1 .. Len(card) : card[i] = Chunk(Delivered + (i - 1))
          /\ \A s \in Slots : slot[s].state # "none" /\ slot[s].buf < Delivered =>
                               slot[s].data = Chunk(slot[s].buf)
          /\ \A i \in 0 .. Written - 1 : inBuf[i] = Chunk(i)
      BY DEF DeliveryInv, ContentsOK
    <3>2. reply.of = transfer_count /\ ~ reply.stale
      BY <1>2 DEF DeliveryInv, CardOK, OnTrack
    <3>3. Delivered + ((a + (o - n)) + c) = o BY <1>5, <1>10, <3>2
    <3>4. n = (Delivered + a) + c
      <4>1. PICK d \in Int : Delivered = d BY FlowNumbers
      <4>2. d + ((a + (o - n)) + c) = o BY <3>3, <4>1
      <4>3. n = (d + a) + c BY <4>2
      <4> QED BY <4>1, <4>3
    <3>5. c = 0
      <4>1. CASE mailbox = NoReply BY <1>10, <4>1 DEF NoReply
      <4>2. CASE mailbox # NoReply
        <5>1. mailbox.of = transfer_count /\ mailbox.next = 0
          BY <4>2 DEF DeliveryInv, CardOK, OnTrack
        <5>2. c = o BY <1>5, <1>10, <3>2, <5>1, FlowNumbers
        <5>3. n < o BY <1>2, <1>5
        <5>4. Delivered >= 0
          <6>1. CASE Len(inflight) = 0 BY <6>1, FlowNumbers DEF Delivered
          <6>2. CASE Len(inflight) # 0
            <7>1. 1 \in 1 .. Len(inflight) BY <6>2, FlowNumbers
            <7>2. slot[inflight[1]].buf = Delivered + (1 - 1)
              BY <7>1 DEF DeliveryInv, FlowOK
            <7>3. inflight[1] \in Slots BY <7>1, InflightUsed
            <7>4. slot[inflight[1]].buf \in Nat BY <7>3 DEF QueueInv, DataOK, Reads
            <7> QED BY <7>2, <7>4, FlowNumbers
          <6> QED BY <6>1, <6>2
        <5> QED BY <3>4, <5>2, <5>3, <5>4, FlowNumbers
      <4> QED BY <4>1, <4>2
    <3>6. card'[a + 1] = Chunk(Delivered + ((a + 1) - 1))
      <4>1. reply.stale = FALSE BY <1>4, <3>2
      <4>2. reply.next = Delivered + ((a + 1) - 1) BY <1>5, <3>4, <3>5, FlowNumbers
      <4> QED BY <2>1, <4>1, <4>2 DEF Chunk
    <3>7. ASSUME NEW i \in 1 .. Len(card') PROVE card'[i] = Chunk(Delivered' + (i - 1))
      <4>1. i \in 1 .. a \/ i = a + 1 BY <2>1
      <4> QED BY <1>3, <1>10, <2>1, <3>1, <3>6, <4>1
    <3> QED BY <1>1, <1>2, <1>3, <3>1, <3>7 DEF ContentsOK, Chunk, loopVars
  <2> QED BY <1>1, <1>9, <2>4, <2>5 DEF DeliveryInv
<1> QED BY <1>2, <1>11, <1>12

\* When the driver writes the buffers directly, the chunks of a reply stay in order from
\* the card to the buffers.
THEOREM DeliveryInvariant == ASSUME XferMode = "direct" PROVE HostSpec => []DeliveryInv
<1>1. HostInit => DeliveryInv
  BY DEF HostInit, DeliveryInv, ReturnOK, CardOK, FlowOK, ContentsOK, OnTrack,
         GoodDataOnSuccess
<1>2. QueueInv /\ DeliveryInv /\ [HostNext]_hostVars => DeliveryInv'
  <2> SUFFICES ASSUME QueueInv, DeliveryInv, [HostNext]_hostVars PROVE DeliveryInv'
    OBVIOUS
  <2>1. CASE HostNext
    BY <2>1, HostAssumption, StartDelivers, BeginDelivers, SendBulkDelivers, WaitDelivers,
       TimeOutDelivers, FinishDelivers, NextReadDelivers, AbortDelivers, CompleteDelivers,
       AcceptDelivers, ProduceDelivers, FailDelivers
       DEF HostNext, Call, Device
  <2>2. CASE UNCHANGED hostVars
    <3>1. UNCHANGED <<pc, transfer_count, transfer_ctr, buffer_counter, q_ctr,
                      status, inBuf, slot, inflight, mailbox, reply, card, clean>>
      BY <2>2 DEF hostVars, loopVars, readVars, cardVars
    <3>2. OnTrack' <=> OnTrack BY <3>1 DEF OnTrack
    <3>3. Delivered' = Delivered /\ InCard' = InCard /\ Written' = Written
      BY <3>1 DEF Delivered, InCard, Written, Finished
    <3>4. ReturnOK' /\ CardOK' BY <3>1 DEF DeliveryInv, ReturnOK, CardOK, CardIdle
    <3>5. FlowOK' BY <3>1, <3>2, <3>3 DEF DeliveryInv, FlowOK
    <3>6. ContentsOK' BY <3>1, <3>2, <3>3 DEF DeliveryInv, ContentsOK, Chunk
    <3>7. GoodDataOnSuccess' BY <3>1 DEF DeliveryInv, GoodDataOnSuccess, CardIdle
    <3> QED BY <3>4, <3>5, <3>6, <3>7 DEF DeliveryInv
  <2> QED BY <2>1, <2>2
<1> QED BY <1>1, <1>2, QueueInvariant, PTL DEF HostSpec

\* A call that returns true, on a card that was clean when it started, has every chunk of
\* its own reply in its place, and leaves the card clean.
THEOREM GoodDataOnSuccessHolds ==
  ASSUME XferMode = "direct" PROVE HostSpec => []GoodDataOnSuccess
<1>1. DeliveryInv => GoodDataOnSuccess BY DEF DeliveryInv
<1> QED BY <1>1, DeliveryInvariant, PTL

-----------------------------------------------------------------------------
(* HostWindow: the lists are flattened sequences. *)

\* Sequences of sequences are flattened to a sequence of their elements.
LEMMA FlattenType ==
  ASSUME NEW S, NEW s \in Seq(Seq(S)) PROVE FlattenSeq(s) \in Seq(S)
<1> DEFINE n == Len(s)
<1>1. n \in Nat /\ \A i \in 1 .. n : s[i] \in Seq(S) OBVIOUS
<1>2. CASE n = 0
  <2>1. s = <<>> BY <1>2
  <2>2. FlattenSeq(s) = <<>> BY <1>2, <2>1 DEF FlattenSeq
  <2> QED BY <2>2
<1>3. CASE n # 0
  <2> DEFINE IsFlat(f) == f = [i \in 1 .. n |-> IF i = 1 THEN s[i] ELSE f[i - 1] \o s[i]]
             flat == CHOOSE f : IsFlat(f)
             m == n - 1
             step == [k \in 1 .. m |-> [q \in Seq(S) |-> q \o s[k + 1]]]
  <2>1. m \in Nat /\ n = m + 1 BY <1>1, <1>3
  <2>2. s[1] \in Seq(S) BY <1>1, <1>3
  <2>3. step \in [1 .. m -> [Seq(S) -> Seq(S)]]
    <3>1. ASSUME NEW k \in 1 .. m, NEW q \in Seq(S) PROVE q \o s[k + 1] \in Seq(S)
      <4>1. k + 1 \in 1 .. n BY <2>1
      <4>2. s[k + 1] \in Seq(S) BY <1>1, <4>1
      <4> QED BY <4>2, ConcatProperties
    <3> HIDE DEF m, n
    <3> QED BY <3>1
  <2>4. PICK f \in [0 .. m -> Seq(S)] :
          f[0] = s[1] /\ \A k \in 1 .. m : f[k] = step[k][f[k - 1]]
    <3>1. step \in StepsOn(Seq(S), m) BY <2>3 DEF StepsOn
    <3> HIDE DEF step, m, n
    <3>2. Runs(Seq(S), m, s[1], step) # {} BY <2>1, <2>2, <3>1, Recursion
    <3> QED BY <3>2 DEF Runs
  <2> DEFINE g == [i \in 1 .. n |-> f[i - 1]]
  <2>5. ASSUME NEW i \in 1 .. n PROVE g[i] = IF i = 1 THEN s[i] ELSE g[i - 1] \o s[i]
    <3>1. CASE i = 1 BY <2>4, <3>1
    <3>2. CASE i # 1
      <4>1. PICK k \in 1 .. m : k = i - 1
        <5>1. i - 1 \in 1 .. m BY <2>1, <3>2
        <5> QED BY <5>1
      <4>2. k + 1 = i /\ k \in 1 .. n /\ k - 1 \in 0 .. m BY <2>1, <4>1
      <4>3. f[k - 1] \in Seq(S) BY <2>4, <4>2
      <4>4. step[k][f[k - 1]] = f[k - 1] \o s[k + 1] BY <4>3
      <4>5. g[i] = f[k] /\ g[k] = f[k - 1] BY <4>1, <4>2
      <4> HIDE DEF g, step, m, n
      <4> QED BY <2>4, <3>2, <4>1, <4>2, <4>4, <4>5
    <3> QED BY <3>1, <3>2
  <2>6. g = [i \in 1 .. n |-> IF i = 1 THEN s[i] ELSE g[i - 1] \o s[i]]
    <3> DEFINE h == [i \in 1 .. n |-> IF i = 1 THEN s[i] ELSE g[i - 1] \o s[i]]
    <3>1. DOMAIN g = 1 .. n /\ g = [i \in DOMAIN g |-> g[i]] OBVIOUS
    <3> HIDE DEF g
    <3>2. DOMAIN h = 1 .. n /\ \A i \in 1 .. n : h[i] = g[i] BY <2>5
    <3>3. h = [i \in 1 .. n |-> g[i]] BY <3>2
    <3> QED BY <3>1, <3>3
  <2>7. \E x : IsFlat(x)
    <3> HIDE DEF g
    <3> QED BY <2>6
  <2>8. IsFlat(flat) BY <2>7, Zenon
  <2>9. FlattenSeq(s) = flat[n]
    <3>1. Len(s) # 0 BY <1>3
    <3> QED BY <3>1, Zenon DEF FlattenSeq, IsFlat
  <2> HIDE DEF flat
  <2>10. \A i \in 1 .. n : flat[i] = IF i = 1 THEN s[i] ELSE flat[i - 1] \o s[i]
    <3> HIDE DEF n
    <3> QED BY <2>8
  <2> DEFINE e == [k \in 0 .. m |-> flat[k + 1]]
  <2>11. e[0] \in Seq(S) BY <2>1, <2>2, <2>10
  <2>12. ASSUME NEW k \in 1 .. m, e[k - 1] \in Seq(S) PROVE e[k] \in Seq(S)
    <3>1. PICK i \in 1 .. n : i = k + 1 /\ i # 1 /\ i - 1 = k
      <4>1. k + 1 \in 1 .. n /\ k + 1 # 1 /\ (k + 1) - 1 = k BY <2>1
      <4> QED BY <4>1
    <3>2. e[k - 1] = flat[k] /\ e[k] = flat[k + 1]
      <4>1. k - 1 \in 0 .. m /\ k \in 0 .. m /\ (k - 1) + 1 = k BY <2>1
      <4> HIDE DEF m
      <4> QED BY <4>1
    <3>3. e[k] = e[k - 1] \o s[i] BY <2>10, <3>1, <3>2
    <3>4. s[i] \in Seq(S) BY <1>1
    <3> HIDE DEF e
    <3> QED BY <2>12, <3>3, <3>4, ConcatProperties
  <2>13. e[m] \in Seq(S)
    <3> HIDE DEF e, m
    <3>1. \A k \in 0 .. m : e[k] \in Seq(S) BY <2>1, <2>11, <2>12, RecursionType
    <3> QED BY <2>1, <3>1
  <2>14. e[m] = flat[n] BY <2>1
  <2> QED BY <2>9, <2>13, <2>14
<1> QED BY <1>2, <1>3

-----------------------------------------------------------------------------
(* HostWindow: what the lists show. *)

\* The entries for the endpoints of one alternate setting.
LEMMA ShownType ==
  ASSUME NEW endpoints \in Seq(Endpoint), NEW alt, NEW in
  PROVE  Shown(endpoints, alt, in) \in
           Seq({[alt |-> alt, address |-> endpoints[k].address] : k \in 1 .. Len(endpoints)})
<1> DEFINE n == Len(endpoints)
           E == {[alt |-> alt, address |-> endpoints[k].address] : k \in 1 .. n}
           More(k) == endpoints[k].bulk /\ endpoints[k].bIn = in
           entry(k) == [alt |-> alt, address |-> endpoints[k].address]
           IsUpTo(f) == f = [k \in 0 .. n |-> IF k = 0 THEN <<>>
                                             ELSE IF More(k) THEN Append(f[k - 1], entry(k))
                                             ELSE f[k - 1]]
           upTo == CHOOSE f : IsUpTo(f)
           step == [k \in 1 .. n |-> [q \in Seq(E) |-> IF More(k) THEN Append(q, entry(k))
                                                      ELSE q]]
<1>1. n \in Nat OBVIOUS
<1>2. <<>> \in Seq(E) BY EmptySeq
<1>3. ASSUME NEW k \in 1 .. n, NEW q \in Seq(E) PROVE Append(q, entry(k)) \in Seq(E)
  <2>1. entry(k) \in E OBVIOUS
  <2> HIDE DEF E, entry
  <2> QED BY <2>1, AppendProperties
<1>4. step \in StepsOn(Seq(E), n)
  <2> HIDE DEF E, n, entry, More
  <2> QED BY <1>3 DEF StepsOn
<1>5. PICK f \in [0 .. n -> Seq(E)] :
        f[0] = <<>> /\ \A k \in 1 .. n : f[k] = step[k][f[k - 1]]
  <2> HIDE DEF E, n, step
  <2>1. Runs(Seq(E), n, <<>>, step) # {} BY <1>1, <1>2, <1>4, Recursion
  <2> QED BY <2>1 DEF Runs
<1>6. ASSUME NEW k \in 0 .. n
      PROVE  f[k] = IF k = 0 THEN <<>>
                    ELSE IF More(k) THEN Append(f[k - 1], entry(k)) ELSE f[k - 1]
  <2>1. CASE k = 0 BY <1>5, <2>1
  <2>2. CASE k # 0
    <3>1. k \in 1 .. n /\ k - 1 \in 0 .. n BY <1>1, <2>2
    <3>2. f[k - 1] \in Seq(E)
      <4> HIDE DEF E, n
      <4> QED BY <1>5, <3>1
    <3>3. step[k][f[k - 1]] = IF More(k) THEN Append(f[k - 1], entry(k)) ELSE f[k - 1]
      <4> HIDE DEF E, n, More, entry
      <4> QED BY <3>1, <3>2
    <3> HIDE DEF step, E, n, More, entry
    <3> QED BY <1>5, <2>2, <3>1, <3>3
  <2> QED BY <2>1, <2>2
<1>7. IsUpTo(f)
  <2> DEFINE h == [k \in 0 .. n |-> IF k = 0 THEN <<>>
                                    ELSE IF More(k) THEN Append(f[k - 1], entry(k))
                                    ELSE f[k - 1]]
  <2> HIDE DEF n, More, entry
  <2>1. DOMAIN f = 0 .. n /\ f = [k \in DOMAIN f |-> f[k]] BY <1>5
  <2>2. DOMAIN h = 0 .. n /\ \A k \in 0 .. n : h[k] = f[k] BY <1>6
  <2>3. h = [k \in 0 .. n |-> f[k]] BY <2>2
  <2> QED BY <2>1, <2>3
<1>8. IsUpTo(upTo)
  <2>1. \E x : IsUpTo(x) BY <1>7
  <2> QED BY <2>1, Zenon
<1>9. Shown(endpoints, alt, in) = upTo[n]
  BY Zenon DEF Shown, IsUpTo
<1> HIDE DEF upTo
<1>10. \A k \in 0 .. n : upTo[k] = IF k = 0 THEN <<>>
                                   ELSE IF More(k) THEN Append(upTo[k - 1], entry(k))
                                   ELSE upTo[k - 1]
  <2> HIDE DEF n, More, entry
  <2> QED BY <1>8
<1>11. upTo[0] \in Seq(E)
  <2>1. 0 \in 0 .. n BY <1>1
  <2>2. upTo[0] = <<>>
    <3> HIDE DEF n
    <3> QED BY <1>10, <2>1
  <2> HIDE DEF E, n
  <2> QED BY <1>2, <2>2
<1>12. ASSUME NEW k \in 1 .. n, upTo[k - 1] \in Seq(E) PROVE upTo[k] \in Seq(E)
  <2>1. k \in 0 .. n /\ k # 0 BY <1>1
  <2> HIDE DEF E, n, More, entry
  <2> QED BY <1>3, <1>10, <1>12, <2>1
<1>13. upTo[n] \in Seq(E)
  <2> HIDE DEF E, n
  <2>1. \A k \in 0 .. n : upTo[k] \in Seq(E) BY <1>1, <1>11, <1>12, RecursionType
  <2> QED BY <1>1, <2>1
<1> QED BY <1>9, <1>13

\* An entry names an alternate setting of the device and the address of an endpoint in it.
EntryOf(d) ==
  {e \in [alt : DOMAIN AltSettings[d], address : Nat] :
     \E k \in DOMAIN AltSettings[d][e.alt] : AltSettings[d][e.alt][k].address = e.address}

LEMMA EntriesType ==
  ASSUME WindowAssumption, NEW d \in Devices, NEW in
  PROVE  Entries(d, in) \in Seq(EntryOf(d))
<1> DEFINE A == AltSettings[d]
<1>1. A \in Seq(Seq(Endpoint)) BY DEF WindowAssumption
<1> HIDE DEF A
<1>2. ASSUME NEW i \in DOMAIN A PROVE Shown(A[i], i, in) \in Seq(EntryOf(d))
  <2>1. A[i] \in Seq(Endpoint) BY <1>1
  <2> DEFINE E == {[alt |-> i, address |-> A[i][k].address] : k \in 1 .. Len(A[i])}
  <2>2. Shown(A[i], i, in) \in Seq(E) BY <2>1, ShownType
  <2>3. E \subseteq EntryOf(d)
    <3> SUFFICES ASSUME NEW k \in 1 .. Len(A[i])
                 PROVE  [alt |-> i, address |-> A[i][k].address] \in EntryOf(d)
      OBVIOUS
    <3>1. A[i][k] \in Endpoint /\ k \in DOMAIN A[i] BY <2>1
    <3>2. A[i][k].address \in Nat BY <3>1 DEF Endpoint
    <3> QED BY <3>1, <3>2 DEF EntryOf, A
  <2> HIDE DEF E
  <2> QED BY <2>2, <2>3, SeqMonotonic
<1> DEFINE s == [i \in DOMAIN A |-> Shown(A[i], i, in)]
<1>3. s \in Seq(Seq(EntryOf(d)))
  <2>1. DOMAIN A = 1 .. Len(A) /\ Len(A) \in Nat BY <1>1
  <2> QED BY <1>2, <2>1
<1>4. Entries(d, in) = FlattenSeq(s) BY DEF Entries, A
<1> HIDE DEF s
<1> QED BY <1>3, <1>4, FlattenType

-----------------------------------------------------------------------------
(* HostWindow: the invariant. *)

\* What the slots rely on: the entry that is shown exists, and while no device has come or
\* gone the list is what the driver has.
WindowTypeOK ==
  /\ plugged \in Seq(Devices) /\ cb_device \in Seq(Devices)
  /\ device_index \in 0 .. Len(cb_device)
  /\ device_index = 0 <=> cb_device = <<>>
  /\ opened \in Devices \cup {NoDevice}
  /\ fresh \in BOOLEAN /\ openedFresh \in BOOLEAN /\ live \in BOOLEAN
  /\ fresh => cb_device = plugged

\* An endpoint is shown only by a device that is open, and a choice names an entry.
ChoiceOK ==
  /\ device_index # 0 /\ opened = NoDevice => cb_in_ept = <<>> /\ cb_out_ept = <<>>
  /\ in_index # 0 => in_index \in DOMAIN cb_in_ept
  /\ out_index # 0 => out_index \in DOMAIN cb_out_ept

WindowInv == WindowTypeOK /\ ChoiceOK /\ ListsOfDevice

LEMMA OpeningType ==
  ASSUME plugged \in Seq(Devices), NEW i \in Nat \ {0}
  PROVE  /\ Opening(i) \in Devices \cup {NoDevice}
         /\ i \in DOMAIN plugged => Opening(i) = plugged[i]
<1>1. CASE i <= Len(plugged)
  <2>1. i \in 1 .. Len(plugged) BY <1>1
  <2> QED BY <1>1, <2>1 DEF Opening
<1>2. CASE ~ (i <= Len(plugged)) BY <1>2 DEF Opening
<1> QED BY <1>1, <1>2

\* The entry that stays chosen after a refresh is one of the new list.
LEMMA KeptType ==
  ASSUME plugged \in Seq(Devices), NEW text
  PROVE  /\ Kept(text) \in 0 .. Len(plugged)
         /\ Kept(text) = 0 <=> plugged = <<>>
<1> DEFINE same == {k \in DOMAIN plugged : NameOf[plugged[k]] = text}
<1>1. DOMAIN plugged = 1 .. Len(plugged) /\ Len(plugged) \in Nat OBVIOUS
<1>2. Kept(text) = IF plugged = <<>> THEN 0 ELSE IF same = {} THEN 1 ELSE Min(same)
  BY DEF Kept
<1>3. CASE plugged = <<>> BY <1>2, <1>3
<1>4. CASE plugged # <<>> /\ same = {}
  <2>1. Len(plugged) # 0 BY <1>4
  <2> QED BY <1>1, <1>2, <1>4, <2>1
<1>5. CASE plugged # <<>> /\ same # {}
  <2>1. same \subseteq 1 .. Len(plugged) /\ same \subseteq Nat BY <1>1
  <2> HIDE DEF same
  <2>2. \E x \in same : \A y \in same : x <= y BY <1>5, <2>1, LeastElement
  <2>3. Min(same) \in same BY <2>2, Zenon DEF Min
  <2>4. Min(same) \in 1 .. Len(plugged) BY <2>1, <2>3
  <2> QED BY <1>1, <1>2, <1>5, <2>4
<1> QED BY <1>3, <1>4, <1>5

\* Opening a device fills both lists from it; without an entry they are emptied.
LEMMA GetEndpoints ==
  ASSUME WindowAssumption, WindowInv, NEW i \in Nat, get_endpoint_for_device(i)
  PROVE  /\ opened' \in Devices \cup {NoDevice} /\ live' \in BOOLEAN
         /\ i = 0 => /\ opened' = opened /\ live' = live
                     /\ cb_in_ept' = <<>> /\ cb_out_ept' = <<>>
         /\ i # 0 => /\ ~ live' /\ opened' = Opening(i)
                     /\ opened' = NoDevice => cb_in_ept' = <<>> /\ cb_out_ept' = <<>>
                     /\ opened' # NoDevice => /\ cb_in_ept' = Entries(opened', TRUE)
                                              /\ cb_out_ept' = Entries(opened', FALSE)
         /\ in_index' # 0 => in_index' \in DOMAIN cb_in_ept'
         /\ out_index' # 0 => out_index' \in DOMAIN cb_out_ept'
<1>1. plugged \in Seq(Devices) /\ opened \in Devices \cup {NoDevice} /\ live \in BOOLEAN
  BY DEF WindowInv, WindowTypeOK
<1>2. opened' \in Devices \cup {NoDevice} BY <1>1, OpeningType DEF get_endpoint_for_device
<1>3. live' \in BOOLEAN BY <1>1 DEF get_endpoint_for_device
<1>4. i = 0 => /\ opened' = opened /\ live' = live
               /\ cb_in_ept' = <<>> /\ cb_out_ept' = <<>>
  <2> SUFFICES ASSUME i = 0
               PROVE  /\ opened' = opened /\ live' = live
                      /\ cb_in_ept' = <<>> /\ cb_out_ept' = <<>>
    OBVIOUS
  <2>1. opened' = opened /\ cb_in_ept' = <<>> /\ cb_out_ept' = <<>>
    BY DEF get_endpoint_for_device
  <2>2. live' <=> live BY DEF get_endpoint_for_device
  <2>3. live' = live BY <1>1, <1>3, <2>2
  <2> QED BY <2>1, <2>3
<1>5. i # 0 => /\ ~ live' /\ opened' = Opening(i)
               /\ opened' = NoDevice => cb_in_ept' = <<>> /\ cb_out_ept' = <<>>
               /\ opened' # NoDevice => /\ cb_in_ept' = Entries(opened', TRUE)
                                        /\ cb_out_ept' = Entries(opened', FALSE)
  BY DEF get_endpoint_for_device
<1>6. \E d : /\ cb_in_ept' \in Seq(EntryOf(d)) /\ cb_out_ept' \in Seq(EntryOf(d))
  <2>1. <<>> \in Seq(EntryOf(NoDevice)) BY EmptySeq
  <2>2. CASE i = 0 \/ opened' = NoDevice
    <3>1. cb_in_ept' = <<>> /\ cb_out_ept' = <<>> BY <1>4, <1>5, <2>2
    <3> QED BY <2>1, <3>1
  <2>3. CASE i # 0 /\ opened' # NoDevice
    <3>1. opened' \in Devices BY <1>2, <2>3
    <3>2. Entries(opened', TRUE) \in Seq(EntryOf(opened'))
          /\ Entries(opened', FALSE) \in Seq(EntryOf(opened'))
      BY <3>1, EntriesType
    <3> QED BY <1>5, <2>3, <3>2
  <2> QED BY <2>2, <2>3
<1>7. ASSUME NEW T, NEW s \in Seq(T), s # <<>> PROVE 1 \in DOMAIN s
  <2>1. Len(s) # 0 BY <1>7
  <2> QED BY <2>1
<1>8. in_index' # 0 => in_index' \in DOMAIN cb_in_ept'
  <2>1. in_index' = IF cb_in_ept' = <<>> THEN 0 ELSE 1 BY DEF get_endpoint_for_device
  <2> QED BY <1>6, <1>7, <2>1
<1>9. out_index' # 0 => out_index' \in DOMAIN cb_out_ept'
  <2>1. out_index' = IF cb_out_ept' = <<>> THEN 0 ELSE 1 BY DEF get_endpoint_for_device
  <2> QED BY <1>6, <1>7, <2>1
<1> QED BY <1>2, <1>3, <1>4, <1>5, <1>8, <1>9

-----------------------------------------------------------------------------
(* HostWindow: one lemma for each action. *)

\* Devices come and go at any position.
LEMMA HotplugType ==
  ASSUME plugged \in Seq(Devices), Hotplug PROVE plugged' \in Seq(Devices)
<1>1. Len(plugged) \in Nat /\ \A k \in 1 .. Len(plugged) : plugged[k] \in Devices OBVIOUS
<1>2. ASSUME NEW m \in Int, NEW n \in Int, m >= 1, n <= Len(plugged)
      PROVE  SubSeq(plugged, m, n) \in Seq(Devices)
  <2>1. \A k \in m .. n : plugged[k] \in Devices BY <1>1, <1>2
  <2> QED BY <2>1, SubSeqProperties
<1>3. CASE \E d \in Devices \ Range(plugged), i \in 1 .. Len(plugged) + 1 :
             plugged' = InsertAt(plugged, i, d)
  <2>1. PICK d \in Devices, i \in 1 .. Len(plugged) + 1 : plugged' = InsertAt(plugged, i, d)
    BY <1>3
  <2>2. /\ i \in Int /\ i - 1 \in Int /\ i - 1 <= Len(plugged) /\ i >= 1 /\ 1 \in Int
        /\ Len(plugged) \in Int /\ 1 >= 1 /\ Len(plugged) <= Len(plugged)
    BY <1>1
  <2>3. SubSeq(plugged, 1, i - 1) \in Seq(Devices) BY <1>2, <2>2
  <2>4. SubSeq(plugged, i, Len(plugged)) \in Seq(Devices) BY <1>2, <2>2
  <2>5. <<d>> \in Seq(Devices) OBVIOUS
  <2>6. SubSeq(plugged, 1, i - 1) \o <<d>> \in Seq(Devices)
    BY <2>3, <2>5, ConcatProperties
  <2>7. SubSeq(plugged, 1, i - 1) \o <<d>> \o SubSeq(plugged, i, Len(plugged)) \in Seq(Devices)
    BY <2>4, <2>6, ConcatProperties
  <2> QED BY <2>1, <2>7 DEF InsertAt
<1>4. CASE \E i \in DOMAIN plugged : plugged' = RemoveAt(plugged, i)
  <2>1. PICK i \in 1 .. Len(plugged) : plugged' = RemoveAt(plugged, i) BY <1>4
  <2>2. /\ i + 1 \in Int /\ i - 1 \in Int /\ i - 1 <= Len(plugged) /\ i + 1 >= 1 /\ 1 \in Int
        /\ Len(plugged) \in Int /\ 1 >= 1 /\ Len(plugged) <= Len(plugged)
    BY <1>1
  <2>3. SubSeq(plugged, 1, i - 1) \in Seq(Devices) BY <1>2, <2>2
  <2>4. SubSeq(plugged, i + 1, Len(plugged)) \in Seq(Devices) BY <1>2, <2>2
  <2>5. SubSeq(plugged, 1, i - 1) \o SubSeq(plugged, i + 1, Len(plugged)) \in Seq(Devices)
    BY <2>3, <2>4, ConcatProperties
  <2> QED BY <2>1, <2>5 DEF RemoveAt
<1> QED BY <1>3, <1>4 DEF Hotplug

LEMMA HotplugKeeps == ASSUME WindowInv, Hotplug PROVE WindowInv'
<1>1. UNCHANGED <<cb_device, device_index, cb_in_ept, in_index, cb_out_ept, out_index,
                  opened, openedFresh, live>> /\ fresh' = FALSE
  BY DEF Hotplug, listVars, deviceVars
<1>2. WindowTypeOK' BY <1>1, HotplugType DEF WindowInv, WindowTypeOK
<1>3. ChoiceOK' BY <1>1 DEF WindowInv, ChoiceOK
<1>4. ListsOfDevice' BY <1>1 DEF WindowInv, ListsOfDevice
<1> QED BY <1>2, <1>3, <1>4 DEF WindowInv

LEMMA RefreshKeeps ==
  ASSUME WindowAssumption, WindowInv, on_btn_refresh_clicked PROVE WindowInv'
<1>1. /\ cb_device' = plugged /\ plugged' = plugged /\ fresh' = TRUE
      /\ device_index' = Kept(Text) /\ get_endpoint_for_device(device_index')
      /\ openedFresh' = (openedFresh \/ device_index' # 0)
  BY DEF on_btn_refresh_clicked
<1>2. plugged \in Seq(Devices) BY DEF WindowInv, WindowTypeOK
<1>3. PICK i \in 0 .. Len(plugged) : device_index' = i /\ (i = 0 <=> plugged = <<>>)
  BY <1>1, <1>2, KeptType
<1>4. i \in Nat /\ get_endpoint_for_device(i) /\ DOMAIN plugged = 1 .. Len(plugged)
  BY <1>1, <1>2, <1>3
<1>5. /\ opened' \in Devices \cup {NoDevice} /\ live' \in BOOLEAN
      /\ i = 0 => /\ opened' = opened /\ live' = live
                  /\ cb_in_ept' = <<>> /\ cb_out_ept' = <<>>
      /\ i # 0 => /\ ~ live' /\ opened' = Opening(i)
                  /\ opened' = NoDevice => cb_in_ept' = <<>> /\ cb_out_ept' = <<>>
                  /\ opened' # NoDevice => /\ cb_in_ept' = Entries(opened', TRUE)
                                           /\ cb_out_ept' = Entries(opened', FALSE)
      /\ in_index' # 0 => in_index' \in DOMAIN cb_in_ept'
      /\ out_index' # 0 => out_index' \in DOMAIN cb_out_ept'
  BY <1>4, GetEndpoints
<1>6. openedFresh' \in BOOLEAN BY <1>1
<1>7. WindowTypeOK' BY <1>1, <1>2, <1>3, <1>5, <1>6 DEF WindowTypeOK
<1>8. ChoiceOK' BY <1>3, <1>5 DEF ChoiceOK
<1>9. i # 0 => opened' = cb_device'[i]
  <2>1. i # 0 => i \in DOMAIN plugged /\ i \in Nat \ {0} BY <1>4
  <2> QED BY <1>1, <1>2, <1>5, <2>1, OpeningType
<1>10. ListsOfDevice' BY <1>3, <1>5, <1>9 DEF ListsOfDevice
<1> QED BY <1>7, <1>8, <1>10 DEF WindowInv

LEMMA IndexChangedKeeps ==
  ASSUME WindowAssumption, WindowInv, on_cb_device_currentIndexChanged PROVE WindowInv'
<1>1. PICK i \in DOMAIN cb_device : device_index' = i /\ get_endpoint_for_device(i)
  BY DEF on_cb_device_currentIndexChanged
<1>2. cb_device' = cb_device /\ plugged' = plugged /\ fresh' = fresh /\ openedFresh' = fresh
  BY DEF on_cb_device_currentIndexChanged
<1>3. /\ plugged \in Seq(Devices) /\ cb_device \in Seq(Devices) /\ fresh \in BOOLEAN
      /\ fresh => cb_device = plugged
  BY DEF WindowInv, WindowTypeOK
<1>4. i \in 1 .. Len(cb_device) /\ i \in Nat /\ i # 0 /\ cb_device # <<>> BY <1>1, <1>3
<1>5. /\ opened' \in Devices \cup {NoDevice} /\ live' \in BOOLEAN
      /\ opened' = Opening(i)
      /\ opened' = NoDevice => cb_in_ept' = <<>> /\ cb_out_ept' = <<>>
      /\ opened' # NoDevice => /\ cb_in_ept' = Entries(opened', TRUE)
                               /\ cb_out_ept' = Entries(opened', FALSE)
      /\ in_index' # 0 => in_index' \in DOMAIN cb_in_ept'
      /\ out_index' # 0 => out_index' \in DOMAIN cb_out_ept'
  BY <1>1, <1>4, GetEndpoints
<1>6. WindowTypeOK' BY <1>1, <1>2, <1>3, <1>4, <1>5 DEF WindowTypeOK
<1>7. ChoiceOK' BY <1>1, <1>4, <1>5 DEF ChoiceOK
<1>8. fresh => opened' = cb_device[i] BY <1>1, <1>3, <1>4, <1>5, OpeningType
<1>9. ListsOfDevice' BY <1>1, <1>2, <1>4, <1>5, <1>8 DEF ListsOfDevice
<1> QED BY <1>6, <1>7, <1>9 DEF WindowInv

LEMMA ChooseKeeps == ASSUME WindowInv, ChooseEndpoints PROVE WindowInv'
<1>1. UNCHANGED <<plugged, cb_device, device_index, cb_in_ept, cb_out_ept, opened,
                  openedFresh, live, fresh>>
  BY DEF ChooseEndpoints, deviceVars
<1>2. \/ in_index' \in DOMAIN cb_in_ept /\ out_index' = out_index
      \/ out_index' \in DOMAIN cb_out_ept /\ in_index' = in_index
  BY DEF ChooseEndpoints
<1>3. WindowTypeOK' BY <1>1 DEF WindowInv, WindowTypeOK
<1>4. ChoiceOK' BY <1>1, <1>2 DEF WindowInv, ChoiceOK
<1>5. ListsOfDevice' BY <1>1 DEF WindowInv, ListsOfDevice
<1> QED BY <1>3, <1>4, <1>5 DEF WindowInv

\* Select and the buttons leave the lists alone.
LEMMA ButtonsKeep ==
  ASSUME WindowInv,
         on_btn_select_clicked \/ handle_button \/ on_start_btn_clicked \/ UNCHANGED windowVars
  PROVE  WindowInv'
<1>1. UNCHANGED <<plugged, listVars, opened, openedFresh, fresh>>
  BY DEF on_btn_select_clicked, handle_button, on_start_btn_clicked, windowVars, deviceVars
<1>2. live' \in BOOLEAN
  BY DEF WindowInv, WindowTypeOK, on_btn_select_clicked, handle_button, on_start_btn_clicked,
         windowVars, deviceVars
<1>3. WindowTypeOK' BY <1>1, <1>2 DEF WindowInv, WindowTypeOK, listVars
<1>4. ChoiceOK' BY <1>1 DEF WindowInv, ChoiceOK, listVars
<1>5. ListsOfDevice' BY <1>1 DEF WindowInv, ListsOfDevice, listVars
<1> QED BY <1>3, <1>4, <1>5 DEF WindowInv

LEMMA WindowBegins == ASSUME WindowAssumption, WindowInit PROVE WindowInv
<1>1. PICK n \in 0 .. 1 : /\ plugged \in Seq(Devices) /\ Len(plugged) = n
                          /\ n = 0 <=> plugged = <<>>
  <2>1. CASE plugged = <<>> BY <2>1
  <2>2. CASE \E d \in Devices : plugged = <<d>> BY <2>2
  <2> QED BY <2>1, <2>2 DEF WindowInit
<1>2. /\ cb_device = plugged /\ device_index = n /\ opened = Opening(1)
      /\ cb_in_ept = IF opened = NoDevice THEN <<>> ELSE Entries(opened, TRUE)
      /\ cb_out_ept = IF opened = NoDevice THEN <<>> ELSE Entries(opened, FALSE)
      /\ in_index = (IF cb_in_ept = <<>> THEN 0 ELSE 1)
      /\ out_index = (IF cb_out_ept = <<>> THEN 0 ELSE 1)
      /\ fresh = TRUE /\ openedFresh = TRUE /\ live = FALSE
  BY <1>1 DEF WindowInit
<1>3. opened \in Devices \cup {NoDevice} /\ (n # 0 => opened = plugged[1])
  BY <1>1, <1>2, OpeningType
<1>4. n = 0 => opened = NoDevice BY <1>1, <1>2 DEF Opening
<1>5. WindowTypeOK
  <2>1. n \in 0 .. Len(plugged) BY <1>1
  <2>2. device_index \in 0 .. Len(cb_device) BY <1>2, <2>1
  <2>3. device_index = 0 <=> cb_device = <<>> BY <1>1, <1>2
  <2> QED BY <1>1, <1>2, <1>3, <2>2, <2>3 DEF WindowTypeOK
<1>6. ListsOfDevice
  <2>1. device_index # 0 => opened = cb_device[device_index] BY <1>1, <1>2, <1>3
  <2> QED BY <1>2, <1>4, <2>1 DEF ListsOfDevice
<1>7. \E T : cb_in_ept \in Seq(T) /\ cb_out_ept \in Seq(T)
  <2>1. CASE opened = NoDevice
    <3>1. <<>> \in Seq({}) BY EmptySeq
    <3> QED BY <1>2, <2>1, <3>1
  <2>2. CASE opened # NoDevice
    <3>1. opened \in Devices BY <1>3, <2>2
    <3>2. Entries(opened, TRUE) \in Seq(EntryOf(opened))
          /\ Entries(opened, FALSE) \in Seq(EntryOf(opened))
      BY <3>1, EntriesType
    <3> QED BY <1>2, <2>2, <3>2
  <2> QED BY <2>1, <2>2
<1>8. ASSUME NEW T, NEW s \in Seq(T), s # <<>> PROVE 1 \in DOMAIN s
  <2>1. Len(s) # 0 BY <1>8
  <2> QED BY <2>1
<1>9. ChoiceOK
  <2>1. in_index # 0 => in_index \in DOMAIN cb_in_ept BY <1>2, <1>7, <1>8
  <2>2. out_index # 0 => out_index \in DOMAIN cb_out_ept BY <1>2, <1>7, <1>8
  <2> QED BY <1>2, <2>1, <2>2 DEF ChoiceOK
<1> QED BY <1>5, <1>6, <1>9 DEF WindowInv

LEMMA WindowStep ==
  ASSUME WindowAssumption, WindowInv, [WindowNext]_windowVars PROVE WindowInv'
BY HotplugKeeps, RefreshKeeps, IndexChangedKeeps, ChooseKeeps, ButtonsKeep DEF WindowNext

\* The lists of the window, the entries chosen and the device that is open fit together,
\* for all devices, whatever comes and goes.
THEOREM WindowInvariant == WindowSpec => []WindowInv
<1>1. WindowInit => WindowInv BY WindowAssumption, WindowBegins
<1>2. WindowInv /\ [WindowNext]_windowVars => WindowInv' BY WindowAssumption, WindowStep
<1> QED BY <1>1, <1>2, PTL DEF WindowSpec

\* The endpoint lists are those of the device that is open, which is the one that the
\* device list shows unless a device came or went before it was opened.
THEOREM ListsOfDeviceHolds == WindowSpec => []ListsOfDevice
<1>1. WindowInv => ListsOfDevice BY DEF WindowInv
<1> QED BY <1>1, WindowInvariant, PTL

-----------------------------------------------------------------------------
(* HostWindow: the endpoints that were chosen.  EndPointOf looks in the last alternate *)
(* setting only, so that this needs devices with one, as the card is.                  *)

OneSetting == \A d \in Devices : Len(AltSettings[d]) = 1

\* An entry of a list leads back to the endpoint that it was made for.
LEMMA EndPointFound ==
  ASSUME WindowAssumption, OneSetting, opened \in Devices, NEW e \in EntryOf(opened)
  PROVE  EndPointOf(e.address) = [device |-> opened, alt |-> e.alt, address |-> e.address]
<1> DEFINE A == AltSettings[opened]
           found == {k \in DOMAIN A[Len(A)] : A[Len(A)][k].address = e.address}
<1>1. A \in Seq(Seq(Endpoint)) /\ Len(A) = 1 BY DEF WindowAssumption, OneSetting
<1>2. e \in [alt : DOMAIN A, address : Nat]
      /\ \E k \in DOMAIN A[e.alt] : A[e.alt][k].address = e.address
  BY DEF EntryOf
<1>3. e.alt = 1
  <2>1. DOMAIN A = 1 .. 1
    <3> HIDE DEF A
    <3> QED BY <1>1
  <2> QED BY <1>2, <2>1
<1>4. found # {} BY <1>1, <1>2, <1>3
<1>5. opened # NoDevice BY DEF WindowAssumption
<1>6. EndPointOf(e.address) = [device |-> opened, alt |-> Len(A), address |-> e.address]
  <2>1. Len(A) # 0 BY <1>1
  <2> QED BY <1>4, <1>5, <2>1 DEF EndPointOf
<1> QED BY <1>1, <1>3, <1>6

LEMMA SelectPicks ==
  ASSUME WindowAssumption, OneSetting, WindowInv, EndpointsAsPicked, on_btn_select_clicked
  PROVE  EndpointsAsPicked'
<1>1. CASE in_index = 0 \/ out_index = 0
  <2>1. UNCHANGED <<BulkInEpt, BulkOutEpt, picked, live, openedFresh>>
    BY <1>1 DEF on_btn_select_clicked, selectVars
  <2> QED BY <2>1 DEF EndpointsAsPicked
<1>2. CASE ~ (in_index = 0 \/ out_index = 0)
  <2> DEFINE a == cb_in_ept[in_index]
             b == cb_out_ept[out_index]
  <2>1. /\ BulkOutEpt' = EndPointOf(b.address) /\ BulkInEpt' = EndPointOf(a.address)
        /\ picked' = [device |-> cb_device[device_index], in |-> a, out |-> b]
        /\ openedFresh' = openedFresh
    BY <1>2 DEF on_btn_select_clicked, select_endpoints
  <2>2. in_index \in DOMAIN cb_in_ept /\ out_index \in DOMAIN cb_out_ept
    BY <1>2 DEF WindowInv, ChoiceOK
  <2>3. device_index # 0 /\ opened \in Devices
    <3>1. DOMAIN cb_in_ept # {} BY <2>2
    <3>2. cb_in_ept # <<>> BY <3>1
    <3> QED BY <3>2 DEF WindowInv, WindowTypeOK, ChoiceOK, ListsOfDevice
  <2>4. cb_in_ept = Entries(opened, TRUE) /\ cb_out_ept = Entries(opened, FALSE)
    BY <2>3 DEF WindowInv, ListsOfDevice, WindowAssumption
  <2>5. a \in EntryOf(opened) /\ b \in EntryOf(opened)
    <3>1. cb_in_ept \in Seq(EntryOf(opened)) /\ cb_out_ept \in Seq(EntryOf(opened))
      BY <2>3, <2>4, EntriesType
    <3>2. in_index \in 1 .. Len(cb_in_ept) /\ out_index \in 1 .. Len(cb_out_ept)
      BY <2>2, <3>1
    <3> QED BY <3>1, <3>2, ElementOfSeq
  <2> HIDE DEF a, b
  <2>6. /\ BulkInEpt' = [device |-> opened, alt |-> a.alt, address |-> a.address]
        /\ BulkOutEpt' = [device |-> opened, alt |-> b.alt, address |-> b.address]
    BY <2>1, <2>3, <2>5, EndPointFound
  <2>7. openedFresh' => opened = cb_device[device_index]
    BY <2>1, <2>3 DEF WindowInv, ListsOfDevice
  <2> QED BY <2>1, <2>6, <2>7 DEF EndpointsAsPicked
<1> QED BY <1>1, <1>2

\* Until Select is clicked again, the choice stands as long as the device is not opened.
LEMMA PickStands ==
  ASSUME WindowAssumption, WindowInv, EndpointsAsPicked, [WindowNext]_windowVars,
         ~ on_btn_select_clicked
  PROVE  EndpointsAsPicked'
<1>1. UNCHANGED <<BulkInEpt, BulkOutEpt, picked>>
  BY DEF WindowNext, on_btn_refresh_clicked, on_cb_device_currentIndexChanged,
         ChooseEndpoints, handle_button, on_start_btn_clicked, Hotplug, windowVars, selectVars
<1>2. live' => live /\ (openedFresh' => openedFresh)
  <2>1. CASE on_btn_refresh_clicked
    <3>1. openedFresh' = (openedFresh \/ device_index' # 0)
          /\ live' = (live /\ device_index' = 0)
      BY <2>1 DEF on_btn_refresh_clicked, get_endpoint_for_device
    <3> QED BY <3>1
  <2>2. CASE on_cb_device_currentIndexChanged
    <3>1. PICK i \in DOMAIN cb_device : live' = (live /\ i = 0)
      BY <2>2 DEF on_cb_device_currentIndexChanged, get_endpoint_for_device
    <3>2. i # 0 BY DEF WindowInv, WindowTypeOK
    <3> QED BY <3>1, <3>2
  <2>3. CASE UNCHANGED <<live, openedFresh>> BY <2>3
  <2> QED BY <2>1, <2>2, <2>3 DEF WindowNext, ChooseEndpoints, handle_button,
             on_start_btn_clicked, Hotplug, windowVars, deviceVars
<1> QED BY <1>1, <1>2 DEF EndpointsAsPicked

\* With one alternate setting per device, the endpoints are those that were chosen when
\* Select was clicked, until the device is opened again.
THEOREM EndpointsAsPickedHolds ==
  ASSUME OneSetting PROVE WindowSpec => []EndpointsAsPicked
<1>1. WindowInit => EndpointsAsPicked BY DEF WindowInit, EndpointsAsPicked
<1>2. WindowInv /\ EndpointsAsPicked /\ [WindowNext]_windowVars => EndpointsAsPicked'
  BY WindowAssumption, OneSetting, SelectPicks, PickStands
<1> QED BY <1>1, <1>2, WindowInvariant, PTL DEF WindowSpec

-----------------------------------------------------------------------------
(* HostPlot. *)
Ranges == [lower : Int, upper : Int]
Axes   == {"x", "y"}
CallOf == [axis : Axes, op : {"set", "scale"}, to : Ranges]

PlotTypeOK ==
  /\ range \in [Axes -> Ranges] /\ limit \in [Axes -> Ranges]
  /\ calls \in Seq(CallOf) /\ asked \in Int

\* The size the x range is to end with.
Wanted == IF asked <= Size(limit["x"]) THEN asked ELSE Size(limit["x"])

Settled(r) == Inside(r, limit["x"]) /\ Size(r) = Wanted

\* Of the calls under way only the innermost is about x.  It sets a range that
\* fits, or the range the mouse asked for while the one before still fits.
CallsOK ==
  /\ \A i \in 2 .. Len(calls) : calls[i].axis = "y"
  /\ Len(calls) > 0 /\ calls[1].axis = "x" =>
       /\ calls[1].op = "set" /\ calls[1].to.lower < calls[1].to.upper
       /\ \/ Settled(calls[1].to)
          \/ Size(calls[1].to) = asked /\ Inside(range["x"], limit["x"])
  /\ (Len(calls) > 0 /\ calls[1].axis = "x") \/ Settled(range["x"])

PlotInv ==
  /\ PlotTypeOK /\ CallsOK
  /\ asked > 0 /\ limit["x"].lower < limit["x"].upper

-----------------------------------------------------------------------------

LEMMA RangeType == ASSUME NEW l \in Int, NEW u \in Int
                   PROVE /\ Interval(l, u) \in Ranges
                         /\ Interval(l, u).lower = l /\ Interval(l, u).upper = u
BY DEF Interval, Ranges

\* What limitAxisRange returns: a range within the limits, as long as the one it
\* was given if that fits.
LEMMA LimitedFits ==
  ASSUME NEW r \in Ranges, NEW l \in Ranges, r.lower < r.upper, l.lower < l.upper
  PROVE  /\ Inside(Limited(r, l), l)
         /\ Size(Limited(r, l)) = IF Size(r) <= Size(l) THEN Size(r) ELSE Size(l)
         /\ Limited(r, l).lower < Limited(r, l).upper
<1>1. r.lower \in Int /\ r.upper \in Int /\ l.lower \in Int /\ l.upper \in Int BY DEF Ranges
<1> QED BY <1>1 DEF Limited, Inside, Size, Interval

LEMMA LimitedType ==
  ASSUME NEW r \in Ranges, NEW l \in Ranges PROVE Limited(r, l) \in Ranges
<1>1. r.lower \in Int /\ r.upper \in Int /\ l.lower \in Int /\ l.upper \in Int BY DEF Ranges
<1>2. Size(r) \in Int BY <1>1 DEF Size
<1>3. /\ Interval(l.lower, l.lower + Size(r)) \in Ranges
      /\ Interval(l.upper - Size(r), l.upper) \in Ranges
  BY <1>1, <1>2, RangeType
<1> QED BY <1>3 DEF Limited

LEMMA SetType == ASSUME NEW a \in Axes, NEW r \in Ranges
                 PROVE /\ Set(a, r) \in CallOf
                       /\ Set(a, r).axis = a /\ Set(a, r).op = "set" /\ Set(a, r).to = r
BY DEF Set, CallOf

LEMMA ScaleType == Scale("y") \in CallOf /\ Scale("y").axis = "y"
<1>1. Interval(0, 0) \in Ranges BY RangeType
<1> QED BY <1>1 DEF Scale, CallOf, Axes

LEMMA ScaledType == ASSUME NEW r \in Ranges PROVE Scaled(r) \in Ranges
<1>1. r.lower \in Int /\ r.upper \in Int BY DEF Ranges
<1>2. Size(r) \div 20 \in Int BY <1>1 DEF Size
<1> QED BY <1>1, <1>2, RangeType DEF Scaled

\* At most one call is put before those under way.
LEMMA ChangedCalls ==
  ASSUME NEW a \in Axes, NEW r \in Ranges, NEW s \in Seq(CallOf), PlotTypeOK
  PROVE  IF Inside(r, limit[a]) THEN Changed(a, r) \o s = s
         ELSE /\ Changed(a, r) \o s = <<Set(a, Limited(r, limit[a]))>> \o s
              /\ Set(a, Limited(r, limit[a])) \in CallOf
<1>1. limit[a] \in Ranges BY DEF PlotTypeOK
<1>2. Set(a, Limited(r, limit[a])) \in CallOf BY <1>1, LimitedType, SetType
<1>3. <<>> \o s = s OBVIOUS
<1> QED BY <1>2, <1>3 DEF Changed

LEMMA Pushed ==
  ASSUME NEW c \in CallOf, NEW s \in Seq(CallOf)
  PROVE  /\ <<c>> \o s \in Seq(CallOf) /\ Len(<<c>> \o s) = Len(s) + 1
         /\ (<<c>> \o s)[1] = c
         /\ \A i \in 2 .. Len(s) + 1 : (<<c>> \o s)[i] = s[i - 1]
OBVIOUS

LEMMA SetRangeKeeps == ASSUME PlotAssumption, PlotInv, SetRange PROVE PlotInv'
<1> DEFINE c == Head(calls)
           t == Tail(calls)
           r == IF c.op = "scale" THEN Scaled(range[c.axis]) ELSE c.to
<1>1. calls \in Seq(CallOf) /\ Len(calls) > 0 BY DEF PlotInv, PlotTypeOK, SetRange
<1>2. c = calls[1] /\ c \in CallOf /\ t \in Seq(CallOf) BY <1>1
<1>3. Len(t) = Len(calls) - 1 /\ \A i \in 1 .. Len(t) : t[i] = calls[i + 1] BY <1>1
<1>4. \A i \in 1 .. Len(t) : t[i].axis = "y"
  BY <1>1, <1>3 DEF PlotInv, CallsOK
<1>5. c.axis \in Axes /\ c.op \in {"set", "scale"} /\ c.to \in Ranges BY <1>2 DEF CallOf
<1>6. r \in Ranges
  BY <1>5, ScaledType DEF PlotInv, PlotTypeOK
<1>7. limit' = limit /\ asked' = asked BY DEF SetRange
<1>8. \/ /\ c.op = "set" /\ (r = range[c.axis] \/ r.lower = r.upper)
         /\ calls' = t /\ range' = range
      \/ /\ ~ (c.op = "set" /\ (r = range[c.axis] \/ r.lower = r.upper))
         /\ range' = [range EXCEPT ![c.axis] = r]
         /\ calls' = Changed(c.axis, r) \o t
  BY DEF SetRange
<1> DEFINE d == Set(c.axis, Limited(r, limit[c.axis]))
<1>11. \/ /\ c.op = "set" /\ (r = range[c.axis] \/ r.lower = r.upper)
          /\ calls' = t /\ range' = range
       \/ /\ range' = [range EXCEPT ![c.axis] = r]
          /\ \/ Inside(r, limit[c.axis]) /\ calls' = t
             \/ ~ Inside(r, limit[c.axis]) /\ calls' = <<d>> \o t /\ d \in CallOf
  <2>1. IF Inside(r, limit[c.axis]) THEN Changed(c.axis, r) \o t = t
        ELSE Changed(c.axis, r) \o t = <<d>> \o t /\ d \in CallOf
    <3> HIDE DEF c, t, r
    <3> QED BY <1>2, <1>5, <1>6, ChangedCalls DEF PlotInv
  <2> HIDE DEF c, t, r, d
  <2> QED BY <1>8, <2>1
<1>9. CASE c.axis = "x"
  <2>1. /\ c.op = "set" /\ r = c.to /\ r.lower < r.upper
        /\ Settled(r) \/ (Size(r) = asked /\ Inside(range["x"], limit["x"]))
    BY <1>1, <1>2, <1>9 DEF PlotInv, CallsOK
  <2>2. /\ r.lower \in Int /\ r.upper \in Int
        /\ limit["x"] \in Ranges /\ limit["x"].lower \in Int /\ limit["x"].upper \in Int
        /\ limit["x"].lower < limit["x"].upper
    BY <1>6 DEF PlotInv, PlotTypeOK, Ranges, Axes
  <2>3. Size(r) = asked /\ Inside(r, limit["x"]) => Settled(r)
    BY <2>2 DEF Settled, Wanted, Size, Inside
  <2>4. CASE calls' = t /\ range' = range /\ r = range["x"]
    <3>1. Settled(range["x"]) BY <2>1, <2>3, <2>4
    <3> QED BY <1>2, <1>3, <1>4, <1>7, <2>4, <3>1
            DEF PlotInv, PlotTypeOK, CallsOK, Settled, Wanted
  <2>5. CASE range' = [range EXCEPT !["x"] = r] /\ Inside(r, limit["x"]) /\ calls' = t
    <3>1. Settled(r) BY <2>1, <2>3, <2>5
    <3>2. range'["x"] = r /\ range' \in [Axes -> Ranges]
      BY <1>6, <2>5 DEF PlotInv, PlotTypeOK, Axes
    <3> QED BY <1>2, <1>3, <1>4, <1>7, <2>5, <3>1, <3>2
            DEF PlotInv, PlotTypeOK, CallsOK, Settled, Wanted
  <2>6. CASE range' = [range EXCEPT !["x"] = r] /\ ~ Inside(r, limit["x"])
             /\ calls' = <<d>> \o t /\ d \in CallOf
    <3>1. range' \in [Axes -> Ranges] BY <1>6, <2>6 DEF PlotInv, PlotTypeOK, Axes
    <3>2. /\ d.axis = "x" /\ d.op = "set" /\ d.to = Limited(r, limit["x"])
      BY <1>6, <1>9, <2>2, LimitedType, SetType DEF Axes
    <3>3. Size(r) = asked BY <2>1, <2>6 DEF Settled
    <3>4. Settled(d.to) /\ d.to.lower < d.to.upper
      BY <1>6, <2>1, <2>2, <3>2, <3>3, LimitedFits DEF Settled, Wanted
    <3> HIDE DEF d, t
    <3>5. /\ calls' \in Seq(CallOf) /\ Len(calls') = Len(t) + 1 /\ calls'[1] = d
          /\ \A i \in 2 .. Len(calls') : calls'[i] = t[i - 1]
      BY <1>2, <2>6, Pushed
    <3>6. \A i \in 2 .. Len(calls') : calls'[i].axis = "y"
      BY <1>2, <1>4, <3>5
    <3>7. Inside(calls'[1].to, limit'["x"]) /\ Size(calls'[1].to) = Wanted'
      BY <1>7, <3>4, <3>5 DEF Settled, Wanted
    <3>8. Len(calls') > 0 BY <1>2, <3>5
    <3>9. CallsOK' BY <3>2, <3>4, <3>5, <3>6, <3>7, <3>8 DEF CallsOK, Settled
    <3>10. PlotTypeOK' BY <1>7, <3>1, <3>5 DEF PlotInv, PlotTypeOK
    <3>11. asked' > 0 /\ limit'["x"].lower < limit'["x"].upper BY <1>7 DEF PlotInv
    <3> QED BY <3>9, <3>10, <3>11 DEF PlotInv
  <2> HIDE DEF c, t, r, d
  <2>7. r.lower # r.upper BY <2>1, <2>2
  <2> QED BY <1>9, <1>11, <2>4, <2>5, <2>6, <2>7
<1>10. CASE c.axis = "y"
  <2>1. Settled(range["x"]) BY <1>1, <1>2, <1>10 DEF PlotInv, CallsOK
  <2>2. range'["x"] = range["x"] /\ range' \in [Axes -> Ranges]
    BY <1>6, <1>8, <1>10 DEF PlotInv, PlotTypeOK, Axes
  <2>3. Settled(range["x"])' BY <1>7, <2>1, <2>2 DEF Settled, Wanted
  <2>4. CASE calls' = t
    BY <1>2, <1>3, <1>4, <1>7, <2>2, <2>3, <2>4 DEF PlotInv, PlotTypeOK, CallsOK
  <2>5. CASE calls' = <<d>> \o t /\ d \in CallOf
    <3>1. limit["y"] \in Ranges BY DEF PlotInv, PlotTypeOK, Axes
    <3>2. d.axis = "y" BY <1>6, <1>10, <3>1, LimitedType, SetType DEF Axes
    <3> HIDE DEF d, t
    <3>3. /\ calls' \in Seq(CallOf) /\ Len(calls') = Len(t) + 1 /\ calls'[1] = d
          /\ \A i \in 2 .. Len(calls') : calls'[i] = t[i - 1]
      BY <1>2, <2>5, Pushed
    <3>4. \A i \in 2 .. Len(calls') : calls'[i].axis = "y" BY <1>2, <1>4, <3>3
    <3>5. calls'[1].axis # "x" BY <3>2, <3>3
    <3>6. CallsOK' BY <2>3, <3>4, <3>5 DEF CallsOK
    <3>7. PlotTypeOK' BY <1>7, <2>2, <3>3 DEF PlotInv, PlotTypeOK
    <3>8. asked' > 0 /\ limit'["x"].lower < limit'["x"].upper BY <1>7 DEF PlotInv
    <3> QED BY <3>6, <3>7, <3>8 DEF PlotInv
  <2> HIDE DEF c, t, r, d
  <2> QED BY <1>11, <2>4, <2>5
<1> QED BY <1>5, <1>9, <1>10 DEF Axes

LEMMA MouseKeeps == ASSUME PlotAssumption, PlotInv, DragOrZoom PROVE PlotInv'
<1>1. PICK l \in -Reach..Reach, u \in -Reach..Reach :
        l < u /\ calls' = <<Set("x", Interval(l, u))>> /\ asked' = u - l
  BY DEF DragOrZoom
<1>2. l \in Int /\ u \in Int BY DEF PlotAssumption
<1>3. calls = <<>> /\ range' = range /\ limit' = limit BY DEF DragOrZoom
<1> DEFINE d == Set("x", Interval(l, u))
<1>4. d \in CallOf /\ d.axis = "x" /\ d.op = "set" /\ d.to.lower = l /\ d.to.upper = u
  BY <1>2, RangeType, SetType DEF Axes
<1>5. Size(d.to) = asked' BY <1>1, <1>4 DEF Size
<1> HIDE DEF d
<1>6. calls' = <<d>> BY <1>1 DEF d
<1>7. calls' \in Seq(CallOf) /\ Len(calls') = 1 /\ calls'[1] = d BY <1>4, <1>6
<1>8. Inside(range["x"], limit["x"])' BY <1>3 DEF PlotInv, CallsOK, Settled
<1>9. CallsOK' BY <1>1, <1>4, <1>5, <1>7, <1>8 DEF CallsOK
<1> QED BY <1>1, <1>2, <1>3, <1>7, <1>9 DEF PlotInv, PlotTypeOK

LEMMA DrawKeeps ==
  ASSUME PlotAssumption, PlotInv, update_plot PROVE PlotInv'
<1>1. PICK n \in Sizes, y \in YData :
        /\ limit' = [limit EXCEPT !["x"] = Interval(0, n)]
        /\ calls' = <<Set("x", Interval(0, n - 1)), Set("y", y), Scale("y")>>
        /\ asked' = n - 1
  BY DEF update_plot, NewLimits
<1>2. n \in Nat /\ n > 1 /\ y \in Ranges BY DEF PlotAssumption, Ranges
<1>3. range' = range BY DEF update_plot
<1> DEFINE d == Set("x", Interval(0, n - 1))
           e == Set("y", y)
           f == Scale("y")
<1>4. /\ d \in CallOf /\ d.axis = "x" /\ d.op = "set" /\ d.to.lower = 0 /\ d.to.upper = n - 1
      /\ e \in CallOf /\ e.axis = "y" /\ f \in CallOf /\ f.axis = "y"
  BY <1>2, RangeType, SetType, ScaleType DEF Axes
<1>5. /\ limit' \in [Axes -> Ranges] /\ limit'["x"].lower = 0 /\ limit'["x"].upper = n
  <2>1. Interval(0, n) \in Ranges BY <1>2, RangeType
  <2>2. limit'["x"] = Interval(0, n) BY <1>1 DEF PlotInv, PlotTypeOK, Axes
  <2> QED BY <1>1, <1>2, <2>1, <2>2, RangeType DEF PlotInv, PlotTypeOK, Axes
<1>6. Inside(d.to, limit'["x"]) /\ Size(d.to) = Wanted'
  BY <1>1, <1>2, <1>4, <1>5 DEF Inside, Size, Wanted
<1> HIDE DEF d, e, f
<1>7. calls' = <<d, e, f>> BY <1>1 DEF d, e, f
<1>8. /\ calls' \in Seq(CallOf) /\ Len(calls') = 3 /\ calls'[1] = d
      /\ \A i \in 2 .. Len(calls') : calls'[i] \in {e, f}
  BY <1>4, <1>7
<1>9. CallsOK' BY <1>2, <1>4, <1>6, <1>8 DEF CallsOK, Settled
<1> QED BY <1>1, <1>2, <1>3, <1>5, <1>8, <1>9 DEF PlotInv, PlotTypeOK

-----------------------------------------------------------------------------

\* The invariant of the calls under way.
THEOREM PlotInvariant == PlotSpec => []PlotInv
<1>1. PlotInit => PlotInv
  <2> SUFFICES ASSUME PlotInit PROVE PlotInv OBVIOUS
  <2>1. /\ Interval(0, 5) \in Ranges /\ Interval(0, 5).lower = 0 /\ Interval(0, 5).upper = 5
        /\ Interval(-56, 1176) \in Ranges /\ Interval(0, 0) \in Ranges
    BY RangeType
  <2>2. range["x"] = Interval(0, 5) /\ limit["x"] = Interval(0, 5) BY DEF PlotInit
  <2>3. range \in [Axes -> Ranges] /\ limit \in [Axes -> Ranges]
    BY <2>1 DEF PlotInit, Axes, NoLimits
  <2>4. calls \in Seq(CallOf) /\ Len(calls) = 0 /\ asked = 5 BY DEF PlotInit
  <2>5. Settled(range["x"]) BY <2>1, <2>2, <2>4 DEF Settled, Wanted, Inside, Size
  <2> QED BY <2>1, <2>2, <2>3, <2>4, <2>5 DEF PlotInv, PlotTypeOK, CallsOK
<1>2. PlotInv /\ [PlotNext]_plotVars => PlotInv'
  <2> SUFFICES ASSUME PlotInv, [PlotNext]_plotVars PROVE PlotInv' OBVIOUS
  <2>1. CASE PlotNext
    BY <2>1, PlotAssumption, SetRangeKeeps, MouseKeeps, DrawKeeps DEF PlotNext
  <2>2. CASE UNCHANGED plotVars
    BY <2>2 DEF plotVars, PlotInv, PlotTypeOK, CallsOK, Settled, Wanted
  <2> QED BY <2>1, <2>2
<1> QED BY <1>1, <1>2, PTL DEF PlotSpec

\* The x range ends within its limits and as long as was asked for, if that
\* fits, for captures of every size and every wish of the mouse.
THEOREM WithinLimitsHolds == PlotSpec => []WithinLimits
<1>1. PlotInv => WithinLimits
  <2> SUFFICES ASSUME PlotInv, calls = <<>> PROVE Settled(range["x"])
    BY DEF WithinLimits, Settled, Wanted
  <2> QED BY DEF PlotInv, CallsOK
<1> QED BY <1>1, PlotInvariant, PTL
=============================================================================
