----------------------------- MODULE HostTransfer -----------------------------
(***************************************************************************)
(* One acquisition of the host application: send_and_read_bulk of          *)
(* app/mainwindow.cpp, which keeps up to QueueSize reads in flight, sends  *)
(* the request, and finishes the reads in the order it began them.  The    *)
(* unit of data is one read of RX_TRANSFER_SIZE bytes (a chunk).           *)
(*                                                                         *)
(* The USB driver completes the reads in flight oldest first; a read may   *)
(* fail, be refused, or not be answered within the 1500 ms of WaitForXfer. *)
(* Abort cancels every read in flight.  The card is a mailbox of one       *)
(* request, a reply in progress and the chunks the FX3 has buffered; what  *)
(* is left there when a new call starts is stale.                          *)
(***************************************************************************)
EXTENDS Integers, Sequences

CONSTANTS
  QueueSize,    \* QUEUE_SIZE
  MaxTransfers, \* the largest transfer_count, 256 on the slider
  CardChunks,   \* chunks the FX3 can buffer
  MaxFaults,    \* bound: refusals, failures, time-outs per call
  XferMode      \* "direct" or "buffered": who fills the application's buffer

ASSUME HostAssumption ==
  /\ QueueSize \in Nat \ {0} /\ MaxTransfers \in Nat \ {0}
  /\ CardChunks \in Nat \ {0} /\ MaxFaults \in Nat
  /\ XferMode \in {"direct", "buffered"}

VARIABLES
  pc, transfer_count, transfer_ctr, buffer_counter, q_ctr, read_offset, status,
  inBuf,    \* what each buffer holds
  slot,     \* per overlapped structure: the buffer, the state and the data
  inflight, \* slots whose reads the driver holds, oldest first
  mailbox,  \* the request in the OUT buffer, NoReply when it is empty
  reply,    \* the reply in progress: next chunk, chunks in all, stale or not
  card,     \* chunks buffered in the FX3
  clean,    \* nothing of an earlier call was left when this call started
  faults    \* faults of this call

loopVars == <<pc, transfer_count, transfer_ctr, buffer_counter, q_ctr, read_offset, status>>
readVars == <<inBuf, slot, inflight>>
cardVars == <<mailbox, reply, card>>
hostVars == <<loopVars, readVars, cardVars, clean, faults>>

Slots   == 0 .. QueueSize - 1
Buffers == 0 .. MaxTransfers - 1
Garbage == [no |-> -1, stale |-> FALSE] \* a buffer fresh from new
Chunks  == [no : Buffers, stale : BOOLEAN]
NoRead  == [buf |-> 0, state |-> "none", data |-> Garbage]
NoReply == [next |-> 0, of |-> 0, stale |-> FALSE]

Outdated(r) == IF r = NoReply THEN r ELSE [r EXCEPT !.stale = TRUE]
CardIdle    == mailbox = NoReply /\ reply = NoReply /\ card = <<>>

Fault == faults < MaxFaults /\ faults' = faults + 1

-----------------------------------------------------------------------------
(* The loop of the application. *)

\* on_start_btn_clicked: a new call, with fresh buffers.
Start ==
  /\ pc = "ready"
  /\ \E n \in 1 .. MaxTransfers : transfer_count' = n /\ transfer_ctr' = n
  /\ pc' = "begin" /\ buffer_counter' = 0 /\ q_ctr' = 0 /\ read_offset' = 0
  /\ status' = TRUE
  /\ inBuf' = [i \in Buffers |-> Garbage]
  /\ card' = [i \in 1 .. Len(card) |-> [card[i] EXCEPT !.stale = TRUE]]
  /\ reply' = Outdated(reply) /\ mailbox' = Outdated(mailbox)
  /\ clean' = CardIdle
  /\ faults' = 0
  /\ UNCHANGED <<slot, inflight>>

\* BeginDataXfer into buffer b with slot s; a refused read only clears status.
BeginDataXfer(s, b) ==
  \/ /\ slot' = [slot EXCEPT ![s] = [buf |-> b, state |-> "pending", data |-> Garbage]]
     /\ inflight' = Append(inflight, s)
     /\ UNCHANGED <<status, faults>>
  \/ /\ Fault
     /\ slot' = [slot EXCEPT ![s] = [buf |-> b, state |-> "refused", data |-> Garbage]]
     /\ status' = FALSE
     /\ UNCHANGED inflight

Begin ==
  /\ pc = "begin"
  /\ buffer_counter < QueueSize /\ buffer_counter < transfer_count
  /\ BeginDataXfer(buffer_counter, buffer_counter)
  /\ buffer_counter' = buffer_counter + 1
  /\ UNCHANGED <<pc, transfer_count, transfer_ctr, q_ctr, read_offset, inBuf,
                 cardVars, clean>>

\* The request is sent whether or not the reads were accepted, and the loop is
\* entered whether or not it was sent; only refused reads skip the loop.
SendBulk ==
  /\ pc = "begin"
  /\ ~ (buffer_counter < QueueSize /\ buffer_counter < transfer_count)
  /\ read_offset' = buffer_counter
  /\ pc' = IF status THEN "wait" ELSE "abort"
  /\ \/ /\ mailbox = NoReply
        /\ mailbox' = [next |-> 0, of |-> transfer_count, stale |-> FALSE]
        /\ UNCHANGED faults
     \/ Fault /\ UNCHANGED mailbox
  /\ UNCHANGED <<transfer_count, transfer_ctr, buffer_counter, q_ctr, status,
                 readVars, reply, card, clean>>

\* What the driver may have made of a read: its event is set.
Answered == {"done", "failed", "cancelled"}

\* WaitForXfer returns when the read of this slot is answered ...
WaitForXfer ==
  /\ pc = "wait"
  /\ slot[q_ctr].state \in Answered
  /\ pc' = "finish"
  /\ UNCHANGED <<transfer_count, transfer_ctr, buffer_counter, q_ctr, read_offset,
                 status, readVars, cardVars, clean, faults>>

Cancelled == [s \in Slots |-> IF slot[s].state = "pending"
                              THEN [slot[s] EXCEPT !.state = "cancelled"] ELSE slot[s]]

\* Mutant: wait again instead of giving up.
WaitTimesOut_Retry ==
  /\ pc = "wait"
  /\ slot[q_ctr].state \notin Answered
  /\ UNCHANGED hostVars

\* ... or after 1500 ms, and then every read in flight is aborted.
WaitTimesOut ==
  /\ pc = "wait"
  /\ slot[q_ctr].state \notin Answered
  /\ IF slot[q_ctr].state # "pending" \/ CardIdle THEN UNCHANGED faults ELSE Fault
  /\ status' = FALSE
  /\ slot' = Cancelled /\ inflight' = <<>>
  /\ pc' = "finish"
  /\ UNCHANGED <<transfer_count, transfer_ctr, buffer_counter, q_ctr, read_offset,
                 inBuf, cardVars, clean>>

\* The buffer that FinishDataXfer is given.
FinishIndex == buffer_counter - read_offset

\* Mutants: the result is not looked at; the data goes where FinishIndex points.
FinishDataXfer_Unchecked ==
  /\ pc = "finish"
  /\ inBuf' = [inBuf EXCEPT ![slot[q_ctr].buf] = slot[q_ctr].data]
  /\ slot' = [slot EXCEPT ![q_ctr] = NoRead]
  /\ pc' = "next"
  /\ UNCHANGED <<transfer_count, transfer_ctr, buffer_counter, q_ctr, read_offset,
                 status, inflight, cardVars, clean, faults>>
FinishDataXfer_Copy ==
  /\ pc = "finish"
  /\ status' = (status /\ slot[q_ctr].state = "done")
  /\ inBuf' = [inBuf EXCEPT ![FinishIndex] = slot[q_ctr].data]
  /\ slot' = [slot EXCEPT ![q_ctr] = NoRead]
  /\ pc' = "next"
  /\ UNCHANGED <<transfer_count, transfer_ctr, buffer_counter, q_ctr, read_offset,
                 inflight, cardVars, clean, faults>>

\* In direct mode the driver has filled the buffer of BeginDataXfer, in
\* buffered mode the data is copied into the buffer given here.
FinishDataXfer ==
  /\ pc = "finish"
  /\ status' = (status /\ slot[q_ctr].state = "done")
  /\ inBuf' = IF slot[q_ctr].state = "done"
              THEN [inBuf EXCEPT ![IF XferMode = "direct" THEN slot[q_ctr].buf
                                   ELSE FinishIndex] = slot[q_ctr].data]
              ELSE inBuf
  /\ slot' = [slot EXCEPT ![q_ctr] = NoRead]
  /\ pc' = "next"
  /\ UNCHANGED <<transfer_count, transfer_ctr, buffer_counter, q_ctr, read_offset,
                 inflight, cardVars, clean, faults>>

\* Mutant: one slot only.
NextQCtr_Same == 0

NextQCtr == (q_ctr + 1) % QueueSize

\* Mutant: leave the loop at the first failure.
LoopEnds_OnFailure == transfer_ctr = 1 \/ ~status

LoopEnds == transfer_ctr = 1

\* The slot is used again for the next buffer, also after a failure.
NextRead ==
  /\ pc = "next"
  /\ IF buffer_counter < transfer_count
     THEN BeginDataXfer(q_ctr, buffer_counter) /\ buffer_counter' = buffer_counter + 1
     ELSE UNCHANGED <<slot, inflight, status, faults, buffer_counter>>
  /\ q_ctr' = NextQCtr
  /\ transfer_ctr' = transfer_ctr - 1
  /\ pc' = IF LoopEnds THEN "abort" ELSE "wait"
  /\ UNCHANGED <<transfer_count, read_offset, inBuf, cardVars, clean>>

\* Abort, copy of all the buffers to rx_buf, release of everything, return.
AbortAndReturn ==
  /\ pc = "abort"
  /\ slot' = [s \in Slots |-> NoRead] /\ inflight' = <<>>
  /\ pc' = "ready"
  /\ UNCHANGED <<transfer_count, transfer_ctr, buffer_counter, q_ctr, read_offset,
                 status, inBuf, cardVars, clean, faults>>

-----------------------------------------------------------------------------
(* The driver and the card. *)

\* The oldest read in flight takes the next chunk.
Complete ==
  /\ inflight # <<>> /\ card # <<>>
  /\ slot' = [slot EXCEPT ![Head(inflight)].state = "done",
                          ![Head(inflight)].data = Head(card)]
  /\ inflight' = Tail(inflight) /\ card' = Tail(card)
  /\ UNCHANGED <<loopVars, inBuf, mailbox, reply, clean, faults>>

Fail ==
  /\ inflight # <<>> /\ Fault
  /\ slot' = [slot EXCEPT ![Head(inflight)].state = "failed"]
  /\ inflight' = Tail(inflight)
  /\ UNCHANGED <<loopVars, inBuf, cardVars, clean>>

\* The FPGA takes the request when it has finished the reply before.
Accept ==
  /\ mailbox # NoReply /\ reply = NoReply
  /\ reply' = mailbox /\ mailbox' = NoReply
  /\ UNCHANGED <<loopVars, readVars, card, clean, faults>>

\* A chunk of the reply reaches the buffers of the FX3; it is lost when they
\* are full and nobody reads.
Produce ==
  /\ reply.next < reply.of
  /\ \/ /\ Len(card) < CardChunks
        /\ card' = Append(card, [no |-> reply.next, stale |-> reply.stale])
     \/ Len(card) = CardChunks /\ inflight = <<>> /\ UNCHANGED card
  /\ reply' = IF reply.next + 1 = reply.of THEN NoReply
              ELSE [reply EXCEPT !.next = @ + 1]
  /\ UNCHANGED <<loopVars, readVars, mailbox, clean, faults>>

HostInit ==
  /\ pc = "ready" /\ transfer_count = 0 /\ transfer_ctr = 0 /\ buffer_counter = 0
  /\ q_ctr = 0 /\ read_offset = 0 /\ status = FALSE
  /\ inBuf = [i \in Buffers |-> Garbage]
  /\ slot = [s \in Slots |-> NoRead] /\ inflight = <<>>
  /\ mailbox = NoReply /\ reply = NoReply /\ card = <<>>
  /\ clean = FALSE /\ faults = 0

Call == Begin \/ SendBulk \/ WaitForXfer \/ WaitTimesOut \/ FinishDataXfer \/ NextRead
        \/ AbortAndReturn
Device == Complete \/ Accept \/ Produce

HostNext == Start \/ Call \/ Device \/ Fail
HostSpec == HostInit /\ [][HostNext]_hostVars /\ WF_hostVars(Call) /\ WF_hostVars(Device)

-----------------------------------------------------------------------------
\* The counters of the loop stay in their arrays (mainwindow.cpp:238-241):
\* every index used by a Begin or a Finish names an element.
HostTypeOK ==
  /\ transfer_count \in 0 .. MaxTransfers /\ transfer_ctr \in 0 .. transfer_count
  /\ buffer_counter \in 0 .. transfer_count /\ q_ctr \in Slots
  /\ pc = "finish" => FinishIndex \in 0 .. transfer_count - 1
  /\ \A i \in Buffers : inBuf[i] \in Chunks \cup {Garbage}
  /\ \A i \in 1 .. Len(card) : card[i] \in Chunks

\* When the call returns true, and nothing of an earlier call was left in the
\* card, the buffers hold the chunks of this reply in order, and nothing is
\* left for the next call.
GoodDataOnSuccess ==
  pc = "ready" /\ status /\ clean =>
    /\ \A i \in 0 .. transfer_count - 1 : inBuf[i] = [no |-> i, stale |-> FALSE]
    /\ CardIdle

\* Reads are finished in the order the driver completes them: seen from the
\* slot the loop waits for, the reads in flight are in the order of the queue.
OldestFirst ==
  pc = "wait" =>
    \A i, j \in 1 .. Len(inflight) :
      i < j => (inflight[i] - q_ctr) % QueueSize < (inflight[j] - q_ctr) % QueueSize

\* The loop finishes every read it began, also after time-outs, failures and
\* refusals in the middle: the releases at the end find no read in flight.
EveryReadFinished ==
  pc = "abort" /\ transfer_ctr < transfer_count =>
    inflight = <<>> /\ \A s \in Slots : slot[s] = NoRead

\* A buffer that holds data of this call is not written again.
BufferWrittenOnce ==
  [][\A i \in Buffers : inBuf[i] # Garbage /\ pc # "ready" => inBuf'[i] = inBuf[i]]_hostVars

\* The buffer given to FinishDataXfer is the one the read was begun with
\* (mainwindow.cpp:301 calls it the current buffer read).
CompletionNamesItsBuffer == pc = "finish" => FinishIndex = slot[q_ctr].buf

\* Every call returns, with or without an answer of the card.
CallReturns == pc # "ready" ~> pc = "ready"
=============================================================================
