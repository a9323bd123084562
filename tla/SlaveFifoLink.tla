---------------------------- MODULE SlaveFifoLink ----------------------------
(***************************************************************************)
(* The data path of the card: the FPGA master (SlaveFifoMaster) wired to   *)
(* the sockets of the FX3 and, behind them, the application's transfers.   *)
(*                                                                         *)
(* The FX3 moves data without its CPU (AUTO channels, cyfxslfifosync.h:32).*)
(* Socket 3 holds one OUT buffer, a whole request.  Sockets 0 and 1 have   *)
(* InBufs buffers each; the many-to-one channel empties them in turn,      *)
(* socket 0 first (cyfxslfifosync.c:307-308).  What the GPIF block does    *)
(* with a strobe is modelled from its configuration: the addressed thread  *)
(* gives or takes one word per cycle, data shows on DQ two cycles after    *)
(* the read strobe.                                                        *)
(***************************************************************************)
EXTENDS SlaveFifoMaster, Sequences

CONSTANTS
  OutWords,   \* words in the OUT buffer and in a request
  InBufs,     \* DMA buffers per IN socket, 4 in cyfxslfifosync.h:43
  FlagdWords, \* FLAGD falls when this many words are left
  Counts,     \* packet counts: multiples of one transfer, or 0
  Configs,    \* channel selections, as the words 2 to 4 of a request
  Floating,   \* what DQ shows when nobody drives it
  Backlog     \* full IN buffers before the USB side takes one

ASSUME LinkAssumption ==
  /\ OutWords \in Nat /\ OutWords > 4 /\ OutWords < CtrMod
  /\ InBufs \in Nat \ {0} /\ FlagdWords \in Nat /\ Backlog \in Nat
  /\ \A n \in Counts : n \in Words /\ n % 2 = 0 /\ n * BurstWords < CtrMod
  /\ Configs \subseteq Words /\ 0 \in Words
  /\ Floating \in Words /\ Header \in Words

VARIABLES
  u2p,      \* words left in the OUT buffer of socket 3
  dq1, dq2, \* the GPIF output registers: dq2 is on the pins
  fill,     \* [0 .. 1 -> words in the buffer being filled]
  full,     \* [0 .. 1 -> full buffers waiting for USB]
  sock,     \* the socket the channel empties next
  request, owed, got \* the host: last request, packets missing, packets read

fx3Vars  == <<u2p, dq1, dq2, fill, full, sock>>
hostVars == <<request, owed, got>>
linkVars == <<masterVars, fx3Vars, hostVars>>

Requests == [count : Counts, config : Configs]

\* populate_header followed by zeros up to TX_TRANSFER_SIZE.
RequestWords(r) ==
  [i \in 1 .. OutWords |->
     CASE i = 1 -> Header
       [] i = 2 -> r.count
       [] i \in 3 .. 5 -> r.config
       [] OTHER -> 0]

-----------------------------------------------------------------------------
(* The GPIF block. *)

\* The length at which a buffer is full, DMA_BUF_SIZE * size.
BufferEnd == BurstWords

\* An IN socket can take a word: its current buffer exists.
HasBuffer(t) == Len(full[t]) < InBufs

\* FLAGA and FLAGB are both flags of thread 1; thread 0 has none.
LinkPins ==
  [FLAGA |-> IF HasBuffer(1) THEN 1 ELSE 0,
   FLAGB |-> IF HasBuffer(1) THEN 1 ELSE 0,
   FLAGC |-> IF u2p # <<>> THEN 1 ELSE 0,
   FLAGD |-> IF Len(u2p) > FlagdWords THEN 1 ELSE 0,
   DQ    |-> dq2]

Popping == SLRD_ = 0 /\ SLOE_ = 0 /\ gpif_address_d = 3
Pushing == SLWR_1d_ = 0 /\ SLRD_ = 1

\* The word on DQ during a write: its place in the reply and the selection it
\* was sampled with.
WordOut ==
  [word   |-> write_delay_cnt + (IF current_sm_state = "sm_write" THEN 1 ELSE 0),
   config |-> ch_src[0]]

ReadSide ==
  /\ dq2' = dq1
  /\ IF Popping /\ u2p # <<>>
     THEN dq1' = Head(u2p) /\ u2p' = Tail(u2p)
     ELSE dq1' = Floating /\ UNCHANGED u2p

\* A full buffer is handed over at once; a word for a socket without a buffer
\* is lost.
WriteSide ==
  LET t   == gpif_address_d
      buf == Append(fill[t], WordOut)
  IN  CASE ~Pushing \/ ~HasBuffer(t) -> UNCHANGED <<fill, full>>
        [] Pushing /\ HasBuffer(t) /\ Len(buf) < BufferEnd ->
             fill' = [fill EXCEPT ![t] = buf] /\ UNCHANGED full
        [] OTHER ->
             /\ fill' = [fill EXCEPT ![t] = <<>>]
             /\ full' = [full EXCEPT ![t] = Append(@, buf)]

\* A reply that fits into the buffers may wait for the host as long as it likes; in a
\* longer one the USB side may fall behind by Backlog full buffers, not more.
KeepsUp ==
  \/ request.count <= 2 * InBufs
  \/ full[sock] = <<>>
  \/ Len(full[0]) + Len(full[1]) <= Backlog

Tick == KeepsUp /\ Clock(LinkPins) /\ ReadSide /\ WriteSide /\ UNCHANGED <<sock, hostVars>>

-----------------------------------------------------------------------------
(* The host: send_bulk, and the reads of send_and_read_bulk. *)

\* The OUT endpoint accepts a request when the only OUT buffer is free; the
\* application sends one when it does not wait for packets.
Submit(r) ==
  /\ owed = 0 /\ u2p = <<>>
  /\ u2p' = RequestWords(r)
  /\ request' = r /\ owed' = r.count /\ got' = <<>>
  /\ UNCHANGED <<masterVars, dq1, dq2, fill, full, sock>>

Deliver ==
  /\ owed > 0 /\ full[sock] # <<>>
  /\ got' = Append(got, Head(full[sock])) /\ owed' = owed - 1
  /\ full' = [full EXCEPT ![sock] = Tail(@)]
  /\ sock' = 1 - sock
  /\ UNCHANGED <<masterVars, u2p, dq1, dq2, fill, request>>

LinkInit ==
  /\ MasterInit
  /\ u2p = <<>> /\ dq1 = Floating /\ dq2 = Floating
  /\ fill = [t \in 0 .. 1 |-> <<>>] /\ full = [t \in 0 .. 1 |-> <<>>]
  /\ sock = 0
  /\ request \in [count : {0}, config : {ChDisabled}] /\ owed = 0 /\ got = <<>>

LinkNext == Tick \/ Deliver \/ \E r \in Requests : Submit(r)

LinkSpec == LinkInit /\ [][LinkNext]_linkVars /\ WF_linkVars(Tick) /\ WF_linkVars(Deliver)

-----------------------------------------------------------------------------
\* The sockets and the host hold what their types say.
LinkTypeOK ==
  /\ TypeOK
  /\ u2p \in Seq(Words) /\ dq1 \in Words /\ dq2 \in Words
  /\ \A t \in 0 .. 1 : Len(fill[t]) < BurstWords /\ Len(full[t]) <= InBufs
  /\ sock \in 0 .. 1
  /\ owed \in 0 .. request.count

\* A request is read to its last word and not beyond: no strobe finds the OUT
\* buffer empty, and when the turn-around begins nothing of it is left, so the
\* next read starts at the header of a request.
WholeRequests ==
  /\ Popping => u2p # <<>>
  /\ SLRD_ = 1 => Len(u2p) \in {0, OutWords}

\* No word of a reply is lost: although only thread 1 is asked for space, and
\* only once, both sockets have a buffer for every word written to them.
NoWordLost == Pushing => HasBuffer(gpif_address_d)

\* The reply being sent is the answer to the request last submitted: count,
\* channel selection and LEDs are those of its header.
ReplyFollowsRequest ==
  current_sm_state \in Replying =>
    /\ packets_to_send = request.count
    /\ ch_src = [h \in 0 .. 1 |-> request.config]
    /\ USER_LED = 15 - (request.config % 16)

\* A reply is complete and nothing is left over: once the master is back in
\* idle without a request, the sockets hold the packets the host is owed.
SocketsHoldReply ==
  current_sm_state = "sm_idle" /\ SLWR_1d_ = 1 /\ u2p = <<>> =>
    /\ Len(full[0]) + Len(full[1]) = owed
    /\ fill = [t \in 0 .. 1 |-> <<>>]

\* The card keeps its promise: packets arrive whole, in order and complete.
Card == INSTANCE AcquisitionCard
          WITH request <- request, owed <- owed, got <- got
CardImplemented == Card!CardSpec
=============================================================================
