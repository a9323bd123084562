------------------------- MODULE SlaveFifoLinkProofs -------------------------
(***************************************************************************)
(* Proofs about SlaveFifoLink, for requests, packets and replies of any    *)
(* length, in two parts.                                                   *)
(*  - The FPGA takes exactly one request out of the FX3, and replies to it *)
(*    with the count and the selection that the request names.  FLAGD must *)
(*    fall when four words are left, as the watermark and the delays of    *)
(*    main.v are made for.                                                 *)
(*  - No word of a reply is lost, though the FPGA asks for room once and   *)
(*    for thread 1 only, and in idle the sockets hold the packets that the *)
(*    host is owed.  The reason is that both sides take turns: the FPGA    *)
(*    with the threads, the channel with the sockets.  Either no reply is  *)
(*    longer than the buffers of both sockets, or the USB side falls       *)
(*    behind by less than those buffers.  Then every packet reaches the    *)
(*    host as AcquisitionCard promises it.                                 *)
(***************************************************************************)
EXTENDS SlaveFifoLink, SlaveFifoMasterProofs

RW      == RequestWords(request)
Length  == Len(u2p)
PopStates == {"sm_read", "sm_read_rd_and_oe_delay"}
Quiet   == SLRD_d1_ = 1 /\ SLRD_d2_ = 1 /\ SLRD_d3_ = 1

\* The read strobe in the cycle that takes word k.
Strobe(k) == IF k \in 1 .. OutWords THEN 0 ELSE 1

\* The strobes under way k cycles after the first, and the parser behind them.
StrobesAt(k) ==
  /\ SLRD_d1_ = Strobe(k) /\ SLRD_d2_ = Strobe(k - 1) /\ SLRD_d3_ = Strobe(k - 2)
  /\ packet_index = IF k >= 3 THEN k - 3 ELSE 0

\* The words under way, and the fields of the request that are parsed.
FieldsAt(k) ==
  /\ k \in 1 .. OutWords => dq1 = RW[k]
  /\ k - 1 \in 1 .. OutWords => dq2 = RW[k - 1]
  /\ k - 2 \in 1 .. OutWords => DQ_d = RW[k - 2]
  /\ valid_packet = IF k >= 4 THEN 1 ELSE 0
  /\ k >= 5 => packets_to_send = request.count
  /\ k >= 6 => ch_src[0] = request.config
  /\ k >= 7 => ch_src[1] = request.config
  /\ k >= 8 => USER_LED = 15 - (request.config % 16)

\* The OUT buffer holds the end of the last request.
BufferOK ==
  /\ request.count \in Counts \cup {0} /\ request.config \in Configs \cup {ChDisabled}
  /\ Length <= OutWords
  /\ \A i \in 1 .. Length : u2p[i] = RW[OutWords - Length + i]

\* Where the words of a request are, state by state.
ReadInv ==
  /\ SLWR_1d_ = 0 => /\ current_sm_state \in {"sm_write", "sm_write_wr_delay"}
                     /\ gpif_address_d \in 0 .. 1
  /\ current_sm_state \notin PopStates =>
       Length \in {0, OutWords} /\ (FLAGD_d = 1 => Length = OutWords)
  /\ current_sm_state \in PopStates \cup {"sm_wait_flagd"} => gpif_address_d = 3
  /\ current_sm_state = "sm_idle" => Quiet
  /\ current_sm_state \in {"sm_flagc_rcvd", "sm_wait_flagd"} =>
       Quiet /\ packet_index = 0 /\ valid_packet = 0
  /\ current_sm_state \in PopStates =>
       StrobesAt(OutWords - Length) /\ FieldsAt(OutWords - Length)
  /\ current_sm_state = "sm_read" => IF FLAGD_d = 1 THEN Length >= 4 ELSE Length = 3
  /\ current_sm_state = "sm_read_rd_and_oe_delay" => Length = rd_oe_delay_cnt + 1
  /\ current_sm_state = "sm_read_oe_delay" =>
       /\ StrobesAt(OutWords + 2 - oe_delay_cnt)
       /\ IF Length = 0 THEN FieldsAt(OutWords + 2 - oe_delay_cnt) ELSE packets_to_send = 0
  /\ current_sm_state \in Replying =>
       /\ Quiet /\ packet_index \notin 1 .. 4 /\ Length = 0
       /\ packets_to_send # 0 /\ packets_to_send = request.count
       /\ ch_src[0] = request.config /\ ch_src[1] = request.config
       /\ USER_LED = 15 - (request.config % 16)

\* Words of the reply in the sockets or read by the host, and words written.
Reply == request.count * BurstWords
Arrived ==
  (request.count - owed) * BurstWords + (Len(full[0]) + Len(full[1])) * BurstWords
    + Len(fill[0]) + Len(fill[1])
Written ==
  IF Length > 0 \/ current_sm_state \in PopStates
       \/ current_sm_state \in {"sm_read_oe_delay", "sm_wait_flaga", "sm_wait_flagb"} THEN 0
  ELSE IF current_sm_state = "sm_write"
       THEN IF SLWR_1d_ = 1 THEN 0 ELSE Reply - 2 - write_delay_cnt
  ELSE IF current_sm_state = "sm_write_wr_delay" THEN Reply - 1
  ELSE Reply

\* No more words arrive than are written: a request is not overtaken.
ReplyInv ==
  /\ current_sm_state = "sm_wait_flagb" => write_delay_cnt = Reply - 1
  /\ current_sm_state = "sm_write" =>
       IF SLWR_1d_ = 1 THEN write_delay_cnt = Reply - 1 ELSE write_delay_cnt <= Reply - 2
  /\ Arrived <= Written

SocketsOK ==
  /\ fill \in [0 .. 1 -> Seq([word : Int, config : 0 .. CtrMod - 1])]
  /\ full \in [0 .. 1 -> Seq(Seq([word : Int, config : 0 .. CtrMod - 1]))]

LinkInv == LinkTypeOK /\ BufferOK /\ SocketsOK /\ ReadInv /\ ReplyInv

-----------------------------------------------------------------------------
(* The parser, one word at a time. *)

LEMMA HeaderWords ==
  ASSUME LinkAssumption
  PROVE  /\ RW[1] = Header /\ RW[2] = request.count /\ RW[3] = request.config
         /\ RW[4] = request.config /\ RW[5] = request.config
BY DEF LinkAssumption, RequestWords, RW

LEMMA RequestType ==
  ASSUME LinkAssumption, NEW r \in Requests
  PROVE  RequestWords(r) \in Seq(Words) /\ Len(RequestWords(r)) = OutWords
<1>1. r.count \in Words /\ r.config \in Words BY DEF LinkAssumption, Requests
<1>2. RequestWords(r) \in [1 .. OutWords -> Words]
  BY <1>1 DEF LinkAssumption, RequestWords
<1>3. OutWords \in Nat BY DEF LinkAssumption
<1> QED BY <1>2, <1>3

\* Small positions do not wrap.
LEMMA NoWrap ==
  ASSUME LinkAssumption, MasterAssumption, NEW k \in Nat, k <= OutWords PROVE k % CtrMod = k
BY DEF LinkAssumption, MasterAssumption

LEMMA StrobeStep ==
  ASSUME LinkAssumption, MasterAssumption, NEW k \in Nat, k <= OutWords + 2, StrobesAt(k),
         SLRD_ = Strobe(k + 1), FlopStrobes, CheckHeader
  PROVE  StrobesAt(k + 1)'
<1>1. SLRD_d1_' = Strobe(k + 1) /\ SLRD_d2_' = Strobe(k) /\ SLRD_d3_' = Strobe(k - 1)
  BY DEF StrobesAt, FlopStrobes
<1>2. OutWords \in Nat /\ OutWords > 4 BY DEF LinkAssumption
<1>3. packet_index' = IF k >= 2 THEN k - 2 ELSE 0
  <2>1. CASE k >= 3
    <3>1. SLRD_d3_ = 0 BY <1>2, <2>1 DEF StrobesAt, Strobe
    <3>2. packet_index + 1 = k - 2 BY <2>1 DEF StrobesAt
    <3>3. packet_index' = (k - 2) % CtrMod BY <3>1, <3>2 DEF CheckHeader, read_ready
    <3>4. k - 2 \in Nat /\ k - 2 <= OutWords BY <1>2, <2>1
    <3> QED BY <2>1, <3>3, <3>4, NoWrap
  <2>2. CASE ~ (k >= 3)
    <3>1. SLRD_d3_ = 1 BY <1>2, <2>2 DEF StrobesAt, Strobe
    <3>2. packet_index' = 0 BY <3>1 DEF CheckHeader, read_ready
    <3> QED BY <2>2, <3>2
  <2> QED BY <2>1, <2>2
<1>4. /\ k + 1 - 1 = k /\ k + 1 - 2 = k - 1 /\ (k + 1 >= 3 <=> k >= 2) /\ k + 1 - 3 = k - 2
  OBVIOUS
<1> QED BY <1>1, <1>3, <1>4 DEF StrobesAt

\* The word that the parser takes, in the cycle that it takes it.
LEMMA WordTaken ==
  ASSUME LinkAssumption, NEW k \in Nat, StrobesAt(k), FieldsAt(k)
  PROVE  IF k \in 3 .. OutWords + 2
         THEN read_ready /\ read_data = RW[k - 2] /\ packet_index = k - 3
         ELSE ~ read_ready
<1>1. OutWords \in Nat /\ OutWords > 4 BY DEF LinkAssumption
<1>2. k - 2 \in 1 .. OutWords <=> k \in 3 .. OutWords + 2 BY <1>1
<1> QED BY <1>1, <1>2 DEF StrobesAt, FieldsAt, Strobe, read_ready, read_data

LEMMA FieldStep ==
  ASSUME LinkAssumption, NEW k \in Nat, k <= OutWords + 2, StrobesAt(k), FieldsAt(k),
         CheckHeader, ParsePacket, request' = request,
         k + 1 \in 1 .. OutWords => dq1' = RW[k + 1],
         dq2' = dq1, DQ_d' = dq2
  PROVE  FieldsAt(k + 1)'
<1> DEFINE j == k + 1
<1>1. OutWords \in Nat /\ OutWords > 4 BY DEF LinkAssumption
<1>2. RW' = RW BY DEF RW
<1>3. /\ k \in 1 .. OutWords => dq2' = RW[k]
      /\ k - 1 \in 1 .. OutWords => DQ_d' = RW[k - 1]
  BY DEF FieldsAt
<1>4. IF k \in 3 .. OutWords + 2
      THEN read_ready /\ read_data = RW[k - 2] /\ packet_index = k - 3
      ELSE ~ read_ready
  BY WordTaken
<1>5. k < 3 \/ k \in 3 .. OutWords + 2 BY <1>1
<1>6. valid_packet = IF k >= 4 THEN 1 ELSE 0 BY DEF FieldsAt
<1>7. valid_packet' = IF k >= 3 THEN 1 ELSE 0
  <2>1. CASE k < 3 BY <1>4, <2>1 DEF CheckHeader
  <2>2. CASE k = 3
    <3>1. read_data = Header /\ packet_index = 0 /\ read_ready
      BY <1>1, <1>4, <2>2, HeaderWords
    <3> QED BY <2>2, <3>1 DEF CheckHeader
  <2>3. CASE k >= 4
    <3>1. packet_index # 0 /\ read_ready BY <1>4, <1>5, <2>3
    <3>2. valid_packet' = valid_packet BY <3>1 DEF CheckHeader
    <3> QED BY <1>6, <2>3, <3>2
  <2> QED BY <2>1, <2>2, <2>3
<1>8. /\ packets_to_send' = IF k = 4 THEN read_data ELSE packets_to_send
      /\ ch_src'[0] = IF k = 5 THEN read_data ELSE ch_src[0]
      /\ ch_src'[1] = IF k = 6 THEN read_data ELSE ch_src[1]
      /\ USER_LED' = IF k = 7 THEN 15 - (read_data % 16) ELSE USER_LED
  <2>1. \A i \in 1 .. 4 : (valid_packet = 1 /\ packet_index = i) <=> k = i + 3
    BY <1>1, <1>4, <1>5, <1>6 DEF StrobesAt
  <2> QED BY <2>1 DEF ParsePacket
<1>9. /\ k = 4 => read_data = request.count
      /\ k = 5 => read_data = request.config
      /\ k = 6 => read_data = request.config
      /\ k = 7 => read_data = request.config
  BY <1>1, <1>4, HeaderWords
<1>10. /\ k >= 5 => packets_to_send = request.count
       /\ k >= 6 => ch_src[0] = request.config
       /\ k >= 7 => ch_src[1] = request.config
       /\ k >= 8 => USER_LED = 15 - (request.config % 16)
  BY DEF FieldsAt
<1>11. /\ k >= 4 => packets_to_send' = request'.count
       /\ k >= 5 => ch_src'[0] = request'.config
       /\ k >= 6 => ch_src'[1] = request'.config
       /\ k >= 7 => USER_LED' = 15 - (request'.config % 16)
  BY <1>8, <1>9, <1>10
<1>12. /\ j - 1 = k /\ j - 2 = k - 1 /\ (j >= 4 <=> k >= 3) /\ (j >= 5 <=> k >= 4)
       /\ (j >= 6 <=> k >= 5) /\ (j >= 7 <=> k >= 6) /\ (j >= 8 <=> k >= 7)
  OBVIOUS
<1>13. j \in 1 .. OutWords => dq1' = RW'[j] BY <1>2
<1> HIDE DEF j
<1>14. FieldsAt(j)' BY <1>2, <1>3, <1>7, <1>11, <1>12, <1>13 DEF FieldsAt
<1> QED BY <1>14 DEF j

-----------------------------------------------------------------------------
(* One clock: what the GPIF block takes, and what the registers do. *)

\* A clock runs every block; the host stands still.
LEMMA TickFacts ==
  ASSUME LinkInv, Tick
  PROVE  /\ LinkPins \in Pins /\ Registers(LinkPins) /\ Clock(LinkPins)
         /\ FlopStrobes /\ CheckHeader /\ ParsePacket /\ RdOeDelay /\ OeDelay /\ WriteDelay
         /\ FLAGD_d' = IF Length > FlagdWords THEN 1 ELSE 0
         /\ DQ_d' = dq2 /\ dq2' = dq1
         /\ request' = request /\ owed' = owed /\ sock' = sock
         /\ ReadSide /\ WriteSide
<1>1. LinkPins \in Pins BY DEF LinkInv, LinkTypeOK, LinkPins, Pins
<1>2. Clock(LinkPins) /\ ReadSide /\ WriteSide /\ UNCHANGED <<sock, hostVars>> BY DEF Tick
<1>3. Registers(LinkPins)
  BY <1>2, Zenon DEF Clock, Idle, FlagcRcvd, WaitFlagd, Read, ReadRdAndOeDelay,
     ReadOeDelay, WaitFlaga, WaitFlagb, Write, WriteWrDelay
<1>4. FLAGD_d' = LinkPins.FLAGD /\ DQ_d' = LinkPins.DQ BY <1>3 DEF Registers, FlopPins
<1>5. FLAGD_d' = (IF Length > FlagdWords THEN 1 ELSE 0) /\ DQ_d' = dq2
  BY <1>4 DEF LinkPins, Length
<1>6. request' = request /\ owed' = owed /\ sock' = sock BY <1>2 DEF hostVars
<1>7. dq2' = dq1 BY <1>2 DEF ReadSide
<1> QED BY <1>1, <1>2, <1>3, <1>5, <1>6, <1>7, Zenon DEF Registers

\* While it reads, the FX3 gives one word of the request per clock.
LEMMA PopStep ==
  ASSUME LinkAssumption, LinkInv, Tick, current_sm_state \in PopStates
  PROVE  /\ Length \in 1 .. OutWords /\ Length' = Length - 1 /\ BufferOK'
         /\ u2p' \in Seq(Words) /\ dq1' \in Words
         /\ dq1' = RW[OutWords - Length + 1]
<1>1. Popping BY DEF LinkInv, ReadInv, Popping, SLRD_, SLOE_, PopStates
<1>2. OutWords \in Nat /\ u2p \in Seq(Words) /\ Length \in Nat /\ Length <= OutWords
  BY DEF LinkAssumption, LinkInv, LinkTypeOK, BufferOK, Length
<1>3. Length >= 1
  <2>1. current_sm_state = "sm_read" \/ current_sm_state = "sm_read_rd_and_oe_delay"
    BY DEF PopStates
  <2>2. FLAGD_d \in 0 .. 1 /\ rd_oe_delay_cnt \in 0 .. 1 BY DEF LinkInv, LinkTypeOK, TypeOK
  <2> QED BY <1>2, <2>1, <2>2 DEF LinkInv, ReadInv
<1>4. u2p # <<>> BY <1>2, <1>3 DEF Length
<1>5. dq1' = Head(u2p) /\ u2p' = Tail(u2p) BY <1>1, <1>4, TickFacts DEF ReadSide
<1>6. Head(u2p) = u2p[1] BY <1>2, <1>4
<1>7. dq1' = RW[OutWords - Length + 1] BY <1>2, <1>3, <1>5, <1>6 DEF LinkInv, BufferOK
<1>8. u2p' \in Seq(Words) /\ dq1' \in Words BY <1>2, <1>4, <1>5
<1>9. Length' = Length - 1 BY <1>2, <1>4, <1>5 DEF Length
<1>10. request' = request /\ RW' = RW BY TickFacts DEF RW
<1>11. \A i \in 1 .. Length' : u2p'[i] = RW'[OutWords - Length' + i]
  <2>1. TAKE i \in 1 .. Length'
  <2>2. u2p'[i] = u2p[i + 1] BY <1>2, <1>4, <1>5, <1>9, <2>1 DEF Length
  <2>3. i + 1 \in 1 .. Length /\ OutWords - Length' + i = OutWords - Length + (i + 1)
    BY <1>2, <1>3, <1>9, <2>1
  <2> QED BY <1>10, <2>2, <2>3 DEF LinkInv, BufferOK
<1>12. BufferOK' BY <1>2, <1>3, <1>9, <1>10, <1>11 DEF LinkInv, BufferOK
<1> QED BY <1>2, <1>3, <1>7, <1>8, <1>9, <1>12

\* Otherwise the request stays where it is.
LEMMA HoldStep ==
  ASSUME LinkAssumption, LinkInv, Tick, current_sm_state \notin PopStates
  PROVE  /\ u2p' = u2p /\ Length' = Length /\ BufferOK'
         /\ u2p' \in Seq(Words) /\ dq1' \in Words
<1>1. ~ Popping BY DEF Popping, SLRD_, PopStates
<1>2. u2p' = u2p /\ dq1' = Floating BY <1>1, TickFacts DEF ReadSide
<1>3. request' = request BY TickFacts
<1>4. Length' = Length /\ RW' = RW BY <1>2, <1>3 DEF Length, RW
<1>5. BufferOK' BY <1>2, <1>3, <1>4 DEF LinkInv, BufferOK
<1> QED BY <1>2, <1>4, <1>5 DEF LinkInv, LinkTypeOK, LinkAssumption

\* The sockets take at most one word per clock, and only during a reply.
LEMMA SocketStep ==
  ASSUME LinkAssumption, MasterAssumption, LinkInv, Tick
  PROVE  /\ SocketsOK'
         /\ \A t \in 0 .. 1 : Len(fill'[t]) < BurstWords /\ Len(full'[t]) <= InBufs
         /\ IF SLWR_1d_ = 0 THEN Arrived' <= Arrived + 1 ELSE Arrived' = Arrived
         /\ Arrived \in Int /\ Arrived' \in Int
<1> DEFINE t == gpif_address_d
           Word == [word : Int, config : 0 .. CtrMod - 1]
           Buffers == Len(full[0]) + Len(full[1])
           Filling == Len(fill[0]) + Len(fill[1])
<1>1. BurstWords \in Nat /\ BurstWords > 0 BY DEF MasterAssumption
<1>2. fill \in [0 .. 1 -> Seq(Word)] /\ full \in [0 .. 1 -> Seq(Seq(Word))]
  BY DEF LinkInv, SocketsOK
<1>3. \A u \in 0 .. 1 : Len(fill[u]) < BurstWords /\ Len(full[u]) <= InBufs
  BY DEF LinkInv, LinkTypeOK
<1>4. request' = request /\ owed' = owed /\ WriteSide BY TickFacts
<1>13. \A u \in 0 .. 1 : Len(fill[u]) \in Nat /\ Len(full[u]) \in Nat BY <1>2
<1>14. /\ Len(fill[0]) \in Nat /\ Len(fill[1]) \in Nat
       /\ Len(full[0]) \in Nat /\ Len(full[1]) \in Nat
  BY <1>2
<1>5. Buffers \in Nat /\ Filling \in Nat BY <1>2, <1>14
<1>6. \E c \in Int : c = (request.count - owed) * BurstWords
  <2>1. request.count \in Int
    <3>1. Counts \subseteq Words BY DEF LinkAssumption
    <3>3. Words \subseteq Int BY DEF MasterAssumption
    <3>2. request.count \in Counts \cup {0} BY DEF LinkInv, BufferOK
    <3> QED BY <3>1, <3>2, <3>3
  <2>2. owed \in Int BY <2>1 DEF LinkInv, LinkTypeOK
  <2> QED BY <1>1, <2>1, <2>2
<1>7. PICK c \in Int : c = (request.count - owed) * BurstWords BY <1>6
<1>8. Arrived = c + Buffers * BurstWords + Filling BY <1>2, <1>5, <1>7 DEF Arrived
<1>9. ASSUME SocketsOK' PROVE Arrived' = c + Buffers' * BurstWords + Filling'
  <2>1. c = (request'.count - owed') * BurstWords BY <1>4, <1>7
  <2>2. fill' \in [0 .. 1 -> Seq(Word)] /\ full' \in [0 .. 1 -> Seq(Seq(Word))]
    BY <1>9 DEF SocketsOK
  <2>3. Buffers' * BurstWords \in Int BY <1>1, <2>2
  <2> QED BY <1>7, <2>1, <2>2, <2>3 DEF Arrived
<1>10. Buffers * BurstWords \in Int BY <1>1, <1>5
<1>11. CASE ~ Pushing \/ ~ HasBuffer(t)
  <2>1. fill' = fill /\ full' = full BY <1>4, <1>11 DEF WriteSide
  <2>2. Buffers' = Buffers /\ Filling' = Filling BY <2>1
  <2>3. SocketsOK' BY <2>1 DEF LinkInv, SocketsOK
  <2> HIDE DEF Buffers, Filling
  <2> QED BY <1>3, <1>5, <1>8, <1>9, <1>10, <2>1, <2>2, <2>3
<1>12. CASE Pushing /\ HasBuffer(t)
  <2>1. SLWR_1d_ = 0 BY <1>12 DEF Pushing
  <2>2. t \in 0 .. 1 BY <2>1 DEF LinkInv, ReadInv
  <2>3. WordOut \in Word
    <3>1. write_delay_cnt \in Int /\ ch_src[0] \in 0 .. CtrMod - 1
      BY DEF LinkInv, LinkTypeOK, TypeOK, MasterAssumption
    <3> QED BY <3>1 DEF WordOut
  <2>4. Len(full[t]) < InBufs BY <1>12 DEF HasBuffer
  <2> DEFINE buf == Append(fill[t], WordOut)
  <2>5. buf \in Seq(Word) /\ Len(buf) = Len(fill[t]) + 1 BY <1>2, <2>2, <2>3
  <2>6. CASE Len(buf) < BufferEnd
    <3>1. fill' = [fill EXCEPT ![t] = buf] /\ full' = full
      BY <1>4, <1>12, <2>6 DEF WriteSide
    <3>2. fill' \in [0 .. 1 -> Seq(Word)] BY <1>2, <2>2, <2>5, <3>1
    <3>3. fill'[t] = buf /\ \A u \in 0 .. 1 : u # t => fill'[u] = fill[u]
      BY <1>2, <2>2, <3>1
    <3>4. SocketsOK' BY <3>1, <3>2 DEF LinkInv, SocketsOK
    <3>5. \A u \in 0 .. 1 : Len(fill'[u]) < BurstWords
      BY <1>3, <2>6, <3>3 DEF BufferEnd
    <3>6. Filling' = Filling + 1
      <4>1. Len(fill'[t]) = Len(fill[t]) + 1 BY <2>5, <3>3
      <4>2. CASE t = 0
        <5>1. fill'[1] = fill[1] BY <3>3, <4>2
        <5>2. Len(fill'[0]) = Len(fill[0]) + 1 BY <4>1, <4>2
        <5> QED BY <1>2, <1>14, <3>2, <5>1, <5>2
      <4>3. CASE t = 1
        <5>1. fill'[0] = fill[0] BY <3>3, <4>3
        <5>2. Len(fill'[1]) = Len(fill[1]) + 1 BY <4>1, <4>3
        <5> QED BY <1>2, <1>14, <3>2, <5>1, <5>2
      <4>4. t = 0 \/ t = 1 BY <2>2
      <4> QED BY <4>2, <4>3, <4>4, Zenon
    <3>7. Buffers' = Buffers BY <3>1
    <3> HIDE DEF Buffers, Filling
    <3>8. Arrived' = Arrived + 1 BY <3>4, <1>5, <1>8, <1>9, <1>10, <3>6, <3>7
    <3>9. Arrived \in Int BY <1>5, <1>8, <1>10
    <3> QED BY <1>3, <2>1, <3>1, <3>4, <3>5, <3>8, <3>9
  <2>7. CASE ~ (Len(buf) < BufferEnd)
    <3>1. fill' = [fill EXCEPT ![t] = <<>>] /\ full' = [full EXCEPT ![t] = Append(@, buf)]
      BY <1>4, <1>12, <2>7 DEF WriteSide
    <3>2. <<>> \in Seq(Word) /\ Append(full[t], buf) \in Seq(Seq(Word))
          /\ Len(Append(full[t], buf)) = Len(full[t]) + 1
      BY <1>2, <2>2, <2>5
    <3>3. /\ fill'[t] = <<>> /\ full'[t] = Append(full[t], buf)
          /\ \A u \in 0 .. 1 : u # t => fill'[u] = fill[u] /\ full'[u] = full[u]
      BY <1>2, <2>2, <3>1
    <3>8. fill' \in [0 .. 1 -> Seq(Word)] /\ full' \in [0 .. 1 -> Seq(Seq(Word))]
      <4>1. fill' \in [0 .. 1 -> Seq(Word)] BY <1>2, <2>2, <3>1, <3>2
      <4>2. full' \in [0 .. 1 -> Seq(Seq(Word))] BY <1>2, <2>2, <3>1, <3>2
      <4> QED BY <4>1, <4>2
    <3>4. SocketsOK' BY <3>8 DEF SocketsOK
    <3>5. \A u \in 0 .. 1 : Len(fill'[u]) < BurstWords /\ Len(full'[u]) <= InBufs
      <4>1. TAKE u \in 0 .. 1
      <4>2. CASE u = t
        <5>1. Len(full[t]) \in Nat /\ InBufs \in Int BY <1>2, <2>2 DEF LinkAssumption
        <5>2. Len(fill'[t]) = 0 BY <3>3
        <5>3. Len(full'[t]) <= InBufs BY <2>4, <3>2, <3>3, <5>1
        <5> QED BY <1>1, <4>2, <5>2, <5>3
      <4>3. CASE u # t BY <1>3, <3>3, <4>1, <4>3
      <4> QED BY <4>2, <4>3
    <3>6. Len(fill[t]) = BurstWords - 1
      <4>1. Len(fill[t]) \in Nat /\ Len(fill[t]) < BurstWords BY <1>3, <1>13, <2>2
      <4>2. ~ (Len(fill[t]) + 1 < BurstWords) BY <2>5, <2>7 DEF BufferEnd
      <4> QED BY <1>1, <4>1, <4>2
    <3>7. Filling' = Filling - (BurstWords - 1) /\ Buffers' = Buffers + 1
      <4>1. Len(fill'[t]) = 0 /\ Len(full'[t]) = Len(full[t]) + 1 BY <3>2, <3>3
      <4>2. CASE t = 0
        <5>1. fill'[1] = fill[1] /\ full'[1] = full[1] BY <3>3, <4>2
        <5>2. /\ Len(fill[0]) = BurstWords - 1 /\ Len(fill'[0]) = 0
              /\ Len(full'[0]) = Len(full[0]) + 1
          BY <3>6, <4>1, <4>2
        <5> QED BY <1>1, <1>2, <1>14, <3>8, <5>1, <5>2
      <4>3. CASE t = 1
        <5>1. fill'[0] = fill[0] /\ full'[0] = full[0] BY <3>3, <4>3
        <5>2. /\ Len(fill[1]) = BurstWords - 1 /\ Len(fill'[1]) = 0
              /\ Len(full'[1]) = Len(full[1]) + 1
          BY <3>6, <4>1, <4>3
        <5> QED BY <1>1, <1>2, <1>14, <3>8, <5>1, <5>2
      <4>4. t = 0 \/ t = 1 BY <2>2
      <4> QED BY <4>2, <4>3, <4>4, Zenon
    <3> HIDE DEF Buffers, Filling
    <3>9. Buffers' * BurstWords = Buffers * BurstWords + BurstWords BY <1>1, <1>5, <3>7
    <3>10. Arrived' = Arrived + 1 BY <1>1, <3>4, <1>5, <1>8, <1>9, <1>10, <3>7, <3>9
    <3>11. Arrived \in Int BY <1>5, <1>8, <1>10
    <3> QED BY <2>1, <3>4, <3>5, <3>10, <3>11
  <2> QED BY <2>6, <2>7
<1> QED BY <1>11, <1>12

-----------------------------------------------------------------------------
(* The read of a request. *)

\* While words are taken, the pipeline and the parser follow them.
LEMMA PopPipeline ==
  ASSUME LinkAssumption, MasterAssumption, LinkInv, Tick, current_sm_state \in PopStates
  PROVE  StrobesAt(OutWords - Length)' /\ FieldsAt(OutWords - Length)'
<1>1. /\ Length \in 1 .. OutWords /\ Length' = Length - 1
      /\ dq1' = RW[OutWords - Length + 1]
  BY PopStep
<1>2. OutWords \in Nat BY DEF LinkAssumption
<1>3. PICK k \in Nat : k = OutWords - Length BY <1>1, <1>2
<1>4. k <= OutWords + 2 /\ k + 1 = OutWords - Length' /\ k + 1 \in 1 .. OutWords
  BY <1>1, <1>2, <1>3
<1>5. StrobesAt(k) /\ FieldsAt(k) BY <1>3 DEF LinkInv, ReadInv
<1>6. SLRD_ = Strobe(k + 1) BY <1>4 DEF SLRD_, PopStates, Strobe
<1>7. StrobesAt(k + 1)' BY <1>4, <1>5, <1>6, StrobeStep, TickFacts
<1>8. dq1' = RW[k + 1] BY <1>1, <1>3
<1>9. FieldsAt(k + 1)' BY <1>4, <1>5, <1>8, FieldStep, TickFacts
<1> QED BY <1>4, <1>7, <1>9 DEF StrobesAt, FieldsAt

\* Behind the last word too, until the pipeline is empty.
LEMMA DrainPipeline ==
  ASSUME LinkAssumption, MasterAssumption, LinkInv, Tick,
         current_sm_state = "sm_read_oe_delay",
         NEW k \in Nat, k = OutWords + 2 - oe_delay_cnt
  PROVE  StrobesAt(k) /\ StrobesAt(k + 1)' /\ (Length = 0 => FieldsAt(k) /\ FieldsAt(k + 1)')
<1>1. OutWords \in Nat /\ OutWords > 4 /\ oe_delay_cnt \in 0 .. 2
  BY DEF LinkAssumption, LinkInv, LinkTypeOK, TypeOK
<1>2. k <= OutWords + 2 /\ k + 1 \notin 1 .. OutWords BY <1>1
<1>3. StrobesAt(k) /\ (Length = 0 => FieldsAt(k)) BY DEF LinkInv, ReadInv
<1>4. SLRD_ = Strobe(k + 1) BY <1>2 DEF SLRD_, Strobe
<1>5. StrobesAt(k + 1)' BY <1>2, <1>3, <1>4, StrobeStep, TickFacts
<1>6. Length = 0 => FieldsAt(k + 1)' BY <1>2, <1>3, FieldStep, TickFacts
<1> QED BY <1>3, <1>5, <1>6

\* In the other states the pipeline is empty and the fields stay.
LEMMA QuietPipeline ==
  ASSUME LinkInv, Tick, current_sm_state \notin PopStates \cup {"sm_read_oe_delay"}
  PROVE  /\ Quiet' /\ packet_index' = 0 /\ valid_packet' = 0
         /\ current_sm_state \in Replying =>
              packets_to_send' = packets_to_send /\ ch_src'[0] = ch_src[0]
                /\ ch_src'[1] = ch_src[1] /\ USER_LED' = USER_LED
<1>1. Quiet
  <2>1. current_sm_state \in SmStates BY DEF LinkInv, LinkTypeOK, TypeOK
  <2> QED BY <2>1 DEF LinkInv, ReadInv, SmStates, PopStates, Replying
<1>2. SLRD_ = 1 BY DEF SLRD_, PopStates
<1>3. Quiet' BY <1>1, <1>2, TickFacts DEF FlopStrobes, Quiet
<1>4. packet_index' = 0 /\ valid_packet' = 0
  BY <1>1, TickFacts DEF Quiet, CheckHeader, read_ready
<1>5. ASSUME current_sm_state \in Replying
      PROVE  packets_to_send' = packets_to_send /\ ch_src'[0] = ch_src[0]
               /\ ch_src'[1] = ch_src[1] /\ USER_LED' = USER_LED
  <2>1. packet_index # 1 /\ packet_index # 2 /\ packet_index # 3 /\ packet_index # 4
    BY <1>5 DEF LinkInv, ReadInv
  <2> QED BY <2>1, TickFacts DEF ParsePacket
<1> QED BY <1>3, <1>4, <1>5

\* The state machine: one line per state.
LEMMA Transition ==
  ASSUME Tick
  PROVE  LET goes(s, c, t) == current_sm_state = s => current_sm_state' = IF c THEN t ELSE s
         IN  /\ goes("sm_idle", FLAGC_d = 1, "sm_flagc_rcvd")
             /\ goes("sm_flagc_rcvd", TRUE, "sm_wait_flagd")
             /\ goes("sm_wait_flagd", FLAGD_d = 1, "sm_read")
             /\ goes("sm_read", FLAGD_d = 0, "sm_read_rd_and_oe_delay")
             /\ goes("sm_read_rd_and_oe_delay", rd_oe_delay_cnt = 0, "sm_read_oe_delay")
             /\ goes("sm_read_oe_delay", oe_delay_cnt = 0,
                     IF packets_to_send = 0 THEN "sm_idle" ELSE "sm_wait_flaga")
             /\ goes("sm_wait_flaga", FLAGA_d = 1, "sm_wait_flagb")
             /\ goes("sm_wait_flagb", FLAGB_d = 1, "sm_write")
             /\ goes("sm_write", write_delay_cnt = 0, "sm_write_wr_delay")
             /\ goes("sm_write_wr_delay", TRUE, "sm_idle")
             /\ current_sm_state \in SmStates /\ current_sm_state' \in SmStates
<1>1. Clock(LinkPins) BY DEF Tick
<1> QED
  BY <1>1, SMT DEF Clock, Idle, FlagcRcvd, WaitFlagd, Read, ReadRdAndOeDelay, ReadOeDelay,
     WaitFlaga, WaitFlagb, Write, WriteWrDelay, StepFrom, SmStates

LEMMA ReadStep ==
  ASSUME LinkAssumption, MasterAssumption, FlagdWords = 4, LinkInv, Tick
  PROVE  ReadInv'
<1>1. OutWords \in Nat /\ OutWords > 4 BY DEF LinkAssumption
<1>2. /\ FLAGD_d \in 0 .. 1 /\ rd_oe_delay_cnt \in 0 .. 1 /\ oe_delay_cnt \in 0 .. 2
      /\ write_delay_cnt \in Nat /\ current_sm_state \in SmStates
      /\ packets_to_send \in Nat
  BY DEF LinkInv, LinkTypeOK, TypeOK, MasterAssumption
<1>3. FLAGD_d' = IF Length > 4 THEN 1 ELSE 0 BY TickFacts
<1>4. SLWR_1d_' = SLWR_ /\ gpif_address_d' = gpif_address BY TickFacts DEF FlopStrobes
<1>5. SLWR_1d_' = 0 => /\ current_sm_state' \in {"sm_write", "sm_write_wr_delay"}
                       /\ gpif_address_d' \in 0 .. 1
  <2>1. SUFFICES ASSUME SLWR_1d_' = 0
                 PROVE  /\ current_sm_state' \in {"sm_write", "sm_write_wr_delay"}
                        /\ gpif_address_d' \in 0 .. 1
    OBVIOUS
  <2>2. current_sm_state = "sm_write" BY <1>4, <2>1 DEF SLWR_
  <2>3. write_delay_cnt \div BurstWords \in Int BY <1>2 DEF MasterAssumption
  <2>4. gpif_address = (write_delay_cnt \div BurstWords) % 2
    BY <2>2 DEF gpif_address, ReadStates
  <2>5. gpif_address \in 0 .. 1 BY <2>3, <2>4
  <2> QED BY <1>4, <2>2, <2>5, Transition
<1>6. CASE current_sm_state \in PopStates
  <2>1. /\ Length \in 1 .. OutWords /\ Length' = Length - 1
        /\ StrobesAt(OutWords - Length)' /\ FieldsAt(OutWords - Length)'
    BY <1>6, PopStep, PopPipeline
  <2>2. gpif_address_d' = 3 BY <1>4, <1>6 DEF gpif_address, ReadStates, PopStates
  <2>3. CASE current_sm_state = "sm_read" /\ FLAGD_d = 1
    <3>1. Length >= 4 /\ current_sm_state' = "sm_read"
      BY <2>3, Transition DEF LinkInv, ReadInv
    <3>2. IF FLAGD_d' = 1 THEN Length' >= 4 ELSE Length' = 3 BY <1>3, <2>1, <3>1
    <3> QED BY <1>5, <2>1, <2>2, <3>1, <3>2 DEF ReadInv, PopStates, Replying
  <2>4. CASE current_sm_state = "sm_read" /\ FLAGD_d = 0
    <3>1. Length = 3 /\ current_sm_state' = "sm_read_rd_and_oe_delay"
      BY <2>4, Transition DEF LinkInv, ReadInv
    <3>2. rd_oe_delay_cnt' = 1 BY <2>4, TickFacts DEF RdOeDelay
    <3>3. Length' = rd_oe_delay_cnt' + 1 BY <2>1, <3>1, <3>2
    <3> QED BY <1>5, <2>1, <2>2, <3>1, <3>3 DEF ReadInv, PopStates, Replying
  <2>5. CASE current_sm_state = "sm_read_rd_and_oe_delay" /\ rd_oe_delay_cnt = 1
    <3>1. Length = 2 /\ current_sm_state' = "sm_read_rd_and_oe_delay"
      BY <2>5, Transition DEF LinkInv, ReadInv
    <3>2. rd_oe_delay_cnt' = 0 BY <2>5, TickFacts DEF RdOeDelay
    <3>3. Length' = rd_oe_delay_cnt' + 1 BY <2>1, <3>1, <3>2
    <3> QED BY <1>5, <2>1, <2>2, <3>1, <3>3 DEF ReadInv, PopStates, Replying
  <2>6. CASE current_sm_state = "sm_read_rd_and_oe_delay" /\ rd_oe_delay_cnt = 0
    <3>1. Length = 1 /\ current_sm_state' = "sm_read_oe_delay"
      BY <2>6, Transition DEF LinkInv, ReadInv
    <3>2. oe_delay_cnt' = 2 BY <2>6, TickFacts DEF OeDelay
    <3>3. Length' = 0 /\ FLAGD_d' = 0 BY <1>3, <2>1, <3>1
    <3>4. OutWords + 2 - oe_delay_cnt' = OutWords - Length' BY <1>1, <3>2, <3>3
    <3>5. StrobesAt(OutWords + 2 - oe_delay_cnt)' /\ FieldsAt(OutWords + 2 - oe_delay_cnt)'
      BY <2>1, <3>4 DEF StrobesAt, FieldsAt
    <3> QED BY <1>5, <3>1, <3>3, <3>5 DEF ReadInv, PopStates, Replying
  <2> QED BY <1>2, <1>6, <2>3, <2>4, <2>5, <2>6 DEF PopStates
<1>7. CASE current_sm_state = "sm_read_oe_delay"
  <2>1. Length' = Length /\ (Length = 0 \/ Length = OutWords) /\ request' = request
    BY <1>7, HoldStep, TickFacts DEF LinkInv, ReadInv, PopStates
  <2>2. FLAGD_d' = 1 => Length' = OutWords BY <1>3, <2>1
  <2>3. PICK k \in Nat : k = OutWords + 2 - oe_delay_cnt BY <1>1, <1>2
  <2>4. /\ StrobesAt(k) /\ StrobesAt(k + 1)'
        /\ Length = 0 => FieldsAt(k) /\ FieldsAt(k + 1)'
    BY <1>7, <2>3, DrainPipeline
  <2>5. Length # 0 => packets_to_send = 0 BY <1>7 DEF LinkInv, ReadInv
  <2>6. Length # 0 => packets_to_send' = 0
    <3>1. packet_index = k - 3 /\ k >= 5 BY <1>1, <1>2, <2>3, <2>4 DEF StrobesAt
    <3>2. packet_index # 1 BY <3>1
    <3> QED BY <2>5, <3>2, TickFacts DEF ParsePacket
  <2>7. CASE oe_delay_cnt > 0
    <3>1. current_sm_state' = "sm_read_oe_delay" BY <1>2, <1>7, <2>7, Transition
    <3>2. oe_delay_cnt' = oe_delay_cnt - 1 BY <1>7, <2>7, TickFacts DEF OeDelay
    <3>3. k + 1 = OutWords + 2 - oe_delay_cnt' BY <1>1, <1>2, <2>3, <3>2
    <3>4. StrobesAt(OutWords + 2 - oe_delay_cnt)' BY <2>4, <3>3 DEF StrobesAt
    <3>5. Length' = 0 => FieldsAt(OutWords + 2 - oe_delay_cnt)'
      BY <2>1, <2>4, <3>3 DEF FieldsAt
    <3>6. Length' # 0 => packets_to_send' = 0 BY <2>1, <2>6
    <3> QED BY <1>5, <2>1, <2>2, <3>1, <3>4, <3>5, <3>6 DEF ReadInv, PopStates, Replying
  <2>8. CASE oe_delay_cnt = 0
    <3>1. k = OutWords + 2 BY <1>1, <2>3, <2>8
    <3>2. Quiet' /\ packet_index' = OutWords
      BY <1>1, <2>4, <3>1 DEF StrobesAt, Strobe, Quiet
    <3>3. CASE packets_to_send = 0
      <4>1. current_sm_state' = "sm_idle" BY <1>7, <2>8, <3>3, Transition
      <4> QED BY <1>5, <2>1, <2>2, <3>2, <4>1 DEF ReadInv, PopStates, Replying
    <3>4. CASE packets_to_send # 0
      <4>1. current_sm_state' = "sm_wait_flaga" BY <1>7, <2>8, <3>4, Transition
      <4>2. Length = 0 BY <2>5, <3>4
      <4>3. k >= 7 /\ k + 1 >= 8 BY <1>1, <3>1
      <4>4. packets_to_send = request.count BY <2>4, <4>2, <4>3 DEF FieldsAt
      <4>5. /\ packets_to_send' = request'.count
            /\ ch_src'[0] = request'.config /\ ch_src'[1] = request'.config
            /\ USER_LED' = 15 - (request'.config % 16)
        BY <2>4, <4>2, <4>3 DEF FieldsAt
      <4>6. packets_to_send' # 0 BY <2>1, <3>4, <4>4, <4>5
      <4>7. packet_index' \notin 1 .. 4 BY <1>1, <3>2
      <4> QED BY <1>5, <2>1, <2>2, <3>2, <4>1, <4>2, <4>5, <4>6, <4>7
              DEF ReadInv, PopStates, Replying
    <3> QED BY <3>3, <3>4
  <2> QED BY <1>2, <2>7, <2>8
<1>8. CASE current_sm_state \notin PopStates \cup {"sm_read_oe_delay"}
  <2>1. Length' = Length /\ (Length = 0 \/ Length = OutWords)
    BY <1>8, HoldStep DEF LinkInv, ReadInv
  <2>2. FLAGD_d' = 1 => Length' = OutWords BY <1>3, <2>1
  <2>3. Quiet' /\ packet_index' = 0 /\ valid_packet' = 0 BY <1>8, QuietPipeline
  <2>4. CASE current_sm_state \in Replying
    <3>1. current_sm_state' \in Replying \cup {"sm_idle"}
      BY <2>4, Transition DEF Replying
    <3>2. /\ packets_to_send # 0 /\ packets_to_send = request.count
          /\ ch_src[0] = request.config /\ ch_src[1] = request.config
          /\ USER_LED = 15 - (request.config % 16) /\ Length = 0
      BY <2>4 DEF LinkInv, ReadInv
    <3>3. /\ packets_to_send' = packets_to_send /\ ch_src'[0] = ch_src[0]
          /\ ch_src'[1] = ch_src[1] /\ USER_LED' = USER_LED
      BY <1>8, <2>4, QuietPipeline
    <3>4. request' = request BY TickFacts
    <3> QED BY <1>5, <2>1, <2>2, <2>3, <3>1, <3>2, <3>3, <3>4 DEF ReadInv, PopStates, Replying
  <2>5. CASE current_sm_state \in {"sm_idle", "sm_flagc_rcvd"}
    <3>1. current_sm_state' \in {"sm_idle", "sm_flagc_rcvd", "sm_wait_flagd"}
      BY <2>5, Transition
    <3>2. current_sm_state' = "sm_wait_flagd" => gpif_address_d' = 3
      BY <1>4, <2>5, Transition DEF gpif_address, ReadStates
    <3> QED BY <1>5, <2>1, <2>2, <2>3, <3>1, <3>2 DEF ReadInv, PopStates, Replying
  <2>6. CASE current_sm_state = "sm_wait_flagd"
    <3>1. gpif_address_d' = 3 BY <1>4, <2>6 DEF gpif_address, ReadStates
    <3>2. IF FLAGD_d = 1 THEN current_sm_state' = "sm_read" /\ Length' = OutWords
          ELSE current_sm_state' = "sm_wait_flagd"
      BY <1>2, <2>1, <2>6, Transition DEF LinkInv, ReadInv, PopStates
    <3>3. CASE current_sm_state' = "sm_wait_flagd"
      BY <1>5, <2>1, <2>2, <2>3, <3>1, <3>3 DEF ReadInv, PopStates, Replying
    <3>4. CASE FLAGD_d = 1
      <4>1. Length' = OutWords /\ FLAGD_d' = 1 /\ current_sm_state' = "sm_read"
        BY <1>1, <1>3, <2>1, <3>2, <3>4
      <4>2. StrobesAt(0)' /\ FieldsAt(0)'
        BY <1>1, <2>3 DEF StrobesAt, FieldsAt, Strobe, Quiet
      <4>3. StrobesAt(OutWords - Length)' /\ FieldsAt(OutWords - Length)'
        BY <1>1, <4>1, <4>2 DEF StrobesAt, FieldsAt
      <4> QED BY <1>1, <1>5, <3>1, <4>1, <4>3 DEF ReadInv, PopStates, Replying
    <3> QED BY <3>2, <3>3, <3>4
  <2> QED BY <1>2, <1>8, <2>4, <2>5, <2>6 DEF SmStates, PopStates, Replying
<1> QED BY <1>6, <1>7, <1>8

-----------------------------------------------------------------------------
(* The reply. *)

\* A reply has at least two words, and the FPGA counts from the last one.
LEMMA ReplyLength ==
  ASSUME LinkAssumption, MasterAssumption, LinkInv
  PROVE  /\ request.count \in Nat /\ request.config \in Nat /\ Reply \in Nat
         /\ current_sm_state \in Replying => Reply >= 2 /\ LastWord = Reply - 1
<1>1. BurstWords \in Nat /\ BurstWords > 0 /\ CtrMod \in Nat BY DEF MasterAssumption
<1>2. request.count \in Counts \cup {0} /\ request.config \in Configs \cup {ChDisabled}
  BY DEF LinkInv, BufferOK
<1>3. Words \subseteq Nat /\ ChDisabled \in Nat BY DEF MasterAssumption
<1>4. Counts \subseteq Words /\ Configs \subseteq Words BY DEF LinkAssumption
<1>5. request.count \in Nat /\ request.config \in Nat BY <1>2, <1>3, <1>4
<1>6. Reply \in Nat BY <1>1, <1>5 DEF Reply
<1>7. ASSUME current_sm_state \in Replying PROVE Reply >= 2 /\ LastWord = Reply - 1
  <2>1. packets_to_send = request.count /\ request.count # 0
    BY <1>7 DEF LinkInv, ReadInv
  <2>2. request.count \in Counts BY <1>2, <2>1
  <2>3. request.count % 2 = 0 /\ Reply < CtrMod BY <2>2 DEF LinkAssumption, Reply
  <2>4. request.count >= 2 BY <1>5, <2>1, <2>3
  <2>5. \A n, b \in Nat : n >= 2 /\ b > 0 => n * b >= 2 OBVIOUS
  <2>6. Reply >= 2 BY <1>1, <1>5, <2>4, <2>5 DEF Reply
  <2>7. \A x \in Nat : x < CtrMod => x % CtrMod = x BY <1>1
  <2>8. LastWord = (Reply - 1) % CtrMod BY <2>1 DEF LastWord, Reply
  <2>9. Reply - 1 \in Nat /\ Reply - 1 < CtrMod BY <1>1, <1>6, <2>3, <2>6
  <2> QED BY <2>6, <2>7, <2>8, <2>9
<1> QED BY <1>5, <1>6, <1>7

\* With every word that arrives one more is written.
LEMMA ReplyStep ==
  ASSUME LinkAssumption, MasterAssumption, LinkInv, Tick
  PROVE  ReplyInv'
<1>1. /\ IF SLWR_1d_ = 0 THEN Arrived' <= Arrived + 1 ELSE Arrived' = Arrived
      /\ Arrived \in Int /\ Arrived' \in Int
  BY SocketStep
<1>2. Reply \in Nat /\ Reply' = Reply /\ SLWR_1d_' = SLWR_
  BY ReplyLength, TickFacts DEF Reply, FlopStrobes
<1>3. /\ SLWR_1d_ \in 0 .. 1 /\ write_delay_cnt \in Nat /\ oe_delay_cnt \in 0 .. 2
      /\ Length \in Nat
  BY DEF LinkInv, LinkTypeOK, TypeOK, MasterAssumption, Length
<1>4. Arrived <= Written BY DEF LinkInv, ReplyInv
<1>5. SLWR_1d_ = 0 => current_sm_state \in {"sm_write", "sm_write_wr_delay"}
  BY DEF LinkInv, ReadInv
<1>6. CASE current_sm_state \in PopStates
  <2>1. current_sm_state' \in PopStates \cup {"sm_read_oe_delay"}
    BY <1>6, Transition DEF PopStates
  <2>2. Written = 0 /\ Written' = 0 BY <1>6, <2>1 DEF Written
  <2>3. Arrived' = Arrived BY <1>1, <1>3, <1>5, <1>6 DEF PopStates
  <2> QED BY <1>1, <1>4, <2>1, <2>2, <2>3 DEF ReplyInv, PopStates
<1>7. CASE current_sm_state \notin PopStates
  <2>1. Length' = Length /\ (Length = 0 \/ Length = OutWords)
    BY <1>7, HoldStep DEF LinkInv, ReadInv
  <2>2. CASE current_sm_state \in {"sm_idle", "sm_flagc_rcvd", "sm_wait_flagd"}
    <3>1. current_sm_state' \in {"sm_idle", "sm_flagc_rcvd", "sm_wait_flagd", "sm_read"}
      BY <2>2, Transition
    <3>2. current_sm_state' = "sm_read" => Length > 0
      <4>1. current_sm_state' = "sm_read" => FLAGD_d = 1 BY <2>2, Transition
      <4>2. FLAGD_d = 1 => Length = OutWords BY <1>7 DEF LinkInv, ReadInv
      <4>3. OutWords \in Nat /\ OutWords > 4 BY DEF LinkAssumption
      <4> QED BY <4>1, <4>2, <4>3
    <3>3. Written = IF Length > 0 THEN 0 ELSE Reply
      BY <1>7, <2>2 DEF Written
    <3>4. Written' = IF Length > 0 THEN 0 ELSE Reply
      BY <1>2, <2>1, <3>1, <3>2 DEF Written, PopStates
    <3>5. Arrived' = Arrived BY <1>1, <1>3, <1>5, <2>2
    <3> QED BY <1>1, <1>4, <3>1, <3>3, <3>4, <3>5 DEF ReplyInv
  <2>3. CASE current_sm_state = "sm_read_oe_delay"
    <3>1. current_sm_state' \in {"sm_read_oe_delay", "sm_idle", "sm_wait_flaga"}
      BY <2>3, Transition
    <3>2. Written = 0 BY <2>3 DEF Written
    <3>3. Written' = 0 \/ Written' = Reply BY <1>2, <3>1 DEF Written, PopStates
    <3>4. Arrived' = Arrived BY <1>1, <1>3, <1>5, <2>3
    <3>5. Arrived' <= Written' BY <1>1, <1>2, <1>4, <3>2, <3>3, <3>4
    <3> QED BY <3>1, <3>5 DEF ReplyInv
  <2>4. CASE current_sm_state \in Replying
    <3>1. Reply >= 2 /\ LastWord = Reply - 1 /\ Length = 0 /\ Length' = 0
      BY <2>1, <2>4, ReplyLength DEF LinkInv, ReadInv
    <3>2. CASE current_sm_state = "sm_wait_flaga"
      <4>1. current_sm_state' \in {"sm_wait_flaga", "sm_wait_flagb"}
        BY <3>2, Transition
      <4>2. write_delay_cnt' = Reply - 1 BY <3>1, <3>2, TickFacts DEF WriteDelay
      <4>3. Written = 0 /\ Written' = 0 BY <3>2, <4>1 DEF Written
      <4>4. Arrived' = Arrived BY <1>1, <1>3, <1>5, <3>2
      <4> QED BY <1>1, <1>2, <1>4, <4>1, <4>2, <4>3, <4>4 DEF ReplyInv
    <3>3. CASE current_sm_state = "sm_wait_flagb"
      <4>1. current_sm_state' \in {"sm_wait_flagb", "sm_write"} BY <3>3, Transition
      <4>2. write_delay_cnt' = Reply - 1
        BY <3>3, TickFacts DEF WriteDelay, LinkInv, ReplyInv
      <4>3. SLWR_1d_' = 1 BY <1>2, <3>3 DEF SLWR_
      <4>4. Written = 0 /\ Written' = 0 BY <3>1, <3>3, <4>1, <4>3 DEF Written
      <4>5. Arrived' = Arrived BY <1>1, <1>3, <1>5, <3>3
      <4> QED BY <1>1, <1>2, <1>4, <4>1, <4>2, <4>3, <4>4, <4>5 DEF ReplyInv
    <3>4. CASE current_sm_state = "sm_write"
      <4>1. SLWR_1d_' = 0 BY <1>2, <3>4 DEF SLWR_
      <4>2. IF SLWR_1d_ = 1 THEN write_delay_cnt = Reply - 1 ELSE write_delay_cnt <= Reply - 2
        BY <3>4 DEF LinkInv, ReplyInv
      <4>3. Written = IF SLWR_1d_ = 1 THEN 0 ELSE Reply - 2 - write_delay_cnt
        BY <3>1, <3>4 DEF Written, PopStates
      <4>4. CASE write_delay_cnt > 0
        <5>1. current_sm_state' = "sm_write" /\ write_delay_cnt' = write_delay_cnt - 1
          BY <1>3, <3>4, <4>4, Transition, TickFacts DEF WriteDelay
        <5>2. Written' = Reply - 2 - write_delay_cnt'
          BY <1>2, <3>1, <4>1, <5>1 DEF Written, PopStates
        <5>3. write_delay_cnt' <= Reply - 2
          BY <1>2, <1>3, <4>2, <5>1
        <5>4. Arrived' <= Written'
          BY <1>1, <1>2, <1>3, <1>4, <4>2, <4>3, <5>1, <5>2
        <5> QED BY <1>2, <4>1, <5>1, <5>3, <5>4 DEF ReplyInv
      <4>5. CASE write_delay_cnt = 0
        <5>1. current_sm_state' = "sm_write_wr_delay" BY <3>4, <4>5, Transition
        <5>2. SLWR_1d_ = 0 BY <1>2, <1>3, <3>1, <4>2, <4>5
        <5>3. Written' = Reply - 1 BY <1>2, <3>1, <5>1 DEF Written, PopStates
        <5>4. Arrived' <= Written' BY <1>1, <1>2, <1>4, <4>3, <4>5, <5>2, <5>3
        <5> QED BY <5>1, <5>4 DEF ReplyInv
      <4> QED BY <1>3, <4>4, <4>5
    <3>5. CASE current_sm_state = "sm_write_wr_delay"
      <4>1. current_sm_state' = "sm_idle" BY <3>5, Transition
      <4>2. Written = Reply - 1 BY <3>1, <3>5 DEF Written, PopStates
      <4>3. Written' = Reply BY <1>2, <3>1, <4>1 DEF Written, PopStates
      <4>4. Arrived' <= Written' BY <1>1, <1>2, <1>4, <4>2, <4>3
      <4> QED BY <4>1, <4>4 DEF ReplyInv
    <3> QED BY <2>4, <3>2, <3>3, <3>4, <3>5 DEF Replying
  <2>5. current_sm_state \in SmStates BY DEF LinkInv, LinkTypeOK, TypeOK
  <2> QED BY <1>7, <2>2, <2>3, <2>4, <2>5 DEF SmStates, PopStates, Replying
<1> QED BY <1>6, <1>7

LEMMA TickStep ==
  ASSUME LinkAssumption, MasterAssumption, FlagdWords = 4, LinkInv, Tick
  PROVE  LinkInv'
<1>1. TypeOK'
  <2>1. current_sm_state' \in SmStates BY Transition
  <2>2. TypeOK /\ LinkPins \in Pins /\ Registers(LinkPins)
    BY TickFacts DEF LinkInv, LinkTypeOK
  <2> QED BY <2>1, <2>2, RegistersType, Zenon DEF TypeOK
<1>2. u2p' \in Seq(Words) /\ dq1' \in Words /\ BufferOK' BY PopStep, HoldStep
<1>3. dq2' \in Words /\ sock' \in 0 .. 1 /\ owed' \in 0 .. request'.count
  BY TickFacts DEF LinkInv, LinkTypeOK
<1>4. /\ SocketsOK'
      /\ \A t \in 0 .. 1 : Len(fill'[t]) < BurstWords /\ Len(full'[t]) <= InBufs
  BY SocketStep
<1>5. LinkTypeOK' BY <1>1, <1>2, <1>3, <1>4 DEF LinkTypeOK
<1> QED BY <1>2, <1>4, <1>5, ReadStep, ReplyStep DEF LinkInv

-----------------------------------------------------------------------------
(* The steps of the host. *)

\* The FPGA does not see what the host does to the sockets.
LEMMA FrameStep ==
  ASSUME LinkInv, UNCHANGED <<masterVars, u2p, dq1, dq2, request>>
  PROVE  /\ TypeOK' /\ BufferOK' /\ ReadInv' /\ Written' = Written /\ Reply' = Reply
         /\ u2p' \in Seq(Words) /\ dq1' \in Words /\ dq2' \in Words
<1>1. /\ current_sm_state' = current_sm_state
      /\ FLAGA_d' = FLAGA_d /\ FLAGB_d' = FLAGB_d /\ FLAGC_d' = FLAGC_d /\ FLAGD_d' = FLAGD_d
      /\ DQ_d' = DQ_d /\ SLWR_1d_' = SLWR_1d_
      /\ SLRD_d1_' = SLRD_d1_ /\ SLRD_d2_' = SLRD_d2_ /\ SLRD_d3_' = SLRD_d3_
      /\ gpif_address_d' = gpif_address_d /\ rd_oe_delay_cnt' = rd_oe_delay_cnt
      /\ oe_delay_cnt' = oe_delay_cnt /\ write_delay_cnt' = write_delay_cnt
      /\ packet_index' = packet_index /\ valid_packet' = valid_packet
      /\ packets_to_send' = packets_to_send /\ ch_src' = ch_src /\ USER_LED' = USER_LED
  BY DEF masterVars, pinVars, strobeVars, countVars, parseVars
<1>2. u2p' = u2p /\ dq1' = dq1 /\ dq2' = dq2 /\ request' = request OBVIOUS
<1>3. Length' = Length /\ RW' = RW BY <1>2 DEF Length, RW
<1>4. TypeOK' BY <1>1 DEF LinkInv, LinkTypeOK, TypeOK
<1>5. BufferOK' BY <1>2, <1>3 DEF LinkInv, BufferOK
<1>6. ReadInv'
  BY <1>1, <1>2, <1>3 DEF LinkInv, ReadInv, StrobesAt, FieldsAt, Quiet
<1>7. Reply' = Reply BY <1>2 DEF Reply
<1>8. Written' = Written BY <1>1, <1>3, <1>7 DEF Written
<1> QED BY <1>2, <1>4, <1>5, <1>6, <1>7, <1>8 DEF LinkInv, LinkTypeOK

\* A packet that moves from a socket to the host has arrived before.
LEMMA DeliverStep ==
  ASSUME LinkAssumption, MasterAssumption, LinkInv, Deliver
  PROVE  LinkInv'
<1> DEFINE Word == [word : Int, config : 0 .. CtrMod - 1]
           Buffers == Len(full[0]) + Len(full[1])
           Filling == Len(fill[0]) + Len(fill[1])
<1>1. BurstWords \in Nat /\ BurstWords > 0 BY DEF MasterAssumption
<1>2. fill \in [0 .. 1 -> Seq(Word)] /\ full \in [0 .. 1 -> Seq(Seq(Word))]
  BY DEF LinkInv, SocketsOK
<1>3. /\ owed > 0 /\ full[sock] # <<>> /\ sock \in 0 .. 1 /\ owed \in 0 .. request.count
      /\ owed' = owed - 1 /\ full' = [full EXCEPT ![sock] = Tail(@)] /\ sock' = 1 - sock
      /\ fill' = fill /\ request' = request
  BY DEF Deliver, LinkInv, LinkTypeOK
<1>4. UNCHANGED <<masterVars, u2p, dq1, dq2, request>> BY DEF Deliver
<1>5. request.count \in Nat /\ owed \in Nat BY <1>3, ReplyLength
<1>6. /\ Tail(full[sock]) \in Seq(Seq(Word)) /\ Len(full[sock]) \in Nat
      /\ Len(Tail(full[sock])) = Len(full[sock]) - 1
  BY <1>2, <1>3
<1>7. full' \in [0 .. 1 -> Seq(Seq(Word))] BY <1>2, <1>3, <1>6
<1>8. SocketsOK' BY <1>2, <1>3, <1>7 DEF SocketsOK
<1>9. /\ full'[sock] = Tail(full[sock])
      /\ \A u \in 0 .. 1 : u # sock => full'[u] = full[u]
  BY <1>2, <1>3
<1>10. \A t \in 0 .. 1 : Len(fill'[t]) < BurstWords /\ Len(full'[t]) <= InBufs
  <2>1. TAKE t \in 0 .. 1
  <2>2. Len(fill[t]) < BurstWords /\ Len(full[t]) <= InBufs BY DEF LinkInv, LinkTypeOK
  <2>3. InBufs \in Nat BY DEF LinkAssumption
  <2>4. CASE t = sock
    <3>1. Len(full'[t]) = Len(full[sock]) - 1 BY <1>6, <1>9, <2>4
    <3>2. Len(full[sock]) <= InBufs BY <2>2, <2>4
    <3>3. Len(full'[t]) <= InBufs BY <1>6, <2>3, <3>1, <3>2
    <3> QED BY <1>3, <2>2, <3>3
  <2>5. CASE t # sock BY <1>3, <1>9, <2>2, <2>5
  <2> QED BY <2>4, <2>5
<1>11. sock' \in 0 .. 1 /\ owed' \in 0 .. request'.count BY <1>3, <1>5
<1>12. LinkTypeOK' BY <1>4, <1>10, <1>11, FrameStep DEF LinkTypeOK
<1>13. Buffers' = Buffers - 1 /\ Filling' = Filling
  <2>1. CASE sock = 0
    <3>1. full'[1] = full[1] BY <1>9, <2>1
    <3>2. Len(full'[0]) = Len(full[0]) - 1 BY <1>6, <1>9, <2>1
    <3>3. Len(full[0]) \in Nat /\ Len(full[1]) \in Nat BY <1>2
    <3>4. Filling' = Filling BY <1>3
    <3>5. Buffers' = Buffers - 1 BY <1>2, <1>7, <3>1, <3>2, <3>3
    <3> QED BY <3>4, <3>5, Zenon
  <2>2. CASE sock = 1
    <3>1. full'[0] = full[0] BY <1>9, <2>2
    <3>2. Len(full'[1]) = Len(full[1]) - 1 BY <1>6, <1>9, <2>2
    <3>3. Len(full[0]) \in Nat /\ Len(full[1]) \in Nat BY <1>2
    <3>4. Filling' = Filling BY <1>3
    <3>5. Buffers' = Buffers - 1 BY <1>2, <1>7, <3>1, <3>2, <3>3
    <3> QED BY <3>4, <3>5, Zenon
  <2>3. sock = 0 \/ sock = 1 BY <1>3
  <2> QED BY <2>1, <2>2, <2>3, Zenon
<1>14. Buffers \in Nat /\ Filling \in Nat BY <1>2
<1>15. Arrived = (request.count - owed) * BurstWords + Buffers * BurstWords + Filling
  BY <1>1, <1>2, <1>5 DEF Arrived
<1>16. Arrived' = (request.count - (owed - 1)) * BurstWords + Buffers' * BurstWords + Filling'
  <2>1. PICK c \in Int : c = (request.count - (owed - 1)) * BurstWords BY <1>1, <1>5
  <2>2. c = (request'.count - owed') * BurstWords BY <1>3, <2>1
  <2>3. fill' \in [0 .. 1 -> Seq(Word)] /\ full' \in [0 .. 1 -> Seq(Seq(Word))]
    BY <1>2, <1>3, <1>7
  <2>4. Buffers' * BurstWords \in Int BY <1>1, <2>3
  <2>5. Arrived' = c + Buffers' * BurstWords + Filling'
    BY <2>1, <2>2, <2>3, <2>4 DEF Arrived
  <2> QED BY <2>1, <2>5
<1>17. Arrived' = Arrived
  <2> HIDE DEF Buffers, Filling
  <2>1. PICK n \in Int : n = request.count - owed BY <1>5
  <2>2. request.count - (owed - 1) = n + 1 BY <1>5, <2>1
  <2>3. (n + 1) * BurstWords = n * BurstWords + BurstWords BY <1>1
  <2>4. (Buffers - 1) * BurstWords = Buffers * BurstWords - BurstWords BY <1>1, <1>14
  <2>5. n * BurstWords \in Int /\ Buffers * BurstWords \in Int BY <1>1, <1>14
  <2> QED BY <1>1, <1>13, <1>14, <1>15, <1>16, <2>1, <2>2, <2>3, <2>4, <2>5
<1>18. ReplyInv'
  <2>1. Written' = Written /\ Reply' = Reply BY <1>4, FrameStep
  <2>2. /\ current_sm_state' = current_sm_state /\ SLWR_1d_' = SLWR_1d_
        /\ write_delay_cnt' = write_delay_cnt
    BY <1>4 DEF masterVars, strobeVars, countVars
  <2> QED BY <1>17, <2>1, <2>2 DEF LinkInv, ReplyInv
<1> QED BY <1>4, <1>8, <1>12, <1>18, FrameStep DEF LinkInv

\* A host that is owed nothing finds the card at rest: whatever was replied has
\* been read, and the last request is over.
LEMMA RestBeforeSubmit ==
  ASSUME LinkAssumption, MasterAssumption, LinkInv, owed = 0, u2p = <<>>
  PROVE  /\ current_sm_state \notin PopStates \cup Replying
         /\ current_sm_state = "sm_read_oe_delay" => packets_to_send = 0
         /\ Len(full[0]) = 0 /\ Len(full[1]) = 0 /\ Len(fill[0]) = 0 /\ Len(fill[1]) = 0
<1> DEFINE Word == [word : Int, config : 0 .. CtrMod - 1]
           Buffers == Len(full[0]) + Len(full[1])
           Filling == Len(fill[0]) + Len(fill[1])
<1>1. BurstWords \in Nat /\ BurstWords > 0 BY DEF MasterAssumption
<1>2. fill \in [0 .. 1 -> Seq(Word)] /\ full \in [0 .. 1 -> Seq(Seq(Word))]
  BY DEF LinkInv, SocketsOK
<1>3. request.count \in Nat /\ Reply \in Nat BY ReplyLength
<1>4. Length = 0 BY DEF Length
<1>5. /\ FLAGD_d \in 0 .. 1 /\ rd_oe_delay_cnt \in 0 .. 1 /\ write_delay_cnt \in Nat
      /\ oe_delay_cnt \in 0 .. 2 /\ SLWR_1d_ \in 0 .. 1
  BY DEF LinkInv, LinkTypeOK, TypeOK, MasterAssumption
<1>6. current_sm_state \notin PopStates BY <1>4, <1>5 DEF LinkInv, ReadInv, PopStates
<1>7. Buffers \in Nat /\ Filling \in Nat BY <1>2
<1>8. Arrived = Reply + Buffers * BurstWords + Filling
  <2>1. (request.count - owed) * BurstWords = Reply BY <1>3 DEF Reply
  <2>2. Buffers * BurstWords \in Int BY <1>1, <1>7
  <2> QED BY <1>2, <1>3, <2>1, <2>2 DEF Arrived
<1>9. Arrived <= Written BY DEF LinkInv, ReplyInv
<1>10. current_sm_state \in Replying => Written < Reply
  <2>1. SUFFICES ASSUME current_sm_state \in Replying PROVE Written < Reply OBVIOUS
  <2>2. Reply >= 2 BY <2>1, ReplyLength
  <2> QED BY <1>3, <1>4, <1>5, <2>1, <2>2 DEF Written, Replying, PopStates
<1>11. Written <= Reply
  <2>1. CASE current_sm_state \in Replying
    BY <1>3, <1>4, <1>5, <1>10, <2>1, ReplyLength DEF Written, Replying, PopStates
  <2>2. CASE current_sm_state \notin Replying BY <1>3, <1>4, <2>2 DEF Written, Replying
  <2> QED BY <2>1, <2>2
<1>12. Written \in Int BY <1>3, <1>5 DEF Written
<1>13. Buffers = 0 /\ Filling = 0 /\ current_sm_state \notin Replying /\ Written = Reply
  <2> HIDE DEF Buffers, Filling
  <2>1. Buffers > 0 => Buffers * BurstWords > 0 BY <1>1, <1>7
  <2>2. Buffers * BurstWords \in Nat BY <1>1, <1>7
  <2> QED BY <1>3, <1>7, <1>8, <1>9, <1>10, <1>11, <1>12, <2>1, <2>2
<1>14. Len(full[0]) = 0 /\ Len(full[1]) = 0 /\ Len(fill[0]) = 0 /\ Len(fill[1]) = 0
  BY <1>2, <1>13
<1>15. ASSUME current_sm_state = "sm_read_oe_delay" PROVE packets_to_send = 0
  <2>1. Reply = 0 BY <1>13, <1>15 DEF Written
  <2>2. request.count = 0
    <3>1. request.count > 0 => request.count * BurstWords > 0 BY <1>1, <1>3
    <3> QED BY <1>3, <2>1, <3>1 DEF Reply
  <2>3. FieldsAt(OutWords + 2 - oe_delay_cnt) BY <1>4, <1>15 DEF LinkInv, ReadInv
  <2>4. OutWords + 2 - oe_delay_cnt >= 5 BY <1>5 DEF LinkAssumption
  <2> QED BY <2>2, <2>3, <2>4 DEF FieldsAt
<1> QED BY <1>6, <1>13, <1>14, <1>15

LEMMA SubmitStep ==
  ASSUME LinkAssumption, MasterAssumption, LinkInv, NEW r \in Requests, Submit(r)
  PROVE  LinkInv'
<1>1. /\ u2p' = RequestWords(r) /\ request' = r /\ owed' = r.count
      /\ fill' = fill /\ full' = full /\ sock' = sock /\ dq1' = dq1 /\ dq2' = dq2
      /\ UNCHANGED masterVars /\ owed = 0 /\ u2p = <<>>
  BY DEF Submit
<1>2. /\ current_sm_state \notin PopStates \cup Replying
      /\ current_sm_state = "sm_read_oe_delay" => packets_to_send = 0
      /\ Len(full[0]) = 0 /\ Len(full[1]) = 0 /\ Len(fill[0]) = 0 /\ Len(fill[1]) = 0
  BY <1>1, RestBeforeSubmit
<1>3. /\ current_sm_state' = current_sm_state
      /\ FLAGA_d' = FLAGA_d /\ FLAGB_d' = FLAGB_d /\ FLAGC_d' = FLAGC_d /\ FLAGD_d' = FLAGD_d
      /\ DQ_d' = DQ_d /\ SLWR_1d_' = SLWR_1d_
      /\ SLRD_d1_' = SLRD_d1_ /\ SLRD_d2_' = SLRD_d2_ /\ SLRD_d3_' = SLRD_d3_
      /\ gpif_address_d' = gpif_address_d /\ rd_oe_delay_cnt' = rd_oe_delay_cnt
      /\ oe_delay_cnt' = oe_delay_cnt /\ write_delay_cnt' = write_delay_cnt
      /\ packet_index' = packet_index /\ valid_packet' = valid_packet
      /\ packets_to_send' = packets_to_send /\ ch_src' = ch_src /\ USER_LED' = USER_LED
  BY <1>1 DEF masterVars, pinVars, strobeVars, countVars, parseVars
<1>4. OutWords \in Nat /\ OutWords > 4 BY DEF LinkAssumption
<1>5. /\ u2p' \in Seq(Words) /\ Length' = OutWords /\ u2p' = RW'
  BY <1>1, RequestType DEF Length, RW
<1>6. r.count \in Counts /\ r.config \in Configs /\ r.count \in Nat
  <2>1. Counts \subseteq Words BY DEF LinkAssumption
  <2>2. Words \subseteq Nat BY DEF MasterAssumption
  <2> QED BY <2>1, <2>2 DEF Requests
<1>7. BufferOK'
  <2>1. \A i \in 1 .. Length' : OutWords - Length' + i = i BY <1>4, <1>5
  <2> QED BY <1>1, <1>4, <1>5, <1>6, <2>1 DEF BufferOK
<1>8. TypeOK' BY <1>3 DEF LinkInv, LinkTypeOK, TypeOK
<1>9. LinkTypeOK'
  <2>1. owed' \in 0 .. request'.count BY <1>1, <1>6
  <2> QED BY <1>1, <1>5, <1>8, <2>1 DEF LinkInv, LinkTypeOK
<1>10. SocketsOK' BY <1>1 DEF LinkInv, SocketsOK
<1>11. ReadInv'
  <2>1. Length' # 0 /\ Length' \in {0, OutWords} BY <1>4, <1>5
  <2>2. ASSUME current_sm_state = "sm_read_oe_delay"
        PROVE  StrobesAt(OutWords + 2 - oe_delay_cnt)'
    BY <1>3, <2>2 DEF StrobesAt, LinkInv, ReadInv
  <2>3. Quiet' <=> Quiet BY <1>3 DEF Quiet
  <2>5. SLWR_1d_' # 0
    BY <1>2, <1>3 DEF LinkInv, ReadInv, Replying
  <2>6. current_sm_state' \notin PopStates \cup Replying BY <1>2, <1>3
  <2>7. /\ current_sm_state' = "sm_wait_flagd" => gpif_address_d' = 3
        /\ current_sm_state' = "sm_idle" => Quiet'
        /\ current_sm_state' \in {"sm_flagc_rcvd", "sm_wait_flagd"} =>
             Quiet' /\ packet_index' = 0 /\ valid_packet' = 0
    BY <1>3, <2>3 DEF LinkInv, ReadInv
  <2>8. current_sm_state' = "sm_read_oe_delay" =>
          StrobesAt(OutWords + 2 - oe_delay_cnt)' /\ packets_to_send' = 0
    BY <1>2, <1>3, <2>2
  <2> QED BY <1>5, <2>1, <2>5, <2>6, <2>7, <2>8 DEF ReadInv, PopStates, Replying
<1>12. ReplyInv'
  <2>1. Arrived' = 0
    <3>1. (request'.count - owed') * BurstWords = 0 BY <1>1, <1>6 DEF MasterAssumption
    <3>2. (Len(full'[0]) + Len(full'[1])) * BurstWords = 0
      BY <1>1, <1>2 DEF MasterAssumption
    <3>3. Len(fill'[0]) = 0 /\ Len(fill'[1]) = 0 BY <1>1, <1>2
    <3> QED BY <1>1, <1>10, <3>1, <3>2, <3>3 DEF Arrived, SocketsOK
  <2>2. Written' = 0 BY <1>4, <1>5 DEF Written
  <2>3. current_sm_state' \notin {"sm_wait_flagb", "sm_write"}
    BY <1>2, <1>3 DEF Replying
  <2> QED BY <2>1, <2>2, <2>3 DEF ReplyInv
<1> QED BY <1>7, <1>9, <1>10, <1>11, <1>12 DEF LinkInv

-----------------------------------------------------------------------------
LEMMA LinkInvInit ==
  ASSUME LinkAssumption, MasterAssumption, LinkInit
  PROVE  LinkInv
<1>1. /\ current_sm_state = "sm_idle" /\ SLWR_1d_ = 1 /\ Quiet /\ FLAGD_d = 0
      /\ TypeOK
  BY InitType DEF LinkInit, MasterInit, Quiet
<1>2. /\ u2p = <<>> /\ dq1 = Floating /\ dq2 = Floating /\ sock = 0 /\ owed = 0
      /\ fill = [t \in 0 .. 1 |-> <<>>] /\ full = [t \in 0 .. 1 |-> <<>>]
      /\ request.count = 0 /\ request.config = ChDisabled
  BY DEF LinkInit
<1>3. \A t \in 0 .. 1 : Len(fill[t]) = 0 /\ Len(full[t]) = 0 BY <1>2
<1>4. LinkTypeOK
  BY <1>1, <1>2, <1>3 DEF LinkTypeOK, LinkAssumption, MasterAssumption
<1>5. Length = 0 BY <1>2 DEF Length
<1>6. BufferOK BY <1>2, <1>5 DEF BufferOK, LinkAssumption
<1>7. SocketsOK BY <1>2 DEF SocketsOK
<1>8. ReadInv BY <1>1, <1>5 DEF ReadInv, PopStates, Replying
<1>9. Reply = 0 BY <1>2 DEF Reply, MasterAssumption
<1>10. Arrived = 0
  <2>1. (request.count - owed) * BurstWords = 0 BY <1>2 DEF MasterAssumption
  <2>2. Len(full[0]) = 0 /\ Len(full[1]) = 0 /\ Len(fill[0]) = 0 /\ Len(fill[1]) = 0
    BY <1>3
  <2>3. (Len(full[0]) + Len(full[1])) * BurstWords = 0 BY <2>2 DEF MasterAssumption
  <2> QED BY <2>1, <2>2, <2>3 DEF Arrived
<1>11. ReplyInv BY <1>1, <1>5, <1>9, <1>10 DEF ReplyInv, Written, PopStates
<1> QED BY <1>4, <1>6, <1>7, <1>8, <1>11 DEF LinkInv

LEMMA LinkInvStep ==
  ASSUME LinkAssumption, MasterAssumption, FlagdWords = 4, LinkInv, [LinkNext]_linkVars
  PROVE  LinkInv'
<1>1. CASE Tick BY <1>1, TickStep
<1>2. CASE Deliver BY <1>2, DeliverStep
<1>3. CASE \E r \in Requests : Submit(r) BY <1>3, SubmitStep
<1>4. CASE UNCHANGED linkVars
  <2>1. /\ UNCHANGED <<masterVars, u2p, dq1, dq2, request>>
        /\ fill' = fill /\ full' = full /\ sock' = sock /\ owed' = owed /\ request' = request
    BY <1>4 DEF linkVars, fx3Vars, hostVars
  <2>2. /\ TypeOK' /\ BufferOK' /\ ReadInv' /\ Written' = Written /\ Reply' = Reply
        /\ u2p' \in Seq(Words) /\ dq1' \in Words /\ dq2' \in Words
    BY <2>1, FrameStep
  <2>3. LinkTypeOK' BY <2>1, <2>2 DEF LinkInv, LinkTypeOK
  <2>4. SocketsOK' BY <2>1 DEF LinkInv, SocketsOK
  <2>5. Arrived' = Arrived BY <2>1 DEF Arrived
  <2>6. /\ current_sm_state' = current_sm_state /\ SLWR_1d_' = SLWR_1d_
        /\ write_delay_cnt' = write_delay_cnt
    BY <2>1 DEF masterVars, strobeVars, countVars
  <2>7. ReplyInv' BY <2>2, <2>5, <2>6 DEF LinkInv, ReplyInv
  <2> QED BY <2>2, <2>3, <2>4, <2>7 DEF LinkInv
<1> QED BY <1>1, <1>2, <1>3, <1>4 DEF LinkNext

\* Everywhere: where the words of a request and of its reply are, when FLAGD
\* falls at the fourth word from the end (cyfxslfifosync.c:324, main.v:308-315).
THEOREM LinkInvariant == ASSUME FlagdWords = 4 PROVE LinkSpec => []LinkInv
<1>1. LinkInit => LinkInv BY LinkInvInit, LinkAssumption, MasterAssumption
<1>2. LinkInv /\ [LinkNext]_linkVars => LinkInv'
  BY LinkInvStep, LinkAssumption, MasterAssumption
<1> QED BY <1>1, <1>2, PTL DEF LinkSpec

\* The sockets and the host hold what their types say.
THEOREM LinkTyped == ASSUME FlagdWords = 4 PROVE LinkSpec => []LinkTypeOK
<1>1. LinkInv => LinkTypeOK BY DEF LinkInv
<1> QED BY <1>1, LinkInvariant, PTL

\* A request of any length is read to its last word and not beyond.
THEOREM WholeRequestsRead == ASSUME FlagdWords = 4 PROVE LinkSpec => []WholeRequests
<1>1. ASSUME LinkInv PROVE WholeRequests
  <2>1. FLAGD_d \in 0 .. 1 /\ rd_oe_delay_cnt \in 0 .. 1
    BY <1>1 DEF LinkInv, LinkTypeOK, TypeOK
  <2>2. ASSUME Popping PROVE u2p # <<>>
    <3>1. current_sm_state \in {"sm_read", "sm_read_rd_and_oe_delay"}
      BY <2>2 DEF Popping, SLRD_
    <3>2. Length # 0 BY <1>1, <2>1, <3>1 DEF LinkInv, ReadInv
    <3> QED BY <3>2 DEF Length
  <2>3. ASSUME SLRD_ = 1 PROVE Len(u2p) \in {0, OutWords}
    BY <1>1, <2>3 DEF LinkInv, ReadInv, SLRD_, PopStates, Length
  <2> QED BY <2>2, <2>3 DEF WholeRequests
<1> QED BY <1>1, LinkInvariant, PTL

\* The reply answers the request last submitted, with its count, selection and
\* LEDs: no reply is started on the fields of an earlier request.
THEOREM ReplyFollows == ASSUME FlagdWords = 4 PROVE LinkSpec => []ReplyFollowsRequest
<1>1. ASSUME LinkInv, current_sm_state \in Replying
      PROVE  /\ packets_to_send = request.count
             /\ ch_src = [h \in 0 .. 1 |-> request.config]
             /\ USER_LED = 15 - (request.config % 16)
  <2>1. /\ packets_to_send = request.count
        /\ ch_src[0] = request.config /\ ch_src[1] = request.config
        /\ USER_LED = 15 - (request.config % 16)
    BY <1>1 DEF LinkInv, ReadInv
  <2>2. ch_src \in [0 .. 1 -> 0 .. CtrMod - 1] BY <1>1 DEF LinkInv, LinkTypeOK, TypeOK
  <2>3. ch_src = [h \in 0 .. 1 |-> request.config] BY <2>1, <2>2
  <2> QED BY <2>1, <2>3
<1>2. LinkInv => ReplyFollowsRequest BY <1>1 DEF ReplyFollowsRequest
<1> QED BY <1>2, LinkInvariant, PTL

-----------------------------------------------------------------------------
(* Room for the replies. *)

\* Of the words 0 .. m-1 of a reply, those of the packets of thread t.
Ahead(t, m) ==
  ((m \div BurstWords + 1 - t) \div 2) * BurstWords
    + (IF (m \div BurstWords) % 2 = t THEN m % BurstWords ELSE 0)

\* Words of the reply that are not written yet.
Left == Reply - Written

\* The word on the bus: its number, and its thread.
Number == IF current_sm_state = "sm_write" THEN write_delay_cnt + 1 ELSE write_delay_cnt

\* Packets that the host will take from socket t.
Owe(t) == (owed + (IF t = sock THEN 1 ELSE 0)) \div 2

Waiting == Len(full[0]) + Len(full[1])

\* What a socket holds and what will be written to it is what the host is owed.
RoomInv ==
  /\ SLWR_1d_ = 0 => gpif_address_d = (Number \div BurstWords) % 2
  /\ current_sm_state = "sm_write_wr_delay" => write_delay_cnt = 0 /\ SLWR_1d_ = 0
  /\ \A t \in 0 .. 1 :
       Len(full[t]) * BurstWords + Len(fill[t]) + Ahead(t, Left) = Owe(t) * BurstWords
  /\ request.count <= 2 * InBufs \/ Waiting <= Backlog + 1 \/ Waiting <= 2

-----------------------------------------------------------------------------
(* Arithmetic. *)

LEMMA Quotient ==
  ASSUME NEW B \in Nat \ {0}, NEW m \in Nat
  PROVE  /\ m \div B \in Nat /\ m % B \in 0 .. B - 1 /\ m = B * (m \div B) + (m % B)
OBVIOUS

LEMMA QuotientIs ==
  ASSUME NEW B \in Nat \ {0}, NEW q \in Nat, NEW r \in 0 .. B - 1, NEW m \in Nat,
         m = B * q + r
  PROVE  m \div B = q /\ m % B = r
<1> DEFINE p == m \div B
           s == m % B
           d == q - p
<1>1. p \in Nat /\ s \in 0 .. B - 1 /\ B * p + s = B * q + r BY Quotient
<1>2. B * q - B * p = B * d /\ d \in Int /\ B * d \in Int BY <1>1
<1> HIDE DEF p, s
<1>3. B * d = s - r /\ B * d < B /\ B * d > -B BY <1>1, <1>2
<1> HIDE DEF d
<1>4. d >= 1 => B * d >= B BY <1>2
<1>5. d <= -1 => B * d <= -B BY <1>2
<1>6. d = 0 BY <1>2, <1>3, <1>4, <1>5
<1>7. q = p BY <1>1, <1>6 DEF d
<1>8. r = s BY <1>1, <1>7
<1> QED BY <1>7, <1>8 DEF p, s

LEMMA Halves ==
  ASSUME NEW q \in Nat, NEW t \in 0 .. 1
  PROVE  /\ (q + 1 - t) \div 2 \in Nat
         /\ (q + 2 - t) \div 2 = (q + 1 - t) \div 2 + (IF q % 2 = t THEN 1 ELSE 0)
OBVIOUS

\* The last of m words belongs to the thread of its packet.
LEMMA AheadStep ==
  ASSUME MasterAssumption, NEW m \in Nat, m > 0, NEW t \in 0 .. 1
  PROVE  /\ Ahead(t, m - 1) \in Nat
         /\ Ahead(t, m) = Ahead(t, m - 1)
                            + (IF ((m - 1) \div BurstWords) % 2 = t THEN 1 ELSE 0)
<1> DEFINE B == BurstWords
           q == (m - 1) \div B
           r == (m - 1) % B
           h == (q + 1 - t) \div 2
<1>1. B \in Nat \ {0} /\ m - 1 \in Nat BY DEF MasterAssumption
<1>2. q \in Nat /\ r \in 0 .. B - 1 /\ m - 1 = B * q + r BY <1>1, Quotient
<1>3. h \in Nat /\ h * B \in Nat BY <1>1, <1>2, Halves
<1>4. Ahead(t, m - 1) = h * B + (IF q % 2 = t THEN r ELSE 0) BY DEF Ahead
<1>5. Ahead(t, m) = ((m \div B + 1 - t) \div 2) * B + (IF (m \div B) % 2 = t THEN m % B ELSE 0)
  BY DEF Ahead
<1>6. CASE r + 1 < B
  <2>1. r + 1 \in 0 .. B - 1 /\ m = B * q + (r + 1) BY <1>1, <1>2, <1>6
  <2> HIDE DEF B, q, r
  <2>2. m \div B = q /\ m % B = r + 1 BY <1>1, <1>2, <2>1, QuotientIs
  <2>3. Ahead(t, m) = h * B + (IF q % 2 = t THEN r + 1 ELSE 0) BY <1>5, <2>2
  <2> HIDE DEF h
  <2>4. Ahead(t, m) = Ahead(t, m - 1) + (IF q % 2 = t THEN 1 ELSE 0)
    BY <1>2, <1>3, <1>4, <2>3
  <2> QED BY <1>1, <1>2, <1>3, <1>4, <2>4 DEF q, B
<1>7. CASE r + 1 = B
  <2>1. B * (q + 1) = B * q + B BY <1>1, <1>2
  <2>2. m = B * (q + 1) + 0 /\ 0 \in 0 .. B - 1 /\ q + 1 \in Nat BY <1>1, <1>2, <1>7, <2>1
  <2> HIDE DEF B, q, r
  <2>9. PICK u \in Nat : u = q + 1 BY <2>2
  <2>10. PICK z \in 0 .. B - 1 : z = 0 BY <2>2
  <2>11. m = B * u + z BY <2>2, <2>9, <2>10
  <2>12. m \div B = u /\ m % B = z BY <1>1, <2>11, QuotientIs
  <2>3. m \div B = q + 1 /\ m % B = 0 BY <2>9, <2>10, <2>12
  <2>4. Ahead(t, m) = ((q + 1 + 1 - t) \div 2) * B
    <3>1. Ahead(t, m) = ((q + 1 + 1 - t) \div 2) * B + 0 BY <1>5, <2>3
    <3>2. q + 1 + 1 - t \in Nat BY <1>2
    <3>3. (q + 1 + 1 - t) \div 2 \in Nat BY <3>2
    <3>4. ((q + 1 + 1 - t) \div 2) * B \in Nat BY <1>1, <3>3
    <3> QED BY <3>1, <3>4
  <2>5. (q + 1 + 1 - t) \div 2 = h + (IF q % 2 = t THEN 1 ELSE 0)
    <3>1. q + 1 + 1 - t = q + 2 - t BY <1>2
    <3> QED BY <1>2, <3>1, Halves
  <2> HIDE DEF h
  <2>6. (h + 1) * B = h * B + B BY <1>1, <1>3
  <2>7. Ahead(t, m) = h * B + (IF q % 2 = t THEN B ELSE 0)
    BY <1>1, <1>3, <2>4, <2>5, <2>6
  <2>8. Ahead(t, m) = Ahead(t, m - 1) + (IF q % 2 = t THEN 1 ELSE 0)
    BY <1>1, <1>2, <1>3, <1>4, <1>7, <2>7
  <2> QED BY <1>1, <1>2, <1>3, <1>4, <2>8 DEF q, B
<1> QED BY <1>1, <1>2, <1>6, <1>7

LEMMA AheadEnds ==
  ASSUME MasterAssumption, NEW n \in Nat, n % 2 = 0, NEW t \in 0 .. 1
  PROVE  Ahead(t, n * BurstWords) = (n \div 2) * BurstWords /\ Ahead(t, 0) = 0
<1>1. BurstWords \in Nat \ {0} BY DEF MasterAssumption
<1>2. n * BurstWords \in Nat /\ n * BurstWords = BurstWords * n + 0 /\ 0 \in 0 .. BurstWords - 1
  BY <1>1
<1>3. (n * BurstWords) \div BurstWords = n /\ (n * BurstWords) % BurstWords = 0
  BY <1>1, <1>2, QuotientIs
<1>4. 0 = BurstWords * 0 + 0 BY <1>1
<1>5. 0 \div BurstWords = 0 /\ 0 % BurstWords = 0 BY <1>1, <1>2, <1>4, QuotientIs
<1>6. (n + 1 - t) \div 2 = n \div 2 /\ (0 + 1 - t) \div 2 = 0 OBVIOUS
<1>7. Ahead(t, n * BurstWords) = ((n + 1 - t) \div 2) * BurstWords + 0
  BY <1>3 DEF Ahead
<1>8. Ahead(t, 0) = ((0 + 1 - t) \div 2) * BurstWords + 0 BY <1>5 DEF Ahead
<1>9. n \div 2 \in Nat /\ (n \div 2) * BurstWords \in Nat /\ 0 * BurstWords = 0 BY <1>1
<1> QED BY <1>6, <1>7, <1>8, <1>9

-----------------------------------------------------------------------------
(* One clock: a word leaves the reply exactly when it enters a socket.       *)

LEMMA WrittenRange ==
  ASSUME LinkAssumption, MasterAssumption, LinkInv
  PROVE  Reply \in Nat /\ Written \in Int /\ Left \in Nat
<1>1. Reply \in Nat BY ReplyLength
<1>2. SLWR_1d_ \in 0 .. 1 /\ write_delay_cnt \in Nat
  BY DEF LinkInv, LinkTypeOK, TypeOK, MasterAssumption
<1>3. Written \in Int /\ Written <= Reply /\ Written >= 0
  <2>1. CASE current_sm_state \in Replying
    <3>1. Reply >= 2 BY <2>1, ReplyLength
    <3>2. current_sm_state = "sm_write" /\ SLWR_1d_ # 1 => write_delay_cnt <= Reply - 2
      BY DEF LinkInv, ReplyInv
    <3> QED BY <1>1, <1>2, <2>1, <3>1, <3>2 DEF Written, Replying, PopStates
  <2>2. CASE current_sm_state \notin Replying BY <1>1, <2>2 DEF Written, Replying
  <2> QED BY <2>1, <2>2
<1> QED BY <1>1, <1>3 DEF Left

\* What the counter does to the number and the thread of the word on the bus.
LEMMA NumberStep ==
  ASSUME LinkAssumption, MasterAssumption, LinkInv, Tick
  PROVE  /\ SLWR_1d_' = 0 => gpif_address_d' = (Number' \div BurstWords) % 2
         /\ current_sm_state' = "sm_write_wr_delay" => write_delay_cnt' = 0 /\ SLWR_1d_' = 0
<1>1. SLWR_1d_' = SLWR_ /\ gpif_address_d' = gpif_address BY TickFacts DEF FlopStrobes
<1>2. write_delay_cnt \in Nat BY DEF LinkInv, LinkTypeOK, TypeOK, MasterAssumption
<1>3. SLWR_1d_' = 0 => current_sm_state = "sm_write" BY <1>1 DEF SLWR_
<1>4. current_sm_state' = "sm_write_wr_delay" => current_sm_state = "sm_write"
  BY Transition DEF SmStates
<1>5. ASSUME current_sm_state = "sm_write"
      PROVE  /\ gpif_address_d' = (Number' \div BurstWords) % 2
             /\ current_sm_state' = "sm_write_wr_delay" => write_delay_cnt' = 0 /\ SLWR_1d_' = 0
  <2>1. gpif_address_d' = (write_delay_cnt \div BurstWords) % 2
    BY <1>1, <1>5 DEF gpif_address, ReadStates
  <2>2. SLWR_1d_' = 0 BY <1>1, <1>5 DEF SLWR_
  <2>3. CASE write_delay_cnt > 0
    <3>1. current_sm_state' = "sm_write" /\ write_delay_cnt' = write_delay_cnt - 1
      BY <1>2, <1>5, <2>3, Transition, TickFacts DEF WriteDelay
    <3>2. Number' = write_delay_cnt BY <1>2, <3>1 DEF Number
    <3> QED BY <2>1, <3>1, <3>2
  <2>4. CASE write_delay_cnt = 0
    <3>1. current_sm_state' = "sm_write_wr_delay" /\ write_delay_cnt' = write_delay_cnt
      BY <1>5, <2>4, Transition, TickFacts DEF WriteDelay
    <3>2. Number' = write_delay_cnt BY <3>1 DEF Number
    <3> QED BY <2>1, <2>2, <2>4, <3>1, <3>2
  <2> QED BY <1>2, <2>3, <2>4
<1> QED BY <1>3, <1>4, <1>5

\* What a clock writes.
LEMMA WriteStep ==
  ASSUME LinkAssumption, MasterAssumption, LinkInv, RoomInv, Tick
  PROVE  /\ Reply' = Reply
         /\ Left' = IF Pushing THEN Left - 1 ELSE Left
<1>1. Reply \in Nat /\ Written \in Int /\ Left \in Nat BY WrittenRange
<1>2. Reply' = Reply /\ SLWR_1d_' = SLWR_ BY TickFacts DEF Reply, FlopStrobes
<1>3. /\ SLWR_1d_ \in 0 .. 1 /\ write_delay_cnt \in Nat /\ oe_delay_cnt \in 0 .. 2
      /\ Length \in Nat
  BY DEF LinkInv, LinkTypeOK, TypeOK, MasterAssumption, Length
<1>4. SLWR_1d_ = 0 => current_sm_state \in {"sm_write", "sm_write_wr_delay"}
  BY DEF LinkInv, ReadInv
<1>5. Pushing <=> SLWR_1d_ = 0 BY <1>4 DEF Pushing, SLRD_
<1>6. CASE current_sm_state \notin {"sm_write", "sm_write_wr_delay"}
  <2>1. ~ Pushing BY <1>4, <1>5, <1>6
  <2>2. Written' = Written
    <3>1. CASE current_sm_state \in PopStates
      <4>1. current_sm_state' \in PopStates \cup {"sm_read_oe_delay"}
        BY <3>1, Transition DEF PopStates
      <4> QED BY <3>1, <4>1 DEF Written
    <3>2. CASE current_sm_state \notin PopStates
      <4>1. Length' = Length /\ (Length = 0 \/ Length = OutWords)
        BY <3>2, HoldStep DEF LinkInv, ReadInv
      <4>2. CASE current_sm_state \in {"sm_idle", "sm_flagc_rcvd", "sm_wait_flagd"}
        <5>1. current_sm_state' \in {"sm_idle", "sm_flagc_rcvd", "sm_wait_flagd", "sm_read"}
          BY <4>2, Transition
        <5>2. current_sm_state' = "sm_read" => Length > 0
          <6>1. current_sm_state' = "sm_read" => FLAGD_d = 1 BY <4>2, Transition
          <6>2. FLAGD_d = 1 => Length = OutWords BY <3>2 DEF LinkInv, ReadInv
          <6>3. OutWords \in Nat /\ OutWords > 4 BY DEF LinkAssumption
          <6> QED BY <6>1, <6>2, <6>3
        <5>3. Written = IF Length > 0 THEN 0 ELSE Reply BY <3>2, <4>2 DEF Written
        <5>4. Written' = IF Length > 0 THEN 0 ELSE Reply
          BY <1>2, <4>1, <5>1, <5>2 DEF Written, PopStates
        <5> QED BY <5>3, <5>4
      <4>3. CASE current_sm_state = "sm_read_oe_delay"
        <5>1. current_sm_state' \in {"sm_read_oe_delay", "sm_idle", "sm_wait_flaga"}
          BY <4>3, Transition
        <5>2. Written = 0 BY <4>3 DEF Written
        <5>3. CASE current_sm_state' = "sm_idle" /\ Length = 0
          <6>1. packets_to_send = 0 BY <4>3, <5>3, Transition
          <6>2. FieldsAt(OutWords + 2 - oe_delay_cnt) BY <4>3, <5>3 DEF LinkInv, ReadInv
          <6>3. OutWords + 2 - oe_delay_cnt >= 5 BY <1>3 DEF LinkAssumption
          <6>4. request.count = 0 BY <6>1, <6>2, <6>3 DEF FieldsAt
          <6>5. Reply = 0 BY <6>4 DEF Reply, MasterAssumption
          <6>6. Written' = 0 BY <1>2, <4>1, <5>3, <6>5 DEF Written, PopStates
          <6> QED BY <5>2, <6>6
        <5>4. CASE current_sm_state' # "sm_idle" BY <5>1, <5>2, <5>4 DEF Written
        <5>5. CASE Length # 0
          <6>1. Length' > 0 BY <1>3, <4>1, <5>5
          <6>2. Written' = 0 BY <6>1 DEF Written
          <6> QED BY <5>2, <6>2
        <5> QED BY <5>3, <5>4, <5>5
      <4>4. CASE current_sm_state \in {"sm_wait_flaga", "sm_wait_flagb"}
        <5>1. current_sm_state' \in {"sm_wait_flaga", "sm_wait_flagb", "sm_write"}
          BY <4>4, Transition
        <5>2. Length = 0 /\ SLWR_1d_' = 1
          BY <1>2, <4>4 DEF LinkInv, ReadInv, Replying, SLWR_
        <5> QED BY <4>1, <4>4, <5>1, <5>2 DEF Written, PopStates
      <4>5. current_sm_state \in SmStates BY DEF LinkInv, LinkTypeOK, TypeOK
      <4> QED BY <1>6, <3>2, <4>2, <4>3, <4>4, <4>5 DEF SmStates, PopStates
    <3> QED BY <3>1, <3>2
  <2> QED BY <1>2, <2>1, <2>2 DEF Left
<1>7. CASE current_sm_state \in {"sm_write", "sm_write_wr_delay"}
  <2>1. Length = 0 /\ Length' = 0
    BY <1>7, HoldStep DEF LinkInv, ReadInv, Replying, PopStates
  <2>2. Reply >= 2 BY <1>7, ReplyLength DEF Replying
  <2>3. CASE current_sm_state = "sm_write"
    <3>1. SLWR_1d_' = 0 BY <1>2, <2>3 DEF SLWR_
    <3>2. IF SLWR_1d_ = 1 THEN write_delay_cnt = Reply - 1 ELSE write_delay_cnt <= Reply - 2
      BY <2>3 DEF LinkInv, ReplyInv
    <3>3. Written = IF SLWR_1d_ = 1 THEN 0 ELSE Reply - 2 - write_delay_cnt
      BY <2>1, <2>3 DEF Written, PopStates
    <3>4. CASE write_delay_cnt > 0
      <4>1. current_sm_state' = "sm_write" /\ write_delay_cnt' = write_delay_cnt - 1
        BY <1>3, <2>3, <3>4, Transition, TickFacts DEF WriteDelay
      <4>2. Written' = Reply - 2 - write_delay_cnt'
        BY <1>2, <2>1, <3>1, <4>1 DEF Written, PopStates
      <4>3. CASE SLWR_1d_ = 1
        <5>1. Written' = Written BY <1>1, <1>3, <3>2, <3>3, <4>1, <4>2, <4>3
        <5>2. ~ Pushing BY <1>5, <4>3
        <5> QED BY <1>2, <5>1, <5>2 DEF Left
      <4>4. CASE SLWR_1d_ = 0
        <5>1. Left = write_delay_cnt + 2 BY <1>1, <1>3, <3>3, <4>4 DEF Left
        <5>2. Left' = write_delay_cnt + 1
          BY <1>1, <1>2, <1>3, <4>1, <4>2 DEF Left
        <5> QED BY <1>2, <1>3, <1>5, <4>4, <5>1, <5>2
      <4> QED BY <1>3, <4>3, <4>4
    <3>5. CASE write_delay_cnt = 0
      <4>1. current_sm_state' = "sm_write_wr_delay" BY <2>3, <3>5, Transition
      <4>2. SLWR_1d_ = 0 BY <1>1, <1>3, <2>2, <3>2, <3>5
      <4>3. Written' = Reply - 1 BY <1>2, <2>1, <4>1 DEF Written, PopStates
      <4>4. Left = 2 /\ Left' = 1 BY <1>1, <1>2, <3>3, <3>5, <4>2, <4>3 DEF Left
      <4> QED BY <1>2, <1>5, <4>2, <4>4
    <3> QED BY <1>3, <3>4, <3>5
  <2>4. CASE current_sm_state = "sm_write_wr_delay"
    <3>1. current_sm_state' = "sm_idle" BY <2>4, Transition
    <3>2. Written = Reply - 1 BY <2>1, <2>4 DEF Written, PopStates
    <3>3. Written' = Reply BY <1>2, <2>1, <3>1 DEF Written, PopStates
    <3>4. Left = 1 /\ Left' = 0 BY <1>1, <1>2, <3>2, <3>3 DEF Left
    <3>5. write_delay_cnt = 0 /\ SLWR_1d_ = 0 BY <2>4 DEF RoomInv
    <3> QED BY <1>2, <1>5, <3>4, <3>5
  <2> QED BY <1>7, <2>3, <2>4
<1> QED BY <1>6, <1>7

\* The word on the bus is the first of those that are left.
LEMMA OnBus ==
  ASSUME LinkAssumption, MasterAssumption, LinkInv, RoomInv, Pushing
  PROVE  /\ Left \in Nat /\ Left > 0 /\ gpif_address_d \in 0 .. 1
         /\ gpif_address_d = ((Left - 1) \div BurstWords) % 2
         /\ Left - 1 = Number
<1>1. SLWR_1d_ = 0 BY DEF Pushing
<1>2. current_sm_state \in {"sm_write", "sm_write_wr_delay"} /\ gpif_address_d \in 0 .. 1
  BY <1>1 DEF LinkInv, ReadInv
<1>3. write_delay_cnt \in Nat /\ Reply \in Nat /\ Left \in Nat
  BY WrittenRange DEF LinkInv, LinkTypeOK, TypeOK, MasterAssumption
<1>4. Length = 0 BY <1>2 DEF LinkInv, ReadInv, Replying
<1>5. Left = Number + 1 /\ Number \in Nat
  <2>1. CASE current_sm_state = "sm_write"
    BY <1>1, <1>3, <1>4, <2>1 DEF Left, Written, Number, PopStates
  <2>2. CASE current_sm_state = "sm_write_wr_delay"
    BY <1>1, <1>3, <1>4, <2>2 DEF Left, Written, Number, PopStates, RoomInv
  <2> QED BY <1>2, <2>1, <2>2
<1>6. Left - 1 = Number BY <1>5
<1> QED BY <1>1, <1>2, <1>3, <1>5, <1>6 DEF RoomInv

-----------------------------------------------------------------------------
(* Room for every word. *)

\* Replies fit into the buffers of the two sockets, or the USB side keeps up.
Room == (\A n \in Counts : n <= 2 * InBufs) \/ Backlog + 2 < 2 * InBufs

\* What Append and Tail do to the buffers of a socket.
LEMMA AppendAt ==
  ASSUME NEW S, NEW s \in Seq(S), NEW e \in S, NEW n \in Nat, Len(s) = n
  PROVE  /\ Len(Append(s, e)) = n + 1 /\ Append(s, e)[n + 1] = e
         /\ \A i \in 1 .. n : Append(s, e)[i] = s[i]
OBVIOUS

LEMMA TailAt ==
  ASSUME NEW S, NEW s \in Seq(S), s # <<>>, NEW n \in Nat, Len(s) = n
  PROVE  Len(Tail(s)) = n - 1 /\ \A i \in 1 .. n - 1 : Tail(s)[i] = s[i + 1]
OBVIOUS

LEMMA Smaller ==
  ASSUME NEW B \in Nat \ {0}, NEW a \in Int, NEW c \in Int, a * B < c * B
  PROVE  a < c
<1>1. a >= c => a * B >= c * B OBVIOUS
<1>2. a * B \in Int /\ c * B \in Int OBVIOUS
<1> QED BY <1>1, <1>2

LEMMA OweType ==
  ASSUME LinkAssumption, MasterAssumption, LinkInv, NEW t \in 0 .. 1
  PROVE  /\ Owe(t) \in Nat /\ owed \in Nat
         /\ Owe(t) <= Owe(1 - t) + 1 /\ (t = sock => Owe(1 - t) <= Owe(t))
         /\ Owe(0) + Owe(1) = owed
         /\ request.count <= 2 * InBufs => Owe(t) <= InBufs
<1>1. request.count \in Nat BY ReplyLength
<1>2. request.count \in Counts \cup {0} BY DEF LinkInv, BufferOK
<1>3. request.count % 2 = 0 BY <1>2 DEF LinkAssumption
<1>4. InBufs \in Nat /\ owed \in Nat /\ owed <= request.count /\ sock \in 0 .. 1
  BY <1>1 DEF LinkAssumption, LinkInv, LinkTypeOK
<1>5. Owe(t) = (owed + (IF t = sock THEN 1 ELSE 0)) \div 2
      /\ Owe(1 - t) = (owed + (IF 1 - t = sock THEN 1 ELSE 0)) \div 2
      /\ Owe(0) = (owed + (IF 0 = sock THEN 1 ELSE 0)) \div 2
      /\ Owe(1) = (owed + (IF 1 = sock THEN 1 ELSE 0)) \div 2
  BY DEF Owe
<1>6. Owe(t) \in Nat /\ Owe(t) <= Owe(1 - t) + 1 /\ (t = sock => Owe(1 - t) <= Owe(t))
  BY <1>4, <1>5
<1>7. Owe(0) + Owe(1) = owed BY <1>4, <1>5
<1>8. request.count <= 2 * InBufs => Owe(t) <= InBufs BY <1>1, <1>4, <1>5
<1> QED BY <1>4, <1>6, <1>7, <1>8

\* The threads take turns.
LEMMA AheadBalance ==
  ASSUME MasterAssumption, NEW m \in Nat, NEW t \in 0 .. 1
  PROVE  Ahead(t, m) \in Nat /\ Ahead(t, m) <= Ahead(1 - t, m) + BurstWords
<1> DEFINE B == BurstWords
           q == m \div B
           r == m % B
<1>1. B \in Nat \ {0} BY DEF MasterAssumption
<1>2. q \in Nat /\ r \in 0 .. B - 1 BY <1>1, Quotient
<1>3. PICK h \in Nat : h = (q + 1 - t) \div 2 BY <1>2, Halves
<1>4. 1 - t \in 0 .. 1 OBVIOUS
<1>5. PICK k \in Nat : k = (q + 1 - (1 - t)) \div 2 BY <1>2, <1>4, Halves
<1>6. /\ Ahead(t, m) = h * B + (IF q % 2 = t THEN r ELSE 0)
      /\ Ahead(1 - t, m) = k * B + (IF q % 2 = 1 - t THEN r ELSE 0)
  BY <1>3, <1>5 DEF Ahead
<1> HIDE DEF B, q, r
<1>7. h = k \/ h + 1 = k \/ (h = k + 1 /\ q % 2 # t) BY <1>2, <1>3, <1>5
<1>8. PICK x \in Nat, y \in Nat : x = h * B /\ y = k * B BY <1>1
<1>9. (h + 1) * B = h * B + B /\ (k + 1) * B = k * B + B BY <1>1
<1>10. (h = k => x = y) /\ (h + 1 = k => x + B = y) /\ (h = k + 1 => x = y + B)
  BY <1>8, <1>9
<1>11. PICK v \in 0 .. B - 1, w \in 0 .. B - 1 :
         /\ v = (IF q % 2 = t THEN r ELSE 0) /\ w = (IF q % 2 = 1 - t THEN r ELSE 0)
  BY <1>1, <1>2
<1>12. q % 2 # t => v = 0 BY <1>11
<1>13. Ahead(t, m) = x + v /\ Ahead(1 - t, m) = y + w BY <1>6, <1>8, <1>11
<1>14. x + v <= y + w + B BY <1>1, <1>7, <1>10, <1>11, <1>12
<1> QED BY <1>13, <1>14 DEF B

\* The thread that is written is at most one packet ahead of the other.
LEMMA WriterAhead ==
  ASSUME LinkAssumption, MasterAssumption, LinkInv, RoomInv, Pushing
  PROVE  Len(full[gpif_address_d]) <= Len(full[1 - gpif_address_d]) + 1
<1> DEFINE B == BurstWords
           t == gpif_address_d
           o == 1 - gpif_address_d
           Word == [word : Int, config : 0 .. CtrMod - 1]
<1>1. Left \in Nat /\ Left > 0 /\ t \in 0 .. 1 /\ t = ((Left - 1) \div B) % 2 BY OnBus
<1>2. PICK m \in Nat : m = Left BY <1>1
<1>3. B \in Nat \ {0} /\ m - 1 \in Nat BY <1>1, <1>2 DEF MasterAssumption
<1>4. PICK q \in Nat, r \in 0 .. B - 1 : q = (m - 1) \div B /\ r = (m - 1) % B
  BY <1>3, Quotient
<1>5. o \in 0 .. 1 /\ q % 2 = t /\ q % 2 # o BY <1>1, <1>2, <1>4
<1>6. PICK h \in Nat, k \in Nat : h = (q + 1 - t) \div 2 /\ k = (q + 1 - o) \div 2
  BY <1>1, <1>5, Halves
<1>7. k <= h + 1 BY <1>1, <1>5, <1>6
<1>8. Ahead(t, m - 1) = h * B + r /\ Ahead(o, m - 1) = k * B + 0
  BY <1>4, <1>5, <1>6 DEF Ahead
<1>9. Ahead(t, m) = h * B + r + 1 /\ Ahead(o, m) = k * B
  <2>1. Ahead(t, m) = Ahead(t, m - 1) + 1 BY <1>1, <1>2, <1>5, <1>4, AheadStep
  <2>2. Ahead(o, m) = Ahead(o, m - 1) + 0 BY <1>1, <1>2, <1>5, <1>4, AheadStep
  <2>3. h * B \in Nat /\ k * B \in Nat BY <1>3
  <2> QED BY <1>8, <2>1, <2>2, <2>3
<1>10. fill \in [0 .. 1 -> Seq(Word)] /\ full \in [0 .. 1 -> Seq(Seq(Word))]
  BY DEF LinkInv, SocketsOK
<1>11. PICK a \in Nat, b \in Nat, f \in Nat, g \in Nat :
         /\ a = Len(full[t]) /\ b = Len(full[o]) /\ f = Len(fill[t]) /\ g = Len(fill[o])
  BY <1>1, <1>5, <1>10
<1>12. g < B BY <1>5, <1>11 DEF LinkInv, LinkTypeOK
<1>13. PICK c \in Nat, d \in Nat : c = Owe(t) /\ d = Owe(o) /\ c <= d + 1
  BY <1>1, <1>5, OweType
<1>14. a * B + f + Ahead(t, m) = c * B /\ b * B + g + Ahead(o, m) = d * B
  BY <1>1, <1>2, <1>5, <1>11, <1>13 DEF RoomInv
<1> HIDE DEF B, t, o
<1>15. /\ a * B + f + (h * B + r + 1) = c * B
       /\ b * B + g + k * B = d * B
  BY <1>9, <1>14
<1>16. (a + h) * B = a * B + h * B /\ (b + k) * B = b * B + k * B BY <1>3
<1>17. (b + k + 1) * B = b * B + k * B + B BY <1>3
<1>18. a * B \in Nat /\ h * B \in Nat /\ b * B \in Nat /\ k * B \in Nat /\ c * B \in Nat
       /\ d * B \in Nat
  BY <1>3
<1>19. (a + h) * B < c * B BY <1>15, <1>16, <1>18
<1>20. d * B < (b + k + 1) * B BY <1>3, <1>12, <1>15, <1>17, <1>18
<1>21. a + h < c
  <2>1. PICK u \in Nat : u = a + h BY <1>3
  <2> QED BY <1>3, <1>19, <2>1, Smaller
<1>22. d < b + k + 1
  <2>1. PICK u \in Nat : u = b + k + 1 BY <1>3
  <2> QED BY <1>3, <1>20, <2>1, Smaller
<1>23. a <= b + 1 BY <1>7, <1>13, <1>21, <1>22
<1> QED BY <1>11, <1>23 DEF t, o

\* An empty socket whose turn it is: the other one has hardly anything.
LEMMA EmptyTurn ==
  ASSUME LinkAssumption, MasterAssumption, LinkInv, RoomInv, full[sock] = <<>>
  PROVE  Waiting <= 1
<1> DEFINE B == BurstWords
           o == 1 - sock
           Word == [word : Int, config : 0 .. CtrMod - 1]
<1>1. sock \in 0 .. 1 /\ o \in 0 .. 1 /\ 1 - o = sock BY DEF LinkInv, LinkTypeOK
<1>2. B \in Nat \ {0} BY DEF MasterAssumption
<1>3. PICK m \in Nat : m = Left BY WrittenRange
<1>4. fill \in [0 .. 1 -> Seq(Word)] /\ full \in [0 .. 1 -> Seq(Seq(Word))]
  BY DEF LinkInv, SocketsOK
<1>5. PICK b \in Nat, f \in Nat, g \in Nat :
        b = Len(full[o]) /\ f = Len(fill[sock]) /\ g = Len(fill[o])
  BY <1>1, <1>4
<1>6. Len(full[sock]) = 0 OBVIOUS
<1>7. f < B BY <1>1, <1>5 DEF LinkInv, LinkTypeOK
<1>8. PICK c \in Nat, d \in Nat : c = Owe(sock) /\ d = Owe(o) /\ d <= c
  BY <1>1, OweType
<1>9. PICK x \in Nat, y \in Nat :
        x = Ahead(sock, m) /\ y = Ahead(o, m) /\ x <= y + B
  BY <1>1, AheadBalance
<1>10. 0 * B + f + x = c * B /\ b * B + g + y = d * B
  BY <1>1, <1>3, <1>5, <1>6, <1>8, <1>9 DEF RoomInv
<1> HIDE DEF B, o
<1>11. d * B <= c * B /\ d * B \in Nat /\ c * B \in Nat /\ b * B \in Nat /\ 0 * B = 0
  BY <1>2, <1>8
<1>12. b * B < 2 * B
  <2>1. PICK u \in Nat, v \in Nat, w \in Nat : u = b * B /\ v = d * B /\ w = c * B BY <1>11
  <2>2. f + x = w /\ u + g + y = v /\ v <= w BY <1>10, <1>11, <2>1
  <2>3. u < B + B BY <1>2, <1>7, <1>9, <2>2
  <2> QED BY <1>2, <2>1, <2>3
<1>13. b < 2 BY <1>2, <1>12, Smaller
<1>14. Waiting = b
  <2>1. CASE sock = 0
    <3>1. o = 1 BY <2>1 DEF o
    <3>2. Len(full[0]) = 0 /\ Len(full[1]) = b BY <1>5, <1>6, <2>1, <3>1
    <3> QED BY <3>2 DEF Waiting
  <2>2. CASE sock = 1
    <3>1. o = 0 BY <2>2 DEF o
    <3>2. Len(full[0]) = b /\ Len(full[1]) = 0 BY <1>5, <1>6, <2>2, <3>1
    <3> QED BY <3>2 DEF Waiting
  <2> QED BY <1>1, <2>1, <2>2
<1> QED BY <1>13, <1>14

LEMMA RoomHere ==
  ASSUME LinkAssumption, MasterAssumption, Room, LinkInv, RoomInv, Pushing
  PROVE  HasBuffer(gpif_address_d)
<1> DEFINE t == gpif_address_d
           o == 1 - gpif_address_d
           B == BurstWords
           Word == [word : Int, config : 0 .. CtrMod - 1]
<1>1. Left \in Nat /\ Left > 0 /\ t \in 0 .. 1 /\ t = ((Left - 1) \div BurstWords) % 2
  BY OnBus
<1>2. fill \in [0 .. 1 -> Seq(Word)] /\ full \in [0 .. 1 -> Seq(Seq(Word))]
  BY DEF LinkInv, SocketsOK
<1>3. InBufs \in Nat /\ Backlog \in Nat BY DEF LinkAssumption
<1>4. o \in 0 .. 1 BY <1>1
<1>5. PICK a \in Nat, b \in Nat, f \in Nat :
        a = Len(full[t]) /\ b = Len(full[o]) /\ f = Len(fill[t])
  BY <1>1, <1>2, <1>4
<1>6. CASE request.count <= 2 * InBufs
  <2>1. PICK m \in Nat : m = Left BY <1>1
  <2>2. PICK x \in Nat : x = Ahead(t, m - 1) /\ Ahead(t, m) = x + 1
    BY <1>1, <2>1, AheadStep
  <2>3. B \in Nat \ {0} BY DEF MasterAssumption
  <2>4. PICK c \in Nat : c = Owe(t) /\ c <= InBufs BY <1>1, <1>6, OweType
  <2>5. a * B + f + (x + 1) = c * B BY <1>1, <1>5, <2>1, <2>2, <2>4 DEF RoomInv
  <2> HIDE DEF B
  <2>6. a * B \in Nat /\ c * B \in Nat BY <2>3
  <2>7. a * B < c * B BY <2>5, <2>6
  <2>8. a < c BY <2>3, <2>7, Smaller
  <2> QED BY <1>3, <1>5, <2>4, <2>8 DEF HasBuffer
<1>7. CASE ~ (request.count <= 2 * InBufs)
  <2>0. Backlog + 2 < 2 * InBufs
    <3>1. request.count \in Counts \cup {0} BY DEF LinkInv, BufferOK
    <3>2. request.count # 0 BY <1>3, <1>7
    <3> QED BY <1>7, <3>1, <3>2 DEF Room
  <2>1. a <= b + 1 BY <1>5, WriterAhead
  <2>2. Waiting = a + b
    <3>1. CASE t = 0
      <4>1. o = 1 BY <3>1
      <4> HIDE DEF t, o
      <4>2. Len(full[0]) = a /\ Len(full[1]) = b BY <1>5, <3>1, <4>1
      <4> QED BY <4>2 DEF Waiting
    <3>2. CASE t = 1
      <4>1. o = 0 BY <3>2
      <4> HIDE DEF t, o
      <4>2. Len(full[0]) = b /\ Len(full[1]) = a BY <1>5, <3>2, <4>1
      <4> QED BY <4>2 DEF Waiting
    <3> QED BY <1>1, <3>1, <3>2
  <2>3. a + b <= Backlog + 1 \/ a + b <= 2 BY <1>7, <2>2 DEF RoomInv
  <2>4. a < InBufs BY <1>3, <2>0, <2>1, <2>3
  <2> QED BY <1>5, <2>4 DEF HasBuffer
<1> QED BY <1>6, <1>7

\* What enters a socket is no longer ahead of it.
LEMMA RoomTick ==
  ASSUME LinkAssumption, MasterAssumption, Room, FlagdWords = 4, LinkInv, RoomInv, Tick
  PROVE  RoomInv'
<1> DEFINE Word == [word : Int, config : 0 .. CtrMod - 1]
           B == BurstWords
           t == gpif_address_d
<1>1. B \in Nat \ {0} BY DEF MasterAssumption
<1>2. fill \in [0 .. 1 -> Seq(Word)] /\ full \in [0 .. 1 -> Seq(Seq(Word))]
  BY DEF LinkInv, SocketsOK
<1>3. fill' \in [0 .. 1 -> Seq(Word)] /\ full' \in [0 .. 1 -> Seq(Seq(Word))]
  BY SocketStep DEF SocketsOK
<1>4. WriteSide /\ \A v \in 0 .. 1 : Owe(v)' = Owe(v) BY TickFacts DEF Owe
<1>5. Left \in Nat BY WrittenRange
<1>6. PICK m \in Nat : m = Left BY <1>5
<1>7. ASSUME NEW u \in 0 .. 1
      PROVE  Len(full'[u]) * B + Len(fill'[u]) + Ahead(u, Left') = Owe(u)' * B
  <2>1. Len(full[u]) * B + Len(fill[u]) + Ahead(u, m) = Owe(u) * B BY <1>6, <1>7 DEF RoomInv
  <2>2. CASE ~ Pushing
    <3>1. fill' = fill /\ full' = full BY <1>4, <2>2 DEF WriteSide
    <3>2. Left' = m BY <1>6, <2>2, WriteStep
    <3> QED BY <1>4, <2>1, <3>1, <3>2
  <2>3. CASE Pushing
    <3>1. /\ m > 0 /\ t \in 0 .. 1 /\ t = ((m - 1) \div B) % 2 /\ HasBuffer(t)
          /\ Left' = m - 1
      BY <1>6, <2>3, OnBus, RoomHere, WriteStep
    <3>2. /\ Ahead(u, m - 1) \in Nat
          /\ Ahead(u, m) = Ahead(u, m - 1) + (IF t = u THEN 1 ELSE 0)
      BY <3>1, AheadStep
    <3>3. \A v \in 0 .. 1 : Len(fill[v]) \in Nat /\ Len(full[v]) \in Nat BY <1>2
    <3>4. \A v \in 0 .. 1 : Len(fill'[v]) \in Nat /\ Len(full'[v]) \in Nat BY <1>3
    <3>5. CASE u # t
      <4>1. fill'[u] = fill[u] /\ full'[u] = full[u]
        BY <1>2, <1>4, <2>3, <3>1, <3>5 DEF WriteSide
      <4>2. Ahead(u, Left') = Ahead(u, m) BY <3>1, <3>2, <3>5
      <4> QED BY <1>4, <2>1, <4>1, <4>2
    <3>6. CASE u = t
      <4> DEFINE buf == Append(fill[t], WordOut)
      <4>1. Len(buf) = Len(fill[t]) + 1 /\ Len(fill[t]) < B
        <5>1. WordOut \in Word
          <6>1. write_delay_cnt \in Int /\ ch_src[0] \in 0 .. CtrMod - 1
            BY DEF LinkInv, LinkTypeOK, TypeOK, MasterAssumption
          <6> QED BY <6>1 DEF WordOut
        <5> QED BY <1>2, <3>1, <5>1 DEF LinkInv, LinkTypeOK
      <4>2. Len(full'[u]) * B + Len(fill'[u]) = Len(full[u]) * B + Len(fill[u]) + 1
        <5>1. CASE Len(buf) < BufferEnd
          <6>1. fill' = [fill EXCEPT ![t] = buf] /\ full' = full
            BY <1>4, <2>3, <3>1, <5>1 DEF WriteSide
          <6>2. fill'[t] = buf /\ full'[t] = full[t] BY <1>2, <3>1, <6>1
          <6>3. Len(fill'[u]) = Len(fill[u]) + 1 /\ Len(full'[u]) = Len(full[u])
            BY <3>6, <4>1, <6>2
          <6>4. PICK a \in Nat, b \in Nat : a = Len(fill[u]) /\ b = Len(full[u])
            BY <1>7, <3>3
          <6>5. b * B \in Nat BY <1>1
          <6>6. b * B + (a + 1) = b * B + a + 1 BY <6>5
          <6> QED BY <6>3, <6>4, <6>6
        <5>2. CASE ~ (Len(buf) < BufferEnd)
          <6>1. fill' = [fill EXCEPT ![t] = <<>>] /\ full' = [full EXCEPT ![t] = Append(@, buf)]
            BY <1>4, <2>3, <3>1, <5>2 DEF WriteSide
          <6>2. fill'[t] = <<>> /\ full'[t] = Append(full[t], buf) BY <1>2, <3>1, <6>1
          <6>3. PICK a \in Nat, b \in Nat : a = Len(fill[u]) /\ b = Len(full[u])
            BY <1>7, <3>3
          <6>4. a + 1 = B BY <1>1, <3>6, <4>1, <5>2, <6>3 DEF BufferEnd
          <6>5. buf \in Seq(Word)
            <7>1. WordOut \in Word
              <8>1. write_delay_cnt \in Int /\ ch_src[0] \in 0 .. CtrMod - 1
                BY DEF LinkInv, LinkTypeOK, TypeOK, MasterAssumption
              <8> QED BY <8>1 DEF WordOut
            <7> QED BY <1>2, <3>1, <7>1
          <6>6. Len(Append(full[t], buf)) = Len(full[t]) + 1 BY <1>2, <3>1, <6>5
          <6>7. Len(fill'[u]) = 0 /\ Len(full'[u]) = b + 1
            BY <3>6, <6>2, <6>3, <6>6
          <6>8. (b + 1) * B + 0 = b * B + a + 1
            <7>1. (b + 1) * B = b * B + B /\ b * B \in Nat BY <1>1
            <7> QED BY <1>1, <6>4, <7>1
          <6> QED BY <6>3, <6>7, <6>8
        <5> QED BY <5>1, <5>2
      <4>3. Ahead(u, Left') = Ahead(u, m) - 1 /\ Ahead(u, m) \in Nat
        BY <3>1, <3>2, <3>6
      <4>4. PICK x \in Nat : x = Len(full[u]) * B + Len(fill[u])
        <5>1. PICK a \in Nat, b \in Nat : a = Len(fill[u]) /\ b = Len(full[u])
          BY <1>7, <3>3
        <5>2. b * B + a \in Nat BY <1>1
        <5> QED BY <5>1, <5>2
      <4>5. PICK y \in Nat : y = Owe(u) * B BY <1>1, <1>7, OweType
      <4>6. PICK z \in Nat : z = Ahead(u, m) BY <4>3
      <4>7. x + z = y BY <2>1, <4>4, <4>5, <4>6
      <4>8. x + 1 + (z - 1) = y BY <4>7
      <4>9. Owe(u)' * B = y BY <1>4, <1>7, <4>5
      <4>10. Len(full'[u]) * B + Len(fill'[u]) = x + 1 BY <4>2, <4>4
      <4>11. Ahead(u, Left') = z - 1 BY <4>3, <4>6
      <4> HIDE DEF B
      <4> QED BY <4>8, <4>9, <4>10, <4>11
    <3> QED BY <3>5, <3>6
  <2> QED BY <2>2, <2>3
<1>8. /\ SLWR_1d_' = 0 => gpif_address_d' = (Number' \div BurstWords) % 2
      /\ current_sm_state' = "sm_write_wr_delay" => write_delay_cnt' = 0 /\ SLWR_1d_' = 0
  BY NumberStep
<1>9. request'.count <= 2 * InBufs \/ Waiting' <= Backlog + 1 \/ Waiting' <= 2
  <2>0. SUFFICES ASSUME ~ (request.count <= 2 * InBufs)
        PROVE  Waiting' <= Backlog + 1 \/ Waiting' <= 2
    BY TickFacts
  <2>1. \A v \in 0 .. 1 : Len(full[v]) \in Nat BY <1>2
  <2>2. PICK a \in Nat, b \in Nat : a = Len(full[0]) /\ b = Len(full[1]) BY <2>1
  <2>3. Backlog \in Nat BY DEF LinkAssumption
  <2>4. a + b <= Backlog \/ a + b <= 1
    <3>1. full[sock] # <<>> => a + b <= Backlog BY <2>0, <2>2 DEF Tick, KeepsUp, Waiting
    <3>2. full[sock] = <<>> => a + b <= 1 BY <2>2, EmptyTurn DEF Waiting
    <3> QED BY <3>1, <3>2
  <2>5. CASE full' = full
    <3>1. Len(full'[0]) = a /\ Len(full'[1]) = b BY <2>2, <2>5
    <3> QED BY <2>3, <2>4, <3>1 DEF Waiting
  <2>6. CASE full' # full
    <3>1. Pushing /\ full' = [full EXCEPT ![t] = Append(@, Append(fill[t], WordOut))]
      BY <1>4, <2>6 DEF WriteSide
    <3>2. t \in 0 .. 1 BY <3>1, OnBus
    <3>3. Append(fill[t], WordOut) \in Seq(Word)
      <4>1. write_delay_cnt \in Int /\ ch_src[0] \in 0 .. CtrMod - 1
        BY DEF LinkInv, LinkTypeOK, TypeOK, MasterAssumption
      <4>2. WordOut \in Word BY <4>1 DEF WordOut
      <4> QED BY <1>2, <3>2, <4>2
    <3>4. Len(full'[t]) = Len(full[t]) + 1 /\ \A v \in 0 .. 1 : v # t => full'[v] = full[v]
      BY <1>2, <3>1, <3>2, <3>3
    <3>5. CASE t = 0
      <4>1. Len(full'[0]) = a + 1 /\ Len(full'[1]) = b BY <2>2, <3>4, <3>5
      <4> QED BY <2>3, <2>4, <4>1 DEF Waiting
    <3>6. CASE t = 1
      <4>1. Len(full'[0]) = a /\ Len(full'[1]) = b + 1 BY <2>2, <3>4, <3>6
      <4> QED BY <2>3, <2>4, <4>1 DEF Waiting
    <3> QED BY <3>2, <3>5, <3>6
  <2> QED BY <2>5, <2>6
<1> QED BY <1>7, <1>8, <1>9 DEF RoomInv

-----------------------------------------------------------------------------
(* The host, and the theorems. *)

\* A packet that the host takes is no longer owed to it.
LEMMA RoomDeliver ==
  ASSUME LinkAssumption, MasterAssumption, LinkInv, RoomInv, Deliver
  PROVE  RoomInv'
<1> DEFINE Word == [word : Int, config : 0 .. CtrMod - 1]
           B == BurstWords
<1>1. B \in Nat \ {0} BY DEF MasterAssumption
<1>2. fill \in [0 .. 1 -> Seq(Word)] /\ full \in [0 .. 1 -> Seq(Seq(Word))]
  BY DEF LinkInv, SocketsOK
<1>3. /\ full[sock] # <<>> /\ sock \in 0 .. 1 /\ owed > 0
      /\ owed' = owed - 1 /\ full' = [full EXCEPT ![sock] = Tail(@)] /\ sock' = 1 - sock
      /\ fill' = fill
  BY DEF Deliver, LinkInv, LinkTypeOK
<1>4. UNCHANGED <<masterVars, u2p, dq1, dq2, request>> BY DEF Deliver
<1>5. /\ current_sm_state' = current_sm_state /\ SLWR_1d_' = SLWR_1d_
      /\ gpif_address_d' = gpif_address_d /\ write_delay_cnt' = write_delay_cnt
  BY <1>4 DEF masterVars, strobeVars, countVars
<1>6. Left' = Left /\ Number' = Number BY <1>4, <1>5, FrameStep DEF Left, Number
<1>7. Len(Tail(full[sock])) = Len(full[sock]) - 1 /\ Len(full[sock]) \in Nat \ {0}
  BY <1>2, <1>3
<1>8. /\ Len(full'[sock]) = Len(full[sock]) - 1
      /\ \A v \in 0 .. 1 : v # sock => full'[v] = full[v]
  BY <1>2, <1>3, <1>7
<1>9. owed \in Nat BY <1>3, OweType
<1>10. PICK m \in Nat : m = Left BY WrittenRange
<1>11. ASSUME NEW u \in 0 .. 1
       PROVE  Len(full'[u]) * B + Len(fill'[u]) + Ahead(u, Left') = Owe(u)' * B
  <2>1. Len(full[u]) * B + Len(fill[u]) + Ahead(u, m) = Owe(u) * B
    BY <1>10, <1>11 DEF RoomInv
  <2>2. Owe(u)' = (owed - 1 + (IF u = 1 - sock THEN 1 ELSE 0)) \div 2 BY <1>3 DEF Owe
  <2>3. CASE u = sock
    <3>1. Owe(u) = (owed + 1) \div 2 BY <2>3 DEF Owe
    <3>2. Owe(u)' = (owed - 1) \div 2 BY <1>3, <1>9, <2>2, <2>3
    <3>3. PICK c \in Nat : c = Owe(u) BY <1>11, OweType
    <3>4. Owe(u)' = c - 1 BY <1>3, <1>9, <3>1, <3>2, <3>3
    <3>5. PICK a \in Nat, f \in Nat : a = Len(full[u]) /\ f = Len(fill[u]) BY <1>2, <1>11
    <3>6. PICK x \in Nat : x = Ahead(u, m) BY <1>11, AheadBalance
    <3>7. a * B + f + x = c * B BY <2>1, <3>3, <3>5, <3>6
    <3> HIDE DEF B
    <3>8. (a - 1) * B = a * B - B /\ (c - 1) * B = c * B - B BY <1>1
    <3>9. a * B \in Nat /\ c * B \in Nat BY <1>1
    <3>10. (a - 1) * B + f + x = (c - 1) * B BY <1>1, <3>7, <3>8, <3>9
    <3>11. Len(full'[u]) = a - 1 /\ Len(fill'[u]) = f BY <1>3, <1>8, <2>3, <3>5
    <3> QED BY <1>6, <1>10, <3>4, <3>6, <3>10, <3>11
  <2>4. CASE u # sock
    <3>1. u = 1 - sock BY <1>3, <1>11, <2>4
    <3>2. Owe(u)' = Owe(u) BY <1>9, <2>2, <2>4, <3>1 DEF Owe
    <3>3. full'[u] = full[u] /\ fill'[u] = fill[u] BY <1>3, <1>8, <1>11, <2>4
    <3> QED BY <1>6, <1>10, <2>1, <3>2, <3>3
  <2> QED BY <2>3, <2>4
<1>12. request'.count <= 2 * InBufs \/ Waiting' <= Backlog + 1 \/ Waiting' <= 2
  <2>0. SUFFICES ASSUME ~ (request.count <= 2 * InBufs)
        PROVE  Waiting' <= Backlog + 1 \/ Waiting' <= 2
    BY <1>4
  <2>1. PICK a \in Nat, b \in Nat : a = Len(full[0]) /\ b = Len(full[1]) BY <1>2
  <2>2. a + b <= Backlog + 1 \/ a + b <= 2 BY <2>0, <2>1 DEF RoomInv, Waiting
  <2>3. Backlog \in Nat BY DEF LinkAssumption
  <2>4. CASE sock = 0
    <3>1. Len(full'[0]) = a - 1 /\ Len(full'[1]) = b BY <1>8, <2>1, <2>4
    <3> QED BY <2>2, <2>3, <3>1 DEF Waiting
  <2>5. CASE sock = 1
    <3>1. Len(full'[0]) = a /\ Len(full'[1]) = b - 1 BY <1>8, <2>1, <2>5
    <3> QED BY <2>2, <2>3, <3>1 DEF Waiting
  <2> QED BY <1>3, <2>4, <2>5
<1>13. /\ SLWR_1d_' = 0 => gpif_address_d' = (Number' \div BurstWords) % 2
       /\ current_sm_state' = "sm_write_wr_delay" => write_delay_cnt' = 0 /\ SLWR_1d_' = 0
  BY <1>5, <1>6 DEF RoomInv
<1> QED BY <1>11, <1>12, <1>13 DEF RoomInv

\* A new request owes both sockets half of its packets.
LEMMA RoomSubmit ==
  ASSUME LinkAssumption, MasterAssumption, LinkInv, RoomInv, NEW r \in Requests, Submit(r)
  PROVE  RoomInv'
<1>1. /\ u2p' = RequestWords(r) /\ request' = r /\ owed' = r.count
      /\ fill' = fill /\ full' = full /\ sock' = sock
      /\ UNCHANGED masterVars /\ owed = 0 /\ u2p = <<>>
  BY DEF Submit
<1>2. /\ current_sm_state \notin PopStates \cup Replying
      /\ Len(full[0]) = 0 /\ Len(full[1]) = 0 /\ Len(fill[0]) = 0 /\ Len(fill[1]) = 0
  BY <1>1, RestBeforeSubmit
<1>3. current_sm_state' = current_sm_state /\ SLWR_1d_' = SLWR_1d_
  BY <1>1 DEF masterVars, strobeVars
<1>4. SLWR_1d_' # 0 /\ current_sm_state' # "sm_write_wr_delay"
  BY <1>2, <1>3 DEF LinkInv, ReadInv, Replying
<1>5. r.count \in Counts /\ r.count \in Nat
  <2>1. Counts \subseteq Words BY DEF LinkAssumption
  <2>2. Words \subseteq Nat BY DEF MasterAssumption
  <2> QED BY <2>1, <2>2 DEF Requests
<1>6. r.count % 2 = 0 BY <1>5 DEF LinkAssumption
<1>7. Left' = r.count * BurstWords
  <2>1. OutWords \in Nat /\ OutWords > 4 BY DEF LinkAssumption
  <2>2. Length' > 0 BY <1>1, <2>1, RequestType DEF Length
  <2>3. Written' = 0 BY <2>2 DEF Written
  <2>4. Reply' = r.count * BurstWords BY <1>1 DEF Reply
  <2>5. Reply' \in Nat BY <1>5, <2>4 DEF MasterAssumption
  <2> QED BY <2>3, <2>4, <2>5 DEF Left
<1>8. ASSUME NEW t \in 0 .. 1
      PROVE  Len(full'[t]) * BurstWords + Len(fill'[t]) + Ahead(t, Left') = Owe(t)' * BurstWords
  <2>1. Len(full'[t]) = 0 /\ Len(fill'[t]) = 0 BY <1>1, <1>2, <1>8
  <2>2. Ahead(t, Left') = (r.count \div 2) * BurstWords BY <1>5, <1>6, <1>7, <1>8, AheadEnds
  <2>3. Owe(t)' = (r.count + (IF t = sock THEN 1 ELSE 0)) \div 2 BY <1>1 DEF Owe
  <2>4. Owe(t)' = r.count \div 2 BY <1>5, <1>6, <2>3
  <2>5. BurstWords \in Nat /\ r.count \div 2 \in Nat BY <1>5 DEF MasterAssumption
  <2>6. PICK h \in Nat : h = r.count \div 2 BY <2>5
  <2>7. h * BurstWords \in Nat /\ 0 * BurstWords = 0 BY <2>5
  <2>8. 0 * BurstWords + 0 + h * BurstWords = h * BurstWords BY <2>7
  <2> QED BY <2>1, <2>2, <2>4, <2>6, <2>8
<1>9. Waiting' <= 2 BY <1>1, <1>2 DEF Waiting
<1> QED BY <1>4, <1>8, <1>9 DEF RoomInv

LEMMA RoomInit ==
  ASSUME LinkAssumption, MasterAssumption, LinkInit
  PROVE  RoomInv
<1>1. /\ current_sm_state = "sm_idle" /\ SLWR_1d_ = 1 /\ u2p = <<>> /\ owed = 0 /\ sock = 0
      /\ fill = [t \in 0 .. 1 |-> <<>>] /\ full = [t \in 0 .. 1 |-> <<>>]
      /\ request.count = 0
  BY DEF LinkInit, MasterInit
<1>2. \A t \in 0 .. 1 : Len(fill[t]) = 0 /\ Len(full[t]) = 0 BY <1>1
<1>3. BurstWords \in Nat /\ 0 * BurstWords = 0 BY DEF MasterAssumption
<1>4. Reply = 0 BY <1>1, <1>3 DEF Reply
<1>5. Left = 0 BY <1>1, <1>4 DEF Left, Written
<1>6. ASSUME NEW t \in 0 .. 1
      PROVE  Len(full[t]) * BurstWords + Len(fill[t]) + Ahead(t, Left) = Owe(t) * BurstWords
  <2>1. Ahead(t, 0) = 0
    <3>1. PICK n \in Nat : n = 0 OBVIOUS
    <3>2. n % 2 = 0 BY <3>1
    <3> QED BY <1>6, <3>2, AheadEnds
  <2>2. Owe(t) = 0 BY <1>1 DEF Owe
  <2>3. Len(full[t]) = 0 /\ Len(fill[t]) = 0 BY <1>2, <1>6
  <2>4. 0 * BurstWords + 0 + 0 = 0 * BurstWords BY <1>3
  <2> QED BY <1>5, <2>1, <2>2, <2>3, <2>4
<1>7. Waiting <= 2
  <2>1. Len(full[0]) = 0 /\ Len(full[1]) = 0 BY <1>2
  <2> QED BY <2>1 DEF Waiting
<1> QED BY <1>1, <1>6, <1>7 DEF RoomInv

LEMMA RoomStep ==
  ASSUME LinkAssumption, MasterAssumption, Room, FlagdWords = 4, LinkInv, RoomInv,
         [LinkNext]_linkVars
  PROVE  RoomInv'
<1>1. CASE Tick BY <1>1, RoomTick
<1>2. CASE Deliver BY <1>2, RoomDeliver
<1>3. CASE \E r \in Requests : Submit(r) BY <1>3, RoomSubmit
<1>4. CASE UNCHANGED linkVars
  <2>1. /\ UNCHANGED <<masterVars, u2p, dq1, dq2, request>>
        /\ fill' = fill /\ full' = full /\ sock' = sock /\ owed' = owed
    BY <1>4 DEF linkVars, fx3Vars, hostVars
  <2>2. /\ current_sm_state' = current_sm_state /\ SLWR_1d_' = SLWR_1d_
        /\ gpif_address_d' = gpif_address_d /\ write_delay_cnt' = write_delay_cnt
    BY <2>1 DEF masterVars, strobeVars, countVars
  <2>3. Left' = Left /\ Number' = Number BY <2>1, <2>2, FrameStep DEF Left, Number
  <2>4. Waiting' = Waiting BY <2>1 DEF Waiting
  <2>5. \A t \in 0 .. 1 : Owe(t)' = Owe(t) BY <2>1 DEF Owe
  <2> QED BY <2>1, <2>2, <2>3, <2>4, <2>5 DEF RoomInv
<1> QED BY <1>1, <1>2, <1>3, <1>4 DEF LinkNext

\* What a socket holds and what is still to be written to it is what the host
\* will take from it: the threads of main.v and the sockets of the channel
\* (cyfxslfifosync.c:307-308) take turns in step.
THEOREM RoomInvariant == ASSUME FlagdWords = 4, Room PROVE LinkSpec => [](LinkInv /\ RoomInv)
<1>1. LinkInit => LinkInv /\ RoomInv
  BY LinkInvInit, RoomInit, LinkAssumption, MasterAssumption
<1>2. LinkInv /\ RoomInv /\ [LinkNext]_linkVars => LinkInv' /\ RoomInv'
  BY LinkInvStep, RoomStep, LinkAssumption, MasterAssumption
<1> QED BY <1>1, <1>2, PTL DEF LinkSpec

\* No word is written to a socket without a buffer, though the FPGA looks at
\* the flag of thread 1 alone and only before the first word (main.v:327-336).
THEOREM NoWordIsLost == ASSUME FlagdWords = 4, Room PROVE LinkSpec => []NoWordLost
<1>1. LinkInv /\ RoomInv => NoWordLost
  BY RoomHere, LinkAssumption, MasterAssumption DEF NoWordLost
<1> QED BY <1>1, RoomInvariant, PTL

\* Once the master is back in idle the sockets hold the packets that the host
\* is owed, and nothing of a packet besides.
THEOREM SocketsHold == ASSUME FlagdWords = 4, Room PROVE LinkSpec => []SocketsHoldReply
<1>1. ASSUME LinkInv, RoomInv, current_sm_state = "sm_idle", SLWR_1d_ = 1, u2p = <<>>
      PROVE  /\ Len(full[0]) + Len(full[1]) = owed
             /\ fill = [t \in 0 .. 1 |-> <<>>]
  <2> DEFINE Word == [word : Int, config : 0 .. CtrMod - 1]
  <2>1. Length = 0 /\ Reply \in Nat
    BY <1>1, ReplyLength, LinkAssumption, MasterAssumption DEF Length
  <2>2. Left = 0 BY <1>1, <2>1 DEF Left, Written, PopStates
  <2>3. fill \in [0 .. 1 -> Seq(Word)] /\ full \in [0 .. 1 -> Seq(Seq(Word))]
    BY <1>1 DEF LinkInv, SocketsOK
  <2>4. BurstWords \in Nat \ {0} BY MasterAssumption DEF MasterAssumption
  <2>5. ASSUME NEW t \in 0 .. 1
        PROVE  Len(full[t]) = Owe(t) /\ Len(fill[t]) = 0
    <3>1. Ahead(t, 0) = 0
      <4>1. PICK n \in Nat : n = 0 OBVIOUS
      <4>2. n % 2 = 0 BY <4>1
      <4> QED BY <2>5, <4>2, AheadEnds, MasterAssumption
    <3>2. PICK a \in Nat, f \in Nat : a = Len(full[t]) /\ f = Len(fill[t]) BY <2>3, <2>5
    <3>3. f \in 0 .. BurstWords - 1
      BY <1>1, <2>4, <2>5, <3>2 DEF LinkInv, LinkTypeOK
    <3>4. PICK c \in Nat : c = Owe(t)
      BY <1>1, <2>5, OweType, LinkAssumption, MasterAssumption
    <3>5. a * BurstWords + f + 0 = c * BurstWords
      BY <1>1, <2>2, <2>5, <3>1, <3>2, <3>4 DEF RoomInv
    <3>6. PICK p \in Nat : p = c * BurstWords BY <2>4
    <3>7. PICK z \in 0 .. BurstWords - 1 : z = 0 BY <2>4
    <3>8. p = BurstWords * a + f /\ p = BurstWords * c + z BY <2>4, <3>5, <3>6, <3>7
    <3>9. p \div BurstWords = a /\ p % BurstWords = f BY <2>4, <3>3, <3>8, QuotientIs
    <3>10. p \div BurstWords = c /\ p % BurstWords = z BY <2>4, <3>8, QuotientIs
    <3> QED BY <3>2, <3>4, <3>7, <3>9, <3>10
  <2>6. Owe(0) + Owe(1) = owed
    <3>1. PICK t \in 0 .. 1 : t = 0 OBVIOUS
    <3> QED BY <1>1, OweType, LinkAssumption, MasterAssumption
  <2>7. Len(full[0]) + Len(full[1]) = owed
    <3>1. PICK x \in 0 .. 1, y \in 0 .. 1 : x = 0 /\ y = 1 OBVIOUS
    <3>2. Len(full[x]) = Owe(x) /\ Len(full[y]) = Owe(y) BY <2>5
    <3>3. Len(full[0]) = Owe(0) /\ Len(full[1]) = Owe(1) BY <3>1, <3>2
    <3> QED BY <2>6, <3>3
  <2>8. \A t \in 0 .. 1 : fill[t] = <<>> BY <2>3, <2>5
  <2>9. fill = [t \in 0 .. 1 |-> <<>>] BY <2>3, <2>8
  <2> QED BY <2>7, <2>9
<1>2. LinkInv /\ RoomInv => SocketsHoldReply BY <1>1 DEF SocketsHoldReply
<1> QED BY <1>2, RoomInvariant, PTL

-----------------------------------------------------------------------------
(* The link takes the steps of AcquisitionCard. *)

ReplyPacket(k) == Card!Packet(k, request.config)

\* The packet of thread t that is written next, or being written.
Filled(t) == 2 * (Owe(t) - Len(full[t]) - 1) + t

\* The packets of a socket are the ones that the host takes from it, in order.
ContentInv ==
  /\ sock = owed % 2
  /\ got \in Seq(Seq([word : Int, config : 0 .. CtrMod - 1]))
  /\ Len(got) = request.count - owed
  /\ \A t \in 0 .. 1 :
       /\ \A i \in 1 .. Len(full[t]) : full[t][i] = ReplyPacket(2 * (Owe(t) - i) + t)
       /\ \A j \in 1 .. Len(fill[t]) :
            fill[t][j] = [word |-> (Filled(t) + 1) * BurstWords - j, config |-> request.config]

\* The word on the bus is the next one of the packet being written.
LEMMA WordFits ==
  ASSUME LinkAssumption, MasterAssumption, LinkInv, RoomInv, Pushing
  PROVE  WordOut = [word   |-> (Filled(gpif_address_d) + 1) * BurstWords
                                 - (Len(fill[gpif_address_d]) + 1),
                    config |-> request.config]
<1> DEFINE B == BurstWords
           t == gpif_address_d
           Word == [word : Int, config : 0 .. CtrMod - 1]
<1>1. /\ Left \in Nat /\ Left > 0 /\ t \in 0 .. 1 /\ t = ((Left - 1) \div B) % 2
      /\ Left - 1 = Number
  BY OnBus
<1>2. PICK m \in Nat : m = Left BY <1>1
<1>3. B \in Nat \ {0} /\ m - 1 \in Nat BY <1>1, <1>2 DEF MasterAssumption
<1>4. PICK q \in Nat, r \in 0 .. B - 1 :
        q = (m - 1) \div B /\ r = (m - 1) % B /\ m - 1 = B * q + r
  <2>1. PICK n \in Nat : n = m - 1 BY <1>3
  <2>2. n \div B \in Nat /\ n % B \in 0 .. B - 1 /\ n = B * (n \div B) + (n % B)
    BY <1>3, Quotient
  <2> QED BY <2>1, <2>2
<1>5. q % 2 = t BY <1>1, <1>2, <1>4
<1>6. PICK h \in Nat : h = (q + 1 - t) \div 2 BY <1>1, Halves
<1>7. q = 2 * h + t BY <1>1, <1>5, <1>6
<1>8. Ahead(t, m - 1) = h * B + r BY <1>4, <1>5, <1>6 DEF Ahead
<1>9. Ahead(t, m) = h * B + r + 1
  <2>1. Ahead(t, m) = Ahead(t, m - 1) + 1 BY <1>1, <1>2, <1>4, <1>5, AheadStep
  <2>2. h * B \in Nat BY <1>3
  <2> QED BY <1>8, <2>1, <2>2
<1>10. fill \in [0 .. 1 -> Seq(Word)] /\ full \in [0 .. 1 -> Seq(Seq(Word))]
  BY DEF LinkInv, SocketsOK
<1>11. PICK a \in Nat, f \in Nat : a = Len(full[t]) /\ f = Len(fill[t]) BY <1>1, <1>10
<1>12. f < B BY <1>1, <1>11 DEF LinkInv, LinkTypeOK
<1>13. PICK c \in Nat : c = Owe(t) BY <1>1, OweType
<1>14. a * B + f + Ahead(t, m) = c * B BY <1>1, <1>2, <1>11, <1>13 DEF RoomInv
<1>15. Filled(t) = 2 * (c - a - 1) + t BY <1>11, <1>13 DEF Filled
<1>16. WordOut = [word |-> Number, config |-> request.config]
  <2>1. current_sm_state \in Replying
    BY DEF Pushing, LinkInv, ReadInv, Replying
  <2>2. ch_src[0] = request.config BY <2>1 DEF LinkInv, ReadInv
  <2>3. write_delay_cnt \in Nat BY DEF LinkInv, LinkTypeOK, TypeOK, MasterAssumption
  <2>4. write_delay_cnt + (IF current_sm_state = "sm_write" THEN 1 ELSE 0) = Number
    BY <2>3 DEF Number
  <2> QED BY <2>2, <2>4 DEF WordOut
<1> HIDE DEF B, t
<1>17. (a + h) * B = a * B + h * B /\ (a + h + 2) * B = a * B + h * B + B + B
       /\ (a + h + 1) * B = a * B + h * B + B
  BY <1>3
<1>18. PICK x \in Nat, y \in Nat, z \in Nat : x = a * B /\ y = h * B /\ z = c * B BY <1>3
<1>19. x + f + (y + r + 1) = z BY <1>9, <1>14, <1>18
<1>20. (a + h) * B < c * B BY <1>3, <1>17, <1>18, <1>19
<1>21. c * B < (a + h + 2) * B BY <1>3, <1>12, <1>17, <1>18, <1>19
<1>22. a + h < c
  <2>1. PICK u \in Nat : u = a + h OBVIOUS
  <2> QED BY <1>3, <1>20, <2>1, Smaller
<1>23. c < a + h + 2
  <2>1. PICK u \in Nat : u = a + h + 2 OBVIOUS
  <2> QED BY <1>3, <1>21, <2>1, Smaller
<1>24. c = a + h + 1 BY <1>22, <1>23
<1>25. f + r + 1 = B
  <2>1. z = x + y + B BY <1>3, <1>17, <1>18, <1>24
  <2> QED BY <1>3, <1>19, <2>1
<1>26. Filled(t) = q BY <1>1, <1>7, <1>15, <1>24
<1>27. (q + 1) * B - (f + 1) = m - 1
  <2>1. (q + 1) * B = B * q + B /\ B * q \in Nat BY <1>3
  <2> QED BY <1>3, <1>4, <1>25, <2>1
<1>28. Number = (Filled(t) + 1) * B - (f + 1) BY <1>1, <1>2, <1>26, <1>27
<1> QED BY <1>11, <1>16, <1>28 DEF B, t

LEMMA ContentTick ==
  ASSUME LinkAssumption, MasterAssumption, Room, LinkInv, RoomInv, ContentInv, Tick
  PROVE  ContentInv'
<1> DEFINE Word == [word : Int, config : 0 .. CtrMod - 1]
           B == BurstWords
           t == gpif_address_d
<1>1. B \in Nat \ {0} BY DEF MasterAssumption
<1>2. fill \in [0 .. 1 -> Seq(Word)] /\ full \in [0 .. 1 -> Seq(Seq(Word))]
  BY DEF LinkInv, SocketsOK
<1>3. WriteSide /\ request' = request /\ owed' = owed /\ sock' = sock BY TickFacts
<1>4. got' = got BY DEF Tick, hostVars
<1>5. \A v \in 0 .. 1 : Owe(v)' = Owe(v) BY <1>3 DEF Owe
<1>6. \A k : ReplyPacket(k)' = ReplyPacket(k) BY <1>3 DEF ReplyPacket, Card!Packet
<1>7. ASSUME NEW u \in 0 .. 1, fill'[u] = fill[u], full'[u] = full[u]
      PROVE  /\ \A i \in 1 .. Len(full'[u]) : full'[u][i] = ReplyPacket(2 * (Owe(u) - i) + u)'
             /\ \A j \in 1 .. Len(fill'[u]) :
                  fill'[u][j] = [word   |-> (Filled(u)' + 1) * B - j,
                                 config |-> request'.config]
  <2>1. Filled(u)' = Filled(u) BY <1>5, <1>7 DEF Filled
  <2>2. \A i \in 1 .. Len(full[u]) : full'[u][i] = ReplyPacket(2 * (Owe(u) - i) + u)
    BY <1>7 DEF ContentInv
  <2>3. \A i : ReplyPacket(2 * (Owe(u) - i) + u)' = ReplyPacket(2 * (Owe(u) - i) + u)
    BY <1>3, <1>5 DEF ReplyPacket, Card!Packet
  <2>4. \A i \in 1 .. Len(full'[u]) : full'[u][i] = ReplyPacket(2 * (Owe(u) - i) + u)'
    BY <1>7, <2>2, <2>3
  <2>5. \A j \in 1 .. Len(fill'[u]) :
           fill'[u][j] = [word |-> (Filled(u)' + 1) * B - j, config |-> request'.config]
    BY <1>3, <1>7, <2>1 DEF ContentInv
  <2> QED BY <2>4, <2>5
<1>8. ASSUME Pushing, NEW u \in 0 .. 1, u = t
      PROVE  /\ \A i \in 1 .. Len(full'[u]) : full'[u][i] = ReplyPacket(2 * (Owe(u) - i) + u)'
             /\ \A j \in 1 .. Len(fill'[u]) :
                  fill'[u][j] = [word   |-> (Filled(u)' + 1) * B - j,
                                 config |-> request'.config]
  <2> DEFINE buf == Append(fill[t], WordOut)
             k == Filled(u)
  <2>1. HasBuffer(t) BY <1>8, RoomHere
  <2>2. WordOut \in Word
    <3>1. write_delay_cnt \in Int /\ ch_src[0] \in 0 .. CtrMod - 1
      BY DEF LinkInv, LinkTypeOK, TypeOK, MasterAssumption
    <3> QED BY <3>1 DEF WordOut
  <2>3. PICK f \in Nat, a \in Nat : f = Len(fill[t]) /\ a = Len(full[t]) BY <1>2, <1>8
  <2>4. f < B BY <1>8, <2>3 DEF LinkInv, LinkTypeOK
  <2>5. /\ buf \in Seq(Word) /\ Len(buf) = f + 1 /\ buf[f + 1] = WordOut
        /\ \A j \in 1 .. f : buf[j] = fill[t][j]
    BY <1>2, <1>8, <2>2, <2>3
  <2>6. WordOut = [word |-> (k + 1) * B - (f + 1), config |-> request.config]
    BY <1>8, <2>3, WordFits
  <2>7. \A j \in 1 .. f + 1 : buf[j] = [word |-> (k + 1) * B - j, config |-> request.config]
    <3>1. \A j \in 1 .. f : buf[j] = [word |-> (k + 1) * B - j, config |-> request.config]
      BY <1>8, <2>3, <2>5 DEF ContentInv
    <3>2. \A j \in 1 .. f + 1 : j \in 1 .. f \/ j = f + 1 BY <2>3
    <3> QED BY <2>5, <2>6, <3>1, <3>2
  <2>8. \A i : ReplyPacket(2 * (Owe(u) - i) + u)' = ReplyPacket(2 * (Owe(u) - i) + u)
    BY <1>3, <1>5, <1>8 DEF ReplyPacket, Card!Packet
  <2>9. \A i \in 1 .. a : full[u][i] = ReplyPacket(2 * (Owe(u) - i) + u)
    BY <1>8, <2>3 DEF ContentInv
  <2>10. CASE Len(buf) < BufferEnd
    <3>1. fill'[u] = buf /\ full'[u] = full[u]
      BY <1>2, <1>3, <1>8, <2>1, <2>10 DEF WriteSide
    <3>2. Filled(u)' = k BY <1>5, <1>8, <3>1 DEF Filled
    <3>3. Len(fill'[u]) = f + 1 /\ Len(full'[u]) = a BY <1>8, <2>3, <2>5, <3>1
    <3> HIDE DEF buf, k
    <3> QED BY <1>3, <2>7, <2>8, <2>9, <3>1, <3>2, <3>3
  <2>11. CASE ~ (Len(buf) < BufferEnd)
    <3>1. fill'[u] = <<>> /\ full'[u] = Append(full[u], buf)
      BY <1>2, <1>3, <1>8, <2>1, <2>11 DEF WriteSide
    <3>2. f + 1 = B BY <1>1, <2>3, <2>4, <2>5, <2>11 DEF BufferEnd
    <3>3. k = 2 * (Owe(u) - (a + 1)) + u
      <4>1. PICK c \in Nat : c = Owe(u) BY <1>8, OweType
      <4>2. k = 2 * (c - a - 1) + u BY <1>8, <2>3, <4>1 DEF Filled
      <4> QED BY <2>3, <4>1, <4>2
    <3>4. buf = ReplyPacket(k)
      <4>1. ReplyPacket(k)
              = [j \in 1 .. B |-> [word |-> (k + 1) * B - j, config |-> request.config]]
        BY DEF ReplyPacket, Card!Packet
      <4> HIDE DEF buf, k, B
      <4>2. buf \in [1 .. B -> Word]
        <5>1. buf \in Seq(Word) /\ Len(buf) = B BY <2>5, <3>2
        <5> HIDE DEF Word
        <5> QED BY <5>1
      <4> QED BY <2>7, <3>2, <4>1, <4>2
    <3>5. /\ Len(full'[u]) = a + 1 /\ full'[u][a + 1] = buf
          /\ \A i \in 1 .. a : full'[u][i] = full[u][i]
      <4>1. full[u] \in Seq(Seq(Word)) /\ Len(full[u]) = a BY <1>2, <1>8, <2>3
      <4>2. buf \in Seq(Word) BY <2>5
      <4> HIDE DEF buf, Word
      <4>3. /\ Len(Append(full[u], buf)) = a + 1 /\ Append(full[u], buf)[a + 1] = buf
            /\ \A i \in 1 .. a : Append(full[u], buf)[i] = full[u][i]
        BY <4>1, <4>2, <2>3, AppendAt
      <4> QED BY <3>1, <4>3
    <3>6. \A i \in 1 .. a + 1 : i \in 1 .. a \/ i = a + 1 BY <2>3
    <3>7. Len(fill'[u]) = 0 BY <3>1
    <3> HIDE DEF buf, k
    <3>8. \A i \in 1 .. a + 1 : full'[u][i] = ReplyPacket(2 * (Owe(u) - i) + u)
      BY <2>9, <3>3, <3>4, <3>5, <3>6
    <3> QED BY <2>8, <3>5, <3>7, <3>8
  <2> QED BY <2>10, <2>11
<1>9. ASSUME NEW u \in 0 .. 1, ~ (Pushing /\ u = t)
      PROVE  fill'[u] = fill[u] /\ full'[u] = full[u]
  <2>1. CASE ~ Pushing BY <1>3, <2>1 DEF WriteSide
  <2>2. CASE Pushing
    <3>1. t \in 0 .. 1 /\ u # t BY <1>9, <2>2, OnBus
    <3> QED BY <1>2, <1>3, <2>2, <3>1 DEF WriteSide
  <2> QED BY <2>1, <2>2
<1>10. ASSUME NEW u \in 0 .. 1
       PROVE  /\ \A i \in 1 .. Len(full'[u]) : full'[u][i] = ReplyPacket(2 * (Owe(u) - i) + u)'
              /\ \A j \in 1 .. Len(fill'[u]) :
                   fill'[u][j] = [word   |-> (Filled(u)' + 1) * B - j,
                                  config |-> request'.config]
  <2>1. CASE Pushing /\ u = t BY <1>8, <1>10, <2>1
  <2>2. CASE ~ (Pushing /\ u = t) BY <1>7, <1>9, <1>10, <2>2
  <2> QED BY <2>1, <2>2
<1>11. /\ sock' = owed' % 2 /\ got' \in Seq(Seq(Word))
       /\ Len(got') = request'.count - owed'
  BY <1>3, <1>4 DEF ContentInv
<1> QED BY <1>10, <1>11 DEF ContentInv

\* The packet that the host takes is the one the promise names.
LEMMA DeliverPacket ==
  ASSUME LinkAssumption, MasterAssumption, LinkInv, ContentInv, Deliver
  PROVE  /\ Head(full[sock])
              = Card!Packet(Card!ArrivalNo(request.count, Len(got) + 1), request.config)
         /\ Head(full[sock]) \in Seq([word : Int, config : 0 .. CtrMod - 1])
<1> DEFINE Word == [word : Int, config : 0 .. CtrMod - 1]
<1>1. full[sock] # <<>> /\ sock \in 0 .. 1 /\ owed > 0 BY DEF Deliver, LinkInv, LinkTypeOK
<1>2. full \in [0 .. 1 -> Seq(Seq(Word))] BY DEF LinkInv, SocketsOK
<1>3. full[sock] \in Seq(Seq(Word)) BY <1>1, <1>2
<1>4. /\ Head(full[sock]) = full[sock][1] /\ 1 \in 1 .. Len(full[sock])
      /\ Head(full[sock]) \in Seq(Word)
  <2> HIDE DEF Word
  <2> QED BY <1>1, <1>3
<1>5. full[sock][1] = ReplyPacket(2 * (Owe(sock) - 1) + sock) BY <1>1, <1>4 DEF ContentInv
<1>6. request.count \in Nat /\ owed \in Nat BY <1>1, ReplyLength, OweType
<1>7. request.count % 2 = 0
  <2>1. request.count \in Counts \cup {0} BY DEF LinkInv, BufferOK
  <2> QED BY <2>1 DEF LinkAssumption
<1>8. PICK n \in Nat, w \in Nat : n = request.count /\ w = owed BY <1>6
<1>9. sock = w % 2 /\ Len(got) = n - w BY <1>8 DEF ContentInv
<1>10. Owe(sock) = (w + 1) \div 2 BY <1>8 DEF Owe
<1>11. 2 * (Owe(sock) - 1) + sock = IF (n - w + 1) % 2 = 1 THEN n - (n - w + 1) - 1
                                                      ELSE n - (n - w + 1) + 1
  <2>1. w <= n BY <1>1, <1>8 DEF Deliver, LinkInv, LinkTypeOK
  <2>2. PICK p \in Nat : n = 2 * p BY <1>7, <1>8
  <2>3. CASE w % 2 = 0
    <3>1. PICK v \in Nat : w = 2 * v BY <2>3
    <3>2. sock = 0 /\ Owe(sock) = v BY <1>9, <1>10, <2>3, <3>1
    <3>3. n - w + 1 = 2 * (p - v) + 1 /\ p - v \in Nat BY <2>1, <2>2, <3>1
    <3>4. (n - w + 1) % 2 = 1 BY <3>3
    <3> QED BY <3>1, <3>2, <3>4
  <2>4. CASE w % 2 = 1
    <3>1. PICK v \in Nat : w = 2 * v + 1 BY <2>4
    <3>2. sock = 1 /\ Owe(sock) = v + 1 BY <1>9, <1>10, <2>4, <3>1
    <3>3. n - w + 1 = 2 * (p - v) /\ p - v \in Nat BY <2>1, <2>2, <3>1
    <3>4. (n - w + 1) % 2 # 1 BY <3>3
    <3> QED BY <3>1, <3>2, <3>4
  <2> QED BY <2>3, <2>4
<1>12. Card!ArrivalNo(n, n - w + 1) = 2 * (Owe(sock) - 1) + sock BY <1>11 DEF Card!ArrivalNo
<1> QED BY <1>4, <1>5, <1>8, <1>9, <1>12 DEF ReplyPacket

LEMMA ContentDeliver ==
  ASSUME LinkAssumption, MasterAssumption, LinkInv, ContentInv, Deliver
  PROVE  ContentInv'
<1> DEFINE Word == [word : Int, config : 0 .. CtrMod - 1]
<1>1. /\ full[sock] # <<>> /\ sock \in 0 .. 1 /\ owed > 0
      /\ owed' = owed - 1 /\ full' = [full EXCEPT ![sock] = Tail(@)] /\ sock' = 1 - sock
      /\ got' = Append(got, Head(full[sock])) /\ fill' = fill /\ request' = request
  BY DEF Deliver, LinkInv, LinkTypeOK
<1>2. full \in [0 .. 1 -> Seq(Seq(Word))] BY DEF LinkInv, SocketsOK
<1>3. request.count \in Nat /\ owed \in Nat BY <1>1, ReplyLength, OweType
<1>4. sock' = owed' % 2
  <2>1. PICK w \in Nat : w = owed BY <1>3
  <2>2. sock = w % 2 /\ w > 0 BY <1>1, <2>1 DEF ContentInv
  <2>3. 1 - (w % 2) = (w - 1) % 2 BY <2>2
  <2> QED BY <1>1, <2>1, <2>2, <2>3
<1>5. got' \in Seq(Seq(Word)) /\ Len(got') = request'.count - owed'
  <2>1. Head(full[sock]) \in Seq(Word) BY DeliverPacket
  <2>2. got \in Seq(Seq(Word)) /\ Len(got) = request.count - owed BY DEF ContentInv
  <2> HIDE DEF Word
  <2>3. got' \in Seq(Seq(Word)) /\ Len(got') = Len(got) + 1 BY <1>1, <2>1, <2>2
  <2> QED BY <1>1, <1>3, <2>2, <2>3
<1>6. ASSUME NEW u \in 0 .. 1
      PROVE  /\ \A i \in 1 .. Len(full'[u]) : full'[u][i] = ReplyPacket(2 * (Owe(u) - i) + u)'
             /\ \A j \in 1 .. Len(fill'[u]) :
                  fill'[u][j] = [word   |-> (Filled(u)' + 1) * BurstWords - j,
                                 config |-> request'.config]
  <2>1. PICK a \in Nat, c \in Nat : a = Len(full[u]) /\ c = Owe(u)
    BY <1>2, <1>6, OweType
  <2>2. \A i \in 1 .. a : full[u][i] = ReplyPacket(2 * (c - i) + u)
    BY <1>6, <2>1 DEF ContentInv
  <2>3. Owe(u)' = (owed - 1 + (IF u = 1 - sock THEN 1 ELSE 0)) \div 2 BY <1>1 DEF Owe
  <2>4. \A k : ReplyPacket(k) = Card!Packet(k, request'.config) BY <1>1 DEF ReplyPacket
  <2>5. CASE u = sock
    <3>1. Owe(u) = (owed + 1) \div 2 BY <2>5 DEF Owe
    <3>2. Owe(u)' = (owed - 1) \div 2 BY <1>1, <1>3, <2>3, <2>5
    <3>3. Owe(u)' = c - 1 BY <1>1, <1>3, <2>1, <3>1, <3>2
    <3>4. full'[u] = Tail(full[u]) /\ full[u] \in Seq(Seq(Word)) BY <1>1, <1>2, <1>6, <2>5
    <3>5. Len(full'[u]) = a - 1 /\ \A i \in 1 .. a - 1 : full'[u][i] = full[u][i + 1]
      <4>1. full[u] # <<>> /\ Len(full[u]) = a BY <1>1, <2>1, <2>5
      <4>2. full[u] \in Seq(Seq(Word)) /\ full'[u] = Tail(full[u]) BY <3>4
      <4> HIDE DEF Word
      <4>3. /\ Len(Tail(full[u])) = a - 1
            /\ \A i \in 1 .. a - 1 : Tail(full[u])[i] = full[u][i + 1]
        BY <2>1, <4>1, <4>2, TailAt
      <4> QED BY <4>2, <4>3
    <3>6. Filled(u)' = Filled(u)
      <4>1. Filled(u) = 2 * (c - a - 1) + u BY <2>1 DEF Filled
      <4>2. Filled(u)' = 2 * ((c - 1) - (a - 1) - 1) + u
        <5>1. Filled(u)' = 2 * (Owe(u)' - Len(full'[u]) - 1) + u BY DEF Filled
        <5>2. Len(full'[u]) = a - 1 BY <3>5
        <5> QED BY <3>3, <5>1, <5>2
      <4>3. (c - 1) - (a - 1) - 1 = c - a - 1 OBVIOUS
      <4> QED BY <4>1, <4>2, <4>3
    <3>7. ASSUME NEW i \in 1 .. a - 1 PROVE full'[u][i] = ReplyPacket(2 * (Owe(u) - i) + u)'
      <4>1. i + 1 \in 1 .. a BY <2>1, <3>7
      <4>2. full'[u][i] = ReplyPacket(2 * (c - (i + 1)) + u) BY <2>2, <3>5, <4>1
      <4>3. 2 * (c - (i + 1)) + u = 2 * (c - 1 - i) + u BY <2>1, <3>7
      <4>4. ReplyPacket(2 * (Owe(u) - i) + u)' = Card!Packet(2 * (c - 1 - i) + u, request'.config)
        BY <3>3 DEF ReplyPacket
      <4> QED BY <2>4, <4>2, <4>3, <4>4
    <3>8. \A j \in 1 .. Len(fill'[u]) :
             fill'[u][j] = [word |-> (Filled(u)' + 1) * BurstWords - j,
                            config |-> request'.config]
      BY <1>1, <1>6, <3>6 DEF ContentInv
    <3> QED BY <3>5, <3>7, <3>8
  <2>6. CASE u # sock
    <3>1. u = 1 - sock BY <1>1, <1>6, <2>6
    <3>2. Owe(u)' = c BY <1>3, <2>1, <2>3, <2>6, <3>1 DEF Owe
    <3>3. full'[u] = full[u] BY <1>1, <1>2, <1>6, <2>6
    <3>4. Filled(u)' = Filled(u) BY <2>1, <3>2, <3>3 DEF Filled
    <3>5. \A i : ReplyPacket(2 * (Owe(u) - i) + u)' = Card!Packet(2 * (c - i) + u, request'.config)
      BY <3>2 DEF ReplyPacket
    <3>6. \A i \in 1 .. Len(full'[u]) : full'[u][i] = ReplyPacket(2 * (Owe(u) - i) + u)'
      BY <2>1, <2>2, <2>4, <3>3, <3>5
    <3>7. \A j \in 1 .. Len(fill'[u]) :
             fill'[u][j] = [word |-> (Filled(u)' + 1) * BurstWords - j,
                            config |-> request'.config]
      BY <1>1, <1>6, <3>4 DEF ContentInv
    <3> QED BY <3>6, <3>7
  <2> QED BY <2>5, <2>6
<1> QED BY <1>4, <1>5, <1>6 DEF ContentInv

\* At a request, and at the beginning, there is nothing that could be wrong.
LEMMA ContentSubmit ==
  ASSUME LinkAssumption, MasterAssumption, LinkInv, ContentInv, NEW r \in Requests, Submit(r)
  PROVE  ContentInv'
<1>1. /\ request' = r /\ owed' = r.count /\ got' = <<>> /\ owed = 0 /\ u2p = <<>>
      /\ fill' = fill /\ full' = full /\ sock' = sock
  BY DEF Submit
<1>2. Len(full[0]) = 0 /\ Len(full[1]) = 0 /\ Len(fill[0]) = 0 /\ Len(fill[1]) = 0
  BY <1>1, RestBeforeSubmit
<1>3. \A t \in 0 .. 1 : Len(full'[t]) = 0 /\ Len(fill'[t]) = 0 BY <1>1, <1>2
<1>4. r.count \in Nat /\ r.count % 2 = 0
  <2>1. Words \subseteq Nat BY DEF MasterAssumption
  <2> QED BY <2>1 DEF LinkAssumption, Requests
<1>5. sock' = owed' % 2 BY <1>1, <1>4 DEF ContentInv
<1>6. Len(got') = request'.count - owed' BY <1>1, <1>4
<1> QED BY <1>1, <1>3, <1>5, <1>6 DEF ContentInv

LEMMA ContentInit ==
  ASSUME LinkInit
  PROVE  ContentInv
<1>1. /\ owed = 0 /\ sock = 0 /\ got = <<>> /\ request.count = 0
      /\ fill = [t \in 0 .. 1 |-> <<>>] /\ full = [t \in 0 .. 1 |-> <<>>]
  BY DEF LinkInit
<1>2. \A t \in 0 .. 1 : Len(fill[t]) = 0 /\ Len(full[t]) = 0 BY <1>1
<1> QED BY <1>1, <1>2 DEF ContentInv

LEMMA ContentStep ==
  ASSUME LinkAssumption, MasterAssumption, Room, LinkInv, RoomInv, ContentInv,
         [LinkNext]_linkVars
  PROVE  ContentInv'
<1>1. CASE Tick BY <1>1, ContentTick
<1>2. CASE Deliver BY <1>2, ContentDeliver
<1>3. CASE \E r \in Requests : Submit(r) BY <1>3, ContentSubmit
<1>4. CASE UNCHANGED linkVars
  <2>1. /\ fill' = fill /\ full' = full /\ sock' = sock
        /\ owed' = owed /\ request' = request /\ got' = got
    BY <1>4 DEF linkVars, fx3Vars, hostVars
  <2>2. \A t \in 0 .. 1 : Owe(t)' = Owe(t) BY <2>1 DEF Owe
  <2>3. \A t \in 0 .. 1 : Filled(t)' = Filled(t) BY <2>1, <2>2 DEF Filled
  <2>4. \A t \in 0 .. 1 : \A i : ReplyPacket(2 * (Owe(t) - i) + t)'
                                 = ReplyPacket(2 * (Owe(t) - i) + t)
    BY <2>1, <2>2 DEF ReplyPacket
  <2> QED BY <2>1, <2>3, <2>4 DEF ContentInv
<1> QED BY <1>1, <1>2, <1>3, <1>4 DEF LinkNext

LEMMA CardStep ==
  ASSUME LinkAssumption, MasterAssumption, LinkInv, ContentInv, [LinkNext]_linkVars
  PROVE  [Card!CardNext]_(Card!cardVars)
<1>1. CASE Tick BY <1>1 DEF Tick, hostVars, Card!cardVars
<1>2. CASE Deliver
  <2>1. /\ owed > 0 /\ owed' = owed - 1 /\ request' = request
        /\ got' = Append(got, Head(full[sock]))
    BY <1>2 DEF Deliver
  <2>2. Card!CardDeliver BY <1>2, <2>1, DeliverPacket DEF Card!CardDeliver
  <2> QED BY <2>2 DEF Card!CardNext
<1>3. CASE \E r \in Requests : Submit(r)
  <2>1. PICK r \in Requests : Submit(r) BY <1>3
  <2>2. r \in Card!Requests BY DEF Requests, Card!Requests
  <2>3. Card!CardSubmit(r) BY <2>1 DEF Submit, Card!CardSubmit
  <2> QED BY <2>2, <2>3 DEF Card!CardNext
<1>4. CASE UNCHANGED linkVars BY <1>4 DEF linkVars, hostVars, Card!cardVars
<1> QED BY <1>1, <1>2, <1>3, <1>4 DEF LinkNext

\* The safety part of CardImplemented: every packet the host reads is whole and
\* the one that the promise of the card names, with the words in order and
\* sampled with the selection of the request; any number of replies, of any length.
THEOREM CardSimulated ==
  ASSUME FlagdWords = 4, Room, ChDisabled \in Configs
  PROVE  LinkSpec => Card!CardInit /\ [][Card!CardNext]_(Card!cardVars)
<1>1. LinkInit => Card!CardInit BY DEF LinkInit, Card!CardInit
<1>2. LinkInit => LinkInv /\ RoomInv /\ ContentInv
  BY LinkInvInit, RoomInit, ContentInit, LinkAssumption, MasterAssumption
<1>3. LinkInv /\ RoomInv /\ ContentInv /\ [LinkNext]_linkVars =>
        LinkInv' /\ RoomInv' /\ ContentInv'
  BY LinkInvStep, RoomStep, ContentStep, LinkAssumption, MasterAssumption
<1>4. LinkInv /\ RoomInv /\ ContentInv /\ [LinkNext]_linkVars =>
        [Card!CardNext]_(Card!cardVars)
  BY CardStep, LinkAssumption, MasterAssumption
<1> QED BY <1>1, <1>2, <1>3, <1>4, PTL DEF LinkSpec
=============================================================================
