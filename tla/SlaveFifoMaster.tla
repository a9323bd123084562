--------------------------- MODULE SlaveFifoMaster ---------------------------
(***************************************************************************)
(* The FPGA side of the card: the registers of module main in              *)
(* fpga/src/main.v that are clocked by clk_pll and talk to the FX3 slave   *)
(* FIFO.  One step is one rising edge of clk_pll: the state machine takes  *)
(* the transition of its current state (one action per state) and every    *)
(* other always block updates its registers at the same edge (Registers).  *)
(* Levels are 0 and 1 as on the wires, names ending in _ are active low.   *)
(*                                                                         *)
(* The input pins of a cycle are the argument p of every action.  Here     *)
(* they are arbitrary (an open environment); SlaveFifoLink connects them   *)
(* to a model of the FX3.                                                  *)
(***************************************************************************)
EXTENDS Integers

CONSTANTS
  BurstWords, \* words in one packet, the 1 << 12 of main.v:221
  CtrMod,     \* 2^32: counters and words are 32 bits wide
  Header,     \* 32'hCAFEB0BA
  ChDisabled, \* 32'h08080808: four channels switched off
  Words,      \* the words the slave FIFO may put on DQ
  MaxRead     \* bound: FLAGD falls before this many words were parsed

ASSUME MasterAssumption ==
  /\ BurstWords \in Nat \ {0}
  /\ CtrMod \in Nat
  /\ MaxRead \in Nat /\ MaxRead + 8 < CtrMod
  /\ Words \subseteq 0 .. CtrMod - 1
  /\ Header \in 1 .. CtrMod - 1
  /\ ChDisabled \in 0 .. CtrMod - 1

VARIABLES
  current_sm_state,
  FLAGA_d, FLAGB_d, FLAGC_d, FLAGD_d, \* the flopped flags
  DQ_d,                               \* the flopped data bus
  SLWR_1d_,                           \* the SLWR pin
  SLRD_d1_, SLRD_d2_, SLRD_d3_,       \* SLRD_, one to three cycles late
  gpif_address_d,                     \* the ADDR pins
  rd_oe_delay_cnt, oe_delay_cnt,
  write_delay_cnt,                    \* words of the reply still to write
  packet_index, valid_packet,         \* the parser of a request packet
  packets_to_send,
  ch_src,                             \* words 2 and 3: channels 0-3 and 4-7
  USER_LED

pinVars    == <<FLAGA_d, FLAGB_d, FLAGC_d, FLAGD_d, DQ_d>>
strobeVars == <<SLWR_1d_, SLRD_d1_, SLRD_d2_, SLRD_d3_, gpif_address_d>>
countVars  == <<rd_oe_delay_cnt, oe_delay_cnt, write_delay_cnt>>
parseVars  == <<packet_index, valid_packet, packets_to_send, ch_src, USER_LED>>
masterVars == <<current_sm_state, pinVars, strobeVars, countVars, parseVars>>

Pins == [FLAGA : 0 .. 1, FLAGB : 0 .. 1, FLAGC : 0 .. 1, FLAGD : 0 .. 1,
         DQ : Words]

SmStates == {"sm_idle", "sm_flagc_rcvd", "sm_wait_flagd", "sm_read",
             "sm_read_rd_and_oe_delay", "sm_read_oe_delay", "sm_wait_flaga",
             "sm_wait_flagb", "sm_write", "sm_write_wr_delay"}

-----------------------------------------------------------------------------
(* The combinational signals. *)

SLRD_ == IF current_sm_state \in {"sm_read", "sm_read_rd_and_oe_delay"} THEN 0 ELSE 1

\* Mutant: output enable is released for the strobe only, not for its delay.
SLOE_Late == IF current_sm_state \in {"sm_idle", "sm_write"} THEN 1 ELSE 0

SLOE_ == IF current_sm_state \in {"sm_read", "sm_read_rd_and_oe_delay",
                                  "sm_read_oe_delay"} THEN 0 ELSE 1

SLWR_ == IF current_sm_state = "sm_write" THEN 0 ELSE 1

ReadStates == {"sm_flagc_rcvd", "sm_wait_flagd", "sm_read",
               "sm_read_rd_and_oe_delay", "sm_read_oe_delay"}

\* Mutants: the counter taken for the number of words left, the low bit of the
\* packet lost, and the two threads exchanged.
gpif_address_Early   == ((write_delay_cnt + 1) \div BurstWords) % 2
gpif_address_OneWay  == IF current_sm_state \in ReadStates THEN 3 ELSE 0
gpif_address_Swapped == IF current_sm_state \in ReadStates THEN 3
                        ELSE 1 - ((write_delay_cnt \div BurstWords) % 2)

\* Reads use thread 3; a write uses the thread named by bit 12 of the counter,
\* so consecutive packets alternate between threads 1 and 0.
gpif_address ==
  IF current_sm_state \in ReadStates THEN 3 ELSE (write_delay_cnt \div BurstWords) % 2

read_ready == SLRD_d3_ = 0
read_data  == IF read_ready THEN DQ_d ELSE 0

-----------------------------------------------------------------------------
(* The always blocks that are not the state machine. *)

FlopPins(p) ==
  /\ FLAGA_d' = p.FLAGA
  /\ FLAGB_d' = p.FLAGB
  /\ FLAGC_d' = p.FLAGC
  /\ FLAGD_d' = p.FLAGD
  /\ DQ_d' = p.DQ

FlopStrobes ==
  /\ SLWR_1d_' = SLWR_
  /\ SLRD_d1_' = SLRD_
  /\ SLRD_d2_' = SLRD_d1_
  /\ SLRD_d3_' = SLRD_d2_
  /\ gpif_address_d' = gpif_address

\* Mutant: the read strobe ends one cycle early.
RdOeDelay_Short == rd_oe_delay_cnt' = 0

RdOeDelay ==
  rd_oe_delay_cnt' =
    CASE current_sm_state = "sm_read" -> 1
      [] current_sm_state = "sm_read_rd_and_oe_delay" /\ rd_oe_delay_cnt > 0
           -> rd_oe_delay_cnt - 1
      [] OTHER -> rd_oe_delay_cnt

\* Mutants: the counter runs through zero; there is no turn-around.
OeDelay_NoFloor ==
  oe_delay_cnt' = CASE current_sm_state = "sm_read_rd_and_oe_delay" -> 2
                    [] current_sm_state = "sm_read_oe_delay" -> oe_delay_cnt - 1
                    [] OTHER -> oe_delay_cnt
OeDelay_None == oe_delay_cnt' = 0

OeDelay ==
  oe_delay_cnt' =
    CASE current_sm_state = "sm_read_rd_and_oe_delay" -> 2
      [] current_sm_state = "sm_read_oe_delay" /\ oe_delay_cnt > 0
           -> oe_delay_cnt - 1
      [] OTHER -> oe_delay_cnt

\* (packets_to_send << 12) - 1 in 32 bits: the high bits are lost.
LastWord == (packets_to_send * BurstWords - 1) % CtrMod

WriteDelay ==
  write_delay_cnt' =
    CASE current_sm_state = "sm_wait_flaga" -> LastWord
      [] current_sm_state = "sm_write" /\ write_delay_cnt > 0
           -> write_delay_cnt - 1
      [] OTHER -> write_delay_cnt

\* Mutant: the parser position is not cleared after a request.
CheckHeader_NoClear ==
  /\ packet_index' = IF read_ready THEN (packet_index + 1) % CtrMod ELSE packet_index
  /\ valid_packet' =
       CASE ~read_ready -> 0
         [] read_ready /\ packet_index = 0 /\ read_data = Header -> 1
         [] OTHER -> valid_packet

CheckHeader ==
  /\ packet_index' = IF read_ready THEN (packet_index + 1) % CtrMod ELSE 0
  /\ valid_packet' =
       CASE ~read_ready -> 0
         [] read_ready /\ packet_index = 0 /\ read_data = Header -> 1
         [] OTHER -> valid_packet

ParsePacket ==
  LET field(i) == valid_packet = 1 /\ packet_index = i IN
  /\ packets_to_send' = IF field(1) THEN read_data ELSE packets_to_send
  /\ ch_src' = [h \in 0 .. 1 |-> IF field(h + 2) THEN read_data ELSE ch_src[h]]
  /\ USER_LED' = IF field(4) THEN 15 - (read_data % 16) ELSE USER_LED

Registers(p) ==
  FlopPins(p) /\ FlopStrobes /\ RdOeDelay /\ OeDelay /\ WriteDelay
              /\ CheckHeader /\ ParsePacket

-----------------------------------------------------------------------------
(* The state machine: one action per state. *)

\* From state s the machine goes to t when c holds, otherwise it stays in s.
StepFrom(s, c, t) ==
  /\ current_sm_state = s
  /\ current_sm_state' = IF c THEN t ELSE s

Idle(p)      == StepFrom("sm_idle", FLAGC_d = 1, "sm_flagc_rcvd") /\ Registers(p)
FlagcRcvd(p) == StepFrom("sm_flagc_rcvd", TRUE, "sm_wait_flagd") /\ Registers(p)
WaitFlagd(p) == StepFrom("sm_wait_flagd", FLAGD_d = 1, "sm_read") /\ Registers(p)

Read(p) ==
  /\ StepFrom("sm_read", FLAGD_d = 0, "sm_read_rd_and_oe_delay")
  /\ Registers(p)

ReadRdAndOeDelay(p) ==
  /\ StepFrom("sm_read_rd_and_oe_delay", rd_oe_delay_cnt = 0, "sm_read_oe_delay")
  /\ Registers(p)

ReadOeDelay(p) ==
  /\ StepFrom("sm_read_oe_delay", oe_delay_cnt = 0,
              IF packets_to_send = 0 THEN "sm_idle" ELSE "sm_wait_flaga")
  /\ Registers(p)

WaitFlaga(p) == StepFrom("sm_wait_flaga", FLAGA_d = 1, "sm_wait_flagb") /\ Registers(p)
WaitFlagb(p) == StepFrom("sm_wait_flagb", FLAGB_d = 1, "sm_write") /\ Registers(p)

Write(p) ==
  /\ StepFrom("sm_write", write_delay_cnt = 0, "sm_write_wr_delay")
  /\ Registers(p)

WriteWrDelay(p) == StepFrom("sm_write_wr_delay", TRUE, "sm_idle") /\ Registers(p)

Clock(p) ==
  \/ Idle(p) \/ FlagcRcvd(p) \/ WaitFlagd(p)
  \/ Read(p) \/ ReadRdAndOeDelay(p) \/ ReadOeDelay(p)
  \/ WaitFlaga(p) \/ WaitFlagb(p) \/ Write(p) \/ WriteWrDelay(p)

-----------------------------------------------------------------------------
MasterInit ==
  /\ current_sm_state = "sm_idle"
  /\ FLAGA_d = 0 /\ FLAGB_d = 0 /\ FLAGC_d = 0 /\ FLAGD_d = 0
  /\ DQ_d = 0
  /\ SLWR_1d_ = 1
  /\ SLRD_d1_ = 1 /\ SLRD_d2_ = 1 /\ SLRD_d3_ = 1
  /\ gpif_address_d = 0
  /\ rd_oe_delay_cnt = 0 /\ oe_delay_cnt = 0 /\ write_delay_cnt = 0
  /\ packet_index = 0 /\ valid_packet = 0 /\ packets_to_send = 0
  /\ ch_src = [h \in 0 .. 1 |-> ChDisabled]
  /\ USER_LED = 15

\* The PLL loses lock (reset_ = lock): every register is cleared at once.
Reset ==
  /\ current_sm_state' = "sm_idle"
  /\ FLAGA_d' = 0 /\ FLAGB_d' = 0 /\ FLAGC_d' = 0 /\ FLAGD_d' = 0
  /\ DQ_d' = 0
  /\ SLWR_1d_' = 1
  /\ SLRD_d1_' = 1 /\ SLRD_d2_' = 1 /\ SLRD_d3_' = 1
  /\ gpif_address_d' = 0
  /\ rd_oe_delay_cnt' = 0 /\ oe_delay_cnt' = 0 /\ write_delay_cnt' = 0
  /\ packet_index' = 0 /\ valid_packet' = 0 /\ packets_to_send' = 0
  /\ ch_src' = [h \in 0 .. 1 |-> ChDisabled]
  /\ USER_LED' = 15

\* A DMA buffer is finite: FLAGD is low once MaxRead words have been parsed.
FiniteBuffer(p) == packet_index >= MaxRead => p.FLAGD = 0

MasterNext ==
  \/ \E p \in Pins : FiniteBuffer(p) /\ Clock(p)
  \/ Reset

MasterSpec == MasterInit /\ [][MasterNext]_masterVars

-----------------------------------------------------------------------------
(* What the master promises whatever the FX3 does with the pins. *)

Replying == {"sm_wait_flaga", "sm_wait_flagb", "sm_write", "sm_write_wr_delay"}

\* Every register holds a value of its width (main.v:25-62).
TypeOK ==
  /\ current_sm_state \in SmStates
  /\ FLAGA_d \in 0 .. 1 /\ FLAGB_d \in 0 .. 1
  /\ FLAGC_d \in 0 .. 1 /\ FLAGD_d \in 0 .. 1
  /\ DQ_d \in 0 .. CtrMod - 1
  /\ SLWR_1d_ \in 0 .. 1
  /\ SLRD_d1_ \in 0 .. 1 /\ SLRD_d2_ \in 0 .. 1 /\ SLRD_d3_ \in 0 .. 1
  /\ gpif_address_d \in 0 .. 3
  /\ rd_oe_delay_cnt \in 0 .. 1
  /\ oe_delay_cnt \in 0 .. 2
  /\ write_delay_cnt \in 0 .. CtrMod - 1
  /\ packet_index \in 0 .. CtrMod - 1
  /\ valid_packet \in 0 .. 1
  /\ packets_to_send \in 0 .. CtrMod - 1
  /\ ch_src \in [0 .. 1 -> 0 .. CtrMod - 1]
  /\ USER_LED \in 0 .. 15

\* The two ends never drive DQ together: while the SLWR pin is low, so that the
\* FPGA drives the bus (main.v:468), output enable is off and every word popped
\* by an earlier read strobe has left the three-cycle read pipeline.
BusTurnaround ==
  SLWR_1d_ = 0 => /\ SLOE_ = 1
                  /\ SLRD_d1_ = 1 /\ SLRD_d2_ = 1 /\ SLRD_d3_ = 1

\* The ADDR pins belong to the word being written, although both SLWR and ADDR
\* are one flop behind the counter: the thread changes exactly between the last
\* word of a packet and the first of the next one.
AddressMatchesBurst ==
  SLWR_1d_ = 0 =>
    LET written == IF current_sm_state = "sm_write" THEN write_delay_cnt + 1
                                                    ELSE write_delay_cnt
    IN  gpif_address_d = (written \div BurstWords) % 2

\* The decision to reply (main.v:319-320) is taken on the count of the request
\* that was just read: however short the read was, word 1 has come out of the
\* pipeline when the turn-around delay ends.
CountBeforeDecision ==
  current_sm_state = "sm_read_oe_delay" /\ oe_delay_cnt = 0 => packet_index >= 2

\* The count that a reply was started with is the count that it ends with: no
\* word of the request is still in the pipeline once the reply has begun.
CountStable ==
  [][/\ current_sm_state \in Replying
     /\ current_sm_state' \in Replying
     => packets_to_send' = packets_to_send]_masterVars

\* Where the words of a request are, state by state: the strobes in flight, the
\* parser position they imply and the two turn-around delays are in step
\* (main.v:144-157, 194-214, 308-326).  The other invariants rest on this one.
ReadPipeline ==
  LET quiet    == SLRD_d1_ = 1 /\ SLRD_d2_ = 1 /\ SLRD_d3_ = 1
      filling  == /\ SLRD_d3_ = 0 => SLRD_d2_ = 0
                  /\ SLRD_d2_ = 0 => SLRD_d1_ = 0
      unparsed == packet_index = 0 /\ valid_packet = 0
      at(s)    == current_sm_state = s
      behind(n) == packet_index <= MaxRead + n
  IN
  /\ at("sm_idle") => quiet
  /\ at("sm_flagc_rcvd") \/ at("sm_wait_flagd") => quiet /\ unparsed
  /\ at("sm_read") =>
       /\ filling /\ (SLRD_d3_ = 1 => unparsed)
       /\ behind(IF FLAGD_d = 1 THEN 0 ELSE 1)
  /\ at("sm_read_rd_and_oe_delay") =>
       /\ filling /\ (SLRD_d3_ = 1 => unparsed)
       /\ SLRD_d1_ = 0
       /\ rd_oe_delay_cnt = 1 => behind(2)
       /\ rd_oe_delay_cnt = 0 => behind(3) /\ SLRD_d2_ = 0 /\ oe_delay_cnt = 2
  /\ at("sm_read_oe_delay") =>
       /\ SLRD_d3_ = 0
       /\ SLRD_d2_ = (IF oe_delay_cnt = 0 THEN 1 ELSE 0)
       /\ SLRD_d1_ = (IF oe_delay_cnt = 2 THEN 0 ELSE 1)
       /\ packet_index >= 2 - oe_delay_cnt
       /\ behind(6 - oe_delay_cnt)
  /\ at("sm_wait_flaga") => quiet /\ (unparsed \/ packet_index >= 3)
  /\ at("sm_wait_flagb") \/ at("sm_write") \/ at("sm_write_wr_delay")
       => quiet /\ unparsed
  /\ SLWR_1d_ = 0 => at("sm_write") \/ at("sm_write_wr_delay")
=============================================================================
