------------------------ MODULE SlaveFifoMasterProofs ------------------------
(***************************************************************************)
(* Proofs about SlaveFifoMaster, for every packet size, word width, set of *)
(* words and read bound that MasterAssumption allows.                      *)
(***************************************************************************)
EXTENDS SlaveFifoMaster, TLAPS

-----------------------------------------------------------------------------
(* Arithmetic of the two expressions the provers need help with. *)

\* gpif_address is one of the four ADDR values.
LEMMA AddressType ==
  ASSUME TypeOK PROVE gpif_address \in 0 .. 3
PROOF
  <1>1. write_delay_cnt \div BurstWords \in Int
    BY MasterAssumption, SMT DEF TypeOK
  <1>2. \A x \in Int : x % 2 \in 0 .. 1
    BY SMT
  <1> QED
    BY <1>1, <1>2, SMT DEF gpif_address

\* The shifted count still fits the 32-bit counter: the subtraction wraps.
LEMMA LastWordType ==
  ASSUME TypeOK PROVE LastWord \in 0 .. CtrMod - 1
PROOF
  <1>1. packets_to_send * BurstWords - 1 \in Int
    BY MasterAssumption, SMT DEF TypeOK
  <1>2. CtrMod \in Nat \ {0}
    BY MasterAssumption, SMT
  <1>3. \A x \in Int : x % CtrMod \in 0 .. CtrMod - 1
    BY <1>2, SMT
  <1> QED
    BY <1>1, <1>3, SMT DEF LastWord

-----------------------------------------------------------------------------
(* Type correctness. *)

\* The registers that are not the state machine keep their width.
LEMMA RegistersType ==
  ASSUME TypeOK, NEW p \in Pins, Registers(p)
  PROVE  /\ FLAGA_d' \in 0 .. 1 /\ FLAGB_d' \in 0 .. 1
         /\ FLAGC_d' \in 0 .. 1 /\ FLAGD_d' \in 0 .. 1
         /\ DQ_d' \in 0 .. CtrMod - 1
         /\ SLWR_1d_' \in 0 .. 1
         /\ SLRD_d1_' \in 0 .. 1 /\ SLRD_d2_' \in 0 .. 1 /\ SLRD_d3_' \in 0 .. 1
         /\ gpif_address_d' \in 0 .. 3
         /\ rd_oe_delay_cnt' \in 0 .. 1
         /\ oe_delay_cnt' \in 0 .. 2
         /\ write_delay_cnt' \in 0 .. CtrMod - 1
         /\ packet_index' \in 0 .. CtrMod - 1
         /\ valid_packet' \in 0 .. 1
         /\ packets_to_send' \in 0 .. CtrMod - 1
         /\ ch_src' \in [0 .. 1 -> 0 .. CtrMod - 1]
         /\ USER_LED' \in 0 .. 15
PROOF
  <1> USE DEF TypeOK, Registers
  <1>0. CtrMod \in Nat /\ CtrMod > 8
    BY MasterAssumption, SMT
  <1>1. /\ FLAGA_d' \in 0 .. 1 /\ FLAGB_d' \in 0 .. 1
        /\ FLAGC_d' \in 0 .. 1 /\ FLAGD_d' \in 0 .. 1
        /\ DQ_d' \in 0 .. CtrMod - 1
    BY MasterAssumption, SMT DEF FlopPins, Pins
  <1>2. /\ SLWR_1d_' \in 0 .. 1
        /\ SLRD_d1_' \in 0 .. 1 /\ SLRD_d2_' \in 0 .. 1 /\ SLRD_d3_' \in 0 .. 1
    BY SMT DEF FlopStrobes, SLWR_, SLRD_
  <1>3. gpif_address_d' \in 0 .. 3
    BY AddressType, SMT DEF FlopStrobes
  <1>4. rd_oe_delay_cnt' \in 0 .. 1
    BY SMT DEF RdOeDelay
  <1>5. oe_delay_cnt' \in 0 .. 2
    BY SMT DEF OeDelay
  <1>6. write_delay_cnt' \in 0 .. CtrMod - 1
    BY <1>0, LastWordType, SMT DEF WriteDelay
  <1>7. packet_index' \in 0 .. CtrMod - 1 /\ valid_packet' \in 0 .. 1
    <2>1. (packet_index + 1) % CtrMod \in 0 .. CtrMod - 1
      BY <1>0, SMT
    <2> QED
      BY <1>0, <2>1, SMT DEF CheckHeader
  <1>8. read_data \in 0 .. CtrMod - 1
    BY <1>0, SMT DEF read_data
  <1>9. packets_to_send' \in 0 .. CtrMod - 1
    BY <1>8, SMT DEF ParsePacket
  <1>10. ch_src' \in [0 .. 1 -> 0 .. CtrMod - 1]
    BY <1>8, SMT DEF ParsePacket
  <1>11. USER_LED' \in 0 .. 15
    <2>1. read_data % 16 \in 0 .. 15
      BY <1>8, <1>0, SMT
    <2> QED
      BY <2>1, SMT DEF ParsePacket
  <1> QED
    BY <1>1, <1>2, <1>3, <1>4, <1>5, <1>6, <1>7, <1>9, <1>10, <1>11, Zenon

LEMMA InitType == MasterInit => TypeOK
  BY MasterAssumption, SMT DEF MasterInit, TypeOK, SmStates

LEMMA StepType == TypeOK /\ [MasterNext]_masterVars => TypeOK'
PROOF
  <1> SUFFICES ASSUME TypeOK, [MasterNext]_masterVars PROVE TypeOK'
    OBVIOUS
  <1>1. ASSUME NEW p \in Pins, Clock(p) PROVE TypeOK'
    <2>1. Registers(p)
      BY <1>1, Zenon DEF Clock, Idle, FlagcRcvd, WaitFlagd, Read, ReadRdAndOeDelay,
         ReadOeDelay, WaitFlaga, WaitFlagb, Write, WriteWrDelay
    <2>2. current_sm_state' \in SmStates
      BY <1>1, SMT DEF Clock, Idle, FlagcRcvd, WaitFlagd, Read, ReadRdAndOeDelay,
         ReadOeDelay, WaitFlaga, WaitFlagb, Write, WriteWrDelay, StepFrom, SmStates
    <2> QED
      BY <2>1, <2>2, RegistersType, Zenon DEF TypeOK
  <1>2. CASE Reset
    BY <1>2, MasterAssumption, SMT DEF Reset, TypeOK, SmStates
  <1>3. CASE UNCHANGED masterVars
    BY <1>3, SMT DEF TypeOK, masterVars, pinVars, strobeVars, countVars, parseVars
  <1> QED
    BY <1>1, <1>2, <1>3, Zenon DEF MasterNext

\* Every register holds a value of its width in every reachable state.
THEOREM TypeCorrect == MasterSpec => []TypeOK
  BY InitType, StepType, PTL DEF MasterSpec

-----------------------------------------------------------------------------
(* The read pipeline: the inductive invariant is TypeOK /\ ReadPipeline.     *)
(* ReadPipeline alone says where the strobes of a request are; TypeOK keeps  *)
(* the counters in the ranges that the case distinctions enumerate.          *)

LEMMA InitPipeline == MasterInit => ReadPipeline
  BY MasterAssumption, SMT DEF MasterInit, ReadPipeline

\* What one edge does to the registers ReadPipeline speaks of.
LEMMA PipelineRegisters ==
  ASSUME TypeOK, NEW p \in Pins, Registers(p), ReadPipeline
  PROVE  /\ FLAGD_d' = p.FLAGD
         /\ SLWR_1d_' = SLWR_
         /\ SLRD_d1_' = SLRD_ /\ SLRD_d2_' = SLRD_d1_ /\ SLRD_d3_' = SLRD_d2_
         /\ SLRD_d3_ = 0 /\ current_sm_state \in {"sm_read", "sm_read_rd_and_oe_delay",
                                                   "sm_read_oe_delay"}
              => packet_index' = packet_index + 1
         /\ SLRD_d3_ = 1 => packet_index' = 0 /\ valid_packet' = 0
PROOF
  <1>1. /\ FLAGD_d' = p.FLAGD
        /\ SLWR_1d_' = SLWR_
        /\ SLRD_d1_' = SLRD_ /\ SLRD_d2_' = SLRD_d1_ /\ SLRD_d3_' = SLRD_d2_
    BY SMT DEF Registers, FlopPins, FlopStrobes
  <1>2. SLRD_d3_ = 1 => packet_index' = 0 /\ valid_packet' = 0
    BY SMT DEF Registers, CheckHeader, read_ready
  <1>3. ASSUME SLRD_d3_ = 0,
               current_sm_state \in {"sm_read", "sm_read_rd_and_oe_delay",
                                     "sm_read_oe_delay"}
        PROVE  packet_index' = packet_index + 1
    <2>1. packet_index \in Nat /\ packet_index + 1 < CtrMod
      BY <1>3, MasterAssumption, SMT DEF ReadPipeline, TypeOK
    <2>2. (packet_index + 1) % CtrMod = packet_index + 1
      BY <2>1, MasterAssumption, SMT
    <2> QED
      BY <1>3, <2>2, SMT DEF Registers, CheckHeader, read_ready
  <1> QED
    BY <1>1, <1>2, <1>3, Zenon

LEMMA StepPipeline == TypeOK /\ ReadPipeline /\ [MasterNext]_masterVars => ReadPipeline'
PROOF
  <1> SUFFICES ASSUME TypeOK, ReadPipeline, [MasterNext]_masterVars
               PROVE  ReadPipeline'
    OBVIOUS
  <1>1. ASSUME NEW p \in Pins, FiniteBuffer(p), Clock(p) PROVE ReadPipeline'
    <2>1. Registers(p)
      BY <1>1, Zenon DEF Clock, Idle, FlagcRcvd, WaitFlagd, Read, ReadRdAndOeDelay,
         ReadOeDelay, WaitFlaga, WaitFlagb, Write, WriteWrDelay
    <2> USE <2>1, PipelineRegisters, MasterAssumption
    <2> USE DEF ReadPipeline, TypeOK, StepFrom, SLRD_, SLWR_
    <2>2. CASE Idle(p)
      BY <2>2, SMT DEF Idle
    <2>3. CASE FlagcRcvd(p)
      BY <2>3, SMT DEF FlagcRcvd
    <2>4. CASE WaitFlagd(p)
      BY <2>4, SMT DEF WaitFlagd
    <2>5. CASE Read(p)
      <3>1. rd_oe_delay_cnt' = 1
        BY <2>5, SMT DEF Read, Registers, RdOeDelay
      <3>2. FLAGD_d' = 1 => packet_index < MaxRead
        BY <1>1, SMT DEF FiniteBuffer, Pins
      <3> QED
        BY <2>5, <3>1, <3>2, SMT DEF Read
    <2>6. CASE ReadRdAndOeDelay(p)
      <3>1. oe_delay_cnt' = 2
        BY <2>6, SMT DEF ReadRdAndOeDelay, Registers, OeDelay
      <3>2. rd_oe_delay_cnt' = 0
        BY <2>6, SMT DEF ReadRdAndOeDelay, Registers, RdOeDelay
      <3> QED
        BY <2>6, <3>1, <3>2, SMT DEF ReadRdAndOeDelay
    <2>7. CASE ReadOeDelay(p)
      <3>1. oe_delay_cnt > 0 => oe_delay_cnt' = oe_delay_cnt - 1
        BY <2>7, SMT DEF ReadOeDelay, Registers, OeDelay
      <3> QED
        BY <2>7, <3>1, SMT DEF ReadOeDelay
    <2>8. CASE WaitFlaga(p)
      BY <2>8, SMT DEF WaitFlaga
    <2>9. CASE WaitFlagb(p)
      BY <2>9, SMT DEF WaitFlagb
    <2>10. CASE Write(p)
      BY <2>10, SMT DEF Write
    <2>11. CASE WriteWrDelay(p)
      BY <2>11, SMT DEF WriteWrDelay
    <2> QED
      BY <1>1, <2>2, <2>3, <2>4, <2>5, <2>6, <2>7, <2>8, <2>9, <2>10, <2>11, Zenon
         DEF Clock
  <1>2. CASE Reset
    BY <1>2, MasterAssumption, SMT DEF Reset, ReadPipeline
  <1>3. CASE UNCHANGED masterVars
    BY <1>3, SMT DEF ReadPipeline, masterVars, pinVars, strobeVars, countVars, parseVars
  <1> QED
    BY <1>1, <1>2, <1>3, Zenon DEF MasterNext

\* In every reachable state the read strobes in flight, the parser position and
\* the turn-around delays are in step.
THEOREM PipelineInvariant == MasterSpec => []ReadPipeline
PROOF
  <1>1. MasterInit => TypeOK /\ ReadPipeline
    BY InitType, InitPipeline
  <1>2. TypeOK /\ ReadPipeline /\ [MasterNext]_masterVars => TypeOK' /\ ReadPipeline'
    BY StepType, StepPipeline
  <1> QED
    BY <1>1, <1>2, PTL DEF MasterSpec

\* The FPGA and the FX3 never drive the data bus in the same cycle.
THEOREM BusNeverShared == MasterSpec => []BusTurnaround
PROOF
  <1>1. ReadPipeline => BusTurnaround
    BY SMT DEF ReadPipeline, BusTurnaround, SLOE_
  <1> QED
    BY <1>1, PipelineInvariant, PTL

\* The decision to reply always sees the count of the request just read.
THEOREM DecisionSeesCount == MasterSpec => []CountBeforeDecision
PROOF
  <1>1. ReadPipeline /\ TypeOK => CountBeforeDecision
    BY SMT DEF ReadPipeline, CountBeforeDecision, TypeOK
  <1> QED
    BY <1>1, PipelineInvariant, TypeCorrect, PTL

-----------------------------------------------------------------------------
(* The address of a write and the count of a reply. *)

LEMMA StepAddress ==
  ASSUME TypeOK, ReadPipeline, AddressMatchesBurst, [MasterNext]_masterVars
  PROVE  AddressMatchesBurst'
PROOF
  <1>1. ASSUME NEW p \in Pins, Clock(p) PROVE AddressMatchesBurst'
    <2>1. Registers(p)
      BY <1>1, Zenon DEF Clock, Idle, FlagcRcvd, WaitFlagd, Read, ReadRdAndOeDelay,
         ReadOeDelay, WaitFlaga, WaitFlagb, Write, WriteWrDelay
    <2>2. CASE current_sm_state # "sm_write"
      BY <2>1, <2>2, SMT DEF Registers, FlopStrobes, SLWR_, AddressMatchesBurst
    <2>3. CASE current_sm_state = "sm_write" /\ write_delay_cnt > 0
      <3>1. current_sm_state' = "sm_write" /\ write_delay_cnt' = write_delay_cnt - 1
        BY <1>1, <2>1, <2>3, SMT DEF Clock, Idle, FlagcRcvd, WaitFlagd, Read,
           ReadRdAndOeDelay, ReadOeDelay, WaitFlaga, WaitFlagb, Write, WriteWrDelay,
           StepFrom, Registers, WriteDelay
      <3>2. write_delay_cnt' + 1 = write_delay_cnt
        BY <3>1, SMT DEF TypeOK
      <3>3. gpif_address_d' = (write_delay_cnt \div BurstWords) % 2
        BY <2>1, <2>3, SMT DEF Registers, FlopStrobes, gpif_address, ReadStates
      <3> QED
        BY <3>1, <3>2, <3>3, Zenon DEF AddressMatchesBurst
    <2>4. CASE current_sm_state = "sm_write" /\ write_delay_cnt = 0
      <3>1. current_sm_state' = "sm_write_wr_delay" /\ write_delay_cnt' = write_delay_cnt
        BY <1>1, <2>1, <2>4, SMT DEF Clock, Idle, FlagcRcvd, WaitFlagd, Read,
           ReadRdAndOeDelay, ReadOeDelay, WaitFlaga, WaitFlagb, Write, WriteWrDelay,
           StepFrom, Registers, WriteDelay
      <3>2. gpif_address_d' = (write_delay_cnt \div BurstWords) % 2
        BY <2>1, <2>4, SMT DEF Registers, FlopStrobes, gpif_address, ReadStates
      <3> QED
        BY <3>1, <3>2, SMT DEF AddressMatchesBurst
    <2> QED
      BY <2>2, <2>3, <2>4, SMT DEF TypeOK
  <1>2. CASE Reset
    BY <1>2, SMT DEF Reset, AddressMatchesBurst
  <1>3. CASE UNCHANGED masterVars
    BY <1>3, SMT DEF AddressMatchesBurst, masterVars, strobeVars, countVars
  <1> QED
    BY <1>1, <1>2, <1>3, Zenon DEF MasterNext

\* Every word is written to the thread that its packet belongs to.
THEOREM AddressCorrect == MasterSpec => []AddressMatchesBurst
PROOF
  <1>1. MasterInit => AddressMatchesBurst
    BY SMT DEF MasterInit, AddressMatchesBurst
  <1> QED
    BY <1>1, StepAddress, TypeCorrect, PipelineInvariant, PTL DEF MasterSpec

\* A reply ends with the count it was started with.
THEOREM CountIsStable == MasterSpec => CountStable
PROOF
  <1>1. ASSUME ReadPipeline, [MasterNext]_masterVars,
               current_sm_state \in Replying, current_sm_state' \in Replying
        PROVE  packets_to_send' = packets_to_send
    <2>1. ~ (valid_packet = 1 /\ packet_index = 1)
      BY <1>1, SMT DEF ReadPipeline, Replying
    <2>2. ASSUME NEW p \in Pins, Clock(p) PROVE packets_to_send' = packets_to_send
      BY <2>1, <2>2, Zenon DEF Clock, Idle, FlagcRcvd, WaitFlagd, Read,
         ReadRdAndOeDelay, ReadOeDelay, WaitFlaga, WaitFlagb, Write, WriteWrDelay,
         Registers, ParsePacket
    <2>3. ~ Reset
      BY <1>1, SMT DEF Reset, Replying
    <2>4. CASE UNCHANGED masterVars
      BY <2>4, SMT DEF masterVars, parseVars
    <2> QED
      BY <1>1, <2>2, <2>3, <2>4, Zenon DEF MasterNext
  <1> QED
    BY <1>1, PipelineInvariant, PTL DEF MasterSpec, CountStable
=============================================================================
