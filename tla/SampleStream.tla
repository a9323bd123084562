---------------------------- MODULE SampleStream ----------------------------
(***************************************************************************)
(* The sampler of fpga/src/main.v.  At 200 MHz a counter runs and a shift  *)
(* register collects four samples; at 50 MHz two flops in a row take the   *)
(* register over, and the second is what SLWR writes.  Both clocks come    *)
(* from one PLL and rise together: the flops take what the register held   *)
(* before.  The push buttons, one of them taken, may change at any edge.   *)
(* Then the bytes as the application sees them, with its check for a       *)
(* running counter (DEBUG_PATTERN).                                        *)
(***************************************************************************)
EXTENDS CardBytes

CONSTANT BurstBytes \* bytes of a packet

ASSUME StreamAssumption == BurstBytes \in Nat \ {0} /\ BurstBytes % 4 = 0

VARIABLES
  data_gen,   \* the counter
  PB_1d, PB_2d,
  ch_data_d,  \* the shift register, the low byte first
  data_out_1d, data_out_2d,
  phase,      \* rising edges at 200 MHz since the last at 50 MHz
  age         \* edges at 50 MHz since reset, up to 3

streamVars == <<data_gen, PB_1d, PB_2d, ch_data_d, data_out_1d, data_out_2d, phase, age>>

Zeros == <<0, 0, 0, 0>>

\* The bytes that the multiplexer makes of the counter and the buttons.
Sampled == [pb \in 0..1 |-> [g \in 0..255 |-> ch_data(DefaultSelection, g, pb)]]

Shifted(register, byte) == Tail(register) \o <<byte>>

SlowEdge ==
  /\ data_out_1d' = ch_data_d /\ data_out_2d' = data_out_1d
  /\ age' = IF age < 3 THEN age + 1 ELSE age

\* Mutant: the flops take over every third time.
Ratio_Three == 3

Ratio == 4

FastEdge ==
  /\ data_gen' = (data_gen + 1) % 256
  /\ ch_data_d' = Shifted(ch_data_d, Sampled[PB_2d][data_gen])
  /\ PB_1d' \in 0..1 /\ PB_2d' = PB_1d
  /\ phase' = (phase + 1) % Ratio
  /\ IF phase' = 0 THEN SlowEdge ELSE UNCHANGED <<data_out_1d, data_out_2d, age>>

StreamInit ==
  /\ data_gen = 0 /\ PB_1d = 0 /\ PB_2d = 0 /\ ch_data_d = Zeros
  /\ data_out_1d = Zeros /\ data_out_2d = Zeros
  /\ phase \in 0..(Ratio - 1)
  /\ age = 0

StreamSpec == StreamInit /\ [][FastEdge]_streamVars

-----------------------------------------------------------------------------
(* A capture: two packets of the words that follow data_out_2d, the second *)
(* packet first, as the DMA channel delivers them.                         *)

CaptureByte(j) ==
  LET written == (j + BurstBytes) % (2 * BurstBytes)
      first == data_out_2d[1 + (written % 4)]
  IN Sampled[PB_2d][(reverse[first] + 4 * (written \div 4)) % 256]

-----------------------------------------------------------------------------
(* Properties. *)

\* From the third edge after reset on, a word that is written holds four samples in a
\* row, the oldest in the low byte, and joins the word before it without a gap or a
\* repeated sample (main.v, lines 446-468).
WordsJoin ==
  [][age = 3 /\ phase' = 0 =>
       \A i \in 1..4 :
         reverse[data_out_2d'[i]] = (reverse[data_out_2d[4]] + i) % 256]_streamVars

\* The check of the application is silent on every good capture with the default
\* selection, wherever the counter stands when it begins and although the packets are
\* exchanged: a packet is a whole number of turns of the counter.
CheckIsSilent ==
  age = 3 /\ phase = 0 =>
    \A j \in 1 .. 2 * BurstBytes - 1 :
      ~Complains(reverse[CaptureByte(j - 1)], reverse[CaptureByte(j)])
=============================================================================
