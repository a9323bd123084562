----------------------------- MODULE Telemetry -----------------------------
(***************************************************************************)
(* The counters of fpga/src/main.v that watch the transfers, and the loop  *)
(* of the Nios program (hello_world_small.c) that polls them.  A step is   *)
(* one rising edge of clk_pll; the state machine is that of                *)
(* SlaveFifoMaster with the flags and delays left open.  At any edge the   *)
(* Nios may finish the bus read it is at: two reads of one turn of its     *)
(* loop are some cycles apart.                                             *)
(***************************************************************************)
EXTENDS Integers

CONSTANTS
  BurstWords, \* words in one packet
  Counts,     \* packets that requests ask for
  TxMod,      \* 2^16: tx_ctr has 16 bits
  MaxRequests, MaxWait \* bounds: requests, and cycles of one wait

ASSUME TelemetryAssumption ==
  /\ BurstWords \in Nat \ {0} /\ Counts \subseteq Nat
  /\ TxMod \in Nat \ {0} /\ MaxRequests \in Nat /\ MaxWait \in Nat

VARIABLES
  current_sm_state, packets_to_send, write_delay_cnt,
  wait_ctr, wait_ctr_gbl, update_ctr_flag, tx_ctr, write_ctr,
  pc, new_state, old_state, \* the Nios program
  printed, seen,            \* what it printed last, and when it read the state
  requests,                 \* history: the requests,
  waited,                   \* the cycles the last of them waited so far,
  packets, waits, replies,  \* what was transferred since the counters were cleared,
  clean                     \* which was not in the middle of a request

fpgaVars == <<current_sm_state, packets_to_send, write_delay_cnt>>
ctrVars == <<wait_ctr, wait_ctr_gbl, update_ctr_flag, tx_ctr, write_ctr>>
niosVars == <<pc, new_state, old_state, printed, seen>>
pastVars == <<requests, waited, packets, waits, replies, clean>>
telemetryVars == <<fpgaVars, ctrVars, niosVars, pastVars>>

Waiting == current_sm_state \in {"sm_wait_flaga", "sm_wait_flagb"}

-----------------------------------------------------------------------------
(* The state machine, its reading states taken as one. *)

Go(s) == current_sm_state' = s

BeginRead ==
  /\ current_sm_state = "sm_idle" /\ requests < MaxRequests
  /\ Go("sm_read")
  /\ UNCHANGED <<packets_to_send, write_delay_cnt>>

EndRead ==
  /\ current_sm_state = "sm_read"
  /\ \E n \in Counts :
       packets_to_send' = n /\ Go(IF n = 0 THEN "sm_idle" ELSE "sm_wait_flaga")
  /\ UNCHANGED write_delay_cnt

\* Mutant: one word more.
LoadedCount_NoMinus == packets_to_send * BurstWords

LoadedCount == packets_to_send * BurstWords - 1

Wait ==
  /\ Waiting
  /\ \/ waited < MaxWait /\ UNCHANGED current_sm_state
     \/ Go(IF current_sm_state = "sm_wait_flaga" THEN "sm_wait_flagb" ELSE "sm_write")
  /\ write_delay_cnt' = IF current_sm_state = "sm_wait_flaga" THEN LoadedCount
                        ELSE write_delay_cnt
  /\ UNCHANGED packets_to_send

Write ==
  /\ current_sm_state = "sm_write"
  /\ Go(IF write_delay_cnt = 0 THEN "sm_write_wr_delay" ELSE "sm_write")
  /\ write_delay_cnt' = IF write_delay_cnt > 0 THEN write_delay_cnt - 1 ELSE 0
  /\ UNCHANGED packets_to_send

EndWrite ==
  /\ current_sm_state = "sm_write_wr_delay"
  /\ Go("sm_idle")
  /\ UNCHANGED <<packets_to_send, write_delay_cnt>>

Stay == current_sm_state \in {"sm_idle", "sm_read"} /\ UNCHANGED fpgaVars

-----------------------------------------------------------------------------
(* The counters at the same edge; clear is all_ctr_reset of the debug probe. *)

\* Mutant: the wait of the request before is kept.
WaitCtr_Keep == wait_ctr' = IF Waiting THEN wait_ctr + 1 ELSE wait_ctr

WaitCtr ==
  wait_ctr' = IF current_sm_state = "sm_idle" THEN 0
              ELSE IF Waiting THEN wait_ctr + 1 ELSE wait_ctr

UpdateFlag == update_ctr_flag' = IF Waiting THEN 0 ELSE 1

Counter(c, condition, clear) == IF clear THEN 0 ELSE IF condition THEN c + 1 ELSE c

Probed(clear) ==
  /\ wait_ctr_gbl' = Counter(wait_ctr_gbl, Waiting, clear)
  /\ tx_ctr' = Counter(tx_ctr, current_sm_state = "sm_write_wr_delay", clear) % TxMod
  /\ write_ctr' = Counter(write_ctr, current_sm_state = "sm_write", clear)

\* The history keeps the same numbers from the other end.
Past(clear) ==
  /\ requests' = IF current_sm_state = "sm_idle" /\ current_sm_state' = "sm_read"
                 THEN requests + 1 ELSE requests
  /\ waited' = IF requests' > requests THEN 0
               ELSE IF Waiting THEN waited + 1 ELSE waited
  /\ IF clear
     THEN packets' = 0 /\ waits' = 0 /\ replies' = 0 /\ clean' = (current_sm_state = "sm_idle")
     ELSE /\ IF current_sm_state = "sm_write_wr_delay"
             THEN packets' = packets + packets_to_send /\ replies' = replies + 1
             ELSE UNCHANGED <<packets, replies>>
          /\ waits' = IF current_sm_state = "sm_write_wr_delay" THEN waits + waited ELSE waits
          /\ UNCHANGED clean

-----------------------------------------------------------------------------
(* The Nios program: at an edge it is on its way, or takes a value over. *)

\* The flag is up, and what the request waited so far is counted.
Over == update_ctr_flag = 1 /\ waited > 0

ReadState ==
  /\ pc = "state"
  /\ new_state' = update_ctr_flag
  /\ seen' = IF Over THEN requests ELSE 0
  /\ IF update_ctr_flag # old_state
     THEN pc' = "data" /\ UNCHANGED old_state
     ELSE pc' = "state" /\ old_state' = update_ctr_flag
  /\ UNCHANGED printed

\* printed.of: the request whose wait the flag showed, if it is still the last one.
ReadData ==
  /\ pc = "data"
  /\ printed' = [value |-> wait_ctr, of |-> IF seen = requests THEN seen ELSE 0]
  /\ old_state' = new_state
  /\ pc' = "state"
  /\ UNCHANGED <<new_state, seen>>

Nios == ReadState \/ ReadData \/ UNCHANGED niosVars

Edge ==
  /\ BeginRead \/ EndRead \/ Wait \/ Write \/ EndWrite \/ Stay
  /\ WaitCtr /\ UpdateFlag
  /\ \E clear \in BOOLEAN : Probed(clear) /\ Past(clear)
  /\ Nios

TelemetryInit ==
  /\ current_sm_state = "sm_idle" /\ packets_to_send = 0 /\ write_delay_cnt = 0
  /\ wait_ctr = 0 /\ wait_ctr_gbl = 0 /\ update_ctr_flag = 0 /\ tx_ctr = 0 /\ write_ctr = 0
  /\ pc = "state" /\ new_state = 0 /\ old_state = 0 /\ seen = 0
  /\ printed = [value |-> 0, of |-> 0]
  /\ requests = 0 /\ waited = 0 /\ packets = 0 /\ waits = 0 /\ replies = 0 /\ clean = TRUE

TelemetrySpec == TelemetryInit /\ [][Edge]_telemetryVars

-----------------------------------------------------------------------------
(* Properties. *)

\* The variables stay within their types.
TelemetryTypeOK ==
  /\ current_sm_state \in {"sm_idle", "sm_read", "sm_wait_flaga", "sm_wait_flagb",
                           "sm_write", "sm_write_wr_delay"}
  /\ packets_to_send \in Counts \cup {0}
  /\ write_delay_cnt \in Nat /\ wait_ctr \in Nat /\ wait_ctr_gbl \in Nat
  /\ tx_ctr \in 0..(TxMod - 1) /\ write_ctr \in Nat
  /\ update_ctr_flag \in 0..1 /\ new_state \in 0..1 /\ old_state \in 0..1
  /\ pc \in {"state", "data"}

\* Between requests the counters of the probe agree with what was transferred since
\* they were cleared between two requests: whole packets in words, replies modulo
\* 2^16, the waits of the requests in cycles (main.v, lines 237-280).
CountersAgree ==
  current_sm_state = "sm_idle" /\ clean =>
    /\ write_ctr = BurstWords * packets
    /\ tx_ctr = replies % TxMod
    /\ wait_ctr_gbl = waits

\* When the Nios saw the flag up after the wait of a request and reads the counter
\* before the next request, it prints the whole wait of that request, or 0 when the
\* state machine was faster: never a part of it, which would show when the request
\* waits on, nor the sum of two (hello_world_small.c, lines 91-95, and main.v, lines
\* 228-257).
WholeWaitPrinted ==
  printed.of = requests /\ requests > 0 => printed.value \in {0, waited}
=============================================================================
