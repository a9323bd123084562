--------------------------- MODULE CardPartsProofs ---------------------------
(***************************************************************************)
(* Proofs about the parts of the card beside its state machine.  First the *)
(* counters and the Nios (Telemetry): packets of any number of words, any  *)
(* number of requests, waits of any length and counters of any width.      *)
(* Then the way of a request and of the samples it selects (SignalPath):   *)
(* any selections, counts and actions of the user.  At last the sampler    *)
(* (SampleStream), with packets of any number of half turns of its counter. *)
(***************************************************************************)
EXTENDS SignalPath, SampleStream, Telemetry, TLAPS

-----------------------------------------------------------------------------
(* Telemetry: what the counters count and what the Nios has seen. *)


\* States in which the wait of the request has begun, and those after it.
Begun    == {"sm_wait_flaga", "sm_wait_flagb", "sm_write", "sm_write_wr_delay"}
WaitOver == current_sm_state \in {"sm_write", "sm_write_wr_delay", "sm_idle"}

\* Words of the reply that are written so far.
Sent == IF current_sm_state = "sm_write" THEN LoadedCount - write_delay_cnt
        ELSE IF current_sm_state = "sm_write_wr_delay" THEN packets_to_send * BurstWords
        ELSE 0

PastOK ==
  /\ requests \in Nat /\ waited \in Nat /\ packets \in Nat /\ waits \in Nat
  /\ replies \in Nat /\ clean \in BOOLEAN
  /\ seen \in 0..requests /\ printed.of \in 0..requests

\* The delay counter while a reply is prepared and sent.
DelayOK ==
  /\ current_sm_state \in Begun => packets_to_send > 0
  /\ current_sm_state = "sm_wait_flagb" => write_delay_cnt = LoadedCount
  /\ current_sm_state = "sm_write" => write_delay_cnt <= LoadedCount

\* The counters of the probe in the middle of a request.
CountInv ==
  clean =>
    /\ write_ctr = BurstWords * packets + Sent
    /\ tx_ctr = replies % TxMod
    /\ wait_ctr_gbl = waits + (IF current_sm_state \in Begun THEN waited ELSE 0)

\* What the Nios has read, and what it can still read.
PrintInv ==
  /\ wait_ctr \in {0, waited}
  /\ current_sm_state # "sm_idle" => requests > 0 /\ wait_ctr = waited
  /\ current_sm_state = "sm_read" => waited = 0
  /\ Waiting /\ waited > 0 => update_ctr_flag = 0
  /\ pc = "data" /\ seen = requests /\ requests > 0 => WaitOver
  /\ printed.of = requests /\ requests > 0 => WaitOver /\ printed.value \in {0, waited}

TelemetryInv == TelemetryTypeOK /\ PastOK /\ DelayOK /\ CountInv /\ PrintInv

-----------------------------------------------------------------------------
(* Arithmetic. *)

LEMMA Words ==
  ASSUME NEW n \in Nat, NEW k \in Nat \ {0}
  PROVE  /\ n * k \in Nat /\ k * n = n * k /\ (n > 0 => n * k > 0)
         /\ \A p \in Nat : k * (p + n) = k * p + n * k
OBVIOUS

LEMMA SmallModulo == ASSUME NEW n \in Nat, NEW M \in Nat \ {0}
                     PROVE n % M \in 0..(M - 1) /\ (n < M => n % M = n)
OBVIOUS

\* A remainder is determined by the number it is a remainder of.
LEMMA OneRemainder ==
  ASSUME NEW M \in Nat \ {0}, NEW q \in Int, NEW p \in Int,
         NEW r \in 0..(M - 1), NEW s \in 0..(M - 1), M * q + r = M * p + s
  PROVE  r = s
<1> DEFINE d == q - p
<1>1. M * q - M * p = M * d OBVIOUS
<1>2. d \in Int /\ M * q \in Int /\ M * p \in Int OBVIOUS
<1> HIDE DEF d
<1>3. d >= 1 => M * d >= M BY <1>2
<1>4. d <= -1 => M * d <= -M BY <1>2
<1>5. d = 0 => M * d = 0 BY <1>2
<1>6. M * d \in Int BY <1>2
<1>7. M * d = s - r BY <1>1, <1>2
<1> QED BY <1>2, <1>3, <1>4, <1>5, <1>6, <1>7

\* Counting modulo M step by step is counting modulo M at the end.
LEMMA CountModulo ==
  ASSUME NEW n \in Nat, NEW M \in Nat \ {0}
  PROVE  ((n % M) + 1) % M = (n + 1) % M
<1> DEFINE r == n % M
           q == n \div M
           s == (n + 1) % M
           p == (n + 1) \div M
<1>1. r \in 0..(M - 1) /\ q \in Int /\ n = M * q + r OBVIOUS
<1>2. s \in 0..(M - 1) /\ p \in Int /\ n + 1 = M * p + s OBVIOUS
<1> HIDE DEF r, q, s, p
<1>3. CASE r + 1 < M
  <2>1. r + 1 \in 0..(M - 1) /\ r + 1 \in Nat BY <1>1, <1>3
  <2>2. M * q + (r + 1) = M * p + s BY <1>1, <1>2
  <2>3. r + 1 = s BY <1>1, <1>2, <2>1, <2>2, OneRemainder
  <2>4. (r + 1) % M = r + 1 BY <1>3, <2>1, SmallModulo
  <2> QED BY <2>3, <2>4 DEF r, s
<1>4. CASE r + 1 = M
  <2>1. M * (q + 1) = M * q + M BY <1>1
  <2>2. M * (q + 1) + 0 = M * p + s BY <1>1, <1>2, <1>4, <2>1
  <2>3. q + 1 \in Int /\ 0 \in 0..(M - 1) BY <1>1
  <2>4. 0 = s BY <1>2, <2>2, <2>3, OneRemainder
  <2>5. (r + 1) % M = 0 BY <1>4
  <2> QED BY <2>4, <2>5 DEF r, s
<1> QED BY <1>1, <1>3, <1>4

-----------------------------------------------------------------------------
(* One edge of the clock. *)

\* What every edge does to the state machine: the step it takes, and when a
\* request begins.
LEMMA MachineStep ==
  ASSUME TelemetryInv, Edge
  PROVE  /\ current_sm_state' \in {"sm_idle", "sm_read"} \cup Begun
         /\ requests' \in {requests, requests + 1}
         /\ requests' # requests <=> current_sm_state = "sm_idle" /\ current_sm_state' = "sm_read"
         /\ current_sm_state = "sm_idle" => current_sm_state' \in {"sm_idle", "sm_read"}
         /\ current_sm_state' = "sm_write_wr_delay" =>
              current_sm_state = "sm_write" /\ write_delay_cnt = 0
         /\ current_sm_state' = "sm_write" => current_sm_state \in {"sm_wait_flagb", "sm_write"}
         /\ current_sm_state \in Begun =>
              current_sm_state' \in Begun \cup {"sm_idle"} /\ packets_to_send' = packets_to_send
         /\ current_sm_state \in Begun /\ current_sm_state' = "sm_idle" =>
              current_sm_state = "sm_write_wr_delay"
         /\ current_sm_state = "sm_write_wr_delay" => current_sm_state' = "sm_idle"
         /\ current_sm_state = "sm_read" /\ current_sm_state' \in Begun =>
              current_sm_state' = "sm_wait_flaga"
         /\ Waiting => current_sm_state' \in {"sm_wait_flaga", "sm_wait_flagb", "sm_write"}
         /\ current_sm_state = "sm_write" =>
              current_sm_state' \in {"sm_write", "sm_write_wr_delay"}
<1>1. requests \in Nat BY DEF TelemetryInv, PastOK
<1>2. requests' = IF current_sm_state = "sm_idle" /\ current_sm_state' = "sm_read"
                  THEN requests + 1 ELSE requests
  BY DEF Edge, Past
<1>3. current_sm_state \in {"sm_idle", "sm_read"} \cup Begun
  BY DEF TelemetryInv, TelemetryTypeOK, Begun
<1>4. CASE BeginRead BY <1>1, <1>2, <1>4 DEF BeginRead, Go, Begun, Waiting
<1>5. CASE EndRead BY <1>1, <1>2, <1>5 DEF EndRead, Go, Begun, Waiting
<1>6. CASE Wait BY <1>1, <1>2, <1>6 DEF Wait, Go, Begun, Waiting
<1>7. CASE Write BY <1>1, <1>2, <1>7 DEF Write, Go, Begun, Waiting
<1>8. CASE EndWrite BY <1>1, <1>2, <1>8 DEF EndWrite, Go, Begun, Waiting
<1>9. CASE Stay BY <1>1, <1>2, <1>9 DEF Stay, fpgaVars, Begun, Waiting
<1> QED BY <1>4, <1>5, <1>6, <1>7, <1>8, <1>9 DEF Edge

LEMMA LoadedType ==
  ASSUME TelemetryAssumption, TelemetryInv
  PROVE  /\ packets_to_send \in Nat /\ packets_to_send * BurstWords \in Nat
         /\ packets_to_send > 0 => LoadedCount \in Nat
         /\ LoadedCount = packets_to_send * BurstWords - 1
<1>1. packets_to_send \in Nat
  BY DEF TelemetryInv, TelemetryTypeOK, TelemetryAssumption
<1>2. BurstWords \in Nat \ {0} BY DEF TelemetryAssumption
<1>3. /\ packets_to_send * BurstWords \in Nat
      /\ packets_to_send > 0 => packets_to_send * BurstWords > 0
  BY <1>1, <1>2, Words
<1> QED BY <1>1, <1>3 DEF LoadedCount

\* The delay counter is loaded before the first word is written.
LEMMA DelayKeeps ==
  ASSUME TelemetryAssumption, TelemetryInv, Edge
  PROVE  write_delay_cnt' \in Nat /\ packets_to_send' \in Counts \cup {0} /\ DelayOK'
<1>1. write_delay_cnt \in Nat /\ packets_to_send \in Counts \cup {0}
  BY DEF TelemetryInv, TelemetryTypeOK
<1>2. CASE BeginRead BY <1>1, <1>2 DEF BeginRead, Go, DelayOK, Begun
<1>3. CASE EndRead
  <2>1. PICK n \in Counts : packets_to_send' = n
                           /\ current_sm_state' = IF n = 0 THEN "sm_idle" ELSE "sm_wait_flaga"
    BY <1>3 DEF EndRead, Go
  <2>2. write_delay_cnt' = write_delay_cnt /\ n \in Nat
    BY <1>3 DEF EndRead, TelemetryAssumption
  <2> QED BY <1>1, <2>1, <2>2 DEF DelayOK, Begun
<1>4. CASE Wait
  <2>1. /\ packets_to_send > 0 /\ LoadedCount' = LoadedCount /\ LoadedCount \in Nat
        /\ packets_to_send' = packets_to_send
    BY <1>4, LoadedType DEF Wait, Waiting, TelemetryInv, DelayOK, Begun, LoadedCount
  <2>2. current_sm_state = "sm_wait_flagb" => write_delay_cnt = LoadedCount
    BY DEF TelemetryInv, DelayOK
  <2>3. /\ current_sm_state \in {"sm_wait_flaga", "sm_wait_flagb"}
        /\ \/ current_sm_state' = current_sm_state
           \/ current_sm_state' = IF current_sm_state = "sm_wait_flaga" THEN "sm_wait_flagb"
                                  ELSE "sm_write"
        /\ write_delay_cnt' = IF current_sm_state = "sm_wait_flaga" THEN LoadedCount
                              ELSE write_delay_cnt
    BY <1>4 DEF Wait, Waiting, Go
  <2> QED BY <1>1, <2>1, <2>2, <2>3 DEF DelayOK
<1>5. CASE Write
  <2>1. /\ packets_to_send > 0 /\ LoadedCount' = LoadedCount /\ LoadedCount \in Nat
        /\ packets_to_send' = packets_to_send /\ write_delay_cnt <= LoadedCount
    BY <1>5, LoadedType DEF Write, TelemetryInv, DelayOK, Begun, LoadedCount
  <2> QED BY <1>1, <1>5, <2>1 DEF Write, Go, DelayOK
<1>6. CASE EndWrite BY <1>1, <1>6 DEF EndWrite, Go, DelayOK, Begun
<1>7. CASE Stay BY <1>1, <1>7 DEF Stay, fpgaVars, TelemetryInv, DelayOK, Begun
<1> QED BY <1>2, <1>3, <1>4, <1>5, <1>6, <1>7 DEF Edge

LEMMA CountersTyped ==
  ASSUME TelemetryAssumption, TelemetryInv, Edge
  PROVE  /\ wait_ctr' \in Nat /\ wait_ctr_gbl' \in Nat /\ write_ctr' \in Nat
         /\ tx_ctr' \in 0..(TxMod - 1) /\ update_ctr_flag' \in 0..1
<1>1. /\ wait_ctr \in Nat /\ wait_ctr_gbl \in Nat /\ write_ctr \in Nat /\ tx_ctr \in Nat
      /\ TxMod \in Nat \ {0}
  BY DEF TelemetryInv, TelemetryTypeOK, TelemetryAssumption
<1>2. wait_ctr' \in Nat /\ update_ctr_flag' \in 0..1
  BY <1>1 DEF Edge, WaitCtr, UpdateFlag
<1>3. PICK clear \in BOOLEAN : Probed(clear) BY DEF Edge
<1>4. wait_ctr_gbl' \in Nat /\ write_ctr' \in Nat BY <1>1, <1>3 DEF Probed, Counter
<1>5. Counter(tx_ctr, current_sm_state = "sm_write_wr_delay", clear) \in Nat
  BY <1>1 DEF Counter
<1>6. tx_ctr' \in 0..(TxMod - 1) BY <1>1, <1>3, <1>5, SmallModulo DEF Probed
<1> QED BY <1>2, <1>4, <1>6

LEMMA PastTyped ==
  ASSUME TelemetryAssumption, TelemetryInv, Edge PROVE PastOK'
<1>1. /\ requests \in Nat /\ waited \in Nat /\ packets \in Nat /\ waits \in Nat
      /\ replies \in Nat /\ packets_to_send \in Nat
      /\ seen \in 0..requests /\ printed.of \in 0..requests
  BY LoadedType DEF TelemetryInv, PastOK
<1>2. clean \in BOOLEAN BY DEF TelemetryInv, PastOK
<1>3. requests' \in {requests, requests + 1} BY MachineStep
<1>4. PICK clear \in BOOLEAN : Past(clear) BY DEF Edge
<1>5. waited' \in Nat BY <1>1, <1>4 DEF Past
<1>6. packets' \in Nat /\ replies' \in Nat /\ waits' \in Nat BY <1>1, <1>4 DEF Past
<1>7. clean' \in BOOLEAN
  <2>1. clean' = clean \/ clean' = (current_sm_state = "sm_idle") BY <1>4 DEF Past
  <2> QED BY <1>2, <2>1
<1>8. seen' \in 0..requests /\ printed'.of \in 0..requests
  <2>1. CASE ReadState BY <1>1, <2>1 DEF ReadState
  <2>2. CASE ReadData BY <1>1, <2>2 DEF ReadData
  <2>3. CASE UNCHANGED niosVars BY <1>1, <2>3 DEF niosVars
  <2> QED BY <2>1, <2>2, <2>3 DEF Edge, Nios
<1>9. seen' \in 0..requests' /\ printed'.of \in 0..requests' BY <1>1, <1>3, <1>8
<1> QED BY <1>1, <1>3, <1>5, <1>6, <1>7, <1>9 DEF PastOK

LEMMA TypeKeeps ==
  ASSUME TelemetryAssumption, TelemetryInv, Edge PROVE TelemetryTypeOK'
<1>1. current_sm_state' \in {"sm_idle", "sm_read", "sm_wait_flaga", "sm_wait_flagb",
                             "sm_write", "sm_write_wr_delay"}
  BY MachineStep DEF Begun
<1>2. new_state' \in 0..1 /\ old_state' \in 0..1 /\ pc' \in {"state", "data"}
  <2>1. /\ new_state \in 0..1 /\ old_state \in 0..1 /\ pc \in {"state", "data"}
        /\ update_ctr_flag \in 0..1
    BY DEF TelemetryInv, TelemetryTypeOK
  <2>2. CASE ReadState BY <2>1, <2>2 DEF ReadState
  <2>3. CASE ReadData BY <2>1, <2>3 DEF ReadData
  <2>4. CASE UNCHANGED niosVars BY <2>1, <2>4 DEF niosVars
  <2> QED BY <2>2, <2>3, <2>4 DEF Edge, Nios
<1> QED BY <1>1, <1>2, DelayKeeps, CountersTyped DEF TelemetryTypeOK

\* The counters of the probe count what the request transfers.
LEMMA CountKeeps ==
  ASSUME TelemetryAssumption, TelemetryInv, Edge PROVE CountInv'
<1>1. PICK clear \in BOOLEAN : Probed(clear) /\ Past(clear) BY DEF Edge
<1> DEFINE st == current_sm_state
           All == packets_to_send * BurstWords
<1>2. /\ packets \in Nat /\ replies \in Nat /\ waits \in Nat /\ waited \in Nat
      /\ write_ctr \in Nat /\ wait_ctr_gbl \in Nat /\ tx_ctr \in Nat /\ write_delay_cnt \in Nat
      /\ TxMod \in Nat \ {0} /\ BurstWords \in Nat \ {0}
      /\ packets_to_send \in Nat /\ All \in Nat
      /\ BurstWords * packets \in Nat
      /\ BurstWords * (packets + packets_to_send) = BurstWords * packets + All
  BY LoadedType, Words DEF TelemetryInv, TelemetryTypeOK, PastOK, TelemetryAssumption
<1>3. st \in {"sm_idle", "sm_read"} \cup Begun BY DEF TelemetryInv, TelemetryTypeOK, Begun
<1>4. CASE clear
  <2>1. /\ write_ctr' = 0 /\ tx_ctr' = 0 % TxMod /\ wait_ctr_gbl' = 0
        /\ packets' = 0 /\ waits' = 0 /\ replies' = 0 /\ clean' = (st = "sm_idle")
    BY <1>1, <1>4 DEF Probed, Past, Counter
  <2>2. clean' => st' \in {"sm_idle", "sm_read"} BY <2>1, MachineStep
  <2>3. clean' => Sent' = 0 /\ st' \notin Begun BY <2>2 DEF Sent, Begun
  <2>4. BurstWords * 0 = 0 BY <1>2
  <2> QED BY <2>1, <2>3, <2>4 DEF CountInv
<1>5. CASE ~ clear /\ clean
  <2>1. /\ write_ctr = BurstWords * packets + Sent /\ tx_ctr = replies % TxMod
        /\ wait_ctr_gbl = waits + (IF st \in Begun THEN waited ELSE 0)
    BY <1>5 DEF TelemetryInv, CountInv
  <2>2. /\ write_ctr' = IF st = "sm_write" THEN write_ctr + 1 ELSE write_ctr
        /\ tx_ctr' = (IF st = "sm_write_wr_delay" THEN tx_ctr + 1 ELSE tx_ctr) % TxMod
        /\ wait_ctr_gbl' = IF Waiting THEN wait_ctr_gbl + 1 ELSE wait_ctr_gbl
    BY <1>1, <1>5 DEF Probed, Counter
  <2>3. /\ packets' = IF st = "sm_write_wr_delay" THEN packets + packets_to_send ELSE packets
        /\ replies' = IF st = "sm_write_wr_delay" THEN replies + 1 ELSE replies
        /\ waits' = IF st = "sm_write_wr_delay" THEN waits + waited ELSE waits
        /\ waited' = IF requests' > requests THEN 0 ELSE IF Waiting THEN waited + 1 ELSE waited
    BY <1>1, <1>5 DEF Past
  <2>4. tx_ctr' = replies' % TxMod
    <3>1. (replies % TxMod) % TxMod = replies % TxMod
      <4> DEFINE r == replies % TxMod
      <4>1. r \in Nat /\ r < TxMod BY <1>2, SmallModulo
      <4> HIDE DEF r
      <4>2. r % TxMod = r BY <1>2, <4>1, SmallModulo
      <4> QED BY <4>2 DEF r
    <3>2. ((replies % TxMod) + 1) % TxMod = (replies + 1) % TxMod BY <1>2, CountModulo
    <3> QED BY <2>1, <2>2, <2>3, <3>1, <3>2
  <2>5. st \in Begun => requests' = requests /\ requests \in Nat
    BY MachineStep DEF Begun, TelemetryInv, PastOK
  <2>6. wait_ctr_gbl' = waits' + (IF st' \in Begun THEN waited' ELSE 0)
    <3>1. CASE st \in {"sm_wait_flaga", "sm_wait_flagb"}
      <4>1. st' \in Begun /\ st \in Begun BY <3>1, MachineStep DEF Waiting, Begun
      <4> QED BY <1>2, <2>1, <2>2, <2>3, <2>5, <3>1, <4>1 DEF Waiting
    <3>2. CASE st = "sm_write"
      <4>1. st' \in Begun /\ st \in Begun BY <3>2, MachineStep DEF Begun
      <4> QED BY <1>2, <2>1, <2>2, <2>3, <2>5, <3>2, <4>1 DEF Waiting
    <3>3. CASE st = "sm_write_wr_delay"
      <4>1. st' \notin Begun /\ st \in Begun BY <3>3, MachineStep DEF Begun
      <4> QED BY <1>2, <2>1, <2>2, <2>3, <3>3, <4>1 DEF Waiting
    <3>4. CASE st = "sm_idle"
      <4>1. st' \notin Begun /\ st \notin Begun BY <3>4, MachineStep DEF Begun
      <4> QED BY <1>2, <2>1, <2>2, <2>3, <3>4, <4>1 DEF Waiting
    <3>5. CASE st = "sm_read"
      <4>1. st \notin Begun /\ waited = 0 /\ requests' = requests /\ requests \in Nat
        BY <3>5, MachineStep DEF Begun, TelemetryInv, PrintInv, PastOK
      <4> QED BY <1>2, <2>1, <2>2, <2>3, <3>5, <4>1 DEF Waiting
    <3> QED BY <1>3, <3>1, <3>2, <3>3, <3>4, <3>5 DEF Begun
  <2>7. write_ctr' = BurstWords * packets' + Sent'
    <3>1. LoadedCount = All - 1 /\ (packets_to_send' = packets_to_send => LoadedCount' = LoadedCount)
      BY LoadedType DEF LoadedCount
    <3>2. CASE st = "sm_write"
      <4>1. packets_to_send' = packets_to_send BY <3>2, MachineStep DEF Begun
      <4>2. Sent = LoadedCount - write_delay_cnt BY <3>2 DEF Sent
      <4>3. CASE write_delay_cnt = 0
        <5>1. st' = "sm_write_wr_delay" BY <1>2, <3>2, <4>3 DEF Edge, BeginRead, EndRead, Wait,
                                           Waiting, Write, EndWrite, Stay, Go
        <5>2. Sent' = All BY <4>1, <5>1 DEF Sent
        <5> QED BY <1>2, <2>1, <2>2, <2>3, <3>1, <3>2, <4>2, <4>3, <5>2
      <4>4. CASE write_delay_cnt # 0
        <5>1. st' = "sm_write" /\ write_delay_cnt' = write_delay_cnt - 1
          BY <1>2, <3>2, <4>4 DEF Edge, BeginRead, EndRead, Wait, Waiting, Write, EndWrite,
             Stay, Go
        <5>2. Sent' = LoadedCount' - write_delay_cnt' BY <5>1 DEF Sent
        <5> QED BY <1>2, <2>1, <2>2, <2>3, <3>1, <3>2, <4>1, <4>2, <5>1, <5>2
      <4> QED BY <4>3, <4>4
    <3>3. CASE st = "sm_write_wr_delay"
      <4>1. Sent = All /\ Sent' = 0 BY <3>3, MachineStep DEF Sent
      <4> QED BY <1>2, <2>1, <2>2, <2>3, <3>3, <4>1
    <3>4. CASE st = "sm_wait_flagb" /\ st' = "sm_write"
      <4>1. write_delay_cnt' = LoadedCount' /\ LoadedCount' \in Int
        <5>1. packets_to_send' = packets_to_send BY <3>4, MachineStep DEF Begun
        <5>2. write_delay_cnt = LoadedCount BY <3>4 DEF TelemetryInv, DelayOK
        <5>3. write_delay_cnt' = write_delay_cnt
          BY <3>4 DEF Edge, BeginRead, EndRead, Wait, Waiting, Write, EndWrite, Stay, fpgaVars
        <5> QED BY <1>2, <3>1, <5>1, <5>2, <5>3
      <4>2. Sent' = LoadedCount' - write_delay_cnt' /\ Sent = 0 BY <3>4 DEF Sent
      <4>3. Sent' = 0
        <5>1. \A i \in Int : i - i = 0 OBVIOUS
        <5> QED BY <4>1, <4>2, <5>1
      <4>4. write_ctr' = write_ctr /\ packets' = packets BY <2>2, <2>3, <3>4
      <4> QED BY <1>2, <2>1, <4>2, <4>3, <4>4
    <3>5. CASE st \notin {"sm_write", "sm_write_wr_delay"}
               /\ ~(st = "sm_wait_flagb" /\ st' = "sm_write")
      <4>1. st' \notin {"sm_write", "sm_write_wr_delay"} BY <3>5, MachineStep
      <4>2. Sent' = 0 /\ Sent = 0 BY <3>5, <4>1 DEF Sent
      <4> QED BY <1>2, <2>1, <2>2, <2>3, <3>5, <4>2
    <3> QED BY <3>2, <3>3, <3>4, <3>5
  <2> QED BY <2>4, <2>6, <2>7 DEF CountInv
<1>6. CASE ~ clear /\ ~ clean
  <2>1. clean' = clean BY <1>1, <1>6 DEF Past
  <2> QED BY <1>6, <2>1 DEF CountInv
<1> QED BY <1>4, <1>5, <1>6

\* What the Nios prints is the wait of the request it belongs to.
LEMMA PrintKeeps ==
  ASSUME TelemetryAssumption, TelemetryInv, Edge PROVE PrintInv'
<1> DEFINE st == current_sm_state
<1>1. /\ wait_ctr' = IF st = "sm_idle" THEN 0 ELSE IF Waiting THEN wait_ctr + 1 ELSE wait_ctr
      /\ update_ctr_flag' = IF Waiting THEN 0 ELSE 1
  BY DEF Edge, WaitCtr, UpdateFlag
<1>2. waited' = IF requests' > requests THEN 0 ELSE IF Waiting THEN waited + 1 ELSE waited
  BY DEF Edge, Past
<1>3. /\ requests \in Nat /\ waited \in Nat /\ wait_ctr \in Nat
      /\ seen \in 0..requests /\ printed.of \in 0..requests
      /\ st \in {"sm_idle", "sm_read"} \cup Begun
  BY DEF TelemetryInv, PastOK, TelemetryTypeOK, Begun
<1>4. /\ requests' \in {requests, requests + 1}
      /\ requests' # requests <=> st = "sm_idle" /\ st' = "sm_read"
      /\ st = "sm_idle" => st' \in {"sm_idle", "sm_read"}
      /\ Waiting => st' \in {"sm_wait_flaga", "sm_wait_flagb", "sm_write"}
      /\ st = "sm_write" => st' \in {"sm_write", "sm_write_wr_delay"}
      /\ st = "sm_write_wr_delay" => st' = "sm_idle"
  BY MachineStep
<1>5. Waiting <=> st \in {"sm_wait_flaga", "sm_wait_flagb"} BY DEF Waiting
<1>6. /\ wait_ctr \in {0, waited}
      /\ st # "sm_idle" => requests > 0 /\ wait_ctr = waited
      /\ st = "sm_read" => waited = 0
      /\ Waiting /\ waited > 0 => update_ctr_flag = 0
      /\ pc = "data" /\ seen = requests /\ requests > 0 => WaitOver
      /\ printed.of = requests /\ requests > 0 => WaitOver /\ printed.value \in {0, waited}
  BY DEF TelemetryInv, PrintInv
<1>7. WaitOver => ~ Waiting /\ (requests' = requests => WaitOver')
  BY <1>3, <1>4 DEF WaitOver, Waiting, Begun
<1>8. wait_ctr' \in {0, waited'} BY <1>1, <1>2, <1>3, <1>4, <1>5, <1>6
<1>9. st' # "sm_idle" => requests' > 0 /\ wait_ctr' = waited'
  BY <1>1, <1>2, <1>3, <1>4, <1>5, <1>6
<1>10. st' = "sm_read" => waited' = 0
  <2>1. st' = "sm_read" => st \in {"sm_idle", "sm_read"} BY <1>3, MachineStep DEF Begun
  <2> QED BY <1>2, <1>3, <1>4, <1>5, <1>6, <2>1
<1>11. Waiting' /\ waited' > 0 => update_ctr_flag' = 0
  <2>1. Waiting' => Waiting \/ st = "sm_read"
    BY <1>3, <1>4, MachineStep DEF Waiting, Begun
  <2> QED BY <1>1, <1>2, <1>3, <1>4, <1>5, <1>6, <2>1
<1>12. pc' = "data" /\ seen' = requests' /\ requests' > 0 => WaitOver'
  <2> SUFFICES ASSUME pc' = "data", seen' = requests', requests' > 0 PROVE WaitOver'
    OBVIOUS
  <2>1. CASE ReadState
    <3>1. seen' = IF Over THEN requests ELSE 0 BY <2>1 DEF ReadState
    <3>2. requests' = requests /\ Over BY <1>3, <1>4, <3>1
    <3>3. ~ Waiting /\ st # "sm_read" BY <1>3, <1>6, <3>2 DEF Over
    <3>4. WaitOver BY <1>3, <1>5, <3>3 DEF WaitOver, Begun
    <3> QED BY <1>7, <3>2, <3>4
  <2>2. CASE ReadData BY <2>2 DEF ReadData
  <2>3. CASE UNCHANGED niosVars
    <3>1. pc = "data" /\ seen = seen' BY <2>3 DEF niosVars
    <3>2. requests' = requests BY <1>3, <1>4, <3>1
    <3> QED BY <1>6, <1>7, <3>1, <3>2
  <2> QED BY <2>1, <2>2, <2>3 DEF Edge, Nios
<1>13. printed'.of = requests' /\ requests' > 0 => WaitOver' /\ printed'.value \in {0, waited'}
  <2> SUFFICES ASSUME printed'.of = requests', requests' > 0
               PROVE  WaitOver' /\ printed'.value \in {0, waited'}
    OBVIOUS
  <2>1. CASE ReadData
    <3>1. /\ pc = "data" /\ printed'.value = wait_ctr
          /\ printed'.of = IF seen = requests THEN seen ELSE 0
      BY <2>1 DEF ReadData
    <3>2. requests' = requests /\ seen = requests BY <1>3, <1>4, <3>1
    <3>3. WaitOver BY <1>6, <3>1, <3>2
    <3>4. waited' = waited BY <1>2, <1>3, <1>7, <3>2, <3>3
    <3> QED BY <1>6, <1>7, <3>1, <3>2, <3>3, <3>4
  <2>2. CASE printed' = printed
    <3>1. requests' = requests BY <1>3, <1>4, <2>2
    <3>2. WaitOver /\ printed.value \in {0, waited} BY <1>6, <2>2, <3>1
    <3>3. waited' = waited BY <1>2, <1>3, <1>7, <3>1, <3>2
    <3> QED BY <1>7, <2>2, <3>1, <3>2, <3>3
  <2> QED BY <2>1, <2>2 DEF Edge, Nios, ReadState, niosVars
<1> QED BY <1>8, <1>9, <1>10, <1>11, <1>12, <1>13 DEF PrintInv

-----------------------------------------------------------------------------
(* Theorems. *)

\* The strengthened invariant of the counters and of the Nios program.
THEOREM TelemetryInvariant == TelemetrySpec => []TelemetryInv
<1>1. TelemetryInit => TelemetryInv
  <2> SUFFICES ASSUME TelemetryInit PROVE TelemetryInv OBVIOUS
  <2>1. TelemetryTypeOK /\ PastOK
    BY TelemetryAssumption DEF TelemetryAssumption, TelemetryInit, TelemetryTypeOK, PastOK
  <2>2. DelayOK BY DEF TelemetryInit, DelayOK, Begun
  <2>3. CountInv
    <3>1. 0 % TxMod = 0 /\ BurstWords * 0 = 0
      BY TelemetryAssumption DEF TelemetryAssumption
    <3> QED BY <3>1 DEF TelemetryInit, CountInv, Sent, Begun
  <2>4. PrintInv BY DEF TelemetryInit, PrintInv, Waiting
  <2> QED BY <2>1, <2>2, <2>3, <2>4 DEF TelemetryInv
<1>2. TelemetryInv /\ [Edge]_telemetryVars => TelemetryInv'
  <2> SUFFICES ASSUME TelemetryInv, [Edge]_telemetryVars PROVE TelemetryInv' OBVIOUS
  <2>1. CASE Edge
    BY <2>1, TelemetryAssumption, TypeKeeps, PastTyped, DelayKeeps, CountKeeps, PrintKeeps
       DEF TelemetryInv
  <2>2. CASE UNCHANGED telemetryVars
    BY <2>2 DEF telemetryVars, fpgaVars, ctrVars, niosVars, pastVars, TelemetryInv,
       TelemetryTypeOK, PastOK, DelayOK, CountInv, PrintInv, Sent, LoadedCount, Waiting, WaitOver
  <2> QED BY <2>1, <2>2
<1> QED BY <1>1, <1>2, PTL DEF TelemetrySpec

\* Types, for every width of the counters.
THEOREM TelemetryTyped == TelemetrySpec => []TelemetryTypeOK
<1>1. TelemetryInv => TelemetryTypeOK BY DEF TelemetryInv
<1> QED BY <1>1, TelemetryInvariant, PTL

\* Between requests the counters of the probe agree with the transfers, for
\* packets of any length and any number of requests.
THEOREM CountersAgreeHolds == TelemetrySpec => []CountersAgree
<1>1. TelemetryInv => CountersAgree
  <2> SUFFICES ASSUME TelemetryInv, current_sm_state = "sm_idle", clean
               PROVE  /\ write_ctr = BurstWords * packets
                      /\ tx_ctr = replies % TxMod
                      /\ wait_ctr_gbl = waits
    BY DEF CountersAgree
  <2>1. Sent = 0 /\ current_sm_state \notin Begun BY DEF Sent, Begun
  <2>2. BurstWords * packets \in Nat /\ waits \in Nat
    BY TelemetryAssumption, Words DEF TelemetryAssumption, TelemetryInv, PastOK
  <2> QED BY <2>1, <2>2 DEF TelemetryInv, CountInv
<1> QED BY <1>1, TelemetryInvariant, PTL

\* A print of the Nios program whose flag was seen up after the wait of a request, and whose
\* counter was read before the next request, shows that wait whole or 0 (nothing is said of
\* a print on the falling edge, or of a counter read later: these may show a part).
THEOREM WholeWaitPrintedHolds == TelemetrySpec => []WholeWaitPrinted
<1>1. TelemetryInv => WholeWaitPrinted BY DEF TelemetryInv, PrintInv, WholeWaitPrinted
<1> QED BY <1>1, TelemetryInvariant, PTL

-----------------------------------------------------------------------------
(* Bits and bytes. *)

LEMMA ByteOfBits ==
  ASSUME NEW bit \in [0..7 -> 0..1]
  PROVE  /\ Byte(bit) \in 0..255
         /\ \A i \in 0..7 : Bit(Byte(bit), i) = bit[i]
<1>1. /\ bit[0] \in 0..1 /\ bit[1] \in 0..1 /\ bit[2] \in 0..1 /\ bit[3] \in 0..1
      /\ bit[4] \in 0..1 /\ bit[5] \in 0..1 /\ bit[6] \in 0..1 /\ bit[7] \in 0..1
  OBVIOUS
<1>2. Byte(bit) \in 0..255 BY <1>1 DEF Byte
<1>3. /\ Bit(Byte(bit), 0) = bit[0] /\ Bit(Byte(bit), 1) = bit[1]
      /\ Bit(Byte(bit), 2) = bit[2] /\ Bit(Byte(bit), 3) = bit[3]
      /\ Bit(Byte(bit), 4) = bit[4] /\ Bit(Byte(bit), 5) = bit[5]
      /\ Bit(Byte(bit), 6) = bit[6] /\ Bit(Byte(bit), 7) = bit[7]
  BY <1>1 DEF Byte, Bit, Weight
<1> QED BY <1>2, <1>3

LEMMA BitsOfNumber ==
  ASSUME NEW x \in Nat
  PROVE  \A i \in 0..7 : Bit(x, i) \in 0..1
<1> SUFFICES ASSUME NEW i \in 0..7 PROVE Bit(x, i) \in 0..1 OBVIOUS
<1>1. Weight[i + 1] \in Nat \ {0} BY DEF Weight
<1>2. x \div Weight[i + 1] \in Int BY <1>1
<1> QED BY <1>2 DEF Bit

\* What a source carries is a bit, for any counter value and buttons.
LEMMA SourceIsBit ==
  ASSUME NEW gen \in Nat, NEW pb \in Nat
  PROVE  /\ \A s \in Sources : Source(gen, pb)[s] \in 0..1
         /\ \A s \in 0..7 : Source(gen, pb)[s] = Bit(gen, s)
<1>1. \A s \in 0..7 : Bit(gen, s) \in 0..1 BY BitsOfNumber
<1>2. \A s \in 9..12 : Bit(pb, s - 9) \in 0..1
  <2> SUFFICES ASSUME NEW s \in 9..12 PROVE Bit(pb, s - 9) \in 0..1 OBVIOUS
  <2>1. s - 9 \in 0..7 OBVIOUS
  <2> QED BY <2>1, BitsOfNumber
<1> QED BY <1>1, <1>2 DEF Source, Sources

\* The multiplexer and the plot turn the bits round in the same way: graph ch draws the
\* source that channel ch selects.
LEMMA GraphShowsChannel ==
  ASSUME NEW ch_s \in [Channels -> Sources], NEW gen \in Nat, NEW pb \in Nat,
         NEW ch \in Channels
  PROVE  GraphLevel(ch_data(ch_s, gen, pb), ch) = Source(gen, pb)[ch_s[ch]]
<1> DEFINE bit == [b \in 0..7 |-> Source(gen, pb)[ch_s[7 - b]]]
<1>1. bit \in [0..7 -> 0..1]
  <2> SUFFICES ASSUME NEW b \in 0..7 PROVE Source(gen, pb)[ch_s[7 - b]] \in 0..1 OBVIOUS
  <2>1. 7 - b \in Channels BY DEF Channels
  <2> QED BY <2>1, SourceIsBit
<1>2. 7 - ch \in 0..7 /\ 7 - (7 - ch) = ch BY DEF Channels
<1>3. Bit(Byte(bit), 7 - ch) = bit[7 - ch]
  <2> HIDE DEF bit
  <2> QED BY <1>1, <1>2, ByteOfBits
<1> QED BY <1>2, <1>3 DEF GraphLevel, ch_data

\* A count survives the way through its four bytes.
LEMMA CountSurvives ==
  ASSUME NEW n \in Nat
  PROVE  Word(CountBytes(n)) = n
BY SMT DEF Word, CountBytes

-----------------------------------------------------------------------------
(* A request on the wire. *)

WireWord == Seq(Nat)

Magic == <<186, 176, 254, 202>>

Buttons(g) == [b \in 0..7 |-> IF b < 4 /\ g[3 - b] THEN 1 ELSE 0]

Counted == 0..2048
Selection == [Channels -> Sources]
Buttoned == [0..3 -> BOOLEAN]

\* The concatenation u of two sequences.
IsJoined(u, s, t, p, q) ==
  /\ \A k \in 1 .. p : u[k] = s[k]
  /\ \A k \in p + 1 .. p + q : u[k] = t[k - p]

LEMMA Joined ==
  ASSUME NEW S, NEW s \in Seq(S), NEW t \in Seq(S), NEW p \in Nat, NEW q \in Nat,
         Len(s) = p, Len(t) = q
  PROVE  s \o t \in Seq(S) /\ Len(s \o t) = p + q /\ IsJoined(s \o t, s, t, p, q)
BY DEF IsJoined

LEMMA FiveInARow ==
  ASSUME NEW S, NEW f \in [1..5 -> S]
  PROVE  f \in Seq(S) /\ Len(f) = 5
<1>1. f = [i \in 1..5 |-> f[i]] OBVIOUS
<1>2. [i \in 1..5 |-> f[i]] \in Seq(S) /\ Len([i \in 1..5 |-> f[i]]) = 5 OBVIOUS
<1> QED BY <1>1, <1>2

LEMMA FourOf ==
  ASSUME NEW S, NEW s \in Seq(S), NEW k \in Nat, k > 0, k + 3 <= Len(s)
  PROVE  /\ SubSeq(s, k, k + 3) = <<s[k], s[k + 1], s[k + 2], s[k + 3]>>
         /\ SubSeq(s, k, k + 3) \in Seq(S)
<1> DEFINE u == SubSeq(s, k, k + 3)
           v == <<s[k], s[k + 1], s[k + 2], s[k + 3]>>
<1>1. u \in Seq(S) /\ Len(u) = 4 /\ \A i \in 1..4 : u[i] = s[k + i - 1]
  <2>1. u \in Seq(S) OBVIOUS
  <2>2. Len(u) = 4 OBVIOUS
  <2>3. \A i \in 1..4 : u[i] = s[k + i - 1]
    <3> SUFFICES ASSUME NEW i \in 1..4 PROVE u[i] = s[k + i - 1] OBVIOUS
    <3>1. i \in 1 .. (k + 3) - k + 1 OBVIOUS
    <3> QED BY <3>1
  <2> QED BY <2>1, <2>2, <2>3
<1>2. v \in Seq(S) /\ Len(v) = 4 OBVIOUS
<1>3. \A i \in 1..4 : u[i] = v[i]
  <2>1. v[1] = s[k] /\ v[2] = s[k + 1] /\ v[3] = s[k + 2] /\ v[4] = s[k + 3] OBVIOUS
  <2> HIDE DEF v, u
  <2>2. u[1] = s[k] /\ u[2] = s[k + 1] /\ u[3] = s[k + 2] /\ u[4] = s[k + 3] BY <1>1
  <2> QED BY <2>1, <2>2
<1> HIDE DEF u, v
<1>4. u = v BY <1>1, <1>2, <1>3
<1> QED BY <1>1, <1>4 DEF u, v

IsHeader(H, a, b, c, d) ==
  /\ H \in Seq(Nat) /\ Len(H) = 20
  /\ \A k \in 1..4 : H[k] = a[k]
  /\ \A k \in 5..8 : H[k] = b[k - 4]
  /\ \A k \in 9..16 : H[k] = c[k - 8]
  /\ \A k \in 17..20 : H[k] = d[k - 16]

\* The twenty bytes of a request: four fours, and the buttons with three zeros.
LEMMA HeaderBytes ==
  ASSUME NEW a \in Seq(Nat), NEW b \in Seq(Nat), NEW c \in Seq(Nat), NEW d \in Seq(Nat),
         Len(a) = 4, Len(b) = 4, Len(c) = 8, Len(d) = 4
  PROVE  IsHeader(((a \o b) \o c) \o d, a, b, c, d)
<1> DEFINE M == a \o b
           L == M \o c
           H == L \o d
<1>1. /\ M \in Seq(Nat) /\ Len(M) = 8
      /\ \A k \in 1..4 : M[k] = a[k]
      /\ \A k \in 5..8 : M[k] = b[k - 4]
  <2>1. M \in Seq(Nat) /\ Len(M) = 4 + 4 /\ IsJoined(M, a, b, 4, 4) BY Joined
  <2> HIDE DEF M
  <2> QED BY <2>1 DEF IsJoined
<1> HIDE DEF M
<1>2. /\ L \in Seq(Nat) /\ Len(L) = 16
      /\ \A k \in 1..8 : L[k] = M[k]
      /\ \A k \in 9..16 : L[k] = c[k - 8]
  <2>1. L \in Seq(Nat) /\ Len(L) = 8 + 8 /\ IsJoined(L, M, c, 8, 8) BY <1>1, Joined
  <2> HIDE DEF L
  <2> QED BY <2>1 DEF IsJoined
<1> HIDE DEF L
<1>3. /\ H \in Seq(Nat) /\ Len(H) = 20
      /\ \A k \in 1..16 : H[k] = L[k]
      /\ \A k \in 17..20 : H[k] = d[k - 16]
  <2>1. H \in Seq(Nat) /\ Len(H) = 16 + 4 /\ IsJoined(H, L, d, 16, 4) BY <1>2, Joined
  <2> HIDE DEF H
  <2> QED BY <2>1 DEF IsJoined
<1> HIDE DEF H
<1>4. /\ \A k \in 1..4 : H[k] = a[k]
      /\ \A k \in 5..8 : H[k] = b[k - 4]
      /\ \A k \in 9..16 : H[k] = c[k - 8]
  BY <1>1, <1>2, <1>3
<1>5. IsHeader(H, a, b, c, d) BY <1>3, <1>4 DEF IsHeader
<1> QED BY Zenon, <1>5 DEF H, L, M

\* The five fours of twenty bytes, and the gap.
LEMMA FiveWords ==
  ASSUME NEW H \in Seq(Nat), Len(H) = 20
  PROVE  /\ WordsOf(H) \in Seq(WireWord) /\ Len(WordsOf(H)) = 6
         /\ \A i \in 1..5 : WordsOf(H)[i] = <<H[4 * i - 3], H[4 * i - 2], H[4 * i - 1], H[4 * i]>>
         /\ WordsOf(H)[6] = <<>>
<1> DEFINE F == [i \in 1..5 |-> SubSeq(H, 4 * i - 3, 4 * i)]
           G == << <<>> >>
<1>1. Len(H) \div 4 = 5 OBVIOUS
<1>2. WordsOf(H) = F \o G BY <1>1 DEF WordsOf
<1>3. \A i \in 1..5 : F[i] = <<H[4 * i - 3], H[4 * i - 2], H[4 * i - 1], H[4 * i]>>
  <2> SUFFICES ASSUME NEW i \in 1..5
               PROVE  SubSeq(H, 4 * i - 3, 4 * i) =
                      <<H[4 * i - 3], H[4 * i - 2], H[4 * i - 1], H[4 * i]>>
    OBVIOUS
  <2> DEFINE k == 4 * i - 3
  <2>1. k \in Nat /\ k > 0 /\ k + 3 <= Len(H) OBVIOUS
  <2>2. k + 1 = 4 * i - 2 /\ k + 2 = 4 * i - 1 /\ k + 3 = 4 * i OBVIOUS
  <2> HIDE DEF k
  <2>3. SubSeq(H, k, k + 3) = <<H[k], H[k + 1], H[k + 2], H[k + 3]>> BY <2>1, FourOf
  <2> QED BY <2>2, <2>3 DEF k
<1>4. \A i \in 1..5 : SubSeq(H, 4 * i - 3, 4 * i) \in WireWord
  <2> SUFFICES ASSUME NEW i \in 1..5 PROVE SubSeq(H, 4 * i - 3, 4 * i) \in Seq(Nat)
    BY DEF WireWord
  <2> DEFINE k == 4 * i - 3
  <2>1. k \in Nat /\ k > 0 /\ k + 3 <= Len(H) /\ k + 3 = 4 * i OBVIOUS
  <2> HIDE DEF k
  <2>2. SubSeq(H, k, k + 3) \in Seq(Nat) BY <2>1, FourOf
  <2> QED BY <2>1, <2>2 DEF k
<1>5. F \in [1..5 -> WireWord] BY <1>4
<1>6. F \in Seq(WireWord) /\ Len(F) = 5
  <2> HIDE DEF F
  <2> QED BY <1>5, FiveInARow
<1>7. G \in Seq(WireWord) /\ Len(G) = 1 /\ G[1] = <<>> BY DEF WireWord
<1> HIDE DEF F, G
<1>8. /\ F \o G \in Seq(WireWord) /\ Len(F \o G) = 6
      /\ \A i \in 1..5 : (F \o G)[i] = F[i]
      /\ (F \o G)[6] = G[1]
  <2>1. F \o G \in Seq(WireWord) /\ Len(F \o G) = 5 + 1 /\ IsJoined(F \o G, F, G, 5, 1)
    BY <1>6, <1>7, Joined
  <2> QED BY <2>1 DEF IsJoined
<1> QED BY <1>2, <1>3, <1>7, <1>8

\* The six words of a request, the last of them the gap.
LEMMA RequestWords ==
  ASSUME NEW n \in Counted, NEW c \in Selection, NEW g \in Buttoned
  PROVE  LET W == WordsOf(populate_header(n, c, g)) IN
         /\ W \in Seq(WireWord) /\ Len(W) = 6
         /\ W[1] = Magic /\ W[2] = CountBytes(n)
         /\ W[3] = <<c[0], c[1], c[2], c[3]>> /\ W[4] = <<c[4], c[5], c[6], c[7]>>
         /\ W[5] = <<Byte(Buttons(g)), 0, 0, 0>> /\ W[6] = <<>>
<1> DEFINE H == populate_header(n, c, g)
           W == WordsOf(H)
           B == CountBytes(n)
           list == [i \in 1..8 |-> c[i - 1]]
           rest == <<Byte(Buttons(g)), 0, 0, 0>>
<1>1. Byte(Buttons(g)) \in Nat
  <2>1. Buttons(g) \in [0..7 -> 0..1] BY DEF Buttons
  <2> QED BY <2>1, ByteOfBits
<1>2. B \in Seq(Nat) /\ Len(B) = 4 /\ B = <<B[1], B[2], B[3], B[4]>>
  BY SMT DEF CountBytes, Counted
<1>3. list \in Seq(Nat) /\ Len(list) = 8 /\ \A i \in 1..8 : list[i] = c[i - 1]
  BY DEF Selection, Channels, Sources
<1>4. rest \in Seq(Nat) /\ Len(rest) = 4
      /\ rest[1] = Byte(Buttons(g)) /\ rest[2] = 0 /\ rest[3] = 0 /\ rest[4] = 0
  BY <1>1
<1>5. Magic \in Seq(Nat) /\ Len(Magic) = 4 /\ Magic = <<Magic[1], Magic[2], Magic[3], Magic[4]>>
  BY DEF Magic
<1>6. H = ((Magic \o B) \o list) \o rest BY Zenon DEF populate_header, Buttons, Magic
<1> HIDE DEF H, B, list
<1>7. /\ H \in Seq(Nat) /\ Len(H) = 20
      /\ \A k \in 1..4 : H[k] = Magic[k]
      /\ \A k \in 5..8 : H[k] = B[k - 4]
      /\ \A k \in 9..16 : H[k] = list[k - 8]
      /\ \A k \in 17..20 : H[k] = rest[k - 16]
  <2> HIDE DEF rest
  <2>1. IsHeader(((Magic \o B) \o list) \o rest, Magic, B, list, rest)
    BY Zenon, <1>2, <1>3, <1>4, <1>5, HeaderBytes
  <2>2. IsHeader(H, Magic, B, list, rest) BY Zenon, <1>6, <2>1
  <2> QED BY <2>2 DEF IsHeader
<1>8. /\ W \in Seq(WireWord) /\ Len(W) = 6 /\ W[6] = <<>>
      /\ \A i \in 1..5 : W[i] = <<H[4 * i - 3], H[4 * i - 2], H[4 * i - 1], H[4 * i]>>
  BY <1>7, FiveWords
<1> HIDE DEF W
<1>9. /\ W[1] = <<H[1], H[2], H[3], H[4]>> /\ W[2] = <<H[5], H[6], H[7], H[8]>>
      /\ W[3] = <<H[9], H[10], H[11], H[12]>> /\ W[4] = <<H[13], H[14], H[15], H[16]>>
      /\ W[5] = <<H[17], H[18], H[19], H[20]>>
  BY <1>8
<1>10. W[1] = Magic /\ W[2] = B
  <2>1. H[1] = Magic[1] /\ H[2] = Magic[2] /\ H[3] = Magic[3] /\ H[4] = Magic[4] BY <1>7
  <2>2. H[5] = B[1] /\ H[6] = B[2] /\ H[7] = B[3] /\ H[8] = B[4] BY <1>7
  <2> QED BY Zenon, <1>2, <1>5, <1>9, <2>1, <2>2
<1>11. W[3] = <<c[0], c[1], c[2], c[3]>> /\ W[4] = <<c[4], c[5], c[6], c[7]>>
  <2>1. H[9] = c[0] /\ H[10] = c[1] /\ H[11] = c[2] /\ H[12] = c[3] BY <1>3, <1>7
  <2>2. H[13] = c[4] /\ H[14] = c[5] /\ H[15] = c[6] /\ H[16] = c[7] BY <1>3, <1>7
  <2> QED BY Zenon, <1>9, <2>1, <2>2
<1>12. W[5] = rest
  <2>1. H[17] = rest[1] /\ H[18] = rest[2] /\ H[19] = rest[3] /\ H[20] = rest[4]
    <3> HIDE DEF rest
    <3> QED BY <1>7
  <2> QED BY <1>4, <1>9, <2>1
<1> QED BY <1>8, <1>10, <1>11, <1>12 DEF W, H, B

-----------------------------------------------------------------------------
(* SignalPath: from the window to the registers. *)

SignalTypeOK ==
  /\ combo \in Selection /\ gpio \in Buttoned
  /\ sent \in [count : Counted, selection : Selection, gpio : Buttoned]
  /\ wire \in Seq(WireWord)
  /\ packet_index \in 0..5 /\ valid_packet \in BOOLEAN

\* What stands on the wire: whole requests, and before them what the parser has not
\* taken yet of the request it is at; the next word has the number packet_index in it.
WireInv ==
  /\ (packet_index + Len(wire)) % 6 = 0
  /\ valid_packet = (packet_index # 0)
  /\ \A i \in 1 .. Len(wire) :
       /\ (wire[i] = <<>>) = ((packet_index + i) % 6 = 0)
       /\ (packet_index + i) % 6 = 1 => wire[i] = Magic

\* The last six words are the request that was sent last.
RequestOf(s) == WordsOf(populate_header(s.count, s.selection, s.gpio))

LastInv ==
  \A i \in 1..6 : i <= Len(wire) => wire[Len(wire) - i + 1] = RequestOf(sent)[7 - i]

\* What the registers have of it when only a rest of it is left on the wire.
TakenInv ==
  /\ Len(wire) < 5 => packet_count = sent.count
  /\ Len(wire) < 4 => \A ch \in 0..3 : ch_src[ch] = sent.selection[ch]
  /\ Len(wire) < 3 => \A ch \in 4..7 : ch_src[ch] = sent.selection[ch]
  /\ Len(wire) < 2 => \A g \in 0..3 : (USER_LED[3 - g] = 0) = sent.gpio[g]

SignalInv == SignalTypeOK /\ WireInv /\ LastInv /\ TakenInv

\* The words of the request sent last.
LEMMA SentWords ==
  ASSUME SignalTypeOK
  PROVE  LET W == RequestOf(sent) IN
         /\ W \in Seq(WireWord) /\ Len(W) = 6
         /\ W[1] = Magic /\ W[2] = CountBytes(sent.count)
         /\ \A ch \in 0..3 : W[3][1 + (ch % 4)] = sent.selection[ch]
         /\ \A ch \in 4..7 : W[4][1 + (ch % 4)] = sent.selection[ch]
         /\ W[5][1] = Byte(Buttons(sent.gpio)) /\ W[6] = <<>>
         /\ \A i \in 1..5 : W[i] # <<>>
<1> DEFINE W == RequestOf(sent)
           c == sent.selection
<1>1. sent.count \in Counted /\ c \in Selection /\ sent.gpio \in Buttoned
  BY DEF SignalTypeOK
<1>2. /\ W \in Seq(WireWord) /\ Len(W) = 6
      /\ W[1] = Magic /\ W[2] = CountBytes(sent.count)
      /\ W[3] = <<c[0], c[1], c[2], c[3]>> /\ W[4] = <<c[4], c[5], c[6], c[7]>>
      /\ W[5] = <<Byte(Buttons(sent.gpio)), 0, 0, 0>> /\ W[6] = <<>>
  BY Zenon, <1>1, RequestWords DEF RequestOf
<1> HIDE DEF W
<1>3. \A ch \in 0..3 : W[3][1 + (ch % 4)] = c[ch]
  <2>1. W[3][1] = c[0] /\ W[3][2] = c[1] /\ W[3][3] = c[2] /\ W[3][4] = c[3] BY <1>2
  <2>2. \A ch \in 0..3 : ch % 4 = ch OBVIOUS
  <2> QED BY <2>1, <2>2
<1>4. \A ch \in 4..7 : W[4][1 + (ch % 4)] = c[ch]
  <2>1. W[4][1] = c[4] /\ W[4][2] = c[5] /\ W[4][3] = c[6] /\ W[4][4] = c[7] BY <1>2
  <2>2. \A ch \in 4..7 : ch % 4 = ch - 4 OBVIOUS
  <2> QED BY <2>1, <2>2
<1>5. W[5][1] = Byte(Buttons(sent.gpio)) BY <1>2
<1>6. \A i \in 1..5 : W[i] # <<>>
  <2>1. W[1] # <<>> BY <1>2 DEF Magic
  <2>2. W[2] # <<>>
    <3>1. CountBytes(sent.count) # <<>> BY SMT DEF CountBytes
    <3> QED BY <1>2, <3>1
  <2>3. W[3] # <<>> /\ W[4] # <<>> /\ W[5] # <<>> BY <1>2
  <2> QED BY <2>1, <2>2, <2>3
<1> QED BY <1>2, <1>3, <1>4, <1>5, <1>6 DEF W

LEMMA SignalInitial == SignalInit => SignalInv
<1> SUFFICES ASSUME SignalInit PROVE SignalInv OBVIOUS
<1>1. DefaultSelection \in Selection
  BY DEF DefaultSelection, Selection, Channels, Sources
<1>3. wire = <<>> /\ packet_index = 0 /\ valid_packet = FALSE /\ wire \in Seq(WireWord)
  BY DEF SignalInit
<1>2. SignalTypeOK
  <2>1. [ch \in Channels |-> 8] \in Selection BY DEF Selection, Channels, Sources
  <2>2. [g \in 0..3 |-> FALSE] \in Buttoned BY DEF Buttoned
  <2>3. sent \in [count : Counted, selection : Selection, gpio : Buttoned]
    BY <2>1, <2>2 DEF SignalInit, Counted
  <2>4. combo = DefaultSelection /\ gpio = [g \in 0..3 |-> FALSE] BY DEF SignalInit
  <2>5. packet_index \in 0..5 BY <1>3
  <2>6. valid_packet \in BOOLEAN BY Zenon, <1>3
  <2> QED BY Zenon, <1>1, <1>3, <2>2, <2>3, <2>4, <2>5, <2>6 DEF SignalTypeOK
<1>4. WireInv /\ LastInv
  <2>1. Len(wire) = 0 /\ packet_index + Len(wire) = 0 BY <1>3
  <2>2. \A i \in 1 .. Len(wire) : FALSE BY <2>1
  <2>3. \A i \in 1..6 : ~ (i <= Len(wire)) BY <2>1
  <2>4. (packet_index + Len(wire)) % 6 = 0 BY <2>1
  <2>5. valid_packet = (packet_index # 0)
    <3>1. (packet_index # 0) = FALSE BY Zenon, <1>3
    <3> QED BY Zenon, <1>3, <3>1
  <2>6. WireInv BY Zenon, <2>2, <2>4, <2>5 DEF WireInv
  <2> QED BY <2>3, <2>6 DEF LastInv
<1>5. TakenInv
  <2>1. gpio = [g \in 0..3 |-> FALSE] /\ sent.gpio = gpio /\ sent.count = 0
    BY DEF SignalInit
  <2>2. \A ch \in 0..7 : ch_src[ch] = 8 /\ sent.selection[ch] = 8
    BY DEF SignalInit, Channels
  <2>3. \A g \in 0..3 : USER_LED[3 - g] = 1 BY DEF SignalInit
  <2>4. packet_count = 0 BY DEF SignalInit
  <2>5. \A g \in 0..3 : sent.gpio[g] = FALSE BY <2>1
  <2>6. \A g \in 0..3 : (USER_LED[3 - g] = 0) = sent.gpio[g]
    <3> SUFFICES ASSUME NEW g \in 0..3 PROVE (USER_LED[3 - g] = 0) = sent.gpio[g] OBVIOUS
    <3>1. (USER_LED[3 - g] = 0) = FALSE
      <4>1. ~ (USER_LED[3 - g] = 0) BY <2>3
      <4> QED BY Zenon, <4>1
    <3> QED BY Zenon, <2>5, <3>1
  <2>7. /\ \A ch \in 0..3 : ch_src[ch] = sent.selection[ch]
        /\ \A ch \in 4..7 : ch_src[ch] = sent.selection[ch]
    BY <2>2
  <2> QED BY Zenon, <2>1, <2>4, <2>6, <2>7 DEF TakenInv
<1> QED BY <1>2, <1>4, <1>5 DEF SignalInv

\* A request is appended as a whole.
LEMMA SendKeeps ==
  ASSUME SignalInv, NEW n \in Counted, NEW g \in Buttoned, Send(n, g), UNCHANGED parserVars
  PROVE  /\ sent' \in [count : Counted, selection : Selection, gpio : Buttoned]
         /\ wire' \in Seq(WireWord)
         /\ WireInv' /\ LastInv' /\ TakenInv'
<1> DEFINE W == WordsOf(populate_header(n, combo, g))
           m == Len(wire)
<1>1. combo \in Selection /\ wire \in Seq(WireWord) /\ packet_index \in 0..5
  BY DEF SignalInv, SignalTypeOK
<1>2. sent' = [count |-> n, selection |-> combo, gpio |-> g] BY DEF Send
<1>3. W = RequestOf(sent') BY <1>2 DEF RequestOf
<1>4. /\ W \in Seq(WireWord) /\ Len(W) = 6
      /\ W[1] = Magic /\ W[6] = <<>>
      /\ \A i \in 1..5 : W[i] # <<>>
  <2>1. /\ W \in Seq(WireWord) /\ Len(W) = 6 /\ W[1] = Magic /\ W[6] = <<>>
        /\ W[2] = CountBytes(n)
        /\ W[3] = <<combo[0], combo[1], combo[2], combo[3]>>
        /\ W[4] = <<combo[4], combo[5], combo[6], combo[7]>>
        /\ W[5] = <<Byte(Buttons(g)), 0, 0, 0>>
    BY Zenon, <1>1, RequestWords
  <2> HIDE DEF W
  <2>2. CountBytes(n) # <<>> BY SMT DEF CountBytes
  <2>3. W[1] # <<>> /\ W[3] # <<>> /\ W[4] # <<>> /\ W[5] # <<>> BY <2>1 DEF Magic
  <2>4. W[2] # <<>> BY Zenon, <2>1, <2>2
  <2>5. \A i \in 1..5 : W[i] # <<>> BY <2>3, <2>4
  <2> QED BY Zenon, <2>1, <2>5
<1>5. m \in Nat BY <1>1
<1>6. wire' = wire \o W BY DEF Send
<1> HIDE DEF W, m
<1>7. wire' \in Seq(WireWord) /\ Len(wire') = m + 6 /\ IsJoined(wire', wire, W, m, 6)
  <2>1. m = Len(wire) BY DEF m
  <2>2. wire \o W \in Seq(WireWord) /\ Len(wire \o W) = m + 6
        /\ IsJoined(wire \o W, wire, W, m, 6)
    <3>1. Len(wire) = m /\ Len(W) = 6 /\ wire \in Seq(WireWord) /\ W \in Seq(WireWord)
      BY <1>1, <1>4, <2>1
    <3>2. \A s, t \in Seq(WireWord), p \in Nat :
            Len(s) = p /\ Len(t) = 6 =>
              s \o t \in Seq(WireWord) /\ Len(s \o t) = p + 6 /\ IsJoined(s \o t, s, t, p, 6)
      BY Joined
    <3> QED BY Zenon, <1>5, <3>1, <3>2
  <2> QED BY Zenon, <1>6, <2>2
<1>8. \A k \in 1 .. m : wire'[k] = wire[k] BY <1>7 DEF IsJoined
<1>9. \A k \in m + 1 .. m + 6 : wire'[k] = W[k - m] BY <1>7 DEF IsJoined
<1>10. packet_index' = packet_index /\ valid_packet' = valid_packet BY DEF parserVars
<1>11. (packet_index + m) % 6 = 0 /\ valid_packet = (packet_index # 0)
       /\ \A i \in 1 .. m : /\ (wire[i] = <<>>) = ((packet_index + i) % 6 = 0)
                            /\ (packet_index + i) % 6 = 1 => wire[i] = Magic
  BY DEF SignalInv, WireInv, m
<1>16. (packet_index + m) % 6 = 0 BY <1>11
<1>12. WireInv'
  <2>1. (packet_index + (m + 6)) % 6 = 0 BY <1>1, <1>5, <1>16
  <2>2. ASSUME NEW i \in 1 .. m + 6
        PROVE  /\ (wire'[i] = <<>>) = ((packet_index + i) % 6 = 0)
               /\ (packet_index + i) % 6 = 1 => wire'[i] = Magic
    <3>1. CASE i <= m
      <4>1. i \in 1 .. m BY <1>5, <3>1
      <4> QED BY <1>8, <1>11, <4>1
    <3>2. CASE i > m
      <4> DEFINE k == i - m
      <4>1. k \in 1..6 BY <1>5, <3>2
      <4>2. wire'[i] = W[k] BY <1>5, <1>9, <3>2
      <4>3. (packet_index + i) % 6 = k % 6
        <5>1. packet_index + i = (packet_index + m) + k BY <1>1, <1>5
        <5> DEFINE z == packet_index + m
        <5>2. z \in Nat /\ z % 6 = 0 BY <1>1, <1>5, <1>16
        <5> HIDE DEF z, k
        <5>3. (z + k) % 6 = k % 6 BY <4>1, <5>2
        <5> QED BY <5>1, <5>3 DEF z
      <4> HIDE DEF k
      <4>4. (W[k] = <<>>) = (k % 6 = 0)
        <5>1. (k % 6 = 0) <=> k = 6 BY <4>1
        <5>2. W[k] = <<>> <=> k = 6
          <6>1. CASE k = 6 BY <1>4, <6>1
          <6>2. CASE k # 6
            <7>1. k \in 1..5 BY <4>1, <6>2
            <7> QED BY <1>4, <6>2, <7>1
          <6> QED BY <6>1, <6>2
        <5> QED BY <5>1, <5>2
      <4>5. k % 6 = 1 => W[k] = Magic
        <5>1. k % 6 = 1 => k = 1 BY <4>1
        <5> QED BY <1>4, <5>1
      <4> QED BY <4>2, <4>3, <4>4, <4>5
    <3> QED BY <1>5, <3>1, <3>2
  <2>3. Len(wire') = m + 6 BY <1>7
  <2> QED BY <1>10, <1>11, <2>1, <2>2, <2>3 DEF WireInv
<1>13. LastInv'
  <2>1. \A i \in 1..6 : wire'[(m + 6) - i + 1] = W[7 - i]
    <3> SUFFICES ASSUME NEW i \in 1..6 PROVE wire'[(m + 6) - i + 1] = W[7 - i] OBVIOUS
    <3>1. (m + 6) - i + 1 \in m + 1 .. m + 6 /\ ((m + 6) - i + 1) - m = 7 - i BY <1>5
    <3> QED BY <1>9, <3>1
  <2> QED BY <1>3, <1>7, <2>1 DEF LastInv
<1>14. TakenInv'
  <2>1. ~ (m + 6 < 5) /\ ~ (m + 6 < 4) /\ ~ (m + 6 < 3) /\ ~ (m + 6 < 2) BY <1>5
  <2> QED BY <1>7, <2>1 DEF TakenInv
<1>15. sent' \in [count : Counted, selection : Selection, gpio : Buttoned] BY <1>1, <1>2
<1> QED BY <1>7, <1>12, <1>13, <1>14, <1>15

\* The wire without its first word.
LEMMA Shortened ==
  ASSUME SignalInv, wire # <<>>, wire' = Tail(wire)
  PROVE  /\ Len(wire) \in Nat \ {0} /\ Head(wire) = wire[1]
         /\ wire' \in Seq(WireWord) /\ Len(wire') = Len(wire) - 1
         /\ \A i \in 1 .. Len(wire) - 1 : wire'[i] = wire[i + 1]
         /\ (packet_index + Len(wire)) % 6 = 0
         /\ \A i \in 1 .. Len(wire) :
              /\ (wire[i] = <<>>) = ((packet_index + i) % 6 = 0)
              /\ (packet_index + i) % 6 = 1 => wire[i] = Magic
<1>1. wire \in Seq(WireWord) BY DEF SignalInv, SignalTypeOK
<1>2. /\ Len(wire) \in Nat \ {0} /\ Head(wire) = wire[1]
      /\ Tail(wire) \in Seq(WireWord) /\ Len(Tail(wire)) = Len(wire) - 1
      /\ \A i \in 1 .. Len(wire) - 1 : Tail(wire)[i] = wire[i + 1]
  BY <1>1
<1> QED BY <1>2 DEF SignalInv, WireInv

\* The numbers of the words after the first one is taken.
LEMMA ShortenedWire ==
  ASSUME SignalInv, wire # <<>>, wire' = Tail(wire),
         packet_index' \in 0..5, packet_index' % 6 = (packet_index + 1) % 6,
         valid_packet' = (packet_index' # 0), sent' = sent
  PROVE  WireInv' /\ LastInv'
<1> DEFINE n == Len(wire)
<1>1. /\ n \in Nat \ {0} /\ Len(wire') = n - 1
      /\ \A i \in 1 .. n - 1 : wire'[i] = wire[i + 1]
      /\ \A i \in 1 .. n :
           /\ (wire[i] = <<>>) = ((packet_index + i) % 6 = 0)
           /\ (packet_index + i) % 6 = 1 => wire[i] = Magic
  BY Shortened
<1>2. (packet_index + n) % 6 = 0 BY Shortened
<1>3. packet_index \in 0..5 BY DEF SignalInv, SignalTypeOK
<1> HIDE DEF n
<1>4. \A i \in Nat : (packet_index' + i) % 6 = (packet_index + (i + 1)) % 6
  <2> SUFFICES ASSUME NEW i \in Nat
               PROVE  (packet_index' + i) % 6 = (packet_index + (i + 1)) % 6
    OBVIOUS
  <2>1. packet_index' = IF packet_index = 5 THEN 0 ELSE packet_index + 1 BY <1>3
  <2> QED BY <1>3, <2>1
<1>5. WireInv'
  <2>1. (packet_index' + (n - 1)) % 6 = 0
    <3>1. n - 1 \in Nat /\ (n - 1) + 1 = n BY <1>1
    <3> QED BY <1>2, <1>4, <3>1
  <2>2. ASSUME NEW i \in 1 .. n - 1
        PROVE  /\ (wire'[i] = <<>>) = ((packet_index' + i) % 6 = 0)
               /\ (packet_index' + i) % 6 = 1 => wire'[i] = Magic
    <3>1. i \in Nat /\ i + 1 \in 1 .. n BY <1>1
    <3>2. wire'[i] = wire[i + 1] BY <1>1
    <3>3. (packet_index' + i) % 6 = (packet_index + (i + 1)) % 6 BY <1>4, <3>1
    <3>4. /\ (wire[i + 1] = <<>>) = ((packet_index + (i + 1)) % 6 = 0)
          /\ (packet_index + (i + 1)) % 6 = 1 => wire[i + 1] = Magic
      BY Zenon, <1>1, <3>1
    <3> QED BY Zenon, <3>2, <3>3, <3>4
  <2>3. Len(wire') = n - 1 BY <1>1
  <2> QED BY Zenon, <2>1, <2>2, <2>3 DEF WireInv
<1>6. LastInv'
  <2> DEFINE W == RequestOf(sent)
  <2>1. \A i \in 1..6 : i <= n => wire[n - i + 1] = W[7 - i]
    BY Zenon DEF SignalInv, LastInv, n
  <2>2. RequestOf(sent') = W BY Zenon
  <2> HIDE DEF W
  <2>3. ASSUME NEW i \in 1..6, i <= n - 1 PROVE wire'[(n - 1) - i + 1] = W[7 - i]
    <3>1. (n - 1) - i + 1 \in 1 .. n - 1 /\ ((n - 1) - i + 1) + 1 = n - i + 1 /\ i <= n
      BY <1>1, <2>3
    <3>2. wire'[(n - 1) - i + 1] = wire[((n - 1) - i + 1) + 1] BY Zenon, <1>1, <3>1
    <3>3. wire[n - i + 1] = W[7 - i] BY <2>1, <3>1
    <3> QED BY Zenon, <3>1, <3>2, <3>3
  <2> QED BY Zenon, <1>1, <2>2, <2>3 DEF LastInv
<1> QED BY <1>5, <1>6

\* Which word of the last request the parser is at.
LEMMA PlaceInLast ==
  ASSUME SignalInv, wire # <<>>, Len(wire) < 7
  PROVE  /\ packet_index = 6 - Len(wire)
         /\ wire[1] = RequestOf(sent)[packet_index + 1]
<1> DEFINE n == Len(wire)
<1>1. n \in Nat \ {0} /\ (packet_index + n) % 6 = 0
  <2>1. wire \in Seq(WireWord) BY DEF SignalInv, SignalTypeOK
  <2> QED BY <2>1 DEF SignalInv, WireInv
<1>2. packet_index \in 0..5 BY DEF SignalInv, SignalTypeOK
<1> DEFINE W == RequestOf(sent)
<1>3. \A i \in 1..6 : i <= n => wire[n - i + 1] = W[7 - i]
  BY Zenon DEF SignalInv, LastInv, n
<1>4. n < 7 OBVIOUS
<1> HIDE DEF n, W
<1>5. packet_index = 6 - n BY <1>1, <1>2, <1>4
<1>6. n \in 1..6 /\ n <= n /\ n - n + 1 = 1 /\ 7 - n = packet_index + 1 BY <1>1, <1>4, <1>5
<1>7. wire[n - n + 1] = W[7 - n] BY <1>3, <1>6
<1> QED BY Zenon, <1>5, <1>6, <1>7 DEF n, W

LEMMA LampsLit ==
  ASSUME NEW g \in Buttoned, NEW word, word[1] = Byte(Buttons(g))
  PROVE  \A b \in 0..3 : (Lit(word)[3 - b] = 0) = g[b]
<1> SUFFICES ASSUME NEW b \in 0..3 PROVE (Lit(word)[3 - b] = 0) = g[b] OBVIOUS
<1>1. 3 - b \in 0..3 /\ 3 - b \in 0..7 /\ 3 - b < 4 /\ 3 - (3 - b) = b OBVIOUS
<1>2. Buttons(g) \in [0..7 -> 0..1] BY DEF Buttons
<1>3. Bit(word[1], 3 - b) = Buttons(g)[3 - b]
  <2>1. Bit(Byte(Buttons(g)), 3 - b) = Buttons(g)[3 - b] BY Zenon, <1>1, <1>2, ByteOfBits
  <2> QED BY Zenon, <2>1
<1>4. Lit(word)[3 - b] = 1 - Buttons(g)[3 - b] BY <1>1, <1>3 DEF Lit
<1>5. Buttons(g)[3 - b] = IF g[b] THEN 1 ELSE 0
  <2> DEFINE d == 3 - b
  <2>1. d \in 0..7 /\ d < 4 /\ 3 - d = b BY <1>1
  <2> HIDE DEF d
  <2>2. Buttons(g)[d] = IF d < 4 /\ g[3 - d] THEN 1 ELSE 0 BY Zenon, <2>1 DEF Buttons
  <2>3. Buttons(g)[d] = IF g[b] THEN 1 ELSE 0 BY Zenon, <2>1, <2>2
  <2> QED BY <2>3 DEF d
<1>6. g[b] \in BOOLEAN BY DEF Buttoned
<1>7. CASE g[b] = TRUE
  <2>1. Lit(word)[3 - b] = 0 BY <1>4, <1>5, <1>7
  <2>2. (Lit(word)[3 - b] = 0) = TRUE BY Zenon, <2>1
  <2> QED BY Zenon, <1>7, <2>2
<1>8. CASE g[b] = FALSE
  <2>1. Lit(word)[3 - b] # 0 BY <1>4, <1>5, <1>8
  <2>2. (Lit(word)[3 - b] = 0) = FALSE BY Zenon, <2>1
  <2> QED BY Zenon, <1>8, <2>2
<1> QED BY Zenon, <1>6, <1>7, <1>8

LEMMA ReadWordKeeps == ASSUME SignalInv, ReadWord PROVE SignalInv'
<1> DEFINE n == Len(wire)
           W == RequestOf(sent)
<1>1. /\ wire # <<>> /\ Head(wire) # <<>> /\ wire' = Tail(wire)
      /\ packet_index' = packet_index + 1
      /\ UNCHANGED <<combo, gpio, sent, acts>>
  BY DEF ReadWord
<1>2. packet_index \in 0..5 /\ valid_packet \in BOOLEAN BY DEF SignalInv, SignalTypeOK
<1>3. /\ n \in Nat \ {0} /\ Head(wire) = wire[1] /\ wire' \in Seq(WireWord)
      /\ Len(wire') = n - 1 /\ (packet_index + n) % 6 = 0
  BY <1>1, Shortened
<1>4. /\ (wire[1] = <<>>) = ((packet_index + 1) % 6 = 0)
      /\ (packet_index + 1) % 6 = 1 => wire[1] = Magic
  <2>1. 1 \in 1 .. n BY <1>3
  <2> QED BY <1>1, <2>1, Shortened
<1>5. packet_index < 5
  <2>1. (packet_index + 1) % 6 # 0 BY <1>1, <1>3, <1>4
  <2> QED BY <1>2, <2>1
<1>6. valid_packet' /\ valid_packet' \in BOOLEAN
  <2>1. valid_packet = (packet_index # 0) BY DEF SignalInv, WireInv
  <2>2. valid_packet' = (\/ valid_packet
                         \/ packet_index = 0 /\ Head(wire) = <<186, 176, 254, 202>>)
    BY DEF ReadWord
  <2>3. packet_index = 0 => Head(wire) = <<186, 176, 254, 202>>
    <3>1. packet_index = 0 => (packet_index + 1) % 6 = 1 OBVIOUS
    <3> QED BY <1>3, <1>4, <3>1 DEF Magic
  <2> QED BY Zenon, <2>1, <2>2, <2>3
<1>7. WireInv' /\ LastInv'
  <2>1. packet_index' \in 0..5 /\ packet_index' % 6 = (packet_index + 1) % 6
        /\ packet_index' # 0
    BY <1>1, <1>2, <1>5
  <2>2. valid_packet' = (packet_index' # 0)
    <3>1. (packet_index' # 0) = TRUE BY Zenon, <2>1
    <3>2. valid_packet' = TRUE BY Zenon, <1>6
    <3> QED BY Zenon, <3>1, <3>2
  <2> QED BY <1>1, <2>1, <2>2, ShortenedWire
<1>8. TakenInv'
  <2> SUFFICES ASSUME n < 6 PROVE TakenInv'
    <3>1. ~ (n < 6) => Len(wire') >= 5 BY <1>3
    <3>2. Len(wire') >= 5 => ~ (Len(wire') < 5) /\ ~ (Len(wire') < 4)
                             /\ ~ (Len(wire') < 3) /\ ~ (Len(wire') < 2)
      BY <1>3
    <3> QED BY Zenon, <3>1, <3>2 DEF TakenInv
  <2>1. packet_index = 6 - n /\ wire[1] = W[packet_index + 1] /\ n > 1
    <3>1. n < 7 BY <1>3
    <3>2. packet_index = 6 - n /\ wire[1] = W[packet_index + 1] BY <1>1, <3>1, PlaceInLast
    <3> QED BY <1>3, <1>5, <3>2
  <2>2. /\ packet_count' = IF packet_index = 1 THEN Word(wire[1]) ELSE packet_count
        /\ ch_src' = Selected(wire[1])
        /\ USER_LED' = IF packet_index = 4 THEN Lit(wire[1]) ELSE USER_LED
    <3>1. valid_packet
      <4>1. valid_packet = (packet_index # 0) BY DEF SignalInv, WireInv
      <4>2. packet_index # 0
        <5>1. n \in Nat /\ n < 6 /\ packet_index = 6 - n BY <1>3, <2>1
        <5> HIDE DEF n
        <5> QED BY <5>1
      <4> QED BY Zenon, <4>1, <4>2
    <3> QED BY Zenon, <1>3, <3>1 DEF ReadWord
  <2>3. /\ W[2] = CountBytes(sent.count)
        /\ \A ch \in 0..3 : W[3][1 + (ch % 4)] = sent.selection[ch]
        /\ \A ch \in 4..7 : W[4][1 + (ch % 4)] = sent.selection[ch]
        /\ W[5][1] = Byte(Buttons(sent.gpio))
    BY SentWords DEF SignalInv
  <2>4. /\ n < 5 => packet_count = sent.count
        /\ n < 4 => \A ch \in 0..3 : ch_src[ch] = sent.selection[ch]
        /\ n < 3 => \A ch \in 4..7 : ch_src[ch] = sent.selection[ch]
        /\ n < 2 => \A g \in 0..3 : (USER_LED[3 - g] = 0) = sent.gpio[g]
    BY Zenon DEF SignalInv, TakenInv
  <2>5. sent.count \in Nat /\ sent.gpio \in Buttoned
    <3>1. sent.count \in Counted /\ sent.gpio \in Buttoned BY DEF SignalInv, SignalTypeOK
    <3>2. \A x \in Counted : x \in Nat BY DEF Counted
    <3> QED BY Zenon, <3>1, <3>2
  <2> HIDE DEF n, W
  <2>6. packet_count' = sent.count
    <3>1. CASE n = 5
      <4>1. packet_index = 1 /\ wire[1] = W[2] BY <2>1, <3>1
      <4>2. packet_count' = Word(CountBytes(sent.count)) BY Zenon, <2>2, <2>3, <4>1
      <4>3. Word(CountBytes(sent.count)) = sent.count BY Zenon, <2>5, CountSurvives
      <4> QED BY Zenon, <4>2, <4>3
    <3>2. CASE n # 5
      <4>1. n < 5 /\ packet_index # 1 BY <1>3, <2>1, <3>2
      <4> QED BY Zenon, <2>2, <2>4, <4>1
    <3> QED BY <3>1, <3>2
  <2>7. \A ch \in Channels : ch_src'[ch] = IF packet_index = 2 + (ch \div 4)
                                           THEN wire[1][1 + (ch % 4)] ELSE ch_src[ch]
    BY Zenon, <2>2 DEF Selected
  <2>8. n < 5 => \A ch \in 0..3 : ch_src'[ch] = sent.selection[ch]
    <3> SUFFICES ASSUME n < 5, NEW ch \in 0..3 PROVE ch_src'[ch] = sent.selection[ch]
      OBVIOUS
    <3>1. ch \in Channels /\ ch \div 4 = 0 BY DEF Channels
    <3>2. ch_src'[ch] = IF packet_index = 2 THEN wire[1][1 + (ch % 4)] ELSE ch_src[ch]
      <4>1. 2 + (ch \div 4) = 2 BY <3>1
      <4> QED BY Zenon, <2>7, <3>1, <4>1
    <3>3. CASE n = 4
      <4>1. packet_index = 2 /\ wire[1] = W[3] BY <2>1, <3>3
      <4>2. ch_src'[ch] = wire[1][1 + (ch % 4)] BY <3>2, <4>1
      <4>3. W[3][1 + (ch % 4)] = sent.selection[ch] BY <2>3
      <4> QED BY Zenon, <4>1, <4>2, <4>3
    <3>4. CASE n # 4
      <4>1. n < 4 /\ packet_index # 2 BY <1>3, <2>1, <3>4
      <4> QED BY Zenon, <2>4, <3>2, <4>1
    <3> QED BY <3>3, <3>4
  <2>9. n < 4 => \A ch \in 4..7 : ch_src'[ch] = sent.selection[ch]
    <3> SUFFICES ASSUME n < 4, NEW ch \in 4..7 PROVE ch_src'[ch] = sent.selection[ch]
      OBVIOUS
    <3>1. ch \in Channels /\ ch \div 4 = 1 BY DEF Channels
    <3>2. ch_src'[ch] = IF packet_index = 3 THEN wire[1][1 + (ch % 4)] ELSE ch_src[ch]
      <4>1. 2 + (ch \div 4) = 3 BY <3>1
      <4> QED BY Zenon, <2>7, <3>1, <4>1
    <3>3. CASE n = 3
      <4>1. packet_index = 3 /\ wire[1] = W[4] BY <2>1, <3>3
      <4>2. ch_src'[ch] = wire[1][1 + (ch % 4)] BY <3>2, <4>1
      <4>3. W[4][1 + (ch % 4)] = sent.selection[ch] BY <2>3
      <4> QED BY Zenon, <4>1, <4>2, <4>3
    <3>4. CASE n # 3
      <4>1. n < 3 /\ packet_index # 3 BY <1>3, <2>1, <3>4
      <4> QED BY Zenon, <2>4, <3>2, <4>1
    <3> QED BY <3>3, <3>4
  <2>10. n < 3 => \A g \in 0..3 : (USER_LED'[3 - g] = 0) = sent.gpio[g]
    <3> SUFFICES ASSUME n < 3 PROVE \A g \in 0..3 : (USER_LED'[3 - g] = 0) = sent.gpio[g]
      OBVIOUS
    <3>1. packet_index = 4 /\ wire[1] = W[5] BY <1>3, <2>1
    <3>2. USER_LED' = Lit(W[5]) BY Zenon, <2>2, <3>1
    <3>3. \A g \in 0..3 : (Lit(W[5])[3 - g] = 0) = sent.gpio[g]
      BY Zenon, <2>3, <2>5, LampsLit
    <3> QED BY Zenon, <3>2, <3>3
  <2>11. /\ Len(wire') < 4 => n < 5
         /\ Len(wire') < 3 => n < 4
         /\ Len(wire') < 2 => n < 3
    BY <1>3 DEF n
  <2>12. sent' = sent BY <1>1
  <2> QED BY Zenon, <2>6, <2>8, <2>9, <2>10, <2>11, <2>12 DEF TakenInv
<1>9. SignalTypeOK'
  <2>1. packet_index' \in 0..5 BY <1>1, <1>2, <1>5
  <2>2. combo \in Selection /\ gpio \in Buttoned
        /\ sent \in [count : Counted, selection : Selection, gpio : Buttoned]
    BY DEF SignalInv, SignalTypeOK
  <2>3. combo' = combo /\ gpio' = gpio /\ sent' = sent BY <1>1
  <2> QED BY Zenon, <1>3, <1>6, <2>1, <2>2, <2>3 DEF SignalTypeOK
<1> QED BY <1>7, <1>8, <1>9 DEF SignalInv

LEMMA ReadGapKeeps == ASSUME SignalInv, ReadGap PROVE SignalInv'
<1> DEFINE n == Len(wire)
<1>1. /\ wire # <<>> /\ Head(wire) = <<>> /\ wire' = Tail(wire)
      /\ packet_index' = 0 /\ valid_packet' = FALSE
      /\ UNCHANGED <<combo, gpio, sent, acts, packet_count, ch_src, USER_LED>>
  BY DEF ReadGap
<1>2. packet_index \in 0..5 BY DEF SignalInv, SignalTypeOK
<1>3. /\ n \in Nat \ {0} /\ Head(wire) = wire[1] /\ wire' \in Seq(WireWord)
      /\ Len(wire') = n - 1 /\ (packet_index + n) % 6 = 0
  BY <1>1, Shortened
<1>4. (wire[1] = <<>>) = ((packet_index + 1) % 6 = 0)
  <2>1. 1 \in 1 .. n BY <1>3
  <2> QED BY <1>1, <2>1, Shortened
<1>5. packet_index = 5
  <2>1. (packet_index + 1) % 6 = 0 BY <1>1, <1>3, <1>4
  <2> QED BY <1>2, <2>1
<1>6. WireInv' /\ LastInv'
  <2>1. packet_index' \in 0..5 /\ packet_index' % 6 = (packet_index + 1) % 6 BY <1>1, <1>5
  <2>2. valid_packet' = (packet_index' # 0)
    <3>1. (packet_index' # 0) = FALSE BY Zenon, <1>1
    <3> QED BY Zenon, <1>1, <3>1
  <2> QED BY <1>1, <2>1, <2>2, ShortenedWire
<1>7. TakenInv'
  <2>1. n = 1 \/ n >= 7
    <3>1. (5 + n) % 6 = 0 BY <1>3, <1>5
    <3>2. n \in Nat \ {0} BY <1>3
    <3> HIDE DEF n
    <3> QED BY <3>1, <3>2
  <2>2. CASE n = 1
    <3>1. Len(wire) < 2 /\ Len(wire) < 3 /\ Len(wire) < 4 /\ Len(wire) < 5 BY <2>2
    <3>2. /\ packet_count = sent.count
          /\ \A ch \in 0..3 : ch_src[ch] = sent.selection[ch]
          /\ \A ch \in 4..7 : ch_src[ch] = sent.selection[ch]
          /\ \A g \in 0..3 : (USER_LED[3 - g] = 0) = sent.gpio[g]
      BY Zenon, <3>1 DEF SignalInv, TakenInv
    <3> QED BY Zenon, <1>1, <3>2 DEF TakenInv
  <2>3. CASE n >= 7
    <3>1. ~ (Len(wire') < 5) /\ ~ (Len(wire') < 4)
          /\ ~ (Len(wire') < 3) /\ ~ (Len(wire') < 2)
      BY <1>3, <2>3
    <3> QED BY Zenon, <3>1 DEF TakenInv
  <2> QED BY <2>1, <2>2, <2>3
<1>8. SignalTypeOK'
  <2>1. packet_index' \in 0..5 BY <1>1
  <2>2. combo \in Selection /\ gpio \in Buttoned
        /\ sent \in [count : Counted, selection : Selection, gpio : Buttoned]
    BY DEF SignalInv, SignalTypeOK
  <2>3. combo' = combo /\ gpio' = gpio /\ sent' = sent BY <1>1
  <2>4. valid_packet' \in BOOLEAN BY Zenon, <1>1
  <2> QED BY Zenon, <1>3, <2>1, <2>2, <2>3, <2>4 DEF SignalTypeOK
<1> QED BY <1>6, <1>7, <1>8 DEF SignalInv

LEMMA SignalStep == ASSUME SignalInv, [SignalNext]_signalVars PROVE SignalInv'
<1>1. /\ combo \in Selection /\ gpio \in Buttoned
      /\ packet_index \in 0..5 /\ valid_packet \in BOOLEAN
  BY DEF SignalInv, SignalTypeOK
<1>2. ASSUME NEW ch \in Channels, NEW s \in Listed, Choose(ch, s) PROVE SignalInv'
  <2>1. combo' = [combo EXCEPT ![ch] = s] BY <1>2 DEF Choose
  <2>2. s \in Sources BY SignalAssumption
  <2>3. combo' \in Selection BY <1>1, <2>1, <2>2 DEF Selection
  <2>4. UNCHANGED <<gpio, sent, wire, packet_index, valid_packet, packet_count, ch_src, USER_LED>>
    BY <1>2 DEF Choose, parserVars
  <2>5. SignalTypeOK' BY Zenon, <2>3, <2>4 DEF SignalInv, SignalTypeOK
  <2>6. WireInv' /\ LastInv' /\ TakenInv'
    BY Zenon, <2>4 DEF SignalInv, WireInv, LastInv, TakenInv
  <2> QED BY <2>5, <2>6 DEF SignalInv
<1>3. ASSUME NEW g \in 0..3, handle_button(g) PROVE SignalInv'
  <2>1. gpio' = [gpio EXCEPT ![g] = ~gpio[g]] BY <1>3 DEF handle_button
  <2>2. gpio' \in Buttoned BY <1>1, <2>1 DEF Buttoned
  <2>3. Send(0, gpio') /\ UNCHANGED combo /\ UNCHANGED parserVars BY <1>3 DEF handle_button
  <2>4. 0 \in Counted BY DEF Counted
  <2>5. /\ sent' \in [count : Counted, selection : Selection, gpio : Buttoned]
        /\ wire' \in Seq(WireWord) /\ WireInv' /\ LastInv' /\ TakenInv'
    <3> DEFINE h == gpio'
    <3>1. h \in Buttoned /\ Send(0, h) BY <2>2, <2>3
    <3> HIDE DEF h
    <3> QED BY <2>3, <2>4, <3>1, SendKeeps
  <2>6. SignalTypeOK'
    <3>1. combo' = combo /\ packet_index' = packet_index /\ valid_packet' = valid_packet
      BY <2>3 DEF parserVars
    <3> QED BY Zenon, <1>1, <2>2, <2>5, <3>1 DEF SignalTypeOK
  <2> QED BY <2>5, <2>6 DEF SignalInv
<1>4. ASSUME NEW n \in Transfers, on_start_btn_clicked(n) PROVE SignalInv'
  <2>1. Send(8 * n, gpio) /\ UNCHANGED <<combo, gpio>> /\ UNCHANGED parserVars
    BY <1>4 DEF on_start_btn_clicked
  <2>2. 8 * n \in Counted
    <3>1. n \in 1..256 BY SignalAssumption
    <3> QED BY <3>1 DEF Counted
  <2>3. /\ sent' \in [count : Counted, selection : Selection, gpio : Buttoned]
        /\ wire' \in Seq(WireWord) /\ WireInv' /\ LastInv' /\ TakenInv'
    BY <1>1, <2>1, <2>2, SendKeeps
  <2>4. SignalTypeOK'
    <3>1. /\ combo' = combo /\ gpio' = gpio
          /\ packet_index' = packet_index /\ valid_packet' = valid_packet
      BY <2>1 DEF parserVars
    <3> QED BY Zenon, <1>1, <2>3, <3>1 DEF SignalTypeOK
  <2> QED BY <2>3, <2>4 DEF SignalInv
<1>5. CASE UNCHANGED signalVars
  <2>1. UNCHANGED <<combo, gpio, sent, wire, packet_index, valid_packet, packet_count,
                    ch_src, USER_LED>>
    BY <1>5 DEF signalVars
  <2> QED BY Zenon, <2>1 DEF SignalInv, SignalTypeOK, WireInv, LastInv, TakenInv
<1> QED BY <1>2, <1>3, <1>4, <1>5, ReadWordKeeps, ReadGapKeeps DEF SignalNext

\* The wire holds whole requests, and the registers what is read of the last one.
THEOREM SignalInvariant == SignalSpec => []SignalInv
<1>1. SignalInit => SignalInv BY SignalInitial
<1>2. SignalInv /\ [SignalNext]_signalVars => SignalInv' BY SignalStep
<1> QED BY <1>1, <1>2, PTL DEF SignalSpec

\* With nothing left on the wire, outputs and count are those of the last request, for
\* any selections, counts and order of actions.
THEOREM LastRequestInForceHolds == SignalSpec => []LastRequestInForce
<1>1. SignalInv => LastRequestInForce
  <2> SUFFICES ASSUME SignalInv, wire = <<>>
               PROVE  /\ \A g \in 0..3 : (USER_LED[3 - g] = 0) = sent.gpio[g]
                      /\ packet_count = sent.count
    BY DEF LastRequestInForce
  <2>1. Len(wire) < 2 /\ Len(wire) < 5 OBVIOUS
  <2> QED BY Zenon, <2>1 DEF SignalInv, TakenInv
<1> QED BY <1>1, SignalInvariant, PTL

\* With nothing left on the wire every graph draws the source that was chosen in its
\* list, for every counter value and every state of the push buttons.
THEOREM GraphsShowSelectionHolds == SignalSpec => []GraphsShowSelection
<1>1. SignalInv => GraphsShowSelection
  <2> SUFFICES ASSUME SignalInv, wire = <<>>, NEW gen \in CountProbes, NEW pb \in ButtonProbes,
                      NEW ch \in Channels
               PROVE  GraphLevel(ch_data(ch_src, gen, pb), ch) =
                      Source(gen, pb)[sent.selection[ch]]
    BY DEF GraphsShowSelection
  <2>1. gen \in Nat /\ pb \in Nat BY SignalAssumption
  <2>2. \A k \in Channels : ch_src[k] = sent.selection[k]
    <3>1. Len(wire) < 3 /\ Len(wire) < 4 OBVIOUS
    <3>2. /\ \A k \in 0..3 : ch_src[k] = sent.selection[k]
          /\ \A k \in 4..7 : ch_src[k] = sent.selection[k]
      BY Zenon, <3>1 DEF SignalInv, TakenInv
    <3>3. \A k \in Channels : k \in 0..3 \/ k \in 4..7 BY DEF Channels
    <3> QED BY <3>2, <3>3
  <2>3. sent.selection \in [Channels -> Sources] BY DEF SignalInv, SignalTypeOK, Selection
  <2>4. GraphLevel(ch_data(sent.selection, gen, pb), ch) = Source(gen, pb)[sent.selection[ch]]
    BY <2>1, <2>3, GraphShowsChannel
  <2>5. ch_data(ch_src, gen, pb) = ch_data(sent.selection, gen, pb)
    <3>1. \A b \in 0..7 : ch_src[7 - b] = sent.selection[7 - b]
      <4>1. \A b \in 0..7 : 7 - b \in Channels BY DEF Channels
      <4> QED BY <2>2, <4>1
    <3>2. [b \in 0..7 |-> Source(gen, pb)[ch_src[7 - b]]] =
          [b \in 0..7 |-> Source(gen, pb)[sent.selection[7 - b]]]
      BY <3>1
    <3> QED BY Zenon, <3>2 DEF ch_data
  <2> QED BY <2>4, <2>5
<1> QED BY <1>1, SignalInvariant, PTL

-----------------------------------------------------------------------------
(* The check of the application turns a byte round as the multiplexer does. *)

LEMMA ByteWithMask ==
  ASSUME NEW bit \in [0..7 -> 0..1], NEW mask \in 0..255
  PROVE  /\ [i \in 0..7 |-> bit[i] * Bit(mask, i)] \in [0..7 -> 0..1]
         /\ Masked(Byte(bit), mask) = Byte([i \in 0..7 |-> bit[i] * Bit(mask, i)])
<1>1. \A i \in 0..7 : Bit(Byte(bit), i) = bit[i] BY ByteOfBits
<1>2. [i \in 0..7 |-> Bit(Byte(bit), i) * Bit(mask, i)] =
      [i \in 0..7 |-> bit[i] * Bit(mask, i)]
  BY <1>1
<1>3. \A i \in 0..7 : bit[i] * Bit(mask, i) \in 0..1
  <2> SUFFICES ASSUME NEW i \in 0..7 PROVE bit[i] * Bit(mask, i) \in 0..1 OBVIOUS
  <2>1. Bit(mask, i) \in 0..1 BY BitsOfNumber
  <2>2. bit[i] \in 0..1 OBVIOUS
  <2>3. (bit[i] = 0 \/ bit[i] = 1) /\ (Bit(mask, i) = 0 \/ Bit(mask, i) = 1) BY <2>1, <2>2
  <2> QED BY <2>3
<1> QED BY <1>2, <1>3 DEF Masked

LEMMA BitsOneByOne ==
  ASSUME NEW x \in Nat
  PROVE  /\ Bit(x, 0) = x % 2 /\ Bit(x, 1) = (x \div 2) % 2 /\ Bit(x, 2) = (x \div 4) % 2
         /\ Bit(x, 3) = (x \div 8) % 2 /\ Bit(x, 4) = (x \div 16) % 2
         /\ Bit(x, 5) = (x \div 32) % 2 /\ Bit(x, 6) = (x \div 64) % 2
         /\ Bit(x, 7) = (x \div 128) % 2
BY DEF Bit, Weight

\* The bits of the masks.
LEMMA MaskBits ==
  /\ \A i \in 0..7 : /\ Bit(240, i) = (IF i < 4 THEN 0 ELSE 1)
                     /\ Bit(15, i) = (IF i < 4 THEN 1 ELSE 0)
  /\ \A i \in 0..7 : /\ Bit(204, i) = (IF i \in {2, 3, 6, 7} THEN 1 ELSE 0)
                     /\ Bit(51, i) = (IF i \in {2, 3, 6, 7} THEN 0 ELSE 1)
  /\ \A i \in 0..7 : /\ Bit(170, i) = (IF i \in {1, 3, 5, 7} THEN 1 ELSE 0)
                     /\ Bit(85, i) = (IF i \in {1, 3, 5, 7} THEN 0 ELSE 1)
<1>1. /\ Bit(240, 0) = 0 /\ Bit(240, 1) = 0 /\ Bit(240, 2) = 0 /\ Bit(240, 3) = 0
      /\ Bit(240, 4) = 1 /\ Bit(240, 5) = 1 /\ Bit(240, 6) = 1 /\ Bit(240, 7) = 1
  BY BitsOneByOne
<1>2. /\ Bit(15, 0) = 1 /\ Bit(15, 1) = 1 /\ Bit(15, 2) = 1 /\ Bit(15, 3) = 1
      /\ Bit(15, 4) = 0 /\ Bit(15, 5) = 0 /\ Bit(15, 6) = 0 /\ Bit(15, 7) = 0
  BY BitsOneByOne
<1>3. /\ Bit(204, 0) = 0 /\ Bit(204, 1) = 0 /\ Bit(204, 2) = 1 /\ Bit(204, 3) = 1
      /\ Bit(204, 4) = 0 /\ Bit(204, 5) = 0 /\ Bit(204, 6) = 1 /\ Bit(204, 7) = 1
  BY BitsOneByOne
<1>4. /\ Bit(51, 0) = 1 /\ Bit(51, 1) = 1 /\ Bit(51, 2) = 0 /\ Bit(51, 3) = 0
      /\ Bit(51, 4) = 1 /\ Bit(51, 5) = 1 /\ Bit(51, 6) = 0 /\ Bit(51, 7) = 0
  BY BitsOneByOne
<1>5. /\ Bit(170, 0) = 0 /\ Bit(170, 1) = 1 /\ Bit(170, 2) = 0 /\ Bit(170, 3) = 1
      /\ Bit(170, 4) = 0 /\ Bit(170, 5) = 1 /\ Bit(170, 6) = 0 /\ Bit(170, 7) = 1
  BY BitsOneByOne
<1>6. /\ Bit(85, 0) = 1 /\ Bit(85, 1) = 0 /\ Bit(85, 2) = 1 /\ Bit(85, 3) = 0
      /\ Bit(85, 4) = 1 /\ Bit(85, 5) = 0 /\ Bit(85, 6) = 1 /\ Bit(85, 7) = 0
  BY BitsOneByOne
<1>7. \A i \in 0..7 : i = 0 \/ i = 1 \/ i = 2 \/ i = 3 \/ i = 4 \/ i = 5 \/ i = 6 \/ i = 7
  OBVIOUS
<1> QED BY <1>1, <1>2, <1>3, <1>4, <1>5, <1>6, <1>7

\* The three exchanges, bit by bit.
LEMMA Fours ==
  ASSUME NEW bit \in [0..7 -> 0..1]
  PROVE  Exchange(Byte(bit), 240, 15, 16) =
         Byte([i \in 0..7 |-> IF i < 4 THEN bit[i + 4] ELSE bit[i - 4]])
<1> DEFINE h == [i \in 0..7 |-> bit[i] * Bit(240, i)]
           l == [i \in 0..7 |-> bit[i] * Bit(15, i)]
           e == [i \in 0..7 |-> IF i < 4 THEN bit[i + 4] ELSE bit[i - 4]]
<1>1. /\ bit[0] \in 0..1 /\ bit[1] \in 0..1 /\ bit[2] \in 0..1 /\ bit[3] \in 0..1
      /\ bit[4] \in 0..1 /\ bit[5] \in 0..1 /\ bit[6] \in 0..1 /\ bit[7] \in 0..1
  OBVIOUS
<1>2. Masked(Byte(bit), 240) = Byte(h) /\ Masked(Byte(bit), 15) = Byte(l)
  <2>1. 240 \in 0..255 /\ 15 \in 0..255 OBVIOUS
  <2> QED BY Zenon, <2>1, ByteWithMask
<1>3. /\ h[0] = 0 /\ h[1] = 0 /\ h[2] = 0 /\ h[3] = 0
      /\ h[4] = bit[4] /\ h[5] = bit[5] /\ h[6] = bit[6] /\ h[7] = bit[7]
  BY <1>1, MaskBits
<1>4. /\ l[0] = bit[0] /\ l[1] = bit[1] /\ l[2] = bit[2] /\ l[3] = bit[3]
      /\ l[4] = 0 /\ l[5] = 0 /\ l[6] = 0 /\ l[7] = 0
  BY <1>1, MaskBits
<1>5. /\ e[0] = bit[4] /\ e[1] = bit[5] /\ e[2] = bit[6] /\ e[3] = bit[7]
      /\ e[4] = bit[0] /\ e[5] = bit[1] /\ e[6] = bit[2] /\ e[7] = bit[3]
  OBVIOUS
<1> HIDE DEF h, l, e
<1>6. (Byte(h) \div 16) + (Byte(l) * 16) = Byte(e) BY <1>1, <1>3, <1>4, <1>5 DEF Byte
<1> QED BY Zenon, <1>2, <1>6 DEF Exchange, e

LEMMA Twos ==
  ASSUME NEW bit \in [0..7 -> 0..1]
  PROVE  Exchange(Byte(bit), 204, 51, 4) =
         Byte([i \in 0..7 |-> IF i \in {2, 3, 6, 7} THEN bit[i - 2] ELSE bit[i + 2]])
<1> DEFINE h == [i \in 0..7 |-> bit[i] * Bit(204, i)]
           l == [i \in 0..7 |-> bit[i] * Bit(51, i)]
           e == [i \in 0..7 |-> IF i \in {2, 3, 6, 7} THEN bit[i - 2] ELSE bit[i + 2]]
<1>1. /\ bit[0] \in 0..1 /\ bit[1] \in 0..1 /\ bit[2] \in 0..1 /\ bit[3] \in 0..1
      /\ bit[4] \in 0..1 /\ bit[5] \in 0..1 /\ bit[6] \in 0..1 /\ bit[7] \in 0..1
  OBVIOUS
<1>2. Masked(Byte(bit), 204) = Byte(h) /\ Masked(Byte(bit), 51) = Byte(l)
  <2>1. 204 \in 0..255 /\ 51 \in 0..255 OBVIOUS
  <2> QED BY Zenon, <2>1, ByteWithMask
<1>3. /\ h[0] = 0 /\ h[1] = 0 /\ h[2] = bit[2] /\ h[3] = bit[3]
      /\ h[4] = 0 /\ h[5] = 0 /\ h[6] = bit[6] /\ h[7] = bit[7]
  BY <1>1, MaskBits
<1>4. /\ l[0] = bit[0] /\ l[1] = bit[1] /\ l[2] = 0 /\ l[3] = 0
      /\ l[4] = bit[4] /\ l[5] = bit[5] /\ l[6] = 0 /\ l[7] = 0
  BY <1>1, MaskBits
<1>5. /\ e[0] = bit[2] /\ e[1] = bit[3] /\ e[2] = bit[0] /\ e[3] = bit[1]
      /\ e[4] = bit[6] /\ e[5] = bit[7] /\ e[6] = bit[4] /\ e[7] = bit[5]
  OBVIOUS
<1> HIDE DEF h, l, e
<1>6. (Byte(h) \div 4) + (Byte(l) * 4) = Byte(e) BY <1>1, <1>3, <1>4, <1>5 DEF Byte
<1> QED BY Zenon, <1>2, <1>6 DEF Exchange, e

LEMMA Ones ==
  ASSUME NEW bit \in [0..7 -> 0..1]
  PROVE  Exchange(Byte(bit), 170, 85, 2) =
         Byte([i \in 0..7 |-> IF i \in {1, 3, 5, 7} THEN bit[i - 1] ELSE bit[i + 1]])
<1> DEFINE h == [i \in 0..7 |-> bit[i] * Bit(170, i)]
           l == [i \in 0..7 |-> bit[i] * Bit(85, i)]
           e == [i \in 0..7 |-> IF i \in {1, 3, 5, 7} THEN bit[i - 1] ELSE bit[i + 1]]
<1>1. /\ bit[0] \in 0..1 /\ bit[1] \in 0..1 /\ bit[2] \in 0..1 /\ bit[3] \in 0..1
      /\ bit[4] \in 0..1 /\ bit[5] \in 0..1 /\ bit[6] \in 0..1 /\ bit[7] \in 0..1
  OBVIOUS
<1>2. Masked(Byte(bit), 170) = Byte(h) /\ Masked(Byte(bit), 85) = Byte(l)
  <2>1. 170 \in 0..255 /\ 85 \in 0..255 OBVIOUS
  <2> QED BY Zenon, <2>1, ByteWithMask
<1>3. /\ h[0] = 0 /\ h[1] = bit[1] /\ h[2] = 0 /\ h[3] = bit[3]
      /\ h[4] = 0 /\ h[5] = bit[5] /\ h[6] = 0 /\ h[7] = bit[7]
  BY <1>1, MaskBits
<1>4. /\ l[0] = bit[0] /\ l[1] = 0 /\ l[2] = bit[2] /\ l[3] = 0
      /\ l[4] = bit[4] /\ l[5] = 0 /\ l[6] = bit[6] /\ l[7] = 0
  BY <1>1, MaskBits
<1>5. /\ e[0] = bit[1] /\ e[1] = bit[0] /\ e[2] = bit[3] /\ e[3] = bit[2]
      /\ e[4] = bit[5] /\ e[5] = bit[4] /\ e[6] = bit[7] /\ e[7] = bit[6]
  OBVIOUS
<1> HIDE DEF h, l, e
<1>6. (Byte(h) \div 2) + (Byte(l) * 2) = Byte(e) BY <1>1, <1>3, <1>4, <1>5 DEF Byte
<1> QED BY Zenon, <1>2, <1>6 DEF Exchange, e

LEMMA ReverseTurns ==
  ASSUME NEW bit \in [0..7 -> 0..1]
  PROVE  reverse[Byte(bit)] = Byte([i \in 0..7 |-> bit[7 - i]])
<1> DEFINE f == [i \in 0..7 |-> IF i < 4 THEN bit[i + 4] ELSE bit[i - 4]]
           t == [i \in 0..7 |-> IF i \in {2, 3, 6, 7} THEN f[i - 2] ELSE f[i + 2]]
           o == [i \in 0..7 |-> IF i \in {1, 3, 5, 7} THEN t[i - 1] ELSE t[i + 1]]
<1>1. f \in [0..7 -> 0..1] OBVIOUS
<1>2. t \in [0..7 -> 0..1]
  <2> HIDE DEF f
  <2> QED BY <1>1
<1>3. Exchange(Byte(bit), 240, 15, 16) = Byte(f) BY Fours
<1>4. Exchange(Byte(f), 204, 51, 4) = Byte(t)
  <2> HIDE DEF f
  <2> QED BY <1>1, Twos
<1>5. Exchange(Byte(t), 170, 85, 2) = Byte(o)
  <2> HIDE DEF t
  <2> QED BY <1>2, Ones
<1>6. o = [i \in 0..7 |-> bit[7 - i]]
  <2> SUFFICES ASSUME NEW i \in 0..7 PROVE o[i] = bit[7 - i] OBVIOUS
  <2>1. /\ f[0] = bit[4] /\ f[1] = bit[5] /\ f[2] = bit[6] /\ f[3] = bit[7]
        /\ f[4] = bit[0] /\ f[5] = bit[1] /\ f[6] = bit[2] /\ f[7] = bit[3]
    OBVIOUS
  <2> HIDE DEF f
  <2>2. /\ t[0] = bit[6] /\ t[1] = bit[7] /\ t[2] = bit[4] /\ t[3] = bit[5]
        /\ t[4] = bit[2] /\ t[5] = bit[3] /\ t[6] = bit[0] /\ t[7] = bit[1]
    BY <2>1
  <2> HIDE DEF t
  <2>3. /\ o[0] = bit[7] /\ o[1] = bit[6] /\ o[2] = bit[5] /\ o[3] = bit[4]
        /\ o[4] = bit[3] /\ o[5] = bit[2] /\ o[6] = bit[1] /\ o[7] = bit[0]
    BY <2>2
  <2> HIDE DEF o
  <2> QED BY <2>3
<1>7. Byte(bit) \in 0..255 BY ByteOfBits
<1> HIDE DEF f, t, o
<1>8. reverse[Byte(bit)] = Byte(o) BY <1>3, <1>4, <1>5, <1>7 DEF reverse
<1> QED BY Zenon, <1>6, <1>8

LEMMA BitsMakeNumber ==
  ASSUME NEW x \in 0..255
  PROVE  Byte([i \in 0..7 |-> Bit(x, i)]) = x
<1> DEFINE b == [i \in 0..7 |-> Bit(x, i)]
<1>1. /\ b[0] = x % 2 /\ b[1] = (x \div 2) % 2 /\ b[2] = (x \div 4) % 2
      /\ b[3] = (x \div 8) % 2 /\ b[4] = (x \div 16) % 2 /\ b[5] = (x \div 32) % 2
      /\ b[6] = (x \div 64) % 2 /\ b[7] = (x \div 128) % 2
  BY DEF Bit, Weight
<1> HIDE DEF b
<1>2. Byte(b) = x BY <1>1 DEF Byte
<1> QED BY <1>2 DEF b

\* What the application reads from a byte of the sampler is the counter.
LEMMA SampleIsCounter ==
  ASSUME NEW g \in 0..255, NEW pb \in 0..1
  PROVE  Sampled[pb][g] \in 0..255 /\ reverse[Sampled[pb][g]] = g
<1> DEFINE bit == [b \in 0..7 |-> Source(g, pb)[DefaultSelection[7 - b]]]
           low == [i \in 0..7 |-> Bit(g, i)]
           turned == [i \in 0..7 |-> bit[7 - i]]
<1>1. Sampled[pb][g] = Byte(bit) BY DEF Sampled, ch_data
<1>2. \A i \in 0..7 : low[i] \in 0..1 BY BitsOfNumber
<1>3. \A b \in 0..7 : bit[b] = low[7 - b]
  <2> SUFFICES ASSUME NEW b \in 0..7 PROVE Source(g, pb)[DefaultSelection[7 - b]] = low[7 - b]
    OBVIOUS
  <2>1. 7 - b \in 0..7 OBVIOUS
  <2>2. DefaultSelection[7 - b] = 7 - b BY <2>1 DEF DefaultSelection, Channels
  <2>3. \A s \in 0..7 : Source(g, pb)[s] = Bit(g, s)
    <3>1. g \in Nat /\ pb \in Nat OBVIOUS
    <3> QED BY Zenon, <3>1, SourceIsBit
  <2> QED BY <2>1, <2>2, <2>3
<1>4. bit \in [0..7 -> 0..1]
  <2>1. \A b \in 0..7 : 7 - b \in 0..7 OBVIOUS
  <2>2. \A b \in 0..7 : bit[b] \in 0..1 BY Zenon, <1>2, <1>3, <2>1
  <2> QED BY <2>2
<1>5. turned = low
  <2> SUFFICES ASSUME NEW i \in 0..7 PROVE bit[7 - i] = Bit(g, i) OBVIOUS
  <2>1. 7 - i \in 0..7 /\ 7 - (7 - i) = i OBVIOUS
  <2>2. bit[7 - i] = low[7 - (7 - i)] BY Zenon, <1>3, <2>1
  <2> QED BY <2>1, <2>2
<1> HIDE DEF bit, turned, low
<1>6. Byte(bit) \in 0..255 BY <1>4, ByteOfBits
<1>7. reverse[Byte(bit)] = Byte(turned) BY Zenon, <1>4, ReverseTurns DEF turned
<1>8. Byte(low) = g BY Zenon, BitsMakeNumber DEF low
<1> QED BY Zenon, <1>1, <1>5, <1>6, <1>7, <1>8

-----------------------------------------------------------------------------
(* SampleStream: what the registers hold, counted back from data_gen. *)

Registers == {r \in Seq(0..255) : Len(r) = 4}

StreamTypeOK ==
  /\ data_gen \in 0..255 /\ PB_1d \in 0..1 /\ PB_2d \in 0..1
  /\ phase \in 0..3 /\ age \in 0..3
  /\ ch_data_d \in Registers /\ data_out_1d \in Registers /\ data_out_2d \in Registers

\* The sample that was taken back edges of the fast clock before the value gen.
Before(gen, back) == (gen + 256 - back) % 256

\* The shift register is full when the second edge of the slow clock comes, and what it
\* held then reaches the second flop with the third.
StreamInv ==
  /\ StreamTypeOK
  /\ age >= 1 => \A i \in 4 - phase .. 4 : i > 0 => reverse[ch_data_d[i]] = Before(data_gen, 5 - i)
  /\ age >= 2 => \A i \in 1..4 : reverse[data_out_1d[i]] = Before(data_gen, phase + 6 - i)
  /\ age = 3 => \A i \in 1..4 : reverse[data_out_2d[i]] = Before(data_gen, phase + 10 - i)

LEMMA WithoutFirst ==
  ASSUME NEW S, NEW r \in Seq(S), r # <<>>
  PROVE  /\ Tail(r) \in Seq(S) /\ Len(Tail(r)) = Len(r) - 1
         /\ \A i \in 1 .. Len(r) - 1 : Tail(r)[i] = r[i + 1]
OBVIOUS

LEMMA ShiftedRegister ==
  ASSUME NEW r \in Registers, NEW b \in 0..255
  PROVE  /\ Shifted(r, b) \in Registers /\ Shifted(r, b)[4] = b
         /\ \A i \in 1..3 : Shifted(r, b)[i] = r[i + 1]
<1>1. r \in Seq(0..255) /\ Len(r) = 4 BY DEF Registers
<1> DEFINE t == Tail(r)
           one == <<b>>
<1>2. t \in Seq(0..255) /\ Len(t) = 3 /\ \A i \in 1..3 : t[i] = r[i + 1] 
  <2>1. r # <<>>
    <3>1. Len(<<>>) = 0 OBVIOUS
    <3>2. 0 # 4 OBVIOUS
    <3> QED BY Zenon, <1>1, <3>1, <3>2
  <2>2. /\ Tail(r) \in Seq(0..255) /\ Len(Tail(r)) = Len(r) - 1
        /\ \A i \in 1 .. Len(r) - 1 : Tail(r)[i] = r[i + 1]
    BY <1>1, <2>1, WithoutFirst
  <2>3. Len(r) - 1 = 3 BY <1>1
  <2> QED BY Zenon, <2>2, <2>3
<1>3. one \in Seq(0..255) /\ Len(one) = 1 /\ one[1] = b OBVIOUS
<1>4. Shifted(r, b) = t \o one BY DEF Shifted
<1> HIDE DEF t, one
<1>5. t \o one \in Seq(0..255) /\ Len(t \o one) = 3 + 1 /\ IsJoined(t \o one, t, one, 3, 1)
  BY <1>2, <1>3, Joined
<1>6. /\ \A i \in 1..3 : (t \o one)[i] = t[i]
      /\ (t \o one)[4] = one[1]
  BY <1>5 DEF IsJoined
<1> QED BY <1>2, <1>3, <1>4, <1>5, <1>6 DEF Registers

LEMMA StreamInitial == StreamInit => StreamInv
<1> SUFFICES ASSUME StreamInit PROVE StreamInv OBVIOUS
<1>1. Zeros \in Registers BY DEF Zeros, Registers
<1>2. /\ data_gen = 0 /\ PB_1d = 0 /\ PB_2d = 0 /\ ch_data_d = Zeros
      /\ data_out_1d = Zeros /\ data_out_2d = Zeros /\ phase \in 0..3 /\ age = 0
  BY DEF StreamInit, Ratio
<1>3. StreamTypeOK BY <1>1, <1>2 DEF StreamTypeOK
<1>4. ~ (age >= 1) /\ ~ (age >= 2) /\ ~ (age = 3) BY <1>2
<1> QED BY Zenon, <1>3, <1>4 DEF StreamInv

\* One edge later everything is one edge older.
LEMMA OneEdgeOlder ==
  ASSUME data_gen \in 0..255, data_gen' = (data_gen + 1) % 256
  PROVE  /\ \A k \in 0..12 : Before(data_gen', k + 1) = Before(data_gen, k)
         /\ Before(data_gen', 1) = data_gen
<1> SUFFICES ASSUME NEW k \in 0..12
             PROVE  /\ (data_gen' + 256 - (k + 1)) % 256 = (data_gen + 256 - k) % 256
                    /\ (data_gen' + 256 - 1) % 256 = data_gen
  BY DEF Before
<1> QED OBVIOUS

LEMMA StreamStep == ASSUME StreamInv, [FastEdge]_streamVars PROVE StreamInv'
<1>1. /\ data_gen \in 0..255 /\ PB_1d \in 0..1 /\ PB_2d \in 0..1 /\ phase \in 0..3
      /\ age \in 0..3 /\ ch_data_d \in Registers /\ data_out_1d \in Registers
      /\ data_out_2d \in Registers
  BY DEF StreamInv, StreamTypeOK
<1>2. CASE UNCHANGED streamVars
  <2>1. UNCHANGED <<data_gen, PB_1d, PB_2d, ch_data_d, data_out_1d, data_out_2d, phase, age>>
    BY <1>2 DEF streamVars
  <2> QED BY Zenon, <2>1 DEF StreamInv, StreamTypeOK
<1>3. CASE FastEdge
  <2>1. /\ data_gen' = (data_gen + 1) % 256
        /\ ch_data_d' = Shifted(ch_data_d, Sampled[PB_2d][data_gen])
        /\ PB_1d' \in 0..1 /\ PB_2d' = PB_1d /\ phase' = (phase + 1) % 4
        /\ IF phase' = 0
           THEN /\ data_out_1d' = ch_data_d /\ data_out_2d' = data_out_1d
                /\ age' = IF age < 3 THEN age + 1 ELSE age
           ELSE UNCHANGED <<data_out_1d, data_out_2d, age>>
    BY <1>3 DEF FastEdge, SlowEdge, Ratio
  <2>2. /\ \A k \in 0..12 : Before(data_gen', k + 1) = Before(data_gen, k)
        /\ Before(data_gen', 1) = data_gen
    BY <1>1, <2>1, OneEdgeOlder
  <2>3. /\ Sampled[PB_2d][data_gen] \in 0..255
        /\ reverse[Sampled[PB_2d][data_gen]] = data_gen
    BY <1>1, SampleIsCounter
  <2>4. /\ ch_data_d' \in Registers /\ reverse[ch_data_d'[4]] = data_gen
        /\ \A i \in 1..3 : ch_data_d'[i] = ch_data_d[i + 1]
    <3> DEFINE b == Sampled[PB_2d][data_gen]
    <3>1. b \in 0..255 /\ reverse[b] = data_gen /\ ch_data_d' = Shifted(ch_data_d, b)
      BY <2>1, <2>3
    <3> HIDE DEF b
    <3>2. /\ Shifted(ch_data_d, b) \in Registers /\ Shifted(ch_data_d, b)[4] = b
          /\ \A i \in 1..3 : Shifted(ch_data_d, b)[i] = ch_data_d[i + 1]
      BY <1>1, <3>1, ShiftedRegister
    <3> QED BY Zenon, <3>1, <3>2
  <2>5. /\ age >= 1 => \A i \in 4 - phase .. 4 :
                         i > 0 => reverse[ch_data_d[i]] = Before(data_gen, 5 - i)
        /\ age >= 2 => \A i \in 1..4 : reverse[data_out_1d[i]] = Before(data_gen, phase + 6 - i)
        /\ age = 3 => \A i \in 1..4 : reverse[data_out_2d[i]] = Before(data_gen, phase + 10 - i)
    BY DEF StreamInv
  <2>6. phase' = IF phase = 3 THEN 0 ELSE phase + 1 BY <1>1, <2>1
  <2>7. age' \in 0..3 /\ data_gen' \in 0..255 /\ data_out_1d' \in Registers
        /\ data_out_2d' \in Registers
    BY <1>1, <2>1
  <2>8. StreamTypeOK' BY <1>1, <2>1, <2>4, <2>6, <2>7 DEF StreamTypeOK
  <2>9. age' >= 1 => \A i \in 4 - phase' .. 4 :
                       i > 0 => reverse[ch_data_d'[i]] = Before(data_gen', 5 - i)
    <3> SUFFICES ASSUME age' >= 1, NEW i \in 1..4, 4 - phase' <= i
                 PROVE  reverse[ch_data_d'[i]] = Before(data_gen', 5 - i)
      BY <1>1, <2>6
    <3>1. CASE i = 4
      <4>1. 5 - i = 1 BY <3>1
      <4> QED BY Zenon, <2>2, <2>4, <3>1, <4>1
    <3>2. CASE i # 4
      <4>1. phase # 3 /\ age >= 1 /\ i + 1 \in 4 - phase .. 4 /\ i + 1 > 0 /\ i \in 1..3
        BY <1>1, <2>1, <2>6, <3>2
      <4>2. reverse[ch_data_d[i + 1]] = Before(data_gen, 5 - (i + 1)) BY <2>5, <4>1
      <4>3. 5 - (i + 1) \in 0..12 /\ (5 - (i + 1)) + 1 = 5 - i BY <4>1
      <4>4. Before(data_gen', 5 - i) = Before(data_gen, 5 - (i + 1)) BY Zenon, <2>2, <4>3
      <4>5. ch_data_d'[i] = ch_data_d[i + 1] BY <2>4, <4>1
      <4> QED BY Zenon, <4>2, <4>4, <4>5
    <3> QED BY <3>1, <3>2
  <2>10. age' >= 2 => \A i \in 1..4 : reverse[data_out_1d'[i]] = Before(data_gen', phase' + 6 - i)
    <3> SUFFICES ASSUME age' >= 2, NEW i \in 1..4
                 PROVE  reverse[data_out_1d'[i]] = Before(data_gen', phase' + 6 - i)
      OBVIOUS
    <3>1. CASE phase = 3
      <4>1. phase' = 0 /\ age >= 1 /\ data_out_1d' = ch_data_d BY <1>1, <2>1, <2>6, <3>1
      <4>2. i \in 4 - phase .. 4 /\ i > 0 BY <3>1
      <4>3. reverse[ch_data_d[i]] = Before(data_gen, 5 - i) BY <2>5, <4>1, <4>2
      <4>4. 5 - i \in 0..12 /\ (5 - i) + 1 = phase' + 6 - i BY <4>1
      <4>5. Before(data_gen', phase' + 6 - i) = Before(data_gen, 5 - i) BY Zenon, <2>2, <4>4
      <4> QED BY Zenon, <4>1, <4>3, <4>5
    <3>2. CASE phase # 3
      <4>1. phase' = phase + 1 /\ age >= 2 /\ data_out_1d' = data_out_1d
        BY <1>1, <2>1, <2>6, <3>2
      <4>2. reverse[data_out_1d[i]] = Before(data_gen, phase + 6 - i) BY <2>5, <4>1
      <4>3. phase + 6 - i \in 0..12 /\ (phase + 6 - i) + 1 = phase' + 6 - i BY <1>1, <4>1
      <4>4. Before(data_gen', phase' + 6 - i) = Before(data_gen, phase + 6 - i) BY Zenon, <2>2, <4>3
      <4> QED BY Zenon, <4>1, <4>2, <4>4
    <3> QED BY <3>1, <3>2
  <2>11. age' = 3 => \A i \in 1..4 : reverse[data_out_2d'[i]] = Before(data_gen', phase' + 10 - i)
    <3> SUFFICES ASSUME age' = 3, NEW i \in 1..4
                 PROVE  reverse[data_out_2d'[i]] = Before(data_gen', phase' + 10 - i)
      OBVIOUS
    <3>1. CASE phase = 3
      <4>1. phase' = 0 /\ age >= 2 /\ data_out_2d' = data_out_1d BY <1>1, <2>1, <2>6, <3>1
      <4>2. reverse[data_out_1d[i]] = Before(data_gen, phase + 6 - i) BY <2>5, <4>1
      <4>3. phase + 6 - i \in 0..12 /\ (phase + 6 - i) + 1 = phase' + 10 - i BY <3>1, <4>1
      <4>4. Before(data_gen', phase' + 10 - i) = Before(data_gen, phase + 6 - i)
        BY Zenon, <2>2, <4>3
      <4> QED BY Zenon, <4>1, <4>2, <4>4
    <3>2. CASE phase # 3
      <4>1. phase' = phase + 1 /\ age = 3 /\ data_out_2d' = data_out_2d
        BY <1>1, <2>1, <2>6, <3>2
      <4>2. reverse[data_out_2d[i]] = Before(data_gen, phase + 10 - i) BY <2>5, <4>1
      <4>3. phase + 10 - i \in 0..12 /\ (phase + 10 - i) + 1 = phase' + 10 - i BY <1>1, <3>2, <4>1
      <4>4. Before(data_gen', phase' + 10 - i) = Before(data_gen, phase + 10 - i)
        BY Zenon, <2>2, <4>3
      <4> QED BY Zenon, <4>1, <4>2, <4>4
    <3> QED BY <3>1, <3>2
  <2> QED BY Zenon, <2>8, <2>9, <2>10, <2>11 DEF StreamInv
<1> QED BY <1>2, <1>3

\* From the third edge of the slow clock on, the word that is written holds four samples
\* in a row, and the registers before it those that follow.
THEOREM StreamInvariant == StreamSpec => []StreamInv
<1>1. StreamInit => StreamInv BY StreamInitial
<1>2. StreamInv /\ [FastEdge]_streamVars => StreamInv' BY StreamStep
<1> QED BY <1>1, <1>2, PTL DEF StreamSpec

\* Words join without a gap or a repeated sample.
THEOREM WordsJoinHolds == StreamSpec => WordsJoin
<1>1. ASSUME StreamInv, [FastEdge]_streamVars
      PROVE  [age = 3 /\ phase' = 0 =>
                \A i \in 1..4 :
                  reverse[data_out_2d'[i]] = (reverse[data_out_2d[4]] + i) % 256]_streamVars
  <2> SUFFICES ASSUME FastEdge, age = 3, phase' = 0, NEW i \in 1..4
               PROVE  reverse[data_out_2d'[i]] = (reverse[data_out_2d[4]] + i) % 256
    BY <1>1
  <2>1. phase \in 0..3 /\ data_gen \in 0..255 BY <1>1 DEF StreamInv, StreamTypeOK
  <2>2. phase' = (phase + 1) % 4 BY DEF FastEdge, Ratio
  <2>3. phase = 3 BY <2>1, <2>2
  <2>4. data_out_2d' = data_out_1d BY DEF FastEdge, SlowEdge
  <2>5. reverse[data_out_1d[i]] = Before(data_gen, phase + 6 - i)
    <3>1. age >= 2 OBVIOUS
    <3> QED BY <1>1, <3>1 DEF StreamInv
  <2>6. reverse[data_out_2d[4]] = Before(data_gen, phase + 10 - 4) BY <1>1 DEF StreamInv
  <2>7. Before(data_gen, phase + 6 - i) = (Before(data_gen, phase + 10 - 4) + i) % 256
    BY <2>1, <2>3 DEF Before
  <2> QED BY Zenon, <2>4, <2>5, <2>6, <2>7
<1> QED BY <1>1, StreamInvariant, PTL DEF StreamSpec, WordsJoin

-----------------------------------------------------------------------------
(* A capture. *)

\* Neighbours in a capture are neighbours in what was written, but for the place where
\* the packets meet: there the first byte follows the last one.
LEMMA Neighbours ==
  ASSUME NEW B \in Nat \ {0}, NEW j \in 1 .. 2 * B - 1
  PROVE  /\ (j + B) % (2 * B) \in Nat /\ (j - 1 + B) % (2 * B) \in Nat
         /\ \/ (j + B) % (2 * B) = ((j - 1 + B) % (2 * B)) + 1
            \/ (j + B) % (2 * B) = 0 /\ (j - 1 + B) % (2 * B) = 2 * B - 1
<1> DEFINE M == 2 * B
<1>1. M \in Nat \ {0} /\ M = 2 * B /\ B \in Nat \ {0} /\ j \in 1 .. M - 1 OBVIOUS
<1> HIDE DEF M
<1>2. CASE j < B
  <2>1. j + B \in Nat /\ j + B < M /\ j - 1 + B \in Nat /\ j - 1 + B < M BY <1>1, <1>2
  <2>2. (j + B) % M = j + B /\ (j - 1 + B) % M = j - 1 + B BY <1>1, <2>1, SmallModulo
  <2> QED BY <2>1, <2>2 DEF M
<1>3. ASSUME NEW k \in Nat, k < M PROVE (k + M) % M = k
  <2> DEFINE r == (k + M) % M
             q == (k + M) \div M
  <2>1. r \in 0..(M - 1) /\ q \in Int /\ k + M = M * q + r BY <1>1, <1>3
  <2> HIDE DEF r, q
  <2>2. M * 1 + k = M * q + r BY <1>1, <2>1
  <2>3. k \in 0..(M - 1) /\ 1 \in Int BY <1>1, <1>3
  <2>4. k = r BY <1>1, <2>1, <2>2, <2>3, OneRemainder
  <2> QED BY <2>4 DEF r
<1>4. CASE j = B
  <2>1. j + B = 0 + M /\ j - 1 + B \in Nat /\ j - 1 + B < M /\ j - 1 + B = M - 1 BY <1>1, <1>4
  <2>2. (0 + M) % M = 0 BY <1>1, <1>3
  <2>3. (j - 1 + B) % M = j - 1 + B BY <1>1, <2>1, SmallModulo
  <2> QED BY <1>1, <2>1, <2>2, <2>3 DEF M
<1>5. CASE j > B
  <2> DEFINE k == j - B
             l == j - 1 - B
  <2>1. k \in Nat /\ k < M /\ l \in Nat /\ l < M /\ k = l + 1 BY <1>1, <1>5
  <2>2. k + M = j + B /\ l + M = j - 1 + B BY <1>1
  <2> HIDE DEF k, l
  <2>3. (k + M) % M = k /\ (l + M) % M = l BY <1>3, <2>1
  <2> QED BY <2>1, <2>2, <2>3 DEF M
<1> QED BY <1>1, <1>2, <1>4, <1>5

\* The byte of the capture that was written as number w.
LEMMA CapturedByte ==
  ASSUME StreamInv, age = 3, phase = 0, NEW w \in Nat
  PROVE  reverse[Sampled[PB_2d][(reverse[data_out_2d[1 + (w % 4)]] + 4 * (w \div 4)) % 256]]
           = (data_gen + 247 + w) % 256
<1> DEFINE m == w % 4
           d == w \div 4
           first == data_out_2d[1 + m]
           x == (reverse[first] + 4 * d) % 256
<1>1. data_gen \in 0..255 /\ PB_2d \in 0..1 BY DEF StreamInv, StreamTypeOK
<1>2. m \in 0..3 /\ d \in Nat /\ w = 4 * d + m OBVIOUS
<1>3. \A i \in 1..4 : reverse[data_out_2d[i]] = Before(data_gen, phase + 10 - i) BY DEF StreamInv
<1> HIDE DEF m, d
<1>4. reverse[first] = (data_gen + 247 + m) % 256
  <2>1. 1 + m \in 1..4 BY <1>2
  <2>2. reverse[first] = Before(data_gen, phase + 10 - (1 + m)) BY Zenon, <1>3, <2>1
  <2>3. data_gen + 256 - (phase + 10 - (1 + m)) = data_gen + 247 + m BY <1>1, <1>2
  <2> QED BY <2>2, <2>3 DEF Before
<1> HIDE DEF first
<1>5. x = (data_gen + 247 + w) % 256
  <2>1. (((data_gen + 247 + m) % 256) + 4 * d) % 256 = (data_gen + 247 + m + 4 * d) % 256
    BY <1>1, <1>2
  <2>2. data_gen + 247 + m + 4 * d = data_gen + 247 + w BY <1>1, <1>2
  <2> QED BY <1>4, <2>1, <2>2
<1>6. x \in 0..255
  <2>1. (data_gen + 247 + w) % 256 \in 0..255 BY <1>1
  <2> QED BY <1>5, <2>1
<1> HIDE DEF x
<1>7. reverse[Sampled[PB_2d][x]] = x BY <1>1, <1>6, SampleIsCounter
<1> QED BY Zenon, <1>5, <1>7 DEF x, first, m, d

\* The pattern check never complains about a good capture, if two packets are a whole
\* number of turns of the counter, as the packets of the card are.
THEOREM CheckIsSilentHolds ==
  ASSUME BurstBytes % 128 = 0 PROVE StreamSpec => []CheckIsSilent
<1>1. ASSUME StreamInv PROVE CheckIsSilent
  <2> SUFFICES ASSUME age = 3, phase = 0, NEW j \in 1 .. 2 * BurstBytes - 1
               PROVE  ~Complains(reverse[CaptureByte(j - 1)], reverse[CaptureByte(j)])
    BY DEF CheckIsSilent
  <2> DEFINE B == BurstBytes
             w == (j + B) % (2 * B)
             v == (j - 1 + B) % (2 * B)
             new == (data_gen + 247 + w) % 256
             old == (data_gen + 247 + v) % 256
  <2>1. B \in Nat \ {0} BY StreamAssumption
  <2>2. /\ w \in Nat /\ v \in Nat
        /\ (w = v + 1 \/ (w = 0 /\ v = 2 * B - 1))
    BY Zenon, <2>1, Neighbours
  <2>3. reverse[CaptureByte(j)] = new /\ reverse[CaptureByte(j - 1)] = old
    <3> HIDE DEF w, v
    <3>1. /\ reverse[Sampled[PB_2d][(reverse[data_out_2d[1 + (w % 4)]] + 4 * (w \div 4)) % 256]]
               = new
          /\ reverse[Sampled[PB_2d][(reverse[data_out_2d[1 + (v % 4)]] + 4 * (v \div 4)) % 256]]
               = old
      BY <1>1, <2>2, CapturedByte
    <3> HIDE DEF new, old
    <3> QED BY Zenon, <3>1 DEF CaptureByte, w, v
  <2>4. data_gen \in 0..255 BY <1>1 DEF StreamInv, StreamTypeOK
  <2>5. (2 * B) % 256 = 0
    <3>1. B % 128 = 0 OBVIOUS
    <3> HIDE DEF B
    <3> QED BY <2>1, <3>1
  <2>6. new = (old + 1) % 256
    <3> HIDE DEF w, v, B
    <3>1. CASE w = v + 1 BY <2>2, <2>4, <3>1
    <3>2. CASE w = 0 /\ v = 2 * B - 1
      <4> DEFINE t == 2 * B
      <4>1. t \in Nat /\ t % 256 = 0 /\ v = t - 1 BY <2>1, <2>5, <3>2
      <4> HIDE DEF t
      <4> QED BY <2>4, <3>2, <4>1
    <3> QED BY <2>2, <3>1, <3>2
  <2>7. old \in 0..255
    <3> HIDE DEF v
    <3> QED BY <2>2, <2>4
  <2> HIDE DEF old, new
  <2>8. ~Complains(old, new) BY <2>6, <2>7 DEF Complains
  <2> QED BY Zenon, <2>3, <2>8
<1> QED BY <1>1, StreamInvariant, PTL
=============================================================================
