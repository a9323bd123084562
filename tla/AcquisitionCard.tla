--------------------------- MODULE AcquisitionCard ---------------------------
(***************************************************************************)
(* What the card promises the host application: after a request for n      *)
(* packets it delivers exactly n packets, each one whole, all sampled with *)
(* the channel selection of that request.  Packets are numbered the way    *)
(* main.v counts them, from n-1 down to 0, and reach the host in pairs of  *)
(* which the even (later) one comes first: the FPGA fills thread 1 before  *)
(* thread 0, the DMA channel of the FX3 empties socket 0 before socket 1.  *)
(* SlaveFifoLink implements this specification.                            *)
(***************************************************************************)
EXTENDS Integers, Sequences

CONSTANTS
  BurstWords, \* words in one packet
  Counts,     \* the packet counts the application asks for, all even
  Configs     \* the channel selections it asks for

VARIABLES
  request, \* the last request of the host
  owed,    \* packets the host still waits for
  got      \* packets received for that request

cardVars == <<request, owed, got>>

Requests == [count : Counts, config : Configs]

\* Packet k of a reply sampled with selection c, as the words it is made of.
Packet(k, c) ==
  [i \in 1 .. BurstWords |-> [word |-> (k + 1) * BurstWords - i, config |-> c]]

\* The i-th packet to arrive of a reply of n packets.
ArrivalNo(n, i) == IF i % 2 = 1 THEN n - i - 1 ELSE n - i + 1

CardInit ==
  /\ request \in [count : {0}, config : Configs]
  /\ owed = 0
  /\ got = <<>>

CardSubmit(r) ==
  /\ owed = 0
  /\ request' = r
  /\ owed' = r.count
  /\ got' = <<>>

CardDeliver ==
  /\ owed > 0
  /\ owed' = owed - 1
  /\ got' = Append(got, Packet(ArrivalNo(request.count, Len(got) + 1), request.config))
  /\ UNCHANGED request

CardNext == CardDeliver \/ \E r \in Requests : CardSubmit(r)

CardSpec == CardInit /\ [][CardNext]_cardVars /\ WF_cardVars(CardDeliver)
=============================================================================
