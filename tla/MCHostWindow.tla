---------------------------- MODULE MCHostWindow ----------------------------
(* Devices for HostWindow: the card, its boot loader without bulk endpoints,  *)
(* and a board with two bulk IN endpoints.                                    *)
EXTENDS HostWindow

Bulk(a, in) == [address |-> a, bIn |-> in, bulk |-> TRUE]
Interrupt(a, in) == [address |-> a, bIn |-> in, bulk |-> FALSE]

MCNames == [d \in Devices |-> d]

MCAltSettings == [d \in Devices |->
  CASE d = "card" -> << <<Bulk(1, FALSE), Bulk(129, TRUE)>> >>
    [] d = "boot" -> << <<>> >>
    [] d = "board" -> << <<Bulk(2, FALSE), Interrupt(131, TRUE), Bulk(129, TRUE), Bulk(134, TRUE)>> >>]
=============================================================================
