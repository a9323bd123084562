--------------------------- MODULE MCSlaveFifoLink ---------------------------
(* SlaveFifoLink with packets of a few words, and the four buffers per IN     *)
(* socket of the firmware: no packet, and replies that use a part of the      *)
(* buffers, all of them, one pair more, and twice as many.                    *)
EXTENDS SlaveFifoLink

MCWords   == {0, 1, 2, 8, 9, 10, 16}
MCConfigs == {1, 2, 8}
MCCounts == {0, 2, 8, 10, 16}
=============================================================================
