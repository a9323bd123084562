------------------------------ MODULE MCFirmware ------------------------------
(* The firmware of the FX3: the application (fx3/cyfxslfifosync.c), and the    *)
(* allocator its channels get their buffers from (fx3/cyfxtx.c).  A behaviour  *)
(* runs the part it began with, and the other stays as it is.                  *)
EXTENDS SlFifoApp, MCDmaBufMgr

VARIABLE part

firmwareVars == <<appVars, bufVars, part>>

\* SDKs in which none, some or all of the single-channel functions work on channel "M".
MCWrongHandle == {{}, {"destroy"}, {"reset", "xfer"}, UncheckedCalls}

FirmwareInit ==
  /\ AppInit /\ BufInit
  /\ part \in {"application", "buffers"}
  /\ part = "buffers" => speed = "full" /\ worksOnM = {} /\ ~mayFail

Application == part = "application" /\ AppNext /\ UNCHANGED <<bufVars, part>>
Handler     == part = "application" /\ Callback /\ UNCHANGED <<bufVars, part>>
Buffers     == part = "buffers" /\ BufNext /\ UNCHANGED <<appVars, part>>

FirmwareNext == Application \/ Buffers

FirmwareSpec == FirmwareInit /\ [][FirmwareNext]_firmwareVars /\ WF_firmwareVars(Handler)
=============================================================================
