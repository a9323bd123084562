----------------------------- MODULE MCCardParts -----------------------------
(* The parts of the card beside the state machine (fpga/src/main.v): the path *)
(* of a request and of the samples it selects, the sampler, and the counters  *)
(* with the Nios program.  They are checked one beside the other: a behaviour *)
(* runs the part it began with, and the other two stay as they are.           *)
EXTENDS SignalPath, SampleStream, Telemetry

VARIABLE part

cardPartsVars == <<signalVars, streamVars, telemetryVars, part>>

CardPartsInit ==
  /\ SignalInit /\ StreamInit /\ TelemetryInit
  /\ part \in {"signal", "sampler", "telemetry"}
  /\ part # "sampler" => phase = 0

Signal     == part = "signal" /\ SignalNext /\ UNCHANGED <<streamVars, telemetryVars, part>>
Sampler    == part = "sampler" /\ FastEdge /\ UNCHANGED <<signalVars, telemetryVars, part>>
Counters   == part = "telemetry" /\ Edge /\ UNCHANGED <<signalVars, streamVars, part>>
UserIsDone == part = "signal" /\ acts = MaxActs /\ wire = <<>> /\ UNCHANGED cardPartsVars

CardPartsNext == Signal \/ Sampler \/ Counters \/ UserIsDone

CardPartsSpec == CardPartsInit /\ [][CardPartsNext]_cardPartsVars
=============================================================================
