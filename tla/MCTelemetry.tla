----------------------------- MODULE MCTelemetry ----------------------------
(***************************************************************************)
(* Telemetry with two GPUs, rings and agent windows of two samples.  One   *)
(* GPU sends enough samples for its ring to wrap twice, the other to wrap  *)
(* once.                                                                   *)
(***************************************************************************)
EXTENDS Telemetry

MCGpu        == 1..2
MCMaxSamples == <<5, 3>>
=============================================================================
