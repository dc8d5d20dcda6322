----------------------------- MODULE MCTelemetry -----------------------------
(* Small instances of Telemetry for TLC. *)
EXTENDS Telemetry

CONSTANTS w1, w2

Setting(spikes, rate) ==
    [spikeThreshold |-> 1, exportPeriod |-> 2, maxSpikes |-> spikes, deepSampleRate |-> rate]

\* A reload can change the size of the ring and leaves the sampling rate.
OneRate == {Setting(1, 2), Setting(2, 2)}
=============================================================================
