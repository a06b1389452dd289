-------------------------- MODULE MCProbeProcessor --------------------------
(* Instances of ProbeProcessor for TLC: two or three probes, batches of two. *)
EXTENDS ProbeProcessor

NoFaults == {}
NoProbe == {}
=============================================================================
