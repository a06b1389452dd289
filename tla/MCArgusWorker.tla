--------------------------- MODULE MCArgusWorker ---------------------------
(* Instances of ArgusWorker for TLC: few messages, an inbox of one slot.    *)
EXTENDS ArgusWorker

OneSeries == [x \in Msg |-> "s1"]
TwoSeries == [x \in Msg |-> IF x = "c" THEN "s2" ELSE "s1"]

\* "a" is older than "b" and "c", which are copies of one measurement; all are
\* whole microseconds when a unit is one.
Times == [x \in Msg |-> IF x = "a" THEN 1 ELSE 3]

\* Everything comes through in "a", nothing in the other one.
Samples == [x \in Msg |-> [sent |-> 2, received |-> IF x = "a" THEN 2 ELSE 0]]

OneMonitor == <<"rtt">>
TwoMonitors == <<"rtt", "loss">>

SafeFaults == {"ack", "insert", "apply", "crash"}
LiveFaults == {"get", "save", "ack", "insert"}
=============================================================================
