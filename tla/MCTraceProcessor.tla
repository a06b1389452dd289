-------------------------- MODULE MCTraceProcessor --------------------------
(* Instances of TraceProcessor for TLC: traces that cross the same networks *)
(* in opposite directions, so that two instances insert the same addresses  *)
(* in opposite orders.                                                      *)
EXTENDS TraceProcessor

AsnOf == [a |-> 1, b |-> 2, lan |-> 0]
Paths == [there |-> <<"lan", "a", "b">>, back |-> <<"b", "a", "b">>, lb |-> <<>>, bad |-> <<>>]
=============================================================================
