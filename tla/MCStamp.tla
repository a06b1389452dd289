------------------------------ MODULE MCStamp ------------------------------
(* Instances of Stamp for TLC: runs of three packets, seconds of three       *)
(* nanoseconds, the reflector's clock one ahead or behind.                   *)
EXTENDS Stamp

MidSecond == {2}
EndOfEra == {11}
AheadOrBehind == {-1, 1}
=============================================================================
