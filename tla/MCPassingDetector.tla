------------------------- MODULE MCPassingDetector -------------------------
(* Instances of PassingDetector for TLC: a time unit is 125 ms.            *)
EXTENDS PassingDetector, TLC

CONSTANTS opn, amb

MCOne == {opn}
MCTwo == {opn, amb}
============================================================================
