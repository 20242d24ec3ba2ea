--------------------------- MODULE MCProcessFrame ---------------------------
(* An instance of ProcessFrame for TLC: two identifiers share their top 8  *)
(* bits, a third one does not; the window is one step of the clock and a   *)
(* stamp may run ahead by one, so stamps also step back.                   *)
EXTENDS ProcessFrame, TLC

CONSTANTS ghost, status, other, low, high

MCIds == {ghost, status, other}
MCBytes == {low, high}
MCMsb8 == [i \in MCIds |-> IF i = other THEN low ELSE high]
============================================================================
