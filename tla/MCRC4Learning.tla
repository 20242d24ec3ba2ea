--------------------------- MODULE MCRC4Learning ---------------------------
(* Instances of RC4Learning for TLC: 8 and 9 are real transponder numbers. *)
EXTENDS RC4Learning, TLC

CONSTANTS hybrid, pure

MCCars == {hybrid, pure}
MCRealId == (hybrid :> 8) @@ (pure :> 0)
============================================================================
