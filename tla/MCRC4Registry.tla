--------------------------- MODULE MCRC4Registry ---------------------------
(* An instance of RC4Registry for TLC. Identifiers 1 and 2 are the         *)
(* automatic range, 8 is a real transponder number.                        *)
EXTENDS RC4Registry, TLC

CONSTANTS carA, carB

MCPayloads == {carA, carB}
MCIds == {1, 2, 8}
MCRealIds == {8}
============================================================================
