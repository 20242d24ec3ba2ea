---------------------------- MODULE MCRC4Trainer ----------------------------
(* An instance of RC4Trainer for TLC: a time unit is about 250 ms.         *)
EXTENDS RC4Trainer, TLC

CONSTANTS any

MCData == {any}
MCRssi == {0, 2, 5}     \* too weak; 2 dB above it; 3 dB above that
============================================================================
