------------------------ MODULE MCDeviceLifecycle ------------------------
(* Instances of DeviceLifecycle for TLC: a time unit stands for the length *)
(* of a chunk and for a good part of the watchdog's 2 s.                   *)
EXTENDS DeviceLifecycle, TLC

MCCaptures == <<2, 0, 2>>
============================================================================
