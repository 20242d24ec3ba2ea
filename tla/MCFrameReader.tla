--------------------------- MODULE MCFrameReader ---------------------------
(* An instance of FrameReader for TLC: two samples per symbol, a preamble  *)
(* of two symbols, two lead and two trailing symbols, so that the reserve  *)
(* holds 12 samples; buffers just below, at and above that, two of them no *)
(* whole number of symbols.                                                *)
EXTENDS FrameReader, TLC

MCPayloads == {1, 2}
MCBuffers == {3, 12, 13, 14}
============================================================================
