---------------------------- MODULE MCPassingPoint ----------------------------
(* An instance of PassingPoint for TLC: a grid of eight intervals and a    *)
(* filter of three taps; four detections are enough for the waveform.      *)
EXTENDS PassingPoint, TLC

MCLevels == {0, 4, 10}
MCGaps == {40, 80}
MCTaps == <<1, 2, 1>>
MCWeight == [x \in 0..6 |-> <<100, 89, 79, 71, 63, 56, 50>>[x + 1]]
============================================================================
