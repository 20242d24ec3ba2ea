---------------------------- MODULE PassingPoint ----------------------------
(***************************************************************************)
(* The time of a passing: what compute_passing_point (src/passing.cpp)     *)
(* makes of the detections of one passing.  A few detections are averaged; *)
(* more of them are resampled to a uniform grid, on which three dips are   *)
(* looked for (the wires of the loop and the middle), then two peaks of    *)
(* the smoothed waveform, then the stretch within 6 dB of its maximum.     *)
(*                                                                         *)
(* All of it runs under the detector's mutex; the steps keep the stages    *)
(* apart, one action per way to the result.  Levels are whole dB times     *)
(* Fine, smoothed ones times Gain as well, so that interpolation and       *)
(* filter are exact; positions on the grid are in units of 1/Precision,    *)
(* rounded down.  A float rounds elsewhere.                                *)
(***************************************************************************)
EXTENDS Integers, Sequences, FiniteSets, FiniteSetsExt, Functions

CONSTANTS
    Levels,         \* levels of a detection, in dB
    Gaps,           \* samples between two detections
    MaxHits,        \* bound: detections of a passing
    HitLimit,       \* REPORT_HIT_LIMIT
    FewHits,        \* below these many detections they are averaged (16)
    Grid,           \* intervals of the uniform grid (128)
    Taps,           \* smoothing_fir, in whole numbers
    DipProminence,  \* 3 dB
    PeakProminence, \* 1 dB
    Below,          \* 6 dB
    Weight,         \* pow(10, -x / 20) for x dB below the maximum, x =< Below
    SampleRate,     \* SAMPLE_RATE, samples per UsecPerSecond
    UsecPerSecond,  \* 1000000
    Fine,           \* scale of a level
    Precision       \* scale of a position on the grid

ASSUME GridAssumption ==
    /\ Grid \in Nat /\ Grid >= 2 /\ Precision \in Nat \ {0}
    /\ \A g \in Gaps : g \in Nat /\ g >= Grid   \* a frame is longer than that
    /\ HitLimit >= 2 /\ FewHits > HitLimit /\ MaxHits \in Nat
    /\ Taps \in Seq(Nat) /\ 2 * (Len(Taps) - 1) =< Grid
ASSUME ScaleAssumption ==
    /\ Levels \subseteq Int
    /\ HitLimit \in Nat /\ FewHits \in Nat
    /\ DipProminence \in Nat /\ PeakProminence \in Nat /\ Below \in Nat
    /\ Fine \in Nat \ {0} /\ SampleRate \in Nat \ {0} /\ UsecPerSecond \in Nat
    /\ \A x \in 0..Below : Weight[x] \in Nat \ {0}

VARIABLES
    stage,       \* where compute_passing_point is
    detections,  \* the deque of the passing: timecode and rssi of each
    y_uniform,   \* levels on the uniform grid
    y_smoothed,  \* the same after the filter
    point        \* PassingPoint, relative to the first detection, and how it
                 \* was found

vars == <<stage, detections, y_uniform, y_smoothed, point>>

Points == 0..Grid

----------------------------------------------------------------------------
(* The waveform.                                                           *)

Offset(dets, i) == dets[i].timecode - dets[1].timecode
Span(dets) == Offset(dets, Len(dets))

\* The interval of the detections that holds grid point k: interp moves j on
\* while the next detection is still before it.
Interval(dets, k) ==
    Min({j \in 1..(Len(dets) - 1) :
           Offset(dets, j + 1) * Grid >= k * Span(dets) \/ j = Len(dets) - 1})

Interp(dets, k) ==
    LET j == Interval(dets, k)
        gap == Offset(dets, j + 1) - Offset(dets, j)
        rise == (dets[j + 1].rssi - dets[j].rssi) * Fine
    IN  dets[j].rssi * Fine
        + (rise * (k * Span(dets) - Grid * Offset(dets, j))) \div (Grid * gap)

Resampled(dets) == [k \in Points |-> Interp(dets, k)]

\* The edges of the waveform are reflected, the filter runs over it in both
\* directions; Gain is what it multiplies a constant with.
Padded(y, k) ==
    IF k < 0 THEN 2 * y[0] - y[-k]
    ELSE IF k > Grid THEN 2 * y[Grid] - y[2 * Grid - k] ELSE y[k]

Gain == SumFunction(Taps) * SumFunction(Taps)

Filtfilt(y) ==
    [k \in Points |->
       SumFunction([p \in (1..Len(Taps)) \X (1..Len(Taps)) |->
                      Taps[p[1]] * Taps[p[2]] * Padded(y, k - p[1] + p[2])])]

Top(y) == Max({y[k] : k \in Points})
Negated(y) == [k \in Points |-> -y[k]]

----------------------------------------------------------------------------
(* Peaks.                                                                  *)

LocalMaxima(y) == {k \in 1..(Grid - 1) : y[k] > y[k - 1] /\ y[k] > y[k + 1]}

\* The points a scan away from peak k visits: up to the first higher one, or
\* to the edge.  The scan to the left stops before point 0.
LeftScan(y, k) == {j \in 1..k : \A i \in (j + 1)..k : y[i] =< y[k]}
RightScan(y, k) == {j \in k..Grid : \A i \in k..(j - 1) : y[i] =< y[k]}

Lowest(y, scan) == Min({y[j] : j \in scan})

ProminenceOfLower(y, k) == y[k] - Lowest(y, LeftScan(y, k) \cup RightScan(y, k))

\* Height above the higher of the two valleys.
Prominence(y, k) ==
    LET left == Lowest(y, LeftScan(y, k))
        right == Lowest(y, RightScan(y, k))
    IN  y[k] - Max({left, right})

FindPeaks(y, prominence) ==
    {k \in LocalMaxima(y) : Prominence(y, k) >= prominence}

Dips(y) == FindPeaks(Negated(y), DipProminence * Fine)
Peaks(y) == FindPeaks(y, PeakProminence * Fine * Gain)

----------------------------------------------------------------------------
(* Positions, in 1/Precision of a grid interval.                           *)

\* Where the waveform first reaches level v, and where it was last over it.
FirstOver(y, v) == Precision * Min({i \in Points : y[i] >= v})
FirstCrossing(y, v) ==
    LET k == Min({i \in Points : y[i] >= v})
    IN  IF k = 0 THEN 0
        ELSE (k - 1) * Precision + (Precision * (v - y[k - 1])) \div (y[k] - y[k - 1])

\* Point 0 is not looked at: if the waveform is over v only there, this is
\* the end.
LastCrossing(y, v) ==
    LET over == {i \in 1..Grid : y[i] >= v}
        k == Max(over)
    IN  IF over = {} \/ k = Grid THEN Grid * Precision
        ELSE (k + 1) * Precision - (Precision * (v - y[k + 1])) \div (y[k] - y[k + 1])

SixBelow(y) == Top(y) - Below * Fine * Gain

ToUsec(samples) == (samples * UsecPerSecond) \div SampleRate

PointOf(by, center, duration) ==
    [by |-> by, center |-> center, timestamp |-> ToUsec(center),
     duration |-> ToUsec(duration)]

\* Between the first and the last of some points of the grid.
Between(by, ks, span, half) ==
    LET duration == ((Max(ks) - Min(ks)) * span) \div Grid
    IN  PointOf(by, (Min(ks) * span) \div Grid + duration \div half, duration)

BetweenFull(by, ks, span) == Between(by, ks, span, 1)
BetweenPoints(by, ks, span) == Between(by, ks, span, 2)

BetweenCrossings(y, span) ==
    LET first == FirstCrossing(y, SixBelow(y))
        last == LastCrossing(y, SixBelow(y))
    IN  PointOf("crossings", ((first + last) * span) \div (2 * Grid * Precision), 0)

\* The weighted average over the detections close to the strongest one.
WeightedPassing(dets) ==
    LET all == 1..Len(dets)
        strongest == Max({dets[i].rssi : i \in all})
        near == {i \in all : dets[i].rssi >= strongest - Below}
        w(i) == Weight[strongest - dets[i].rssi]
    IN  PointOf("weighted",
                SumFunction([i \in near |-> Offset(dets, i) * w(i)])
                  \div SumFunction([i \in near |-> w(i)]), 0)

----------------------------------------------------------------------------
NoPoint == PointOf("none", 0, 0)
Flat == [k \in Points |-> 0]

Init ==
    /\ stage = "open"
    /\ detections = <<>>
    /\ y_uniform = Flat
    /\ y_smoothed = Flat
    /\ point = NoPoint

\* The receiver appends: the timecode only grows.  Only differences of them
\* are used, so the first one is 0.
Detect(gap, rssi) ==
    /\ stage = "open"
    /\ Len(detections) < MaxHits
    /\ detections' = Append(detections,
         [timecode |-> IF detections = <<>> THEN 0
                       ELSE detections[Len(detections)].timecode + gap,
          rssi |-> rssi])
    /\ UNCHANGED <<stage, y_uniform, y_smoothed, point>>

Finish(p) == stage' = "done" /\ point' = p /\ UNCHANGED detections

CreateFew ==
    /\ stage = "open"
    /\ Len(detections) >= HitLimit /\ Len(detections) < FewHits
    /\ Finish(WeightedPassing(detections))
    /\ UNCHANGED <<y_uniform, y_smoothed>>

CreateMany ==
    /\ stage = "open"
    /\ Len(detections) >= FewHits
    /\ stage' = "uniform"
    /\ y_uniform' = Resampled(detections)
    /\ UNCHANGED <<detections, y_smoothed, point>>

FindDips ==
    /\ stage = "uniform"
    /\ Cardinality(Dips(y_uniform)) = 3
    /\ Finish(BetweenPoints("dips", Dips(y_uniform), Span(detections)))
    /\ UNCHANGED <<y_uniform, y_smoothed>>

Smooth ==
    /\ stage = "uniform"
    /\ Cardinality(Dips(y_uniform)) # 3
    /\ stage' = "smoothed"
    /\ y_smoothed' = Filtfilt(y_uniform)
    /\ UNCHANGED <<detections, y_uniform, point>>

FindTwoPeaks ==
    /\ stage = "smoothed"
    /\ Cardinality(Peaks(y_smoothed)) = 2
    /\ Finish(BetweenPoints("peaks", Peaks(y_smoothed), Span(detections)))
    /\ UNCHANGED <<y_uniform, y_smoothed>>

FindCrossings ==
    /\ stage = "smoothed"
    /\ Cardinality(Peaks(y_smoothed)) # 2
    /\ Finish(BetweenCrossings(y_smoothed, Span(detections)))
    /\ UNCHANGED <<y_uniform, y_smoothed>>

\* identify_passings erases the deque, or drops what has too few hits.
EraseDeque ==
    /\ \/ stage = "done"
       \/ stage = "open" /\ Len(detections) \in 1..(HitLimit - 1)
    /\ stage' = "open" /\ detections' = <<>>
    /\ y_uniform' = Flat /\ y_smoothed' = Flat /\ point' = NoPoint

Next ==
    \/ \E gap \in Gaps, rssi \in Levels : Detect(gap, rssi)
    \/ CreateFew
    \/ CreateMany
    \/ FindDips
    \/ Smooth
    \/ FindTwoPeaks
    \/ FindCrossings
    \/ EraseDeque

Spec == Init /\ [][Next]_vars

----------------------------------------------------------------------------
\* Types of every variable.
TypeOK ==
    /\ stage \in {"open", "uniform", "smoothed", "done"}
    /\ Len(detections) =< MaxHits
    /\ DOMAIN y_uniform = Points /\ DOMAIN y_smoothed = Points
    /\ point.by \in {"none", "weighted", "dips", "peaks", "crossings"}
    /\ point.center \in Nat /\ point.timestamp \in Nat /\ point.duration \in Nat

\* What the steps rest on: the timecodes of a passing ascend, and the waveforms
\* are numbers on every point of the grid.
WaveInv ==
    /\ detections \in Seq([timecode : Nat, rssi : Levels])
    /\ \A i, j \in 1..Len(detections) :
         i < j => detections[i].timecode < detections[j].timecode
    /\ stage \in {"uniform", "smoothed"} =>
         Len(detections) >= FewHits /\ \A k \in Points : y_uniform[k] \in Int
    /\ stage = "smoothed" => \A k \in Points : y_smoothed[k] \in Int

\* The time of a passing lies between its first and its last detection, and
\* so do the begin and the end of it that its duration stands for, whichever
\* way it was found.
PointInside ==
    stage = "done" =>
      /\ point.timestamp - point.duration \div 2 >= 0
      /\ point.timestamp + point.duration \div 2 =< ToUsec(Span(detections))

\* Two dips, or two peaks, that count are two: between them the waveform
\* falls by the prominence below the lower one (unless they are exactly as
\* high, then a flat valley will do).
ValleyBetween(y, peaks, prominence) ==
    \A p, q \in peaks :
      p < q /\ y[p] # y[q] =>
        \E m \in p..q : y[m] =< Min({y[p], y[q]}) - prominence

PeaksApart ==
    /\ stage = "uniform" =>
         ValleyBetween(Negated(y_uniform), Dips(y_uniform), DipProminence * Fine)
    /\ stage = "smoothed" =>
         ValleyBetween(y_smoothed, Peaks(y_smoothed), PeakProminence * Fine * Gain)

\* The same passing in the opposite direction.
Reversed(y) == [k \in Points |-> y[Grid - k]]

ReversedDetections ==
    [i \in 1..Len(detections) |->
       LET j == Len(detections) + 1 - i
       IN  [timecode |-> Span(detections) - Offset(detections, j),
            rssi |-> detections[j].rssi]]

ReversedPoint ==
    LET y == Reversed(y_uniform)
        z == Reversed(y_smoothed)
        span == Span(detections)
    IN  CASE point.by = "weighted" -> WeightedPassing(ReversedDetections)
          [] point.by = "dips" -> BetweenPoints("dips", Dips(y), span)
          [] point.by = "peaks" -> BetweenPoints("peaks", Peaks(z), span)
          [] point.by = "crossings" -> BetweenCrossings(z, span)

\* Point 0 of the grid makes no difference to the prominence of a peak, or to
\* where the waveform was last near its maximum.
LeftScanToEdge(y, k) == {j \in 0..k : \A i \in (j + 1)..k : y[i] =< y[k]}

SeenToEdge(y) ==
    \A k \in LocalMaxima(y) : Lowest(y, LeftScan(y, k)) = Lowest(y, LeftScanToEdge(y, k))

EdgeIsPlain(y) == SeenToEdge(y) /\ \E i \in 1..Grid : y[i] >= SixBelow(y)

WaveformIsPlain ==
    /\ \A y \in {y_uniform, Reversed(y_uniform)} : SeenToEdge(Negated(y))
    /\ \A y \in {y_smoothed, Reversed(y_smoothed)} : EdgeIsPlain(y)

\* A car that crosses the loop in the opposite direction is timed at the
\* mirrored point, by the same rule, up to the rounding of the offsets (where
\* the first point of the grid is not decisive: LeftScan and LastCrossing
\* leave it out).
Rounding == 4
Mirrored ==
    stage = "done" /\ WaveformIsPlain =>
      /\ point.center + ReversedPoint.center - Span(detections) \in -Rounding..Rounding
      /\ ReversedPoint.duration = point.duration
      /\ point.by \in {"dips", "peaks", "crossings"} =>
           (point.by = "dips" <=> Cardinality(Dips(Reversed(y_uniform))) = 3)
      /\ point.by \in {"peaks", "crossings"} =>
           (point.by = "peaks" <=> Cardinality(Peaks(Reversed(y_smoothed))) = 2)
============================================================================
