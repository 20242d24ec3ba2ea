---------------------------- MODULE FrameReader ----------------------------
(***************************************************************************)
(* The receiver thread's loop over the radio's samples (detect_frames,     *)
(* src/commons.cpp, and SymbolReader, src/frame.cpp): it looks for a       *)
(* preamble symbol by symbol, waits for the trailing symbols the equalizer *)
(* needs, reads the preamble again from before, and then the payload.      *)
(* Samples come in buffers of any length; a preamble that began in the     *)
(* buffer before is read from a reserve of its last samples; a buffer      *)
(* shorter than the reserve is dropped.  Samples at the end of a buffer    *)
(* that do not fill a symbol are skipped by the loop, and kept in the      *)
(* reserve.                                                                *)
(*                                                                         *)
(* A sample is its position in the stream, from 1; 0 is what the reserve   *)
(* holds before the first buffer.  A symbol is named by its first sample.  *)
(***************************************************************************)
EXTENDS Integers, Sequences, FiniteSets

CONSTANTS
    SamplesPerSymbol,
    PreambleLength,   \* 16 symbols
    FseqHalflen,      \* fseq_halflen: lead and trailing symbols of the equalizer
    PayloadSizes,     \* symbols of payload, by protocol
    BufferSizes,      \* lengths of buffers, in samples
    StatsThreshold,   \* STATS_UPDATE_THRESHOLD, in symbols
    MaxSamples        \* bound: the radio stops after about this many samples

PreambleSymbols == PreambleLength + 2 * FseqHalflen   \* preamble_symbol_count
FseqSyms == 2 * FseqHalflen + 1
Reserve == PreambleSymbols * SamplesPerSymbol         \* reserve_buffer_size

ASSUME SymbolAssumption ==
    /\ SamplesPerSymbol \in Nat \ {0} /\ PreambleLength \in Nat \ {0}
    /\ FseqHalflen \in Nat \ {0}
ASSUME SizeAssumption ==
    /\ PayloadSizes \subseteq Nat /\ StatsThreshold \in Nat /\ MaxSamples \in Nat
    /\ BufferSizes \subseteq Nat
\* A frame is longer than twice the preamble (transponder.hpp: 16 of 96 symbols).
ASSUME PayloadAssumption ==
    \A payload \in PayloadSizes : PreambleLength =< payload + FseqSyms + 1

VARIABLES
    frame_parse_mode,  \* FRAME_SEEK, FRAME_WAIT or FRAME_FOUND
    pending_trail,     \* trailing symbols still to wait for
    frame,             \* the frame being read: its timecode, payload size and
                       \* the symbols read so far
    reserve_buffer,    \* the last samples of the last buffer kept
    timecode,          \* samples counted so far
    buffer,            \* the buffer at work: its first sample, length, idx, and
                       \* whether a frame was detected in it
    delivered,         \* external: samples the radio delivered
    noise,             \* s1, s2, n of the detector: the symbols counted in them
    seen,              \* history: the symbols looked at since startup
    skipped            \* history: samples skipped at the end of the buffer that
                       \* the reserve is from, and of the reserve that the
                       \* preamble of the frame was read from

vars == <<frame_parse_mode, pending_trail, frame, reserve_buffer, timecode,
          buffer, delivered, noise, seen, skipped>>

NoFrame == [timecode |-> 0, payload |-> 0, symbols |-> <<>>]
NoBuffer == [busy |-> FALSE, first |-> 0, count |-> 0, idx |-> 0,
             detected |-> FALSE]

----------------------------------------------------------------------------
(* Reading samples.                                                        *)

\* Where the i-th symbol of the preamble begins in the buffer, if the last of
\* them ends before index end; below 0 it is in the reserve.
SampleIdxShort(end, i) == end - (PreambleSymbols - 1 - i) * SamplesPerSymbol
SampleIdx(end, i) == end - (PreambleSymbols - i) * SamplesPerSymbol

SampleAt(idx) ==
    IF idx < 0 THEN reserve_buffer[idx + Reserve + 1] ELSE buffer.first + idx

\* train_preamble and read_preamble.
Preamble(end) ==
    [i \in 1..PreambleSymbols |-> SampleAt(SampleIdx(end, i - 1))]

\* update_reserve_buffer
ReserveKept(b) == reserve_buffer
ReserveOf(b) == [i \in 1..Reserve |-> b.first + b.count - Reserve + i - 1]

IsFrameCompleteLate(f) ==
    Len(f.symbols) > PreambleLength + f.payload + FseqSyms + 1
IsFrameCompleteEarly(f) ==
    Len(f.symbols) > PreambleLength + f.payload
IsFrameComplete(f) ==
    Len(f.symbols) > PreambleLength + f.payload + FseqSyms

\* preamble_pos looks for the preamble in the first SofBits soft bits and finds
\* it where the delay of the equalizer puts it: soft bit i is of symbol
\* i - FseqHalflen, and the preamble has FseqHalflen lead symbols.
SofBits == 2 * PreambleLength
PreamblePos == 2 * FseqHalflen

\* Frame::bits: with the preamble at pos, is there a whole payload after it?
HasBits(f, pos) ==
    /\ Len(f.symbols) >= SofBits
    /\ Len(f.symbols) >= pos + PreambleLength + f.payload

\* A buffer in which a frame was detected does not count as noise.
MayPublishAlways == TRUE
MayPublish == ~buffer.detected
Publishes == MayPublish /\ Cardinality(noise) > StatsThreshold

NeverTooSmall(n) == FALSE
TooSmall(n) == n < Reserve

HasSymbol == buffer.busy /\ buffer.idx + SamplesPerSymbol =< buffer.count
Here == buffer.first + buffer.idx
EndOfSymbol == buffer.idx + SamplesPerSymbol

NextSymbol(detected) ==
    /\ buffer' = [buffer EXCEPT !.idx = @ + SamplesPerSymbol, !.detected = detected]
    /\ seen' = Append(seen, Here)
    /\ UNCHANGED <<timecode, delivered, reserve_buffer>>

----------------------------------------------------------------------------
Init ==
    /\ frame_parse_mode = "FRAME_SEEK"
    /\ pending_trail = 0
    /\ frame = NoFrame
    /\ reserve_buffer = [i \in 1..Reserve |-> 0]
    /\ timecode = 0
    /\ buffer = NoBuffer
    /\ delivered = 0
    /\ noise = {}
    /\ seen = <<>>
    /\ skipped = [reserve |-> 0, frame |-> 0]

\* The radio delivers the next n samples.  Too few of them are only counted.
TimecodeKept(n) == timecode
TimecodeAfter(n) == timecode + n

Deliver(n) ==
    /\ ~buffer.busy
    /\ delivered < MaxSamples
    /\ delivered' = delivered + n
    /\ IF TooSmall(n)
       THEN /\ timecode' = TimecodeAfter(n)
            /\ UNCHANGED buffer
       ELSE /\ buffer' = [busy |-> TRUE, first |-> delivered + 1, count |-> n, idx |-> 0,
                           detected |-> FALSE]
            /\ UNCHANGED timecode
    /\ UNCHANGED <<frame_parse_mode, pending_trail, frame, reserve_buffer, noise, seen,
                   skipped>>

\* process_baseband finds no preamble in this symbol ...
SeekNothing ==
    /\ HasSymbol /\ frame_parse_mode = "FRAME_SEEK"
    /\ noise' = noise \cup {Here}
    /\ NextSymbol(buffer.detected)
    /\ UNCHANGED <<frame_parse_mode, pending_trail, frame, skipped>>

\* ... or the end of one.
SeekDetected(payload) ==
    /\ HasSymbol /\ frame_parse_mode = "FRAME_SEEK"
    /\ frame_parse_mode' = "FRAME_WAIT"
    /\ pending_trail' = FseqHalflen
    /\ frame' = [timecode |-> timecode + buffer.idx, payload |-> payload,
                 symbols |-> <<>>]
    /\ noise' = noise \cup {Here}
    /\ NextSymbol(TRUE)
    /\ UNCHANGED skipped

WaitTrail ==
    /\ HasSymbol /\ frame_parse_mode = "FRAME_WAIT"
    /\ pending_trail' = pending_trail - 1
    /\ IF pending_trail' = 0
       THEN /\ frame' = [frame EXCEPT !.symbols = Preamble(EndOfSymbol)]
            /\ frame_parse_mode' = "FRAME_FOUND"
            /\ skipped' = [skipped EXCEPT !.frame = skipped.reserve]
       ELSE UNCHANGED <<frame, frame_parse_mode, skipped>>
    /\ NextSymbol(buffer.detected)
    /\ UNCHANGED noise

ReadSymbol ==
    /\ HasSymbol /\ frame_parse_mode = "FRAME_FOUND"
    /\ frame' = [frame EXCEPT !.symbols = Append(@, Here)]
    /\ frame_parse_mode' =
         IF IsFrameComplete(frame') THEN "FRAME_SEEK" ELSE "FRAME_FOUND"
    /\ NextSymbol(buffer.detected)
    /\ UNCHANGED <<pending_trail, noise, skipped>>

\* The buffer is used up: the reserve is taken from it, and the statistics are
\* published or, after a frame, forgotten.
BufferEnd ==
    /\ buffer.busy /\ ~HasSymbol
    /\ timecode' = TimecodeAfter(buffer.count)
    /\ reserve_buffer' = ReserveOf(buffer)
    /\ noise' = IF Publishes \/ buffer.detected THEN {} ELSE noise
    /\ buffer' = NoBuffer
    /\ skipped' = [skipped EXCEPT !.reserve = buffer.count - buffer.idx]
    /\ UNCHANGED <<frame_parse_mode, pending_trail, frame, delivered, seen>>

Next ==
    \/ \E n \in BufferSizes : Deliver(n)
    \/ SeekNothing
    \/ \E payload \in PayloadSizes : SeekDetected(payload)
    \/ WaitTrail
    \/ ReadSymbol
    \/ BufferEnd

Spec == Init /\ [][Next]_vars

----------------------------------------------------------------------------
\* Types of every variable.  A frame holds samples that were delivered and no
\* more symbols than its protocol asks for.
TypeOK ==
    /\ frame_parse_mode \in {"FRAME_SEEK", "FRAME_WAIT", "FRAME_FOUND"}
    /\ pending_trail \in 0..FseqHalflen
    /\ delivered \in Nat /\ timecode \in 0..delivered
    /\ frame \in [timecode : 0..delivered, payload : Nat, symbols : Seq(0..delivered)]
    /\ Len(frame.symbols) =< PreambleLength + frame.payload + FseqSyms + 1
    /\ reserve_buffer \in [1..Reserve -> 0..delivered]
    /\ buffer \in [busy : BOOLEAN, first : 0..delivered, count : Nat, idx : Nat,
                   detected : BOOLEAN]
    /\ buffer.idx =< buffer.count
    /\ noise \subseteq 1..delivered
    /\ seen \in Seq(1..delivered)
    /\ skipped \in [reserve : 0..(SamplesPerSymbol - 1), frame : 0..(SamplesPerSymbol - 1)]

\* Every read stays inside the buffer or the reserve, wherever in a buffer the
\* preamble ends and whatever length the buffer and the one before it have.
Inside(idx) ==
    IF idx < 0 THEN idx + Reserve >= 0 /\ idx + SamplesPerSymbol =< 0
    ELSE idx + SamplesPerSymbol =< buffer.count

InBounds ==
    /\ HasSymbol /\ frame_parse_mode = "FRAME_WAIT" =>
         \A i \in 0..(PreambleSymbols - 1) : Inside(SampleIdx(EndOfSymbol, i))
    /\ buffer.busy => buffer.count - Reserve >= 0

\* A frame is made of the symbols just before and after its detection, none
\* twice and none left out, also when preamble or payload span buffers: what is
\* read back from the reserve is what the detector matched.  Where the buffer
\* before was no whole number of symbols, the detector went on behind the
\* samples that were skipped, the reserve still holds them, and what is read from
\* it lies that many samples later than what was matched: less than a symbol.
FrameContiguous ==
    frame_parse_mode = "FRAME_FOUND" /\ Len(seen) >= Len(frame.symbols) =>
      \A i \in 1..Len(frame.symbols) :
        LET matched == seen[Len(seen) - Len(frame.symbols) + i]
        IN  frame.symbols[i] \in {matched, matched + skipped.frame}

\* A frame that is complete holds a whole payload, whatever the delay of the
\* equalizer: "this should be an exception" (frame.cpp:92) never happens to a
\* frame whose preamble is where it was detected.
PayloadFits ==
    frame_parse_mode = "FRAME_SEEK" /\ frame.symbols # <<>> =>
      HasBits(frame, PreamblePos)

\* The timecode of a frame is the position in the radio's stream of the symbol
\* it was detected at, dropped buffers and skipped samples included: the passing
\* detector measures passings with it.
TimecodeIsPosition ==
    frame_parse_mode = "FRAME_FOUND" =>
      LET since == Len(frame.symbols) - (PreambleSymbols - FseqHalflen)
      IN  since < Len(seen) /\ seen[Len(seen) - since] = frame.timecode + 1

EndsBefore(symbol, position) == symbol + SamplesPerSymbol =< position

\* "the received data messes with the noise/dc-offset calculation"
\* (commons.cpp:171): published statistics count no sample of a frame from its
\* detection on, also if the frame ends in a later buffer.
NoiseIsNoise ==
    Publishes /\ buffer.busy /\ ~HasSymbol =>
      \A i \in (PreambleSymbols - FseqHalflen)..Len(frame.symbols), s \in noise :
        EndsBefore(frame.symbols[i], s) \/ EndsBefore(s, frame.symbols[i])

\* What makes TypeOK and InBounds inductive: where the buffer lies in the
\* stream, that it is read in whole symbols, and how far a frame has come.
BufferInv ==
    /\ IF buffer.busy
       THEN /\ buffer.first = timecode + 1
            /\ buffer.count >= Reserve
            /\ timecode + buffer.count = delivered
       ELSE timecode = delivered
    /\ \E q \in 0..buffer.idx : buffer.idx = q * SamplesPerSymbol
    /\ frame_parse_mode = "FRAME_WAIT" => pending_trail >= 1
    /\ frame_parse_mode = "FRAME_FOUND" => ~IsFrameComplete(frame)

\* What makes PayloadFits inductive: a frame in progress is of a known protocol.
PayloadInv ==
    /\ frame_parse_mode # "FRAME_SEEK" => frame.payload \in PayloadSizes
    /\ PayloadFits

\* What makes FrameContiguous and TimecodeIsPosition inductive. Looking back
\* from here, over the buffer's edge into the reserve, finds what was seen, or
\* what lies behind it by what was skipped at the edge; a preamble waited for was
\* detected at its timecode; and a frame in progress ends with what was seen last.
Behind(idx) == IF idx < 0 THEN skipped.reserve ELSE 0

WindowInv ==
    /\ ~buffer.busy => buffer.idx = 0
    /\ \A j \in 1..PreambleSymbols :
         j =< Len(seen) =>
           SampleAt(buffer.idx - j * SamplesPerSymbol) =
             seen[Len(seen) + 1 - j] + Behind(buffer.idx - j * SamplesPerSymbol)

WaitInv ==
    frame_parse_mode = "FRAME_WAIT" =>
      LET back == FseqHalflen - pending_trail
      IN  back < Len(seen) /\ seen[Len(seen) - back] = frame.timecode + 1

FoundInv ==
    /\ frame_parse_mode = "FRAME_FOUND" => Len(frame.symbols) >= PreambleSymbols
    /\ TimecodeIsPosition
    /\ FrameContiguous

StreamInv == WindowInv /\ WaitInv /\ FoundInv

\* What makes NoiseIsNoise inductive: outside the buffer a frame was detected
\* in, what is counted came after all of its symbols.
NoiseInv ==
    /\ ~buffer.busy => buffer.idx = 0 /\ ~buffer.detected
    /\ \A i \in 1..Reserve : reserve_buffer[i] =< timecode
    /\ \A i \in 1..Len(frame.symbols) :
         EndsBefore(frame.symbols[i], timecode + buffer.idx + 1)
    /\ ~buffer.detected =>
         \A s \in noise :
           /\ frame_parse_mode = "FRAME_SEEK"
           /\ \A i \in 1..Len(frame.symbols) : EndsBefore(frame.symbols[i], s)
============================================================================
