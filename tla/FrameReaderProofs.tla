------------------------- MODULE FrameReaderProofs -------------------------
(* Proofs about FrameReader for every size of symbols, preamble, payloads  *)
(* and buffers.                                                            *)
EXTENDS FrameReader, SequenceTheorems, TLAPS

----------------------------------------------------------------------------
(* Arithmetic of symbols.                                                  *)

\* A multiple of a symbol below 0 is below it by a whole symbol.
LEMMA WholeSymbol ==
    ASSUME NEW k \in Int, NEW n \in Nat \ {0}, k * n < 0
    PROVE  k * n + n =< 0
<1>1. CASE k >= 0
  <2>1. k * n >= 0
    BY <1>1
  <2> QED BY <2>1
<1>2. CASE k < 0
  <2>1. -(k + 1) \in Nat
    BY <1>2
  <2>2. (-(k + 1)) * n >= 0
    BY <2>1
  <2>3. (-(k + 1)) * n = -(k * n + n)
    OBVIOUS
  <2> QED BY <2>2, <2>3
<1> QED BY <1>1, <1>2

LEMMA ReserveLemma ==
    /\ SamplesPerSymbol \in Nat \ {0} /\ PreambleLength \in Nat /\ FseqHalflen \in Nat \ {0}
    /\ PreambleSymbols \in Nat \ {0} /\ Reserve \in Nat \ {0}
    /\ Reserve = PreambleSymbols * SamplesPerSymbol
    /\ PreambleSymbols = PreambleLength + 2 * FseqHalflen
    /\ FseqSyms = 2 * FseqHalflen + 1
<1>1. PreambleSymbols \in Nat \ {0}
  BY SymbolAssumption DEF PreambleSymbols
<1>2. Reserve \in Nat \ {0}
  BY <1>1, SymbolAssumption DEF Reserve
<1> QED BY <1>1, <1>2, SymbolAssumption DEF PreambleSymbols, Reserve, FseqSyms

\* A function on 1..n is a sequence of length n.
LEMMA FunctionIsSeq ==
    ASSUME NEW n \in Nat, NEW S, NEW f \in [1..n -> S]
    PROVE  f \in Seq(S) /\ Len(f) = n
OBVIOUS

LEMMA SeqSubset ==
    ASSUME NEW S, NEW T, S \subseteq T, NEW f \in Seq(S)
    PROVE  f \in Seq(T)
OBVIOUS

LEMMA SeqElement ==
    ASSUME NEW S, NEW f \in Seq(S), NEW i \in 1..Len(f)
    PROVE  f[i] \in S
OBVIOUS

\* Where the i-th symbol of a preamble that ends at the end of symbol q
\* begins: within Reserve before the end, and a whole symbol.
LEMMA SampleIdxLemma ==
    ASSUME NEW end \in Nat, NEW q \in Nat, end = q * SamplesPerSymbol,
           NEW i \in 0..(PreambleSymbols - 1)
    PROVE  /\ SampleIdx(end, i) \in Int
           /\ SampleIdx(end, i) + Reserve >= 0
           /\ SampleIdx(end, i) + SamplesPerSymbol =< end
           /\ SampleIdx(end, i) < 0 => SampleIdx(end, i) + SamplesPerSymbol =< 0
<1> DEFINE S == SamplesPerSymbol
           d == PreambleSymbols - i
           k == q - d
<1>1. S \in Nat \ {0} /\ d \in Nat \ {0} /\ k \in Int /\ i \in Nat
  BY ReserveLemma
<1>2. SampleIdx(end, i) = end - d * S
  BY DEF SampleIdx
<1>3. d * S \in Nat /\ i * S \in Nat
  BY <1>1
<1>4. d * S + i * S = Reserve
  <2>1. d * S = PreambleSymbols * S - i * S
    BY ReserveLemma
  <2> QED BY <1>3, <2>1, ReserveLemma
<1>5. d * S >= S
  <2>1. (d - 1) * S >= 0
    BY <1>1
  <2>2. (d - 1) * S = d * S - S
    BY <1>1
  <2> QED BY <1>1, <1>3, <2>1, <2>2
<1>6. SampleIdx(end, i) = k * S
  BY <1>1, <1>2
<1>7. SampleIdx(end, i) < 0 => SampleIdx(end, i) + S =< 0
  BY <1>1, <1>6, WholeSymbol
<1> HIDE DEF S, d, k
<1>8. SampleIdx(end, i) \in Int /\ SampleIdx(end, i) + Reserve >= 0
      /\ SampleIdx(end, i) + S =< end
  BY <1>1, <1>2, <1>3, <1>4, <1>5
<1> QED BY <1>7, <1>8 DEF S

----------------------------------------------------------------------------
(* Reads.                                                                  *)

\* While the receiver waits for the trail of a preamble, its reads are inside.
LEMMA ReadsInside ==
    ASSUME TypeOK, BufferInv, HasSymbol, NEW i \in 0..(PreambleSymbols - 1)
    PROVE  Inside(SampleIdx(EndOfSymbol, i))
<1>1. PICK q \in 0..buffer.idx : buffer.idx = q * SamplesPerSymbol
  BY DEF BufferInv
<1>2. buffer.idx \in Nat /\ buffer.count \in Nat /\ q \in Nat
      /\ SamplesPerSymbol \in Nat /\ Reserve \in Nat
  BY ReserveLemma DEF TypeOK
<1>3. EndOfSymbol = (q + 1) * SamplesPerSymbol /\ EndOfSymbol \in Nat /\ q + 1 \in Nat
  BY <1>1, <1>2 DEF EndOfSymbol
<1>4. EndOfSymbol =< buffer.count
  BY DEF HasSymbol, EndOfSymbol
<1> DEFINE idx == SampleIdx(EndOfSymbol, i)
<1>5. /\ idx \in Int /\ idx + Reserve >= 0
      /\ idx + SamplesPerSymbol =< EndOfSymbol
      /\ idx < 0 => idx + SamplesPerSymbol =< 0
  BY <1>3, SampleIdxLemma
<1> HIDE DEF idx
<1>6. Inside(idx)
  BY <1>2, <1>3, <1>4, <1>5 DEF Inside
<1> QED BY <1>6 DEF idx

LEMMA InBoundsLemma == TypeOK /\ BufferInv => InBounds
<1> SUFFICES ASSUME TypeOK, BufferInv PROVE InBounds
  OBVIOUS
<1>1. buffer.busy => buffer.count - Reserve >= 0
  <2>1. buffer.count \in Nat /\ Reserve \in Nat
    BY ReserveLemma DEF TypeOK
  <2>2. buffer.busy => buffer.count >= Reserve
    BY DEF BufferInv
  <2> QED BY <2>1, <2>2
<1> QED BY <1>1, ReadsInside DEF InBounds

----------------------------------------------------------------------------
(* The invariant.                                                          *)

Inv == TypeOK /\ BufferInv

SkippedType ==
    skipped \in [reserve : 0..(SamplesPerSymbol - 1), frame : 0..(SamplesPerSymbol - 1)]

LEMMA InitInv == Init => Inv
<1> SUFFICES ASSUME Init PROVE Inv
  OBVIOUS
<1>1. frame.symbols = <<>> /\ Len(frame.symbols) = 0 /\ frame.payload = 0
  BY DEF Init, NoFrame
<1>2. frame \in [timecode : 0..0, payload : Nat, symbols : Seq(0..0)]
  BY DEF Init, NoFrame
<1>3. reserve_buffer \in [1..Reserve -> 0..0]
  BY DEF Init
<1>4. seen \in Seq(1..0)
  BY DEF Init
<1>5. buffer \in [busy : BOOLEAN, first : 0..0, count : Nat, idx : Nat, detected : BOOLEAN]
      /\ buffer.idx = 0 /\ buffer.count = 0 /\ ~buffer.busy
  BY DEF Init, NoBuffer
<1>9. SkippedType
  BY ReserveLemma DEF Init, SkippedType
<1>6. TypeOK
  BY <1>1, <1>2, <1>3, <1>4, <1>5, <1>9, ReserveLemma DEF Init, TypeOK, SkippedType
<1>7. 0 = 0 * SamplesPerSymbol /\ 0 \in 0..0
  BY ReserveLemma
<1>8. BufferInv
  BY <1>5, <1>7 DEF Init, BufferInv
<1> QED BY <1>6, <1>8 DEF Inv

\* What taking the next symbol does to the buffer, in every mode.
LEMMA NextSymbolLemma ==
    ASSUME Inv, HasSymbol, NEW d \in BOOLEAN, NextSymbol(d)
    PROVE  /\ buffer' \in [busy : BOOLEAN, first : 0..delivered, count : Nat,
                           idx : Nat, detected : BOOLEAN]
           /\ buffer'.idx =< buffer'.count
           /\ \E q \in 0..buffer'.idx : buffer'.idx = q * SamplesPerSymbol
           /\ buffer'.busy = buffer.busy /\ buffer'.first = buffer.first
           /\ buffer'.count = buffer.count
           /\ buffer'.idx = buffer.idx + SamplesPerSymbol
           /\ Here \in 1..delivered
           /\ seen' \in Seq(1..delivered)
           /\ UNCHANGED <<timecode, delivered, reserve_buffer>>
<1> DEFINE S == SamplesPerSymbol
<1>1. /\ buffer \in [busy : BOOLEAN, first : 0..delivered, count : Nat, idx : Nat,
                     detected : BOOLEAN]
      /\ timecode \in Nat /\ delivered \in Nat /\ seen \in Seq(1..delivered)
      /\ S \in Nat \ {0}
  BY ReserveLemma DEF Inv, TypeOK
<1>2. /\ buffer.busy /\ buffer.idx + S =< buffer.count
      /\ buffer.first = timecode + 1 /\ timecode + buffer.count = delivered
  BY DEF HasSymbol, Inv, BufferInv
<1>3. /\ buffer' = [buffer EXCEPT !.idx = @ + S, !.detected = d]
      /\ seen' = Append(seen, Here)
      /\ UNCHANGED <<timecode, delivered, reserve_buffer>>
  BY DEF NextSymbol
<1>4. Here \in 1..delivered
  BY <1>1, <1>2 DEF Here
<1>5. seen' \in Seq(1..delivered)
  BY <1>1, <1>3, <1>4
<1>6. /\ buffer' \in [busy : BOOLEAN, first : 0..delivered, count : Nat,
                      idx : Nat, detected : BOOLEAN]
      /\ buffer'.busy = buffer.busy /\ buffer'.first = buffer.first
      /\ buffer'.count = buffer.count /\ buffer'.idx = buffer.idx + S
  <2> DEFINE T == [busy : BOOLEAN, first : 0..delivered, count : Nat, idx : Nat,
                   detected : BOOLEAN]
             b == [buffer EXCEPT !.idx = @ + S]
  <2>1. S \in Nat /\ buffer \in T
    BY <1>1
  <2> HIDE DEF S
  <2>2. /\ b \in T /\ b.busy = buffer.busy /\ b.first = buffer.first
        /\ b.count = buffer.count /\ b.idx = buffer.idx + S
    BY <2>1
  <2>3. buffer' = [b EXCEPT !.detected = d]
    BY <1>3
  <2>4. ASSUME NEW c \in T
        PROVE  /\ [c EXCEPT !.detected = d] \in T
               /\ [c EXCEPT !.detected = d].busy = c.busy
               /\ [c EXCEPT !.detected = d].first = c.first
               /\ [c EXCEPT !.detected = d].count = c.count
               /\ [c EXCEPT !.detected = d].idx = c.idx
    OBVIOUS
  <2> HIDE DEF b, T
  <2> QED BY <2>2, <2>3, <2>4 DEF T
<1>7. PICK q \in 0..buffer.idx : buffer.idx = q * SamplesPerSymbol
  BY DEF Inv, BufferInv
<1>8. q \in Nat /\ q =< buffer.idx /\ (q + 1) * S = q * S + S
  BY <1>1, <1>7
<1>9. buffer'.idx = (q + 1) * S /\ q + 1 \in 0..buffer'.idx
  <2> HIDE DEF S
  <2>1. buffer.idx = q * S
    BY <1>7 DEF S
  <2>2. buffer'.idx = (q + 1) * S
    BY <1>6, <1>8, <2>1
  <2>3. buffer.idx \in Nat /\ buffer'.idx = buffer.idx + S
    BY <1>1, <1>6
  <2> QED BY <1>1, <1>8, <2>2, <2>3
<1> QED BY <1>1, <1>2, <1>3, <1>4, <1>5, <1>6, <1>9

\* The sample where a symbol of the preamble begins is a delivered one.
LEMMA PreambleType ==
    ASSUME Inv, HasSymbol
    PROVE  /\ Preamble(EndOfSymbol) \in Seq(0..delivered)
           /\ Len(Preamble(EndOfSymbol)) = PreambleSymbols
<1>1. /\ buffer.first = timecode + 1 /\ timecode + buffer.count = delivered
      /\ timecode \in Nat /\ delivered \in Nat /\ buffer.count \in Nat
      /\ reserve_buffer \in [1..Reserve -> 0..delivered]
  BY DEF Inv, TypeOK, BufferInv, HasSymbol
<1>2. ASSUME NEW i \in 1..PreambleSymbols
      PROVE  SampleAt(SampleIdx(EndOfSymbol, i - 1)) \in 0..delivered
  <2> DEFINE idx == SampleIdx(EndOfSymbol, i - 1)
  <2>1. i - 1 \in 0..(PreambleSymbols - 1)
    BY ReserveLemma
  <2>2. Inside(idx)
    BY <2>1, ReadsInside DEF Inv
  <2>3. PICK q \in 0..buffer.idx : buffer.idx = q * SamplesPerSymbol
    BY DEF Inv, BufferInv
  <2>4. EndOfSymbol = (q + 1) * SamplesPerSymbol /\ EndOfSymbol \in Nat /\ q + 1 \in Nat
    BY <2>3, ReserveLemma DEF EndOfSymbol, Inv, TypeOK
  <2>5. idx \in Int
    BY <2>1, <2>4, SampleIdxLemma
  <2> HIDE DEF idx
  <2>6. CASE idx < 0
    <3>1. idx + Reserve + 1 \in 1..Reserve
      BY <2>2, <2>5, <2>6, ReserveLemma DEF Inside
    <3> QED BY <1>1, <2>6, <3>1 DEF SampleAt, idx
  <2>7. CASE ~(idx < 0)
    <3>1. idx + SamplesPerSymbol =< buffer.count
      BY <2>2, <2>7 DEF Inside
    <3>2. buffer.first + idx \in 0..delivered
      BY <1>1, <2>5, <2>7, <3>1, ReserveLemma
    <3> QED BY <2>7, <3>2 DEF SampleAt, idx
  <2> QED BY <2>6, <2>7
<1>3. Preamble(EndOfSymbol) \in [1..PreambleSymbols -> 0..delivered]
  BY <1>2 DEF Preamble
<1>4. PreambleSymbols \in Nat
  BY ReserveLemma
<1> HIDE DEF Preamble
<1> QED BY <1>3, <1>4, FunctionIsSeq

\* Where nothing but the buffer's position, what is seen and the frame being
\* read change, this is left to show.
LEMMA SymbolStep ==
    ASSUME Inv, HasSymbol, NEW d \in BOOLEAN, NextSymbol(d),
           frame_parse_mode' \in {"FRAME_SEEK", "FRAME_WAIT", "FRAME_FOUND"},
           pending_trail' \in 0..FseqHalflen,
           frame' \in [timecode : 0..delivered, payload : Nat, symbols : Seq(0..delivered)],
           Len(frame'.symbols) =< PreambleLength + frame'.payload + FseqSyms + 1,
           noise' \subseteq 1..delivered, SkippedType',
           frame_parse_mode' = "FRAME_WAIT" => pending_trail' >= 1,
           frame_parse_mode' = "FRAME_FOUND" => ~IsFrameComplete(frame')
    PROVE  Inv'
<1>1. /\ buffer' \in [busy : BOOLEAN, first : 0..delivered, count : Nat,
                      idx : Nat, detected : BOOLEAN]
      /\ buffer'.idx =< buffer'.count
      /\ \E q \in 0..buffer'.idx : buffer'.idx = q * SamplesPerSymbol
      /\ buffer'.busy = buffer.busy /\ buffer'.first = buffer.first
      /\ buffer'.count = buffer.count
      /\ seen' \in Seq(1..delivered)
      /\ timecode' = timecode /\ delivered' = delivered
      /\ reserve_buffer' = reserve_buffer
  BY NextSymbolLemma
<1>2. TypeOK'
  <2>1. delivered \in Nat /\ timecode \in 0..delivered
        /\ reserve_buffer \in [1..Reserve -> 0..delivered]
    BY DEF Inv, TypeOK
  <2> QED BY <1>1, <2>1 DEF TypeOK, SkippedType
<1>3. BufferInv'
  BY <1>1 DEF Inv, BufferInv, IsFrameComplete
<1> QED BY <1>2, <1>3 DEF Inv

LEMMA SeekStep ==
    ASSUME Inv
    PROVE  /\ SeekNothing => Inv'
           /\ \A payload \in PayloadSizes : SeekDetected(payload) => Inv'
<1>1. /\ frame \in [timecode : 0..delivered, payload : Nat, symbols : Seq(0..delivered)]
      /\ Len(frame.symbols) =< PreambleLength + frame.payload + FseqSyms + 1
      /\ delivered \in Nat /\ timecode \in Nat /\ noise \subseteq 1..delivered
      /\ buffer.detected \in BOOLEAN /\ buffer.idx \in Nat /\ buffer.count \in Nat
      /\ pending_trail \in 0..FseqHalflen /\ SkippedType
  BY DEF Inv, TypeOK, SkippedType
<1>2. ASSUME SeekNothing PROVE Inv'
  <2>1. HasSymbol /\ NextSymbol(buffer.detected)
    BY <1>2 DEF SeekNothing
  <2>2. Here \in 1..delivered
    BY <1>1, <2>1, NextSymbolLemma
  <2>3. /\ frame_parse_mode' = "FRAME_SEEK" /\ frame' = frame
        /\ pending_trail' = pending_trail /\ noise' = noise \cup {Here}
    BY <1>2 DEF SeekNothing
  <2>4. noise' \subseteq 1..delivered
    BY <1>1, <2>2, <2>3
  <2>5. SkippedType'
    BY <1>1, <1>2 DEF SeekNothing, SkippedType
  <2> QED BY <1>1, <2>1, <2>3, <2>4, <2>5, SymbolStep
<1>3. ASSUME NEW payload \in PayloadSizes, SeekDetected(payload) PROVE Inv'
  <2>1. HasSymbol /\ NextSymbol(TRUE)
    BY <1>3 DEF SeekDetected
  <2>2. Here \in 1..delivered
    BY <2>1, NextSymbolLemma
  <2>3. timecode + buffer.idx \in 0..delivered
    <3>1. timecode + buffer.count = delivered
      BY <2>1 DEF HasSymbol, Inv, BufferInv
    <3>2. buffer.idx + SamplesPerSymbol =< buffer.count
      BY <2>1 DEF HasSymbol
    <3>3. SamplesPerSymbol \in Nat
      BY ReserveLemma
    <3>4. ASSUME NEW t \in Nat, NEW i \in Nat, NEW c \in Nat, NEW s \in Nat,
                 NEW d \in Nat, t + c = d, i + s =< c
          PROVE  t + i \in 0..d
      BY <3>4
    <3> QED BY <1>1, <3>1, <3>2, <3>3, <3>4
  <2>4. payload \in Nat
    BY SizeAssumption
  <2>5. <<>> \in Seq(0..delivered) /\ Len(<<>>) = 0
    OBVIOUS
  <2>6. frame' = [timecode |-> timecode + buffer.idx, payload |-> payload,
                  symbols |-> <<>>]
    BY <1>3 DEF SeekDetected
  <2>7. /\ frame' \in [timecode : 0..delivered, payload : Nat, symbols : Seq(0..delivered)]
        /\ Len(frame'.symbols) = 0 /\ frame'.payload = payload
    BY <2>3, <2>4, <2>5, <2>6
  <2>8. Len(frame'.symbols) =< PreambleLength + frame'.payload + FseqSyms + 1
    BY <2>4, <2>7, ReserveLemma
  <2>9. /\ frame_parse_mode' = "FRAME_WAIT" /\ pending_trail' = FseqHalflen
        /\ noise' = noise \cup {Here}
    BY <1>3 DEF SeekDetected
  <2>10. noise' \subseteq 1..delivered
    BY <1>1, <2>2, <2>9
  <2>11. pending_trail' \in 0..FseqHalflen /\ pending_trail' >= 1
    BY <2>9, ReserveLemma
  <2>12. SkippedType'
    BY <1>1, <1>3 DEF SeekDetected, SkippedType
  <2> QED BY <2>1, <2>7, <2>8, <2>9, <2>10, <2>11, <2>12, SymbolStep
<1> QED BY <1>2, <1>3

LEMMA WaitStep == ASSUME Inv, WaitTrail PROVE Inv'
<1>1. /\ frame \in [timecode : 0..delivered, payload : Nat, symbols : Seq(0..delivered)]
      /\ Len(frame.symbols) =< PreambleLength + frame.payload + FseqSyms + 1
      /\ noise \subseteq 1..delivered /\ buffer.detected \in BOOLEAN
      /\ pending_trail \in 1..FseqHalflen /\ SkippedType
  BY ReserveLemma DEF Inv, TypeOK, BufferInv, WaitTrail, SkippedType
<1>2. /\ HasSymbol /\ NextSymbol(buffer.detected) /\ noise' = noise
      /\ pending_trail' = pending_trail - 1
  BY DEF WaitTrail
<1>3. pending_trail' \in 0..FseqHalflen
  BY <1>1, <1>2, ReserveLemma
<1>4. CASE pending_trail' = 0
  <2> DEFINE p == Preamble(EndOfSymbol)
  <2>1. p \in Seq(0..delivered) /\ Len(p) = PreambleSymbols
    BY <1>2, PreambleType
  <2>2. frame' = [frame EXCEPT !.symbols = p] /\ frame_parse_mode' = "FRAME_FOUND"
    BY <1>4 DEF WaitTrail
  <2> HIDE DEF p
  <2>3. /\ frame' \in [timecode : 0..delivered, payload : Nat, symbols : Seq(0..delivered)]
        /\ frame'.symbols = p /\ frame'.payload = frame.payload /\ frame.payload \in Nat
    BY <1>1, <2>1, <2>2
  <2>4. /\ Len(frame'.symbols) =< PreambleLength + frame'.payload + FseqSyms + 1
        /\ ~IsFrameComplete(frame')
    BY <2>1, <2>3, ReserveLemma DEF IsFrameComplete
  <2>5. SkippedType'
    BY <1>1, <1>4 DEF WaitTrail, SkippedType
  <2> QED BY <1>1, <1>2, <1>3, <2>2, <2>3, <2>4, <2>5, SymbolStep
<1>5. CASE pending_trail' # 0
  <2>1. frame' = frame /\ frame_parse_mode' = "FRAME_WAIT"
    BY <1>5 DEF WaitTrail
  <2>2. pending_trail' >= 1
    BY <1>3, <1>5, ReserveLemma
  <2>3. SkippedType'
    BY <1>1, <1>5 DEF WaitTrail, SkippedType
  <2> QED BY <1>1, <1>2, <1>3, <2>1, <2>2, <2>3, SymbolStep
<1> QED BY <1>4, <1>5

LEMMA ReadStep == ASSUME Inv, ReadSymbol PROVE Inv'
<1>1. /\ frame \in [timecode : 0..delivered, payload : Nat, symbols : Seq(0..delivered)]
      /\ noise \subseteq 1..delivered /\ buffer.detected \in BOOLEAN
      /\ pending_trail \in 0..FseqHalflen /\ delivered \in Nat
      /\ ~IsFrameComplete(frame)
  BY DEF Inv, TypeOK, BufferInv, ReadSymbol
<1>2. /\ HasSymbol /\ NextSymbol(buffer.detected) /\ noise' = noise
      /\ pending_trail' = pending_trail
      /\ frame' = [frame EXCEPT !.symbols = Append(@, Here)]
      /\ frame_parse_mode' = IF IsFrameComplete(frame') THEN "FRAME_SEEK" ELSE "FRAME_FOUND"
  BY DEF ReadSymbol
<1>3. Here \in 0..delivered
  <2>1. Here \in 1..delivered
    BY <1>1, <1>2, NextSymbolLemma
  <2> QED BY <1>1, <2>1
<1>4. /\ frame.symbols \in Seq(0..delivered) /\ frame.payload \in Nat
      /\ Append(frame.symbols, Here) \in Seq(0..delivered)
      /\ Len(Append(frame.symbols, Here)) = Len(frame.symbols) + 1
      /\ Len(frame.symbols) \in Nat
  BY <1>1, <1>3
<1>5. /\ frame' \in [timecode : 0..delivered, payload : Nat, symbols : Seq(0..delivered)]
      /\ frame'.symbols = Append(frame.symbols, Here) /\ frame'.payload = frame.payload
  BY <1>1, <1>2, <1>4
<1>6. Len(frame'.symbols) =< PreambleLength + frame'.payload + FseqSyms + 1
  <2>1. Len(frame.symbols) =< PreambleLength + frame.payload + FseqSyms
    BY <1>1, <1>4, ReserveLemma DEF IsFrameComplete
  <2> QED BY <1>4, <1>5, <2>1, ReserveLemma
<1>7. /\ frame_parse_mode' \in {"FRAME_SEEK", "FRAME_WAIT", "FRAME_FOUND"}
      /\ frame_parse_mode' # "FRAME_WAIT"
      /\ frame_parse_mode' = "FRAME_FOUND" => ~IsFrameComplete(frame')
  BY <1>2
<1>8. SkippedType'
  BY DEF ReadSymbol, Inv, TypeOK, SkippedType
<1> QED BY <1>1, <1>2, <1>5, <1>6, <1>7, <1>8, SymbolStep

LEMMA DeliverStep ==
    ASSUME Inv, NEW n \in BufferSizes, Deliver(n)
    PROVE  Inv'
<1>1. n \in Nat /\ Reserve \in Nat \ {0}
  BY SizeAssumption, ReserveLemma
<1>2. /\ delivered \in Nat /\ timecode = delivered /\ ~buffer.busy
      /\ delivered' = delivered + n
      /\ UNCHANGED <<frame_parse_mode, pending_trail, frame, reserve_buffer, noise, seen,
                     skipped>>
  BY DEF Deliver, Inv, TypeOK, BufferInv
<1>3. /\ timecode' = IF n < Reserve THEN delivered + n ELSE delivered
      /\ buffer' = IF n < Reserve THEN buffer
                   ELSE [busy |-> TRUE, first |-> delivered + 1, count |-> n, idx |-> 0,
                         detected |-> FALSE]
  BY <1>2 DEF Deliver, TooSmall, TimecodeAfter
<1>4. 0..delivered \subseteq 0..delivered' /\ 1..delivered \subseteq 1..delivered'
      /\ delivered' \in Nat /\ timecode' \in 0..delivered'
  BY <1>1, <1>2, <1>3
<1>5. buffer' \in [busy : BOOLEAN, first : 0..delivered', count : Nat, idx : Nat,
                   detected : BOOLEAN]
      /\ buffer'.idx =< buffer'.count
  <2>1. CASE n < Reserve
    <3>1. buffer' = buffer
      BY <1>3, <2>1
    <3>2. buffer \in [busy : BOOLEAN, first : 0..delivered, count : Nat, idx : Nat,
                      detected : BOOLEAN] /\ buffer.idx =< buffer.count
      BY DEF Inv, TypeOK
    <3> QED BY <1>4, <3>1, <3>2
  <2>2. CASE ~(n < Reserve)
    <3>1. delivered + 1 \in 0..delivered'
      BY <1>1, <1>2, <2>2
    <3> QED BY <1>1, <1>3, <2>2, <3>1
  <2> QED BY <2>1, <2>2
<1>6. frame' \in [timecode : 0..delivered', payload : Nat, symbols : Seq(0..delivered')]
  <2>1. frame \in [timecode : 0..delivered, payload : Nat, symbols : Seq(0..delivered)]
    BY DEF Inv, TypeOK
  <2>2. frame.symbols \in Seq(0..delivered')
    <3>1. frame.symbols \in Seq(0..delivered)
      BY <2>1
    <3> QED BY <1>4, <3>1, SeqSubset
  <2> QED BY <1>2, <1>4, <2>1, <2>2
<1>7. /\ reserve_buffer' \in [1..Reserve -> 0..delivered'] /\ noise' \subseteq 1..delivered'
      /\ seen' \in Seq(1..delivered')
  BY <1>2, <1>4 DEF Inv, TypeOK
<1>8. TypeOK'
  BY <1>2, <1>4, <1>5, <1>6, <1>7 DEF Inv, TypeOK
<1>9. BufferInv'
  <2>1. CASE n < Reserve
    BY <1>2, <1>3, <2>1 DEF Inv, BufferInv, IsFrameComplete
  <2>2. CASE ~(n < Reserve)
    <3>1. /\ buffer'.busy /\ buffer'.first = timecode' + 1 /\ buffer'.count >= Reserve
          /\ timecode' + buffer'.count = delivered' /\ buffer'.idx = 0
      BY <1>1, <1>2, <1>3, <2>2
    <3>2. 0 = 0 * SamplesPerSymbol /\ 0 \in 0..0
      BY ReserveLemma
    <3> QED BY <1>2, <3>1, <3>2 DEF Inv, BufferInv, IsFrameComplete
  <2> QED BY <2>1, <2>2
<1> QED BY <1>8, <1>9 DEF Inv

\* What a buffer without another symbol leaves over is less than one, and the
\* reserve's length of it was looked at.
LEMMA UsedUp ==
    ASSUME Inv, buffer.busy, ~HasSymbol
    PROVE  /\ buffer.count - buffer.idx \in 0..(SamplesPerSymbol - 1)
           /\ Reserve =< buffer.idx
<1> DEFINE S == SamplesPerSymbol
           P == PreambleSymbols
<1>1. PICK q \in 0..buffer.idx : buffer.idx = q * S
  BY DEF Inv, BufferInv
<1>2. /\ buffer.idx \in Nat /\ buffer.count \in Nat /\ buffer.idx =< buffer.count
      /\ S \in Nat \ {0} /\ P \in Nat /\ Reserve = P * S /\ Reserve \in Nat
      /\ Reserve =< buffer.count
  BY ReserveLemma DEF Inv, TypeOK, BufferInv
<1>3. ~(buffer.idx + S =< buffer.count)
  BY DEF HasSymbol
<1>4. q \in Nat /\ q - P \in Int
  BY <1>1, <1>2
<1>5. (q - P) * S = q * S - P * S
  BY <1>2, <1>4
<1> DEFINE rest == (q - P) * S
<1>6. rest \in Int /\ rest = buffer.idx - Reserve
  BY <1>1, <1>2, <1>4, <1>5
<1>7. rest < 0 => rest + S =< 0
  BY <1>2, <1>4, WholeSymbol
<1> HIDE DEF S, P, rest
<1>8. Reserve =< buffer.idx
  BY <1>2, <1>3, <1>6, <1>7
<1>9. buffer.count - buffer.idx \in 0..(S - 1)
  BY <1>2, <1>3
<1> QED BY <1>8, <1>9 DEF S

LEMMA BufferEndStep == ASSUME Inv, BufferEnd PROVE Inv'
<1>10. buffer.count - buffer.idx \in 0..(SamplesPerSymbol - 1)
  BY UsedUp DEF BufferEnd
<1>1. /\ buffer.busy /\ buffer.count >= Reserve /\ timecode + buffer.count = delivered
      /\ buffer.first = timecode + 1
      /\ timecode \in Nat /\ delivered \in Nat /\ buffer.count \in Nat
      /\ noise \subseteq 1..delivered /\ Reserve \in Nat \ {0}
  BY ReserveLemma DEF BufferEnd, Inv, TypeOK, BufferInv
<1>2. /\ timecode' = timecode + buffer.count
      /\ reserve_buffer' = ReserveOf(buffer)
      /\ noise' = IF Publishes \/ buffer.detected THEN {} ELSE noise
      /\ buffer' = NoBuffer
      /\ UNCHANGED <<frame_parse_mode, pending_trail, frame, delivered, seen>>
  BY DEF BufferEnd, TimecodeAfter
<1>3. reserve_buffer' \in [1..Reserve -> 0..delivered]
  <2>1. \A i \in 1..Reserve : buffer.first + buffer.count - Reserve + i - 1 \in 0..delivered
    BY <1>1
  <2> QED BY <1>2, <2>1 DEF ReserveOf
<1>4. noise' \subseteq 1..delivered
  BY <1>1, <1>2
<1>5. /\ buffer' \in [busy : BOOLEAN, first : 0..delivered, count : Nat, idx : Nat,
                      detected : BOOLEAN]
      /\ buffer'.idx = 0 /\ buffer'.count = 0 /\ ~buffer'.busy
  BY <1>1, <1>2 DEF NoBuffer
<1>6. timecode' = delivered /\ delivered' = delivered
  BY <1>1, <1>2
<1>7. TypeOK'
  <2>1. timecode' \in 0..delivered' /\ delivered' \in Nat /\ buffer'.idx =< buffer'.count
    BY <1>1, <1>5, <1>6
  <2>2. /\ frame' \in [timecode : 0..delivered', payload : Nat, symbols : Seq(0..delivered')]
        /\ Len(frame'.symbols) =< PreambleLength + frame'.payload + FseqSyms + 1
        /\ seen' \in Seq(1..delivered')
        /\ frame_parse_mode' \in {"FRAME_SEEK", "FRAME_WAIT", "FRAME_FOUND"}
        /\ pending_trail' \in 0..FseqHalflen
    BY <1>2, <1>6 DEF Inv, TypeOK
  <2>3. SkippedType'
    <3> DEFINE left == buffer.count - buffer.idx
    <3>1. skipped' = [skipped EXCEPT !.reserve = left] /\ SkippedType
      BY DEF BufferEnd, Inv, TypeOK, SkippedType
    <3>2. left \in 0..(SamplesPerSymbol - 1)
      BY <1>10
    <3> HIDE DEF left
    <3> QED BY <3>1, <3>2 DEF SkippedType
  <2> QED BY <1>3, <1>4, <1>5, <1>6, <2>1, <2>2, <2>3 DEF TypeOK, SkippedType
<1>8. 0 = 0 * SamplesPerSymbol /\ 0 \in 0..0
  BY ReserveLemma
<1>9. BufferInv'
  BY <1>2, <1>5, <1>6, <1>8 DEF Inv, BufferInv, IsFrameComplete
<1> QED BY <1>7, <1>9 DEF Inv

LEMMA NextInv == Inv /\ [Next]_vars => Inv'
<1> SUFFICES ASSUME Inv, [Next]_vars PROVE Inv'
  OBVIOUS
<1>1. ASSUME NEW n \in BufferSizes, Deliver(n) PROVE Inv'
  BY <1>1, DeliverStep
<1>2. SeekNothing \/ (\E payload \in PayloadSizes : SeekDetected(payload)) => Inv'
  BY SeekStep
<1>3. WaitTrail => Inv'
  BY WaitStep
<1>4. ReadSymbol => Inv'
  BY ReadStep
<1>5. BufferEnd => Inv'
  BY BufferEndStep
<1>6. CASE UNCHANGED vars
  BY <1>6 DEF vars, Inv, TypeOK, BufferInv, IsFrameComplete
<1> QED BY <1>1, <1>2, <1>3, <1>4, <1>5, <1>6 DEF Next

----------------------------------------------------------------------------
\* Every variable keeps its type: positions are delivered ones, and no frame
\* takes more symbols than its protocol asks for.
THEOREM TypeCorrect == Spec => []TypeOK
<1>1. Inv => TypeOK
  BY DEF Inv
<1> QED BY <1>1, InitInv, NextInv, PTL DEF Spec

\* No read of a sample is outside the buffer or the reserve, whatever lengths
\* the radio's buffers have and wherever in them a preamble ends.
THEOREM InBoundsCorrect == Spec => []InBounds
<1>1. Inv => InBounds
  BY InBoundsLemma DEF Inv
<1> QED BY <1>1, InitInv, NextInv, PTL DEF Spec

----------------------------------------------------------------------------
(* Payloads.                                                               *)

\* A complete frame of a protocol is long enough for its payload.
LEMMA CompleteFits ==
    ASSUME NEW f, f.payload \in PayloadSizes, f.symbols \in Seq(Int), IsFrameComplete(f)
    PROVE  HasBits(f, PreamblePos)
<1>1. /\ f.payload \in Nat /\ Len(f.symbols) \in Nat
      /\ PreambleLength =< f.payload + FseqSyms + 1
  <2>1. f.payload \in Nat
    BY SizeAssumption
  <2>2. PreambleLength =< f.payload + FseqSyms + 1
    BY PayloadAssumption, Zenon
  <2>3. Len(f.symbols) \in Nat
    OBVIOUS
  <2> QED BY <2>1, <2>2, <2>3
<1>2. Len(f.symbols) > PreambleLength + f.payload + FseqSyms
  BY DEF IsFrameComplete
<1> QED BY <1>1, <1>2, ReserveLemma DEF HasBits, PreamblePos, SofBits

LEMMA PayloadNext == Inv /\ PayloadInv /\ [Next]_vars => PayloadInv'
<1> SUFFICES ASSUME Inv, PayloadInv, [Next]_vars PROVE PayloadInv'
  OBVIOUS
<1>1. CASE UNCHANGED <<frame_parse_mode, frame>>
  BY <1>1 DEF PayloadInv, PayloadFits, HasBits
<1>2. ASSUME NEW payload \in PayloadSizes, SeekDetected(payload) PROVE PayloadInv'
  BY <1>2 DEF SeekDetected, PayloadInv, PayloadFits
<1>3. CASE WaitTrail
  <2>1. frame_parse_mode = "FRAME_WAIT" /\ frame_parse_mode' \in {"FRAME_WAIT", "FRAME_FOUND"}
    BY <1>3 DEF WaitTrail
  <2>2. frame' = frame \/ frame' = [frame EXCEPT !.symbols = Preamble(EndOfSymbol)]
    BY <1>3 DEF WaitTrail
  <2>3. frame'.payload = frame.payload
    BY <2>2 DEF Inv, TypeOK
  <2> QED BY <2>1, <2>3 DEF PayloadInv, PayloadFits
<1>4. CASE ReadSymbol
  <2>1. Inv'
    BY <1>4, ReadStep
  <2>2. frame'.symbols \in Seq(Int)
    <3>1. frame'.symbols \in Seq(0..delivered') /\ 0..delivered' \subseteq Int
      BY <2>1 DEF Inv, TypeOK
    <3> QED BY <3>1, SeqSubset
  <2>3. frame'.payload = frame.payload /\ frame.payload \in PayloadSizes
    BY <1>4 DEF ReadSymbol, Inv, TypeOK, PayloadInv
  <2>4. frame_parse_mode' = IF IsFrameComplete(frame') THEN "FRAME_SEEK" ELSE "FRAME_FOUND"
    BY <1>4 DEF ReadSymbol
  <2>5. frame_parse_mode' = "FRAME_SEEK" => HasBits(frame', PreamblePos)
    BY <2>2, <2>3, <2>4, CompleteFits
  <2>6. frame_parse_mode' = "FRAME_SEEK" => HasBits(frame, PreamblePos)'
    BY <2>5 DEF HasBits, PreamblePos
  <2> QED BY <2>3, <2>6 DEF PayloadInv, PayloadFits
<1>5. ASSUME NEW n \in BufferSizes, Deliver(n) PROVE PayloadInv'
  BY <1>1, <1>5 DEF Deliver
<1>6. SeekNothing \/ BufferEnd \/ UNCHANGED vars => PayloadInv'
  BY <1>1 DEF SeekNothing, BufferEnd, vars
<1> QED BY <1>2, <1>3, <1>4, <1>5, <1>6 DEF Next

\* A frame that is complete holds a whole payload, for any sizes of preamble,
\* payloads and equalizer under which a frame is longer than two preambles.
THEOREM PayloadFitsCorrect == Spec => []PayloadFits
<1>1. Init => PayloadInv
  BY DEF Init, NoFrame, PayloadInv, PayloadFits
<1>2. PayloadInv => PayloadFits
  BY DEF PayloadInv
<1> QED BY <1>1, <1>2, InitInv, NextInv, PayloadNext, PTL DEF Spec

----------------------------------------------------------------------------
(* The frames are what the radio sent: the symbols that were seen, at the  *)
(* position they were seen at.                                             *)

----------------------------------------------------------------------------
(* Arithmetic of buffers and looking back.                                 *)

\* j symbols back are at least one symbol and at most the reserve.
LEMMA BackLemma ==
    ASSUME NEW j \in 1..PreambleSymbols
    PROVE  /\ j * SamplesPerSymbol \in Nat
           /\ j * SamplesPerSymbol >= 1 /\ j * SamplesPerSymbol =< Reserve
           /\ j * SamplesPerSymbol = (j - 1) * SamplesPerSymbol + SamplesPerSymbol
<1> DEFINE S == SamplesPerSymbol
           rest == PreambleSymbols - j
<1>1. S \in Nat \ {0} /\ rest \in Nat /\ j \in Nat \ {0} /\ PreambleSymbols = j + rest
  BY ReserveLemma
<1>2. j * S \in Nat /\ rest * S \in Nat /\ (j - 1) * S \in Nat
  BY <1>1
<1>3. j * S = (j - 1) * S + S
  BY <1>1
<1>4. Reserve = j * S + rest * S
  <2>1. (j + rest) * S = j * S + rest * S
    BY <1>1
  <2> QED BY <1>1, <2>1, ReserveLemma
<1> HIDE DEF S, rest
<1>5. j * S >= 1 /\ j * S =< Reserve
  BY <1>1, <1>2, <1>3, <1>4
<1> QED BY <1>2, <1>3, <1>5 DEF S

----------------------------------------------------------------------------
(* The window of symbols that can be looked back at.                       *)

\* What WindowInv asks for j symbols back.
LookBack(j) ==
    SampleAt(buffer.idx - j * SamplesPerSymbol) =
      seen[Len(seen) + 1 - j] + Behind(buffer.idx - j * SamplesPerSymbol)

LEMMA WindowUnchanged ==
    ASSUME WindowInv, buffer' = buffer, reserve_buffer' = reserve_buffer, seen' = seen,
           skipped' = skipped
    PROVE  WindowInv'
BY DEF WindowInv, SampleAt, Behind

LEMMA WindowSymbol ==
    ASSUME Inv, WindowInv, HasSymbol, NEW d \in BOOLEAN, NextSymbol(d),
           skipped'.reserve = skipped.reserve
    PROVE  WindowInv'
<1> DEFINE S == SamplesPerSymbol
<1>1. /\ buffer'.busy = buffer.busy /\ buffer'.first = buffer.first
      /\ buffer'.count = buffer.count /\ buffer'.idx = buffer.idx + S
      /\ reserve_buffer' = reserve_buffer
  BY NextSymbolLemma
<1>2. /\ seen \in Seq(1..delivered) /\ Here \in Nat
      /\ seen' = Append(seen, Here) /\ buffer.busy
      /\ buffer.idx \in Nat /\ buffer.first \in Nat /\ S \in Nat \ {0}
  <2>1. Here \in 1..delivered
    BY NextSymbolLemma
  <2>2. seen \in Seq(1..delivered) /\ buffer.idx \in Nat /\ buffer.first \in Nat
    BY DEF Inv, TypeOK
  <2>3. Here \in Nat /\ Append(seen, Here) = seen'
    BY <2>1 DEF NextSymbol, Inv, TypeOK
  <2> QED BY <2>2, <2>3, ReserveLemma DEF NextSymbol, HasSymbol
<1>3. Len(seen) \in Nat /\ Len(seen') = Len(seen) + 1 /\ seen'[Len(seen) + 1] = Here
      /\ \A i \in 1..Len(seen) : seen'[i] = seen[i]
  BY <1>2
<1>4. ASSUME NEW j \in 1..PreambleSymbols, j =< Len(seen')
      PROVE  LookBack(j)'
  <2>1. /\ j * S \in Nat /\ j * S = (j - 1) * S + S /\ j \in Nat \ {0}
        /\ (j - 1) * S \in Nat
    BY <1>2, BackLemma
  <2> DEFINE x == buffer.idx - (j - 1) * S
  <2>2. buffer'.idx - j * S = x /\ x \in Int
    <3> HIDE DEF S
    <3> QED BY <1>1, <1>2, <2>1 DEF S
  <2>3. CASE j = 1
    <3>1. x = buffer.idx /\ Len(seen') + 1 - j = Len(seen) + 1
      BY <1>2, <1>3, <2>3
    <3>2. ~(buffer'.idx - j * S < 0)
          /\ buffer'.first + (buffer'.idx - j * S) = Here
      BY <1>1, <1>2, <2>2, <3>1 DEF Here
    <3>3. Here = Here + 0
      BY <1>2
    <3> HIDE DEF S, x
    <3> QED BY <1>3, <3>1, <3>2, <3>3 DEF LookBack, SampleAt, Behind, S
  <2>4. CASE j # 1
    <3>1. j - 1 \in 1..PreambleSymbols /\ j - 1 =< Len(seen)
      BY <1>3, <1>4, <2>4, ReserveLemma
    <3>2. SampleAt(x) = seen[Len(seen) + 1 - (j - 1)] + Behind(x)
      BY <3>1 DEF WindowInv
    <3>3. Len(seen) + 1 - (j - 1) = Len(seen') + 1 - j
          /\ Len(seen) + 1 - (j - 1) \in 1..Len(seen)
      BY <1>3, <2>1, <2>4, <3>1
    <3>4. SampleAt(x) = seen'[Len(seen') + 1 - j] + Behind(x)
      BY <1>3, <3>2, <3>3
    <3> HIDE DEF S, x
    <3> QED BY <1>1, <2>2, <3>4 DEF LookBack, SampleAt, Behind, S
  <2> QED BY <2>3, <2>4
<1> QED BY <1>1, <1>2, <1>4 DEF WindowInv, LookBack

LEMMA WindowDeliver ==
    ASSUME Inv, WindowInv, NEW n \in BufferSizes, Deliver(n)
    PROVE  WindowInv'
<1>1. CASE TooSmall(n)
  BY <1>1, WindowUnchanged DEF Deliver
<1>2. CASE ~TooSmall(n)
  <2>1. /\ buffer' = [busy |-> TRUE, first |-> delivered + 1, count |-> n, idx |-> 0,
                      detected |-> FALSE]
        /\ reserve_buffer' = reserve_buffer /\ seen' = seen /\ buffer.idx = 0
        /\ skipped' = skipped
    BY <1>2 DEF Deliver, WindowInv
  <2>2. buffer'.busy /\ buffer'.idx = 0
    BY <2>1
  <2>3. ASSUME NEW j \in 1..PreambleSymbols, j =< Len(seen')
        PROVE  LookBack(j)'
    <3>1. SampleAt(0 - j * SamplesPerSymbol) =
            seen'[Len(seen') + 1 - j] + Behind(0 - j * SamplesPerSymbol)
      BY <2>1, <2>3 DEF WindowInv
    <3>2. 0 - j * SamplesPerSymbol < 0
      BY BackLemma
    <3> QED BY <2>1, <2>2, <3>1, <3>2 DEF LookBack, SampleAt, Behind
  <2> QED BY <2>2, <2>3 DEF WindowInv, LookBack
<1> QED BY <1>1, <1>2

\* The reserve keeps what was skipped: what was seen lies that much before it.
LEMMA WindowBufferEnd ==
    ASSUME Inv, WindowInv, BufferEnd
    PROVE  WindowInv'
<1>1. /\ buffer' = NoBuffer /\ seen' = seen /\ reserve_buffer' = ReserveOf(buffer)
      /\ buffer.busy /\ ~HasSymbol
  BY DEF BufferEnd
<1>2. /\ buffer.first \in Nat /\ buffer.count \in Nat /\ Reserve \in Nat \ {0}
      /\ buffer.idx \in Nat /\ seen \in Seq(1..delivered) /\ Reserve =< buffer.idx
      /\ Reserve =< buffer.count
  <2>1. Reserve =< buffer.idx
    BY <1>1, UsedUp
  <2>2. /\ buffer.first \in Nat /\ buffer.count \in Nat /\ buffer.idx \in Nat
        /\ seen \in Seq(1..delivered) /\ buffer.idx =< buffer.count
    BY DEF Inv, TypeOK
  <2>3. Reserve \in Nat \ {0}
    BY ReserveLemma
  <2> QED BY <2>1, <2>2, <2>3
<1>3. skipped'.reserve = buffer.count - buffer.idx
  BY DEF BufferEnd, Inv, TypeOK
<1>4. ~buffer'.busy /\ buffer'.idx = 0
  BY <1>1 DEF NoBuffer
<1>5. ASSUME NEW j \in 1..PreambleSymbols, j =< Len(seen')
      PROVE  LookBack(j)'
  <2> DEFINE back == j * SamplesPerSymbol
             s == seen[Len(seen) + 1 - j]
  <2>1. back \in Nat /\ back >= 1 /\ back =< Reserve
    BY BackLemma
  <2>2. SampleAt(buffer.idx - back) = s + Behind(buffer.idx - back)
    BY <1>1, <1>5 DEF WindowInv
  <2>3. s \in Nat
    <3>1. Len(seen) + 1 - j \in 1..Len(seen)
      BY <1>1, <1>2, <1>5
    <3>2. seen[Len(seen) + 1 - j] \in 1..delivered
      BY <1>2, <3>1, SeqElement, Zenon
    <3> QED BY <3>2
  <2> HIDE DEF back, s
  <2>4. ~(buffer.idx - back < 0)
    BY <1>2, <2>1
  <2>5. buffer.first + (buffer.idx - back) = s
    BY <2>2, <2>3, <2>4 DEF SampleAt, Behind
  <2>6. 0 - back < 0 /\ 0 - back + Reserve + 1 \in 1..Reserve
    BY <1>2, <2>1
  <2>7. ReserveOf(buffer)[0 - back + Reserve + 1] =
          buffer.first + buffer.count - Reserve + (0 - back + Reserve + 1) - 1
    BY <2>6 DEF ReserveOf
  <2>8. ReserveOf(buffer)[0 - back + Reserve + 1] = s + (buffer.count - buffer.idx)
    <3> DEFINE f == buffer.first
               c == buffer.count
               x == buffer.idx
    <3>1. /\ f \in Nat /\ c \in Nat /\ x \in Nat /\ Reserve \in Nat
          /\ f + (x - back) = s
      BY <1>2, <2>5
    <3> HIDE DEF f, c, x
    <3>2. f + c - Reserve + (0 - back + Reserve + 1) - 1 = s + (c - x)
      BY <2>1, <2>3, <3>1
    <3> QED BY <2>7, <3>2 DEF f, c, x
  <2> QED BY <1>1, <1>3, <1>4, <2>6, <2>8 DEF LookBack, SampleAt, Behind, back, s
<1> QED BY <1>4, <1>5 DEF WindowInv, LookBack

----------------------------------------------------------------------------
(* The frame being read.                                                   *)

\* A symbol of a frame is the one that was matched, or lies behind it by what was
\* skipped when the preamble was read.
Matches(symbol, matched, behind) == symbol \in {matched, matched + behind}

\* What the equalizer reads at the end of the trail is what was seen, as far
\* back as anything was seen, or what lies behind it.
LEMMA PreambleSeen ==
    ASSUME Inv, HasSymbol, WindowInv', NEW d \in BOOLEAN, NextSymbol(d),
           skipped'.reserve = skipped.reserve,
           NEW i \in 1..PreambleSymbols, PreambleSymbols - i + 1 =< Len(seen')
    PROVE  Matches(Preamble(EndOfSymbol)[i], seen'[Len(seen') - PreambleSymbols + i],
                   skipped.reserve)
<1> DEFINE j == PreambleSymbols - i + 1
           S == SamplesPerSymbol
           matched == seen'[Len(seen') + 1 - j]
<1>1. /\ buffer'.first = buffer.first /\ buffer'.idx = buffer.idx + S
      /\ reserve_buffer' = reserve_buffer
  BY NextSymbolLemma
<1>2. /\ j \in 1..PreambleSymbols /\ j =< Len(seen')
      /\ PreambleSymbols - (i - 1) = j
  BY ReserveLemma
<1>3. Len(seen') \in Nat /\ PreambleSymbols \in Nat
  BY NextSymbolLemma, ReserveLemma
<1>4. LookBack(j)'
  <2> HIDE DEF j
  <2> QED BY <1>2 DEF WindowInv, LookBack
<1>5. SampleIdx(EndOfSymbol, i - 1) = buffer'.idx - j * S
  <2> HIDE DEF j, S
  <2> QED BY <1>1, <1>2 DEF SampleIdx, EndOfSymbol, S
<1>6. Preamble(EndOfSymbol)[i] = SampleAt(SampleIdx(EndOfSymbol, i - 1))
  BY DEF Preamble
<1>7. Len(seen') + 1 - j = Len(seen') - PreambleSymbols + i
  BY <1>3
<1>8. matched \in Nat
  <2>1. seen' \in Seq(1..delivered)
    BY NextSymbolLemma
  <2>2. Len(seen') + 1 - j \in 1..Len(seen')
    BY <1>2, <1>3
  <2>3. matched \in 1..delivered
    <3> HIDE DEF j
    <3> QED BY <2>1, <2>2, SeqElement, Zenon
  <2> QED BY <2>3
<1> DEFINE x == buffer'.idx - j * S
<1>9. SampleAt(x) = matched + (IF x < 0 THEN skipped.reserve ELSE 0)
  <2> HIDE DEF j
  <2> QED BY <1>1, <1>4 DEF LookBack, SampleAt, Behind
<1>10. Matches(SampleAt(x), matched, skipped.reserve)
  <2> HIDE DEF x, matched
  <2> QED BY <1>8, <1>9 DEF Matches
<1> HIDE DEF j, Matches
<1> QED BY <1>5, <1>6, <1>7, <1>10

LEMMA FrameUnchanged ==
    ASSUME WaitInv, FoundInv, UNCHANGED <<frame_parse_mode, pending_trail, frame, seen>>,
           skipped'.frame = skipped.frame
    PROVE  WaitInv' /\ FoundInv'
BY DEF WaitInv, FoundInv, TimecodeIsPosition, FrameContiguous

LEMMA FrameSeek ==
    ASSUME Inv
    PROVE  /\ SeekNothing => WaitInv' /\ FoundInv'
           /\ \A payload \in PayloadSizes : SeekDetected(payload) => WaitInv' /\ FoundInv'
<1>1. ASSUME SeekNothing PROVE WaitInv' /\ FoundInv'
  BY <1>1 DEF SeekNothing, WaitInv, FoundInv, TimecodeIsPosition, FrameContiguous
<1>2. ASSUME NEW payload \in PayloadSizes, SeekDetected(payload)
      PROVE  WaitInv' /\ FoundInv'
  <2>1. /\ frame_parse_mode' = "FRAME_WAIT" /\ pending_trail' = FseqHalflen
        /\ frame'.timecode = timecode + buffer.idx
        /\ seen' = Append(seen, Here)
    BY <1>2 DEF SeekDetected, NextSymbol
  <2>2. /\ timecode \in Nat /\ buffer.idx \in Nat /\ buffer.first = timecode + 1
        /\ seen \in Seq(1..delivered)
    BY <1>2 DEF SeekDetected, HasSymbol, Inv, TypeOK, BufferInv
  <2>3. Len(seen) \in Nat /\ Len(seen') = Len(seen) + 1 /\ seen'[Len(seen) + 1] = Here
    BY <2>1, <2>2
  <2>4. Here = frame'.timecode + 1
    <3>1. Here = timecode + 1 + buffer.idx
      BY <2>2 DEF Here
    <3>2. timecode + 1 + buffer.idx = timecode + buffer.idx + 1
      BY <2>2
    <3> QED BY <2>1, <3>1, <3>2
  <2>5. /\ FseqHalflen - pending_trail' = 0
        /\ Len(seen') - (FseqHalflen - pending_trail') = Len(seen) + 1
        /\ 0 < Len(seen')
    BY <2>1, <2>3, ReserveLemma
  <2>6. WaitInv'
    BY <2>3, <2>4, <2>5 DEF WaitInv
  <2> QED BY <2>1, <2>6 DEF FoundInv, TimecodeIsPosition, FrameContiguous
<1> QED BY <1>1, <1>2

LEMMA FrameWait ==
    ASSUME Inv, WaitInv, WindowInv', WaitTrail
    PROVE  WaitInv' /\ FoundInv'
<1> DEFINE n == Len(seen)
           H == FseqHalflen
<1>1. /\ HasSymbol /\ NextSymbol(buffer.detected) /\ buffer.detected \in BOOLEAN
      /\ frame_parse_mode = "FRAME_WAIT" /\ pending_trail' = pending_trail - 1
      /\ seen' = Append(seen, Here)
  BY DEF WaitTrail, NextSymbol, Inv, TypeOK
<1>2. /\ seen \in Seq(1..delivered) /\ pending_trail \in 1..H
      /\ H \in Nat \ {0}
      /\ frame \in [timecode : 0..delivered, payload : Nat, symbols : Seq(0..delivered)]
  BY <1>1, ReserveLemma DEF Inv, TypeOK, BufferInv
<1>3. /\ n \in Nat /\ Len(seen') = n + 1 /\ \A i \in 1..n : seen'[i] = seen[i]
  BY <1>1, <1>2
<1>4. H - pending_trail < n /\ seen[n - (H - pending_trail)] = frame.timecode + 1
  BY <1>1 DEF WaitInv
<1> HIDE DEF n, H
<1>5. /\ H - pending_trail' = H - pending_trail + 1
      /\ n - (H - pending_trail) = Len(seen') - (H - pending_trail')
      /\ n - (H - pending_trail) \in 1..n
  BY <1>1, <1>2, <1>3, <1>4
<1>6. /\ H - pending_trail' < Len(seen')
      /\ seen'[Len(seen') - (H - pending_trail')] = frame.timecode + 1
  BY <1>2, <1>3, <1>4, <1>5
<1>7. CASE pending_trail' # 0
  <2>1. frame_parse_mode' = "FRAME_WAIT" /\ frame' = frame
    BY <1>1, <1>7 DEF WaitTrail
  <2> QED BY <1>6, <2>1 DEF WaitInv, FoundInv, TimecodeIsPosition, FrameContiguous, H
<1>8. CASE pending_trail' = 0
  <2> DEFINE p == Preamble(EndOfSymbol)
             P == PreambleSymbols
             b == skipped.reserve
  <2>1. frame' = [frame EXCEPT !.symbols = p] /\ frame_parse_mode' = "FRAME_FOUND"
    BY <1>8 DEF WaitTrail
  <2>2. skipped'.reserve = skipped.reserve /\ skipped'.frame = b
    BY <1>8 DEF WaitTrail, Inv, TypeOK
  <2>3. Len(p) = P
    BY <1>1, PreambleType
  <2>4. \A i \in 1..P :
          P - i + 1 =< Len(seen') => Matches(p[i], seen'[Len(seen') - P + i], b)
    <3> HIDE DEF Matches
    <3> QED BY <1>1, <2>2, PreambleSeen
  <2>5. P \in Nat /\ P >= 2 * H + 1
    BY ReserveLemma, SymbolAssumption DEF H
  <2> HIDE DEF p, P, b, Matches
  <2>6. frame'.symbols = p /\ frame'.timecode = frame.timecode
    BY <1>2, <2>1
  <2>7. Len(frame'.symbols) - (P - H) = H - pending_trail'
    BY <1>2, <1>8, <2>3, <2>5, <2>6
  <2>8. TimecodeIsPosition'
    BY <1>6, <2>6, <2>7 DEF TimecodeIsPosition, P, H
  <2>9. ASSUME Len(seen') >= P, NEW i \in 1..P
        PROVE  Matches(p[i], seen'[Len(seen') - P + i], b)
    <3>1. P - i + 1 =< Len(seen')
      BY <1>3, <2>5, <2>9
    <3> QED BY <2>4, <3>1
  <2>10. FrameContiguous'
    BY <2>2, <2>3, <2>6, <2>9 DEF FrameContiguous, Matches
  <2>11. Len(frame'.symbols) >= PreambleSymbols
    BY <2>3, <2>5, <2>6 DEF P
  <2> QED BY <2>1, <2>8, <2>10, <2>11 DEF WaitInv, FoundInv
<1> QED BY <1>7, <1>8

LEMMA FrameRead ==
    ASSUME Inv, FoundInv, ReadSymbol
    PROVE  WaitInv' /\ FoundInv'
<1> DEFINE n == Len(seen)
           m == Len(frame.symbols)
           since == m - (PreambleSymbols - FseqHalflen)
           b == skipped.frame
<1>1. /\ frame_parse_mode = "FRAME_FOUND" /\ frame_parse_mode' # "FRAME_WAIT"
      /\ frame' = [frame EXCEPT !.symbols = Append(@, Here)]
      /\ seen' = Append(seen, Here) /\ skipped'.frame = b
  BY DEF ReadSymbol, NextSymbol
<1>2. /\ seen \in Seq(1..delivered) /\ frame.symbols \in Seq(0..delivered)
      /\ frame \in [timecode : 0..delivered, payload : Nat, symbols : Seq(0..delivered)]
  BY DEF Inv, TypeOK
<1>3. frame'.symbols = Append(frame.symbols, Here) /\ frame'.timecode = frame.timecode
  BY <1>1, <1>2
<1>4. /\ n \in Nat /\ Len(seen') = n + 1 /\ \A i \in 1..n : seen'[i] = seen[i]
      /\ seen'[n + 1] = Here
  BY <1>1, <1>2
<1>5. /\ m \in Nat /\ Len(frame'.symbols) = m + 1
      /\ \A i \in 1..m : frame'.symbols[i] = frame.symbols[i]
      /\ frame'.symbols[m + 1] = Here
  BY <1>2, <1>3
<1>6. /\ m >= PreambleSymbols
      /\ since < n /\ seen[n - since] = frame.timecode + 1
  BY <1>1 DEF FoundInv, TimecodeIsPosition
<1>7. n >= m => \A i \in 1..m : Matches(frame.symbols[i], seen[n - m + i], b)
  BY <1>1 DEF FoundInv, FrameContiguous, Matches
<1> HIDE DEF Matches, b, n, m
<1>8. TimecodeIsPosition'
  <2>1. since \in Nat /\ since + 1 = Len(frame'.symbols) - (PreambleSymbols - FseqHalflen)
    BY <1>5, <1>6, ReserveLemma, SymbolAssumption
  <2> HIDE DEF since
  <2>2. /\ since + 1 < Len(seen') /\ Len(seen') - (since + 1) = n - since
        /\ n - since \in 1..n
    BY <1>4, <1>6, <2>1
  <2>3. seen'[Len(seen') - (since + 1)] = frame'.timecode + 1
    BY <1>3, <1>4, <1>6, <2>2
  <2> QED BY <2>1, <2>2, <2>3 DEF TimecodeIsPosition
<1>9. ASSUME Len(seen') >= Len(frame'.symbols), NEW i \in 1..Len(frame'.symbols)
      PROVE  Matches(frame'.symbols[i], seen'[Len(seen') - Len(frame'.symbols) + i], b)
  <2>1. n >= m /\ Len(seen') - Len(frame'.symbols) + i = n - m + i
    BY <1>4, <1>5, <1>9
  <2>2. CASE i = m + 1
    <3>1. n - m + i = n + 1
      BY <1>4, <1>5, <2>2
    <3> QED BY <1>4, <1>5, <2>1, <2>2, <3>1 DEF Matches
  <2>3. CASE i # m + 1
    <3>1. i \in 1..m
      BY <1>5, <2>3
    <3>2. n - m + i \in 1..n
      BY <1>4, <1>5, <2>1, <3>1
    <3>3. Matches(frame.symbols[i], seen[n - m + i], b)
      BY <1>7, <2>1, <3>1
    <3> QED BY <1>4, <1>5, <2>1, <3>1, <3>2, <3>3
  <2> QED BY <2>2, <2>3
<1>10. FrameContiguous'
  BY <1>1, <1>9 DEF FrameContiguous, Matches
<1>11. Len(frame'.symbols) >= PreambleSymbols
  BY <1>5, <1>6, ReserveLemma
<1> QED BY <1>1, <1>8, <1>10, <1>11 DEF WaitInv, FoundInv

LEMMA StreamInit == Init => StreamInv
<1> SUFFICES ASSUME Init PROVE StreamInv
  OBVIOUS
<1>1. seen = <<>> /\ Len(seen) = 0 /\ frame_parse_mode = "FRAME_SEEK"
      /\ buffer.idx = 0
  BY DEF Init, NoBuffer
<1>2. \A j \in 1..PreambleSymbols : ~(j =< Len(seen))
  BY <1>1, ReserveLemma
<1> QED BY <1>1, <1>2 DEF StreamInv, WindowInv, WaitInv, FoundInv,
                         TimecodeIsPosition, FrameContiguous

LEMMA StreamNext == Inv /\ StreamInv /\ [Next]_vars => StreamInv'
<1> SUFFICES ASSUME Inv, WindowInv, WaitInv, FoundInv, [Next]_vars PROVE StreamInv'
  BY DEF StreamInv
<1>1. ASSUME NEW n \in BufferSizes, Deliver(n) PROVE StreamInv'
  <2>1. UNCHANGED <<frame_parse_mode, pending_trail, frame, seen, skipped>>
    BY <1>1 DEF Deliver
  <2> QED BY <1>1, <2>1, WindowDeliver, FrameUnchanged DEF StreamInv
<1>2. CASE BufferEnd
  <2>1. /\ UNCHANGED <<frame_parse_mode, pending_trail, frame, seen>>
        /\ skipped'.frame = skipped.frame
    BY <1>2 DEF BufferEnd, Inv, TypeOK
  <2> QED BY <1>2, <2>1, WindowBufferEnd, FrameUnchanged DEF StreamInv
<1>3. CASE SeekNothing
  <2>1. HasSymbol /\ NextSymbol(buffer.detected) /\ buffer.detected \in BOOLEAN
    BY <1>3 DEF SeekNothing, Inv, TypeOK
  <2>2. skipped'.reserve = skipped.reserve
    BY <1>3 DEF SeekNothing
  <2> QED BY <1>3, <2>1, <2>2, WindowSymbol, FrameSeek DEF StreamInv
<1>4. ASSUME NEW payload \in PayloadSizes, SeekDetected(payload) PROVE StreamInv'
  <2>1. HasSymbol /\ NextSymbol(TRUE) /\ skipped'.reserve = skipped.reserve
    BY <1>4 DEF SeekDetected
  <2> QED BY <1>4, <2>1, WindowSymbol, FrameSeek DEF StreamInv
<1>5. CASE WaitTrail
  <2>1. HasSymbol /\ NextSymbol(buffer.detected) /\ buffer.detected \in BOOLEAN
    BY <1>5 DEF WaitTrail, Inv, TypeOK
  <2>3. skipped'.reserve = skipped.reserve
    BY <1>5 DEF WaitTrail, Inv, TypeOK
  <2>2. WindowInv'
    BY <2>1, <2>3, WindowSymbol
  <2> QED BY <1>5, <2>2, FrameWait DEF StreamInv
<1>6. CASE ReadSymbol
  <2>1. HasSymbol /\ NextSymbol(buffer.detected) /\ buffer.detected \in BOOLEAN
    BY <1>6 DEF ReadSymbol, Inv, TypeOK
  <2>2. skipped'.reserve = skipped.reserve
    BY <1>6 DEF ReadSymbol
  <2> QED BY <1>6, <2>1, <2>2, WindowSymbol, FrameRead DEF StreamInv
<1>7. CASE UNCHANGED vars
  <2>1. /\ buffer' = buffer /\ reserve_buffer' = reserve_buffer /\ seen' = seen
        /\ skipped' = skipped /\ UNCHANGED <<frame_parse_mode, pending_trail, frame, seen>>
    BY <1>7 DEF vars
  <2> QED BY <2>1, WindowUnchanged, FrameUnchanged DEF StreamInv
<1> QED BY <1>1, <1>2, <1>3, <1>4, <1>5, <1>6, <1>7 DEF Next

----------------------------------------------------------------------------
\* For buffers of any lengths in any order, dropped ones included, the timecode
\* of a frame is where in the radio's stream its preamble was detected.
THEOREM TimecodeIsPositionCorrect == Spec => []TimecodeIsPosition
<1>1. StreamInv => TimecodeIsPosition
  BY DEF StreamInv, FoundInv
<1> QED BY <1>1, InitInv, NextInv, StreamInit, StreamNext, PTL DEF Spec

\* A frame is made of the symbols that were seen, in order, none left out and none
\* twice, although its preamble is read again and may lie in the reserve: what is
\* read there is off only by the samples the buffer before did not use.
THEOREM FrameContiguousCorrect == Spec => []FrameContiguous
<1>1. StreamInv => FrameContiguous
  BY DEF StreamInv, FoundInv
<1> QED BY <1>1, InitInv, NextInv, StreamInit, StreamNext, PTL DEF Spec

----------------------------------------------------------------------------
(* Noise.                                                                  *)

\* Where the symbol at work ends.
LEMMA EndLemma ==
    ASSUME Inv, HasSymbol
    PROVE  /\ Here = timecode + buffer.idx + 1
           /\ timecode + buffer.idx + 1 \in Nat
           /\ timecode + EndOfSymbol + 1 = Here + SamplesPerSymbol
           /\ timecode \in Nat /\ EndOfSymbol \in Nat /\ SamplesPerSymbol =< EndOfSymbol
<1>1. /\ timecode \in Nat /\ buffer.idx \in Nat /\ SamplesPerSymbol \in Nat \ {0}
  BY ReserveLemma DEF Inv, TypeOK
<1>2. Here = timecode + 1 + buffer.idx
  BY DEF Inv, BufferInv, HasSymbol, Here
<1> QED BY <1>1, <1>2 DEF EndOfSymbol

\* What the equalizer reads back ends where the symbol at work ends.
LEMMA PreambleBefore ==
    ASSUME Inv, NoiseInv, HasSymbol, NEW i \in 1..PreambleSymbols
    PROVE  EndsBefore(Preamble(EndOfSymbol)[i], timecode + EndOfSymbol + 1)
<1> DEFINE idx == SampleIdx(EndOfSymbol, i - 1)
<1>1. Preamble(EndOfSymbol)[i] = SampleAt(idx)
  BY DEF Preamble
<1>2. /\ timecode \in Nat /\ buffer.idx \in Nat /\ SamplesPerSymbol \in Nat \ {0}
      /\ buffer.first = timecode + 1 /\ Reserve \in Nat
      /\ reserve_buffer \in [1..Reserve -> 0..delivered] /\ delivered \in Nat
  <2>1. /\ timecode \in Nat /\ buffer.idx \in Nat /\ delivered \in Nat
        /\ reserve_buffer \in [1..Reserve -> 0..delivered]
    BY DEF Inv, TypeOK
  <2>2. buffer.first = timecode + 1
    BY DEF Inv, BufferInv, HasSymbol
  <2> QED BY <2>1, <2>2, ReserveLemma
<1>3. PICK q \in 0..buffer.idx : buffer.idx = q * SamplesPerSymbol
  BY DEF Inv, BufferInv
<1>4. /\ EndOfSymbol = (q + 1) * SamplesPerSymbol /\ EndOfSymbol \in Nat /\ q + 1 \in Nat
      /\ SamplesPerSymbol =< EndOfSymbol
  BY <1>2, <1>3 DEF EndOfSymbol
<1>5. i - 1 \in 0..(PreambleSymbols - 1)
  BY ReserveLemma
<1>6. idx \in Int /\ idx + Reserve >= 0 /\ idx + SamplesPerSymbol =< EndOfSymbol
  BY <1>4, <1>5, SampleIdxLemma
<1> HIDE DEF idx
<1>7. CASE idx < 0
  <2> DEFINE s == reserve_buffer[idx + Reserve + 1]
  <2>1. idx + Reserve + 1 \in 1..Reserve
    BY <1>2, <1>6, <1>7
  <2>2. s =< timecode /\ s \in 0..delivered
    BY <1>2, <2>1 DEF NoiseInv
  <2>3. Preamble(EndOfSymbol)[i] = s
    BY <1>1, <1>7 DEF SampleAt
  <2> HIDE DEF s
  <2>4. s + SamplesPerSymbol =< timecode + EndOfSymbol + 1
    BY <1>2, <1>4, <2>2
  <2> QED BY <2>3, <2>4 DEF EndsBefore
<1>8. CASE ~(idx < 0)
  <2>1. timecode + 1 + idx + SamplesPerSymbol =< timecode + EndOfSymbol + 1
    BY <1>2, <1>4, <1>6
  <2> QED BY <1>1, <1>2, <1>8, <2>1 DEF SampleAt, EndsBefore
<1> QED BY <1>7, <1>8

\* A symbol that ends before a position ends before a later one.
LEMMA EndsBeforeLater ==
    ASSUME NEW s \in Nat, NEW p \in Nat, NEW q \in Nat, p =< q, EndsBefore(s, p)
    PROVE  EndsBefore(s, q)
BY ReserveLemma DEF EndsBefore

\* The position at work does not go back at a buffer's edge.
LEMMA EdgeLemma ==
    ASSUME NEW t \in Nat, NEW u \in Nat, NEW x \in Nat, NEW y, y = 0, t + x =< u
    PROVE  t + x + 1 \in Nat /\ u + y + 1 \in Nat /\ t + x + 1 =< u + y + 1
OBVIOUS

\* Where the next symbol lies, and what is counted before and after it.
LEMMA NextNoise ==
    ASSUME Inv, NoiseInv, HasSymbol, NEW d \in BOOLEAN, NextSymbol(d)
    PROVE  /\ timecode' + buffer'.idx + 1 = timecode + EndOfSymbol + 1
           /\ buffer'.busy /\ buffer'.detected = d
           /\ \A i \in 1..Reserve : reserve_buffer'[i] =< timecode'
           /\ \A i \in 1..Len(frame.symbols) :
                /\ EndsBefore(frame.symbols[i], Here)
                /\ EndsBefore(frame.symbols[i], timecode + EndOfSymbol + 1)
<1>1. /\ buffer'.busy = buffer.busy /\ buffer'.idx = buffer.idx + SamplesPerSymbol
      /\ timecode' = timecode /\ reserve_buffer' = reserve_buffer
  BY NextSymbolLemma
<1>2. buffer.busy
  BY DEF HasSymbol
<1>3. buffer'.detected = d
  <2> DEFINE T == [busy : BOOLEAN, first : 0..delivered, count : Nat, idx : Nat,
                   detected : BOOLEAN]
  <2>1. buffer \in T
    BY DEF Inv, TypeOK
  <2>2. buffer' = [buffer EXCEPT !.idx = @ + SamplesPerSymbol, !.detected = d]
    BY DEF NextSymbol
  <2> QED BY <2>1, <2>2
<1>4. ASSUME NEW i \in 1..Len(frame.symbols)
      PROVE  /\ EndsBefore(frame.symbols[i], Here)
             /\ EndsBefore(frame.symbols[i], timecode + EndOfSymbol + 1)
  <2>1. frame.symbols[i] \in Nat
    <3>1. frame.symbols \in Seq(0..delivered) /\ 0..delivered \subseteq Nat
      BY DEF Inv, TypeOK
    <3> QED BY <3>1, SeqElement
  <2>2. EndsBefore(frame.symbols[i], Here)
    BY EndLemma, Zenon DEF NoiseInv
  <2>3. /\ Here \in Nat /\ timecode + EndOfSymbol + 1 \in Nat
        /\ Here =< timecode + EndOfSymbol + 1
    BY EndLemma, ReserveLemma
  <2> QED BY <2>1, <2>2, <2>3, EndsBeforeLater
<1>5. timecode' + buffer'.idx + 1 = timecode + EndOfSymbol + 1
  BY <1>1 DEF EndOfSymbol
<1> QED BY <1>1, <1>2, <1>3, <1>4, <1>5 DEF NoiseInv

LEMMA NoiseSeek ==
    ASSUME Inv, NoiseInv
    PROVE  /\ SeekNothing => NoiseInv'
           /\ \A payload \in PayloadSizes : SeekDetected(payload) => NoiseInv'
<1>1. ASSUME SeekNothing PROVE NoiseInv'
  <2>1. /\ HasSymbol /\ NextSymbol(buffer.detected) /\ buffer.detected \in BOOLEAN
        /\ frame_parse_mode' = "FRAME_SEEK" /\ frame_parse_mode = "FRAME_SEEK"
        /\ frame' = frame /\ noise' = noise \cup {Here}
    BY <1>1 DEF SeekNothing, Inv, TypeOK
  <2>2. /\ timecode' + buffer'.idx + 1 = timecode + EndOfSymbol + 1 /\ buffer'.busy
        /\ \A i \in 1..Reserve : reserve_buffer'[i] =< timecode'
        /\ buffer'.detected = buffer.detected
        /\ \A i \in 1..Len(frame.symbols) :
             /\ EndsBefore(frame.symbols[i], Here)
             /\ EndsBefore(frame.symbols[i], timecode + EndOfSymbol + 1)
    BY <2>1, NextNoise
  <2>3. ASSUME ~buffer'.detected, NEW s \in noise'
        PROVE  \A i \in 1..Len(frame'.symbols) : EndsBefore(frame'.symbols[i], s)
    <3>1. ~buffer.detected
      BY <2>2, <2>3
    <3> QED BY <2>1, <2>2, <2>3, <3>1 DEF NoiseInv
  <2> HIDE DEF EndsBefore
  <2> QED BY <2>1, <2>2, <2>3 DEF NoiseInv
<1>2. ASSUME NEW payload \in PayloadSizes, SeekDetected(payload) PROVE NoiseInv'
  <2>1. HasSymbol /\ NextSymbol(TRUE) /\ frame'.symbols = <<>>
    BY <1>2 DEF SeekDetected
  <2>2. /\ buffer'.busy /\ buffer'.detected
        /\ \A i \in 1..Reserve : reserve_buffer'[i] =< timecode'
    BY <2>1, NextNoise
  <2>3. 1..Len(frame'.symbols) = {}
    BY <2>1
  <2> QED BY <2>2, <2>3 DEF NoiseInv
<1> QED BY <1>1, <1>2

\* A symbol of the frame itself: nothing is counted.
LEMMA NoiseInFrame ==
    ASSUME Inv, NoiseInv, HasSymbol, NextSymbol(buffer.detected),
           frame_parse_mode # "FRAME_SEEK", noise' = noise,
           \A i \in 1..Len(frame'.symbols) :
             EndsBefore(frame'.symbols[i], timecode + EndOfSymbol + 1)
    PROVE  NoiseInv'
<1>1. buffer.detected \in BOOLEAN
  BY DEF Inv, TypeOK
<1>2. /\ timecode' + buffer'.idx + 1 = timecode + EndOfSymbol + 1 /\ buffer'.busy
      /\ \A i \in 1..Reserve : reserve_buffer'[i] =< timecode'
      /\ buffer'.detected = buffer.detected
  BY <1>1, NextNoise
<1>3. ~buffer.detected => noise = {}
  BY DEF NoiseInv
<1> QED BY <1>2, <1>3 DEF NoiseInv, EndsBefore

LEMMA NoiseWait ==
    ASSUME Inv, NoiseInv, WaitTrail
    PROVE  NoiseInv'
<1>1. /\ HasSymbol /\ NextSymbol(buffer.detected) /\ noise' = noise
      /\ frame_parse_mode # "FRAME_SEEK" /\ buffer.detected \in BOOLEAN
      /\ frame' = frame \/ frame' = [frame EXCEPT !.symbols = Preamble(EndOfSymbol)]
  BY DEF WaitTrail, Inv, TypeOK
<1>2. ASSUME NEW i \in 1..Len(frame'.symbols)
      PROVE  EndsBefore(frame'.symbols[i], timecode + EndOfSymbol + 1)
  <2>1. CASE frame' = frame
    BY <1>1, <1>2, <2>1, NextNoise
  <2>2. CASE frame' = [frame EXCEPT !.symbols = Preamble(EndOfSymbol)]
    <3>1. frame'.symbols = Preamble(EndOfSymbol)
      BY <2>2 DEF Inv, TypeOK
    <3>2. i \in 1..PreambleSymbols
      BY <1>1, <1>2, <3>1, PreambleType
    <3> QED BY <1>1, <3>1, <3>2, PreambleBefore
  <2> QED BY <1>1, <2>1, <2>2
<1> QED BY <1>1, <1>2, NoiseInFrame

LEMMA NoiseRead ==
    ASSUME Inv, NoiseInv, ReadSymbol
    PROVE  NoiseInv'
<1> DEFINE m == Len(frame.symbols)
<1>1. /\ HasSymbol /\ NextSymbol(buffer.detected) /\ noise' = noise
      /\ frame_parse_mode # "FRAME_SEEK" /\ buffer.detected \in BOOLEAN
      /\ frame' = [frame EXCEPT !.symbols = Append(@, Here)]
  BY DEF ReadSymbol, Inv, TypeOK
<1>2. frame'.symbols = Append(frame.symbols, Here) /\ frame.symbols \in Seq(0..delivered)
  BY <1>1 DEF Inv, TypeOK
<1>3. /\ m \in Nat /\ Len(frame'.symbols) = m + 1 /\ frame'.symbols[m + 1] = Here
      /\ \A i \in 1..m : frame'.symbols[i] = frame.symbols[i]
  BY <1>2
<1>4. /\ EndsBefore(Here, timecode + EndOfSymbol + 1)
      /\ \A i \in 1..m : EndsBefore(frame.symbols[i], timecode + EndOfSymbol + 1)
  <2>1. Here + SamplesPerSymbol =< timecode + EndOfSymbol + 1
    BY <1>1, EndLemma, ReserveLemma
  <2> QED BY <1>1, <2>1, NextNoise DEF EndsBefore
<1> HIDE DEF m
<1>5. ASSUME NEW i \in 1..Len(frame'.symbols)
      PROVE  EndsBefore(frame'.symbols[i], timecode + EndOfSymbol + 1)
  <2>1. CASE i = m + 1
    BY <1>3, <1>4, <2>1
  <2>2. CASE i # m + 1
    <3>1. i \in 1..m
      BY <1>3, <2>2
    <3> QED BY <1>3, <1>4, <3>1
  <2> QED BY <2>1, <2>2
<1> QED BY <1>1, <1>5, NoiseInFrame

LEMMA NoiseDeliver ==
    ASSUME Inv, NoiseInv, NEW n \in BufferSizes, Deliver(n)
    PROVE  NoiseInv'
<1>1. /\ ~buffer.busy /\ buffer.idx = 0 /\ ~buffer.detected
      /\ reserve_buffer' = reserve_buffer /\ frame' = frame /\ noise' = noise
      /\ frame_parse_mode' = frame_parse_mode
  BY DEF Deliver, NoiseInv
<1>2. /\ timecode \in Nat /\ delivered \in Nat /\ n \in Nat
      /\ reserve_buffer \in [1..Reserve -> 0..delivered]
      /\ frame.symbols \in Seq(0..delivered)
  BY SizeAssumption DEF Inv, TypeOK
<1>3. /\ timecode' \in Nat /\ timecode =< timecode'
      /\ buffer'.idx = 0 /\ ~buffer'.detected
  <2>1. CASE TooSmall(n)
    BY <1>1, <1>2, <2>1 DEF Deliver, TimecodeAfter
  <2>2. CASE ~TooSmall(n)
    <3>1. timecode' = timecode
          /\ buffer' = [busy |-> TRUE, first |-> delivered + 1, count |-> n, idx |-> 0,
                        detected |-> FALSE]
      BY <2>2 DEF Deliver
    <3> QED BY <1>2, <3>1
  <2> QED BY <2>1, <2>2
<1>4. \A i \in 1..Reserve : reserve_buffer'[i] =< timecode'
  <2>1. \A i \in 1..Reserve : reserve_buffer[i] \in 0..delivered
                              /\ reserve_buffer[i] =< timecode
    BY <1>2 DEF NoiseInv
  <2>2. \A a \in 0..delivered : a =< timecode => a =< timecode'
    BY <1>2, <1>3
  <2> QED BY <1>1, <2>1, <2>2
<1>5. ASSUME NEW i \in 1..Len(frame.symbols)
      PROVE  EndsBefore(frame.symbols[i], timecode' + buffer'.idx + 1)
  <2>1. frame.symbols[i] \in Nat
    <3>1. frame.symbols \in Seq(0..delivered) /\ 0..delivered \subseteq Nat
      BY <1>2
    <3> QED BY <3>1, SeqElement
  <2>2. EndsBefore(frame.symbols[i], timecode + buffer.idx + 1)
    BY DEF NoiseInv
  <2>3. /\ timecode + buffer.idx + 1 \in Nat /\ timecode' + buffer'.idx + 1 \in Nat
        /\ timecode + buffer.idx + 1 =< timecode' + buffer'.idx + 1
    <3>1. /\ timecode \in Nat /\ buffer.idx \in Nat /\ timecode' \in Nat
          /\ timecode + buffer.idx =< timecode' /\ buffer'.idx = 0
      BY <1>1, <1>2, <1>3
    <3> QED BY <3>1, EdgeLemma, Zenon
  <2> QED BY <2>1, <2>2, <2>3, EndsBeforeLater
<1>6. \A s \in noise : /\ frame_parse_mode = "FRAME_SEEK"
                       /\ \A i \in 1..Len(frame.symbols) : EndsBefore(frame.symbols[i], s)
  BY <1>1 DEF NoiseInv
<1> QED BY <1>1, <1>3, <1>4, <1>5, <1>6 DEF NoiseInv, EndsBefore

LEMMA NoiseBufferEnd ==
    ASSUME Inv, NoiseInv, BufferEnd
    PROVE  NoiseInv'
<1>1. /\ timecode' = timecode + buffer.count /\ frame' = frame /\ buffer.busy
      /\ reserve_buffer' = ReserveOf(buffer) /\ frame_parse_mode' = frame_parse_mode
      /\ noise' = IF Publishes \/ buffer.detected THEN {} ELSE noise
      /\ buffer' = NoBuffer
  BY DEF BufferEnd, TimecodeAfter
<1>2. /\ timecode \in Nat /\ buffer.count \in Nat /\ buffer.idx \in Nat
      /\ buffer.idx =< buffer.count /\ buffer.first = timecode + 1
      /\ Reserve \in Nat /\ delivered \in Nat /\ frame.symbols \in Seq(0..delivered)
  BY <1>1, ReserveLemma DEF Inv, TypeOK, BufferInv
<1>3. ~buffer'.busy /\ buffer'.idx = 0 /\ ~buffer'.detected
  BY <1>1 DEF NoBuffer
<1>4. \A i \in 1..Reserve : reserve_buffer'[i] =< timecode'
  <2>1. \A i \in 1..Reserve :
          reserve_buffer'[i] = buffer.first + buffer.count - Reserve + i - 1
    BY <1>1 DEF ReserveOf
  <2>2. \A i \in 1..Reserve :
          timecode + 1 + buffer.count - Reserve + i - 1 =< timecode + buffer.count
    BY <1>2
  <2> QED BY <1>1, <1>2, <2>1, <2>2
<1>5. ASSUME NEW i \in 1..Len(frame.symbols)
      PROVE  EndsBefore(frame.symbols[i], timecode' + buffer'.idx + 1)
  <2>1. frame.symbols[i] \in Nat
    <3>1. frame.symbols \in Seq(0..delivered) /\ 0..delivered \subseteq Nat
      BY <1>2
    <3> QED BY <3>1, SeqElement
  <2>2. EndsBefore(frame.symbols[i], timecode + buffer.idx + 1)
    BY DEF NoiseInv
  <2>3. /\ timecode + buffer.idx + 1 \in Nat /\ timecode' + buffer'.idx + 1 \in Nat
        /\ timecode + buffer.idx + 1 =< timecode' + buffer'.idx + 1
    <3>1. /\ timecode \in Nat /\ buffer.idx \in Nat /\ timecode' \in Nat
          /\ timecode + buffer.idx =< timecode' /\ buffer'.idx = 0
      BY <1>1, <1>2, <1>3
    <3> QED BY <3>1, EdgeLemma, Zenon
  <2> QED BY <2>1, <2>2, <2>3, EndsBeforeLater
<1>6. \A s \in noise' : /\ frame_parse_mode = "FRAME_SEEK"
                        /\ \A i \in 1..Len(frame.symbols) : EndsBefore(frame.symbols[i], s)
  BY <1>1 DEF NoiseInv
<1> QED BY <1>1, <1>3, <1>4, <1>5, <1>6 DEF NoiseInv, EndsBefore

LEMMA NoiseInit == Init => NoiseInv
<1> SUFFICES ASSUME Init PROVE NoiseInv
  OBVIOUS
<1>1. frame.symbols = <<>> /\ noise = {} /\ timecode = 0
      /\ reserve_buffer = [i \in 1..Reserve |-> 0]
      /\ buffer.idx = 0 /\ ~buffer.detected
  BY DEF Init, NoFrame, NoBuffer
<1>2. 1..Len(frame.symbols) = {}
  BY <1>1
<1>3. \A i \in 1..Reserve : reserve_buffer[i] = 0
  BY <1>1
<1> QED BY <1>1, <1>2, <1>3 DEF NoiseInv

LEMMA NoiseNext == Inv /\ NoiseInv /\ [Next]_vars => NoiseInv'
<1> SUFFICES ASSUME Inv, NoiseInv, [Next]_vars PROVE NoiseInv'
  OBVIOUS
<1>1. CASE UNCHANGED vars
  BY <1>1 DEF vars, NoiseInv
<1> QED BY <1>1, NoiseDeliver, NoiseSeek, NoiseWait, NoiseRead, NoiseBufferEnd DEF Next

\* What is published as noise counts no sample of a frame from its detection on,
\* however many buffers the frame spans.
THEOREM NoiseIsNoiseCorrect == Spec => []NoiseIsNoise
<1>1. Inv /\ NoiseInv => NoiseIsNoise
  <2> SUFFICES ASSUME Inv, NoiseInv, Publishes, NEW s \in noise,
                      NEW i \in (PreambleSymbols - FseqHalflen)..Len(frame.symbols)
               PROVE  EndsBefore(frame.symbols[i], s)
    BY DEF NoiseIsNoise
  <2>1. PreambleSymbols - FseqHalflen \in Nat \ {0}
    BY ReserveLemma, SymbolAssumption
  <2>2. i \in 1..Len(frame.symbols)
    BY <2>1 DEF Inv, TypeOK
  <2>3. ~buffer.detected
    BY DEF Publishes, MayPublish
  <2> QED BY <2>2, <2>3 DEF NoiseInv
<1> QED BY <1>1, InitInv, NextInv, NoiseInit, NoiseNext, PTL DEF Spec
=============================================================================
