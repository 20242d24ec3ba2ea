------------------------- MODULE PreambleDetector -------------------------
(***************************************************************************)
(* The search for a preamble (FrameDetector::process_baseband,             *)
(* src/frame.cpp, with CircBuff and Preamble, src/preamble.hpp).  Each     *)
(* sample of a symbol is multiplied with the sample one symbol before, and *)
(* the products of the last symbols are kept in one ring for each place in *)
(* a symbol.  The ring with the most energy is compared with the preambles *)
(* of the three protocols.  A ring is never unrolled: it is compared with a*)
(* row of the preamble that is rotated like the ring is.                   *)
(*                                                                         *)
(* A sample is its two components less the dc offset.  Integers have the   *)
(* widths of the code, given by Int16Max and Int32Max; floats are exact.   *)
(* The symbols of a frame are not looked at, so that "the last symbols" are*)
(* those FrameReader looks for a preamble at.                              *)
(***************************************************************************)
EXTENDS Integers, Sequences, Functions

CONSTANTS
    Root,           \* 4: the root of the 16 symbols of a preamble
    Places,         \* samples_per_symbol: a ring for each
    Inputs,         \* samples of a symbol the radio may deliver
    Words,          \* dpsk_preamble of each protocol, +1 and -1
    Threshold,      \* PREAMBLE_THRESHOLD in percent
    Int16Max,
    Int32Max

Window == Root * Root
Slots == 0..(Window - 1)
Protocols == {"RC4", "OpenStint", "RC3"}
Rings == 1..Places

ASSUME WindowAssumption ==
    /\ Root \in Nat /\ Root > 1 /\ Places \in Nat \ {0} /\ Threshold \in Nat
    /\ Int16Max \in Nat /\ Int32Max \in Nat /\ (Int16Max + 1) * (Int16Max + 1) =< Int32Max
    /\ Inputs \subseteq [Rings -> Int \X Int]
    /\ Words \in [Protocols -> [1..Window -> {-1, 1}]]

\* What two preambles have in common, without their first symbol.
Overlap(p, q) == SumFunction([j \in 2..Window |-> Words[p][j] * Words[q][j]])

\* A symbol of one strength loses no more by rounding than the threshold leaves,
\* and preambles differ by more than the threshold (at 16 symbols and 78 percent,
\* in one symbol; those of transponder.hpp differ in nine and ten).
ASSUME ApartAssumption ==
    /\ Threshold =< 84
    /\ \A p, q \in Protocols : p # q =>
         100 * (Window - 1 + Overlap(p, q) * Overlap(p, q))
           =< Threshold * Window * (Window - 1)

VARIABLES
    buffers,        \* the rings: phase, buff, buff_e and window_energy
    last_samples,
    found,          \* what process_baseband returned, and the ring it chose
    recent          \* history: the last products of each ring, oldest first

vars == <<buffers, last_samples, found, recent>>

----------------------------------------------------------------------------
(* A ring of products.                                                     *)

EmptyRing == [phase |-> 0, buff |-> [i \in Slots |-> 0],
              buff_e |-> [i \in Slots |-> 0], window_energy |-> 0]

Next1(phase) == (phase + 1) % Window

\* push
Push(b, z) ==
    [phase |-> Next1(b.phase),
     buff |-> [b.buff EXCEPT ![b.phase] = z],
     buff_e |-> [b.buff_e EXCEPT ![b.phase] = z * z],
     window_energy |-> b.window_energy + z * z - b.buff_e[b.phase]]

\* clear_next: the slot that is pushed to next holds the oldest product.
ClearNewest(b) ==
    LET p == (b.phase - 1) % Window
    IN  [phase |-> b.phase, buff |-> [b.buff EXCEPT ![p] = 0],
         buff_e |-> [b.buff_e EXCEPT ![p] = 0],
         window_energy |-> b.window_energy - b.buff_e[p]]
ClearNext(b) ==
    [phase |-> b.phase, buff |-> [b.buff EXCEPT ![b.phase] = 0],
     buff_e |-> [b.buff_e EXCEPT ![b.phase] = 0],
     window_energy |-> b.window_energy - b.buff_e[b.phase]]

\* The row of the preamble for a ring whose oldest slot is phase.
PatternBack(word, phase) == [i \in Slots |-> word[((i + phase) % Window) + 1]]
Pattern(word, phase) == [i \in Slots |-> word[((i - phase) % Window) + 1]]

Dot(b, word) ==
    LET row == Pattern(word, b.phase)
    IN  SumFunction([i \in Slots |-> b.buff[i] * row[i]])

----------------------------------------------------------------------------
(* The comparison.                                                         *)

Int32(x) == ((x + Int32Max + 1) % (2 * (Int32Max + 1))) - (Int32Max + 1)
UInt32(x) == x % (2 * (Int32Max + 1))

\* corr /= 4, toward zero, of a negative number
Quarter(corr) == -((-corr) \div Root)

\* The threshold of a protocol is lower by one symbol where the oldest is not
\* looked at (PREAMBLE_15BIT_PENALTY).
Exceeds(square, protocol, energy) ==
    LET symbols == IF protocol = "RC4" THEN Window ELSE Window - 1
    IN  100 * Window * square > Threshold * symbols * energy

\* match_preamble.  A match is inverted: a product is negative where the
\* symbol changes.  The square of an int32_t may overflow; what is left of it a
\* build converts as a signed number, or as one that a square can not make
\* negative.
Early == 3 * Window
Matches(b, protocol, signed) ==
    LET corr == Dot(b, Words[protocol])
        square == Quarter(corr) * Quarter(corr)
    IN  /\ corr =< -Early
        /\ Exceeds(IF signed THEN Int32(square) ELSE UInt32(square), protocol,
                   b.window_energy)

\* The ring with the most energy, as 32 bits, and the first of these.
IsBest(energy, i) ==
    \A k \in Rings : energy[i] > energy[k] \/ (energy[i] = energy[k] /\ i =< k)
Best(bs) ==
    LET wes == [i \in Rings |-> UInt32(bs[i].window_energy)]
    IN  CHOOSE i \in Rings : IsBest(wes, i)

Clamp(z) ==
    IF z > Int16Max THEN Int16Max ELSE IF z < -Int16Max - 1 THEN -Int16Max - 1 ELSE z
Product(r, last) == Clamp(r[1] * last[1] + r[2] * last[2])

----------------------------------------------------------------------------
Init ==
    /\ buffers = [i \in Rings |-> EmptyRing]
    /\ last_samples = [i \in Rings |-> <<0, 0>>]
    /\ found = [protocol |-> "none", ring |-> 1]
    /\ recent = [i \in Rings |-> [j \in 1..Window |-> 0]]

\* The products of a symbol are pushed to the rings.
Products(r) == [i \in Rings |-> Product(r[i], last_samples[i])]
Pushed(r) == [i \in Rings |-> Push(buffers[i], Products(r)[i])]

Shifted(s, z) == [j \in 1..Window |-> IF j < Window THEN s[j + 1] ELSE z]

Looked(r) ==
    /\ last_samples' = r
    /\ recent' = [i \in Rings |-> Shifted(recent[i], Products(r)[i])]

FindRC4(r, signed) ==
    LET best == Best(Pushed(r))
    IN  /\ Matches(Pushed(r)[best], "RC4", signed)
        /\ found' = [protocol |-> "RC4", ring |-> best]
        /\ buffers' = Pushed(r)
        /\ Looked(r)

\* The other preambles are compared without their first symbol, OpenStint's
\* first.
FindOther(r, signed) ==
    LET best == Best(Pushed(r))
        cleared == ClearNext(Pushed(r)[best])
    IN  /\ ~Matches(Pushed(r)[best], "RC4", signed)
        /\ \E protocol \in {"OpenStint", "RC3", "none"} :
             /\ protocol # "none" => Matches(cleared, protocol, signed)
             /\ protocol # "OpenStint" => ~Matches(cleared, "OpenStint", signed)
             /\ protocol = "none" => ~Matches(cleared, "RC3", signed)
             /\ found' = [protocol |-> protocol, ring |-> best]
        /\ buffers' = [Pushed(r) EXCEPT ![best] = cleared]
        /\ Looked(r)

Next == \E r \in Inputs, signed \in BOOLEAN : FindRC4(r, signed) \/ FindOther(r, signed)

Spec == Init /\ [][Next]_vars

----------------------------------------------------------------------------
\* The rings hold the last symbols looked at, in order from phase on, in every
\* rotation; what clear_next takes away is the oldest product of the ring that
\* was chosen, and it never outlives the symbol.
Cleared(i) == i = found.ring /\ found.protocol # "RC4"

WindowIsStream ==
    \A i \in Rings : \A j \in 1..Window :
      buffers[i].buff[(buffers[i].phase + j - 1) % Window] =
        IF j = 1 /\ Cleared(i) THEN 0 ELSE recent[i][j]

----------------------------------------------------------------------------
(* The same question, asked of the last symbols themselves.                *)

First(protocol) == IF protocol = "RC4" THEN 1 ELSE 2
Energy(i, from) == SumFunction([j \in from..Window |-> recent[i][j] * recent[i][j]])
Correlation(i, protocol) ==
    SumFunction([j \in First(protocol)..Window |-> recent[i][j] * Words[protocol][j]])

\* A preamble is found for a cause: the symbols it is made of correlate with it
\* as much as the threshold asks (calc_metric), whatever overflows.
FoundForCause ==
    found.protocol # "none" =>
      LET corr == Correlation(found.ring, found.protocol)
      IN  corr < 0 /\ Exceeds(corr * corr, found.protocol,
                              Window * Energy(found.ring, First(found.protocol)))

\* Symbols of one strength, over the early threshold, that are the preamble.
IsPreamble(i, protocol) ==
    \E z \in 1..Int16Max :
      /\ (Window - 1) * z >= Early
      /\ \A j \in First(protocol)..Window : recent[i][j] = -z * Words[protocol][j]

Heard(protocol) ==
    \E i \in Rings : IsBest([k \in Rings |-> Energy(k, 1)], i) /\ IsPreamble(i, protocol)

\* A preamble is found when its last symbol is looked at, unless the energy is
\* too much for 32 bits, and nothing is found in a window that is not like one.
FoundAsSent ==
    /\ FoundForCause
    /\ \A protocol \in Protocols :
         Heard(protocol) /\ (\A i \in Rings : Energy(i, 1) =< Int32Max)
           => found.protocol = protocol

\* "the /4 is an optimization, so dotprod fits to int32" (preamble.hpp:89): then
\* a preamble is found however strong it is.
StrongFound == \A protocol \in Protocols : Heard(protocol) => found.protocol = protocol
============================================================================
