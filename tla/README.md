# Verification of the OpenStint decoder

OpenStint is a lap timing decoder: a radio samples the loop under a race track,
the program finds the messages of transponders in the samples, and reports when
each car passed. This directory holds TLA+ modules that model the program, TLC
configurations that model-check them, and TLAPS proofs about them. File and line
references are to the repository.

## 1. The system

Two threads do the work. The *receiver* (the radio library's thread, or the
capture reader) calls `detect_frames` on every sample buffer. The *reporter* is
the main loop of `main_rtlsdr.cpp` and `main_hackrf.cpp`: about every 100 ms it
calls `report_detections`. They share four objects, each with a mutex of its own
that each call takes anew: the passing detector, the receive statistics, the RC4
trainer and the RC4 registry. Nothing spans two calls, and the reporter reads the
clock once, at the start of a report: whatever it does afterwards works with a
reading that gets older while the receiver goes on.

| component | source | state | operations | hard behaviour | what makes it correct |
|---|---|---|---|---|---|
| Passing detector | `passing.cpp`, `passing.hpp` | a deque of detections for each transponder, time sync messages | `append`, `timesync`, `identify_timesyncs`, `identify_passings`, `passings_between` | appends between the clock reading and its use; stamps that run ahead of the clock and step back between buffers; the cap of a deque | no detection lost or counted twice; a car on the loop is one passing; everything is settled in the end |
| Passing point | `passing.cpp` | none (a computation under the detector's mutex) | `compute_passing_point` and its helpers | edges of the waveform, unsigned differences, peaks at the limit | the point lies inside the passing, rests on separate peaks, and does not depend on the direction of travel |
| Frame reader | `commons.cpp`, `frame.cpp` | parse mode, the frame being read, reserve buffer, sample counter, noise counters | `detect_frames`, `SymbolReader`, `FrameDetector` statistics | a preamble or a payload that spans buffers, short buffers | reads stay in bounds; a frame is made of the symbols that were detected, with the right timecode |
| Frame processing | `commons.cpp`, `transponder.cpp` | the AMBrc blacklist | `process_frame` by protocol | stamps out of order, one entry per byte | silences what it must, and nothing else |
| Receive statistics | `counters.cpp` | two counters, noise figures, last reset | `register_frame`, `reporting_due`, `to_string`, `reset` | read and reset are two locked calls | each frame in one report |
| RC4 trainer | `rc4.cpp` | IDLE, TRAINING or FINALIZING, a bounded buffer | `append`, `evaluate`, and what DONE asks for | unchecked `back()`, entries newer than the clock, entries of an earlier car | a session is one stay of one car, left for cause, and ends |
| RC4 registry | `rc4.cpp` | payload map, next automatic identifier, loaded identifiers; a directory of files | `lookup`, `store`, `remove`, `resync` | a user who changes files at any time, a directory that is read lazily, failing writes, restarts | memory and directory agree; no lookup gap; what is assigned is nobody else's |
| RC4 learning | `commons.cpp:279-300` | locals of the DONE branch | five calls of three objects | the receiver runs between any two of them | a car is learned under its own identifier |
| Device front ends | `main_rtlsdr.cpp`, `main_hackrf.cpp` | `do_exit`, `streaming`, `last_rx_ms`, the device handle | start, main loop, watchdog, signal handler, radio callback, shutdown | a signal on either thread at any step, a radio that is lost or refuses a setting, two clocks read one after the other | the radio's thread ends before the device goes; only a loss raises the alarm; the program ends |
| Capture replay | `capture.cpp` | file, chunk, `next_chunk` | chunk, pacing, final report, reaction to a signal | detections still pending at the end of a file | no detection of one capture is pending in the next (a frame that the last chunk cut stays in the reader) |
| Preamble detection | `frame.cpp`, `preamble.hpp` | a ring of products for each sample of a symbol: phase, squares, window energy | `push`, `clear_next`, `match_preamble`, `process_baseband` | rotated preambles, one ring cleared and the others not, 32-bit overflow | the rings hold the last symbols in order; a preamble is found as what it is |

Not modelled, and why:

* Symbol recovery (equalizer, carrier loop): floating point, whose
  result is a free choice of symbols in `FrameReader`.
* Message decoding (Viterbi, RC3, RC4 and AMB words): pure functions of the bits of
  a frame, whose results are a free choice in `ProcessFrame`.
* Reporting: formats lines, and turns steady stamps into wall clock ones by one
  addition.
* Crash handler: prints a stack trace and calls the handler it replaced.
* Race software bridges (`integrations/bridge-*.py`): separate Python processes
  that only read what the decoder publishes; nothing in the decoder waits for them.
* Tools: scripts that analyse captures or print.

## 2. Modules

```
PassingLedger  <--refines-- PassingDetector <-- PassingDetectorProofs
RC4Trainer     <--refines-- RC4Learning     <-- RC4TrainerProofs (both)
RC4Registry      <-- RC4RegistryProofs          PassingPoint  <-- PassingPointProofs
PreambleDetector <-- PreambleDetectorProofs     FrameReader   <-- FrameReaderProofs
DeviceLifecycle  <-- DeviceLifecycleProofs      ProcessFrame  <-- ProcessFrameProofs
```

Each `MC...` module gives one of them small sets for TLC. `PROJECT.json` maps
every definition to the lines it stands for. A definition that belongs to no code
is marked as history (what happened so far), external (the radio, the user) or
bound.

**PassingDetector.** Both threads around one detector. `RxBuffer` reads the clock
at the start of `detect_frames`; `RxDetect` stamps a frame with it plus the offset in
the buffer; the frame is appended (`RxAppend`), is a time sync (`RxTimesync`) or does
not decode (`RxUndecoded`), possibly in a later buffer. `Report` reads the clock
for `report_detections`, then `IdentifyTimesyncs` and `IdentifyPassings` are one
action each, because each holds the mutex throughout. Timestamps are natural
numbers; the subtraction of the 500 ms margin wraps at `Wrap` as the `uint64_t`
does. A transponder key is a model value, the timecode is the number of the frame:
only its order matters here.

**PassingLedger.** What the detector promises, without clock, threads and deques:
detections are open until all that are open for a transponder are settled at once,
as one passing if there are enough. `PassingDetector!LedgerSpec` is the refinement.

**PassingPoint.** `compute_passing_point`, stage by stage: weighted average below
16 hits; else resampling to the grid, three dips, then the zero phase filter, two
peaks, or the six decibel crossings. Levels and positions are scaled integers, so
that interpolation and filter are exact. Loops over a waveform are minima and
maxima over the points the loop visits; that the scan to the left never visits
point 0 is kept. `Mirrored` reverses the waveform on the grid; that resampling the
reversed detections gives that waveform, up to its rounding, is not stated.

**FrameReader.** `detect_frames` symbol by symbol in its three modes, with the
reserve, the timecode and the detector's noise counters. A sample is its position
in the stream, so "which sample was read" is part of the state. `HasBits` is the
length test of `Frame::bits`.

**PreambleDetector.** `process_baseband` for one symbol: the products with the
symbol before go to the rings, the ring with the most energy is compared with the
RC4 preamble, and without its oldest product with the other two. A sample is its two
components less the dc offset. Integers have the code's widths, as parameters. The
square of the correlation may overflow an `int`: what a build makes of it, a
wrapped signed number or one that cannot be negative, is a free choice in every
step. Floats are exact, and symbols of a frame are not looked at, so "the last
symbols" are the last ones at which `FrameReader` may find a preamble.

**DeviceLifecycle.** The process from start to exit: main thread, radio's thread
and the signal handler, which runs on either of them and holds it up. `program`
chooses the RTL-SDR front end, the HackRF one, or a replay. Each line of `main` that
others can interleave with is an action: loop test, report, clock, watchdog, cancel,
join, close, clear. What is pending in the detector is one stamp here, settled as in
`PassingDetector`. External, from how the code uses the libraries: a cancel has no
effect before the read has begun; `hackrf_stop_rx` waits for a running callback; a lost
radio may end its library's read or leave it waiting.

**ProcessFrame.** The branches of `process_frame` with the whole effect of an RC3
message on `AmbRcBlacklist`, and the statistics that the receiver counts in and the
reporter prints and clears. What a branch does to the detector and the trainer is
in `PassingDetector` and `RC4Learning`.

**RC4Trainer.** `append` and `evaluate` under the receiver and a reporter that
evaluates an older clock reading. One action for each way out of each state.

**RC4Registry.** The map, the loaded identifiers and the directory. `resync` is
split where others can step in: the walk begins, each entry is visited (and its file
opened, as it is *then*), each missing identifier is removed under a lock of its own.
The directory is read lazily (`Yields`): an entry that stays is visited, one that came
or went during the walk may be or not, so that of a renamed file both names, one or
neither are seen. `store` (`Learn`, `LearnWrite`) is split between the map and the file. What
is stored are the payloads of one car or several, under any identifier: that of one
of them, one that the passing detector saw, or 0. The file may not be opened, or
opened and not, or only partly, be written. The user adds (a file begins empty and is
filled later), deletes and renames, also over a file that is there; the decoder may end
at any step and start again. Two histories say what memory cannot follow:
`altered` (a loaded file that changed, or was not wholly written) and `taken_over` (a
payload that was stored again under another identifier).

**RC4Learning.** Trainer, registry map and pending AMB detections together, with
the DONE branch call by call and `process_frame`'s lookup, detection and trainer
append as three steps. It INSTANCEs `RC4Trainer`, uses its actions, and is shown
to implement its specification (`TrainerSpec`). Two histories say what the code
cannot: `session` has the cars on the loop since a session began and, for each, all
identifiers its first messages carried; `sources` has the cars whose frames are in a
pending detection; and `reporter.rc3` the cars whose RC3 identifier was pending when the
branch asked. A frame may be looked up before a `store` and be appended after it,
so the first entries of a session can carry an older identifier of the car, or none:
this is why `session.known` is a set, and why `AloneIsItself` asks for one of it.

## 3. Runs

Bounds are named in the modules and set in the `.cfg` files. Deadlock checking is
off where a bound stops the clock or the environment.

| run | checks | shows | bounds and why they are enough |
|---|---|---|---|
| `passing_one` | Conservation, QuietGap, NotWhilePresent, TimesyncOnce, types | every interleaving of the two threads around one transponder | caps of 2 hits and 3 messages, 4 frames, 6 clock steps: two passings of one transponder, evictions, drops below the hit limit and time syncs all occur |
| `passing_two` | LedgerSpec, Settled | refinement and liveness with two transponders settled in one call | clock runs 9 steps, frames stop after 2, so that everything that is pending must settle inside the bound |
| `passing_point` | PointInside, PeaksApart, Mirrored | all passings of up to 7 detections at three levels and two distances, with two and a half samples for a microsecond as in the RTL-SDR build | a grid of 8 (the code: 128) with detections from 4 on going to the grid (16): all four ways to a point occur; three levels (0, 4 and 10 dB) lie on either side of the 1, 3 and 6 dB limits |
| `preamble` | WindowIsStream, FoundAsSent | the rings in every rotation, and which preamble is found | preambles of 4 symbols (the code: 16), two rings, integers of 4 and 8 bits in place of 16 and 32; three strengths in both signs: one below the threshold, one found, one whose energy or square overflows; 21,784 states are all there are |
| `preamble_strong` (violation) | StrongFound | see findings | as above |
| `frame_reader` | InBounds, FrameContiguous, TimecodeIsPosition, NoiseIsNoise, PayloadFits, types | all sequences of buffers and places of a preamble | a preamble of 2 symbols with 2 lead and 2 trailing ones: the reserve is 12 samples, buffers are 3 (dropped), 12, 13 and 14, one of them no whole number of symbols, so that a sample is skipped; 40 samples hold several buffers and a frame over three of them |
| `process_frame` | SuppressedForCause, GhostStopped, EveryFrameOnce, types | all orders of three RC3 messages with all kinds of status, and of reports | three messages are the status message, the ghost and its repetition; or two status messages, the newer with the older stamp; three identifiers, two of them with the same top bits |
| `trainer` | BufferNonEmpty, SessionContiguous, LeavesForCause, StartsFresh, SessionsGoOn, types | frames of three strengths around the clock | a buffer of 3 and sessions from 2 entries: a full buffer, a drop from the front and a second session occur; the clock goes on for the longest limit after the last frame |
| `registry` | InSync, AutoIdsDistinct, NoLookupGap, Loaded | every order of resync steps, two sessions under any identifier, files not or partly written, two changes of the directory and a restart | two payloads, two automatic identifiers and a real one: an assigned identifier can meet a file of a session before and of before a restart; two changes are a file added and renamed, or one added over another, during one walk; a file that is added takes two steps, so that it is read empty or in part |
| `learning` | IdFromSession, AloneIsItself, TrainerSpec | a hybrid and a pure RC4 car, sessions one after the other, frames between any two calls | two cars are what an identifier can be confused between; a lag of 1 lets a frame be looked up before a `store` and be appended after it; sessions start with 1 entry and end with 3, so that one fits into the 4 clock steps and a car known from it is heard in the next; four automatic identifiers are more than are assigned |
| `device` | DeviceReleased, AlarmForCause, ReplayReportsAll, Stops, types | signals on either thread, a radio lost or refused at any step, both front ends and replays | two signals, the second of which may come when the first has ended the loop; watchdog limit 2 and clock to 7: the alarm can go off, and the program end, within; captures of 2, 0 and 2 chunks: one after another, and an empty one |
| `device_signal` (violation) | SignalStops | see findings | as above |

Every property has a mutant in `PROJECT.json`: a plausible bug in the mapped
definition (a dropped guard, an off-by-one, a missing reset) under which TLC finds
the property violated.

### Fairness

* Detector (`passing_two`): the clock runs, the main loop polls (weak fairness of
  the reporter), a started buffer ends, and a frame that was found is finished in
  this or a later buffer (the radio streams without a break; strong fairness, because
  a frame is only finished while a buffer is at work). Nothing obliges a frame to
  be found.
* Trainer: the clock runs and the main loop polls and evaluates. Frames may stop.
* Registry: the main loop resyncs in every report and finishes a store it began.
  Nothing obliges the user.

* Device: the clock and both threads run, a handler returns, and librtlsdr ends a
  read that was cancelled while it ran. Nothing obliges it to notice a lost radio:
  that the program ends then is the watchdog's work.

### Conditions a reader should know

* `RxLag`, `PollLimit`: a frame is handled, and a report made, within a bound. The
  code guarantees none; the properties say how much each is worth (`QuietGap` is
  `QuietTime - RxLag`).
* `Followed` (registry): `InSync`, `NoLookupGap` and `Loaded` except a file that changed
  after it was loaded, also one that was read while it was copied, replaced by a rename, or
  not wholly written (`altered`): a set of loaded identifiers cannot notice, and
  docs/rc4.md:50 says so of changed contents. They except a payload that two files or
  sessions have (`taken_over`): the last one stored wins. Nothing else is excepted: the
  user may change anything at any step.
* A file that is renamed while the directory is read may show neither name; it is
  unknown until the next resync. `NoLookupGap` excepts the names that came during the walk
  (`resync.changed`), `InSync` waits for a walk without changes.
* One entry is read and stored in one step. A change of the file between the two would
  leave memory as the same change just after does, because what is stored was read
  before. A write that is cut in the middle of a line is a payload that is not written; that a later
  append to the same file would join such a line is not modelled.
* No file is `0.rc4`: its payloads would get the next automatic identifier and another
  one after each restart. (`0 \notin Ids`, for `InSync` and `NoLookupGap`.)
* Identifiers may be shared: of two cars in one session both get that of one, and a car
  without identifier gets the only one that was detected meanwhile. `AutoIdsDistinct`
  speaks of assigned ones, `RC4Learning` of a car that is alone.
* `WaveformIsPlain` (passing point): point 0 of the grid is not decisive. Where
  it is, `LastCrossing` and the scan to the left break the symmetry.
* `LengthAssumption` (learning): a session takes two entries at least beyond those that
  start it (the code: 128 of 8196). The first of them may still carry what was known
  before the session; the second cannot.
* `BufferSpan` is 0 in the trainer that `RC4Learning` instantiates: there stamps may lag,
  but do not run ahead of the clock as those of `commons.cpp:133` may by a buffer. The run
  `trainer` has them run ahead. `ReplayChunk` stamps with the clock as well: the flush of a
  capture is longer than the quiet time by more than a chunk.
* `skipped` (frame reader): what the buffer before skipped at its end, less than a symbol,
  is still in the reserve, so a preamble that is read from there is read that many samples
  late. `FrameContiguous` states exactly this; the code reads on with the offset.
* `Jitter` (process frame): stamps step back between buffers, so a ban is certain
  only within `Window - Jitter`.
* Device: a healthy radio that is read delivers within `Gap`, at most the watchdog's
  limit, and a created thread starts within a unit of time. `Stops` begins where the
  read has begun; `SignalStops` is the same without that.
* `FoundAsSent` asks that a preamble is found only where the energy of the rings
  fits into 32 bits and its symbols have one strength; that whatever is found has a
  cause (`FoundForCause`) is asked always, overflow or not. It rests on
  `ApartAssumption`: preambles differ by more than the threshold. At 16 symbols and
  78 percent one symbol is enough; those of `transponder.hpp` differ in nine and ten.
* `GhostStopped` speaks of an identifier that is received after the status message; the
  other order the code does not look for (section 4).
* `AutoIdsDistinct` is checked below the limit of 9999. After it, a restart
  assigns an identifier that is already on disk (`rc4.cpp:105`).

## 4. Findings

With a run that shows them:

* `device_signal`: a signal during setup ends the main loop at its first test; the
  one cancel (`main_rtlsdr.cpp:269`) may come before the thread has begun its read, has
  no effect then, and `join` waits for a read that nobody ends, until another
  signal arrives. The comments say "ensure async reading is cancelled" and "exit
  when handler sets do_exit".
* `preamble_strong`: `corr * corr` in `match_preamble` (`preamble.hpp:94`) is an `int`
  product. Sixteen products of 11586 or more (an amplitude of 108 of 128) give a
  square over 2^31 - 1, which is undefined; wrapped, it is negative and the preamble
  is missed; in a build that reads it as unsigned, the same happens from 16384 on.
  The comment above says that the division by four makes it fit.

Divergences seen while modelling; the models have the code's behaviour:

* `transponder.hpp:68` says that an identifier is passed through and then banned once a
  status message with the same 8 bits is detected within 250 ms. The status message only
  stamps its byte (`transponder.cpp:114`); an identifier is banned when it is itself received
  within 250 ms of such a stamp. One that came just before the status message passes
  again when it comes back later than that (`ProcessFrame!Banned`).
* The stream to a learned transponder's file (`rc4.cpp:143`) is not checked. If it cannot be
  opened, DONE is reported and the resync of the same report forgets the transponder,
  against docs/rc4.md:5 (`RC4Registry!LearnWrite`). If it is opened and not wholly
  written, the transponder is known until a restart.
* A file that a resync finds half copied, or still empty, counts as loaded (`rc4.cpp:212`)
  and its rest is unknown until a restart, against the "drop them into the storage
  directory at any time" of docs/rc4.md:46 (`RC4Registry!ResyncVisit`).
* `find_peaks` scans to the left while `j > 0` and never reads `y[0]`, to the right
  it reads the last point; the comment says "until we hit a higher peak or
  boundary". A peak near the start of a passing can miss its prominence, and the
  passing is timed by the next best rule (`PassingPoint!LeftScan`).
* The loop reads whole symbols from the start of each buffer (`commons.cpp:124`) while the
  reserve keeps the last samples of the buffer before, the rest that does not fill a
  symbol included. After such a buffer a preamble that is read back from the reserve
  is read late by that rest, less than a symbol (`FrameReader!skipped`).
* For RC3 numbers over seven digits the test of the status bits is the wrong way
  round for the purpose its comment names: a status message counts as a frame that
  could not be processed (`ProcessFrame`).
* A hybrid's RC3 identifier is used only while its detections are pending. If its RC3
  messages end 250 ms before the session does, they are settled as a passing and
  the car gets an automatic identifier, against docs/rc4.md:36 (`RC4Learning`).
* `next_chunk` is set once for all captures (`capture.cpp`): after the 500 ms flush
  of one capture the next one's first 500 ms are not paced, against capture.hpp:14.
* The HackRF program has no watchdog: a stall that its library does not report is
  never noticed. `Stops` asks nothing of it there.
* A signal handler between `rtlsdr_close` and `device = nullptr` uses a freed handle;
  `DeviceReleased` allows this window and no other.
* Frames registered between `to_string` and `reset` are in no report (`EveryFrameOnce`
  counts exactly these as missed); time syncs in the first 500 ms match nothing,
  because the margin wraps; a time sync is given to the only transponder nearby,
  which need not have sent it, and may be of the other system; past 9999 a restart
  assigns an identifier again.

## 5. Proofs

The proofs hold for every value of the constants that satisfies the named
assumptions of the module. Most of these say only that numbers are natural, that
caps are at least one, that a timestamp does not overflow within the bound of the
clock, that a symbol has samples and a preamble symbols. Those that say more:

* `FreshAssumption` (trainer): what is fresh enough to start a session is not older
  than the longest silence in one (the code: 100 ms against 500 ms).
* `ScaleAssumption` and `GridAssumption` (passing point): scales and the sample rate are at
  least one (samples per microsecond need not be whole), the weights of the average are positive, the filter is
  no longer than half the grid, and two detections are at least as many samples apart as
  the grid has points (the code: 128 against a frame of over 96 symbols of two samples
  or more).
* `ApartAssumption` (preamble): see above; and a threshold of at most 84 percent, so
  that it leaves room for the rounding of a quarter of the correlation (the code: 78).
* a frame is longer than two preambles (frame reader; the code: 96 symbols against
  32); a capture is flushed for longer than a detection needs to be quiet (device).
* `IdAssumption` and `LengthAssumption` (learning): real identifiers are none of the
  automatic ones (an assumption about transponders: the code does not check it, but
  leaves 1000 to 9999 to the automatic ones), and see section 3.
  They are hypotheses of the theorems, because the module is used through INSTANCE.
* `OrdinaryUse` (registry) is a hypothesis of `AutoIdsDistinctCorrect`, not an assumption:
  no file is 0.rc4, the user numbers none in the automatic range, and the automatic
  identifiers do not run out. `InSyncCorrect` and `NoLookupGapCorrect` need only the first of
  the three. The runs satisfy them.

What is proved, and how:

* **PassingDetectorProofs.** `TypeCorrect` (with it: no deque outgrows its cap).
  `QuietGapCorrect`: two passings of a transponder are `QuietTime - RxLag` apart.
  `QuietGap` speaks of published passings only, so it is strengthened by `ClockInv`
  (the reporter's reading is not in the future, no buffer or frame is older than
  `RxLag`) and `GapInv` (a passing had been quiet for `QuietTime` when it was
  published, so whatever is in the deque since is later). `RxAppend` needs the
  first, `IdentifyPassings` the second. `NotWhilePresentCorrect` from `JitterInv`:
  stamps of a deque step back by no more than the length of a buffer, so the last
  one, the only one that is compared, bounds all. `ConservationCorrect` from
  `OrderInv`: passings, what was dropped and the deque hold the frames of a
  transponder, in the order they came, and none of them is still on its way.
  `TimesyncOnceCorrect` from `SyncInv`.
  `LedgerImplemented`: the whole detector implements `PassingLedger`. `RxAppend` is the
  ledger's receive, `IdentifyPassings` settles all its transponders at once, and
  every other step of the two threads is a stutter.
* **RC4TrainerProofs.** `TypeCorrect`; `BufferNonEmptyCorrect`: `back()` and
  `front()` are never called on an empty buffer; `LeavesForCauseCorrect`, an action
  property, from `ClockInv`. `StartsFreshCorrect` from `StampInv`: stamps of the buffer
  step back by no more than a buffer of samples, so what is fresh at its end is not
  preceded by much. `SessionContiguousCorrect` from `PollInv`: in a session the
  last entry was less than the limit ago when the reporter looked, so a gap that is
  longer was seen before an entry could close it.
  The second half is about `RC4Learning` (as `L`). `LearningTypeCorrect`.
  `IdFromSessionCorrect` from `StampsInv`: the receiver handles one frame at a time and
  what has an identifier was heard under it before its entry is made (`FrameInv`,
  `EntryInv`), and neither the buffer of a session nor what the DONE branch made of it is
  older than the session (`SinceStartInv`). `TrainerImplemented`: `Init` maps to the
  trainer's `Init` and each step to a step of it or a stutter, with the DONE branch
  an idle reporter. `AloneIsItselfCorrect` from `LearnInv`: what the registry does not
  know is nowhere under an identifier but its real one (`UnknownInv`); all who take
  part in a session are in its crowd, under identifiers known of them, and from the
  second entry on under that of the registry (`CrowdInv`); and what has been decided
  so far suits a car that is alone (`DecidedInv`).
* **RC4RegistryProofs.** `TypeCorrect`. `InSyncCorrect` and the action property
  `NoLookupGapCorrect` share one inductive invariant: memory follows the loaded files
  (`MemoryInv`: what is known is known by a loaded identifier, what a loaded file holds is known
  by it or on record, and what is known is in its file, about to be written there, or on
  record); and of a walk under way, what was visited is loaded, and what is in the directory was
  visited, is still to visit, or came since (`ScanInv`). `StoreKeepsLoaded` is the step that
  needs `taken_over`, `ChangeKeeps` the one for whatever the user does.
  `AutoIdsDistinctCorrect` adds `AutoInv`: automatic identifiers that are known, loaded, or
  on file when no walk is due are below the next one (`StoreNext`); `AutoEnd` is where
  the walk has to have seen every file.
* **ProcessFrameProofs.** `TypeCorrect`; `EveryFrameOnceCorrect`, inductive as it
  stands once the counters are numbers; `SuppressedForCauseCorrect` and
  `GhostStoppedCorrect` from `BlacklistInv`: every stamp is at most a buffer ahead of
  the clock (`StampInv`), the entry of a byte is the stamp of some status message
  and no other is newer by more than `Jitter` (`EntryInv`), and the banned identifiers
  are those with a cause, and all of those (`BanInv`).
* **FrameReaderProofs.** `TypeCorrect` and `InBoundsCorrect`: no read of a
  sample is outside the buffer or the reserve. `BufferInv` places the buffer in the
  stream and says that it is read symbol by symbol, up to less than one; `SampleIdxLemma` is the
  arithmetic of the look back, with the size of a symbol a parameter.
  `PayloadFitsCorrect` from `PayloadInv`. `FrameContiguousCorrect` and
  `TimecodeIsPositionCorrect` rest on `StreamInv`: looking back from here, over the
  edge of the buffer into the reserve, finds the symbols that were seen, in the reserve by
  `skipped` samples late (`WindowInv`), so that the preamble that is read again is the one that was detected (`PreambleSeen`);
  a preamble waited for was detected at its timecode (`WaitInv`); and a frame in
  progress ends with what was seen last (`FoundInv`). `WindowBufferEnd` is where the
  reserve takes over from the buffer, which is why a buffer must be used up but for less than a
  symbol (`UsedUp`) and be no shorter than the reserve. `NoiseIsNoiseCorrect` from `NoiseInv`: outside the
  buffer a frame was detected in, whatever is counted came after the whole frame.
* **DeviceLifecycleProofs.** `TypeCorrect`. `DeviceReleasedCorrect` from
  `ControlInv`: the place of the main thread decides what the device is and whether
  the radio's thread runs (`MainInv`), and a handler holds up the thread it
  interrupts (`HandlerInv`); one lemma for each group of actions. `AlarmForCauseCorrect`
  from `WatchInv`: a healthy radio was heard within `Gap`, and `last_rx_ms` says when,
  so a reading of the clock that is older than the last sample only makes the
  silence negative. `ReplayReportsAllCorrect` from `FlushInv`.
* **PassingPointProofs.** `TypeCorrect`: through all divisions no time is negative
  and none is by zero. `PointInsideCorrect`: each of the four ways ends inside the
  passing, from `WaveInv` (timecodes ascend, waveforms are whole numbers on the grid).
  The average lies between its terms (`SumsCompare`); points of the grid lie between
  the first and the last detection (`QuotientWithin`); a crossing lies within its
  interval. `PeaksApartCorrect` from `Valley`: the scan of the lower of two peaks
  towards the higher ends between them, so its lowest point does too.
  `MirroredCorrect` from `FoundInv` (what ruled out the other ways, and what the
  point was computed from): of a reversed waveform the scans are each other's
  (`ScanMirrored`), so its peaks are the reversed ones and as many (`PeaksMirrored`); it
  first crosses a level where the other last does (`CrossingMirrored`); the averages
  have the same weights, and moments that add up to the whole (`WeightsReversed`,
  `SumMirrored`). What each division takes is at most two units for two or three
  quotients that meet (`QuotientsMeet`), hence `Rounding`.
* **PreambleDetectorProofs.** `WindowIsStreamCorrect`: `IsRing` says where the j-th
  oldest product of a ring is; `TurnLemma` is the arithmetic of a rotation by one,
  `PushLemma` and `ClearLemma` what the two operations do to a ring, for a window of
  any length. `FoundAsSentCorrect` adds what the sums of a ring are (`Summed`):
  `RingSums` numbers the slots from the oldest on and finds that energy and
  correlation are those of the last symbols, `ClearedSums` the same without the
  oldest. `MatchIsForCause` holds whatever is left of a square that overflows, because
  that is never more than the square; `PlainMatch` is the rounding of a quarter;
  `NotTakenForRC4` bounds what one free symbol before a preamble can add to its
  correlation with another one.

Induction over data is done with sets. The library's induction theorems take an
operator as a parameter, which the installed provers cannot instantiate, but
`WFMin` takes sets: every set of naturals that is not empty has a least element
(`LeastNatural`), so a set of subsets of a finite set that is closed under adding an
element is all of them (`TakeAway`). This gives what `SumFunction` is (`SumFunctionIs`,
`SumTake`, `SumRenumbered`, `SumOfSame`) and that finite sets have extremes
(`MinMax`), without a RECURSIVE operator.

Only model-checked: the liveness properties (`Settled`, `SessionsGoOn`, `Loaded`,
`Stops`) and everything about ENABLED, which the prover does not reach. All safety and
action properties of the passing runs, and both refinements, are proved.

## 6. Plan

1. Model further: a composition of `FrameReader`, `ProcessFrame` and
   `PassingDetector` that shows a car's frames become one passing; the wall clock
   stamps of reports; the bridges, as programs of their own.
2. Prove further: of such a composition, that it implements `PassingLedger`; the
   liveness properties as far as they reduce to safety (a bound on the clock by
   which everything pending is settled).
