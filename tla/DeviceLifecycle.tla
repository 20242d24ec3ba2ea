-------------------------- MODULE DeviceLifecycle --------------------------
(***************************************************************************)
(* The life of a decoder process, from its start to its exit: the main     *)
(* thread, the thread the radio's library delivers samples on, and the     *)
(* signal handler that interrupts either of them.  Three programs share it:*)
(* the RTL-SDR front end (src/main_rtlsdr.cpp), which reads on a thread of *)
(* its own and watches over the radio, the HackRF front end                *)
(* (src/main_hackrf.cpp), whose library owns the thread, and the replay of *)
(* captures that both offer (src/capture.cpp), which has no radio.         *)
(*                                                                         *)
(* External, from how the code uses them: asking librtlsdr to cancel a     *)
(* read works once the read has begun and does nothing before; hackrf's    *)
(* stop waits for a callback that runs; a radio that was unplugged may     *)
(* stop its library with an error or leave it waiting in silence.          *)
(*                                                                         *)
(* What becomes of the samples is in FrameReader and PassingDetector: here *)
(* the detector is the stamp of its latest pending detection.              *)
(***************************************************************************)
EXTENDS Integers, Sequences

CONSTANTS
    Captures,     \* capture files to replay: how many chunks each one has
    Limit,        \* the 2 s of the watchdog
    Wrap,         \* 2^64: what an unsigned difference would be taken modulo
    Gap,          \* timing assumption: a healthy radio delivers this often
    Quiet,        \* the 250 ms of report_detections
    Flush,        \* the 500 ms at the end of a capture
    MaxSignals,   \* bound: signals sent to the process
    MaxLost,      \* bound: the radio is unplugged before this time
    MaxTime       \* bound: the clock stops here

ASSUME LifeAssumption ==
    /\ Captures \in Seq(Nat)
    /\ Limit \in Nat /\ Gap \in 1..Limit
    /\ Quiet \in Nat \ {0} /\ Flush \in Nat /\ Flush > Quiet
    /\ MaxSignals \in Nat /\ MaxTime \in Nat /\ Wrap \in Nat
    /\ MaxLost \in Nat /\ MaxLost + Limit < MaxTime

VARIABLES
    program,      \* "rtlsdr", "hackrf" or "replay": chosen at the start
    pc,           \* where the main thread is
    device,       \* "null", "open", or "closed": freed, but not null yet
    bias_tee,     \* is the antenna powered?
    do_exit,
    streaming,    \* rtlsdr: the atomic; hackrf: what hackrf_is_streaming says
    last_rx_ms, now_ms,
    rx,           \* the radio's thread: "none", "created", "reading",
                  \* "callback", "returning" or "done"
    handler,      \* the signal handler: "idle" or what it does next, and the
                  \* thread it interrupts
    source, chunk, next_chunk,  \* replay_capture: the file, the chunks read
    wake,         \* of it, when to read the next, when to report at its end
    now,          \* the steady clock
    cancelled,    \* external: the read was asked to end while it ran
    lost,         \* external: the radio was unplugged
    signals,      \* signals sent
    pending,      \* stamp of the detector's latest detection not reported, or 0
    heard,        \* history: when samples came last, or streaming began
    alarm,        \* history: the watchdog, not a signal, ended the program
    stray         \* history: uses of a freed device, by thread

deviceVars == <<device, bias_tee, streaming>>
watchVars == <<last_rx_ms, now_ms, heard, alarm>>
replayVars == <<source, chunk, next_chunk, wake>>
worldVars == <<program, now, lost, signals>>
rxVars == <<rx, cancelled, stray>>
vars == <<pc, do_exit, deviceVars, watchVars, replayVars, worldVars, rxVars,
          handler, pending>>

Idle == [pc |-> "idle", on |-> "main"]

----------------------------------------------------------------------------
(* Decisions of the code.                                                  *)

GoesOnEither == ~do_exit \/ streaming
GoesOn == ~do_exit /\ streaming

SilenceUnsigned == (now_ms - last_rx_ms) % Wrap
SilenceReversed == last_rx_ms - now_ms
Silence == now_ms - last_rx_ms          \* int64_t

FirstRxNever == 0
FirstRxAhead == now + Limit
FirstRx == now

\* rtlsdr_cancel_async
Cancelled == cancelled \/ rx \in {"reading", "callback"}
Used(thread) ==
    IF device = "closed" THEN stray \cup {[at |-> pc, by |-> thread]} ELSE stray

Deadline(t) == IF t > Quiet THEN t - Quiet ELSE 0
AfterReport == IF pending =< Deadline(now) THEN 0 ELSE pending

\* What main waits for once it has left its loop, and where it goes when
\* setting up the radio fails.
JoinableAtOnce == TRUE
Joinable == rx = "done"
FailedExits == "exit"
Failed == "cleanup"

FlushNever == 0
FlushTime == Flush

----------------------------------------------------------------------------
Init ==
    /\ program \in {"rtlsdr", "hackrf", "replay"}
    /\ pc = "start" /\ device = "null" /\ bias_tee = FALSE
    /\ do_exit = FALSE /\ streaming = FALSE
    /\ last_rx_ms = 0 /\ now_ms = 0
    /\ rx = "none" /\ handler = Idle
    /\ source = 1 /\ chunk = 0 /\ next_chunk = 0 /\ wake = 0
    /\ now = Limit + 1              \* the machine has been up for longer
    /\ cancelled = FALSE /\ lost = FALSE /\ signals = 0 /\ pending = 0
    /\ heard = 0 /\ alarm = FALSE /\ stray = {}

Sleeping == \/ pc = "pace" /\ now < next_chunk
            \/ pc = "flush" /\ now < wake

\* Timing assumptions: a healthy radio that is read delivers within Gap, and a
\* thread that was created runs within a unit of time.
Tick ==
    /\ now < MaxTime \/ Sleeping
    /\ rx # "created"
    /\ rx \in {"reading", "callback"} /\ ~lost => now < heard + Gap
    /\ now' = now + 1
    /\ UNCHANGED <<program, lost, signals, pc, do_exit, deviceVars, watchVars,
                   replayVars, rxVars, handler, pending>>

\* External: somebody unplugs the radio.
Lose ==
    /\ rx \in {"created", "reading", "callback"} /\ ~lost /\ now =< MaxLost
    /\ lost' = TRUE
    /\ UNCHANGED <<program, now, signals, pc, do_exit, deviceVars, watchVars,
                   replayVars, rxVars, handler, pending>>

----------------------------------------------------------------------------
(* The signal handler, installed before the device is opened.  A thread    *)
(* that it interrupts does nothing else until it has returned.             *)

MainRuns == handler.pc = "idle" \/ handler.on # "main"
RxRuns == handler.pc = "idle" \/ handler.on # "rx"

Signal(thread) ==
    /\ handler.pc = "idle" /\ signals < MaxSignals /\ pc # "exit"
    /\ thread = "rx" => rx \in {"reading", "callback", "returning"}
    /\ signals' = signals + 1
    /\ do_exit' = TRUE
    /\ handler' = IF program = "rtlsdr" THEN [pc |-> "check", on |-> thread] ELSE Idle
    /\ UNCHANGED <<program, now, lost, pc, deviceVars, watchVars, replayVars,
                   rxVars, pending>>

HandlerCheck ==
    /\ handler.pc = "check"
    /\ handler' = IF device # "null" THEN [handler EXCEPT !.pc = "cancel"] ELSE Idle
    /\ UNCHANGED <<pc, do_exit, deviceVars, watchVars, replayVars, worldVars,
                   rxVars, pending>>

HandlerCancel ==
    /\ handler.pc = "cancel"
    /\ cancelled' = Cancelled
    /\ stray' = Used(handler.on)
    /\ handler' = Idle
    /\ UNCHANGED <<pc, do_exit, deviceVars, watchVars, replayVars, worldVars, rx,
                   pending>>

----------------------------------------------------------------------------
(* The main thread of the two front ends.                                  *)

MainStep(from, to) ==
    /\ pc = from /\ pc' = to
    /\ MainRuns
    /\ UNCHANGED <<replayVars, worldVars, handler>>

\* No radio, or it can not be opened.
OpenFails ==
    /\ program # "replay"
    /\ MainStep("start", "exit")
    /\ UNCHANGED <<do_exit, deviceVars, watchVars, rxVars, pending>>

Open ==
    /\ program # "replay"
    /\ MainStep("start", "configure")
    /\ device' = "open"
    /\ UNCHANGED <<do_exit, bias_tee, streaming, watchVars, rxVars, pending>>

\* A setting the program needs is refused: goto cleanup.  For hackrf the start
\* of the stream is one of them, and comes after the antenna was powered.
RtlsdrConfigureFails ==
    /\ program = "rtlsdr"
    /\ MainStep("configure", Failed)
    /\ UNCHANGED <<do_exit, deviceVars, watchVars, rxVars, pending>>

HackrfConfigureFails ==
    /\ program = "hackrf"
    /\ MainStep("configure", Failed)
    /\ bias_tee' \in BOOLEAN
    /\ UNCHANGED <<do_exit, device, streaming, watchVars, rxVars, pending>>

\* streaming and last_rx_ms are set before the thread is created.
RtlsdrConfigure ==
    /\ program = "rtlsdr"
    /\ MainStep("configure", "loop")
    /\ bias_tee' \in BOOLEAN
    /\ streaming' = TRUE
    /\ last_rx_ms' = FirstRx
    /\ heard' = now
    /\ rx' = "created"
    /\ UNCHANGED <<do_exit, device, now_ms, alarm, cancelled, stray, pending>>

HackrfConfigure ==
    /\ program = "hackrf"
    /\ MainStep("configure", "loop")
    /\ bias_tee' \in BOOLEAN
    /\ streaming' = TRUE
    /\ heard' = now
    /\ rx' = "reading"
    /\ UNCHANGED <<do_exit, device, last_rx_ms, now_ms, alarm, cancelled, stray,
                   pending>>

Loop ==
    /\ MainStep("loop", IF GoesOn THEN "report" ELSE "stop")
    /\ UNCHANGED <<do_exit, deviceVars, watchVars, rxVars, pending>>

\* sleep 100 ms, report_detections
RtlsdrReport ==
    /\ program = "rtlsdr"
    /\ MainStep("report", "clock")
    /\ pending' = AfterReport
    /\ UNCHANGED <<do_exit, deviceVars, watchVars, rxVars>>

HackrfReport ==
    /\ program = "hackrf"
    /\ MainStep("report", "loop")
    /\ pending' = AfterReport
    /\ UNCHANGED <<do_exit, deviceVars, watchVars, rxVars>>

\* The watchdog reads the clock, and then last_rx_ms.
ReadClock ==
    /\ MainStep("clock", "watchdog")
    /\ now_ms' = now
    /\ UNCHANGED <<do_exit, deviceVars, last_rx_ms, heard, alarm, rxVars, pending>>

Watchdog ==
    /\ MainStep("watchdog", "loop")
    /\ do_exit' = (do_exit \/ Silence > Limit)
    /\ alarm' = (alarm \/ do_exit' # do_exit)
    /\ UNCHANGED <<deviceVars, last_rx_ms, now_ms, heard, rxVars, pending>>

\* rtlsdr: rtlsdr_cancel_async and join ...
Cancel ==
    /\ program = "rtlsdr"
    /\ MainStep("stop", "join")
    /\ cancelled' = Cancelled
    /\ stray' = Used("main")
    /\ UNCHANGED <<do_exit, deviceVars, watchVars, rx, pending>>

Join ==
    /\ MainStep("join", "cleanup") /\ Joinable
    /\ UNCHANGED <<do_exit, deviceVars, watchVars, rxVars, pending>>

\* ... hackrf: hackrf_stop_rx.
Stop ==
    /\ program = "hackrf"
    /\ MainStep("stop", "cleanup")
    /\ rx = "reading" /\ rx' = "done"
    /\ UNCHANGED <<do_exit, deviceVars, watchVars, cancelled, stray, pending>>

\* rtlsdr powers the antenna down, closes the device and clears the pointer;
\* hackrf closes the device.
RtlsdrClose ==
    /\ program = "rtlsdr"
    /\ MainStep("cleanup", "clear")
    /\ bias_tee' = FALSE
    /\ device' = "closed"
    /\ UNCHANGED <<do_exit, streaming, watchVars, rxVars, pending>>

HackrfClose ==
    /\ program = "hackrf"
    /\ MainStep("cleanup", "exit")
    /\ device' = "closed"
    /\ UNCHANGED <<do_exit, bias_tee, streaming, watchVars, rxVars, pending>>

Clear ==
    /\ MainStep("clear", "exit")
    /\ device' = "null"
    /\ UNCHANGED <<do_exit, bias_tee, streaming, watchVars, rxVars, pending>>

----------------------------------------------------------------------------
(* The radio's thread.                                                     *)

RxStep(from, to) ==
    /\ rx = from /\ rx' = to
    /\ RxRuns
    /\ UNCHANGED <<pc, do_exit, device, bias_tee, now_ms, alarm, replayVars,
                   worldVars, handler, cancelled>>

\* rtlsdr_read_async begins, or fails at once.
ReadBegin ==
    /\ \E to \in {"reading", "returning"} : RxStep("created", to)
    /\ stray' = Used("rx")
    /\ UNCHANGED <<streaming, last_rx_ms, heard, pending>>

\* Samples arrive: nothing is done with them once do_exit is set.
Samples ==
    /\ ~lost
    /\ RxStep("reading", IF do_exit THEN "reading" ELSE "callback")
    /\ heard' = now
    /\ UNCHANGED <<streaming, stray, pending>>

RtlsdrCallback ==
    /\ program = "rtlsdr"
    /\ Samples
    /\ last_rx_ms' = IF do_exit THEN last_rx_ms ELSE now

HackrfCallback ==
    /\ program = "hackrf"
    /\ Samples
    /\ UNCHANGED last_rx_ms

\* detect_frames finds a passing, or not.
RxDetect ==
    /\ RxStep("callback", "reading")
    /\ pending' \in {pending, now}
    /\ UNCHANGED <<streaming, last_rx_ms, heard, stray>>

\* External: librtlsdr returns when it was cancelled, and may when the radio is
\* lost; libhackrf notices a lost radio, or does not.
ReadReturns ==
    /\ program = "rtlsdr" /\ (cancelled \/ lost)
    /\ RxStep("reading", "returning")
    /\ UNCHANGED <<streaming, last_rx_ms, heard, stray, pending>>

HackrfStops ==
    /\ program = "hackrf" /\ lost /\ streaming
    /\ RxStep("reading", "reading")
    /\ streaming' = FALSE
    /\ UNCHANGED <<last_rx_ms, heard, stray, pending>>

RxDone ==
    /\ RxStep("returning", "done")
    /\ streaming' = FALSE
    /\ UNCHANGED <<last_rx_ms, heard, stray, pending>>

----------------------------------------------------------------------------
(* replay_capture.  Chunks are paced by next_chunk, which is set once.     *)

ReplayStep(from, to) ==
    /\ pc = from /\ pc' = to
    /\ UNCHANGED <<do_exit, deviceVars, watchVars, worldVars, rxVars, handler>>

ReplayStart ==
    /\ program = "replay"
    /\ ReplayStep("start", "source")
    /\ next_chunk' = now
    /\ UNCHANGED <<source, chunk, wake, pending>>

HasSource == ~do_exit /\ source =< Len(Captures)

ReplayOpens ==
    /\ HasSource
    /\ ReplayStep("source", "read")
    /\ chunk' = 0
    /\ UNCHANGED <<source, next_chunk, wake, pending>>

\* A file that can not be opened is left out.
ReplaySkips ==
    /\ HasSource
    /\ ReplayStep("source", "source")
    /\ source' = source + 1
    /\ UNCHANGED <<chunk, next_chunk, wake, pending>>

ReplayEnds ==
    /\ ~HasSource
    /\ ReplayStep("source", "exit")
    /\ UNCHANGED <<replayVars, pending>>

\* A chunk is read and handed to the callback, which looks at do_exit again.  Its
\* frames are stamped now: what a stamp runs ahead within a chunk is less than the
\* margin of the flush.
HasChunk == ~do_exit /\ chunk < Captures[source]

ReplayChunk ==
    /\ pc = "read" /\ HasChunk
    /\ ReplayStep("read", "chunk_report")
    /\ pending' \in {pending, now}
    /\ chunk' = chunk + 1
    /\ UNCHANGED <<source, next_chunk, wake>>

ReplayReport ==
    /\ ReplayStep("chunk_report", "pace")
    /\ pending' = AfterReport
    /\ next_chunk' = next_chunk + 1
    /\ UNCHANGED <<source, chunk, wake>>

\* sleep_until(next_chunk)
ReplayPace ==
    /\ now >= next_chunk
    /\ ReplayStep("pace", "read")
    /\ UNCHANGED <<replayVars, pending>>

\* End of the file or do_exit: 500 ms later the final report.
ReplayFileEnds ==
    /\ pc = "read" /\ ~HasChunk
    /\ ReplayStep("read", "flush")
    /\ wake' = now + FlushTime
    /\ UNCHANGED <<source, chunk, next_chunk, pending>>

ReplayFinalReport ==
    /\ now >= wake
    /\ ReplayStep("flush", "source")
    /\ pending' = AfterReport
    /\ source' = source + 1
    /\ UNCHANGED <<chunk, next_chunk, wake>>

----------------------------------------------------------------------------
Handler == HandlerCheck \/ HandlerCancel

FrontEnd ==
    \/ OpenFails \/ Open
    \/ RtlsdrConfigureFails \/ RtlsdrConfigure \/ HackrfConfigureFails \/ HackrfConfigure
    \/ Loop \/ RtlsdrReport \/ HackrfReport \/ ReadClock \/ Watchdog
    \/ Cancel \/ Join \/ Stop \/ RtlsdrClose \/ HackrfClose \/ Clear

Replay ==
    \/ ReplayStart \/ ReplayOpens \/ ReplaySkips \/ ReplayEnds
    \/ ReplayChunk \/ ReplayReport \/ ReplayPace
    \/ ReplayFileEnds \/ ReplayFinalReport

RxThread ==
    \/ ReadBegin \/ RtlsdrCallback \/ HackrfCallback \/ RxDetect
    \/ ReadReturns \/ HackrfStops \/ RxDone

Next ==
    \/ Tick \/ Lose
    \/ \E thread \in {"main", "rx"} : Signal(thread)
    \/ Handler \/ FrontEnd \/ Replay \/ RxThread

Spec == Init /\ [][Next]_vars

\* The clock and both threads run, a handler returns, and librtlsdr ends a read
\* that was cancelled.  Nothing obliges it to notice a lost radio.
Fairness ==
    /\ WF_vars(Tick)
    /\ WF_vars(Handler)
    /\ WF_vars(FrontEnd)
    /\ WF_vars(Replay)
    /\ WF_vars(ReadBegin)
    /\ WF_vars(RxDetect)
    /\ WF_vars(cancelled /\ ReadReturns)
    /\ WF_vars(RxDone)

FairSpec == Spec /\ Fairness

----------------------------------------------------------------------------
LoopPcs == {"loop", "report", "clock", "watchdog"}
CapturePcs == {"read", "chunk_report", "pace", "flush"}
MainPcs == LoopPcs \cup CapturePcs \cup
    {"start", "configure", "stop", "join", "cleanup", "clear", "source", "exit"}

\* Types of every variable.  The radio was not heard in the future, and a
\* replay at work has a capture.
TypeOK ==
    /\ program \in {"rtlsdr", "hackrf", "replay"} /\ pc \in MainPcs
    /\ device \in {"null", "open", "closed"}
    /\ bias_tee \in BOOLEAN /\ do_exit \in BOOLEAN /\ streaming \in BOOLEAN
    /\ now \in Nat /\ last_rx_ms \in 0..now /\ now_ms \in 0..now /\ heard \in 0..now
    /\ rx \in {"none", "created", "reading", "callback", "returning", "done"}
    /\ handler \in [pc : {"idle", "check", "cancel"}, on : {"main", "rx"}]
    /\ source \in 1..(Len(Captures) + 1) /\ chunk \in Nat
    /\ pc \in CapturePcs => source =< Len(Captures)
    /\ next_chunk \in Nat /\ wake \in Nat
    /\ cancelled \in BOOLEAN /\ lost \in BOOLEAN /\ alarm \in BOOLEAN
    /\ signals \in Nat /\ pending \in 0..now
    /\ stray \subseteq [at : MainPcs, by : {"main", "rx"}]

\* The radio's thread has ended before the device is closed and the program
\* returns from main, whichever of signal, watchdog, lost radio and failed
\* setup ended it, and no handler is left on it.
ThreadEndsFirst ==
    device # "open" /\ pc \notin {"start", "configure"} =>
      rx \in {"none", "done"} /\ (handler.pc # "idle" => handler.on = "main")

\* The handle of a closed device is used in one place only: by a handler that
\* interrupts the main thread between rtlsdr_close and device = nullptr.
ClosedUnused ==
    \A use \in stray : use = [at |-> "clear", by |-> "main"]

\* The device is closed and, for rtlsdr, the antenna's power is off however the
\* program ends.
ClosedAtExit ==
    pc = "exit" => device # "open" /\ (program = "rtlsdr" => ~bias_tee)

\* The three together: the shutdown of both front ends (main_rtlsdr.cpp:268-282,
\* main_hackrf.cpp:231-245) leaves nobody with a device that is gone.
DeviceReleased == ThreadEndsFirst /\ ClosedUnused /\ ClosedAtExit

\* "No samples for 2s -- device lost?" (main_rtlsdr.cpp:263): the watchdog never
\* ends a program whose radio delivers, although samples may arrive between its
\* two reads and the first of them come only after the loop has begun.
AlarmForCause == alarm => lost \/ rx \in {"returning", "done"}

\* "give the pipeline a moment to flush, then emit the final report"
\* (capture.cpp:77): no detection of a capture is left when the next one is
\* opened or the program ends, also when a signal ends it.
ReplayReportsAll ==
    pc = "source" \/ (program = "replay" /\ pc = "exit") => pending = 0

\* "main loop -- exit when handler sets do_exit or device stops streaming"
\* (main_rtlsdr.cpp:252): a signal ends each program, and a radio that falls
\* silent the RTL-SDR one, noticed by its library or not. There the read must
\* have begun.
Reading == pc \in LoopPcs /\ rx # "created"
Ending == do_exit \/ (program = "rtlsdr" /\ lost)

Stops == Ending /\ (program = "rtlsdr" => Reading) ~> pc = "exit"

\* The same without the condition on the read: "signal handler to break the
\* capture loop" (main_rtlsdr.cpp:34), "ensure async reading is cancelled" (:268).
SignalStops == do_exit ~> pc = "exit"

----------------------------------------------------------------------------
(* What makes these properties inductive.                                  *)

ReplayPcs == CapturePcs \cup {"source"}
RxStarted == {"created", "reading", "callback"}

\* Which thread is where: the main thread's place decides what the device is and
\* whether there is a radio's thread; a handler holds up what it interrupts.
MainInv ==
    /\ pc = "start" => device = "null" /\ rx = "none" /\ ~bias_tee
    /\ pc = "configure" => device = "open" /\ rx = "none" /\ program # "replay" /\ ~bias_tee
    /\ pc \in LoopPcs \cup {"stop", "join"} => device = "open" /\ rx # "none" /\ program # "replay"
    /\ pc = "cleanup" => device = "open" /\ rx \in {"none", "done"} /\ program # "replay"
    /\ pc = "clear" => device = "closed" /\ rx \in {"none", "done"} /\ ~bias_tee
    /\ pc = "exit" => device # "open" /\ rx \in {"none", "done"}
    /\ pc \in ReplayPcs => device = "null" /\ rx = "none" /\ program = "replay"
    /\ pc \in {"clock", "watchdog", "join", "clear"} => program = "rtlsdr"

HandlerInv ==
    /\ handler.pc # "idle" => program = "rtlsdr"
    /\ handler.on = "rx" /\ handler.pc # "idle" => rx \in {"reading", "callback", "returning"}
    /\ program = "rtlsdr" /\ pc = "exit" => device = "null" /\ ~bias_tee

ControlInv == MainInv /\ HandlerInv

\* The radio is heard within Gap, and last_rx_ms says when, until do_exit is set.
WatchInv ==
    /\ rx \in RxStarted /\ ~lost => now =< heard + Gap
    /\ rx \in RxStarted /\ ~do_exit /\ program = "rtlsdr" => last_rx_ms = heard

\* What is pending at the end of a capture is quiet when the flush is over.
FlushInv ==
    /\ program = "replay" /\ pc = "start" => pending = 0
    /\ pc = "flush" => pending + Flush =< wake
============================================================================
