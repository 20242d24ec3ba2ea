----------------------- MODULE DeviceLifecycleProofs -----------------------
(* Proofs about DeviceLifecycle for every value of its constants.          *)
EXTENDS DeviceLifecycle, TLAPS

----------------------------------------------------------------------------
(* Types.                                                                  *)

LEMMA TypeInit == Init => TypeOK
<1> SUFFICES ASSUME Init PROVE TypeOK
  OBVIOUS
<1> USE DEF Init
<1>1. Len(Captures) \in Nat /\ Limit \in Nat
  BY LifeAssumption
<1>2. /\ now \in Nat /\ last_rx_ms \in 0..now /\ now_ms \in 0..now /\ heard \in 0..now
      /\ pending \in 0..now /\ source \in 1..(Len(Captures) + 1)
  BY <1>1
<1>3. handler \in [pc : {"idle", "check", "cancel"}, on : {"main", "rx"}]
  BY DEF Idle
<1> QED BY <1>2, <1>3 DEF TypeOK, MainPcs, CapturePcs

\* A detection that is reported leaves nothing pending, and none is in the
\* future.
LEMMA ReportLemma == TypeOK => AfterReport \in {0, pending}
BY DEF AfterReport

LEMMA TypeNext == TypeOK /\ [Next]_vars => TypeOK'
<1> SUFFICES ASSUME TypeOK, [Next]_vars PROVE TypeOK'
  OBVIOUS
<1> USE LifeAssumption
<1>1. CASE Tick
  BY <1>1 DEF Tick, TypeOK, deviceVars, watchVars, replayVars, rxVars
<1>2. CASE Lose
  BY <1>2 DEF Lose, TypeOK, deviceVars, watchVars, replayVars, rxVars
<1>3. ASSUME NEW thread \in {"main", "rx"}, Signal(thread) PROVE TypeOK'
  BY <1>3 DEF Signal, TypeOK, Idle, deviceVars, watchVars, replayVars, rxVars
<1>4. CASE HandlerCheck
  <2>1. handler' \in [pc : {"idle", "check", "cancel"}, on : {"main", "rx"}]
    BY <1>4 DEF HandlerCheck, TypeOK, Idle
  <2> QED BY <1>4, <2>1 DEF HandlerCheck, TypeOK, deviceVars, watchVars,
     replayVars, worldVars, rxVars
<1>5. CASE HandlerCancel
  BY <1>5 DEF HandlerCancel, TypeOK, Idle, Used, Cancelled, deviceVars, watchVars,
     replayVars, worldVars
<1>6. CASE FrontEnd
  <2> USE DEF MainStep, TypeOK, MainPcs, LoopPcs, CapturePcs, replayVars, worldVars
  <2>1. CASE OpenFails
    BY <2>1 DEF OpenFails, deviceVars, watchVars, rxVars
  <2>2. CASE Open
    BY <2>2 DEF Open, watchVars, rxVars
  <2>3. CASE RtlsdrConfigureFails
    <3>1. bias_tee' \in BOOLEAN
      BY <2>3 DEF RtlsdrConfigureFails, deviceVars
    <3> QED BY <2>3, <3>1 DEF RtlsdrConfigureFails, Failed, deviceVars,
       watchVars, rxVars
  <2>4. CASE HackrfConfigureFails
    <3>1. bias_tee' \in BOOLEAN
      BY <2>4 DEF HackrfConfigureFails
    <3> QED BY <2>4, <3>1 DEF HackrfConfigureFails, Failed, watchVars, rxVars
  <2>5. CASE RtlsdrConfigure
    BY <2>5 DEF RtlsdrConfigure, FirstRx
  <2>6. CASE HackrfConfigure
    BY <2>6 DEF HackrfConfigure
  <2>7. CASE Loop
    BY <2>7 DEF Loop, deviceVars, watchVars, rxVars
  <2>8. CASE RtlsdrReport
    BY <2>8, ReportLemma DEF RtlsdrReport, deviceVars, watchVars, rxVars
  <2>9. CASE HackrfReport
    BY <2>9, ReportLemma DEF HackrfReport, deviceVars, watchVars, rxVars
  <2>10. CASE ReadClock
    BY <2>10 DEF ReadClock, deviceVars, rxVars
  <2>11. CASE Watchdog
    <3>1. do_exit' \in BOOLEAN /\ alarm' \in BOOLEAN
      BY <2>11 DEF Watchdog
    <3> QED BY <2>11, <3>1 DEF Watchdog, deviceVars, rxVars
  <2>12. CASE Cancel
    BY <2>12 DEF Cancel, Used, Cancelled, deviceVars, watchVars
  <2>13. CASE Join
    BY <2>13 DEF Join, deviceVars, watchVars, rxVars
  <2>14. CASE Stop
    BY <2>14 DEF Stop, deviceVars, watchVars
  <2>15. CASE RtlsdrClose
    <3>1. bias_tee' \in BOOLEAN
      BY <2>15 DEF RtlsdrClose
    <3>2. /\ pc' \in MainPcs /\ device' = "closed"
          /\ UNCHANGED <<program, do_exit, streaming, last_rx_ms, now_ms, heard, alarm, rx,
                         cancelled, stray, source, chunk, next_chunk, wake, now, lost,
                         signals, handler, pending>>
      BY <2>15 DEF RtlsdrClose, watchVars, rxVars
    <3>3. pc' \notin CapturePcs
      BY <2>15 DEF RtlsdrClose
    <3> HIDE DEF MainStep, MainPcs, LoopPcs, CapturePcs, replayVars, worldVars
    <3> QED BY <3>1, <3>2, <3>3
  <2>16. CASE HackrfClose
    BY <2>16 DEF HackrfClose, watchVars, rxVars
  <2>17. CASE Clear
    BY <2>17 DEF Clear, watchVars, rxVars
  <2> QED BY <1>6, <2>1, <2>2, <2>3, <2>4, <2>5, <2>6, <2>7, <2>8, <2>9, <2>10,
             <2>11, <2>12, <2>13, <2>14, <2>15, <2>16, <2>17 DEF FrontEnd
<1>7. CASE Replay
  <2> USE DEF ReplayStep, TypeOK, MainPcs, LoopPcs, CapturePcs, deviceVars,
     watchVars, worldVars, rxVars
  <2>1. CASE ReplayStart
    BY <2>1 DEF ReplayStart
  <2>2. CASE ReplayOpens
    BY <2>2 DEF ReplayOpens, HasSource
  <2>3. CASE ReplaySkips
    BY <2>3 DEF ReplaySkips, HasSource
  <2>4. CASE ReplayEnds
    BY <2>4 DEF ReplayEnds, replayVars
  <2>5. CASE ReplayChunk
    BY <2>5 DEF ReplayChunk
  <2>6. CASE ReplayReport
    BY <2>6, ReportLemma DEF ReplayReport
  <2>7. CASE ReplayPace
    BY <2>7 DEF ReplayPace, replayVars
  <2>8. CASE ReplayFileEnds
    BY <2>8 DEF ReplayFileEnds, FlushTime
  <2>9. CASE ReplayFinalReport
    BY <2>9, ReportLemma DEF ReplayFinalReport
  <2> QED BY <1>7, <2>1, <2>2, <2>3, <2>4, <2>5, <2>6, <2>7, <2>8, <2>9 DEF Replay
<1>8. CASE RxThread
  <2> USE DEF RxStep, TypeOK, replayVars, worldVars
  <2>1. CASE ReadBegin
    BY <2>1 DEF ReadBegin, Used
  <2>2. CASE RtlsdrCallback
    BY <2>2 DEF RtlsdrCallback, Samples
  <2>3. CASE HackrfCallback
    BY <2>3 DEF HackrfCallback, Samples
  <2>4. CASE RxDetect
    BY <2>4 DEF RxDetect
  <2>5. CASE ReadReturns
    BY <2>5 DEF ReadReturns
  <2>6. CASE HackrfStops
    BY <2>6 DEF HackrfStops
  <2>7. CASE RxDone
    <3>1. rx' = "done" /\ streaming' \in BOOLEAN
      BY <2>7 DEF RxDone
    <3>2. UNCHANGED <<pc, do_exit, device, bias_tee, now_ms, alarm, source, chunk,
                      next_chunk, wake, program, now, lost, signals, handler,
                      cancelled, last_rx_ms, heard, stray, pending>>
      BY <2>7 DEF RxDone
    <3> HIDE DEF RxStep, replayVars, worldVars
    <3> QED BY <3>1, <3>2
  <2> QED BY <1>8, <2>1, <2>2, <2>3, <2>4, <2>5, <2>6, <2>7 DEF RxThread
<1>9. CASE UNCHANGED vars
  BY <1>9 DEF vars, TypeOK, deviceVars, watchVars, replayVars, worldVars, rxVars
<1> QED BY <1>1, <1>2, <1>3, <1>4, <1>5, <1>6, <1>7, <1>8, <1>9 DEF Next, Handler

\* Every variable keeps its type: no time is in the future of the clock, and the
\* replay is at a file it was given.
THEOREM TypeCorrect == Spec => []TypeOK
<1> QED BY TypeInit, TypeNext, PTL DEF Spec

----------------------------------------------------------------------------
(* The shutdown.                                                           *)

LEMMA ControlInit == Init => ControlInv /\ ClosedUnused
BY DEF Init, ControlInv, MainInv, HandlerInv, ClosedUnused, Idle, LoopPcs, ReplayPcs,
   CapturePcs

\* What is outside of the two front ends' threads does not touch them.
LEMMA ControlUnchanged ==
    ASSUME ControlInv, UNCHANGED <<pc, device, bias_tee, rx, program, handler>>
    PROVE  ControlInv'
BY DEF ControlInv, MainInv, HandlerInv

LEMMA ControlSignal ==
    ASSUME ControlInv, NEW thread \in {"main", "rx"}, Signal(thread)
    PROVE  ControlInv'
<1> USE DEF Signal, worldVars, deviceVars, rxVars
<1>1. MainInv'
  BY DEF ControlInv, MainInv
<1>2. HandlerInv'
  BY DEF ControlInv, HandlerInv, Idle
<1> QED BY <1>1, <1>2 DEF ControlInv

LEMMA ControlHandler ==
    ASSUME TypeOK, ControlInv, Handler
    PROVE  ControlInv'
<1> USE DEF Handler, HandlerCheck, HandlerCancel, worldVars, deviceVars, rxVars
<1>1. MainInv'
  BY DEF ControlInv, MainInv
<1>2. handler'.pc # "idle" => handler'.on = handler.on /\ handler.pc # "idle"
  <2>1. handler \in [pc : {"idle", "check", "cancel"}, on : {"main", "rx"}]
    BY DEF TypeOK
  <2> QED BY <2>1 DEF Idle
<1>3. HandlerInv'
  BY <1>2 DEF ControlInv, HandlerInv
<1> QED BY <1>1, <1>3 DEF ControlInv

\* One step of the main thread in a front end.
LEMMA ControlFrontEnd ==
    ASSUME TypeOK, ControlInv, FrontEnd
    PROVE  ControlInv'
<1> USE DEF ControlInv, MainInv, HandlerInv, MainStep, LoopPcs, ReplayPcs, CapturePcs,
            replayVars, worldVars
<1>1. program \in {"rtlsdr", "hackrf", "replay"}
  BY DEF TypeOK
<1>2. CASE OpenFails
  BY <1>2 DEF OpenFails, deviceVars, watchVars, rxVars
<1>3. CASE Open
  BY <1>3 DEF Open, rxVars
<1>4. CASE RtlsdrConfigureFails
  BY <1>1, <1>4 DEF RtlsdrConfigureFails, Failed, deviceVars, rxVars
<1>5. CASE HackrfConfigureFails
  BY <1>1, <1>5 DEF HackrfConfigureFails, Failed, rxVars
<1>6. CASE RtlsdrConfigure
  BY <1>1, <1>6 DEF RtlsdrConfigure
<1>7. CASE HackrfConfigure
  BY <1>1, <1>7 DEF HackrfConfigure
<1>8. CASE Loop
  BY <1>8 DEF Loop, deviceVars, rxVars
<1>9. CASE RtlsdrReport
  BY <1>9 DEF RtlsdrReport, deviceVars, rxVars
<1>10. CASE HackrfReport
  BY <1>10 DEF HackrfReport, deviceVars, rxVars
<1>11. CASE ReadClock
  BY <1>11 DEF ReadClock, deviceVars, rxVars
<1>12. CASE Watchdog
  BY <1>12 DEF Watchdog, deviceVars, rxVars
<1>13. CASE Cancel
  BY <1>13 DEF Cancel, deviceVars
<1>14. CASE Join
  BY <1>14 DEF Join, Joinable, deviceVars, rxVars
<1>15. CASE Stop
  BY <1>15 DEF Stop, deviceVars
<1>16. CASE RtlsdrClose
  BY <1>1, <1>16 DEF RtlsdrClose, rxVars
<1>17. CASE HackrfClose
  BY <1>1, <1>17 DEF HackrfClose, rxVars
<1>18. CASE Clear
  BY <1>18 DEF Clear, rxVars
<1> QED BY <1>2, <1>3, <1>4, <1>5, <1>6, <1>7, <1>8, <1>9, <1>10, <1>11, <1>12,
           <1>13, <1>14, <1>15, <1>16, <1>17, <1>18 DEF FrontEnd

\* A replay has neither a device nor a radio's thread.
LEMMA ControlReplay ==
    ASSUME ControlInv, Replay
    PROVE  ControlInv'
<1>1. /\ device = "null" /\ rx = "none" /\ program = "replay"
      /\ UNCHANGED <<device, bias_tee, rx, program, handler>>
      /\ pc' \in ReplayPcs \cup {"exit"}
  BY DEF Replay, ReplayStep, ReplayStart, ReplayOpens, ReplaySkips, ReplayEnds,
     ReplayChunk, ReplayReport, ReplayPace, ReplayFileEnds, ReplayFinalReport,
     ControlInv, MainInv, ReplayPcs, CapturePcs, deviceVars, worldVars, rxVars
<1> QED BY <1>1 DEF ControlInv, MainInv, HandlerInv, ReplayPcs, CapturePcs, LoopPcs

\* The radio's thread moves only while the device is open, and only when no
\* handler holds it up.
LEMMA ControlRxThread ==
    ASSUME TypeOK, ControlInv, RxThread
    PROVE  ControlInv'
<1>1. /\ rx \notin {"none", "done"} /\ RxRuns /\ rx' # "none"
      /\ UNCHANGED <<pc, device, bias_tee, program, handler>>
  BY DEF RxThread, RxStep, ReadBegin, RtlsdrCallback, HackrfCallback, Samples,
     RxDetect, ReadReturns, HackrfStops,
     RxDone, worldVars
<1>2. pc \in LoopPcs \cup {"stop", "join"}
  BY <1>1 DEF ControlInv, MainInv, TypeOK, MainPcs, ReplayPcs, CapturePcs
<1>3. MainInv'
  BY <1>1, <1>2 DEF ControlInv, MainInv, ReplayPcs, CapturePcs, LoopPcs
<1>4. HandlerInv'
  BY <1>1, <1>2 DEF ControlInv, HandlerInv, RxRuns, LoopPcs, TypeOK
<1> QED BY <1>3, <1>4 DEF ControlInv

LEMMA ControlNext == TypeOK /\ ControlInv /\ [Next]_vars => ControlInv'
<1> SUFFICES ASSUME TypeOK, ControlInv, [Next]_vars PROVE ControlInv'
  OBVIOUS
<1>1. CASE Tick \/ Lose
  BY <1>1, ControlUnchanged DEF Tick, Lose, deviceVars, rxVars, replayVars, watchVars
<1>2. CASE UNCHANGED vars
  BY <1>2, ControlUnchanged DEF vars, deviceVars, rxVars, worldVars
<1> QED BY <1>1, <1>2, ControlSignal, ControlHandler, ControlFrontEnd, ControlReplay,
           ControlRxThread DEF Next

\* A device is used after it was closed by a handler on the main thread only,
\* and only before the pointer is cleared.
LEMMA ClosedUnusedNext ==
    TypeOK /\ ControlInv /\ ClosedUnused /\ [Next]_vars => ClosedUnused'
<1> SUFFICES ASSUME TypeOK, ControlInv, ClosedUnused, [Next]_vars PROVE ClosedUnused'
  OBVIOUS
<1>1. CASE HandlerCancel
  <2>1. device = "closed" => pc = "clear" /\ handler.on = "main"
    BY <1>1 DEF HandlerCancel, ControlInv, MainInv, HandlerInv, TypeOK, MainPcs,
       LoopPcs,
       ReplayPcs, CapturePcs
  <2> QED BY <1>1, <2>1 DEF HandlerCancel, Used, ClosedUnused
<1>2. CASE Cancel
  <2>1. device = "open"
    BY <1>2 DEF Cancel, MainStep, ControlInv, MainInv
  <2> QED BY <1>2, <2>1 DEF Cancel, Used, ClosedUnused
<1>3. CASE ReadBegin
  <2>1. rx = "created"
    BY <1>3 DEF ReadBegin, RxStep
  <2>2. device = "open"
    BY <2>1 DEF ControlInv, MainInv, TypeOK, MainPcs, ReplayPcs, CapturePcs
  <2> QED BY <1>3, <2>2 DEF ReadBegin, Used, ClosedUnused
<1>4. ASSUME UNCHANGED stray PROVE ClosedUnused'
  BY <1>4 DEF ClosedUnused
<1>5. CASE Tick \/ Lose \/ HandlerCheck \/ UNCHANGED vars
  BY <1>4, <1>5 DEF Tick, Lose, HandlerCheck, vars, rxVars
<1>6. ASSUME NEW thread \in {"main", "rx"}, Signal(thread) PROVE ClosedUnused'
  BY <1>4, <1>6 DEF Signal, rxVars
<1>7. CASE FrontEnd /\ ~Cancel
  BY <1>4, <1>7 DEF FrontEnd, OpenFails, Open, RtlsdrConfigureFails,
     HackrfConfigureFails, RtlsdrConfigure, HackrfConfigure, Loop, RtlsdrReport,
     HackrfReport,
     ReadClock, Watchdog, Join, Stop, RtlsdrClose, HackrfClose, Clear, rxVars
<1>8. CASE Replay
  BY <1>4, <1>8 DEF Replay, ReplayStep, ReplayStart, ReplayOpens, ReplaySkips,
     ReplayEnds, ReplayChunk, ReplayReport, ReplayPace, ReplayFileEnds,
     ReplayFinalReport, rxVars
<1>9. CASE RxThread /\ ~ReadBegin
  BY <1>4, <1>9 DEF RxThread, RtlsdrCallback, HackrfCallback, Samples, RxDetect,
     ReadReturns, HackrfStops, RxDone
<1> QED BY <1>1, <1>2, <1>3, <1>5, <1>6, <1>7, <1>8, <1>9 DEF Next, Handler

\* However a program ends, the radio's thread has ended before its device is
\* closed, the device is closed at the exit, and the antenna's power is off.
THEOREM DeviceReleasedCorrect == Spec => []DeviceReleased
<1> DEFINE IInv == TypeOK /\ ControlInv /\ ClosedUnused
<1>1. Init => IInv
  BY TypeInit, ControlInit
<1>2. IInv /\ [Next]_vars => IInv'
  BY TypeNext, ControlNext, ClosedUnusedNext
<1>3. IInv => DeviceReleased
  <2> SUFFICES ASSUME TypeOK, ControlInv, ClosedUnused PROVE DeviceReleased
    OBVIOUS
  <2> USE DEF ControlInv, MainInv, HandlerInv, TypeOK, MainPcs, LoopPcs, ReplayPcs,
     CapturePcs
  <2>1. ThreadEndsFirst
    BY DEF ThreadEndsFirst
  <2>2. ClosedAtExit
    BY DEF ClosedAtExit
  <2> QED BY <2>1, <2>2 DEF DeviceReleased
<1> QED BY <1>1, <1>2, <1>3, PTL DEF Spec

----------------------------------------------------------------------------
(* The watchdog.                                                           *)

\* What happens to WatchInv and AlarmForCause while nothing is delivered.
LEMMA WatchUnchanged ==
    ASSUME WatchInv, AlarmForCause,
           UNCHANGED <<rx, now, heard, last_rx_ms, program, alarm>>,
           do_exit => do_exit', lost => lost'
    PROVE  WatchInv' /\ AlarmForCause'
BY DEF WatchInv, AlarmForCause, RxStarted

\* A radio that is read and not lost was heard at most Limit ago: the clock the
\* watchdog has read is not past it.
LEMMA WatchdogLemma ==
    ASSUME TypeOK, ControlInv, WatchInv, pc = "watchdog", ~do_exit, Silence > Limit
    PROVE  lost \/ rx \in {"returning", "done"}
<1>1. program = "rtlsdr"
  BY DEF ControlInv, MainInv
<1>2. SUFFICES ASSUME ~lost, rx \in RxStarted PROVE FALSE
  BY DEF TypeOK, ControlInv, MainInv, LoopPcs, RxStarted
<1>3. now =< heard + Gap /\ last_rx_ms = heard
  BY <1>1, <1>2 DEF WatchInv
<1>4. now_ms \in Nat /\ now \in Nat /\ heard \in Nat /\ now_ms =< now
  BY DEF TypeOK
<1>5. Gap \in Nat /\ Limit \in Nat /\ Gap =< Limit
  BY LifeAssumption
<1> QED BY <1>3, <1>4, <1>5 DEF Silence

LEMMA WatchFrontEnd ==
    ASSUME TypeOK, ControlInv, WatchInv, AlarmForCause, FrontEnd
    PROVE  WatchInv' /\ AlarmForCause'
<1> USE DEF MainStep, worldVars
<1>1. CASE \/ OpenFails \/ Open \/ RtlsdrConfigureFails \/ HackrfConfigureFails \/ Loop
           \/ Join \/ RtlsdrClose \/ HackrfClose \/ Clear \/ RtlsdrReport \/ HackrfReport
           \/ ReadClock \/ Cancel
  <2>1. UNCHANGED <<rx, now, heard, last_rx_ms, program, alarm, do_exit, lost>>
    BY <1>1 DEF OpenFails, Open, RtlsdrConfigureFails, HackrfConfigureFails,
       Loop, Join, RtlsdrClose, HackrfClose, Clear, RtlsdrReport, HackrfReport,
       ReadClock, Cancel, deviceVars, watchVars, rxVars
  <2> QED BY <2>1, WatchUnchanged
<1>2. CASE RtlsdrConfigure
  <2>1. /\ UNCHANGED <<now, program, alarm, lost>> /\ heard' = now /\ pc' = "loop"
        /\ program = "rtlsdr" => last_rx_ms' = now
        /\ rx = "none"
    BY <1>2 DEF RtlsdrConfigure, FirstRx, ControlInv, MainInv
  <2>2. WatchInv'
    <3>1. now \in Nat /\ Gap \in Nat
      BY LifeAssumption DEF TypeOK
    <3> QED BY <2>1, <3>1 DEF WatchInv
  <2>3. AlarmForCause'
    BY <2>1 DEF AlarmForCause
  <2> QED BY <2>2, <2>3
<1>3. CASE HackrfConfigure
  <2>1. /\ UNCHANGED <<now, program, alarm, lost>> /\ heard' = now /\ pc' = "loop"
        /\ program = "rtlsdr" => last_rx_ms' = now
        /\ rx = "none"
    BY <1>3 DEF HackrfConfigure, ControlInv, MainInv
  <2>2. WatchInv'
    <3>1. now \in Nat /\ Gap \in Nat
      BY LifeAssumption DEF TypeOK
    <3> QED BY <2>1, <3>1 DEF WatchInv
  <2>3. AlarmForCause'
    BY <2>1 DEF AlarmForCause
  <2> QED BY <2>2, <2>3
<1>4. CASE Watchdog
  <2>1. /\ UNCHANGED <<rx, now, heard, last_rx_ms, program, lost>>
        /\ pc = "watchdog"
    BY <1>4 DEF Watchdog, rxVars
  <2>2. do_exit => do_exit'
    BY <1>4 DEF Watchdog
  <2>3. WatchInv'
    BY <2>1, <2>2 DEF WatchInv
  <2>4. ASSUME lost \/ rx \in {"returning", "done"} PROVE AlarmForCause'
    BY <2>1, <2>4 DEF AlarmForCause
  <2>5. CASE alarm
    <3>1. lost \/ rx \in {"returning", "done"}
      BY <2>5 DEF AlarmForCause
    <3> QED BY <3>1, <2>3, <2>4
  <2>6. CASE ~do_exit /\ Silence > Limit
    <3>1. lost \/ rx \in {"returning", "done"}
      BY <2>1, <2>6, WatchdogLemma
    <3> QED BY <3>1, <2>3, <2>4
  <2>7. CASE ~alarm /\ (do_exit \/ ~(Silence > Limit))
    <3>1. do_exit' = do_exit
      <4>1. do_exit \in BOOLEAN
        BY DEF TypeOK
      <4>2. do_exit' = (do_exit \/ Silence > Limit)
        BY <1>4 DEF Watchdog
      <4> QED BY <4>1, <4>2, <2>7
    <3>2. ~alarm'
      BY <1>4, <2>7, <3>1, Zenon DEF Watchdog
    <3> QED BY <2>3, <3>2 DEF AlarmForCause
  <2> QED BY <2>5, <2>6, <2>7
<1>5. CASE Stop
  BY <1>5 DEF Stop, deviceVars, watchVars, WatchInv, AlarmForCause, RxStarted
<1> QED BY <1>1, <1>2, <1>3, <1>4, <1>5 DEF FrontEnd

LEMMA WatchRxThread ==
    ASSUME TypeOK, ControlInv, WatchInv, AlarmForCause, RxThread
    PROVE  WatchInv' /\ AlarmForCause'
<1> USE DEF RxStep, worldVars
<1>1. CASE ReadBegin
  BY <1>1 DEF ReadBegin, WatchInv, AlarmForCause, RxStarted
<1>2. CASE RtlsdrCallback
  <2>1. /\ UNCHANGED <<now, program, alarm, do_exit, lost, pc>>
        /\ rx = "reading" /\ rx' \in {"reading", "callback"} /\ heard' = now
        /\ program = "rtlsdr" /\ ~do_exit => last_rx_ms' = now
    BY <1>2 DEF RtlsdrCallback, Samples
  <2>2. now =< now + Gap
    BY LifeAssumption DEF TypeOK
  <2> QED BY <2>1, <2>2 DEF WatchInv, AlarmForCause, RxStarted
<1>3. CASE HackrfCallback
  <2>1. /\ UNCHANGED <<now, program, alarm, do_exit, lost, pc>>
        /\ rx = "reading" /\ rx' \in {"reading", "callback"} /\ heard' = now
        /\ program = "rtlsdr" /\ ~do_exit => last_rx_ms' = now
    BY <1>3 DEF HackrfCallback, Samples
  <2>2. now =< now + Gap
    BY LifeAssumption DEF TypeOK
  <2> QED BY <2>1, <2>2 DEF WatchInv, AlarmForCause, RxStarted
<1>4. CASE RxDetect
  BY <1>4 DEF RxDetect, WatchInv, AlarmForCause, RxStarted
<1>5. CASE ReadReturns
  BY <1>5 DEF ReadReturns, WatchInv, AlarmForCause, RxStarted
<1>6. CASE HackrfStops
  BY <1>6 DEF HackrfStops, WatchInv, AlarmForCause, RxStarted
<1>7. CASE RxDone
  BY <1>7 DEF RxDone, WatchInv, AlarmForCause, RxStarted
<1> QED BY <1>1, <1>2, <1>3, <1>4, <1>5, <1>6, <1>7 DEF RxThread

LEMMA WatchNext ==
    TypeOK /\ ControlInv /\ WatchInv /\ AlarmForCause /\ [Next]_vars
      => WatchInv' /\ AlarmForCause'
<1> SUFFICES ASSUME TypeOK, ControlInv, WatchInv, AlarmForCause, [Next]_vars
             PROVE  WatchInv' /\ AlarmForCause'
  OBVIOUS
<1>1. CASE Tick
  <2>1. /\ UNCHANGED <<rx, heard, last_rx_ms, program, alarm, do_exit, lost, pc>>
        /\ now' = now + 1 /\ rx # "created"
        /\ rx \in {"reading", "callback"} /\ ~lost => now < heard + Gap
    BY <1>1 DEF Tick, watchVars, rxVars
  <2>2. now \in Nat /\ heard \in Nat /\ Gap \in Nat
    BY LifeAssumption DEF TypeOK
  <2>3. now < heard + Gap => now + 1 =< heard + Gap
    BY <2>2
  <2> QED BY <2>1, <2>3 DEF WatchInv, AlarmForCause, RxStarted
<1>2. CASE Lose
  BY <1>2, WatchUnchanged DEF Lose, watchVars, rxVars
<1>3. ASSUME NEW thread \in {"main", "rx"}, Signal(thread)
      PROVE  WatchInv' /\ AlarmForCause'
  BY <1>3, WatchUnchanged DEF Signal, watchVars, rxVars
<1>4. CASE Handler
  BY <1>4, WatchUnchanged DEF Handler, HandlerCheck, HandlerCancel, watchVars, rxVars,
     worldVars
<1>5. CASE Replay
  <2>1. UNCHANGED <<rx, now, heard, last_rx_ms, program, alarm, do_exit, lost>>
    BY <1>5 DEF Replay, ReplayStep, ReplayStart, ReplayOpens, ReplaySkips, ReplayEnds,
       ReplayChunk, ReplayReport, ReplayPace, ReplayFileEnds, ReplayFinalReport,
       watchVars, rxVars, worldVars
  <2> QED BY <2>1, WatchUnchanged
<1>6. CASE UNCHANGED vars
  BY <1>6, WatchUnchanged DEF vars, watchVars, rxVars, worldVars
<1> QED BY <1>1, <1>2, <1>3, <1>4, <1>5, <1>6, WatchFrontEnd, WatchRxThread DEF Next

\* For every Gap up to the watchdog's limit, the watchdog ends the program only
\* if the radio was lost or its library has returned.
THEOREM AlarmForCauseCorrect == Spec => []AlarmForCause
<1> DEFINE IInv == TypeOK /\ ControlInv /\ WatchInv /\ AlarmForCause
<1>1. Init => IInv
  BY TypeInit, ControlInit DEF Init, WatchInv, AlarmForCause, RxStarted
<1>2. IInv /\ [Next]_vars => IInv'
  BY TypeNext, ControlNext, WatchNext
<1>3. IInv => AlarmForCause
  OBVIOUS
<1> QED BY <1>1, <1>2, <1>3, PTL DEF Spec

----------------------------------------------------------------------------
(* The replay.                                                             *)

\* A report that comes Flush after the end of a capture finds everything quiet.
LEMMA FlushLemma ==
    ASSUME TypeOK, FlushInv, pc = "flush", now >= wake
    PROVE  AfterReport = 0
<1>1. /\ Flush \in Nat /\ Quiet \in Nat /\ Flush > Quiet
      /\ now \in Nat /\ wake \in Nat /\ pending \in Nat
  BY LifeAssumption DEF TypeOK
<1>2. pending + Flush =< wake
  BY DEF FlushInv
<1>3. now > Quiet /\ pending =< now - Quiet
  BY <1>1, <1>2
<1> QED BY <1>3 DEF AfterReport, Deadline

LEMMA FlushNext ==
    TypeOK /\ ControlInv /\ FlushInv /\ ReplayReportsAll /\ [Next]_vars
      => FlushInv' /\ ReplayReportsAll'
<1> SUFFICES ASSUME TypeOK, ControlInv, FlushInv, ReplayReportsAll, [Next]_vars
             PROVE  FlushInv' /\ ReplayReportsAll'
  OBVIOUS
<1> USE DEF FlushInv, ReplayReportsAll
<1>1. ASSUME UNCHANGED <<program, pc, pending, wake>>
      PROVE  FlushInv' /\ ReplayReportsAll'
  BY <1>1
<1>2. CASE Tick \/ Lose \/ Handler \/ UNCHANGED vars
  BY <1>1, <1>2 DEF Tick, Lose, Handler, HandlerCheck, HandlerCancel, vars, replayVars,
     worldVars
<1>3. ASSUME NEW thread \in {"main", "rx"}, Signal(thread)
      PROVE  FlushInv' /\ ReplayReportsAll'
  BY <1>1, <1>3 DEF Signal, replayVars
<1>4. CASE FrontEnd
  <2>1. /\ program # "replay" /\ UNCHANGED program
        /\ pc' \notin {"start", "source", "flush"}
    BY <1>4 DEF FrontEnd, MainStep, OpenFails, Open, RtlsdrConfigureFails,
       HackrfConfigureFails, Failed, RtlsdrConfigure, HackrfConfigure, Loop,
       RtlsdrReport, HackrfReport, ReadClock, Watchdog, Cancel, Join, Stop,
          RtlsdrClose, HackrfClose, Clear, worldVars,
       ControlInv, MainInv, LoopPcs
  <2> QED BY <2>1
<1>5. CASE RxThread
  <2>1. /\ rx \notin {"none", "done"} /\ UNCHANGED <<program, pc>>
    BY <1>5 DEF RxThread, RxStep, ReadBegin, RtlsdrCallback, HackrfCallback,
       Samples, RxDetect, ReadReturns, HackrfStops,
       RxDone, worldVars
  <2>2. program # "replay" /\ pc \notin {"start", "source", "flush"}
    BY <2>1 DEF ControlInv, MainInv, ReplayPcs, CapturePcs, LoopPcs, TypeOK, MainPcs
  <2> QED BY <2>1, <2>2
<1>6. CASE Replay
  <2> USE DEF ReplayStep
  <2>1. CASE ReplayStart
    BY <2>1 DEF ReplayStart
  <2>2. CASE ReplayOpens
    BY <2>2 DEF ReplayOpens
  <2>3. CASE ReplaySkips
    BY <2>3 DEF ReplaySkips
  <2>4. CASE ReplayEnds
    BY <2>4 DEF ReplayEnds
  <2>5. CASE ReplayChunk
    BY <2>5 DEF ReplayChunk
  <2>6. CASE ReplayReport
    BY <2>6 DEF ReplayReport
  <2>7. CASE ReplayPace
    BY <2>7 DEF ReplayPace
  <2>8. CASE ReplayFileEnds
    <3>1. /\ pc' = "flush" /\ wake' = now + Flush /\ pending' = pending
      BY <2>8 DEF ReplayFileEnds, FlushTime
    <3>2. pending =< now /\ pending \in Nat /\ now \in Nat /\ Flush \in Nat
      BY LifeAssumption DEF TypeOK
    <3>3. pending + Flush =< now + Flush
      BY <3>2
    <3> QED BY <3>1, <3>3
  <2>9. CASE ReplayFinalReport
    <3>1. pc = "flush" /\ now >= wake /\ pc' = "source" /\ pending' = AfterReport
      BY <2>9 DEF ReplayFinalReport
    <3> QED BY <3>1, FlushLemma
  <2> QED BY <1>6, <2>1, <2>2, <2>3, <2>4, <2>5, <2>6, <2>7, <2>8, <2>9 DEF Replay
<1> QED BY <1>2, <1>3, <1>4, <1>5, <1>6 DEF Next

\* No detection of a capture is left for the next one or at the end, for any
\* captures, however long a step takes and whenever a signal comes.
THEOREM ReplayReportsAllCorrect == Spec => []ReplayReportsAll
<1> DEFINE IInv == TypeOK /\ ControlInv /\ FlushInv /\ ReplayReportsAll
<1>1. Init => IInv
  BY TypeInit, ControlInit DEF Init, FlushInv, ReplayReportsAll
<1>2. IInv /\ [Next]_vars => IInv'
  BY TypeNext, ControlNext, FlushNext
<1>3. IInv => ReplayReportsAll
  OBVIOUS
<1> QED BY <1>1, <1>2, <1>3, PTL DEF Spec
============================================================================
