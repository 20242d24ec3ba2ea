-------------------------- MODULE PassingDetector --------------------------
(***************************************************************************)
(* The passing detector of the decoder (src/passing.cpp) together with the *)
(* two threads that use it: the receiver thread, which runs detect_frames  *)
(* on each sample buffer and appends what it decodes, and the reporter,    *)
(* the main loop that calls report_detections.                             *)
(*                                                                         *)
(* Every method of the detector holds its mutex from beginning to end and  *)
(* is one action; the threads interleave between the calls.  The reporter  *)
(* reads the clock once, at the beginning of report_detections, and uses   *)
(* that reading in every later step.  A frame is stamped with the clock    *)
(* read when its buffer started to be processed plus its sample offset, so *)
(* stamps may run ahead of the clock and may step back between buffers;    *)
(* the sample counter (timecode) never does.  Only the order of timecodes  *)
(* matters here: each detected frame gets the next one.                    *)
(***************************************************************************)
EXTENDS Integers, Sequences, FiniteSets

CONSTANTS
    Keys,         \* TransponderKey: system (OpenStint or AMB) and identifier
    HitLimit,     \* REPORT_HIT_LIMIT
    MsgLimit,     \* TRANSPONDER_DETECTION_MSG_LIMIT
    QuietTime,    \* the 250 ms of report_detections
    Margin,       \* the 500 ms passed to identify_timesyncs
    Wrap,         \* 2^64, the width of a timestamp
    BufferSpan,   \* length of a sample buffer
    RxLag,        \* timing assumption: how late a frame is ever handled
    MaxTime,      \* bound: the clock stops here
    MaxRxTime,    \* bound: after this, only the buffer that ends a frame comes
    MaxFrames     \* bound: frames detected in a behaviour

ASSUME LimitAssumption == HitLimit \in Nat \ {0} /\ MsgLimit \in Nat \ {0}
ASSUME TimeAssumption ==
    /\ QuietTime \in Nat \ {0} /\ Margin \in Nat /\ BufferSpan \in Nat
    /\ RxLag \in Nat /\ MaxTime \in Nat /\ MaxRxTime \in Nat
    /\ MaxFrames \in Nat
    /\ Wrap \in Nat /\ Wrap > MaxTime + BufferSpan + Margin

VARIABLES
    now,          \* the steady clock, relative to startup_ts
    rx,           \* receiver thread: in a buffer or not, its stamp, its offset
    frame,        \* the frame being read; {} or {one record}
    timecode,     \* the sample counter
    detections,   \* PassingDetector::detections: key -> deque of Detection
    timesync_messages,  \* PassingDetector::timesync_messages; the order in
                  \* which they are looked at does not matter
    reporter,     \* main thread: where it is in report_detections, its now_ts
    passings,     \* history: key -> the passings published, in order
    timesyncs,    \* history: the time syncs published
    received,     \* history: key -> timecodes appended
    lost          \* history: key -> timecodes evicted at the cap or dropped
                  \* below the hit limit

detectorVars == <<detections, timesync_messages>>
historyVars == <<passings, timesyncs, received, lost>>
rxVars == <<rx, frame, timecode>>
vars == <<now, rxVars, detectorVars, reporter, historyVars>>

----------------------------------------------------------------------------
(* The detector's own rules, one operator per decision of the code.        *)

First(dets) == dets[1]
Last(dets) == dets[Len(dets)]
Codes(dets) == {dets[i].timecode : i \in 1..Len(dets)}

\* push_back, and pop_front once the deque is over the cap.
PushUnbounded(dets, d) == Append(dets, d)
Push(dets, d) ==
    IF Len(dets) < MsgLimit THEN Append(dets, d) ELSE Tail(Append(dets, d))

\* now_ts > 250000ul ? now_ts-250000ul : 0ul
DeadlineAtOnce(t) == t
Deadline(t) == IF t > QuietTime THEN t - QuietTime ELSE 0

\* Nothing was appended to the deque since the deadline.
ExpiredAtFront(dets, deadline) ==
    dets # <<>> /\ First(dets).timestamp =< deadline
ExpiredPassing(dets, deadline) ==
    Len(dets) >= HitLimit /\ Last(dets).timestamp =< deadline
Expired(dets, deadline) == dets # <<>> /\ Last(dets).timestamp =< deadline

\* A passing needs REPORT_HIT_LIMIT hits.
MoreHits(dets) == Len(dets) > HitLimit
EnoughHits(dets) == Len(dets) >= HitLimit

\* What is left of an expired deque: it is erased whether or not it became a
\* passing.
KeepNewest(dets) == <<Last(dets)>>
Erase(dets) == <<>>

\* A time sync lies between the front and the back of a deque, widened by
\* the margin; the subtraction is unsigned and wraps.  The deques of both
\* systems are looked at.
Matches(dets, ts) ==
    /\ dets # <<>>
    /\ (First(dets).timestamp - Margin) % Wrap < ts
    /\ Last(dets).timestamp + Margin > ts

Candidates(ts) == {k \in Keys : Matches(detections[k], ts)}
IsUnique(msg) == Cardinality(Candidates(msg.timestamp)) = 1

TimeSyncOf(msg) ==
    [timestamp |-> msg.timestamp, timecode |-> msg.timecode,
     key |-> CHOOSE k \in Candidates(msg.timestamp) : TRUE]

\* identify_timesyncs leaves no message behind.
KeepAmbiguous(msgs) == msgs \ {m \in msgs : Candidates(m.timestamp) = {}}
Clear(msgs) == {}

PassingOf(k, dets, deadline) ==
    [key |-> k, hits |-> Len(dets), first |-> First(dets).timestamp,
     last |-> Last(dets).timestamp, deadline |-> deadline, dets |-> dets]

----------------------------------------------------------------------------
Init ==
    /\ now = 1                        \* startup_ts is taken before main runs
    /\ rx = [pc |-> "idle", ts |-> 0, off |-> 0]
    /\ frame = {}
    /\ timecode = 0
    /\ detections = [k \in Keys |-> <<>>]
    /\ timesync_messages = {}
    /\ reporter = [pc |-> "idle", now_ts |-> 0]
    /\ passings = [k \in Keys |-> <<>>]
    /\ timesyncs = {}
    /\ received = [k \in Keys |-> {}]
    /\ lost = [k \in Keys |-> {}]

\* Time passes, but (RxLag) not while a buffer or a frame is that old.
Tick ==
    /\ now < MaxTime
    /\ rx.pc = "buffer" => now < rx.ts + RxLag
    /\ \A f \in frame : now < f.timestamp + RxLag
    /\ now' = now + 1
    /\ UNCHANGED <<rxVars, detectorVars, reporter, historyVars>>

\* detect_frames starts on a buffer and reads the clock.
RxBuffer ==
    /\ rx.pc = "idle"
    /\ now =< MaxRxTime \/ frame # {}
    /\ rx' = [pc |-> "buffer", ts |-> now, off |-> 0]
    /\ UNCHANGED <<now, frame, timecode, detectorVars, reporter, historyVars>>

\* FRAME_SEEK: a preamble is found at offset o; the frame gets its stamp.
RxDetect ==
    /\ rx.pc = "buffer"
    /\ frame = {}
    /\ timecode < MaxFrames
    /\ \E o \in rx.off..BufferSpan :
         /\ frame' = {[timestamp |-> rx.ts + o, timecode |-> timecode]}
         /\ rx' = [rx EXCEPT !.off = o]
    /\ timecode' = timecode + 1
    /\ UNCHANGED <<now, detectorVars, reporter, historyVars>>

\* The frame is complete and decodes to an identifier: append.
RxAppend(k) ==
    /\ rx.pc = "buffer"
    /\ \E f \in frame :
         /\ detections' = [detections EXCEPT ![k] = Push(@, f)]
         /\ received' = [received EXCEPT ![k] = @ \cup {f.timecode}]
         /\ lost' = [lost EXCEPT ![k] = @ \cup
                (Codes(Append(detections[k], f)) \ Codes(Push(detections[k], f)))]
    /\ frame' = {}
    /\ UNCHANGED <<now, rx, timecode, timesync_messages, reporter,
                   passings, timesyncs>>

\* The frame is complete and is a time sync; it does not name its sender.
RxTimesync ==
    /\ rx.pc = "buffer"
    /\ frame # {}
    /\ timesync_messages' = timesync_messages \cup frame
    /\ frame' = {}
    /\ UNCHANGED <<now, rx, timecode, detections, reporter, historyVars>>

\* The frame does not decode.
RxUndecoded ==
    /\ rx.pc = "buffer"
    /\ frame # {}
    /\ frame' = {}
    /\ UNCHANGED <<now, rx, timecode, detectorVars, reporter, historyVars>>

\* The buffer ends; a frame in the middle continues in the next buffer.
RxBufferEnd ==
    /\ rx.pc = "buffer"
    /\ rx' = [pc |-> "idle", ts |-> 0, off |-> 0]
    /\ UNCHANGED <<now, frame, timecode, detectorVars, reporter, historyVars>>

\* report_detections is entered and reads the clock, once.
Report ==
    /\ reporter.pc = "idle"
    /\ reporter' = [pc |-> "timesyncs", now_ts |-> now]
    /\ UNCHANGED <<now, rxVars, detectorVars, historyVars>>

\* identify_timesyncs: a message with exactly one candidate is published.
IdentifyTimesyncs ==
    /\ reporter.pc = "timesyncs"
    /\ timesyncs' = timesyncs \cup
         {TimeSyncOf(m) : m \in {n \in timesync_messages : IsUnique(n)}}
    /\ timesync_messages' = Clear(timesync_messages)
    /\ reporter' = [reporter EXCEPT !.pc = "passings"]
    /\ UNCHANGED <<now, rxVars, detections, passings, received, lost>>

\* identify_passings: every deque whose back is old enough becomes a passing
\* or, below the hit limit, is dropped.
IdentifyPassings ==
    /\ reporter.pc = "passings"
    /\ LET deadline == Deadline(reporter.now_ts)
           erasable == {k \in Keys : Expired(detections[k], deadline)}
       IN  /\ passings' = [k \in Keys |->
                IF k \in erasable /\ EnoughHits(detections[k])
                THEN Append(passings[k], PassingOf(k, detections[k], deadline))
                ELSE passings[k]]
           /\ lost' = [k \in Keys |->
                IF k \in erasable /\ ~EnoughHits(detections[k])
                THEN lost[k] \cup Codes(detections[k]) ELSE lost[k]]
           /\ detections' = [k \in Keys |->
                IF k \in erasable THEN Erase(detections[k]) ELSE detections[k]]
    /\ reporter' = [pc |-> "idle", now_ts |-> 0]
    /\ UNCHANGED <<now, rxVars, timesync_messages, timesyncs, received>>

Receiver ==
    \/ RxBuffer
    \/ RxDetect
    \/ \E k \in Keys : RxAppend(k)
    \/ RxTimesync
    \/ RxUndecoded
    \/ RxBufferEnd

Reporter == Report \/ IdentifyTimesyncs \/ IdentifyPassings

Next == Tick \/ Receiver \/ Reporter

Spec == Init /\ [][Next]_vars

\* The clock runs, the main loop polls, a started buffer is finished, and a
\* frame that was found is finished, in the next buffer if need be: the radio
\* streams samples without a break.  Nothing obliges a frame to be found.
FinishFrame ==
    \/ \E k \in Keys : RxAppend(k)
    \/ RxTimesync
    \/ RxUndecoded

Fairness ==
    /\ WF_vars(Tick)
    /\ WF_vars(Reporter)
    /\ SF_vars(FinishFrame)
    /\ WF_vars(RxBufferEnd)
    /\ WF_vars(frame # {} /\ RxBuffer)

FairSpec == Spec /\ Fairness

----------------------------------------------------------------------------
Frame == [timestamp : Nat, timecode : Nat]
TimeSync == [timestamp : Nat, timecode : Nat, key : Keys]
Passing == [key : Keys, hits : Nat, first : Nat, last : Nat, deadline : Nat,
            dets : Seq(Frame)]

\* Types of every variable.  A deque is never over its cap.
TypeOK ==
    /\ now \in Nat
    /\ rx \in [pc : {"idle", "buffer"}, ts : Nat, off : Nat]
    /\ frame \in SUBSET Frame
    /\ \A f, g \in frame : f = g
    /\ timecode \in Nat
    /\ detections \in [Keys -> Seq(Frame)]
    /\ \A k \in Keys : Len(detections[k]) =< MsgLimit
    /\ timesync_messages \in SUBSET Frame
    /\ reporter \in [pc : {"idle", "timesyncs", "passings"}, now_ts : Nat]
    /\ passings \in [Keys -> Seq(Passing)]
    /\ timesyncs \in SUBSET TimeSync
    /\ received \in [Keys -> SUBSET Nat]
    /\ lost \in [Keys -> SUBSET Nat]

Reported(k) == UNION {Codes(passings[k][i].dets) : i \in 1..Len(passings[k])}

\* No detection is forgotten or counted twice: what was appended for a key is
\* still in its deque, in a published passing, or lost at the cap or below the
\* hit limit, and in only one of them, whatever the interleaving of append and
\* identify_passings; and no two passings share a detection.
Conservation ==
    \A k \in Keys :
      /\ received[k] = Codes(detections[k]) \cup Reported(k) \cup lost[k]
      /\ Codes(detections[k]) \cap Reported(k) = {}
      /\ lost[k] \cap (Codes(detections[k]) \cup Reported(k)) = {}
      /\ \A i, j \in 1..Len(passings[k]) :
           i < j => \A c \in Codes(passings[k][i].dets), d \in Codes(passings[k][j].dets) : c < d

\* A car on the loop is reported once: from the last entry of a passing, the one that
\* is compared, to the first of the next one of the transponder there are at least
\* QuietTime - RxLag, although the reporter's clock reading is old when
\* identify_passings runs and frames are appended while it runs.  (An inner entry may
\* have a stamp up to BufferSpan after the last one.)
QuietGap ==
    \A k \in Keys : \A i, j \in 1..Len(passings[k]) :
      i < j => passings[k][j].first >= passings[k][i].last + QuietTime - RxLag

\* Only the back of the deque is compared with the deadline and stamps may
\* step back, but never by more than a buffer: no detection of a published
\* passing is newer than the deadline plus BufferSpan.
NotWhilePresent ==
    \A k \in Keys : \A i \in 1..Len(passings[k]) :
      \A j \in 1..Len(passings[k][i].dets) :
        passings[k][i].dets[j].timestamp =< passings[k][i].deadline + BufferSpan

\* A time sync is published at most once, and never after it was looked at.
TimesyncOnce ==
    /\ \A t \in timesyncs : \A m \in timesync_messages : t.timecode # m.timecode
    /\ \A t, u \in timesyncs : t.timecode = u.timecode => t = u

\* The detections of a transponder that went quiet do not stay pending: they
\* are eventually published or dropped, and the deque is erased.
Settled == \A k \in Keys : detections[k] # <<>> ~> detections[k] = <<>>

\* What makes QuietGap inductive.  Clock readings: the reporter's is not in
\* the future, and neither the buffer nor a frame is older than RxLag.
ClockInv ==
    /\ now >= 1
    /\ reporter.now_ts =< now
    /\ rx.pc = "buffer" => rx.ts =< now /\ now =< rx.ts + RxLag /\ rx.ts >= 1
    /\ \A f \in frame : now =< f.timestamp + RxLag /\ f.timestamp >= 1

\* A passing ended QuietTime ago when it was published, so whatever is in the
\* deque since then came QuietTime - RxLag after it.
GapInv ==
    \A k \in Keys :
      /\ \A j \in 1..Len(detections[k]) : detections[k][j].timestamp >= 1
      /\ \A i \in 1..Len(passings[k]) :
           /\ passings[k][i].last + QuietTime =< now
           /\ \A j \in 1..Len(detections[k]) :
                detections[k][j].timestamp >= passings[k][i].last + QuietTime - RxLag

\* What makes Conservation inductive.  Frames are numbered as they are found
\* and one is read at a time, so every deque ascends, and what is found next
\* comes after everything received and every passing before what is pending.
Ascending(dets) ==
    \A i, j \in 1..Len(dets) : i < j => dets[i].timecode < dets[j].timecode

OrderInv ==
    /\ timecode =< MaxFrames
    /\ \A f \in frame : f.timecode < timecode
    /\ \A k \in Keys :
         /\ Ascending(detections[k])
         /\ \A c \in received[k] : c < timecode /\ \A f \in frame : c < f.timecode
         /\ \A i \in 1..Len(passings[k]) :
              \A c \in Codes(passings[k][i].dets), d \in Codes(detections[k]) : c < d

\* What makes TimesyncOnce inductive: a message is known by its timecode, and
\* one that is found next was neither published nor is it waiting.
SyncInv ==
    /\ \A m \in timesync_messages \cup timesyncs :
         m.timecode < timecode /\ \A f \in frame : m.timecode < f.timecode
    /\ \A m, n \in timesync_messages : m.timecode = n.timecode => m = n

\* What makes NotWhilePresent inductive.  A stamp is at most BufferSpan ahead
\* of the start of the buffer it was made in, and buffers start in the order of
\* the clock: no stamp is followed by one more than BufferSpan before it.
JitterInv ==
    /\ \A f \in frame :
         /\ f.timestamp =< now + BufferSpan
         /\ rx.pc = "buffer" => f.timestamp =< rx.ts + BufferSpan
    /\ \A k \in Keys : \A j \in 1..Len(detections[k]) :
         /\ detections[k][j].timestamp =< now + BufferSpan
         /\ rx.pc = "buffer" => detections[k][j].timestamp =< rx.ts + BufferSpan
         /\ \A f \in frame : detections[k][j].timestamp =< f.timestamp + BufferSpan
         /\ \A i \in 1..j :
              detections[k][i].timestamp =< detections[k][j].timestamp + BufferSpan

----------------------------------------------------------------------------
Ledger == INSTANCE PassingLedger WITH
    Ids <- 0..(MaxFrames - 1),
    open <- [k \in Keys |-> Codes(detections[k])],
    closed <- [k \in Keys |-> [i \in DOMAIN passings[k] |-> Codes(passings[k][i].dets)]]

LedgerSpec == Ledger!Spec
============================================================================
