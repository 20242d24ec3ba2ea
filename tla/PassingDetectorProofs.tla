----------------------- MODULE PassingDetectorProofs -----------------------
(* Proofs about PassingDetector for every value of its constants.          *)
EXTENDS PassingDetector, SequenceTheorems, FiniteSetTheorems, TLAPS


\* What push_back with its cap leaves: a deque of frames within the cap whose
\* elements were in it before or are the new one, ending in the new one.
LEMMA PushLemma ==
    ASSUME NEW dets \in Seq(Frame), NEW d \in Frame, Len(dets) =< MsgLimit
    PROVE  /\ Push(dets, d) \in Seq(Frame)
           /\ Len(Push(dets, d)) =< MsgLimit
           /\ \A i \in 1..Len(Push(dets, d)) :
                \/ Push(dets, d)[i] = d
                \/ \E j \in 1..Len(dets) : Push(dets, d)[i] = dets[j]
<1> USE LimitAssumption
<1>1. Append(dets, d) \in Seq(Frame) /\ Len(Append(dets, d)) = Len(dets) + 1
  OBVIOUS
<1>2. CASE Len(dets) < MsgLimit
  BY <1>1, <1>2 DEF Push
<1>3. CASE ~(Len(dets) < MsgLimit)
  <2>1. Push(dets, d) = Tail(Append(dets, d))
    BY <1>3 DEF Push
  <2>2. Tail(Append(dets, d)) \in Seq(Frame)
    BY <1>1, HeadTailProperties
  <2>3. Len(Tail(Append(dets, d))) = Len(dets)
    BY <1>1, HeadTailProperties
  <2>4. \A i \in 1..Len(dets) : Tail(Append(dets, d))[i] = Append(dets, d)[i + 1]
    BY <1>1
  <2> QED BY <1>1, <2>1, <2>2, <2>3, <2>4
<1> QED BY <1>2, <1>3

\* The codes of a deque are naturals.
LEMMA CodesLemma ==
    ASSUME NEW dets \in Seq(Frame)
    PROVE  Codes(dets) \in SUBSET Nat
<1>1. ASSUME NEW i \in 1..Len(dets) PROVE dets[i].timecode \in Nat
  <2>1. dets[i] \in Frame
    OBVIOUS
  <2> QED BY <2>1 DEF Frame
<1> QED BY <1>1 DEF Codes

\* The unique candidate of a time sync is a transponder key.
LEMMA UniqueLemma ==
    ASSUME NEW m \in Frame, IsUnique(m)
    PROVE  TimeSyncOf(m) \in TimeSync
<1>1. Candidates(m.timestamp) # {}
  BY FS_EmptySet DEF IsUnique
<1>2. (CHOOSE k \in Candidates(m.timestamp) : TRUE) \in Keys
  BY <1>1 DEF Candidates
<1> QED BY <1>2 DEF TimeSyncOf, TimeSync, Frame

\* A non-empty deque of frames makes a passing record.
LEMMA PassingLemma ==
    ASSUME NEW k \in Keys, NEW dets \in Seq(Frame), dets # <<>>,
           NEW deadline \in Nat
    PROVE  PassingOf(k, dets, deadline) \in Passing
<1>1. Len(dets) \in Nat /\ Len(dets) >= 1
  OBVIOUS
<1>2. dets[1] \in Frame /\ dets[Len(dets)] \in Frame
  BY <1>1
<1> QED BY <1>1, <1>2 DEF PassingOf, Passing, First, Last, Frame

\* The deadline is a natural number.
LEMMA DeadlineLemma == \A t \in Nat : Deadline(t) \in Nat
BY TimeAssumption DEF Deadline

----------------------------------------------------------------------------
LEMMA TypeInit == Init => TypeOK
BY LimitAssumption DEF Init, TypeOK, Frame

LEMMA TypeNext == TypeOK /\ [Next]_vars => TypeOK'
<1> SUFFICES ASSUME TypeOK, [Next]_vars PROVE TypeOK'
  OBVIOUS
<1> USE TimeAssumption
<1>1. CASE Tick
  BY <1>1 DEF Tick, TypeOK, rxVars, detectorVars, historyVars
<1>2. CASE RxBuffer
  BY <1>2 DEF RxBuffer, TypeOK, detectorVars, historyVars
<1>3. CASE RxDetect
  <2>1. PICK o \in rx.off..BufferSpan :
          /\ frame' = {[timestamp |-> rx.ts + o, timecode |-> timecode]}
          /\ rx' = [rx EXCEPT !.off = o]
    BY <1>3 DEF RxDetect
  <2>2. rx.ts \in Nat /\ rx.off \in Nat /\ o \in Nat /\ timecode \in Nat
    BY TimeAssumption DEF TypeOK
  <2>3. frame' \in SUBSET Frame /\ \A f, g \in frame' : f = g
    <3>1. rx.ts + o \in Nat
      BY <2>2
    <3> QED BY <2>1, <2>2, <3>1 DEF Frame
  <2>4. rx' \in [pc : {"idle", "buffer"}, ts : Nat, off : Nat]
    <3>1. rx \in [pc : {"idle", "buffer"}, ts : Nat, off : Nat]
      BY DEF TypeOK
    <3>2. rx' = [rx EXCEPT !.off = o]
      BY <2>1
    <3> HIDE TimeAssumption
    <3> QED BY <2>2, <3>1, <3>2
  <2>5. timecode' \in Nat
    <3>1. timecode' = timecode + 1
      BY <1>3 DEF RxDetect
    <3> QED BY <2>2, <3>1
  <2>6. UNCHANGED <<now, detectorVars, reporter, historyVars>>
    BY <1>3 DEF RxDetect
  <2> QED BY <2>3, <2>4, <2>5, <2>6 DEF TypeOK, detectorVars, historyVars
<1>4. ASSUME NEW k \in Keys, RxAppend(k) PROVE TypeOK'
  <2>1. PICK f \in frame :
          /\ detections' = [detections EXCEPT ![k] = Push(@, f)]
          /\ received' = [received EXCEPT ![k] = @ \cup {f.timecode}]
          /\ lost' = [lost EXCEPT ![k] = @ \cup
               (Codes(Append(detections[k], f)) \ Codes(Push(detections[k], f)))]
    BY <1>4 DEF RxAppend
  <2>2. f \in Frame /\ f.timecode \in Nat /\ detections[k] \in Seq(Frame)
    BY DEF TypeOK, Frame
  <2>3. Push(detections[k], f) \in Seq(Frame) /\ Len(Push(detections[k], f)) =< MsgLimit
    BY <2>2, PushLemma DEF TypeOK
  <2>4. Codes(Append(detections[k], f)) \in SUBSET Nat
    BY <2>2, CodesLemma, AppendProperties
  <2>5. detections' \in [Keys -> Seq(Frame)]
        /\ \A j \in Keys : Len(detections'[j]) =< MsgLimit
    BY <2>1, <2>3 DEF TypeOK
  <2>6. received' \in [Keys -> SUBSET Nat] /\ lost' \in [Keys -> SUBSET Nat]
    BY <2>1, <2>2, <2>4 DEF TypeOK
  <2>7. /\ frame' = {}
        /\ UNCHANGED <<now, rx, timecode, timesync_messages, reporter,
                       passings, timesyncs>>
    BY <1>4 DEF RxAppend
  <2> QED BY <2>5, <2>6, <2>7 DEF TypeOK
<1>5. CASE RxTimesync
  <2>1. timesync_messages' \in SUBSET Frame
    BY <1>5 DEF RxTimesync, TypeOK
  <2>2. /\ frame' = {}
        /\ UNCHANGED <<now, rx, timecode, detections, reporter, historyVars>>
    BY <1>5 DEF RxTimesync
  <2> QED BY <2>1, <2>2 DEF TypeOK, historyVars
<1>6. CASE RxUndecoded
  BY <1>6 DEF RxUndecoded, TypeOK, detectorVars, historyVars
<1>7. CASE RxBufferEnd
  BY <1>7 DEF RxBufferEnd, TypeOK, detectorVars, historyVars
<1>8. CASE Report
  BY <1>8 DEF Report, TypeOK, rxVars, detectorVars, historyVars
<1>9. CASE IdentifyTimesyncs
  <2>1. \A m \in timesync_messages : IsUnique(m) => TimeSyncOf(m) \in TimeSync
    BY UniqueLemma DEF TypeOK
  <2>2. timesyncs' \in SUBSET TimeSync /\ timesync_messages' \in SUBSET Frame
    BY <1>9, <2>1 DEF IdentifyTimesyncs, Clear, TypeOK
  <2>3. reporter' \in [pc : {"idle", "timesyncs", "passings"}, now_ts : Nat]
    BY <1>9 DEF IdentifyTimesyncs, TypeOK
  <2> QED BY <1>9, <2>2, <2>3 DEF IdentifyTimesyncs, TypeOK, rxVars
<1>10. CASE IdentifyPassings
  <2> DEFINE deadline == Deadline(reporter.now_ts)
             erasable == {k \in Keys : Expired(detections[k], deadline)}
  <2>1. deadline \in Nat
    BY DeadlineLemma DEF TypeOK
  <2>2. \A k \in erasable : PassingOf(k, detections[k], deadline) \in Passing
    BY <2>1, PassingLemma DEF Expired, TypeOK
  <2>3. passings' \in [Keys -> Seq(Passing)]
    BY <1>10, <2>2 DEF IdentifyPassings, TypeOK
  <2>4. lost' \in [Keys -> SUBSET Nat]
    BY <1>10, CodesLemma DEF IdentifyPassings, TypeOK
  <2>5. detections' \in [Keys -> Seq(Frame)]
        /\ \A k \in Keys : Len(detections'[k]) =< MsgLimit
    BY <1>10, LimitAssumption DEF IdentifyPassings, TypeOK, Erase
  <2> QED BY <1>10, <2>3, <2>4, <2>5 DEF IdentifyPassings, TypeOK, rxVars
<1>11. CASE UNCHANGED vars
  BY <1>11 DEF TypeOK, vars, rxVars, detectorVars, historyVars
<1> QED
  BY <1>1, <1>2, <1>3, <1>4, <1>5, <1>6, <1>7, <1>8, <1>9, <1>10, <1>11
  DEF Next, Receiver, Reporter

\* Every variable keeps its type and no deque outgrows its cap, in every
\* behaviour of the two threads.
THEOREM TypeCorrect == Spec => []TypeOK
BY TypeInit, TypeNext, PTL DEF Spec

----------------------------------------------------------------------------
(* The quiet time between two passings of a transponder.                   *)

LEMMA ClockInit == Init => ClockInv
BY DEF Init, ClockInv

LEMMA ClockNext == TypeOK /\ ClockInv /\ [Next]_vars => ClockInv'
<1> SUFFICES ASSUME TypeOK, ClockInv, [Next]_vars PROVE ClockInv'
  OBVIOUS
<1> USE TimeAssumption DEF ClockInv
<1>1. CASE Tick
  BY <1>1 DEF Tick, TypeOK, rxVars, Frame
<1>2. CASE RxBuffer
  BY <1>2 DEF RxBuffer, TypeOK
<1>3. CASE RxDetect
  <2>1. PICK o \in rx.off..BufferSpan :
          /\ frame' = {[timestamp |-> rx.ts + o, timecode |-> timecode]}
          /\ rx' = [rx EXCEPT !.off = o]
    BY <1>3 DEF RxDetect
  <2>2. rx.ts \in Nat /\ o \in Nat /\ now \in Nat
    BY DEF TypeOK
  <2>3. rx'.ts = rx.ts /\ rx'.pc = "buffer" /\ rx.pc = "buffer"
    BY <1>3, <2>1 DEF RxDetect, TypeOK
  <2>4. now' = now /\ reporter' = reporter
    BY <1>3 DEF RxDetect
  <2> QED BY <2>1, <2>2, <2>3, <2>4
<1>4. ASSUME NEW k \in Keys, RxAppend(k) PROVE ClockInv'
  BY <1>4 DEF RxAppend
<1>5. CASE RxTimesync
  BY <1>5 DEF RxTimesync
<1>6. CASE RxUndecoded
  BY <1>6 DEF RxUndecoded
<1>7. CASE RxBufferEnd
  BY <1>7 DEF RxBufferEnd, TypeOK
<1>8. CASE Report
  BY <1>8 DEF Report, TypeOK, rxVars
<1>9. CASE IdentifyTimesyncs
  BY <1>9 DEF IdentifyTimesyncs, TypeOK, rxVars
<1>10. CASE IdentifyPassings
  BY <1>10 DEF IdentifyPassings, TypeOK, rxVars
<1>11. CASE UNCHANGED vars
  BY <1>11 DEF vars, rxVars
<1> QED
  BY <1>1, <1>2, <1>3, <1>4, <1>5, <1>6, <1>7, <1>8, <1>9, <1>10, <1>11
  DEF Next, Receiver, Reporter

LEMMA GapInit == Init => GapInv /\ QuietGap
BY DEF Init, GapInv, QuietGap

\* Steps that touch neither the deques nor the passings keep the gap, since
\* the clock only advances.
LEMMA GapUnchanged ==
    ASSUME TypeOK, GapInv, QuietGap, UNCHANGED <<detections, passings>>,
           now' \in Nat, now' >= now
    PROVE  GapInv' /\ QuietGap'
<1>1. ASSUME NEW k \in Keys, NEW i \in 1..Len(passings[k])
      PROVE  passings[k][i].last + QuietTime =< now'
  <2>1. passings[k][i] \in Passing
    BY DEF TypeOK
  <2>2. passings[k][i].last \in Nat
    BY <2>1 DEF Passing
  <2>3. passings[k][i].last + QuietTime =< now
    BY DEF GapInv
  <2>4. now \in Nat
    BY DEF TypeOK
  <2> QED BY <2>2, <2>3, <2>4, TimeAssumption
<1> QED BY <1>1 DEF GapInv, QuietGap

\* A frame that is appended is at most RxLag old, and every earlier passing
\* ended at least QuietTime ago.
LEMMA GapAppend ==
    ASSUME TypeOK, ClockInv, GapInv, QuietGap, NEW k \in Keys, RxAppend(k)
    PROVE  GapInv' /\ QuietGap'
<1>1. PICK f \in frame : detections' = [detections EXCEPT ![k] = Push(@, f)]
  BY DEF RxAppend
<1>2. f \in Frame /\ f.timestamp >= 1 /\ now =< f.timestamp + RxLag
  BY DEF TypeOK, ClockInv
<1>3. passings' = passings /\ now' = now
  BY DEF RxAppend
<1>4. ASSUME NEW c \in Keys, NEW j \in 1..Len(detections'[c])
      PROVE  \/ c = k /\ detections'[c][j] = f
             \/ \E i \in 1..Len(detections[c]) : detections'[c][j] = detections[c][i]
  <2>1. CASE c = k
    BY <1>1, <1>2, <2>1, PushLemma DEF TypeOK
  <2>2. CASE c # k
    BY <1>1, <2>2 DEF TypeOK
  <2> QED BY <2>1, <2>2
<1>5. ASSUME NEW i \in 1..Len(passings[k])
      PROVE  f.timestamp >= passings[k][i].last + QuietTime - RxLag
  <2>1. passings[k][i].last \in Nat
    <3>1. passings[k][i] \in Passing
      BY DEF TypeOK
    <3> QED BY <3>1 DEF Passing
  <2>2. passings[k][i].last + QuietTime =< now
    BY DEF GapInv
  <2>3. f.timestamp \in Nat /\ now \in Nat
    BY <1>2 DEF TypeOK, Frame
  <2>4. QuietTime \in Nat /\ RxLag \in Nat
    BY TimeAssumption
  <2>5. ASSUME NEW l \in Nat, NEW q \in Nat, NEW n \in Nat, NEW t \in Nat,
               NEW lag \in Nat, l + q =< n, n =< t + lag
        PROVE  t >= l + q - lag
    BY <2>5
  <2> QED BY <1>2, <2>1, <2>2, <2>3, <2>4, <2>5
<1>6. GapInv'
  <2> SUFFICES ASSUME NEW c \in Keys
               PROVE  /\ \A j \in 1..Len(detections'[c]) : detections'[c][j].timestamp >= 1
                      /\ \A i \in 1..Len(passings[c]) :
                           /\ passings[c][i].last + QuietTime =< now
                           /\ \A j \in 1..Len(detections'[c]) :
                                detections'[c][j].timestamp
                                  >= passings[c][i].last + QuietTime - RxLag
    BY <1>3 DEF GapInv
  <2>1. ASSUME NEW j \in 1..Len(detections'[c])
        PROVE  detections'[c][j].timestamp >= 1
    BY <1>2, <1>4 DEF GapInv
  <2>2. ASSUME NEW i \in 1..Len(passings[c]), NEW j \in 1..Len(detections'[c])
        PROVE  detections'[c][j].timestamp >= passings[c][i].last + QuietTime - RxLag
    BY <1>4, <1>5 DEF GapInv
  <2> QED BY <2>1, <2>2 DEF GapInv
<1> QED BY <1>3, <1>6 DEF QuietGap

\* A deque is published only when its back is QuietTime old by a clock reading
\* that is not in the future.
LEMMA GapReport ==
    ASSUME TypeOK, ClockInv, GapInv, QuietGap, IdentifyPassings
    PROVE  GapInv' /\ QuietGap'
<1> DEFINE deadline == Deadline(reporter.now_ts)
           erased(k) == Expired(detections[k], deadline)
           new(k) == erased(k) /\ EnoughHits(detections[k])
           passing(k) == PassingOf(k, detections[k], deadline)
<1>1. /\ now' = now
      /\ \A k \in Keys :
           /\ detections'[k] = IF erased(k) THEN <<>> ELSE detections[k]
           /\ passings'[k] = IF new(k) THEN Append(passings[k], passing(k))
                             ELSE passings[k]
  BY DEF IdentifyPassings, Erase
<1>2. deadline \in Nat /\ (deadline >= 1 => deadline + QuietTime =< now)
  BY TimeAssumption DEF Deadline, ClockInv, TypeOK
<1>3. ASSUME NEW k \in Keys, new(k)
      PROVE  /\ passing(k).last \in Nat
             /\ passing(k).last + QuietTime =< now
             /\ \A i \in 1..Len(passings[k]) :
                  passing(k).first >= passings[k][i].last + QuietTime - RxLag
  <2>1. detections[k] \in Seq(Frame) /\ detections[k] # <<>>
    BY <1>3 DEF Expired, TypeOK
  <2>2. Len(detections[k]) \in 1..Len(detections[k]) /\ 1 \in 1..Len(detections[k])
    BY <2>1
  <2>3. Last(detections[k]).timestamp \in Nat /\ Last(detections[k]).timestamp >= 1
    <3>1. Last(detections[k]) \in Frame
      BY <2>1, <2>2 DEF Last
    <3> QED BY <2>2, <3>1 DEF GapInv, Last, Frame
  <2>4. Last(detections[k]).timestamp =< deadline
    BY <1>3 DEF Expired
  <2>5. Last(detections[k]).timestamp + QuietTime =< now
    BY <1>2, <2>3, <2>4, TimeAssumption DEF TypeOK
  <2>6. passing(k).last = Last(detections[k]).timestamp
        /\ passing(k).first = detections[k][1].timestamp
    BY DEF PassingOf, First
  <2>7. ASSUME NEW i \in 1..Len(passings[k])
        PROVE  detections[k][1].timestamp >= passings[k][i].last + QuietTime - RxLag
    BY <2>2 DEF GapInv
  <2> QED BY <2>3, <2>5, <2>6, <2>7
<1>4. ASSUME NEW k \in Keys
      PROVE  /\ passings[k] \in Seq(Passing) /\ passings'[k] \in Seq(Passing)
             /\ new(k) => Len(passings'[k]) = Len(passings[k]) + 1
                          /\ passings'[k][Len(passings[k]) + 1] = passing(k)
             /\ ~new(k) => passings'[k] = passings[k]
             /\ \A i \in 1..Len(passings[k]) : passings'[k][i] = passings[k][i]
  <2>1. passings[k] \in Seq(Passing)
    BY DEF TypeOK
  <2>2. new(k) => passing(k) \in Passing
    BY <1>2, PassingLemma DEF TypeOK, Expired
  <2>3. CASE new(k)
    <3>1. passings'[k] = Append(passings[k], passing(k))
      BY <1>1, <2>3
    <3> HIDE DEF passing
    <3>2. passing(k) \in Passing
      BY <2>2, <2>3
    <3> HIDE DEF new
    <3> QED BY <2>1, <2>3, <3>1, <3>2
  <2>4. CASE ~new(k)
    BY <1>1, <2>1, <2>4
  <2> QED BY <2>3, <2>4
<1>5. GapInv'
  <2> SUFFICES ASSUME NEW k \in Keys
               PROVE  /\ \A j \in 1..Len(detections'[k]) : detections'[k][j].timestamp >= 1
                      /\ \A i \in 1..Len(passings'[k]) :
                           /\ passings'[k][i].last + QuietTime =< now'
                           /\ \A j \in 1..Len(detections'[k]) :
                                detections'[k][j].timestamp
                                  >= passings'[k][i].last + QuietTime - RxLag
    BY DEF GapInv
  <2>1. CASE new(k)
    <3>1. detections'[k] = <<>>
      BY <1>1, <2>1
    <3>2. ASSUME NEW i \in 1..Len(passings'[k])
          PROVE  passings'[k][i].last + QuietTime =< now'
      <4>1. CASE i \in 1..Len(passings[k])
        BY <1>1, <1>4, <4>1 DEF GapInv
      <4>2. CASE i = Len(passings[k]) + 1
        BY <1>1, <1>3, <1>4, <2>1, <4>2
      <4> QED BY <1>4, <2>1, <4>1, <4>2
    <3> QED BY <3>1, <3>2
  <2>2. CASE ~new(k)
    BY <1>1, <1>4, <2>2 DEF GapInv
  <2> QED BY <2>1, <2>2
<1>6. QuietGap'
  <2> SUFFICES ASSUME NEW k \in Keys, NEW i \in 1..Len(passings'[k]),
                      NEW j \in 1..Len(passings'[k]), i < j
               PROVE  passings'[k][j].first >= passings'[k][i].last + QuietTime - RxLag
    BY DEF QuietGap
  <2>1. CASE j \in 1..Len(passings[k])
    <3>1. i \in 1..Len(passings[k])
      BY <1>4, <2>1
    <3> QED BY <1>4, <2>1, <3>1 DEF QuietGap
  <2>2. CASE j \notin 1..Len(passings[k])
    <3>1. new(k) /\ j = Len(passings[k]) + 1 /\ i \in 1..Len(passings[k])
      BY <1>4, <2>2
    <3> QED BY <1>3, <1>4, <3>1
  <2> QED BY <2>1, <2>2
<1> QED BY <1>5, <1>6

LEMMA GapNext ==
    TypeOK /\ ClockInv /\ GapInv /\ QuietGap /\ [Next]_vars => GapInv' /\ QuietGap'
<1> SUFFICES ASSUME TypeOK, ClockInv, GapInv, QuietGap, [Next]_vars
             PROVE  GapInv' /\ QuietGap'
  OBVIOUS
<1>1. CASE Tick
  BY <1>1, GapUnchanged DEF Tick, TypeOK, detectorVars, historyVars
<1>2. CASE RxBuffer \/ RxDetect \/ RxUndecoded \/ RxBufferEnd \/ Report
  BY <1>2, GapUnchanged DEF RxBuffer, RxDetect, RxUndecoded, RxBufferEnd,
     Report, TypeOK, detectorVars, historyVars
<1>3. ASSUME NEW k \in Keys, RxAppend(k) PROVE GapInv' /\ QuietGap'
  BY <1>3, GapAppend
<1>4. CASE RxTimesync
  BY <1>4, GapUnchanged DEF RxTimesync, TypeOK, historyVars
<1>5. CASE IdentifyTimesyncs
  BY <1>5, GapUnchanged DEF IdentifyTimesyncs, TypeOK
<1>6. CASE IdentifyPassings
  BY <1>6, GapReport
<1>7. CASE UNCHANGED vars
  BY <1>7, GapUnchanged DEF vars, detectorVars, historyVars, TypeOK
<1> QED BY <1>1, <1>2, <1>3, <1>4, <1>5, <1>6, <1>7 DEF Next, Receiver, Reporter

\* Two passings of a transponder are at least QuietTime - RxLag apart, for any
\* number of transponders, any caps and any timing within RxLag.
THEOREM QuietGapCorrect == Spec => []QuietGap
<1> DEFINE IInv == TypeOK /\ ClockInv /\ GapInv /\ QuietGap
<1>1. Init => IInv
  BY TypeInit, ClockInit, GapInit
<1>2. IInv /\ [Next]_vars => IInv'
  BY TypeNext, ClockNext, GapNext
<1>3. IInv => QuietGap
  OBVIOUS
<1> QED BY <1>1, <1>2, <1>3, PTL DEF Spec

----------------------------------------------------------------------------
(* The ledger: what was received, what is pending and what was reported.   *)

\* What push_back with its cap leaves, place by place: the deque as it was, or
\* without its front when it is full, and then the new element.
LEMMA PushPlaces ==
    ASSUME NEW dets \in Seq(Frame), NEW d \in Frame, Len(dets) =< MsgLimit
    PROVE  \E s \in {0, 1} :
             /\ s = 0 <=> Len(dets) < MsgLimit
             /\ Len(Push(dets, d)) = Len(dets) + 1 - s
             /\ Len(Push(dets, d)) >= 1
             /\ Push(dets, d)[Len(Push(dets, d))] = d
             /\ \A i \in 1..(Len(Push(dets, d)) - 1) :
                  i + s \in 1..Len(dets) /\ Push(dets, d)[i] = dets[i + s]
<1> USE LimitAssumption
<1>1. /\ Append(dets, d) \in Seq(Frame)
      /\ Len(Append(dets, d)) = Len(dets) + 1
      /\ Append(dets, d)[Len(dets) + 1] = d
      /\ \A i \in 1..Len(dets) : Append(dets, d)[i] = dets[i]
  OBVIOUS
<1>2. Len(dets) \in Nat
  OBVIOUS
<1>3. CASE Len(dets) < MsgLimit
  <2>1. Push(dets, d) = Append(dets, d)
    BY <1>3 DEF Push
  <2>2. /\ 0 = 0 <=> Len(dets) < MsgLimit
        /\ Len(Push(dets, d)) = Len(dets) + 1 - 0
        /\ Len(Push(dets, d)) >= 1
        /\ Push(dets, d)[Len(Push(dets, d))] = d
        /\ \A i \in 1..(Len(Push(dets, d)) - 1) :
             i + 0 \in 1..Len(dets) /\ Push(dets, d)[i] = dets[i + 0]
    BY <1>1, <1>2, <1>3, <2>1
  <2> QED BY <2>2
<1>4. CASE ~(Len(dets) < MsgLimit)
  <2> DEFINE p == Push(dets, d)
  <2>1. p = Tail(Append(dets, d))
    BY <1>4 DEF Push
  <2>2. Append(dets, d) # <<>>
    BY <1>1
  <2>3. /\ Len(p) = Len(dets)
        /\ \A i \in 1..Len(p) : p[i] = Append(dets, d)[i + 1]
    BY <1>1, <1>2, <2>1, <2>2, HeadTailProperties
  <2>4. Len(dets) = MsgLimit /\ MsgLimit >= 1 /\ MsgLimit \in Nat
    BY <1>2, <1>4
  <2> HIDE DEF p
  <2>5. p[Len(p)] = d
    BY <1>1, <1>2, <2>3, <2>4
  <2>6. ASSUME NEW i \in 1..(Len(p) - 1)
        PROVE  i + 1 \in 1..Len(dets) /\ p[i] = dets[i + 1]
    BY <1>1, <1>2, <2>3, <2>4
  <2>7. /\ 1 = 0 <=> Len(dets) < MsgLimit
        /\ Len(p) = Len(dets) + 1 - 1
        /\ Len(p) >= 1
    BY <1>2, <1>4, <2>3, <2>4
  <2> QED BY <2>5, <2>6, <2>7 DEF p
<1> QED BY <1>3, <1>4

\* A bound that holds of a sum keeps holding when a term grows.
LEMMA LaterSum ==
    \A t, n, m, b \in Nat : t =< n + b /\ m >= n => t =< m + b
OBVIOUS

----------------------------------------------------------------------------
(* The time stamps of a deque, as far as they step back.                   *)

LEMMA JitterInit == Init => JitterInv /\ NotWhilePresent
BY DEF Init, JitterInv, NotWhilePresent

\* Steps that leave the deques and the frame alone.
LEMMA JitterUnchanged ==
    ASSUME TypeOK, JitterInv, NotWhilePresent,
           UNCHANGED <<detections, passings>>,
           frame' = frame \/ frame' = {},
           now' \in Nat, now' >= now,
           \/ rx' = rx
           \/ rx'.pc = "idle"
           \/ rx'.pc = "buffer" /\ rx'.ts = now
    PROVE  JitterInv' /\ NotWhilePresent'
<1>1. now \in Nat /\ BufferSpan \in Nat
  BY TimeAssumption DEF TypeOK
<1>2. ASSUME NEW t \in Nat, t =< now + BufferSpan,
             rx.pc = "buffer" => t =< rx.ts + BufferSpan
      PROVE  /\ t =< now' + BufferSpan
             /\ rx'.pc = "buffer" => t =< rx'.ts + BufferSpan
  <2>1. t =< now' + BufferSpan
    BY <1>1, <1>2, LaterSum
  <2>2. CASE rx' = rx
    BY <1>2, <2>1, <2>2
  <2>3. CASE rx'.pc = "idle"
    BY <2>1, <2>3
  <2>4. CASE rx'.pc = "buffer" /\ rx'.ts = now
    BY <1>2, <2>1, <2>4
  <2> QED BY <2>2, <2>3, <2>4
<1>3. ASSUME NEW f \in frame'
      PROVE  /\ f.timestamp =< now' + BufferSpan
             /\ rx'.pc = "buffer" => f.timestamp =< rx'.ts + BufferSpan
  <2>1. f \in frame /\ f.timestamp \in Nat
    BY DEF TypeOK, Frame
  <2> QED BY <1>2, <2>1 DEF JitterInv
<1>4. ASSUME NEW k \in Keys, NEW j \in 1..Len(detections[k])
      PROVE  /\ detections[k][j].timestamp =< now' + BufferSpan
             /\ rx'.pc = "buffer" => detections[k][j].timestamp =< rx'.ts + BufferSpan
             /\ \A f \in frame' : detections[k][j].timestamp =< f.timestamp + BufferSpan
             /\ \A i \in 1..j :
                  detections[k][i].timestamp =< detections[k][j].timestamp + BufferSpan
  <2>1. detections[k][j] \in Frame
    BY DEF TypeOK
  <2>2. detections[k][j].timestamp \in Nat
    BY <2>1 DEF Frame
  <2>3. /\ detections[k][j].timestamp =< now + BufferSpan
        /\ rx.pc = "buffer" => detections[k][j].timestamp =< rx.ts + BufferSpan
        /\ \A f \in frame : detections[k][j].timestamp =< f.timestamp + BufferSpan
        /\ \A i \in 1..j :
             detections[k][i].timestamp =< detections[k][j].timestamp + BufferSpan
    BY DEF JitterInv
  <2>4. frame' \subseteq frame
    OBVIOUS
  <2> QED BY <1>2, <2>2, <2>3, <2>4
<1>5. JitterInv'
  BY <1>3, <1>4 DEF JitterInv
<1> QED BY <1>5 DEF NotWhilePresent

\* A frame that is found is stamped from the buffer that is being read, which
\* started no earlier than the ones that stamped what is in the deques.
LEMMA JitterDetect ==
    ASSUME TypeOK, ClockInv, JitterInv, NotWhilePresent, RxDetect
    PROVE  JitterInv' /\ NotWhilePresent'
<1>1. PICK o \in rx.off..BufferSpan :
        /\ frame' = {[timestamp |-> rx.ts + o, timecode |-> timecode]}
        /\ rx' = [rx EXCEPT !.off = o]
  BY DEF RxDetect
<1>2. /\ rx.pc = "buffer" /\ rx.ts =< now
      /\ now' = now /\ detections' = detections /\ passings' = passings
  BY DEF RxDetect, ClockInv, detectorVars, historyVars
<1>3. /\ rx.ts \in Nat /\ o \in Nat /\ o =< BufferSpan /\ now \in Nat
      /\ BufferSpan \in Nat
  BY TimeAssumption DEF TypeOK
<1>4. rx'.ts = rx.ts
  <2>1. rx \in [pc : {"idle", "buffer"}, ts : Nat, off : Nat]
    BY DEF TypeOK
  <2> QED BY <1>1, <2>1
<1>5. \A f \in frame' : f.timestamp = rx.ts + o
  BY <1>1
<1>6. ASSUME NEW f \in frame'
      PROVE  f.timestamp =< now' + BufferSpan /\ f.timestamp =< rx'.ts + BufferSpan
  BY <1>2, <1>3, <1>4, <1>5
<1>7. ASSUME NEW k \in Keys, NEW j \in 1..Len(detections[k]), NEW f \in frame'
      PROVE  detections[k][j].timestamp =< f.timestamp + BufferSpan
  <2>1. detections[k][j] \in Frame
    BY DEF TypeOK
  <2>2. detections[k][j].timestamp \in Nat
    BY <2>1 DEF Frame
  <2>3. detections[k][j].timestamp =< rx.ts + BufferSpan
    BY <1>2 DEF JitterInv
  <2> QED BY <1>3, <1>5, <2>2, <2>3
<1>8. JitterInv'
  BY <1>2, <1>4, <1>6, <1>7 DEF JitterInv
<1> QED BY <1>2, <1>8 DEF NotWhilePresent

\* What is appended steps back from nothing in the deque by more than a buffer.
LEMMA JitterAppend ==
    ASSUME TypeOK, JitterInv, NotWhilePresent, NEW k \in Keys, RxAppend(k)
    PROVE  JitterInv' /\ NotWhilePresent'
<1>1. PICK f \in frame : detections' = [detections EXCEPT ![k] = Push(@, f)]
  BY DEF RxAppend
<1>2. /\ f \in Frame /\ f.timestamp \in Nat
      /\ f.timestamp =< now + BufferSpan
      /\ rx.pc = "buffer" => f.timestamp =< rx.ts + BufferSpan
  BY DEF TypeOK, JitterInv, Frame
<1>3. /\ passings' = passings /\ now' = now /\ rx' = rx /\ frame' = {}
  BY DEF RxAppend
<1> DEFINE dets == detections[k]
           pushed == Push(dets, f)
<1>4. dets \in Seq(Frame) /\ Len(dets) =< MsgLimit
  BY DEF TypeOK
<1>5. PICK s \in {0, 1} :
        /\ Len(pushed) = Len(dets) + 1 - s
        /\ Len(pushed) >= 1
        /\ pushed[Len(pushed)] = f
        /\ \A i \in 1..(Len(pushed) - 1) : i + s \in 1..Len(dets) /\ pushed[i] = dets[i + s]
  BY <1>2, <1>4, PushPlaces
<1>6. \A c \in Keys : detections'[c] = IF c = k THEN pushed ELSE detections[c]
  BY <1>1 DEF TypeOK
<1>7. ASSUME NEW c \in Keys, NEW j \in 1..Len(detections[c])
      PROVE  /\ detections[c][j].timestamp =< now + BufferSpan
             /\ rx.pc = "buffer" => detections[c][j].timestamp =< rx.ts + BufferSpan
             /\ detections[c][j].timestamp =< f.timestamp + BufferSpan
             /\ \A i \in 1..j :
                  detections[c][i].timestamp =< detections[c][j].timestamp + BufferSpan
  BY DEF JitterInv
<1>8. Len(pushed) \in Nat /\ Len(dets) \in Nat
  BY <1>4, <1>5
<1> HIDE DEF pushed
<1>9. ASSUME NEW j \in 1..Len(pushed)
      PROVE  /\ pushed[j].timestamp =< now + BufferSpan
             /\ rx.pc = "buffer" => pushed[j].timestamp =< rx.ts + BufferSpan
             /\ \A i \in 1..j : pushed[i].timestamp =< pushed[j].timestamp + BufferSpan
  <2>1. CASE j = Len(pushed)
    <3>1. pushed[j] = f
      BY <1>5, <2>1
    <3>2. ASSUME NEW i \in 1..j
          PROVE  pushed[i].timestamp =< f.timestamp + BufferSpan
      <4>1. CASE i = j
        BY <1>2, <3>1, <4>1, TimeAssumption
      <4>2. CASE i # j
        <5>1. i \in 1..(Len(pushed) - 1)
          BY <1>8, <2>1, <4>2
        <5> QED BY <1>5, <1>7, <5>1
      <4> QED BY <4>1, <4>2
    <3> QED BY <1>2, <3>1, <3>2
  <2>2. CASE j # Len(pushed)
    <3>1. j \in 1..(Len(pushed) - 1)
      BY <1>8, <2>2
    <3>2. j + s \in 1..Len(dets) /\ pushed[j] = dets[j + s]
      BY <1>5, <3>1
    <3>3. ASSUME NEW i \in 1..j
          PROVE  pushed[i].timestamp =< pushed[j].timestamp + BufferSpan
      <4>1. i \in 1..(Len(pushed) - 1) /\ i + s \in 1..(j + s)
        BY <1>8, <3>1
      <4>2. pushed[i] = dets[i + s]
        BY <1>5, <4>1
      <4> QED BY <1>7, <3>2, <4>1, <4>2
    <3> QED BY <1>7, <3>2, <3>3
  <2> QED BY <2>1, <2>2
<1>10. JitterInv'
  BY <1>3, <1>6, <1>7, <1>9 DEF JitterInv
<1> QED BY <1>3, <1>10 DEF NotWhilePresent

\* A deque is published when its back is no newer than the deadline, and
\* nothing in it is more than a buffer newer than its back.
LEMMA JitterReport ==
    ASSUME TypeOK, JitterInv, NotWhilePresent, IdentifyPassings
    PROVE  JitterInv' /\ NotWhilePresent'
<1> DEFINE deadline == Deadline(reporter.now_ts)
           erased(k) == Expired(detections[k], deadline)
           new(k) == erased(k) /\ EnoughHits(detections[k])
           passing(k) == PassingOf(k, detections[k], deadline)
<1>1. /\ now' = now /\ rx' = rx /\ frame' = frame
      /\ \A k \in Keys :
           /\ detections'[k] = IF erased(k) THEN <<>> ELSE detections[k]
           /\ passings'[k] = IF new(k) THEN Append(passings[k], passing(k))
                             ELSE passings[k]
  BY DEF IdentifyPassings, Erase, rxVars
<1>2. deadline \in Nat
  BY DeadlineLemma DEF TypeOK
<1>3. JitterInv'
  <2> HIDE DEF deadline
  <2>1. ASSUME NEW k \in Keys, NEW j \in 1..Len(detections'[k])
        PROVE  /\ detections'[k] = detections[k]
               /\ j \in 1..Len(detections[k])
    BY <1>1
  <2> QED BY <1>1, <2>1 DEF JitterInv
<1>4. ASSUME NEW k \in Keys, new(k), NEW j \in 1..Len(detections[k])
      PROVE  detections[k][j].timestamp =< deadline + BufferSpan
  <2>1. detections[k] \in Seq(Frame) /\ Len(detections[k]) \in Nat
    BY DEF TypeOK
  <2>2. Len(detections[k]) \in 1..Len(detections[k]) /\ j \in 1..Len(detections[k])
    BY <2>1
  <2>3. detections[k][j].timestamp =< detections[k][Len(detections[k])].timestamp + BufferSpan
    BY <2>2 DEF JitterInv
  <2>4. detections[k][Len(detections[k])].timestamp =< deadline
    BY <1>4 DEF Expired, Last
  <2>5. detections[k][j] \in Frame /\ detections[k][Len(detections[k])] \in Frame
    BY <2>1, <2>2
  <2>6. detections[k][j].timestamp \in Nat /\ detections[k][Len(detections[k])].timestamp \in Nat
    BY <2>5 DEF Frame
  <2> HIDE DEF deadline
  <2> QED BY <1>2, <2>3, <2>4, <2>6, TimeAssumption
<1>5. ASSUME NEW k \in Keys, new(k)
      PROVE  passing(k).dets = detections[k] /\ passing(k).deadline = deadline
             /\ passing(k) \in Passing
  BY <1>2, <1>5, PassingLemma DEF PassingOf, TypeOK, Expired
<1>6. NotWhilePresent'
  <2> SUFFICES ASSUME NEW k \in Keys, NEW i \in 1..Len(passings'[k]),
                      NEW j \in 1..Len(passings'[k][i].dets)
               PROVE  passings'[k][i].dets[j].timestamp
                        =< passings'[k][i].deadline + BufferSpan
    BY DEF NotWhilePresent
  <2>0. passings[k] \in Seq(Passing)
    BY DEF TypeOK
  <2>1. CASE ~new(k)
    BY <1>1, <2>1 DEF NotWhilePresent
  <2>2. CASE new(k)
    <3>1. passings'[k] = Append(passings[k], passing(k)) /\ passing(k) \in Passing
      BY <1>1, <1>5, <2>2
    <3> HIDE DEF passing
    <3>2. CASE i \in 1..Len(passings[k])
      <4>1. passings'[k][i] = passings[k][i]
        BY <2>0, <3>1, <3>2
      <4> QED BY <3>2, <4>1 DEF NotWhilePresent
    <3>3. CASE i \notin 1..Len(passings[k])
      <4> HIDE DEF new
      <4>1. i = Len(passings[k]) + 1 /\ passings'[k][i] = passing(k)
        BY <2>0, <3>1, <3>3
      <4> QED BY <1>4, <1>5, <2>2, <4>1
    <3> QED BY <3>2, <3>3
  <2> QED BY <2>1, <2>2
<1> QED BY <1>3, <1>6

LEMMA JitterNext ==
    TypeOK /\ ClockInv /\ JitterInv /\ NotWhilePresent /\ [Next]_vars
      => JitterInv' /\ NotWhilePresent'
<1> SUFFICES ASSUME TypeOK, ClockInv, JitterInv, NotWhilePresent, [Next]_vars
             PROVE  JitterInv' /\ NotWhilePresent'
  OBVIOUS
<1> USE DEF detectorVars, historyVars, rxVars
<1>0. now \in Nat
  BY DEF TypeOK
<1>1. CASE Tick
  BY <1>0, <1>1, JitterUnchanged DEF Tick
<1>2. CASE RxBuffer
  BY <1>0, <1>2, JitterUnchanged DEF RxBuffer
<1>3. CASE RxDetect
  BY <1>3, JitterDetect
<1>4. ASSUME NEW k \in Keys, RxAppend(k) PROVE JitterInv' /\ NotWhilePresent'
  BY <1>4, JitterAppend
<1>5. CASE RxTimesync
  BY <1>0, <1>5, JitterUnchanged DEF RxTimesync
<1>6. CASE RxUndecoded
  BY <1>0, <1>6, JitterUnchanged DEF RxUndecoded
<1>7. CASE RxBufferEnd
  BY <1>0, <1>7, JitterUnchanged DEF RxBufferEnd
<1>8. CASE Report
  BY <1>0, <1>8, JitterUnchanged DEF Report
<1>9. CASE IdentifyTimesyncs
  BY <1>0, <1>9, JitterUnchanged DEF IdentifyTimesyncs
<1>10. CASE IdentifyPassings
  BY <1>10, JitterReport
<1>11. CASE UNCHANGED vars
  BY <1>0, <1>11, JitterUnchanged DEF vars
<1> QED
  BY <1>1, <1>2, <1>3, <1>4, <1>5, <1>6, <1>7, <1>8, <1>9, <1>10, <1>11
  DEF Next, Receiver, Reporter

\* identify_passings never publishes a detection that is newer than its
\* deadline by more than the length of a buffer, however often stamps step back.
THEOREM NotWhilePresentCorrect == Spec => []NotWhilePresent
<1> DEFINE IInv == TypeOK /\ ClockInv /\ JitterInv /\ NotWhilePresent
<1>1. Init => IInv
  BY TypeInit, ClockInit, JitterInit
<1>2. IInv /\ [Next]_vars => IInv'
  BY TypeNext, ClockNext, JitterNext
<1>3. IInv => NotWhilePresent
  OBVIOUS
<1> QED BY <1>1, <1>2, <1>3, PTL DEF Spec

----------------------------------------------------------------------------
(* The order in which detections are numbered, and their conservation.     *)

\* The codes of a deque that ascends, when a later one is pushed: all of them
\* and the new one, less the smallest when the deque was full.
LEMMA PushCodes ==
    ASSUME NEW dets \in Seq(Frame), NEW d \in Frame, Len(dets) =< MsgLimit,
           Ascending(dets), \A c \in Codes(dets) : c < d.timecode
    PROVE  /\ Ascending(Push(dets, d))
           /\ Codes(Append(dets, d)) = Codes(dets) \cup {d.timecode}
           /\ Len(dets) < MsgLimit =>
                Codes(Push(dets, d)) = Codes(dets) \cup {d.timecode}
           /\ ~(Len(dets) < MsgLimit) =>
                /\ dets[1].timecode \in Codes(dets)
                /\ \A c \in Codes(dets) : dets[1].timecode =< c
                /\ Codes(Push(dets, d)) =
                     (Codes(dets) \cup {d.timecode}) \ {dets[1].timecode}
<1> DEFINE pushed == Push(dets, d)
<1>1. PICK s \in {0, 1} :
        /\ s = 0 <=> Len(dets) < MsgLimit
        /\ Len(pushed) = Len(dets) + 1 - s
        /\ Len(pushed) >= 1
        /\ pushed[Len(pushed)] = d
        /\ \A i \in 1..(Len(pushed) - 1) : i + s \in 1..Len(dets) /\ pushed[i] = dets[i + s]
  BY PushPlaces
<1>2. /\ Len(dets) \in Nat /\ Len(pushed) \in Nat
      /\ d.timecode \in Nat
      /\ \A i \in 1..Len(dets) : dets[i].timecode \in Nat
  <2>1. \A i \in 1..Len(dets) : dets[i] \in Frame
    OBVIOUS
  <2> QED BY <1>1, <2>1 DEF Frame
<1>3. \A i \in 1..Len(dets) :
        dets[i].timecode \in Codes(dets) /\ dets[i].timecode < d.timecode
  BY DEF Codes
<1> HIDE DEF pushed
<1>4. Ascending(pushed)
  <2> SUFFICES ASSUME NEW i \in 1..Len(pushed), NEW j \in 1..Len(pushed), i < j
               PROVE  pushed[i].timecode < pushed[j].timecode
    BY DEF Ascending
  <2>1. i \in 1..(Len(pushed) - 1)
    BY <1>2
  <2>2. i + s \in 1..Len(dets) /\ pushed[i] = dets[i + s]
    BY <1>1, <2>1
  <2>3. CASE j = Len(pushed)
    <3>1. pushed[j] = d
      BY <1>1, <2>3
    <3>2. dets[i + s].timecode < d.timecode
      BY <1>3, <2>2
    <3> QED BY <2>2, <3>1, <3>2
  <2>4. CASE j # Len(pushed)
    <3>1. j \in 1..(Len(pushed) - 1)
      BY <1>2, <2>4
    <3>2. j + s \in 1..Len(dets) /\ pushed[j] = dets[j + s] /\ i + s < j + s
      BY <1>1, <3>1
    <3> QED BY <2>2, <3>2 DEF Ascending
  <2> QED BY <2>3, <2>4
<1>5. Codes(Append(dets, d)) = Codes(dets) \cup {d.timecode}
  <2> DEFINE all == Append(dets, d)
  <2>1. /\ Len(all) = Len(dets) + 1
        /\ all[Len(dets) + 1] = d
        /\ \A i \in 1..Len(dets) : all[i] = dets[i]
    OBVIOUS
  <2>2. 1..(Len(dets) + 1) = (1..Len(dets)) \cup {Len(dets) + 1}
    BY <1>2
  <2> HIDE DEF all
  <2>3. Codes(all) = Codes(dets) \cup {d.timecode}
    <3>1. ASSUME NEW c, c \in Codes(all) PROVE c \in Codes(dets) \cup {d.timecode}
      <4>1. PICK i \in 1..Len(all) : c = all[i].timecode
        BY <3>1 DEF Codes
      <4>2. CASE i \in 1..Len(dets)
        BY <2>1, <4>1, <4>2 DEF Codes
      <4>3. CASE i = Len(dets) + 1
        BY <2>1, <4>1, <4>3
      <4> QED BY <2>1, <2>2, <4>2, <4>3
    <3>2. \A i \in 1..Len(dets) : dets[i].timecode \in Codes(all)
      BY <2>1, <2>2 DEF Codes
    <3>3. d.timecode \in Codes(all)
      BY <2>1, <2>2 DEF Codes
    <3>4. ASSUME NEW c, c \in Codes(dets) PROVE c \in Codes(all)
      BY <3>2, <3>4 DEF Codes
    <3> QED BY <3>1, <3>3, <3>4
  <2> QED BY <2>3 DEF all
<1>6. \A c : c \in Codes(pushed) <=>
        c = d.timecode \/ \E i \in 1..Len(dets) : i > s /\ c = dets[i].timecode
  <2>1. ASSUME NEW c, c \in Codes(pushed)
        PROVE  c = d.timecode \/ \E i \in 1..Len(dets) : i > s /\ c = dets[i].timecode
    <3>1. PICK j \in 1..Len(pushed) : c = pushed[j].timecode
      BY <2>1 DEF Codes
    <3>2. CASE j = Len(pushed)
      BY <1>1, <3>1, <3>2
    <3>3. CASE j # Len(pushed)
      <4>1. j \in 1..(Len(pushed) - 1) /\ j + s > s
        BY <1>2, <3>3
      <4> QED BY <1>1, <3>1, <4>1
    <3> QED BY <3>2, <3>3
  <2>2. d.timecode \in Codes(pushed)
    <3>1. Len(pushed) \in 1..Len(pushed)
      BY <1>1, <1>2
    <3> QED BY <1>1, <3>1 DEF Codes
  <2>3. ASSUME NEW i \in 1..Len(dets), i > s
        PROVE  dets[i].timecode \in Codes(pushed)
    <3>1. /\ i - s \in 1..(Len(pushed) - 1)
          /\ i - s \in 1..Len(pushed)
          /\ (i - s) + s = i
      BY <1>1, <1>2, <2>3
    <3>2. pushed[i - s] = dets[i]
      BY <1>1, <3>1
    <3> QED BY <3>1, <3>2 DEF Codes
  <2> QED BY <2>1, <2>2, <2>3
<1>7. ASSUME Len(dets) < MsgLimit
      PROVE  Codes(pushed) = Codes(dets) \cup {d.timecode}
  <2>1. \A i \in 1..Len(dets) : i > s
    BY <1>1, <1>7
  <2> QED BY <1>6, <2>1 DEF Codes
<1>8. ASSUME ~(Len(dets) < MsgLimit)
      PROVE  /\ dets[1].timecode \in Codes(dets)
             /\ \A c \in Codes(dets) : dets[1].timecode =< c
             /\ Codes(pushed) = (Codes(dets) \cup {d.timecode}) \ {dets[1].timecode}
  <2>1. s = 1 /\ 1 \in 1..Len(dets)
    BY <1>1, <1>2, <1>8, LimitAssumption
  <2>2. dets[1].timecode \in Codes(dets)
    BY <1>3, <2>1
  <2>3. \A i \in 1..Len(dets) : i > s => dets[1].timecode < dets[i].timecode
    BY <2>1 DEF Ascending
  <2>4. ASSUME NEW i \in 1..Len(dets)
        PROVE  i = 1 \/ i > s
    BY <2>1
  <2>5. \A c \in Codes(dets) : dets[1].timecode =< c
    <3>1. \A i \in 1..Len(dets) : dets[1].timecode =< dets[i].timecode
      BY <1>2, <2>1, <2>3, <2>4
    <3> QED BY <3>1 DEF Codes
  <2>6. d.timecode # dets[1].timecode
    BY <1>2, <1>3, <2>1
  <2>7. \A i \in 1..Len(dets) : i > s => dets[i].timecode # dets[1].timecode
    BY <1>2, <2>1, <2>3
  <2>8. \A c : c \in Codes(dets) <=> \E i \in 1..Len(dets) : c = dets[i].timecode
    BY DEF Codes
  <2>9. Codes(pushed) = (Codes(dets) \cup {d.timecode}) \ {dets[1].timecode}
    <3>1. ASSUME NEW c, c \in Codes(pushed)
          PROVE  c \in (Codes(dets) \cup {d.timecode}) \ {dets[1].timecode}
      BY <1>6, <2>6, <2>7, <2>8, <3>1
    <3>2. ASSUME NEW c, c \in (Codes(dets) \cup {d.timecode}) \ {dets[1].timecode}
          PROVE  c \in Codes(pushed)
      BY <1>6, <2>4, <2>8, <3>2
    <3> QED BY <3>1, <3>2
  <2> QED BY <2>2, <2>5, <2>9
<1> QED BY <1>4, <1>5, <1>7, <1>8 DEF pushed

LEMMA CodesOfNone == Codes(<<>>) = {} /\ Ascending(<<>>)
BY DEF Codes, Ascending

LEMMA CodesInNat ==
    ASSUME TypeOK, NEW k \in Keys
    PROVE  /\ detections[k] \in Seq(Frame) /\ Codes(detections[k]) \in SUBSET Nat
           /\ received[k] \in SUBSET Nat /\ passings[k] \in Seq(Passing)
           /\ \A i \in 1..Len(passings[k]) :
                Codes(passings[k][i].dets) \in SUBSET Nat
<1>1. detections[k] \in Seq(Frame)
  BY DEF TypeOK
<1>2. ASSUME NEW i \in 1..Len(passings[k])
      PROVE  passings[k][i].dets \in Seq(Frame)
  <2>1. passings[k][i] \in Passing
    BY DEF TypeOK
  <2> QED BY <2>1 DEF Passing
<1> QED BY <1>1, <1>2, CodesLemma DEF TypeOK

LEMMA OrderInit == Init => OrderInv /\ Conservation
<1> SUFFICES ASSUME Init PROVE OrderInv /\ Conservation
  OBVIOUS
<1>1. \A k \in Keys : detections[k] = <<>> /\ passings[k] = <<>>
                      /\ received[k] = {} /\ lost[k] = {}
  BY DEF Init
<1>2. \A k \in Keys : Reported(k) = {}
  BY <1>1 DEF Reported
<1>3. OrderInv
  BY <1>1, CodesOfNone, TimeAssumption DEF Init, OrderInv
<1>4. Conservation
  BY <1>1, <1>2, CodesOfNone DEF Conservation
<1> QED BY <1>3, <1>4

\* Steps that leave the detections where they are, and find no frame.
LEMMA OrderUnchanged ==
    ASSUME TypeOK, OrderInv, Conservation,
           UNCHANGED <<timecode, detections, passings, received, lost>>,
           frame' = frame \/ frame' = {}
    PROVE  OrderInv' /\ Conservation'
<1>1. frame' \subseteq frame
  OBVIOUS
<1>2. OrderInv'
  BY <1>1 DEF OrderInv
<1>3. \A k \in Keys : Reported(k)' = Reported(k)
  BY DEF Reported
<1>4. Conservation'
  BY <1>3 DEF Conservation
<1> QED BY <1>2, <1>4

\* A frame that is found gets a number no detection has.
LEMMA OrderDetect ==
    ASSUME TypeOK, OrderInv, Conservation, RxDetect
    PROVE  OrderInv' /\ Conservation'
<1>1. /\ \A f \in frame' : f.timecode = timecode
      /\ timecode' = timecode + 1 /\ timecode < MaxFrames /\ frame = {}
      /\ UNCHANGED <<detections, passings, received, lost>>
  BY DEF RxDetect, detectorVars, historyVars
<1>2. timecode \in Nat /\ MaxFrames \in Nat
  BY TimeAssumption DEF TypeOK
<1>3. timecode' =< MaxFrames /\ timecode < timecode'
  BY <1>1, <1>2
<1>4. ASSUME NEW k \in Keys, NEW c \in received[k]
      PROVE  c < timecode /\ c < timecode'
  <2>1. c \in Nat
    BY DEF TypeOK
  <2>2. c < timecode
    BY DEF OrderInv
  <2> QED BY <1>1, <1>2, <2>1, <2>2
<1>5. OrderInv'
  BY <1>1, <1>3, <1>4 DEF OrderInv
<1>6. \A k \in Keys : Reported(k)' = Reported(k)
  BY <1>1 DEF Reported
<1>7. Conservation'
  BY <1>1, <1>6 DEF Conservation
<1> QED BY <1>5, <1>7

\* What append does to the codes of its key: the frame's is new to them, and
\* one that is evicted is the smallest.
LEMMA AppendCodes ==
    ASSUME TypeOK, OrderInv, Conservation, NEW k \in Keys, NEW f \in frame
    PROVE  /\ f \in Frame
           /\ Ascending(Push(detections[k], f))
           /\ f.timecode \notin received[k]
           /\ Codes(detections[k]) \subseteq received[k]
           /\ Codes(Append(detections[k], f)) = Codes(detections[k]) \cup {f.timecode}
           /\ Len(detections[k]) < MsgLimit =>
                Codes(Push(detections[k], f)) = Codes(Append(detections[k], f))
           /\ ~(Len(detections[k]) < MsgLimit) =>
                /\ detections[k][1].timecode \in Codes(detections[k])
                /\ \A c \in Codes(detections[k]) : detections[k][1].timecode =< c
                /\ Codes(Push(detections[k], f)) =
                     Codes(Append(detections[k], f)) \ {detections[k][1].timecode}
<1>1. /\ f \in Frame /\ detections[k] \in Seq(Frame) /\ Len(detections[k]) =< MsgLimit
      /\ f.timecode \in Nat
  BY DEF TypeOK, Frame
<1>2. Codes(detections[k]) \subseteq received[k]
  BY DEF Conservation
<1>3. \A c \in received[k] : c < f.timecode
  BY DEF OrderInv
<1>4. f.timecode \notin received[k]
  BY <1>1, <1>3
<1>5. Ascending(detections[k]) /\ \A c \in Codes(detections[k]) : c < f.timecode
  BY <1>2, <1>3 DEF OrderInv
<1>6. /\ Ascending(Push(detections[k], f))
      /\ Codes(Append(detections[k], f)) = Codes(detections[k]) \cup {f.timecode}
      /\ Len(detections[k]) < MsgLimit =>
           Codes(Push(detections[k], f)) = Codes(detections[k]) \cup {f.timecode}
      /\ ~(Len(detections[k]) < MsgLimit) =>
           /\ detections[k][1].timecode \in Codes(detections[k])
           /\ \A c \in Codes(detections[k]) : detections[k][1].timecode =< c
           /\ Codes(Push(detections[k], f)) =
                (Codes(detections[k]) \cup {f.timecode}) \ {detections[k][1].timecode}
  BY <1>1, <1>5, PushCodes
<1> QED BY <1>1, <1>2, <1>4, <1>6

LEMMA OrderAppend ==
    ASSUME TypeOK, OrderInv, Conservation, NEW k \in Keys, RxAppend(k)
    PROVE  OrderInv' /\ Conservation'
<1>1. PICK f \in frame :
        /\ detections' = [detections EXCEPT ![k] = Push(@, f)]
        /\ received' = [received EXCEPT ![k] = @ \cup {f.timecode}]
        /\ lost' = [lost EXCEPT ![k] = @ \cup
             (Codes(Append(detections[k], f)) \ Codes(Push(detections[k], f)))]
  BY DEF RxAppend
<1>2. frame' = {} /\ timecode' = timecode /\ passings' = passings
  BY DEF RxAppend
<1>3. /\ f \in Frame
      /\ Ascending(Push(detections[k], f))
      /\ f.timecode \notin received[k]
      /\ Codes(detections[k]) \subseteq received[k]
      /\ Codes(Append(detections[k], f)) = Codes(detections[k]) \cup {f.timecode}
      /\ Codes(Push(detections[k], f)) \subseteq Codes(Append(detections[k], f))
  BY AppendCodes
<1>4. \A c \in Keys :
        /\ c = k => /\ detections'[c] = Push(detections[k], f)
                    /\ received'[c] = received[k] \cup {f.timecode}
                    /\ lost'[c] = lost[k] \cup
                         (Codes(Append(detections[k], f)) \ Codes(Push(detections[k], f)))
        /\ c # k => /\ detections'[c] = detections[c]
                    /\ received'[c] = received[c] /\ lost'[c] = lost[c]
  BY <1>1 DEF TypeOK
<1>5. \A c \in Keys : Reported(c)' = Reported(c)
  BY <1>2 DEF Reported
<1>6. f.timecode < timecode
  BY DEF OrderInv
<1>7. OrderInv'
  <2>1. timecode' =< MaxFrames /\ \A g \in frame' : g.timecode < timecode'
    BY <1>2 DEF OrderInv
  <2>2. ASSUME NEW c \in Keys
        PROVE  /\ Ascending(detections'[c])
               /\ \A d \in received'[c] : d < timecode'
               /\ \A i \in 1..Len(passings[c]) :
                    \A a \in Codes(passings[c][i].dets), d \in Codes(detections'[c]) : a < d
    <3>1. CASE c # k
      BY <1>2, <1>4, <3>1 DEF OrderInv
    <3>2. CASE c = k
      <4>1. Ascending(detections'[c])
        BY <1>3, <1>4, <3>2
      <4>2. \A d \in received'[c] : d < timecode'
        BY <1>2, <1>4, <1>6, <3>2 DEF OrderInv
      <4>3. ASSUME NEW i \in 1..Len(passings[c]), NEW a \in Codes(passings[c][i].dets),
                   NEW d \in Codes(detections'[c])
            PROVE  a < d
        <5>1. d = f.timecode \/ d \in Codes(detections[c])
          BY <1>3, <1>4, <3>2
        <5>2. a \in received[c]
          BY DEF Conservation, Reported
        <5>3. a < f.timecode
          BY <5>2 DEF OrderInv
        <5>4. d \in Codes(detections[c]) => a < d
          BY DEF OrderInv
        <5> QED BY <5>1, <5>3, <5>4
      <4> QED BY <4>1, <4>2, <4>3
    <3> QED BY <3>1, <3>2
  <2> QED BY <1>2, <2>1, <2>2 DEF OrderInv
<1>8. Conservation'
  <2> SUFFICES ASSUME NEW c \in Keys
               PROVE  /\ received'[c] = Codes(detections'[c]) \cup Reported(c) \cup lost'[c]
                      /\ Codes(detections'[c]) \cap Reported(c) = {}
                      /\ lost'[c] \cap (Codes(detections'[c]) \cup Reported(c)) = {}
    BY <1>2, <1>5 DEF Conservation
  <2>1. /\ received[c] = Codes(detections[c]) \cup Reported(c) \cup lost[c]
        /\ Codes(detections[c]) \cap Reported(c) = {}
        /\ lost[c] \cap (Codes(detections[c]) \cup Reported(c)) = {}
    BY DEF Conservation
  <2>2. CASE c # k
    BY <1>4, <2>1, <2>2
  <2>3. CASE c = k
    BY <1>3, <1>4, <2>1, <2>3
  <2> QED BY <2>2, <2>3
<1> QED BY <1>7, <1>8

\* What identify_passings does to a transponder: nothing, or its deque is
\* erased and all of it becomes its next passing or is lost.
Gone(k) == Expired(detections[k], Deadline(reporter.now_ts))

LEMMA ReportStep ==
    ASSUME TypeOK, IdentifyPassings, NEW k \in Keys
    PROVE  /\ ~Gone(k) => /\ detections'[k] = detections[k]
                          /\ passings'[k] = passings[k]
                          /\ lost'[k] = lost[k]
           /\ Gone(k) => detections[k] # <<>> /\ detections'[k] = <<>>
           /\ Gone(k) /\ ~EnoughHits(detections[k]) =>
                /\ passings'[k] = passings[k]
                /\ lost'[k] = lost[k] \cup Codes(detections[k])
           /\ Gone(k) /\ EnoughHits(detections[k]) =>
                /\ lost'[k] = lost[k]
                /\ Len(passings'[k]) = Len(passings[k]) + 1
                /\ \A i \in 1..Len(passings[k]) : passings'[k][i] = passings[k][i]
                /\ passings'[k][Len(passings[k]) + 1].dets = detections[k]
<1> DEFINE deadline == Deadline(reporter.now_ts)
           passing == PassingOf(k, detections[k], deadline)
<1>1. /\ detections'[k] = IF Gone(k) THEN <<>> ELSE detections[k]
      /\ passings'[k] = IF Gone(k) /\ EnoughHits(detections[k])
                        THEN Append(passings[k], passing) ELSE passings[k]
      /\ lost'[k] = IF Gone(k) /\ ~EnoughHits(detections[k])
                    THEN lost[k] \cup Codes(detections[k]) ELSE lost[k]
  BY DEF IdentifyPassings, Erase, Gone
<1>2. Gone(k) => detections[k] # <<>>
  BY DEF Gone, Expired
<1>3. ASSUME Gone(k), EnoughHits(detections[k])
      PROVE  /\ Len(passings'[k]) = Len(passings[k]) + 1
             /\ \A i \in 1..Len(passings[k]) : passings'[k][i] = passings[k][i]
             /\ passings'[k][Len(passings[k]) + 1].dets = detections[k]
  <2>1. deadline \in Nat /\ detections[k] \in Seq(Frame)
    BY DeadlineLemma DEF TypeOK
  <2>2. passing \in Passing /\ passing.dets = detections[k]
    BY <1>2, <1>3, <2>1, PassingLemma DEF PassingOf
  <2>3. passings[k] \in Seq(Passing) /\ passings'[k] = Append(passings[k], passing)
    BY <1>1, <1>3 DEF TypeOK
  <2> HIDE DEF passing
  <2> QED BY <2>2, <2>3
<1> QED BY <1>1, <1>2, <1>3

\* What is reported for a transponder when a deque of its is published.
LEMMA ReportedMore ==
    ASSUME NEW k \in Keys, passings[k] \in Seq(Passing), passings'[k] \in Seq(Passing),
           Len(passings'[k]) = Len(passings[k]) + 1,
           \A i \in 1..Len(passings[k]) : passings'[k][i] = passings[k][i]
    PROVE  Reported(k)' =
             Reported(k) \cup Codes(passings'[k][Len(passings[k]) + 1].dets)
<1> DEFINE n == Len(passings[k])
<1>1. n \in Nat
  OBVIOUS
<1>2. 1..Len(passings'[k]) = (1..n) \cup {n + 1}
  BY <1>1
<1> HIDE DEF n
<1>3. ASSUME NEW c
      PROVE  (\E i \in 1..Len(passings'[k]) : c \in Codes(passings'[k][i].dets))
               <=> \/ \E i \in 1..n : c \in Codes(passings[k][i].dets)
                   \/ c \in Codes(passings'[k][n + 1].dets)
  BY <1>2 DEF n
<1>4. \A c : c \in Reported(k)' <=> c \in Reported(k) \cup Codes(passings'[k][n + 1].dets)
  BY <1>3 DEF Reported, n
<1> QED BY <1>4 DEF n

LEMMA OrderReport ==
    ASSUME TypeOK, TypeOK', OrderInv, Conservation, IdentifyPassings
    PROVE  OrderInv' /\ Conservation'
<1>1. /\ frame' = frame /\ timecode' = timecode /\ received' = received
  BY DEF IdentifyPassings, rxVars
<1>2. ASSUME NEW k \in Keys
      PROVE  /\ Ascending(detections'[k])
             /\ \A i \in 1..Len(passings'[k]) :
                  \A c \in Codes(passings'[k][i].dets), d \in Codes(detections'[k]) : c < d
  <2>1. CASE ~Gone(k)
    BY <2>1, ReportStep DEF OrderInv
  <2>2. CASE Gone(k)
    BY <2>2, ReportStep, CodesOfNone
  <2> QED BY <2>1, <2>2
<1>3. OrderInv'
  BY <1>1, <1>2 DEF OrderInv
<1>4. ASSUME NEW k \in Keys
      PROVE  /\ received[k] = Codes(detections'[k]) \cup Reported(k)' \cup lost'[k]
             /\ Codes(detections'[k]) \cap Reported(k)' = {}
             /\ lost'[k] \cap (Codes(detections'[k]) \cup Reported(k)') = {}
             /\ \A i, j \in 1..Len(passings'[k]) :
                  i < j => \A c \in Codes(passings'[k][i].dets),
                              d \in Codes(passings'[k][j].dets) : c < d
  <2>1. /\ received[k] = Codes(detections[k]) \cup Reported(k) \cup lost[k]
        /\ Codes(detections[k]) \cap Reported(k) = {}
        /\ lost[k] \cap (Codes(detections[k]) \cup Reported(k)) = {}
        /\ \A i, j \in 1..Len(passings[k]) :
             i < j => \A c \in Codes(passings[k][i].dets),
                         d \in Codes(passings[k][j].dets) : c < d
    BY DEF Conservation
  <2>2. passings'[k] = passings[k] => Reported(k)' = Reported(k)
    BY DEF Reported
  <2>3. CASE ~Gone(k)
    BY <2>1, <2>2, <2>3, ReportStep
  <2>4. CASE Gone(k) /\ ~EnoughHits(detections[k])
    <3>1. Codes(detections'[k]) = {}
      BY <2>4, ReportStep, CodesOfNone
    <3>2. passings'[k] = passings[k] /\ lost'[k] = lost[k] \cup Codes(detections[k])
      BY <2>4, ReportStep
    <3> QED BY <2>1, <2>2, <3>1, <3>2
  <2>5. CASE Gone(k) /\ EnoughHits(detections[k])
    <3> DEFINE n == Len(passings[k])
    <3>1. Codes(detections'[k]) = {}
      BY <2>5, ReportStep, CodesOfNone
    <3>2. /\ lost'[k] = lost[k]
          /\ Len(passings'[k]) = n + 1
          /\ \A i \in 1..n : passings'[k][i] = passings[k][i]
          /\ passings'[k][n + 1].dets = detections[k]
      BY <2>5, ReportStep
    <3>3. passings[k] \in Seq(Passing) /\ passings'[k] \in Seq(Passing) /\ n \in Nat
      BY DEF TypeOK
    <3>4. Reported(k)' = Reported(k) \cup Codes(detections[k])
      BY <3>2, <3>3, ReportedMore
    <3>5. \A i \in 1..n : \A c \in Codes(passings[k][i].dets), d \in Codes(detections[k]) : c < d
      BY DEF OrderInv
    <3> HIDE DEF n
    <3>6. ASSUME NEW i \in 1..Len(passings'[k]), NEW j \in 1..Len(passings'[k]), i < j,
                 NEW c \in Codes(passings'[k][i].dets), NEW d \in Codes(passings'[k][j].dets)
          PROVE  c < d
      <4>1. i \in 1..n
        BY <3>2, <3>3, <3>6
      <4>2. passings'[k][i] = passings[k][i]
        BY <3>2, <4>1
      <4>3. CASE j \in 1..n
        <5>1. passings'[k][j] = passings[k][j]
          BY <3>2, <4>3
        <5> QED BY <2>1, <3>6, <4>1, <4>2, <4>3, <5>1 DEF n
      <4>4. CASE j = n + 1
        BY <3>2, <3>5, <4>1, <4>2, <4>4
      <4> QED BY <3>2, <3>3, <4>3, <4>4
    <3>7. /\ received[k] = Codes(detections'[k]) \cup Reported(k)' \cup lost'[k]
          /\ Codes(detections'[k]) \cap Reported(k)' = {}
          /\ lost'[k] \cap (Codes(detections'[k]) \cup Reported(k)') = {}
      BY <2>1, <3>1, <3>2, <3>4
    <3> QED BY <3>6, <3>7
  <2> QED BY <2>3, <2>4, <2>5
<1>5. Conservation'
  BY <1>1, <1>4 DEF Conservation
<1> QED BY <1>3, <1>5

LEMMA OrderNext ==
    TypeOK /\ OrderInv /\ Conservation /\ [Next]_vars => OrderInv' /\ Conservation'
<1> SUFFICES ASSUME TypeOK, OrderInv, Conservation, [Next]_vars
             PROVE  OrderInv' /\ Conservation'
  OBVIOUS
<1> USE DEF detectorVars, historyVars, rxVars
<1>0. TypeOK'
  BY TypeNext
<1>1. CASE Tick
  BY <1>1, OrderUnchanged DEF Tick
<1>2. CASE RxBuffer
  BY <1>2, OrderUnchanged DEF RxBuffer
<1>3. CASE RxDetect
  BY <1>3, OrderDetect
<1>4. ASSUME NEW k \in Keys, RxAppend(k) PROVE OrderInv' /\ Conservation'
  BY <1>4, OrderAppend
<1>5. CASE RxTimesync
  BY <1>5, OrderUnchanged DEF RxTimesync
<1>6. CASE RxUndecoded
  BY <1>6, OrderUnchanged DEF RxUndecoded
<1>7. CASE RxBufferEnd
  BY <1>7, OrderUnchanged DEF RxBufferEnd
<1>8. CASE Report
  BY <1>8, OrderUnchanged DEF Report
<1>9. CASE IdentifyTimesyncs
  BY <1>9, OrderUnchanged DEF IdentifyTimesyncs
<1>10. CASE IdentifyPassings
  BY <1>0, <1>10, OrderReport
<1>11. CASE UNCHANGED vars
  BY <1>11, OrderUnchanged DEF vars
<1> QED
  BY <1>1, <1>2, <1>3, <1>4, <1>5, <1>6, <1>7, <1>8, <1>9, <1>10, <1>11
  DEF Next, Receiver, Reporter

LEMMA OrderCorrect == Spec => [](TypeOK /\ OrderInv /\ Conservation)
<1> DEFINE IInv == TypeOK /\ OrderInv /\ Conservation
<1>1. Init => IInv
  BY TypeInit, OrderInit
<1>2. IInv /\ [Next]_vars => IInv'
  BY TypeNext, OrderNext
<1> QED BY <1>1, <1>2, PTL DEF Spec

\* No detection is forgotten or counted twice, and passings take them in the
\* order in which they came, whatever the interleaving of append and
\* identify_passings and however many are evicted.
THEOREM ConservationCorrect == Spec => []Conservation
BY OrderCorrect, PTL

----------------------------------------------------------------------------
(* Time syncs are published once.                                          *)

LEMMA SyncInit == Init => SyncInv /\ TimesyncOnce
BY DEF Init, SyncInv, TimesyncOnce

\* Steps that publish nothing and find no frame; messages may be forgotten.
LEMMA SyncUnchanged ==
    ASSUME SyncInv, TimesyncOnce, UNCHANGED <<timecode, timesyncs, timesync_messages>>,
           frame' = frame \/ frame' = {}
    PROVE  SyncInv' /\ TimesyncOnce'
BY DEF SyncInv, TimesyncOnce

LEMMA SyncDetect ==
    ASSUME TypeOK, SyncInv, TimesyncOnce, RxDetect
    PROVE  SyncInv' /\ TimesyncOnce'
<1>1. /\ \A f \in frame' : f.timecode = timecode
      /\ timecode' = timecode + 1
      /\ UNCHANGED <<timesync_messages, timesyncs>>
  BY DEF RxDetect, detectorVars, historyVars
<1>2. ASSUME NEW m \in timesync_messages \cup timesyncs
      PROVE  m.timecode < timecode /\ m.timecode < timecode'
  <2>1. m.timecode \in Nat
    BY DEF TypeOK, Frame, TimeSync
  <2>2. m.timecode < timecode /\ timecode \in Nat
    BY DEF SyncInv, TypeOK
  <2> QED BY <1>1, <2>1, <2>2
<1>3. SyncInv'
  BY <1>1, <1>2 DEF SyncInv
<1>4. TimesyncOnce'
  BY <1>1 DEF TimesyncOnce
<1> QED BY <1>3, <1>4

\* A time sync that is appended is newer than all that wait or were published.
LEMMA SyncAppend ==
    ASSUME TypeOK, OrderInv, SyncInv, TimesyncOnce, RxTimesync
    PROVE  SyncInv' /\ TimesyncOnce'
<1>1. PICK f : frame = {f}
  <2>1. PICK f \in frame : TRUE
    BY DEF RxTimesync
  <2>2. frame = {f}
    BY DEF TypeOK
  <2> QED BY <2>2
<1>2. /\ timesync_messages' = timesync_messages \cup {f} /\ frame' = {}
      /\ timecode' = timecode /\ timesyncs' = timesyncs
  BY <1>1 DEF RxTimesync, historyVars
<1>3. f.timecode < timecode /\ f.timecode \in Nat
  BY <1>1 DEF OrderInv, TypeOK, Frame
<1>4. ASSUME NEW m \in timesync_messages \cup timesyncs
      PROVE  m.timecode # f.timecode /\ m.timecode < timecode
  <2>1. m.timecode \in Nat
    BY DEF TypeOK, Frame, TimeSync
  <2>2. m.timecode < f.timecode /\ m.timecode < timecode
    BY <1>1 DEF SyncInv
  <2> QED BY <1>3, <2>1, <2>2
<1>5. SyncInv'
  BY <1>2, <1>3, <1>4 DEF SyncInv
<1>6. TimesyncOnce'
  BY <1>2, <1>4 DEF TimesyncOnce
<1> QED BY <1>5, <1>6

LEMMA SyncReport ==
    ASSUME SyncInv, TimesyncOnce, IdentifyTimesyncs
    PROVE  SyncInv' /\ TimesyncOnce'
<1>1. /\ timesync_messages' = {} /\ timecode' = timecode /\ frame' = frame
      /\ timesyncs' = timesyncs \cup
           {TimeSyncOf(m) : m \in {n \in timesync_messages : IsUnique(n)}}
  BY DEF IdentifyTimesyncs, Clear, rxVars
<1>2. \A m : TimeSyncOf(m).timecode = m.timecode
  BY DEF TimeSyncOf
<1>3. ASSUME NEW t \in timesyncs', t \notin timesyncs
      PROVE  \E m \in timesync_messages : t = TimeSyncOf(m)
  BY <1>1, <1>3
<1>4. SyncInv'
  BY <1>1, <1>2, <1>3 DEF SyncInv
<1>5. ASSUME NEW t \in timesyncs', NEW u \in timesyncs', t.timecode = u.timecode
      PROVE  t = u
  <2>1. CASE t \in timesyncs /\ u \in timesyncs
    BY <1>5, <2>1 DEF TimesyncOnce
  <2>2. CASE t \notin timesyncs /\ u \in timesyncs
    BY <1>2, <1>3, <1>5, <2>2 DEF TimesyncOnce
  <2>3. CASE t \in timesyncs /\ u \notin timesyncs
    BY <1>2, <1>3, <1>5, <2>3 DEF TimesyncOnce
  <2>4. CASE t \notin timesyncs /\ u \notin timesyncs
    <3>1. PICK m \in timesync_messages : t = TimeSyncOf(m)
      BY <1>3, <2>4
    <3>2. PICK n \in timesync_messages : u = TimeSyncOf(n)
      BY <1>3, <2>4
    <3>3. m.timecode = n.timecode
      BY <1>2, <1>5, <3>1, <3>2
    <3> QED BY <3>1, <3>2, <3>3 DEF SyncInv
  <2> QED BY <2>1, <2>2, <2>3, <2>4
<1>6. TimesyncOnce'
  BY <1>1, <1>5 DEF TimesyncOnce
<1> QED BY <1>4, <1>6

LEMMA SyncNext ==
    TypeOK /\ OrderInv /\ SyncInv /\ TimesyncOnce /\ [Next]_vars
      => SyncInv' /\ TimesyncOnce'
<1> SUFFICES ASSUME TypeOK, OrderInv, SyncInv, TimesyncOnce, [Next]_vars
             PROVE  SyncInv' /\ TimesyncOnce'
  OBVIOUS
<1> USE DEF detectorVars, historyVars, rxVars
<1>1. CASE Tick
  BY <1>1, SyncUnchanged DEF Tick
<1>2. CASE RxBuffer
  BY <1>2, SyncUnchanged DEF RxBuffer
<1>3. CASE RxDetect
  BY <1>3, SyncDetect
<1>4. ASSUME NEW k \in Keys, RxAppend(k) PROVE SyncInv' /\ TimesyncOnce'
  BY <1>4, SyncUnchanged DEF RxAppend
<1>5. CASE RxTimesync
  BY <1>5, SyncAppend
<1>6. CASE RxUndecoded
  BY <1>6, SyncUnchanged DEF RxUndecoded
<1>7. CASE RxBufferEnd
  BY <1>7, SyncUnchanged DEF RxBufferEnd
<1>8. CASE Report
  BY <1>8, SyncUnchanged DEF Report
<1>9. CASE IdentifyTimesyncs
  BY <1>9, SyncReport
<1>10. CASE IdentifyPassings
  BY <1>10, SyncUnchanged DEF IdentifyPassings
<1>11. CASE UNCHANGED vars
  BY <1>11, SyncUnchanged DEF vars
<1> QED
  BY <1>1, <1>2, <1>3, <1>4, <1>5, <1>6, <1>7, <1>8, <1>9, <1>10, <1>11
  DEF Next, Receiver, Reporter

\* A time sync is published at most once, and not after it was looked at.
THEOREM TimesyncOnceCorrect == Spec => []TimesyncOnce
<1> DEFINE IInv == TypeOK /\ OrderInv /\ Conservation /\ SyncInv /\ TimesyncOnce
<1>1. Init => IInv
  BY TypeInit, OrderInit, SyncInit
<1>2. IInv /\ [Next]_vars => IInv'
  BY TypeNext, OrderNext, SyncNext
<1>3. IInv => TimesyncOnce
  OBVIOUS
<1> QED BY <1>1, <1>2, <1>3, PTL DEF Spec

----------------------------------------------------------------------------
(* The detector implements the ledger.                                     *)

\* A deque that ascends has as many codes as elements.
LEMMA CodesCardinality ==
    ASSUME NEW dets \in Seq(Frame), Ascending(dets)
    PROVE  IsFiniteSet(Codes(dets)) /\ Cardinality(Codes(dets)) = Len(dets)
<1> DEFINE S == 1..Len(dets)
           code == [i \in S |-> dets[i].timecode]
<1>1. Len(dets) \in Nat /\ \A i \in S : dets[i].timecode \in Nat
  <2>1. \A i \in S : dets[i] \in Frame
    OBVIOUS
  <2> QED BY <2>1 DEF Frame
<1>2. IsFiniteSet(S) /\ Cardinality(S) = Len(dets)
  <2>1. 1 \in Int /\ Len(dets) \in Int /\ (1 > Len(dets) => Len(dets) = 0)
    BY <1>1
  <2>2. Len(dets) - 1 + 1 = Len(dets)
    BY <1>1
  <2> QED BY <2>1, <2>2, FS_Interval
<1>3. \A i, j \in S : i # j => code[i] # code[j]
  BY <1>1 DEF Ascending
<1>4. code \in Surjection(S, Codes(dets))
  BY DEF Surjection, Codes
<1>5. code \in Injection(S, Codes(dets))
  BY <1>3, <1>4 DEF Surjection, Injection, IsInjective
<1> HIDE DEF S, code
<1> QED BY <1>2, <1>4, <1>5, FS_Surjection

\* The ledger counts as the detector does.
LEMMA SameCardinality == \A S : Ledger!Cardinality(S) = Cardinality(S)
BY DEF Ledger!Cardinality, Cardinality

\* append is the ledger's Receive of the frame's number.
LEMMA AppendReceives ==
    ASSUME TypeOK, OrderInv, Conservation, NEW k \in Keys, RxAppend(k)
    PROVE  \E c \in 0..(MaxFrames - 1) : Ledger!Receive(k, c)
<1>1. PICK f \in frame :
        /\ detections' = [detections EXCEPT ![k] = Push(@, f)]
        /\ received' = [received EXCEPT ![k] = @ \cup {f.timecode}]
        /\ lost' = [lost EXCEPT ![k] = @ \cup
             (Codes(Append(detections[k], f)) \ Codes(Push(detections[k], f)))]
  BY DEF RxAppend
<1> DEFINE c == f.timecode
           dets == detections[k]
           all == Codes(dets) \cup {c}
           over == IF Cardinality(all) > MsgLimit THEN {Ledger!Oldest(all)} ELSE {}
<1>2. c \in Nat /\ c < timecode /\ timecode =< MaxFrames /\ timecode \in Nat
  BY DEF OrderInv, TypeOK, Frame
<1>3. c \in 0..(MaxFrames - 1)
  BY <1>2, TimeAssumption
<1>4. \A j \in Keys : \A d \in received[j] : d < c
  BY DEF OrderInv
<1>5. /\ dets \in Seq(Frame) /\ Len(dets) \in Nat /\ Len(dets) =< MsgLimit
      /\ Codes(dets) \in SUBSET Nat /\ Ascending(dets)
  BY CodesInNat DEF TypeOK, OrderInv
<1>6. /\ c \notin Codes(dets)
      /\ Codes(Append(dets, f)) = all
      /\ Len(dets) < MsgLimit => Codes(Push(dets, f)) = all
      /\ ~(Len(dets) < MsgLimit) =>
           /\ dets[1].timecode \in Codes(dets)
           /\ \A d \in Codes(dets) : dets[1].timecode =< d
           /\ Codes(Push(dets, f)) = all \ {dets[1].timecode}
  BY AppendCodes
<1>7. Cardinality(all) = Len(dets) + 1
  <2>1. IsFiniteSet(Codes(dets)) /\ Cardinality(Codes(dets)) = Len(dets)
    BY <1>5, CodesCardinality
  <2> HIDE DEF dets, c
  <2> QED BY <1>6, <2>1, FS_AddElement
<1>8. Cardinality(all) > MsgLimit <=> ~(Len(dets) < MsgLimit)
  BY <1>5, <1>7, LimitAssumption
<1>9. ~(Len(dets) < MsgLimit) => Ledger!Oldest(all) = dets[1].timecode
  <2> SUFFICES ASSUME ~(Len(dets) < MsgLimit)
               PROVE  Ledger!Oldest(all) = dets[1].timecode
    OBVIOUS
  <2> DEFINE o == dets[1].timecode
  <2>1. o \in Codes(dets) /\ \A d \in Codes(dets) : o =< d
    BY <1>6
  <2>2. Codes(dets) \subseteq received[k]
    BY DEF Conservation
  <2> HIDE DEF o, dets, c
  <2>3. o \in received[k] /\ o < c /\ o \in Nat
    BY <1>4, <1>5, <2>1, <2>2
  <2>4. o =< c
    BY <1>2, <2>3
  <2>5. o \in all /\ \A d \in all : o =< d
    BY <2>1, <2>4
  <2>6. ASSUME NEW p \in all, \A d \in all : p =< d PROVE p = o
    <3>1. p =< o /\ o =< p /\ p \in Nat
      BY <1>2, <1>5, <2>5, <2>6
    <3> QED BY <2>3, <3>1
  <2> HIDE DEF all
  <2> QED BY <2>5, <2>6 DEF Ledger!Oldest, o
<1>10. Codes(Push(dets, f)) = all \ over
       /\ Codes(Append(dets, f)) \ Codes(Push(dets, f)) = over
  <2>1. CASE Len(dets) < MsgLimit
    <3>1. over = {}
      BY <1>8, <2>1
    <3> QED BY <1>6, <2>1, <3>1
  <2>2. CASE ~(Len(dets) < MsgLimit)
    <3>1. over = {dets[1].timecode} /\ dets[1].timecode \in all
      BY <1>6, <1>8, <1>9, <2>2
    <3> QED BY <1>6, <2>2, <3>1
  <2> QED BY <2>1, <2>2
<1> HIDE DEF over
<1>11. [j \in Keys |-> Codes(detections[j])]'
         = [[j \in Keys |-> Codes(detections[j])] EXCEPT ![k] = all \ over]
  BY <1>1, <1>10 DEF TypeOK
<1>12. received' = [received EXCEPT ![k] = @ \cup {c}]
       /\ lost' = [lost EXCEPT ![k] = @ \cup over]
  BY <1>1, <1>10
<1>13. passings' = passings
  BY DEF RxAppend
<1>14. [j \in Keys |-> Codes(detections[j])][k] = Codes(dets)
  OBVIOUS
<1>15. Ledger!Receive(k, c)
  BY <1>4, <1>11, <1>12, <1>13, <1>14, SameCardinality DEF Ledger!Receive, over
<1> QED BY <1>3, <1>15

\* The passings of a transponder as sets of codes, and with one more passing.
Sets(pass) == [i \in DOMAIN pass |-> Codes(pass[i].dets)]

LEMMA SetsMore ==
    ASSUME NEW s \in Seq(Passing), NEW t \in Seq(Passing), Len(t) = Len(s) + 1,
           \A i \in 1..Len(s) : t[i] = s[i]
    PROVE  Sets(t) = Append(Sets(s), Codes(t[Len(s) + 1].dets))
<1> DEFINE n == Len(s)
           S == SUBSET Nat
<1>1. ASSUME NEW p \in Seq(Passing)
      PROVE  /\ Sets(p) \in Seq(S) /\ Len(Sets(p)) = Len(p)
             /\ \A i \in 1..Len(p) : Sets(p)[i] = Codes(p[i].dets)
  <2>1. ASSUME NEW i \in 1..Len(p) PROVE Codes(p[i].dets) \in S
    <3>1. p[i] \in Passing
      OBVIOUS
    <3>2. p[i].dets \in Seq(Frame)
      BY <3>1 DEF Passing
    <3> QED BY <3>2, CodesLemma
  <2>2. DOMAIN p = 1..Len(p) /\ Len(p) \in Nat
    OBVIOUS
  <2> HIDE DEF S
  <2> QED BY <2>1, <2>2 DEF Sets
<1>2. Codes(t[n + 1].dets) \in S
  <2>1. n + 1 \in 1..Len(t)
    OBVIOUS
  <2>2. Sets(t)[n + 1] \in S
    BY <1>1, <2>1, ElementOfSeq
  <2> QED BY <1>1, <2>1, <2>2
<1> HIDE DEF S
<1> DEFINE more == Append(Sets(s), Codes(t[n + 1].dets))
<1>3. /\ more \in Seq(S) /\ Len(more) = n + 1
      /\ \A i \in 1..n : more[i] = Sets(s)[i]
      /\ more[n + 1] = Codes(t[n + 1].dets)
  BY <1>1, <1>2, AppendProperties
<1>4. n \in Nat
  OBVIOUS
<1> HIDE DEF more, n
<1>5. ASSUME NEW i \in 1..(n + 1) PROVE Sets(t)[i] = more[i]
  <2>1. CASE i \in 1..n
    <3>1. t[i] = s[i]
      BY <2>1 DEF n
    <3> QED BY <1>1, <1>3, <1>4, <2>1, <3>1 DEF n
  <2>2. CASE i = n + 1
    BY <1>1, <1>3, <1>4, <2>2 DEF n
  <2> QED BY <1>4, <2>1, <2>2
<1>6. Sets(t) \in Seq(S) /\ Len(Sets(t)) = n + 1
  BY <1>1 DEF n
<1>7. Sets(t) = more
  BY <1>3, <1>5, <1>6, SeqEqual
<1> QED BY <1>7 DEF more, n

\* identify_passings settles the transponders whose deques it erases.
LEMMA ReportSettles ==
    ASSUME TypeOK, TypeOK', OrderInv, IdentifyPassings
    PROVE  \E gone \in SUBSET Keys : Ledger!Settle(gone)
<1> DEFINE gone == {k \in Keys : Gone(k)}
           open == [k \in Keys |-> Codes(detections[k])]
           closed == [k \in Keys |->
             [i \in DOMAIN passings[k] |-> Codes(passings[k][i].dets)]]
<1>1. ASSUME NEW k \in Keys
      PROVE  /\ Ledger!Cardinality(open[k]) = Len(detections[k])
             /\ open[k] = Codes(detections[k])
             /\ open'[k] = Codes(detections'[k])
             /\ detections[k] \in Seq(Frame)
  <2>1. detections[k] \in Seq(Frame) /\ Ascending(detections[k])
    BY DEF TypeOK, OrderInv
  <2> QED BY <2>1, CodesCardinality, SameCardinality
<1>2. \A k \in gone : open[k] # {}
  <2> SUFFICES ASSUME NEW k \in gone PROVE Codes(detections[k]) # {}
    OBVIOUS
  <2>1. detections[k] # <<>> /\ detections[k] \in Seq(Frame)
    BY <1>1 DEF Gone, Expired
  <2>2. 1 \in 1..Len(detections[k])
    BY <2>1
  <2> QED BY <2>2 DEF Codes
<1>3. open' = [k \in Keys |-> IF k \in gone THEN {} ELSE open[k]]
  <2>1. ASSUME NEW k \in Keys PROVE open'[k] = IF k \in gone THEN {} ELSE open[k]
    BY <1>1, ReportStep, CodesOfNone
  <2> QED BY <2>1
<1>4. \A k \in Keys : EnoughHits(detections[k]) <=> Ledger!Cardinality(open[k]) >= HitLimit
  BY <1>1 DEF EnoughHits
<1>5. lost' = [k \in Keys |->
        IF k \in gone /\ Ledger!Cardinality(open[k]) < HitLimit
        THEN lost[k] \cup open[k] ELSE lost[k]]
  <2>1. ASSUME NEW k \in Keys
        PROVE  lost'[k] = IF k \in gone /\ Ledger!Cardinality(open[k]) < HitLimit
                          THEN lost[k] \cup open[k] ELSE lost[k]
    <3>1. Ledger!Cardinality(open[k]) < HitLimit <=> ~EnoughHits(detections[k])
      <4>1. Len(detections[k]) \in Nat
        BY <1>1
      <4> QED BY <1>1, <4>1, LimitAssumption DEF EnoughHits
    <3> QED BY <1>1, <3>1, ReportStep
  <2>2. \E F : lost' = [k \in Keys |-> F[k]]
    BY DEF IdentifyPassings
  <2> QED BY <2>1, <2>2
<1>6. closed' = [k \in Keys |->
        IF k \in gone /\ Ledger!Cardinality(open[k]) >= HitLimit
        THEN Append(closed[k], open[k]) ELSE closed[k]]
  <2>1. ASSUME NEW k \in Keys
        PROVE  closed'[k] = IF k \in gone /\ Ledger!Cardinality(open[k]) >= HitLimit
                            THEN Append(closed[k], open[k]) ELSE closed[k]
    <3>1. passings[k] \in Seq(Passing) /\ passings'[k] \in Seq(Passing)
      BY DEF TypeOK
    <3>2. /\ closed'[k] = Sets(passings'[k])
          /\ closed[k] = Sets(passings[k])
          /\ open[k] = Codes(detections[k])
      BY DEF Sets
    <3> HIDE DEF open, closed
    <3>3. CASE k \in gone /\ EnoughHits(detections[k])
      <4>1. /\ Len(passings'[k]) = Len(passings[k]) + 1
            /\ \A i \in 1..Len(passings[k]) : passings'[k][i] = passings[k][i]
            /\ passings'[k][Len(passings[k]) + 1].dets = detections[k]
        BY <3>3, ReportStep
      <4>2. Sets(passings'[k]) = Append(Sets(passings[k]), open[k])
        BY <3>1, <3>2, <4>1, SetsMore
      <4> QED BY <1>4, <3>2, <3>3, <4>2
    <3>4. CASE ~(k \in gone /\ EnoughHits(detections[k]))
      BY <1>4, <3>2, <3>4, ReportStep
    <3> QED BY <3>3, <3>4
  <2>2. closed' = [k \in Keys |-> closed'[k]]
    OBVIOUS
  <2> HIDE DEF open, closed, gone
  <2> QED BY <2>1, <2>2
<1>7. received' = received
  BY DEF IdentifyPassings
<1>8. PICK G \in SUBSET Keys : G = gone
  OBVIOUS
<1>9. Ledger!Settle(G)
  BY <1>2, <1>3, <1>5, <1>6, <1>7, <1>8 DEF Ledger!Settle
<1> QED BY <1>9

LEMMA LedgerInit == Init => Ledger!Init
BY CodesOfNone DEF Init, Ledger!Init

LEMMA LedgerNext ==
    TypeOK /\ OrderInv /\ Conservation /\ [Next]_vars => [Ledger!Next]_(Ledger!vars)
<1> SUFFICES ASSUME TypeOK, OrderInv, Conservation, [Next]_vars
             PROVE  Ledger!Next \/ UNCHANGED Ledger!vars
  OBVIOUS
<1>1. ASSUME UNCHANGED <<detections, passings, received, lost>>
      PROVE  UNCHANGED Ledger!vars
  BY <1>1 DEF Ledger!vars
<1>2. ASSUME NEW k \in Keys, RxAppend(k) PROVE Ledger!Next
  BY <1>2, AppendReceives DEF Ledger!Next
<1>3. CASE IdentifyPassings
  BY <1>3, ReportSettles, TypeNext DEF Ledger!Next
<1> USE DEF detectorVars, historyVars, rxVars
<1>4. CASE Tick \/ RxBuffer \/ RxDetect \/ RxTimesync \/ RxUndecoded \/ RxBufferEnd
  BY <1>1, <1>4 DEF Tick, RxBuffer, RxDetect, RxTimesync, RxUndecoded, RxBufferEnd
<1>5. CASE Report \/ IdentifyTimesyncs \/ UNCHANGED vars
  BY <1>1, <1>5 DEF Report, IdentifyTimesyncs, vars
<1> QED BY <1>2, <1>3, <1>4, <1>5 DEF Next, Receiver, Reporter

\* The detector with its clock, threads and deques does what the ledger says.
THEOREM LedgerImplemented == Spec => LedgerSpec
<1>1. Init => Ledger!Init
  BY LedgerInit
<1>2. TypeOK /\ OrderInv /\ Conservation /\ [Next]_vars => [Ledger!Next]_(Ledger!vars)
  BY LedgerNext
<1> QED BY <1>1, <1>2, OrderCorrect, PTL DEF Spec, LedgerSpec, Ledger!Spec
=============================================================================
