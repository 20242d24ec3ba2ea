-------------------------- MODULE RC4TrainerProofs --------------------------
(* Proofs about RC4Trainer for every value of its constants and, in the    *)
(* last part, about RC4Learning, the composition that it is a part of.     *)
EXTENDS RC4Trainer, SequenceTheorems, FiniteSetTheorems, WellFoundedInduction, TLAPS

\* append keeps a buffer of entries within its cap and leaves it non-empty.
LEMMA PushLemma ==
    ASSUME NEW E, NEW buf \in Seq(E), NEW e \in E, Len(buf) =< MaxBuffer
    PROVE  /\ Push(buf, e) \in Seq(E)
           /\ Len(Push(buf, e)) =< MaxBuffer
           /\ Len(Push(buf, e)) >= 1
           /\ Len(Push(buf, e)) >= Len(buf)
<1> USE CountAssumption
<1>1. Append(buf, e) \in Seq(E) /\ Len(Append(buf, e)) = Len(buf) + 1
  OBVIOUS
<1>2. CASE Len(buf) < MaxBuffer
  BY <1>1, <1>2 DEF Push
<1>3. CASE ~(Len(buf) < MaxBuffer)
  <2>1. Tail(Append(buf, e)) \in Seq(E) /\ Len(Tail(Append(buf, e))) = Len(buf)
    BY <1>1, HeadTailProperties
  <2> QED BY <1>3, <2>1 DEF Push
<1> QED BY <1>2, <1>3

\* START leaves exactly StartCount entries.
LEMMA SessionLemma ==
    ASSUME NEW E, NEW buf \in Seq(E), Len(buf) >= StartCount
    PROVE  Session(buf) \in Seq(E) /\ Len(Session(buf)) = StartCount
<1>1. Len(buf) \in Nat /\ StartCount \in Nat /\ StartCount >= 1
  BY CountAssumption
<1>2. \A i \in (Len(buf) - StartCount + 1)..Len(buf) : buf[i] \in E
  BY <1>1
<1> QED
  BY <1>1, <1>2, SubSeqProperties DEF Session, LastEntries

LEMMA TypeInit == Init => TypeOK /\ BufferNonEmpty
BY CountAssumption, TimeAssumption DEF Init, TypeOK, BufferNonEmpty, Results

\* evaluate keeps the types and never leaves IDLE with an empty buffer.
LEMMA EvaluateLemma ==
    ASSUME TypeOK, BufferNonEmpty, NEW t \in Nat, EvaluateAt(t)
    PROVE  /\ state' \in {"IDLE", "TRAINING", "FINALIZING"}
           /\ buffer' \in Seq(Entry) /\ Len(buffer') =< MaxBuffer
           /\ result' \in Results
           /\ since' \in Nat /\ since' =< Len(buffer')
           /\ BufferNonEmpty'
<1> USE CountAssumption DEF TypeOK, BufferNonEmpty, Results
<1>1. CASE Start(t)
  <2>1. Session(buffer) \in Seq(Entry) /\ Len(Session(buffer)) = StartCount
    BY <1>1, SessionLemma DEF Start, StartReady
  <2> QED BY <1>1, <2>1 DEF Start
<1>2. CASE Interrupt(t)
  BY <1>2 DEF Interrupt
<1>3. CASE Done(t)
  BY <1>3 DEF Done
<1>4. CASE Reset(t)
  BY <1>4 DEF Reset
<1>5. CASE NoAction(t)
  BY <1>5 DEF NoAction, trainerVars
<1> QED BY <1>1, <1>2, <1>3, <1>4, <1>5 DEF EvaluateAt

LEMMA ClockInit == Init => ClockInv
BY TimeAssumption DEF Init, ClockInv

LEMMA ClockNext == TypeOK /\ ClockInv /\ [Next]_vars => ClockInv'
<1> SUFFICES ASSUME TypeOK, ClockInv, [Next]_vars PROVE ClockInv'
  OBVIOUS
<1> USE TimeAssumption DEF TypeOK, ClockInv
<1>1. CASE Tick
  BY <1>1 DEF Tick
<1>2. CASE Receive
  BY <1>2 DEF Receive
<1>3. CASE Report
  BY <1>3 DEF Report
<1>4. CASE Evaluate
  BY <1>4 DEF Evaluate
<1>5. CASE UNCHANGED vars
  BY <1>5 DEF vars
<1> QED BY <1>1, <1>2, <1>3, <1>4, <1>5 DEF Next

LEMMA TypeNext ==
    TypeOK /\ BufferNonEmpty /\ ClockInv /\ [Next]_vars => TypeOK' /\ BufferNonEmpty'
<1> SUFFICES ASSUME TypeOK, BufferNonEmpty, ClockInv, [Next]_vars
             PROVE  TypeOK' /\ BufferNonEmpty'
  OBVIOUS
<1>1. CASE Tick
  BY <1>1 DEF Tick, TypeOK, BufferNonEmpty, trainerVars, Results
<1>2. CASE Receive
  <2>1. PICK ts \in (now - RxLag)..(now + BufferSpan), r \in Rssi, d \in Data :
          AppendEntry([timestamp |-> ts, rssi |-> r, data |-> d])
    BY <1>2 DEF Receive
  <2> DEFINE e == [timestamp |-> ts, rssi |-> r, data |-> d]
  <2>2. e \in Entry
    <3>1. now \in Nat /\ now - RxLag >= 0 /\ ts >= now - RxLag /\ ts \in Int
      BY TimeAssumption DEF TypeOK, ClockInv
    <3> QED BY <3>1, TimeAssumption DEF Entry
  <2>3. /\ Push(buffer, e) \in Seq(Entry)
        /\ Len(Push(buffer, e)) =< MaxBuffer
        /\ Len(Push(buffer, e)) >= 1 /\ Len(Push(buffer, e)) >= Len(buffer)
    BY <2>2, PushLemma DEF TypeOK
  <2> HIDE DEF e
  <2>4. buffer' = Push(buffer, e) /\ state' = state
        /\ since' = IF since < Len(Push(buffer, e)) THEN since + 1 ELSE since
    BY <2>1 DEF AppendEntry, e
  <2>5. buffer' \in Seq(Entry) /\ buffer' # <<>> /\ Len(buffer') =< MaxBuffer
    BY <2>3, <2>4
  <2>6. since' \in Nat /\ since' =< Len(buffer')
    BY <2>3, <2>4, LenProperties DEF TypeOK
  <2> QED BY <1>2, <2>4, <2>5, <2>6 DEF Receive, TypeOK, BufferNonEmpty, Results
<1>3. CASE Report
  BY <1>3 DEF Report, TypeOK, BufferNonEmpty, trainerVars, Results
<1>4. CASE Evaluate
  <2>1. reporter.now_ts \in Nat
    BY DEF TypeOK
  <2>2. EvaluateAt(reporter.now_ts)
    BY <1>4 DEF Evaluate
  <2>3. now' = now
        /\ reporter' \in [pc : {"idle", "evaluate"}, now_ts : Nat, polled : Nat]
    BY <1>4, <2>1 DEF Evaluate
  <2>4. now' \in Nat
    BY <2>3 DEF TypeOK
  <2> QED BY <2>1, <2>2, <2>3, <2>4, EvaluateLemma DEF TypeOK
<1>5. CASE UNCHANGED vars
  BY <1>5 DEF TypeOK, BufferNonEmpty, vars, trainerVars
<1> QED BY <1>1, <1>2, <1>3, <1>4, <1>5 DEF Next

\* Every variable keeps its type, and the buffer its cap.
THEOREM TypeCorrect == Spec => []TypeOK
<1>1. TypeOK /\ BufferNonEmpty /\ ClockInv /\ [Next]_vars
      => (TypeOK /\ BufferNonEmpty /\ ClockInv)'
  BY TypeNext, ClockNext
<1> QED BY TypeInit, ClockInit, <1>1, PTL DEF Spec

\* back() and front() are never called on an empty buffer, for every cap and
\* start count of at least one.
THEOREM BufferNonEmptyCorrect == Spec => []BufferNonEmpty
<1>1. TypeOK /\ BufferNonEmpty /\ ClockInv /\ [Next]_vars
      => (TypeOK /\ BufferNonEmpty /\ ClockInv)'
  BY TypeNext, ClockNext
<1> QED BY TypeInit, ClockInit, <1>1, PTL DEF Spec

\* INTERRUPTED and RESET are only reported for the documented causes, however
\* old the reporter's clock reading is.
THEOREM LeavesForCauseCorrect == Spec => LeavesForCause
<1> DEFINE silent(limit) == now - Back(buffer).timestamp > limit
           Cause == /\ result' = "INTERRUPTED" => silent(GapLimit)
                         \/ \E i, j \in 1..Len(buffer) :
                              buffer[i].rssi - buffer[j].rssi > TrainSpread
                    /\ result' = "RESET" => silent(ResetLimit)
<1>1. TypeOK /\ BufferNonEmpty /\ ClockInv /\ [Next]_vars => [Cause]_vars
  <2> SUFFICES ASSUME TypeOK, BufferNonEmpty, ClockInv, Next
               PROVE  Cause
    BY DEF vars
  <2>1. CASE Tick \/ Receive \/ Report
    BY <2>1 DEF Tick, Receive, Report
  <2>2. CASE Evaluate
    <3>1. PICK t \in Nat : t = reporter.now_ts /\ t =< now /\ EvaluateAt(t)
      BY <2>2 DEF Evaluate, TypeOK, ClockInv
    <3>2. ASSUME buffer # <<>>, NEW limit \in Nat, Age(t, Back(buffer)) > limit
          PROVE  silent(limit)
      <4>1. Back(buffer) \in Entry
        BY <3>2 DEF TypeOK, Back
      <4>2. Back(buffer).timestamp \in Nat
        BY <4>1 DEF Entry
      <4> QED BY <3>1, <3>2, <4>2 DEF Age, TypeOK
    <3>3. CASE Start(t) \/ Done(t) \/ NoAction(t)
      BY <3>3 DEF Start, Done, NoAction
    <3>4. CASE Interrupt(t)
      <4>1. CASE SignalLost(t)
        BY <3>2, <3>4, <4>1, TimeAssumption DEF Interrupt, SignalLost, BufferNonEmpty
      <4>2. CASE ~SpreadWithin(buffer, TrainSpread)
        <5>1. PICK i \in 1..Len(buffer), j \in 1..Len(buffer) :
                ~(buffer[i].rssi - buffer[j].rssi =< TrainSpread)
          BY <4>2 DEF SpreadWithin
        <5>2. buffer[i] \in Entry /\ buffer[j] \in Entry
          BY DEF TypeOK
        <5>3. buffer[i].rssi \in Int /\ buffer[j].rssi \in Int
          BY <5>2, LevelAssumption DEF Entry
        <5>4. buffer[i].rssi - buffer[j].rssi > TrainSpread
          BY <5>1, <5>3, LevelAssumption
        <5> QED BY <3>4, <5>4 DEF Interrupt
      <4> QED BY <3>4, <4>1, <4>2 DEF Interrupt
    <3>5. CASE Reset(t)
      BY <3>2, <3>5, TimeAssumption DEF Reset, CarLeft, BufferNonEmpty
    <3> QED BY <3>1, <3>3, <3>4, <3>5 DEF EvaluateAt
  <2> QED BY <2>1, <2>2 DEF Next
<1>2. TypeOK /\ BufferNonEmpty /\ ClockInv /\ [Next]_vars
      => (TypeOK /\ BufferNonEmpty /\ ClockInv)'
  BY TypeNext, ClockNext
<1> QED BY TypeInit, ClockInit, <1>1, <1>2, PTL DEF Spec, LeavesForCause

----------------------------------------------------------------------------
(* The time stamps of the buffer.                                          *)

\* What append leaves, place by place: the buffer as it was, or without its
\* front when it is full, and then the new entry.
LEMMA PushPlaces ==
    ASSUME NEW E, NEW buf \in Seq(E), NEW e \in E, Len(buf) =< MaxBuffer
    PROVE  \E s \in {0, 1} :
             /\ Len(Push(buf, e)) = Len(buf) + 1 - s
             /\ Len(Push(buf, e)) >= 1
             /\ Push(buf, e)[Len(Push(buf, e))] = e
             /\ \A i \in 1..(Len(Push(buf, e)) - 1) :
                  i + s \in 1..Len(buf) /\ Push(buf, e)[i] = buf[i + s]
<1>1. /\ Append(buf, e) \in Seq(E)
      /\ Len(Append(buf, e)) = Len(buf) + 1
      /\ Append(buf, e)[Len(buf) + 1] = e
      /\ \A i \in 1..Len(buf) : Append(buf, e)[i] = buf[i]
      /\ Len(buf) \in Nat
  OBVIOUS
<1>2. CASE Len(buf) < MaxBuffer
  <2>1. Push(buf, e) = Append(buf, e)
    BY <1>2 DEF Push
  <2>2. /\ Len(Push(buf, e)) = Len(buf) + 1 - 0
        /\ Len(Push(buf, e)) >= 1
        /\ Push(buf, e)[Len(Push(buf, e))] = e
        /\ \A i \in 1..(Len(Push(buf, e)) - 1) :
             i + 0 \in 1..Len(buf) /\ Push(buf, e)[i] = buf[i + 0]
    BY <1>1, <1>2, <2>1
  <2> QED BY <2>2
<1>3. CASE ~(Len(buf) < MaxBuffer)
  <2> DEFINE p == Push(buf, e)
  <2>1. p = Tail(Append(buf, e))
    BY <1>3 DEF Push
  <2>2. Append(buf, e) # <<>>
    BY <1>1
  <2>3. /\ Len(p) = Len(buf)
        /\ \A i \in 1..Len(p) : p[i] = Append(buf, e)[i + 1]
    BY <1>1, <2>1, <2>2, HeadTailProperties
  <2>4. Len(buf) >= 1
    BY <1>1, <1>3, CountAssumption
  <2> HIDE DEF p
  <2>5. p[Len(p)] = e
    BY <1>1, <2>3, <2>4
  <2>6. ASSUME NEW i \in 1..(Len(p) - 1)
        PROVE  i + 1 \in 1..Len(buf) /\ p[i] = buf[i + 1]
    BY <1>1, <2>3, <2>4
  <2>7. Len(p) = Len(buf) + 1 - 1 /\ Len(p) >= 1
    BY <1>1, <2>3, <2>4
  <2> QED BY <2>5, <2>6, <2>7 DEF p
<1> QED BY <1>2, <1>3

\* What START leaves, place by place: the end of the buffer.
LEMMA SessionPlaces ==
    ASSUME NEW E, NEW buf \in Seq(E), Len(buf) >= StartCount
    PROVE  \E s \in Nat :
             /\ Len(Session(buf)) + s = Len(buf)
             /\ \A i \in 1..Len(Session(buf)) :
                  i + s \in (s + 1)..Len(buf) /\ Session(buf)[i] = buf[i + s]
<1> DEFINE s == Len(buf) - StartCount
<1>1. Len(buf) \in Nat /\ StartCount \in Nat /\ StartCount >= 1 /\ s \in Nat
  BY CountAssumption
<1>2. \A i \in (s + 1)..Len(buf) : buf[i] \in E
  BY <1>1
<1>3. /\ Len(Session(buf)) = StartCount
      /\ \A i \in 1..(Len(buf) - (s + 1) + 1) : Session(buf)[i] = buf[(s + 1) + i - 1]
  BY <1>1, <1>2, SubSeqProperties DEF Session, LastEntries
<1>4. \A i \in 1..StartCount : (s + 1) + i - 1 = i + s /\ i + s \in (s + 1)..Len(buf)
  BY <1>1
<1>5. Len(buf) - (s + 1) + 1 = StartCount /\ StartCount + s = Len(buf)
  BY <1>1
<1> HIDE DEF s
<1>6. \A i \in 1..Len(Session(buf)) :
        i + s \in (s + 1)..Len(buf) /\ Session(buf)[i] = buf[i + s]
  BY <1>3, <1>4, <1>5
<1> QED BY <1>1, <1>3, <1>5, <1>6

\* Every entry has a stamp.
LEMMA Stamps ==
    ASSUME TypeOK
    PROVE  /\ now \in Nat /\ buffer \in Seq(Entry) /\ Len(buffer) \in Nat
           /\ \A i \in 1..Len(buffer) :
                buffer[i] \in Entry /\ buffer[i].timestamp \in Nat
<1>1. now \in Nat /\ buffer \in Seq(Entry)
  BY DEF TypeOK
<1>2. Len(buffer) \in Nat /\ \A i \in 1..Len(buffer) : buffer[i] \in Entry
  BY <1>1
<1> QED BY <1>1, <1>2 DEF Entry

\* What Receive appends.
LEMMA ReceiveStep ==
    ASSUME TypeOK, ClockInv, Receive
    PROVE  \E e \in Entry :
             /\ e.timestamp \in Nat
             /\ e.timestamp >= now - RxLag /\ e.timestamp =< now + BufferSpan
             /\ buffer' = Push(buffer, e)
             /\ since' = IF since < Len(Push(buffer, e)) THEN since + 1 ELSE since
             /\ state' = state /\ now' = now /\ reporter' = reporter
<1>1. PICK ts \in (now - RxLag)..(now + BufferSpan), r \in Rssi, d \in Data :
        AppendEntry([timestamp |-> ts, rssi |-> r, data |-> d])
  BY DEF Receive
<1> DEFINE e == [timestamp |-> ts, rssi |-> r, data |-> d]
<1>2. ts \in Nat /\ ts >= now - RxLag /\ ts =< now + BufferSpan
  <2>1. now \in Nat /\ now - RxLag >= 0 /\ RxLag \in Nat /\ BufferSpan \in Nat
    BY TimeAssumption DEF TypeOK, ClockInv
  <2> QED BY <2>1
<1>3. e \in Entry /\ e.timestamp = ts
  BY <1>2 DEF Entry
<1> HIDE DEF e
<1>4. /\ buffer' = Push(buffer, e)
      /\ since' = IF since < Len(Push(buffer, e)) THEN since + 1 ELSE since
      /\ state' = state
  BY <1>1 DEF AppendEntry, e
<1> QED BY <1>2, <1>3, <1>4 DEF Receive

LEMMA StampInit == Init => StampInv
BY DEF Init, StampInv

LEMMA StampNext ==
    TypeOK /\ ClockInv /\ StampInv /\ [Next]_vars => StampInv'
<1> SUFFICES ASSUME TypeOK, ClockInv, StampInv, [Next]_vars PROVE StampInv'
  OBVIOUS
<1>0. RxLag \in Nat /\ BufferSpan \in Nat /\ now \in Nat
  BY TimeAssumption, Stamps
<1>1. CASE Tick
  <2>1. now' = now + 1 /\ buffer' = buffer
    BY <1>1 DEF Tick, trainerVars
  <2>2. ASSUME NEW j \in 1..Len(buffer)
        PROVE  buffer[j].timestamp =< now' + BufferSpan
    <3>1. buffer[j].timestamp \in Nat /\ buffer[j].timestamp =< now + BufferSpan
      BY Stamps DEF StampInv
    <3> QED BY <1>0, <2>1, <3>1
  <2> QED BY <2>1, <2>2 DEF StampInv
<1>2. CASE Receive
  <2>1. PICK e \in Entry :
          /\ e.timestamp \in Nat
          /\ e.timestamp >= now - RxLag /\ e.timestamp =< now + BufferSpan
          /\ buffer' = Push(buffer, e) /\ now' = now
    BY <1>2, ReceiveStep
  <2>0. buffer \in Seq(Entry) /\ Len(buffer) =< MaxBuffer /\ buffer' = Push(buffer, e)
    BY <2>1 DEF TypeOK
  <2>2. PICK s \in {0, 1} :
          /\ Len(buffer') = Len(buffer) + 1 - s
          /\ Len(buffer') >= 1
          /\ buffer'[Len(buffer')] = e
          /\ \A i \in 1..(Len(buffer') - 1) :
               i + s \in 1..Len(buffer) /\ buffer'[i] = buffer[i + s]
    BY <2>0, PushPlaces
  <2>3. Len(buffer) \in Nat /\ Len(buffer') \in Nat
    BY <2>2, Stamps
  <2> SUFFICES ASSUME NEW j \in 1..Len(buffer')
               PROVE  /\ buffer'[j].timestamp =< now + BufferSpan
                      /\ \A i \in 1..j : buffer'[i].timestamp
                           =< buffer'[j].timestamp + RxLag + BufferSpan
    BY <2>1 DEF StampInv
  <2>4. CASE j = Len(buffer')
    <3>1. buffer'[j] = e
      BY <2>2, <2>4
    <3>2. ASSUME NEW i \in 1..j
          PROVE  buffer'[i].timestamp =< e.timestamp + RxLag + BufferSpan
      <4>1. CASE i = j
        BY <1>0, <2>1, <3>1, <4>1
      <4>2. CASE i # j
        <5>1. i \in 1..(Len(buffer') - 1)
          BY <2>3, <2>4, <4>2
        <5>2. PICK m \in 1..Len(buffer) : buffer'[i] = buffer[m]
          BY <2>2, <5>1
        <5>3. buffer[m].timestamp \in Nat /\ buffer[m].timestamp =< now + BufferSpan
          BY Stamps DEF StampInv
        <5>4. \A t, u, n, lag, span \in Nat :
                t =< n + span /\ u >= n - lag => t =< u + lag + span
          OBVIOUS
        <5> QED BY <1>0, <2>1, <5>2, <5>3, <5>4
      <4> QED BY <4>1, <4>2
    <3> QED BY <2>1, <3>1, <3>2
  <2>5. CASE j # Len(buffer')
    <3>1. j \in 1..(Len(buffer') - 1)
      BY <2>3, <2>5
    <3>2. j + s \in 1..Len(buffer) /\ buffer'[j] = buffer[j + s]
      BY <2>2, <3>1
    <3>3. ASSUME NEW i \in 1..j
          PROVE  i + s \in 1..(j + s) /\ buffer'[i] = buffer[i + s]
      <4>1. i \in 1..(Len(buffer') - 1) /\ i + s \in 1..(j + s)
        BY <2>3, <3>1
      <4> QED BY <2>2, <4>1
    <3> QED BY <3>2, <3>3 DEF StampInv
  <2> QED BY <2>4, <2>5
<1>3. CASE Report
  BY <1>3 DEF Report, StampInv, trainerVars
<1>4. CASE Evaluate
  <2>1. PICK t \in Nat : EvaluateAt(t) /\ now' = now
    BY <1>4 DEF Evaluate, TypeOK
  <2>2. CASE Start(t)
    <3>1. PICK s \in Nat :
            \A i \in 1..Len(buffer') :
              i + s \in (s + 1)..Len(buffer) /\ buffer'[i] = buffer[i + s]
      BY <2>2, SessionPlaces DEF Start, StartReady, TypeOK
    <3>2. ASSUME NEW j \in 1..Len(buffer')
          PROVE  /\ buffer'[j].timestamp =< now + BufferSpan
                 /\ \A i \in 1..j : buffer'[i].timestamp
                      =< buffer'[j].timestamp + RxLag + BufferSpan
      <4>1. j + s \in 1..Len(buffer) /\ buffer'[j] = buffer[j + s]
        BY <3>1
      <4>2. ASSUME NEW i \in 1..j
            PROVE  i + s \in 1..(j + s) /\ buffer'[i] = buffer[i + s]
        <5>1. i \in 1..Len(buffer')
          <6>1. Session(buffer) \in Seq(Entry)
            BY <2>2, SessionLemma DEF Start, StartReady, TypeOK
          <6>2. Len(buffer') \in Nat
            BY <2>2, <6>1 DEF Start
          <6> QED BY <6>2
        <5> QED BY <3>1, <5>1
      <4> QED BY <4>1, <4>2 DEF StampInv
    <3> QED BY <2>1, <3>2 DEF StampInv
  <2>3. CASE Interrupt(t) \/ Done(t) \/ Reset(t) \/ NoAction(t)
    <3>1. buffer' = buffer
      BY <2>3 DEF Interrupt, Done, Reset, NoAction, trainerVars
    <3> QED BY <2>1, <3>1 DEF StampInv
  <2> QED BY <2>1, <2>2, <2>3 DEF EvaluateAt
<1>5. CASE UNCHANGED vars
  BY <1>5 DEF vars, trainerVars, StampInv
<1> QED BY <1>1, <1>2, <1>3, <1>4, <1>5 DEF Next

\* A session holds nothing from before the last StartWindow, up to what stamps
\* may step back, however old the entries are that the buffer kept.
THEOREM StartsFreshCorrect == Spec => StartsFresh
<1> DEFINE Fresh == result' = "START" =>
             \A i \in 1..Len(buffer') :
               buffer'[i].timestamp >= Back(buffer').timestamp - StartWindow
                                       - RxLag - BufferSpan
           IInv == TypeOK /\ BufferNonEmpty /\ ClockInv /\ StampInv
<1>1. IInv /\ [Next]_vars => [Fresh]_vars
  <2> SUFFICES ASSUME IInv, Next, result' = "START",
                      NEW i \in 1..Len(buffer')
               PROVE  buffer'[i].timestamp >= Back(buffer').timestamp - StartWindow
                                              - RxLag - BufferSpan
    BY DEF vars
  <2>1. PICK t \in Nat : EvaluateAt(t)
    BY DEF Next, Tick, Receive, Report, Evaluate, TypeOK
  <2>2. Start(t)
    BY <2>1 DEF EvaluateAt, Start, Interrupt, Done, Reset, NoAction
  <2>3. /\ buffer' = Session(buffer) /\ Len(buffer) >= StartCount
        /\ Back(buffer).timestamp - LastEntries(buffer)[1].timestamp =< StartWindow
    BY <2>2 DEF Start, StartReady
  <2>4. PICK s \in Nat :
          /\ Len(buffer') + s = Len(buffer)
          /\ \A j \in 1..Len(buffer') :
               j + s \in (s + 1)..Len(buffer) /\ buffer'[j] = buffer[j + s]
    <3>1. buffer \in Seq(Entry)
      BY DEF TypeOK
    <3> QED BY <2>3, <3>1, SessionPlaces
  <2>5. Len(buffer') = StartCount /\ StartCount \in Nat /\ StartCount >= 1
    BY <2>3, SessionLemma, CountAssumption DEF TypeOK
  <2>6. Back(buffer') = Back(buffer)
    <3>1. Len(buffer') \in 1..Len(buffer')
      BY <2>5
    <3> QED BY <2>4, <3>1 DEF Back
  <2>7. 1 \in 1..Len(buffer') /\ 1 + s \in 1..(i + s) /\ i + s \in 1..Len(buffer)
    BY <2>4, <2>5
  <2>8. LastEntries(buffer)[1] = buffer[1 + s]
    BY <2>3, <2>4, <2>7 DEF Session
  <2>9. buffer[1 + s].timestamp =< buffer[i + s].timestamp + RxLag + BufferSpan
    BY <2>7 DEF StampInv
  <2>10. /\ buffer[1 + s].timestamp \in Nat /\ buffer[i + s].timestamp \in Nat
         /\ Back(buffer).timestamp \in Nat
    <3>1. 1 + s \in 1..Len(buffer) /\ Len(buffer) \in 1..Len(buffer)
      BY <2>4, <2>7, Stamps
    <3> QED BY <2>7, <3>1, Stamps DEF Back
  <2>11. ASSUME NEW a \in Nat, NEW b \in Nat, NEW c \in Nat,
                a - b =< StartWindow, b =< c + RxLag + BufferSpan
         PROVE  c >= a - StartWindow - RxLag - BufferSpan
    <3> USE TimeAssumption
    <3> HIDE DEF IInv
    <3>1. \A w, l, n, x, y, z \in Nat :
            x - y =< w /\ y =< z + l + n => z >= x - w - l - n
      OBVIOUS
    <3> QED BY <2>11, <3>1
  <2> QED BY <2>3, <2>4, <2>6, <2>8, <2>9, <2>10, <2>11
<1>2. IInv /\ [Next]_vars => IInv'
  BY TypeNext, ClockNext, StampNext
<1>3. Init => IInv
  BY TypeInit, ClockInit, StampInit
<1> QED BY <1>1, <1>2, <1>3, PTL DEF Spec, StartsFresh

----------------------------------------------------------------------------
(* The gaps of a running session.                                          *)

\* How far the newest entry of a running session may be behind the last report.
Behind == IF GapLimit > RxLag THEN GapLimit ELSE RxLag

LEMMA BehindLemma ==
    /\ Behind \in Nat /\ GapLimit =< Behind /\ RxLag =< Behind
    /\ FreshLimit =< Behind /\ MaxGap = Behind + BufferSpan + PollLimit
BY TimeAssumption, FreshAssumption DEF Behind, MaxGap

LEMMA PollInit == Init => PollInv /\ SessionContiguous
BY TimeAssumption DEF Init, PollInv, SessionContiguous

\* An entry that is appended in a running session comes at most MaxGap after
\* the one before it.
LEMMA PollReceive ==
    ASSUME TypeOK, BufferNonEmpty, ClockInv, PollInv, SessionContiguous, Receive
    PROVE  PollInv' /\ SessionContiguous'
<1>1. PICK e \in Entry :
        /\ e.timestamp \in Nat
        /\ e.timestamp >= now - RxLag /\ e.timestamp =< now + BufferSpan
        /\ buffer' = Push(buffer, e)
        /\ since' = IF since < Len(Push(buffer, e)) THEN since + 1 ELSE since
        /\ state' = state /\ now' = now /\ reporter' = reporter
  BY ReceiveStep
<1>2. PICK s \in {0, 1} :
        /\ Len(buffer') = Len(buffer) + 1 - s
        /\ Len(buffer') >= 1
        /\ buffer'[Len(buffer')] = e
        /\ \A i \in 1..(Len(buffer') - 1) :
             i + s \in 1..Len(buffer) /\ buffer'[i] = buffer[i + s]
  <2>1. buffer' = Push(buffer, e) /\ buffer \in Seq(Entry) /\ Len(buffer) =< MaxBuffer
    BY <1>1 DEF TypeOK
  <2> QED BY <2>1, PushPlaces
<1>3. /\ Len(buffer) \in Nat /\ Len(buffer') \in Nat /\ since \in Nat
      /\ now \in Nat /\ reporter.polled \in Nat
      /\ RxLag \in Nat /\ BufferSpan \in Nat /\ PollLimit \in Nat
  BY <1>2, Stamps, TimeAssumption DEF TypeOK
<1>4. reporter.polled =< now /\ now =< reporter.polled + PollLimit
  BY DEF PollInv
<1>5. PollInv'
  <2>1. Back(buffer') = e
    BY <1>2 DEF Back
  <2>2. e.timestamp >= reporter.polled - Behind
    BY <1>1, <1>3, <1>4, BehindLemma
  <2> QED BY <1>1, <2>1, <2>2 DEF PollInv, Behind
<1>6. SessionContiguous'
  <2> SUFFICES ASSUME state = "TRAINING", NEW i \in 1..(Len(buffer') - 1),
                      i >= Len(buffer') - since'
               PROVE  buffer'[i + 1].timestamp - buffer'[i].timestamp =< MaxGap
    BY <1>1 DEF SessionContiguous
  <2>1. i + s \in 1..Len(buffer) /\ buffer'[i] = buffer[i + s]
    BY <1>2
  <2>2. CASE i = Len(buffer') - 1
    <3>1. i + 1 = Len(buffer') /\ i + s = Len(buffer)
      BY <1>2, <1>3, <2>2
    <3>2. buffer'[i + 1] = e /\ buffer'[i] = Back(buffer)
      BY <1>2, <2>1, <3>1 DEF Back
    <3>3. Back(buffer).timestamp \in Nat
      BY <2>1, <3>1, Stamps DEF Back
    <3>4. Back(buffer).timestamp >= reporter.polled - Behind
      BY DEF PollInv, Behind
    <3>5. \A a, b, p, n, h, span, poll \in Nat :
            a =< n + span /\ n =< p + poll /\ b >= p - h => a - b =< h + span + poll
      OBVIOUS
    <3> QED BY <1>1, <1>3, <1>4, <3>2, <3>3, <3>4, <3>5, BehindLemma
  <2>3. CASE i # Len(buffer') - 1
    <3>1. i + 1 \in 1..(Len(buffer') - 1)
      BY <1>3, <2>3
    <3>2. buffer'[i + 1] = buffer[(i + 1) + s] /\ (i + 1) + s = (i + s) + 1
          /\ (i + 1) + s \in 1..Len(buffer)
      BY <1>2, <1>3, <3>1
    <3>3. i + s \in 1..(Len(buffer) - 1) /\ i + s >= Len(buffer) - since
      <4>1. since' =< since + 1
        BY <1>1, <1>3
      <4>2. since' \in Nat
        BY <1>1, <1>3
      <4>3. i + s \in 1..(Len(buffer) - 1)
        BY <1>3, <2>1, <3>2
      <4>4. \A a, b, l, m, c, d \in Nat :
              m = l + 1 - b /\ a >= m - d /\ d =< c + 1 => a + b >= l - c
        OBVIOUS
      <4>5. i \in Nat /\ s \in Nat /\ Len(buffer') = Len(buffer) + 1 - s
        BY <1>2
      <4>6. i + s >= Len(buffer) - since
        BY <1>3, <4>1, <4>2, <4>4, <4>5
      <4> QED BY <4>3, <4>6
    <3> QED BY <2>1, <3>2, <3>3 DEF SessionContiguous
  <2> QED BY <2>2, <2>3
<1> QED BY <1>5, <1>6

\* A session that goes on, or begins, heard a frame within the limit before
\* the report.
LEMMA PollEvaluate ==
    ASSUME TypeOK, BufferNonEmpty, ClockInv, PollInv, SessionContiguous, Evaluate
    PROVE  PollInv' /\ SessionContiguous'
<1>1. PICK t \in Nat : t = reporter.now_ts /\ EvaluateAt(t)
  BY DEF Evaluate, TypeOK
<1>2. now' = now /\ reporter'.polled = t /\ reporter'.pc = "idle"
  BY <1>1 DEF Evaluate
<1>3. /\ now \in Nat /\ reporter.polled \in Nat /\ PollLimit \in Nat
      /\ t =< now /\ reporter.polled =< t /\ now =< reporter.polled + PollLimit
  BY <1>1, TimeAssumption DEF TypeOK, ClockInv, PollInv, Evaluate
<1>4. reporter'.polled =< now' /\ now' =< reporter'.polled + PollLimit
  BY <1>2, <1>3
<1>5. ASSUME Len(buffer) >= 1, NEW limit \in Nat, limit =< Behind,
             Age(t, Back(buffer)) =< limit
      PROVE  Back(buffer).timestamp >= t - Behind
  <2>1. Len(buffer) \in 1..Len(buffer)
    BY <1>5, Stamps
  <2>2. Back(buffer).timestamp \in Nat
    BY <2>1, Stamps DEF Back
  <2> QED BY <1>5, <2>2, BehindLemma DEF Age
<1>6. CASE Start(t)
  <2>1. /\ Len(buffer) >= StartCount /\ buffer' = Session(buffer) /\ since' = 0
        /\ Age(t, Back(buffer)) =< FreshLimit
    BY <1>6 DEF Start, StartReady
  <2>2. Len(buffer') = StartCount /\ StartCount \in Nat /\ StartCount >= 1
        /\ Len(buffer) >= 1
    BY <2>1, SessionLemma, CountAssumption, Stamps DEF TypeOK
  <2>3. Back(buffer') = Back(buffer)
    <3>1. PICK s \in Nat :
            /\ Len(buffer') + s = Len(buffer)
            /\ \A j \in 1..Len(buffer') : buffer'[j] = buffer[j + s]
      <4>1. buffer \in Seq(Entry)
        BY DEF TypeOK
      <4> QED BY <2>1, <4>1, SessionPlaces
    <3>2. Len(buffer') \in 1..Len(buffer')
      BY <2>2
    <3> QED BY <3>1, <3>2 DEF Back
  <2>4. Back(buffer').timestamp >= t - Behind
    BY <1>5, <2>1, <2>2, <2>3, BehindLemma, TimeAssumption
  <2>5. PollInv'
    BY <1>2, <1>4, <2>4 DEF PollInv, Behind
  <2>6. SessionContiguous'
    <3>1. \A i \in 1..(Len(buffer') - 1) : ~(i >= Len(buffer') - since')
      BY <2>1, <2>2
    <3> QED BY <3>1 DEF SessionContiguous
  <2> QED BY <2>5, <2>6
<1>7. CASE Interrupt(t) \/ Done(t) \/ Reset(t)
  <2>1. state' # "TRAINING"
    BY <1>7 DEF Interrupt, Done, Reset
  <2> QED BY <1>2, <1>4, <2>1 DEF PollInv, SessionContiguous
<1>8. CASE NoAction(t)
  <2>1. buffer' = buffer /\ state' = state /\ since' = since
    BY <1>8 DEF NoAction, trainerVars
  <2>2. ASSUME state = "TRAINING" PROVE Back(buffer).timestamp >= t - Behind
    <3>1. ~SignalLost(t)
      BY <1>8, <2>2 DEF NoAction
    <3>2. Len(buffer) >= 1
      BY <2>2, Stamps DEF BufferNonEmpty
    <3>3. Age(t, Back(buffer)) =< GapLimit
      <4>1. Len(buffer) \in 1..Len(buffer)
        BY <3>2, Stamps
      <4>2. Back(buffer).timestamp \in Nat
        BY <4>1, Stamps DEF Back
      <4> QED BY <3>1, <4>2, TimeAssumption DEF SignalLost, Age
    <3> QED BY <1>5, <3>2, <3>3, BehindLemma, TimeAssumption
  <2>3. PollInv'
    BY <1>2, <1>4, <2>1, <2>2 DEF PollInv, Behind
  <2> QED BY <2>1, <2>3 DEF SessionContiguous
<1> QED BY <1>1, <1>6, <1>7, <1>8 DEF EvaluateAt

LEMMA PollNext ==
    TypeOK /\ BufferNonEmpty /\ ClockInv /\ PollInv /\ SessionContiguous /\ [Next]_vars
      => PollInv' /\ SessionContiguous'
<1> SUFFICES ASSUME TypeOK, BufferNonEmpty, ClockInv, PollInv, SessionContiguous,
                    [Next]_vars
             PROVE  PollInv' /\ SessionContiguous'
  OBVIOUS
<1>1. CASE Tick
  <2>1. now' = now + 1 /\ now < reporter.polled + PollLimit
        /\ buffer' = buffer /\ state' = state /\ since' = since /\ reporter' = reporter
    BY <1>1 DEF Tick, trainerVars
  <2>2. reporter.polled =< now' /\ now' =< reporter.polled + PollLimit
    BY <2>1, TimeAssumption DEF TypeOK, PollInv
  <2> QED BY <2>1, <2>2 DEF PollInv, SessionContiguous
<1>2. CASE Receive
  BY <1>2, PollReceive
<1>3. CASE Report
  <2>1. /\ buffer' = buffer /\ state' = state /\ since' = since /\ now' = now
        /\ reporter'.polled = reporter.polled /\ reporter'.now_ts = now
    BY <1>3 DEF Report, trainerVars, TypeOK
  <2> QED BY <2>1 DEF PollInv, SessionContiguous
<1>4. CASE Evaluate
  BY <1>4, PollEvaluate
<1>5. CASE UNCHANGED vars
  BY <1>5 DEF vars, trainerVars, PollInv, SessionContiguous
<1> QED BY <1>1, <1>2, <1>3, <1>4, <1>5 DEF Next

\* No two neighbouring entries of a running session are further apart than
\* MaxGap, for any limits, any buffer and any interleaving of the two threads.
THEOREM SessionContiguousCorrect == Spec => []SessionContiguous
<1> DEFINE IInv == TypeOK /\ BufferNonEmpty /\ ClockInv /\ PollInv /\ SessionContiguous
<1>1. Init => IInv
  BY TypeInit, ClockInit, PollInit
<1>2. IInv /\ [Next]_vars => IInv'
  BY TypeNext, ClockNext, PollNext
<1> QED BY <1>1, <1>2, PTL DEF Spec

----------------------------------------------------------------------------
(* Learning: RC4Learning puts the trainer between the receiver, the        *)
(* registry and the DONE branch of the reporter, whose main thread is the  *)
(* variable main here.                                                     *)
CONSTANTS Cars, RealId, AutoBase, AutoTop, QuietTime
VARIABLES main, rx, registry, next_transponder, pending, heard, sources, session

L == INSTANCE RC4Learning WITH reporter <- main

\* A set of natural numbers that is not empty has a least element.
Smaller == {p \in Nat \X Nat : p[1] < p[2]}

LEMMA SmallerWellFounded == IsWellFoundedOn(Smaller, Nat)
BY NatLessThanWellFounded, Zenon DEF OpToRel, Smaller

LEMMA LeastNatural ==
    ASSUME NEW T \in SUBSET Nat, T # {}
    PROVE  \E m \in T : \A n \in T : m =< n
<1>1. PICK m \in T : \A n \in T : ~(<<n, m>> \in Smaller)
  BY SmallerWellFounded, WFMin
<1>2. ASSUME NEW n \in T PROVE m =< n
  <2>1. m \in Nat /\ n \in Nat /\ ~(<<n, m>> \in Smaller)
    BY <1>1
  <2>2. ~(n < m)
    BY <2>1 DEF Smaller
  <2> QED BY <2>1, <2>2
<1> QED BY <1>2

\* Identifiers are positive numbers, real or automatic.
LEMMA Identifiers ==
    ASSUME L!IdAssumption
    PROVE  /\ L!AllIds \subseteq Nat /\ 0 \notin L!AllIds
           /\ AutoBase..AutoTop \subseteq L!AllIds
           /\ \A c \in Cars : RealId[c] \in L!AllIds \cup {0}
<1>1. \A c \in Cars : RealId[c] \in Nat
  BY DEF L!IdAssumption
<1>2. \A i \in L!RealIds : i \in Nat /\ i # 0
  BY <1>1 DEF L!RealIds
<1>3. \A i \in AutoBase..AutoTop : i \in Nat /\ i # 0
  BY DEF L!IdAssumption
<1>4. \A c \in Cars : RealId[c] \in L!RealIds \cup {0}
  BY DEF L!RealIds
<1> QED BY <1>2, <1>3, <1>4 DEF L!AllIds

Pcs == {"idle", "passings", "evaluate"} \cup L!DoneSteps

\* What TypeOK says of the buffer and of the reporter.
LEMMA LearningTypes ==
    ASSUME L!IdAssumption, L!TypeOK
    PROVE  /\ now \in Nat /\ buffer \in Seq(L!Trainer!Entry) /\ Len(buffer) \in Nat
           /\ Len(buffer) =< MaxBuffer
           /\ state \in {"IDLE", "TRAINING", "FINALIZING"}
           /\ since \in Nat /\ since =< Len(buffer)
           /\ \A j \in 1..Len(buffer) :
                /\ buffer[j] \in L!Trainer!Entry
                /\ buffer[j].timestamp \in Nat
                /\ buffer[j].data.payload \in Cars
                /\ buffer[j].data.id \in L!AllIds \cup {0}
           /\ main.pc \in Pcs /\ main.now_ts \in Nat /\ main.polled \in Nat
           /\ main.id \in L!AllIds \cup {0} /\ main.payloads \subseteq Cars
           /\ main.from \in Nat
<1>1. buffer \in Seq(L!Trainer!Entry)
  BY DEF L!TypeOK, L!Trainer!TypeOK
<1>2. \A j \in 1..Len(buffer) : buffer[j] \in L!Trainer!Entry
  BY <1>1
<1>3. \A e \in L!Trainer!Entry :
        e.timestamp \in Nat /\ e.data.payload \in Cars /\ e.data.id \in L!AllIds \cup {0}
  BY DEF L!Trainer!Entry
<1>4. /\ main.pc \in Pcs /\ main.now_ts \in Nat /\ main.polled \in Nat
      /\ main.id \in L!AllIds \cup {0} /\ main.payloads \subseteq Cars
      /\ main.from \in Nat
  BY DEF L!TypeOK, Pcs
<1>5. Len(buffer) \in Nat
  BY <1>1
<1>6. /\ now \in Nat /\ Len(buffer) =< MaxBuffer /\ since \in Nat /\ since =< Len(buffer)
      /\ state \in {"IDLE", "TRAINING", "FINALIZING"}
  BY DEF L!TypeOK, L!Trainer!TypeOK
<1> QED BY <1>1, <1>2, <1>3, <1>4, <1>5, <1>6

\* The trainer of the composition is this one.
LEMMA SameTrainer ==
    /\ \A b, e : L!Trainer!Push(b, e) = Push(b, e)
    /\ \A b : L!Trainer!LastEntries(b) = Session(b)
BY DEF L!Trainer!Push, Push, L!Trainer!LastEntries, Session, LastEntries

LEMMA SameCardinality == \A S : L!Cardinality(S) = Cardinality(S)
BY Zenon DEF L!Cardinality, Cardinality

\* The steps of the receiver and of the reporter as equations: what becomes of
\* the trainer ...
LEMMA EvaluateStep ==
    ASSUME L!Evaluate
    PROVE  /\ main.pc = "evaluate"
           /\ \/ /\ state = "IDLE" /\ state' = "TRAINING" /\ result' = "START"
                 /\ Len(buffer) >= StartCount /\ buffer' = Session(buffer) /\ since' = 0
              \/ /\ UNCHANGED <<buffer, since>>
                 /\ \/ state = "TRAINING" /\ state' = "IDLE" /\ result' = "INTERRUPTED"
                    \/ /\ state = "TRAINING" /\ state' = "FINALIZING" /\ result' = "DONE"
                       /\ L!Trainer!Full(buffer)
                    \/ state = "FINALIZING" /\ state' = "IDLE" /\ result' = "RESET"
                    \/ state' = state /\ result' = "NO_ACTION"
<1>1. L!Trainer!EvaluateAt(L!EvaluatedAt) /\ main.pc = "evaluate"
  BY Zenon DEF L!Evaluate
<1> DEFINE t == L!EvaluatedAt
<1>2. CASE L!Trainer!Start(t)
  BY <1>1, <1>2 DEF L!Trainer!Start, L!Trainer!StartReady, L!Trainer!Session,
       L!Trainer!LastEntries, Session, LastEntries
<1>3. CASE L!Trainer!Interrupt(t)
  BY <1>1, <1>3 DEF L!Trainer!Interrupt
<1>4. CASE L!Trainer!Done(t)
  BY <1>1, <1>4 DEF L!Trainer!Done
<1>5. CASE L!Trainer!Reset(t)
  BY <1>1, <1>5 DEF L!Trainer!Reset
<1>6. CASE L!Trainer!NoAction(t)
  BY <1>1, <1>6 DEF L!Trainer!NoAction, L!Trainer!trainerVars
<1> HIDE DEF t
<1>7. L!Trainer!Start(t) \/ L!Trainer!Interrupt(t) \/ L!Trainer!Done(t) \/ L!Trainer!Reset(t)
        \/ L!Trainer!NoAction(t)
  BY <1>1 DEF t, L!Trainer!EvaluateAt
<1> QED BY <1>2, <1>3, <1>4, <1>5, <1>6, <1>7

\* ... and of the reporter.
LEMMA EvaluateReporter ==
    ASSUME L!IdAssumption, L!TypeOK, L!Evaluate
    PROVE  /\ main' = [pc |-> IF result' = "DONE" THEN "preferred" ELSE "idle",
                           now_ts |-> 0, polled |-> main.now_ts, id |-> 0,
                           payloads |-> {}, from |-> 0, until |-> 0, rc3 |-> {}]
           /\ UNCHANGED <<now, rx, L!registryVars, L!detectionVars>>
           /\ session' = IF result' = "START"
                         THEN [start |-> L!Trainer!LastEntries(buffer')[1].timestamp,
                               crowd |-> L!CrowdAtStart(buffer'),
                               known |-> L!KnownAtStart(buffer')]
                         ELSE IF result' = "INTERRUPTED" THEN L!NoSession ELSE session
<1>1. main' = [L!Reporting(IF result' = "DONE" THEN "preferred" ELSE "idle", 0)
                   EXCEPT !.polled = main.now_ts]
  BY Zenon DEF L!Evaluate
<1>2. \A q : [L!Reporting(q, 0) EXCEPT !.polled = main.now_ts]
               = [pc |-> q, now_ts |-> 0, polled |-> main.now_ts, id |-> 0,
                  payloads |-> {}, from |-> 0, until |-> 0, rc3 |-> {}]
  <2> SUFFICES ASSUME NEW q
               PROVE  [L!Reporting(q, 0) EXCEPT !.polled = main.now_ts]
                        = [pc |-> q, now_ts |-> 0, polled |-> main.now_ts, id |-> 0,
                           payloads |-> {}, from |-> 0, until |-> 0, rc3 |-> {}]
    OBVIOUS
  <2>1. L!Reporting(q, 0) = [pc |-> q, now_ts |-> 0, polled |-> main.polled, id |-> 0,
                           payloads |-> {}, from |-> 0, until |-> 0, rc3 |-> {}]
    BY DEF L!Reporting
  <2> QED BY <2>1
<1>3. session' =
         CASE result' = "START" ->
              [start |-> L!Trainer!LastEntries(buffer')[1].timestamp,
               crowd |-> L!CrowdAtStart(buffer'), known |-> L!KnownAtStart(buffer')]
           [] result' = "INTERRUPTED" -> L!NoSession
           [] OTHER -> session
  BY Zenon DEF L!Evaluate
<1>4. UNCHANGED <<now, rx, L!registryVars, L!detectionVars>>
  BY Zenon DEF L!Evaluate
<1>5. session' = IF result' = "START"
                 THEN [start |-> L!Trainer!LastEntries(buffer')[1].timestamp,
                       crowd |-> L!CrowdAtStart(buffer'), known |-> L!KnownAtStart(buffer')]
                 ELSE IF result' = "INTERRUPTED" THEN L!NoSession ELSE session
  BY <1>3
<1> QED BY <1>1, <1>2, <1>4, <1>5


\* What RxTrainer does: the frame becomes the last entry, at the cost of the
\* first one if the buffer is full.
LEMMA TrainStep ==
    ASSUME L!IdAssumption, L!TypeOK, L!RxTrainer
    PROVE  \E f \in rx, s \in {0, 1} :
             /\ f.detected /\ f.timestamp \in Nat /\ f.car \in Cars /\ f.id \in L!AllIds \cup {0}
             /\ L!Trainer!AppendEntry([timestamp |-> f.timestamp, rssi |-> L!Level,
                                     data |-> [payload |-> f.car, id |-> f.id]])
             /\ buffer' \in Seq(L!Trainer!Entry) /\ Len(buffer') =< MaxBuffer
             /\ Len(buffer') = Len(buffer) + 1 - s /\ Len(buffer') >= 1
             /\ buffer'[Len(buffer')].timestamp = f.timestamp
             /\ buffer'[Len(buffer')].data.payload = f.car
             /\ buffer'[Len(buffer')].data.id = f.id
             /\ \A i \in 1..(Len(buffer') - 1) :
                  i + s \in 1..Len(buffer) /\ buffer'[i] = buffer[i + s]
             /\ since' = IF since < Len(buffer') THEN since + 1 ELSE since
             /\ rx' = {} /\ state' = state
             /\ UNCHANGED <<now, main, L!registryVars, L!detectionVars, session>>
<1>1. PICK f \in rx :
        /\ f.detected
        /\ L!Trainer!AppendEntry([timestamp |-> f.timestamp, rssi |-> L!Level,
                                data |-> [payload |-> f.car, id |-> f.id]])
  BY DEF L!RxTrainer
<1>2. f.timestamp \in Nat /\ f.car \in Cars /\ f.id \in L!AllIds \cup {0}
  BY DEF L!TypeOK
<1> DEFINE e == [timestamp |-> f.timestamp, rssi |-> L!Level,
                 data |-> [payload |-> f.car, id |-> f.id]]
<1>3. e \in L!Trainer!Entry
  BY <1>2 DEF L!Trainer!Entry
<1>4. /\ e.timestamp = f.timestamp /\ e.data.payload = f.car /\ e.data.id = f.id
  OBVIOUS
<1>5. /\ buffer' = Push(buffer, e) /\ state' = state
      /\ since' = IF since < Len(buffer') THEN since + 1 ELSE since
  BY <1>1, SameTrainer DEF L!Trainer!AppendEntry
<1>6. /\ rx' = {}
      /\ UNCHANGED <<now, main, L!registryVars, L!detectionVars, session>>
  BY DEF L!RxTrainer
<1>7. L!Trainer!AppendEntry(e)
  BY <1>1
<1> HIDE DEF e
<1>8. buffer \in Seq(L!Trainer!Entry) /\ Len(buffer) =< MaxBuffer
  BY LearningTypes
<1>9. buffer' \in Seq(L!Trainer!Entry) /\ Len(buffer') =< MaxBuffer
  BY <1>3, <1>5, <1>8, PushLemma
<1>10. PICK s \in {0, 1} :
         /\ Len(buffer') = Len(buffer) + 1 - s /\ Len(buffer') >= 1
         /\ buffer'[Len(buffer')] = e
         /\ \A i \in 1..(Len(buffer') - 1) :
              i + s \in 1..Len(buffer) /\ buffer'[i] = buffer[i + s]
  BY <1>3, <1>5, <1>8, PushPlaces
<1> QED BY <1>1, <1>2, <1>4, <1>5, <1>6, <1>9, <1>10

\* What START leaves.
LEMMA StartStep ==
    ASSUME L!IdAssumption, L!TypeOK, Len(buffer) >= StartCount, buffer' = Session(buffer)
    PROVE  /\ buffer' \in Seq(L!Trainer!Entry) /\ Len(buffer') = StartCount
           /\ StartCount \in Nat \ {0} /\ StartCount =< MaxBuffer
           /\ L!Trainer!LastEntries(buffer') = buffer'
           /\ \E s \in Nat :
                \A i \in 1..Len(buffer') :
                  i + s \in 1..Len(buffer) /\ buffer'[i] = buffer[i + s]
<1>1. buffer \in Seq(L!Trainer!Entry)
  BY LearningTypes
<1>2. buffer' \in Seq(L!Trainer!Entry) /\ Len(buffer') = StartCount
  BY <1>1, SessionLemma
<1>3. StartCount \in Nat \ {0} /\ StartCount =< MaxBuffer
  BY CountAssumption
<1>4. PICK s \in Nat :
        /\ Len(buffer') + s = Len(buffer)
        /\ \A i \in 1..Len(buffer') : i + s \in (s + 1)..Len(buffer) /\ buffer'[i] = buffer[i + s]
  BY <1>1, SessionPlaces
<1>5. \A i \in 1..Len(buffer') : i + s \in 1..Len(buffer) /\ buffer'[i] = buffer[i + s]
  BY <1>2, <1>3, <1>4
<1>6. L!Trainer!LastEntries(buffer') = buffer'
  <2>1. L!Trainer!LastEntries(buffer') = Session(buffer') /\ Session(buffer') \in Seq(L!Trainer!Entry)
        /\ Len(Session(buffer')) = Len(buffer')
    BY <1>2, <1>3, SameTrainer, SessionLemma
  <2>2. PICK d \in Nat :
          /\ Len(Session(buffer')) + d = Len(buffer')
          /\ \A i \in 1..Len(Session(buffer')) :
               i + d \in (d + 1)..Len(buffer') /\ Session(buffer')[i] = buffer'[i + d]
    <3>1. Len(buffer') >= StartCount
      BY <1>2, <1>3
    <3> QED BY <1>2, <3>1, SessionPlaces
  <2>3. d = 0
    BY <1>2, <1>3, <2>1, <2>2
  <2>4. \A i \in 1..Len(buffer') : Session(buffer')[i] = buffer'[i]
    BY <1>2, <1>3, <2>1, <2>2, <2>3
  <2>5. Session(buffer') = buffer'
    BY <1>2, <2>1, <2>4, SeqEqual
  <2> QED BY <2>1, <2>5
<1> QED BY <1>2, <1>3, <1>5, <1>6


\* The types, without the view the trainer has of the reporter.
TrainerTyped ==
    /\ state \in {"IDLE", "TRAINING", "FINALIZING"}
    /\ buffer \in Seq(L!Trainer!Entry) /\ Len(buffer) =< MaxBuffer
    /\ result \in L!Trainer!Results
    /\ since \in Nat /\ since =< Len(buffer)

ReporterTyped ==
    main \in [pc : Pcs, now_ts : Nat, polled : Nat, id : L!AllIds \cup {0},
                  payloads : SUBSET Cars, from : Nat, until : Nat, rc3 : SUBSET Cars]

RxTyped ==
    rx \subseteq [timestamp : Nat, car : Cars, id : L!AllIds \cup {0}, detected : BOOLEAN]

RegistryTyped ==
    registry \in [Cars -> L!AllIds \cup {0}] /\ next_transponder \in AutoBase..(AutoTop + 1)

DetectionTyped ==
    /\ pending \in [L!AllIds -> {<<>>} \cup (Nat \X Nat)]
    /\ heard \in [L!AllIds -> Nat \cup {L!Never}]
    /\ sources \in [L!AllIds -> SUBSET Cars]

SessionTyped ==
    session \in [start : Nat, crowd : SUBSET Cars, known : [Cars -> SUBSET L!AllIds]]

Typed ==
    /\ now \in Nat
    /\ TrainerTyped /\ ReporterTyped /\ RxTyped /\ RegistryTyped
    /\ DetectionTyped /\ SessionTyped

LEMMA TypedParts == L!TypeOK <=> Typed
<1>1. ReporterTyped =>
        [pc |-> IF main.pc \in {"passings", "evaluate"} THEN "evaluate" ELSE "idle",
         now_ts |-> IF main.pc \in {"passings", "evaluate"} THEN main.now_ts ELSE 0,
         polled |-> main.polled] \in [pc : {"idle", "evaluate"}, now_ts : Nat, polled : Nat]
  BY DEF ReporterTyped
<1>2. now \in Nat /\ TrainerTyped /\ ReporterTyped => L!Trainer!TypeOK
  BY <1>1 DEF TrainerTyped, L!Trainer!TypeOK
<1>3. L!Trainer!TypeOK => TrainerTyped
  BY DEF TrainerTyped, L!Trainer!TypeOK
<1> QED
  BY <1>2, <1>3 DEF L!TypeOK, Typed, ReporterTyped, RxTyped, RegistryTyped, DetectionTyped,
       SessionTyped, Pcs

LEMMA TypedNext == ASSUME Typed' PROVE L!TypeOK'
<1>1. [pc |-> IF main.pc \in {"passings", "evaluate"} THEN "evaluate" ELSE "idle",
       now_ts |-> IF main.pc \in {"passings", "evaluate"} THEN main.now_ts ELSE 0,
       polled |-> main.polled]' \in [pc : {"idle", "evaluate"}, now_ts : Nat, polled : Nat]
  BY DEF Typed, ReporterTyped
<1>2. L!Trainer!TypeOK'
  BY <1>1 DEF Typed, TrainerTyped, L!Trainer!TypeOK
<1> QED
  BY <1>2 DEF L!TypeOK, Typed, ReporterTyped, RxTyped, RegistryTyped, DetectionTyped,
       SessionTyped, Pcs

LEMMA LearningTypeInit == ASSUME L!IdAssumption, L!Init PROVE L!TypeOK
<1>1. now \in Nat /\ TrainerTyped
  BY TimeAssumption, CountAssumption DEF L!Init, TrainerTyped, L!Trainer!Results
<1>2. ReporterTyped
  BY TimeAssumption DEF L!Init, ReporterTyped, Pcs
<1>3. RxTyped /\ RegistryTyped /\ SessionTyped
  BY DEF L!Init, RxTyped, RegistryTyped, SessionTyped, L!NoSession, L!IdAssumption
<1>4. DetectionTyped
  BY DEF L!Init, DetectionTyped
<1> QED BY <1>1, <1>2, <1>3, <1>4, TypedParts DEF Typed

\* A detection under a known identifier.
LEMMA DetectTyped ==
    ASSUME DetectionTyped, NEW i \in L!AllIds, NEW c \in Cars, NEW t \in Nat, L!Detect(i, c, t)
    PROVE  DetectionTyped'
<1>1. pending[i] \in {<<>>} \cup (Nat \X Nat)
  BY DEF DetectionTyped
<1>2. L!Extended(pending[i], t) \in Nat \X Nat
  BY <1>1 DEF L!Extended
<1>3. pending' \in [L!AllIds -> {<<>>} \cup (Nat \X Nat)]
  BY <1>2 DEF L!Detect, DetectionTyped
<1>4. heard' \in [L!AllIds -> Nat \cup {L!Never}] /\ sources' \in [L!AllIds -> SUBSET Cars]
  BY DEF L!Detect, DetectionTyped
<1> QED BY <1>3, <1>4 DEF DetectionTyped

LEMMA OnLoopTyped ==
    ASSUME SessionTyped, NEW c \in Cars, L!OnLoop(c)
    PROVE  SessionTyped'
BY DEF L!OnLoop, SessionTyped

\* What the session begins with.
LEMMA AtStartTyped ==
    ASSUME L!IdAssumption, L!TypeOK, NEW buf \in Seq(L!Trainer!Entry)
    PROVE  L!CrowdAtStart(buf) \in SUBSET Cars /\ L!KnownAtStart(buf) \in [Cars -> SUBSET L!AllIds]
<1>1. \A j \in 1..Len(buf) : buf[j] \in L!Trainer!Entry
  OBVIOUS
<1>2. \A j \in 1..Len(buf) : buf[j].data.payload \in Cars /\ buf[j].data.id \in L!AllIds \cup {0}
  BY <1>1 DEF L!Trainer!Entry
<1>3. \A f \in rx : f.car \in Cars /\ f.id \in L!AllIds \cup {0}
  BY DEF L!TypeOK
<1>4. L!CrowdAtStart(buf) \in SUBSET Cars
  BY <1>2, <1>3 DEF L!CrowdAtStart, L!TypeOK
<1>5. L!KnownAtStart(buf) \in [Cars -> SUBSET L!AllIds]
  BY <1>2, <1>3 DEF L!KnownAtStart, L!TypeOK
<1> QED BY <1>4, <1>5

LEMMA PreferredTyped ==
    ASSUME L!IdAssumption, NEW buf \in Seq(L!Trainer!Entry)
    PROVE  /\ L!Preferred(buf) \in L!AllIds \cup {0}
           /\ L!Preferred(buf) # 0 =>
                \E j \in 1..Len(buf) : buf[j].data.id # 0 /\ L!Preferred(buf) = buf[j].data.id
           /\ L!Preferred(buf) = 0 => \A j \in 1..Len(buf) : buf[j].data.id = 0
<1> DEFINE known == {i \in 1..Len(buf) : buf[i].data.id # 0}
           first == CHOOSE i \in known : \A j \in known : i =< j
<1>1. \A j \in 1..Len(buf) : buf[j] \in L!Trainer!Entry
  OBVIOUS
<1>2. \A j \in 1..Len(buf) : buf[j].data.id \in L!AllIds \cup {0}
  BY <1>1 DEF L!Trainer!Entry
<1>3. L!Preferred(buf) = IF known = {} THEN 0 ELSE buf[first].data.id
  BY DEF L!Preferred
<1>4. CASE known = {}
  BY <1>3, <1>4
<1>5. CASE known # {}
  <2>1. known \in SUBSET Nat
    OBVIOUS
  <2>2. \E m \in known : \A n \in known : m =< n
    BY <1>5, <2>1, LeastNatural
  <2>3. first \in known
    BY <2>2
  <2> HIDE DEF first
  <2> QED BY <1>2, <1>3, <1>5, <2>3
<1> QED BY <1>4, <1>5


LEMMA ReceiverTyped ==
    ASSUME L!IdAssumption, L!TypeOK, L!FrameInv, L!Receiver
    PROVE  L!TypeOK'
<1>1. Typed
  BY TypedParts
<1>2. ASSUME NEW c \in Cars, L!RxLookup(c) PROVE Typed'
  <2>1. RxTyped' /\ SessionTyped'
    BY <1>1, <1>2, OnLoopTyped DEF L!RxLookup, Typed, RxTyped, RegistryTyped
  <2> QED
    BY <1>1, <1>2, <2>1 DEF L!RxLookup, Typed, L!trainerVars, TrainerTyped, ReporterTyped,
         L!registryVars, RegistryTyped, L!detectionVars, DetectionTyped
<1>3. ASSUME NEW c \in Cars, L!RxRC3(c) PROVE Typed'
  <2>1. RealId[c] \in L!AllIds /\ now \in Nat
    BY <1>1, <1>3, Identifiers DEF L!RxRC3, Typed
  <2>2. DetectionTyped' /\ SessionTyped'
    BY <1>1, <1>3, <2>1, OnLoopTyped, DetectTyped DEF L!RxRC3, Typed
  <2> QED
    BY <1>1, <1>3, <2>2 DEF L!RxRC3, Typed, L!trainerVars, TrainerTyped, ReporterTyped,
         L!registryVars, RegistryTyped, RxTyped
<1>4. ASSUME L!RxDetection PROVE Typed'
  <2>1. PICK f \in rx : /\ ~f.detected /\ L!Detect(f.id, f.car, f.timestamp)
                        /\ rx' = {[f EXCEPT !.detected = TRUE]}
    BY <1>4 DEF L!RxDetection
  <2>2. /\ f \in [timestamp : Nat, car : Cars, id : L!AllIds \cup {0}, detected : BOOLEAN]
        /\ f.id # 0
    BY <1>1, <1>4, <2>1 DEF Typed, RxTyped, L!FrameInv
  <2>3. DetectionTyped'
    BY <1>1, <2>1, <2>2, DetectTyped DEF Typed
  <2>4. RxTyped'
    BY <2>1, <2>2 DEF RxTyped
  <2> QED
    BY <1>1, <1>4, <2>3, <2>4 DEF L!RxDetection, Typed, L!trainerVars, TrainerTyped,
         ReporterTyped, L!registryVars, RegistryTyped, SessionTyped
<1>5. ASSUME L!RxTrainer PROVE Typed'
  <2>1. PICK f \in rx, s \in {0, 1} :
          /\ buffer' \in Seq(L!Trainer!Entry) /\ Len(buffer') =< MaxBuffer
          /\ since' = IF since < Len(buffer') THEN since + 1 ELSE since
          /\ Len(buffer') = Len(buffer) + 1 - s /\ Len(buffer') >= 1
          /\ rx' = {} /\ state' = state
          /\ UNCHANGED <<now, main, L!registryVars, L!detectionVars, session>>
    BY <1>5, TrainStep
  <2>2. result' = "NO_ACTION"
    BY <1>5 DEF L!RxTrainer
  <2>3. since' \in Nat /\ since' =< Len(buffer')
    <3>1. Len(buffer) \in Nat /\ since \in Nat /\ since =< Len(buffer) /\ Len(buffer') \in Nat
      BY <2>1, LearningTypes
    <3> QED BY <2>1, <3>1
  <2>4. TrainerTyped'
    BY <1>1, <2>1, <2>2, <2>3 DEF Typed, TrainerTyped, L!Trainer!Results
  <2> QED
    BY <1>1, <2>1, <2>4 DEF Typed, ReporterTyped, L!registryVars, RegistryTyped,
         L!detectionVars, DetectionTyped, SessionTyped, RxTyped
<1> QED BY <1>2, <1>3, <1>4, <1>5, TypedNext DEF L!Receiver


\* What is stored is an identifier.
LEMMA StoreTyped ==
    ASSUME L!IdAssumption, RegistryTyped, NEW id \in L!AllIds \cup {0}, NEW cs \in SUBSET Cars,
           id = 0 => next_transponder =< AutoTop, L!Store(id, cs)
    PROVE  RegistryTyped'
<1>1. AutoBase \in Nat /\ AutoTop \in Nat /\ AutoBase =< AutoTop
  BY DEF L!IdAssumption
<1>2. L!Assigned(id) \in L!AllIds
  <2>1. CASE id = 0
    BY <1>1, <2>1, Identifiers DEF L!Assigned, RegistryTyped
  <2>2. CASE id # 0
    BY <2>2 DEF L!Assigned
  <2> QED BY <2>1, <2>2
<1>3. registry' \in [Cars -> L!AllIds \cup {0}]
  BY <1>2 DEF L!Store, RegistryTyped
<1>4. next_transponder' \in AutoBase..(AutoTop + 1)
  <2>1. CASE id = 0
    BY <1>1, <2>1 DEF L!Store, RegistryTyped
  <2>2. CASE id # 0 /\ id \in AutoBase..AutoTop /\ id + 1 > next_transponder
    BY <1>1, <2>2 DEF L!Store, RegistryTyped
  <2>3. CASE id # 0 /\ ~(id \in AutoBase..AutoTop /\ id + 1 > next_transponder)
    BY <1>1, <2>3 DEF L!Store, RegistryTyped
  <2> QED BY <2>1, <2>2, <2>3
<1> QED BY <1>3, <1>4 DEF RegistryTyped

\* A detection is chosen only if it is the only one.
LEMMA ChosenOne ==
    ASSUME NEW id, NEW S, L!ChooseId(id, S) # id
    PROVE  id = 0 /\ L!ChooseId(id, S) \in S
<1> DEFINE one == id = 0 /\ Cardinality(S) = 1
           it == CHOOSE i \in S : TRUE
<1>0. L!ChooseId(id, S) = IF one THEN it ELSE id
  BY SameCardinality DEF L!ChooseId
<1> HIDE DEF it
<1>1. id = 0 /\ Cardinality(S) = 1
  BY <1>0
<1>2. S # {}
  BY <1>1, FS_EmptySet
<1>3. it \in S
  BY <1>2 DEF it
<1> QED BY <1>0, <1>1, <1>3

LEMMA EvaluateTyped ==
    ASSUME L!IdAssumption, L!TypeOK, L!Evaluate
    PROVE  L!TypeOK'
<1>1. Typed
  BY TypedParts
<1>2. main.now_ts \in Nat
  BY LearningTypes
<1>3. /\ main' = [pc |-> IF result' = "DONE" THEN "preferred" ELSE "idle",
                      now_ts |-> 0, polled |-> main.now_ts, id |-> 0,
                      payloads |-> {}, from |-> 0, until |-> 0, rc3 |-> {}]
      /\ UNCHANGED <<now, rx, L!registryVars, L!detectionVars>>
      /\ session' = IF result' = "START"
                    THEN [start |-> L!Trainer!LastEntries(buffer')[1].timestamp,
                          crowd |-> L!CrowdAtStart(buffer'),
                          known |-> L!KnownAtStart(buffer')]
                    ELSE IF result' = "INTERRUPTED" THEN L!NoSession ELSE session
  BY EvaluateReporter
<1>4. ReporterTyped'
  BY <1>2, <1>3 DEF ReporterTyped, Pcs, L!DoneSteps
<1>5. ASSUME Len(buffer) >= StartCount, buffer' = Session(buffer), result' = "START",
             since' = 0, state' = "TRAINING"
      PROVE  TrainerTyped' /\ SessionTyped'
  <2>1. /\ buffer' \in Seq(L!Trainer!Entry) /\ Len(buffer') = StartCount
        /\ StartCount \in Nat \ {0} /\ StartCount =< MaxBuffer
        /\ L!Trainer!LastEntries(buffer') = buffer'
    BY <1>5, StartStep
  <2>2. TrainerTyped'
    BY <1>5, <2>1 DEF TrainerTyped, L!Trainer!Results
  <2>3. buffer'[1] \in L!Trainer!Entry
    BY <2>1
  <2>4. buffer'[1].timestamp \in Nat
    BY <2>3 DEF L!Trainer!Entry
  <2>5. L!CrowdAtStart(buffer') \in SUBSET Cars /\ L!KnownAtStart(buffer') \in [Cars -> SUBSET L!AllIds]
    BY <2>1, AtStartTyped
  <2>6. SessionTyped'
    BY <1>3, <1>5, <2>1, <2>4, <2>5 DEF SessionTyped
  <2> QED BY <2>2, <2>6
<1>6. ASSUME UNCHANGED <<buffer, since>>, result' \in {"NO_ACTION", "INTERRUPTED", "DONE", "RESET"},
             state' \in {"IDLE", "FINALIZING"} \/ state' = state
      PROVE  TrainerTyped' /\ SessionTyped'
  <2>1. TrainerTyped'
    BY <1>1, <1>6 DEF Typed, TrainerTyped, L!Trainer!Results
  <2>2. SessionTyped'
    BY <1>1, <1>3, <1>6 DEF Typed, SessionTyped, L!NoSession
  <2> QED BY <2>1, <2>2
<1>7. TrainerTyped' /\ SessionTyped'
  BY <1>5, <1>6, EvaluateStep
<1> QED
  BY <1>1, <1>3, <1>4, <1>7, TypedNext DEF Typed, RxTyped, L!registryVars, RegistryTyped,
       L!detectionVars, DetectionTyped

LEMMA LearnerTyped ==
    ASSUME L!IdAssumption, L!TypeOK, L!SinceStartInv, L!Learner
    PROVE  L!TypeOK'
<1>1. Typed
  BY TypedParts
<1> USE <1>1 DEF Typed
<1>2. ASSUME ReporterTyped', UNCHANGED <<now, L!trainerVars, rx, L!registryVars, L!detectionVars, session>>,
             result' \in L!Trainer!Results
      PROVE  L!TypeOK'
  BY <1>2, TypedNext DEF L!trainerVars, TrainerTyped, RxTyped, L!registryVars, RegistryTyped,
       L!detectionVars, DetectionTyped, SessionTyped
<1>3. CASE L!Report
  <2>1. ReporterTyped' /\ result' \in L!Trainer!Results
    BY <1>3 DEF L!Report, L!Reporting, ReporterTyped, Pcs, L!Trainer!Results
  <2> QED BY <1>2, <1>3, <2>1 DEF L!Report
<1>4. CASE L!IdentifyPassings
  <2>1. ReporterTyped'
    BY <1>4 DEF L!IdentifyPassings, ReporterTyped, Pcs
  <2>2. L!DropOld(main.now_ts) \in [L!AllIds -> {<<>>} \cup (Nat \X Nat)]
    BY DEF L!DropOld, DetectionTyped
  <2>3. DetectionTyped'
    BY <1>4, <2>2 DEF L!IdentifyPassings, DetectionTyped
  <2> QED
    BY <1>4, <2>1, <2>3, TypedNext DEF L!IdentifyPassings, L!trainerVars, TrainerTyped, RxTyped,
         L!registryVars, RegistryTyped, SessionTyped
<1>5. CASE L!DonePreferred
  <2>1. L!Preferred(buffer) \in L!AllIds \cup {0}
    BY PreferredTyped DEF TrainerTyped
  <2>2. ReporterTyped'
    BY <1>5, <2>1 DEF L!DonePreferred, ReporterTyped, Pcs, L!DoneSteps
  <2> QED BY <1>2, <1>5, <2>2 DEF L!DonePreferred, TrainerTyped
<1>6. CASE L!DonePayloads
  <2>1. L!Payloads(buffer) \in SUBSET Cars
    BY DEF L!Payloads
  <2>2. ReporterTyped'
    BY <1>6, <2>1 DEF L!DonePayloads, ReporterTyped, Pcs, L!DoneSteps
  <2> QED BY <1>2, <1>6, <2>2 DEF L!DonePayloads, TrainerTyped
<1>7. CASE L!DoneTimerange /\ buffer # <<>>
  <2>1. 1 \in 1..Len(buffer) /\ Len(buffer) \in 1..Len(buffer)
    BY <1>7, LearningTypes
  <2>2. buffer[1].timestamp \in Nat /\ buffer[Len(buffer)].timestamp \in Nat
    BY <2>1, LearningTypes
  <2>3. ReporterTyped'
    BY <1>7, <2>2 DEF L!DoneTimerange, ReporterTyped, Pcs, L!DoneSteps
  <2> QED BY <1>2, <1>7, <2>3 DEF L!DoneTimerange, TrainerTyped
<1>8. CASE L!DoneBetween
  <2> DEFINE id == L!ChooseId(main.id, L!Between(main.from, main.until))
  <2>1. L!Between(main.from, main.until) \subseteq L!AllIds
    BY DEF L!Between
  <2>2. id \in L!AllIds \cup {0}
    BY <2>1, ChosenOne DEF ReporterTyped
  <2> DEFINE rc3 == {c \in Cars : L!RC3Pending(c)}
  <2>3. main' = [main EXCEPT !.pc = "store", !.id = id, !.rc3 = rc3]
    BY <1>8 DEF L!DoneBetween
  <2>5. rc3 \in SUBSET Cars
    OBVIOUS
  <2> HIDE DEF id, rc3
  <2>4. ReporterTyped'
    BY <2>2, <2>3, <2>5 DEF ReporterTyped, Pcs, L!DoneSteps
  <2> QED BY <1>2, <1>8, <2>4 DEF L!DoneBetween, TrainerTyped
<1>9. CASE L!DoneStore
  <2>1. main.id \in L!AllIds \cup {0} /\ main.payloads \in SUBSET Cars
    BY DEF ReporterTyped
  <2>2. RegistryTyped'
    BY <1>9, <2>1, StoreTyped DEF L!DoneStore
  <2>3. ReporterTyped' /\ SessionTyped'
    BY <1>9 DEF L!DoneStore, L!Reporting, ReporterTyped, Pcs, L!NoSession, SessionTyped
  <2> QED
    BY <1>9, <2>2, <2>3, TypedNext DEF L!DoneStore, L!trainerVars, TrainerTyped, RxTyped,
         L!detectionVars, DetectionTyped
<1>10. CASE L!Evaluate
  BY <1>10, EvaluateTyped
<1>11. L!DoneTimerange => buffer # <<>>
  BY DEF L!DoneTimerange, L!SinceStartInv, L!InSession, L!DoneSteps
<1> QED BY <1>3, <1>4, <1>5, <1>6, <1>7, <1>8, <1>9, <1>10, <1>11 DEF L!Learner


----------------------------------------------------------------------------
(* Stamps: frames are handled in their order.                              *)

StampsInv == L!FrameInv /\ L!EntryInv /\ L!SinceStartInv

LEMMA StampsInit == ASSUME L!IdAssumption, L!Init PROVE StampsInv
<1>1. now \in Nat /\ \A i \in L!AllIds : heard[i] =< now
  BY TimeAssumption DEF L!Init, L!Never
<1> QED
  BY <1>1 DEF L!Init, StampsInv, L!FrameInv, L!EntryInv, L!SinceStartInv, L!InSession, L!DoneSteps

LEMMA StampsTyped ==
    ASSUME L!IdAssumption, L!TypeOK
    PROVE  /\ \A i \in L!AllIds :
                /\ heard[i] \in Int
                /\ pending[i] # <<>> => pending[i] \in Nat \X Nat
           /\ \A f \in rx : /\ f.timestamp \in Nat /\ f.car \in Cars
                            /\ f.id \in L!AllIds \cup {0} /\ f.detected \in BOOLEAN
           /\ session.start \in Nat /\ now \in Nat /\ RxLag \in Nat /\ MaxRxTime \in Nat
<1>1. \A i \in L!AllIds : heard[i] \in Int
  BY DEF L!TypeOK, L!Never
<1>2. \A i \in L!AllIds : pending[i] # <<>> => pending[i] \in Nat \X Nat
  BY DEF L!TypeOK
<1>3. \A f \in rx : /\ f.timestamp \in Nat /\ f.car \in Cars
                    /\ f.id \in L!AllIds \cup {0} /\ f.detected \in BOOLEAN
  BY DEF L!TypeOK
<1> QED BY <1>1, <1>2, <1>3, TimeAssumption DEF L!TypeOK

\* A frame that is heard under an identifier with a stamp that is not older than any other.
LEMMA DetectHeard ==
    ASSUME L!IdAssumption, L!TypeOK, L!FrameInv, NEW i \in L!AllIds, NEW c, NEW t \in Nat, L!Detect(i, c, t),
           \A k \in L!AllIds : heard[k] =< t
    PROVE  /\ heard'[i] = t
           /\ \A k \in L!AllIds : heard'[k] \in Int
           /\ \A k \in L!AllIds : heard'[k] =< t
           /\ \A k \in L!AllIds : heard'[k] >= heard[k]
           /\ \A k \in L!AllIds : pending'[k] # <<>> => pending'[k][2] =< heard'[k]
<1>1. heard' = [heard EXCEPT ![i] = t] /\ heard \in [L!AllIds -> Nat \cup {L!Never}]
  BY DEF L!Detect, L!TypeOK
<1>2. heard'[i] = t /\ \A k \in L!AllIds \ {i} : heard'[k] = heard[k]
  BY <1>1
<1>3. /\ pending' = [pending EXCEPT ![i] = L!Extended(@, t)]
      /\ pending \in [L!AllIds -> {<<>>} \cup (Nat \X Nat)]
  BY DEF L!Detect, L!TypeOK
<1>4. pending'[i] = L!Extended(pending[i], t) /\ \A k \in L!AllIds \ {i} : pending'[k] = pending[k]
  BY <1>3
<1>5. L!Extended(pending[i], t)[2] = t
  BY DEF L!Extended
<1>6. \A k \in L!AllIds : heard[k] \in Int
  BY StampsTyped
<1> QED BY <1>2, <1>4, <1>5, <1>6 DEF L!FrameInv

\* Stamps that are heard do not step back.
LEMMA HeardGrows ==
    ASSUME L!IdAssumption, L!TypeOK, L!EntryInv,
           \A k \in L!AllIds : heard'[k] \in Int, \A k \in L!AllIds : heard'[k] >= heard[k],
           NEW j \in 1..Len(buffer), buffer[j].data.id # 0
    PROVE  heard'[buffer[j].data.id] >= buffer[j].timestamp
<1> DEFINE i == buffer[j].data.id
<1>1. i \in L!AllIds /\ buffer[j].timestamp \in Nat
  BY LearningTypes
<1>2. heard[i] >= buffer[j].timestamp
  BY DEF L!EntryInv
<1> HIDE DEF i
<1>3. heard'[i] >= heard[i] /\ heard'[i] \in Int /\ heard[i] \in Int
  BY <1>1, StampsTyped
<1>4. heard'[i] >= buffer[j].timestamp
  BY <1>1, <1>2, <1>3
<1> QED BY <1>4 DEF i

\* What the session has of the buffer and of what is heard lasts while the one
\* stays as it is and the other does not step back.
LEMMA SinceStartKept ==
    ASSUME L!IdAssumption, L!TypeOK, L!SinceStartInv, UNCHANGED <<state, buffer, main>>,
           session'.start = session.start,
           \A k \in L!AllIds : heard'[k] \in Int, \A k \in L!AllIds : heard'[k] >= heard[k]
    PROVE  L!SinceStartInv'
<1>1. ASSUME main.id # 0, heard[main.id] >= session.start
      PROVE  heard'[main.id] >= session.start
  <2>1. main.id \in L!AllIds
    BY <1>1, LearningTypes
  <2>2. heard[main.id] \in Int /\ session.start \in Nat
    BY <2>1, StampsTyped
  <2> QED BY <1>1, <2>1, <2>2
<1>2. L!InSession' <=> L!InSession
  BY DEF L!InSession
<1> QED BY <1>1, <1>2 DEF L!SinceStartInv

\* What the other invariants need to know of the stamps of a step.
LEMMA StampsReceiver ==
    ASSUME L!IdAssumption, L!TypeOK, StampsInv, L!Receiver
    PROVE  StampsInv' /\ \A i \in L!AllIds : heard'[i] >= heard[i]
<1> USE StampsTyped DEF StampsInv
<1>1. ASSUME NEW c \in Cars, L!RxLookup(c)
      PROVE  StampsInv' /\ \A i \in L!AllIds : heard'[i] >= heard[i]
  <2>1. /\ now =< MaxRxTime /\ rx = {}
        /\ rx' = {[timestamp |-> now, car |-> c, id |-> registry[c], detected |-> registry[c] = 0]}
        /\ UNCHANGED <<now, state, buffer, since, main, pending, heard>>
        /\ session'.start = session.start
    BY <1>1 DEF L!RxLookup, L!trainerVars, L!detectionVars, L!OnLoop, L!TypeOK
  <2> DEFINE f == [timestamp |-> now, car |-> c, id |-> registry[c], detected |-> registry[c] = 0]
  <2>2. f.timestamp = now /\ f.id = registry[c] /\ (f.detected <=> registry[c] = 0) /\ rx' = {f}
    BY <2>1
  <2> HIDE DEF f
  <2>3. L!FrameInv'
    BY <2>1, <2>2 DEF L!FrameInv
  <2>4. L!EntryInv'
    BY <2>1, <2>2 DEF L!EntryInv
  <2>5. L!SinceStartInv'
    BY <2>1 DEF L!SinceStartInv, L!InSession
  <2> QED BY <2>1, <2>3, <2>4, <2>5
<1>2. ASSUME NEW c \in Cars, L!RxRC3(c)
      PROVE  StampsInv' /\ \A i \in L!AllIds : heard'[i] >= heard[i]
  <2>1. /\ rx = {} /\ RealId[c] # 0 /\ L!Detect(RealId[c], c, now)
        /\ UNCHANGED <<now, state, buffer, since, main, rx>>
        /\ session'.start = session.start
    BY <1>2 DEF L!RxRC3, L!trainerVars, L!OnLoop, L!TypeOK
  <2>2. RealId[c] \in L!AllIds
    BY <2>1, Identifiers
  <2>3. \A i \in L!AllIds : heard[i] =< now
    BY DEF L!FrameInv
  <2>4. /\ \A k \in L!AllIds : heard'[k] \in Int
        /\ \A k \in L!AllIds : heard'[k] =< now
        /\ \A k \in L!AllIds : heard'[k] >= heard[k]
        /\ \A k \in L!AllIds : pending'[k] # <<>> => pending'[k][2] =< heard'[k]
    BY <2>1, <2>2, <2>3, DetectHeard
  <2>5. L!FrameInv'
    BY <2>1, <2>4 DEF L!FrameInv
  <2>6. L!EntryInv'
    BY <2>1, <2>4, HeardGrows DEF L!EntryInv
  <2>7. L!SinceStartInv'
    BY <2>1, <2>4, SinceStartKept
  <2> QED BY <2>4, <2>5, <2>6, <2>7
<1>3. ASSUME L!RxDetection
      PROVE  StampsInv' /\ \A i \in L!AllIds : heard'[i] >= heard[i]
  <2>1. PICK f \in rx : /\ ~f.detected /\ L!Detect(f.id, f.car, f.timestamp)
                        /\ rx' = {[f EXCEPT !.detected = TRUE]}
    BY <1>3 DEF L!RxDetection
  <2>2. UNCHANGED <<now, state, buffer, since, main, session>>
    BY <1>3 DEF L!RxDetection, L!trainerVars
  <2> DEFINE g == [f EXCEPT !.detected = TRUE]
  <2>3. g.timestamp = f.timestamp /\ g.id = f.id /\ g.detected /\ rx' = {g}
    BY <2>1 DEF L!TypeOK
  <2> HIDE DEF g
  <2>4. f.id \in L!AllIds /\ \A i \in L!AllIds : heard[i] =< f.timestamp
    BY <2>1 DEF L!FrameInv
  <2>5. /\ heard'[f.id] = f.timestamp
        /\ \A k \in L!AllIds : heard'[k] \in Int
        /\ \A k \in L!AllIds : heard'[k] =< f.timestamp
        /\ \A k \in L!AllIds : heard'[k] >= heard[k]
        /\ \A k \in L!AllIds : pending'[k] # <<>> => pending'[k][2] =< heard'[k]
    BY <2>1, <2>4, DetectHeard
  <2>6. L!FrameInv'
    BY <2>2, <2>3, <2>5 DEF L!FrameInv
  <2>7. L!EntryInv'
    BY <2>2, <2>3, <2>5, HeardGrows DEF L!EntryInv
  <2>8. L!SinceStartInv'
    BY <2>2, <2>5, SinceStartKept
  <2> QED BY <2>5, <2>6, <2>7, <2>8
<1>4. ASSUME L!RxTrainer
      PROVE  StampsInv' /\ \A i \in L!AllIds : heard'[i] >= heard[i]
  <2>1. PICK f \in rx, s \in {0, 1} :
          /\ f.detected /\ f.timestamp \in Nat /\ f.id \in L!AllIds \cup {0}
          /\ Len(buffer') = Len(buffer) + 1 - s /\ Len(buffer') >= 1
          /\ buffer'[Len(buffer')].timestamp = f.timestamp
          /\ buffer'[Len(buffer')].data.id = f.id
          /\ \A i \in 1..(Len(buffer') - 1) :
               i + s \in 1..Len(buffer) /\ buffer'[i] = buffer[i + s]
          /\ rx' = {} /\ state' = state
          /\ UNCHANGED <<now, main, L!registryVars, L!detectionVars, session>>
    BY <1>4, TrainStep
  <2>2. UNCHANGED <<pending, heard>>
    BY <2>1 DEF L!detectionVars
  <2>3. L!FrameInv'
    BY <2>1, <2>2 DEF L!FrameInv
  <2> DEFINE n == Len(buffer')
  <2>4. n \in Nat /\ n >= 1
    BY <2>1, LearningTypes
  <2> HIDE DEF n
  <2>5. ASSUME NEW j \in 1..n
        PROVE  /\ buffer'[j].timestamp \in Nat /\ buffer'[j].timestamp =< f.timestamp
               /\ j # n => j + s \in 1..Len(buffer) /\ buffer'[j] = buffer[j + s]
               /\ buffer'[j].data.id # 0 => heard[buffer'[j].data.id] >= buffer'[j].timestamp
    <3>1. CASE j = n
      <4>1. /\ buffer'[j].timestamp = f.timestamp
            /\ buffer'[j].data.id = f.id
        BY <2>1, <3>1 DEF n
      <4>2. f.id # 0 => heard[f.id] >= f.timestamp
        BY <2>1 DEF L!FrameInv
      <4> QED BY <2>1, <3>1, <4>1, <4>2
    <3>2. CASE j # n
      <4>1. j \in 1..(n - 1)
        BY <2>4, <3>2
      <4>2. j + s \in 1..Len(buffer) /\ buffer'[j] = buffer[j + s]
        BY <2>1, <4>1 DEF n
      <4> QED BY <2>1, <3>2, <4>2, LearningTypes DEF L!EntryInv
    <3> QED BY <3>1, <3>2
  <2>6. L!EntryInv'
    <3> SUFFICES ASSUME NEW j \in 1..n
                 PROVE  /\ buffer'[j].timestamp =< now
                        /\ \A k \in 1..j : buffer'[k].timestamp =< buffer'[j].timestamp
                        /\ buffer'[j].data.id # 0 =>
                             heard[buffer'[j].data.id] >= buffer'[j].timestamp
      BY <2>1, <2>2 DEF L!EntryInv, n
    <3>1. f.timestamp =< now
      BY DEF L!FrameInv
    <3>2. buffer'[j].timestamp =< now
      BY <2>1, <2>5, <3>1
    <3>3. ASSUME NEW k \in 1..j PROVE buffer'[k].timestamp =< buffer'[j].timestamp
      <4>1. k \in 1..n
        BY <2>4
      <4>2. CASE j = n
        BY <2>1, <2>5, <4>1, <4>2 DEF n
      <4>3. CASE j # n
        <5>1. k # n /\ k + s \in 1..(j + s)
          BY <2>4, <4>3
        <5>2. buffer'[k] = buffer[k + s] /\ buffer'[j] = buffer[j + s] /\ j + s \in 1..Len(buffer)
          BY <2>5, <4>1, <4>3, <5>1
        <5> QED BY <5>1, <5>2 DEF L!EntryInv
      <4> QED BY <4>2, <4>3
    <3> QED BY <2>5, <3>2, <3>3
  <2>7. L!SinceStartInv'
    <3>1. ASSUME L!InSession, NEW j \in 1..n PROVE session.start =< buffer'[j].timestamp
      <4>1. 1 \in 1..Len(buffer)
        BY <3>1, LearningTypes DEF L!SinceStartInv
      <4>2. session.start =< buffer[1].timestamp /\ buffer[1].timestamp =< f.timestamp
        BY <3>1, <4>1 DEF L!SinceStartInv, L!EntryInv
      <4>3. CASE j = n
        <5>1. buffer'[j].timestamp = f.timestamp /\ buffer[1].timestamp \in Nat
          BY <2>1, <4>1, <4>3, LearningTypes DEF n
        <5>2. f.timestamp \in Nat /\ session.start \in Nat
          BY <2>1, StampsTyped
        <5> QED BY <4>2, <5>1, <5>2
      <4>4. CASE j # n
        BY <2>5, <3>1, <4>4 DEF L!SinceStartInv
      <4> QED BY <4>3, <4>4
    <3>2. buffer' # <<>>
      BY <2>1
    <3>3. L!InSession' <=> L!InSession
      BY <2>1 DEF L!InSession
    <3> QED BY <2>1, <2>2, <3>1, <3>2, <3>3 DEF L!SinceStartInv, n
  <2> QED BY <2>2, <2>3, <2>6, <2>7
<1> QED BY <1>1, <1>2, <1>3, <1>4 DEF L!Receiver


LEMMA StampsEvaluate ==
    ASSUME L!IdAssumption, L!TypeOK, StampsInv, L!Evaluate
    PROVE  StampsInv'
<1> USE StampsTyped DEF StampsInv
<1>1. /\ UNCHANGED <<now, rx, pending, heard>>
      /\ main'.pc = IF result' = "DONE" THEN "preferred" ELSE "idle"
      /\ main'.id = 0
      /\ session' = IF result' = "START"
                    THEN [start |-> L!Trainer!LastEntries(buffer')[1].timestamp,
                          crowd |-> L!CrowdAtStart(buffer'),
                          known |-> L!KnownAtStart(buffer')]
                    ELSE IF result' = "INTERRUPTED" THEN L!NoSession ELSE session
  BY EvaluateReporter DEF L!registryVars, L!detectionVars
<1>2. L!FrameInv'
  BY <1>1 DEF L!FrameInv
<1>3. main.pc = "evaluate"
  BY EvaluateStep
<1>4. CASE /\ state = "IDLE" /\ state' = "TRAINING" /\ result' = "START"
           /\ Len(buffer) >= StartCount /\ buffer' = Session(buffer) /\ since' = 0
  <2>1. PICK s \in Nat :
          \A i \in 1..Len(buffer') : i + s \in 1..Len(buffer) /\ buffer'[i] = buffer[i + s]
    BY <1>4, StartStep
  <2>2. /\ Len(buffer') = StartCount /\ StartCount \in Nat \ {0}
        /\ L!Trainer!LastEntries(buffer') = buffer' /\ buffer' \in Seq(L!Trainer!Entry)
    BY <1>4, StartStep
  <2>3. ASSUME NEW j \in 1..Len(buffer'), NEW k \in 1..j
        PROVE  buffer'[k].timestamp =< buffer'[j].timestamp
    <3>1. k + s \in 1..(j + s) /\ k \in 1..Len(buffer')
      BY <2>2
    <3>2. buffer'[k] = buffer[k + s] /\ buffer'[j] = buffer[j + s] /\ j + s \in 1..Len(buffer)
      BY <2>1, <3>1
    <3> QED BY <3>1, <3>2 DEF L!EntryInv
  <2>4. L!EntryInv'
    <3>1. ASSUME NEW j \in 1..Len(buffer')
          PROVE  /\ buffer'[j].timestamp =< now
                 /\ \A f \in rx : buffer'[j].timestamp =< f.timestamp
                 /\ buffer'[j].data.id # 0 => heard[buffer'[j].data.id] >= buffer'[j].timestamp
      <4>1. j + s \in 1..Len(buffer) /\ buffer'[j] = buffer[j + s]
        BY <2>1
      <4> QED BY <4>1 DEF L!EntryInv
    <3> QED BY <1>1, <2>3, <3>1 DEF L!EntryInv
  <2>5. session'.start = buffer'[1].timestamp
    BY <1>1, <1>4, <2>2
  <2>6. \A j \in 1..Len(buffer') : 1 \in 1..j
    BY <2>2
  <2>7. \A j \in 1..Len(buffer') : session'.start =< buffer'[j].timestamp
    BY <2>3, <2>5, <2>6
  <2>8. buffer' # <<>>
    BY <2>2
  <2> QED BY <1>1, <1>2, <1>4, <2>4, <2>7, <2>8 DEF L!SinceStartInv, L!DoneSteps
<1>5. CASE UNCHANGED <<buffer, since>> /\ result' # "START"
  <2>1. L!EntryInv'
    BY <1>1, <1>5 DEF L!EntryInv
  <2>2. \/ state = "TRAINING" /\ state' = "IDLE" /\ result' = "INTERRUPTED"
        \/ state = "TRAINING" /\ state' = "FINALIZING" /\ result' = "DONE"
        \/ state = "FINALIZING" /\ state' = "IDLE" /\ result' = "RESET"
        \/ state' = state /\ result' = "NO_ACTION"
    BY <1>5, EvaluateStep
  <2>3. L!SinceStartInv'
    BY <1>1, <1>3, <1>5, <2>2 DEF L!SinceStartInv, L!InSession, L!DoneSteps
  <2> QED BY <1>2, <2>1, <2>3
<1>6. \/ result' = "START" /\ state = "IDLE" /\ state' = "TRAINING"
           /\ Len(buffer) >= StartCount /\ buffer' = Session(buffer) /\ since' = 0
      \/ UNCHANGED <<buffer, since>> /\ result' # "START"
  BY EvaluateStep
<1> QED BY <1>4, <1>5, <1>6

\* What the DONE branch takes from the buffer and from the detector.
LEMMA StampsLearner ==
    ASSUME L!IdAssumption, L!TypeOK, StampsInv, L!Learner
    PROVE  StampsInv' /\ heard' = heard
<1> USE DEF StampsInv
<1>1. CASE L!Report \/ L!DonePreferred \/ L!DonePayloads \/ L!DoneTimerange \/ L!DoneBetween
  <2>1. UNCHANGED <<now, state, buffer, since, rx, pending, heard, session>>
    BY <1>1 DEF L!Report, L!DonePreferred, L!DonePayloads, L!DoneTimerange, L!DoneBetween, L!trainerVars,
         L!detectionVars
  <2>2. L!FrameInv' /\ L!EntryInv'
    BY <2>1 DEF L!FrameInv, L!EntryInv
  <2>3. main \in [pc : {"idle", "passings", "evaluate"} \cup L!DoneSteps,
                      now_ts : Nat, polled : Nat, id : L!AllIds \cup {0},
                      payloads : SUBSET Cars, from : Nat, until : Nat, rc3 : SUBSET Cars]
    BY DEF L!TypeOK
  <2>4. CASE L!Report
    <3>1. main.pc = "idle" /\ main'.pc = "passings"
      BY <2>4 DEF L!Report, L!Reporting
    <3> QED BY <2>1, <2>2, <3>1 DEF L!SinceStartInv, L!InSession, L!DoneSteps
  <2>5. CASE L!DonePreferred
    <3>1. /\ main.pc = "preferred" /\ main'.pc = "payloads"
          /\ main'.id = L!Preferred(buffer) /\ main'.rc3 = main.rc3
      BY <2>3, <2>5 DEF L!DonePreferred
    <3>2. L!InSession /\ state = "FINALIZING"
      BY <3>1 DEF L!InSession, L!DoneSteps, L!SinceStartInv
    <3>3. ASSUME main'.id # 0 PROVE heard[main'.id] >= session.start
      <4>1. PICK j \in 1..Len(buffer) :
              buffer[j].data.id # 0 /\ L!Preferred(buffer) = buffer[j].data.id
        BY <3>1, <3>3, PreferredTyped, LearningTypes
      <4>2. /\ heard[buffer[j].data.id] >= buffer[j].timestamp
            /\ session.start =< buffer[j].timestamp
        BY <3>2, <4>1 DEF L!EntryInv, L!SinceStartInv
      <4>3. /\ buffer[j].timestamp \in Nat /\ session.start \in Nat
            /\ heard[buffer[j].data.id] \in Int
        BY <4>1, LearningTypes, StampsTyped
      <4>4. heard[buffer[j].data.id] >= session.start
        BY <4>2, <4>3
      <4> QED BY <3>1, <4>1, <4>4
    <3> QED BY <2>1, <2>2, <3>1, <3>2, <3>3 DEF L!SinceStartInv, L!InSession, L!DoneSteps
  <2>6. CASE L!DonePayloads
    <3>1. main.pc = "payloads" /\ main'.pc = "timerange" /\ main'.id = main.id
      BY <2>3, <2>6 DEF L!DonePayloads
    <3> QED BY <2>1, <2>2, <3>1 DEF L!SinceStartInv, L!InSession, L!DoneSteps
  <2>7. CASE L!DoneTimerange
    <3>1. /\ main.pc = "timerange" /\ main'.pc = "between" /\ main'.id = main.id
          /\ main'.from = buffer[1].timestamp
      BY <2>3, <2>7 DEF L!DoneTimerange
    <3>2. buffer # <<>> /\ \A j \in 1..Len(buffer) : session.start =< buffer[j].timestamp
      BY <3>1 DEF L!SinceStartInv, L!InSession, L!DoneSteps
    <3>3. 1 \in 1..Len(buffer)
      BY <3>2, LearningTypes
    <3> QED BY <2>1, <2>2, <3>1, <3>2, <3>3 DEF L!SinceStartInv, L!InSession, L!DoneSteps
  <2>8. CASE L!DoneBetween
    <3> DEFINE found == L!Between(main.from, main.until)
               id == L!ChooseId(main.id, found)
               rc3 == {c \in Cars : L!RC3Pending(c)}
    <3>1. main' = [main EXCEPT !.pc = "store", !.id = id, !.rc3 = rc3]
      BY <2>8 DEF L!DoneBetween
    <3> HIDE DEF id, rc3
    <3>2. main.pc = "between" /\ main'.pc = "store" /\ main'.id = id
      BY <2>3, <2>8, <3>1 DEF L!DoneBetween
    <3>3. session.start =< main.from /\ main.from \in Nat /\ session.start \in Nat
      BY <3>2, LearningTypes, StampsTyped DEF L!SinceStartInv
    <3>4. ASSUME id # 0 PROVE heard[id] >= session.start
      <4>1. CASE id = main.id
        BY <3>2, <3>4, <4>1 DEF L!SinceStartInv, L!DoneSteps
      <4>2. CASE id # main.id
        <5>1. id \in found
          BY <4>2, ChosenOne DEF id
        <5>2. id \in L!AllIds /\ pending[id] # <<>> /\ pending[id][2] >= main.from
          BY <5>1 DEF L!Between
        <5>3. /\ pending[id][2] =< heard[id] /\ pending[id][2] \in Nat /\ heard[id] \in Int
          BY <5>2, StampsTyped DEF L!FrameInv
        <5> QED BY <3>3, <5>2, <5>3
      <4> QED BY <4>1, <4>2
    <3> QED BY <2>1, <2>2, <3>2, <3>4 DEF L!SinceStartInv, L!InSession, L!DoneSteps
  <2> QED BY <1>1, <2>1, <2>4, <2>5, <2>6, <2>7, <2>8
<1>2. CASE L!IdentifyPassings
  <2>1. /\ UNCHANGED <<now, state, buffer, since, rx, heard, session>>
        /\ main.pc = "passings" /\ main'.pc = "evaluate"
        /\ pending' = L!DropOld(main.now_ts)
    BY <1>2 DEF L!IdentifyPassings, L!trainerVars, L!TypeOK
  <2>2. \A i \in L!AllIds : pending'[i] # <<>> => pending'[i] = pending[i]
    BY <2>1 DEF L!DropOld
  <2>3. L!FrameInv' /\ L!EntryInv'
    BY <2>1, <2>2 DEF L!FrameInv, L!EntryInv
  <2> QED BY <2>1, <2>3 DEF L!SinceStartInv, L!InSession, L!DoneSteps
<1>3. CASE L!Evaluate
  BY <1>3, StampsEvaluate, EvaluateReporter DEF L!detectionVars
<1>4. CASE L!DoneStore
  <2>1. /\ UNCHANGED <<now, state, buffer, since, rx, pending, heard>>
        /\ main.pc = "store" /\ main'.pc = "idle"
    BY <1>4 DEF L!DoneStore, L!Reporting, L!trainerVars, L!detectionVars
  <2>2. state = "FINALIZING"
    BY <2>1 DEF L!SinceStartInv, L!DoneSteps
  <2>3. L!FrameInv' /\ L!EntryInv'
    BY <2>1 DEF L!FrameInv, L!EntryInv
  <2> QED BY <2>1, <2>2, <2>3 DEF L!SinceStartInv, L!InSession, L!DoneSteps
<1> QED BY <1>1, <1>2, <1>3, <1>4 DEF L!Learner


LEMMA StampsTick ==
    ASSUME L!IdAssumption, L!TypeOK, StampsInv, L!Tick
    PROVE  L!TypeOK' /\ StampsInv' /\ heard' = heard
<1>1. /\ now' = now + 1 /\ result' = "NO_ACTION" /\ \A f \in rx : now < f.timestamp + RxLag
      /\ UNCHANGED <<state, buffer, since, main, rx, registry, next_transponder,
                     pending, heard, sources, session>>
  BY DEF L!Tick, L!trainerVars, L!registryVars, L!detectionVars
<1>2. Typed
  BY TypedParts
<1>3. L!TypeOK'
  BY <1>1, <1>2, TypedNext DEF Typed, TrainerTyped, ReporterTyped, RxTyped, RegistryTyped,
       DetectionTyped, SessionTyped, L!Trainer!Results
<1>4. L!FrameInv'
  BY <1>1, StampsTyped DEF StampsInv, L!FrameInv
<1>5. L!EntryInv'
  BY <1>1, LearningTypes DEF StampsInv, L!EntryInv
<1>6. L!SinceStartInv'
  BY <1>1 DEF StampsInv, L!SinceStartInv, L!InSession
<1> QED BY <1>1, <1>3, <1>4, <1>5, <1>6 DEF StampsInv

LEMMA StampsUnchanged ==
    ASSUME L!TypeOK, StampsInv, UNCHANGED L!vars
    PROVE  L!TypeOK' /\ StampsInv' /\ heard' = heard
<1>1. UNCHANGED <<now, state, buffer, since, result, main, rx, registry, next_transponder,
                  pending, heard, sources, session>>
  BY DEF L!vars, L!trainerVars, L!registryVars, L!detectionVars
<1>2. Typed
  BY TypedParts
<1>3. L!TypeOK'
  BY <1>1, <1>2, TypedNext DEF Typed, TrainerTyped, ReporterTyped, RxTyped, RegistryTyped,
       DetectionTyped, SessionTyped
<1> QED
  BY <1>1, <1>3 DEF StampsInv, L!FrameInv, L!EntryInv, L!SinceStartInv, L!InSession

LEMMA StampsNext ==
    ASSUME L!IdAssumption, L!TypeOK, StampsInv, [L!Next]_(L!vars)
    PROVE  L!TypeOK' /\ StampsInv'
<1>1. CASE L!Tick
  BY <1>1, StampsTick
<1>2. CASE L!Receiver
  BY <1>2, ReceiverTyped, StampsReceiver DEF StampsInv
<1>3. CASE L!Learner
  BY <1>3, LearnerTyped, StampsLearner DEF StampsInv
<1>4. CASE UNCHANGED L!vars
  BY <1>4, StampsUnchanged
<1> QED BY <1>1, <1>2, <1>3, <1>4 DEF L!Next

LEMMA StampsAlways == ASSUME L!IdAssumption PROVE L!Spec => [](L!TypeOK /\ StampsInv)
<1>1. L!Init => L!TypeOK /\ StampsInv
  BY LearningTypeInit, StampsInit
<1>2. L!TypeOK /\ StampsInv /\ [L!Next]_(L!vars) => (L!TypeOK /\ StampsInv)'
  BY StampsNext
<1> QED BY <1>1, <1>2, PTL DEF L!Spec

\* Every variable of the trainer, the registry and the detections keeps its type
\* through the five calls of the DONE branch.
THEOREM LearningTypeCorrect == ASSUME L!IdAssumption PROVE L!Spec => []L!TypeOK
BY StampsAlways, PTL

\* The identifier that a training stores is a new one or was received since the
\* session began, whatever the receiver does between the calls that decide it.
THEOREM IdFromSessionCorrect == ASSUME L!IdAssumption PROVE L!Spec => L!IdFromSession
<1>1. ASSUME L!TypeOK, StampsInv, L!DoneStore
      PROVE  main.id = 0 \/ heard[main.id] >= session.start - RxLag
  <2>1. main.pc = "store"
    BY <1>1 DEF L!DoneStore
  <2>2. CASE main.id # 0
    <3>1. heard[main.id] >= session.start
      BY <1>1, <2>1, <2>2 DEF StampsInv, L!SinceStartInv, L!DoneSteps
    <3>2. heard[main.id] \in Int /\ session.start \in Nat /\ RxLag \in Nat
      BY <1>1, <2>2, LearningTypes, StampsTyped
    <3> QED BY <3>1, <3>2
  <2> QED BY <2>2
<1>2. L!TypeOK /\ StampsInv /\ [L!Next]_(L!vars) =>
        [L!DoneStore => main.id = 0 \/ heard[main.id] >= session.start - RxLag]_(L!vars)
  BY <1>1
<1> QED BY <1>2, StampsAlways, PTL DEF L!Spec, L!IdFromSession

----------------------------------------------------------------------------
(* The composition implements the trainer.                                 *)

\* The reporter as the trainer sees it.
Seen == [pc |-> IF main.pc \in {"passings", "evaluate"} THEN "evaluate" ELSE "idle",
         now_ts |-> IF main.pc \in {"passings", "evaluate"} THEN main.now_ts ELSE 0,
         polled |-> main.polled]

SeenReporters == [pc : {"idle", "evaluate"}, now_ts : Nat, polled : Nat]

LEMMA SeenBegins ==
    ASSUME NEW r \in SeenReporters, NEW t \in Nat, NEW s \in SeenReporters,
           s.pc = "evaluate", s.now_ts = t, s.polled = r.polled
    PROVE  s = [r EXCEPT !.pc = "evaluate", !.now_ts = t]
<1> DEFINE u == [r EXCEPT !.pc = "evaluate", !.now_ts = t]
<1>1. u \in SeenReporters
  BY DEF SeenReporters
<1>2. u.pc = "evaluate" /\ u.now_ts = t /\ u.polled = r.polled
  BY DEF SeenReporters
<1> HIDE DEF u
<1>3. s = u
  BY <1>1, <1>2 DEF SeenReporters
<1> QED BY <1>3 DEF u

LEMMA ImplementsReceive ==
    ASSUME L!IdAssumption, L!TypeOK, StampsInv, L!RxTrainer
    PROVE  L!Trainer!Receive
<1>1. PICK f \in rx :
        /\ f.timestamp \in Nat /\ f.car \in Cars /\ f.id \in L!AllIds \cup {0}
        /\ L!Trainer!AppendEntry([timestamp |-> f.timestamp, rssi |-> L!Level,
                                data |-> [payload |-> f.car, id |-> f.id]])
        /\ UNCHANGED <<now, main>>
  BY TrainStep
<1>2. result' = "NO_ACTION"
  BY DEF L!RxTrainer
<1>3. /\ now \in Nat /\ RxLag \in Nat /\ MaxRxTime \in Nat
      /\ f.timestamp =< now /\ now =< f.timestamp + RxLag /\ f.timestamp =< MaxRxTime
  BY <1>1, StampsTyped DEF StampsInv, L!FrameInv
<1>4. now =< MaxRxTime + RxLag /\ f.timestamp \in (now - RxLag)..(now + 0)
  BY <1>1, <1>3
<1> DEFINE d == [payload |-> f.car, id |-> f.id]
<1>5. d \in [payload : Cars, id : L!AllIds \cup {0}]
  BY <1>1
<1>6. L!Trainer!AppendEntry([timestamp |-> f.timestamp, rssi |-> L!Level, data |-> d])
  BY <1>1
<1> HIDE DEF d
<1> QED BY <1>1, <1>2, <1>4, <1>5, <1>6 DEF L!Trainer!Receive

LEMMA ImplementsEvaluate ==
    ASSUME L!IdAssumption, L!TypeOK, L!Evaluate
    PROVE  L!Trainer!Evaluate
<1>1. L!Trainer!EvaluateAt(L!EvaluatedAt) /\ main.pc = "evaluate"
  BY Zenon DEF L!Evaluate
<1>2. /\ main' = [pc |-> IF result' = "DONE" THEN "preferred" ELSE "idle",
                      now_ts |-> 0, polled |-> main.now_ts, id |-> 0,
                      payloads |-> {}, from |-> 0, until |-> 0, rc3 |-> {}]
      /\ now' = now
  BY EvaluateReporter
<1>3. Seen.pc = "evaluate" /\ Seen.now_ts = L!EvaluatedAt
  BY <1>1 DEF Seen, L!EvaluatedAt
<1>4. Seen' = [pc |-> "idle", now_ts |-> 0, polled |-> Seen.now_ts]
  BY <1>1, <1>2, <1>3 DEF Seen, L!EvaluatedAt
<1>5. L!Trainer!EvaluateAt(Seen.now_ts)
  BY <1>1, <1>3
<1> QED BY <1>2, <1>3, <1>4, <1>5, Zenon DEF L!Trainer!Evaluate, Seen

LEMMA ImplementsNext ==
    ASSUME L!IdAssumption, L!TypeOK, StampsInv, [L!Next]_(L!vars)
    PROVE  [L!Trainer!Next]_(L!Trainer!vars)
<1>1. CASE L!Tick
  <2>1. L!Trainer!Tick
    BY <1>1 DEF L!Tick, L!Trainer!Tick, L!Trainer!trainerVars, L!trainerVars
  <2> QED BY <2>1 DEF L!Trainer!Next
<1>2. CASE L!RxTrainer
  BY <1>2, ImplementsReceive DEF L!Trainer!Next
<1>3. CASE L!Report
  <2>1. /\ main.pc = "idle"
        /\ main' = [pc |-> "passings", now_ts |-> now, polled |-> main.polled,
                        id |-> 0, payloads |-> {}, from |-> 0, until |-> 0, rc3 |-> {}]
    BY <1>3 DEF L!Report, L!Reporting
  <2>3. Seen = [pc |-> "idle", now_ts |-> 0, polled |-> main.polled]
    BY <2>1 DEF Seen
  <2>4. Seen' = [pc |-> "evaluate", now_ts |-> now, polled |-> main.polled]
    BY <2>1 DEF Seen
  <2>5. Seen' = [Seen EXCEPT !.pc = "evaluate", !.now_ts = now]
    <3>1. Seen \in SeenReporters /\ Seen' \in SeenReporters /\ now \in Nat
      BY <2>1, <2>3, <2>4 DEF SeenReporters, L!TypeOK
    <3>2. (Seen').pc = "evaluate" /\ (Seen').now_ts = now /\ (Seen').polled = Seen.polled
      BY <2>3, <2>4
    <3> HIDE DEF Seen
    <3> QED BY <3>1, <3>2, SeenBegins
  <2>2. L!Trainer!Report
    BY <1>3, <2>3, <2>5 DEF L!Report, L!Trainer!Report, L!Trainer!trainerVars, L!trainerVars, Seen
  <2> QED BY <2>2 DEF L!Trainer!Next
<1>4. CASE L!Evaluate
  BY <1>4, ImplementsEvaluate DEF L!Trainer!Next
<1>5. ASSUME UNCHANGED <<now, L!trainerVars, result>>, Seen' = Seen
      PROVE  [L!Trainer!Next]_(L!Trainer!vars)
  BY <1>5 DEF L!trainerVars, L!Trainer!vars, L!Trainer!trainerVars, Seen
<1>6. CASE L!RxDetection \/ \E c \in Cars : L!RxLookup(c) \/ L!RxRC3(c)
  BY <1>5, <1>6 DEF L!RxDetection, L!RxLookup, L!RxRC3, Seen
<1>7. CASE L!IdentifyPassings \/ L!DonePreferred \/ L!DonePayloads \/ L!DoneTimerange \/ L!DoneBetween
  <2>1. UNCHANGED <<now, L!trainerVars, result>>
    BY <1>7 DEF L!IdentifyPassings, L!DonePreferred, L!DonePayloads, L!DoneTimerange, L!DoneBetween
  <2>2. main \in [pc : {"idle", "passings", "evaluate"} \cup L!DoneSteps,
                      now_ts : Nat, polled : Nat, id : L!AllIds \cup {0},
                      payloads : SUBSET Cars, from : Nat, until : Nat, rc3 : SUBSET Cars]
    BY DEF L!TypeOK
  <2>3. /\ main'.polled = main.polled /\ main'.now_ts = main.now_ts
        /\ main.pc \in {"passings", "evaluate"} <=> main'.pc \in {"passings", "evaluate"}
    BY <1>7, <2>2 DEF L!IdentifyPassings, L!DonePreferred, L!DonePayloads, L!DoneTimerange, L!DoneBetween
  <2> QED BY <1>5, <2>1, <2>3 DEF Seen
<1>8. CASE L!DoneStore
  BY <1>5, <1>8 DEF L!DoneStore, L!Reporting, Seen
<1>9. CASE UNCHANGED L!vars
  BY <1>5, <1>9 DEF L!vars, L!trainerVars, Seen
<1> QED BY <1>1, <1>2, <1>3, <1>4, <1>6, <1>7, <1>8, <1>9 DEF L!Next, L!Receiver, L!Learner

\* The registry, the detections and the DONE branch around it take nothing from
\* what the trainer promises: each step of them is one of its steps, or none.
THEOREM TrainerImplemented == ASSUME L!IdAssumption PROVE L!Spec => L!TrainerSpec
<1>1. L!Init => L!Trainer!Init
  BY DEF L!Init, L!Trainer!Init
<1>2. L!TypeOK /\ StampsInv /\ [L!Next]_(L!vars) => [L!Trainer!Next]_(L!Trainer!vars)
  BY ImplementsNext
<1> QED BY <1>1, <1>2, StampsAlways, PTL DEF L!Spec, L!Trainer!Spec, L!TrainerSpec


----------------------------------------------------------------------------
(* One car alone: what a session knows of it, and what the DONE branch makes *)
(* of that.                                                                  *)

LearnInv == L!UnknownInv /\ L!CrowdInv /\ L!DecidedInv

LEMMA LearnInit == ASSUME L!IdAssumption, L!Init PROVE LearnInv
BY DEF L!Init, LearnInv, L!UnknownInv, L!CrowdInv, L!DecidedInv, L!InSession, L!DoneSteps

\* Types as the steps below need them.
LEMMA LearnTyped ==
    ASSUME L!IdAssumption, L!TypeOK
    PROVE  /\ \A c \in Cars : registry[c] \in L!AllIds \cup {0}
           /\ \A c \in Cars : session.known[c] \subseteq L!AllIds
           /\ session.crowd \subseteq Cars
           /\ \A i \in L!AllIds : sources[i] \subseteq Cars
           /\ 0 \notin L!AllIds
           /\ next_transponder \in Nat \ {0}
BY Identifiers DEF L!TypeOK, L!IdAssumption

\* A detection of a car joins the car to the sources of the identifier.
LEMMA DetectSources ==
    ASSUME L!IdAssumption, L!TypeOK, NEW i \in L!AllIds, NEW c \in Cars, NEW t, L!Detect(i, c, t)
    PROVE  /\ \A k \in L!AllIds : pending'[k] # <<>> => k = i \/ pending[k] # <<>>
           /\ \A k \in L!AllIds : k # i => pending'[k] = pending[k] /\ sources'[k] = sources[k]
           /\ c \in sources'[i]
           /\ \A d \in sources'[i] : d = c \/ (pending[i] # <<>> /\ d \in sources[i])
<1>1. pending' = [pending EXCEPT ![i] = L!Extended(@, t)]
      /\ pending \in [L!AllIds -> {<<>>} \cup (Nat \X Nat)]
  BY DEF L!Detect, L!TypeOK
<1>2. sources' = [sources EXCEPT ![i] = IF pending[i] = <<>> THEN {c} ELSE @ \cup {c}]
      /\ sources \in [L!AllIds -> SUBSET Cars]
  BY DEF L!Detect, L!TypeOK
<1>3. \A k \in L!AllIds : k # i => pending'[k] = pending[k] /\ sources'[k] = sources[k]
  BY <1>1, <1>2
<1>4. sources'[i] = IF pending[i] = <<>> THEN {c} ELSE sources[i] \cup {c}
  BY <1>2
<1>5. \A k \in L!AllIds : pending'[k] # <<>> => k = i \/ pending[k] # <<>>
  BY <1>3
<1>6. c \in sources'[i] /\ \A d \in sources'[i] : d = c \/ (pending[i] # <<>> /\ d \in sources[i])
  <2>1. CASE pending[i] = <<>>
    <3>1. sources'[i] = {c}
      BY <1>4, <2>1
    <3> QED BY <3>1
  <2>2. CASE pending[i] # <<>>
    <3>1. sources'[i] = sources[i] \cup {c}
      BY <1>4, <2>2
    <3> QED BY <2>2, <3>1
  <2> QED BY <2>1, <2>2
<1> QED BY <1>3, <1>5, <1>6

\* In a session the crowd is not empty, and it only grows, so that whoever is
\* alone was alone.
LEMMA AloneBefore ==
    ASSUME L!IdAssumption, L!TypeOK, StampsInv, L!CrowdInv, L!InSession,
           session.crowd \subseteq session.crowd', NEW c, session.crowd' = {c}
    PROVE  session.crowd = {c}
<1>1. 1 \in 1..Len(buffer)
  BY LearningTypes DEF StampsInv, L!SinceStartInv
<1>2. buffer[1].data.payload \in session.crowd
  BY <1>1 DEF L!CrowdInv
<1> QED BY <1>2

\* A step that leaves the decision alone keeps it.
LEMMA DecidedKept ==
    ASSUME L!IdAssumption, L!TypeOK, StampsInv, L!CrowdInv, L!DecidedInv,
           UNCHANGED <<main, registry>>, session.crowd \subseteq session.crowd',
           session.known' = session.known, L!Trainer!Full(buffer) => L!Trainer!Full(buffer')
    PROVE  L!DecidedInv'
<1>1. ASSUME main.pc \in L!DoneSteps \ {"preferred"}, NEW c \in Cars, session.crowd' = {c}
      PROVE  IF registry[c] # 0 THEN main.id \in session.known[c]
             ELSE main.id = IF main.pc = "store" /\ c \in main.rc3 THEN RealId[c] ELSE 0
  <2>1. session.crowd = {c}
    BY <1>1, AloneBefore DEF L!InSession
  <2> QED BY <1>1, <2>1 DEF L!DecidedInv
<1>2. main.pc \in L!DoneSteps => L!Trainer!Full(buffer')
  BY DEF L!DecidedInv
<1> QED BY <1>1, <1>2 DEF L!DecidedInv

LEMMA LearnLookup ==
    ASSUME L!IdAssumption, L!TypeOK, StampsInv, LearnInv, NEW c \in Cars, L!RxLookup(c)
    PROVE  LearnInv'
<1> DEFINE f == [timestamp |-> now, car |-> c, id |-> registry[c], detected |-> registry[c] = 0]
<1>1. /\ rx' = {f}
      /\ UNCHANGED <<state, buffer, since, main, registry, pending, sources>>
  BY DEF L!RxLookup, L!trainerVars, L!registryVars, L!detectionVars
<1>2. f.car = c /\ f.id = registry[c]
  OBVIOUS
<1> HIDE DEF f
<1>3. /\ session'.known = session.known
      /\ session'.crowd = IF L!InSession THEN session.crowd \cup {c} ELSE session.crowd
  BY DEF L!RxLookup, L!OnLoop, L!TypeOK
<1>4. L!UnknownInv'
  BY <1>1, <1>2 DEF LearnInv, L!UnknownInv
<1>5. L!CrowdInv'
  <2>1. L!InSession' <=> L!InSession
    BY <1>1 DEF L!InSession
  <2>2. L!InSession => registry[c] \in session.known[c] \cup {0}
    BY DEF LearnInv, L!CrowdInv
  <2> QED BY <1>1, <1>2, <1>3, <2>1, <2>2 DEF LearnInv, L!CrowdInv
<1>6. L!DecidedInv'
  BY <1>1, <1>3, DecidedKept DEF LearnInv
<1> QED BY <1>4, <1>5, <1>6 DEF LearnInv

LEMMA LearnRC3 ==
    ASSUME L!IdAssumption, L!TypeOK, StampsInv, LearnInv, NEW c \in Cars, L!RxRC3(c)
    PROVE  LearnInv'
<1> DEFINE r == RealId[c]
<1>1. /\ L!Detect(r, c, now) /\ r # 0
      /\ UNCHANGED <<state, buffer, since, main, registry, rx>>
  BY DEF L!RxRC3, L!trainerVars, L!registryVars
<1>2. r \in L!AllIds
  BY <1>1, Identifiers
<1>3. /\ session'.known = session.known
      /\ session'.crowd = IF L!InSession THEN session.crowd \cup {c} ELSE session.crowd
  BY DEF L!RxRC3, L!OnLoop, L!TypeOK
<1> HIDE DEF r
<1>4. /\ \A k \in L!AllIds : pending'[k] # <<>> => k = r \/ pending[k] # <<>>
      /\ \A k \in L!AllIds : k # r => pending'[k] = pending[k] /\ sources'[k] = sources[k]
      /\ c \in sources'[r]
      /\ \A d \in sources'[r] : d = c \/ (pending[r] # <<>> /\ d \in sources[r])
  BY <1>1, <1>2, DetectSources
<1>5. L!UnknownInv'
  <2>1. \A i \in L!AllIds : pending'[i] # <<>> => sources'[i] # {}
    BY <1>4 DEF LearnInv, L!UnknownInv
  <2>2. ASSUME NEW d \in Cars, registry[d] = 0, NEW i \in L!AllIds, pending'[i] # <<>>,
               d \in sources'[i]
        PROVE  i = RealId[d]
    BY <1>4, <2>2 DEF LearnInv, L!UnknownInv, r
  <2> QED BY <1>1, <2>1, <2>2 DEF LearnInv, L!UnknownInv
<1>6. L!CrowdInv'
  <2>1. L!InSession' <=> L!InSession
    BY <1>1 DEF L!InSession
  <2>2. ASSUME L!InSession, NEW i \in L!AllIds, pending'[i] # <<>>
        PROVE  sources'[i] \subseteq session'.crowd
    <3>1. pending[i] # <<>> => sources[i] \subseteq session.crowd
      BY <2>2 DEF LearnInv, L!CrowdInv
    <3> QED BY <1>3, <1>4, <2>2, <3>1
  <2> QED BY <1>1, <1>3, <2>1, <2>2 DEF LearnInv, L!CrowdInv
<1>7. L!DecidedInv'
  BY <1>1, <1>3, DecidedKept DEF LearnInv
<1> QED BY <1>5, <1>6, <1>7 DEF LearnInv

LEMMA LearnDetection ==
    ASSUME L!IdAssumption, L!TypeOK, StampsInv, LearnInv, L!RxDetection
    PROVE  LearnInv'
<1>1. PICK f \in rx : /\ ~f.detected /\ L!Detect(f.id, f.car, f.timestamp)
                      /\ rx' = {[f EXCEPT !.detected = TRUE]}
  BY DEF L!RxDetection
<1>2. UNCHANGED <<state, buffer, since, main, registry, session>>
  BY DEF L!RxDetection, L!trainerVars, L!registryVars
<1> DEFINE g == [f EXCEPT !.detected = TRUE]
           i == f.id
           c == f.car
<1>3. g.id = i /\ g.car = c /\ rx' = {g}
  BY <1>1 DEF L!TypeOK
<1>4. i \in L!AllIds /\ c \in Cars
  BY <1>1, StampsTyped DEF StampsInv, L!FrameInv
<1>5. registry[c] # 0
  BY <1>1, <1>4, LearnTyped DEF LearnInv, L!UnknownInv
<1>6. L!InSession =>
        /\ c \in session.crowd /\ i \in session.known[c] \cup {0}
        /\ since # 0 => i = registry[c]
  BY <1>1 DEF LearnInv, L!CrowdInv
<1>7. L!Detect(i, c, f.timestamp)
  BY <1>1
<1> HIDE DEF g, i, c
<1>8. /\ \A k \in L!AllIds : pending'[k] # <<>> => k = i \/ pending[k] # <<>>
      /\ \A k \in L!AllIds : k # i => pending'[k] = pending[k] /\ sources'[k] = sources[k]
      /\ c \in sources'[i]
      /\ \A d \in sources'[i] : d = c \/ (pending[i] # <<>> /\ d \in sources[i])
  BY <1>4, <1>7, DetectSources
<1>9. L!UnknownInv'
  <2>1. \A k \in L!AllIds : pending'[k] # <<>> => sources'[k] # {}
    BY <1>8 DEF LearnInv, L!UnknownInv
  <2>2. ASSUME NEW d \in Cars, registry[d] = 0, NEW k \in L!AllIds, pending'[k] # <<>>,
               d \in sources'[k]
        PROVE  k = RealId[d]
    BY <1>5, <1>8, <2>2 DEF LearnInv, L!UnknownInv
  <2>3. \A d \in Cars : registry[d] = 0 => \A h \in rx' : h.car = d => h.id = 0
    BY <1>3, <1>5
  <2> QED BY <1>2, <2>1, <2>2, <2>3 DEF LearnInv, L!UnknownInv
<1>10. L!CrowdInv'
  <2>1. L!InSession' <=> L!InSession
    BY <1>2 DEF L!InSession
  <2>2. ASSUME L!InSession, NEW k \in L!AllIds, pending'[k] # <<>>
        PROVE  sources'[k] \subseteq session.crowd
    <3>1. pending[k] # <<>> => sources[k] \subseteq session.crowd
      BY <2>2 DEF LearnInv, L!CrowdInv
    <3>2. c \in session.crowd
      BY <1>6, <2>2
    <3>3. CASE k = i
      BY <1>8, <3>1, <3>2, <3>3
    <3>4. CASE k # i
      BY <1>8, <2>2, <3>1, <3>4
    <3> QED BY <3>3, <3>4
  <2>3. L!InSession =>
          \A h \in rx' :
            /\ h.car \in session.crowd
            /\ h.id \in session.known[h.car] \cup {0}
            /\ since # 0 => h.id = registry[h.car]
    BY <1>3, <1>6
  <2> QED BY <1>2, <2>1, <2>2, <2>3 DEF LearnInv, L!CrowdInv
<1>11. L!DecidedInv'
  BY <1>2, DecidedKept DEF LearnInv
<1> QED BY <1>9, <1>10, <1>11 DEF LearnInv


\* The receiver's entry: the last StartCount + since entries are of the session,
\* and all that came after its first has the identifier of the registry.
LEMMA LearnTrainer ==
    ASSUME L!IdAssumption, L!TypeOK, StampsInv, LearnInv, L!RxTrainer
    PROVE  LearnInv'
<1>1. PICK f \in rx, s \in {0, 1} :
        /\ f.detected /\ f.timestamp \in Nat /\ f.car \in Cars /\ f.id \in L!AllIds \cup {0}
        /\ Len(buffer') =< MaxBuffer
        /\ Len(buffer') = Len(buffer) + 1 - s /\ Len(buffer') >= 1
        /\ buffer'[Len(buffer')].data.payload = f.car
        /\ buffer'[Len(buffer')].data.id = f.id
        /\ \A i \in 1..(Len(buffer') - 1) :
             i + s \in 1..Len(buffer) /\ buffer'[i] = buffer[i + s]
        /\ since' = IF since < Len(buffer') THEN since + 1 ELSE since
        /\ rx' = {} /\ state' = state
        /\ UNCHANGED <<now, main, L!registryVars, L!detectionVars, session>>
  BY TrainStep
<1>2. UNCHANGED <<main, registry, pending, sources, session>>
  BY <1>1 DEF L!registryVars, L!detectionVars
<1> DEFINE n == Len(buffer')
<1>3. /\ n \in Nat /\ n >= 1 /\ Len(buffer) \in Nat /\ n = Len(buffer) + 1 - s
      /\ since \in Nat /\ since =< Len(buffer)
  BY <1>1, LearningTypes
<1>4. /\ buffer'[n].data.payload = f.car /\ buffer'[n].data.id = f.id
      /\ since' = IF since < n THEN since + 1 ELSE since
  BY <1>1
<1>5. \A i \in 1..(n - 1) : i + s \in 1..Len(buffer) /\ buffer'[i] = buffer[i + s]
  BY <1>1
<1>6. Len(buffer') = n
  OBVIOUS
<1> HIDE DEF n
<1>7. \A j \in 1..n : j = n \/ j \in 1..(n - 1)
  BY <1>3
<1>8. L!UnknownInv'
  <2>1. ASSUME NEW c \in Cars, registry[c] = 0, NEW j \in 1..n, buffer'[j].data.payload = c
        PROVE  buffer'[j].data.id = 0
    <3>1. CASE j = n
      BY <1>4, <2>1, <3>1 DEF LearnInv, L!UnknownInv
    <3>2. CASE j \in 1..(n - 1)
      BY <1>5, <2>1, <3>2 DEF LearnInv, L!UnknownInv
    <3> QED BY <1>7, <3>1, <3>2
  <2>2. \A i \in L!AllIds : pending[i] # <<>> => sources[i] # {}
    BY DEF LearnInv, L!UnknownInv
  <2>3. ASSUME NEW c \in Cars, registry[c] = 0, NEW i \in L!AllIds, pending[i] # <<>>,
               c \in sources[i]
        PROVE  i = RealId[c]
    BY <2>3 DEF LearnInv, L!UnknownInv
  <2>4. \A c \in Cars : registry[c] = 0 =>
          \A j \in 1..n : buffer'[j].data.payload = c => buffer'[j].data.id = 0
    BY <2>1
  <2>5. rx' = {}
    BY <1>1
  <2> QED BY <1>2, <1>6, <2>2, <2>3, <2>4, <2>5 DEF L!UnknownInv
<1>9. L!CrowdInv'
  <2>1. L!InSession' <=> L!InSession
    BY <1>1, <1>2 DEF L!InSession
  <2>2. ASSUME L!InSession, NEW j \in 1..n
        PROVE  /\ buffer'[j].data.payload \in session.crowd
               /\ buffer'[j].data.id \in session.known[buffer'[j].data.payload] \cup {0}
               /\ j > n - since' + 1 => buffer'[j].data.id = registry[buffer'[j].data.payload]
    <3>1. CASE j = n
      <4>1. /\ f.car \in session.crowd /\ f.id \in session.known[f.car] \cup {0}
            /\ since # 0 => f.id = registry[f.car]
        BY <2>2 DEF LearnInv, L!CrowdInv
      <4>2. n > n - since' + 1 => since # 0
        BY <1>3, <1>4
      <4> QED BY <1>4, <3>1, <4>1, <4>2
    <3>2. CASE j \in 1..(n - 1)
      <4> DEFINE i == j + s
      <4>1. i \in 1..Len(buffer) /\ buffer'[j] = buffer[i]
        BY <1>5, <3>2
      <4>2. j > n - since' + 1 => i > Len(buffer) - since + 1
        <5>1. CASE since < n
          BY <1>3, <1>4, <5>1
        <5>2. CASE ~(since < n)
          BY <1>3, <1>4, <5>2
        <5> QED BY <5>1, <5>2
      <4> HIDE DEF i
      <4> QED BY <2>2, <4>1, <4>2 DEF LearnInv, L!CrowdInv
    <3> QED BY <1>7, <3>1, <3>2
  <2>3. L!InSession => n =< StartCount + since'
    <3>1. L!InSession => Len(buffer) =< StartCount + since
      BY DEF LearnInv, L!CrowdInv
    <3> QED BY <1>3, <1>4, <3>1, CountAssumption
  <2> QED BY <1>1, <1>2, <1>6, <2>1, <2>2, <2>3 DEF LearnInv, L!CrowdInv
<1>10. L!DecidedInv'
  <2>1. L!Trainer!Full(buffer) => L!Trainer!Full(buffer')
    <3>1. MaxBuffer \in Nat
      BY CountAssumption
    <3> QED BY <1>3, <1>6, <3>1 DEF L!Trainer!Full
  <2> QED BY <1>2, <2>1, DecidedKept DEF LearnInv
<1> QED BY <1>8, <1>9, <1>10 DEF LearnInv

\* What a session begins with is what CrowdInv says of it.
LEMMA LearnEvaluate ==
    ASSUME L!IdAssumption, L!TypeOK, StampsInv, LearnInv, L!Evaluate
    PROVE  LearnInv'
<1>1. /\ UNCHANGED <<rx, registry, pending, sources>>
      /\ main'.pc = IF result' = "DONE" THEN "preferred" ELSE "idle"
      /\ main'.rc3 = {}
      /\ session' = IF result' = "START"
                    THEN [start |-> L!Trainer!LastEntries(buffer')[1].timestamp,
                          crowd |-> L!CrowdAtStart(buffer'),
                          known |-> L!KnownAtStart(buffer')]
                    ELSE IF result' = "INTERRUPTED" THEN L!NoSession ELSE session
  BY EvaluateReporter DEF L!registryVars, L!detectionVars
<1>2. main.pc = "evaluate"
  BY EvaluateStep
<1>3. CASE /\ state = "IDLE" /\ state' = "TRAINING" /\ result' = "START"
           /\ Len(buffer) >= StartCount /\ buffer' = Session(buffer) /\ since' = 0
  <2>1. PICK s \in Nat :
          \A i \in 1..Len(buffer') : i + s \in 1..Len(buffer) /\ buffer'[i] = buffer[i + s]
    BY <1>3, StartStep
  <2>2. /\ Len(buffer') = StartCount /\ StartCount \in Nat \ {0}
        /\ buffer' \in Seq(L!Trainer!Entry)
    BY <1>3, StartStep
  <2>3. /\ session'.crowd = L!CrowdAtStart(buffer') /\ session'.known = L!KnownAtStart(buffer')
    BY <1>1, <1>3
  <2>4. L!UnknownInv'
    <3>1. \A c \in Cars : registry[c] = 0 =>
            \A j \in 1..Len(buffer') : buffer'[j].data.payload = c => buffer'[j].data.id = 0
      BY <2>1 DEF LearnInv, L!UnknownInv
    <3> QED BY <1>1, <3>1 DEF LearnInv, L!UnknownInv
  <2>5. \A j \in 1..Len(buffer') :
          buffer'[j].data.payload \in Cars /\ buffer'[j].data.id \in L!AllIds \cup {0}
    BY <2>1, LearningTypes
  <2>6. \A c \in Cars :
          session'.known[c] =
            ({registry[c]}
               \cup {buffer'[j].data.id :
                       j \in {k \in 1..Len(buffer') : buffer'[k].data.payload = c}}
               \cup {f.id : f \in {g \in rx : g.car = c}}) \ {0}
    BY <2>3 DEF L!KnownAtStart
  <2>7. ASSUME NEW j \in 1..Len(buffer')
        PROVE  /\ buffer'[j].data.payload \in session'.crowd
               /\ buffer'[j].data.id \in session'.known[buffer'[j].data.payload] \cup {0}
    BY <2>3, <2>5, <2>6 DEF L!CrowdAtStart
  <2>8. ASSUME NEW f \in rx
        PROVE  f.car \in session'.crowd /\ f.id \in session'.known[f.car] \cup {0}
    BY <2>3, <2>6, StampsTyped DEF L!CrowdAtStart
  <2>9. ASSUME NEW i \in L!AllIds, pending[i] # <<>>
        PROVE  sources[i] \subseteq session'.crowd
    BY <2>3, <2>9 DEF L!CrowdAtStart
  <2>10. ASSUME NEW c \in Cars
         PROVE  IF registry[c] = 0 THEN session'.known[c] = {}
                ELSE registry[c] \in session'.known[c]
    <3>1. CASE registry[c] = 0
      <4>1. \A j \in 1..Len(buffer') : buffer'[j].data.payload = c => buffer'[j].data.id = 0
        BY <1>1, <2>4, <3>1 DEF L!UnknownInv
      <4>2. \A f \in rx : f.car = c => f.id = 0
        BY <3>1 DEF LearnInv, L!UnknownInv
      <4> QED BY <2>6, <3>1, <4>1, <4>2
    <3>2. CASE registry[c] # 0
      BY <2>6, <3>2
    <3> QED BY <3>1, <3>2
  <2>11. \A j \in 1..Len(buffer') : ~(j > Len(buffer') - 0 + 1)
    BY <2>2
  <2>12. Len(buffer') =< StartCount + 0
    BY <2>2
  <2>13. L!CrowdInv'
    BY <1>1, <1>3, <2>7, <2>8, <2>9, <2>10, <2>11, <2>12 DEF L!CrowdInv
  <2>14. L!DecidedInv'
    BY <1>1, <1>3 DEF L!DecidedInv, L!DoneSteps
  <2> QED BY <2>4, <2>13, <2>14 DEF LearnInv
<1>4. CASE UNCHANGED <<buffer, since>> /\ result' # "START"
  <2>1. L!UnknownInv'
    BY <1>1, <1>4 DEF LearnInv, L!UnknownInv
  <2>2. \/ state = "TRAINING" /\ state' = "IDLE" /\ result' = "INTERRUPTED"
        \/ /\ state = "TRAINING" /\ state' = "FINALIZING" /\ result' = "DONE"
           /\ L!Trainer!Full(buffer)
        \/ state = "FINALIZING" /\ state' = "IDLE" /\ result' = "RESET"
        \/ state' = state /\ result' = "NO_ACTION"
    BY <1>4, EvaluateStep
  <2>3. L!DecidedInv'
    BY <1>1, <1>4, <2>2 DEF L!DecidedInv, L!DoneSteps
  <2>4. L!InSession' => L!InSession /\ session' = session
    BY <1>1, <1>4, <2>2 DEF L!InSession, L!DoneSteps
  <2>5. L!CrowdInv'
    BY <1>1, <1>4, <2>4 DEF LearnInv, L!CrowdInv
  <2> QED BY <2>1, <2>3, <2>5 DEF LearnInv
<1> QED BY <1>3, <1>4, EvaluateStep

\* At DONE the last entry of a car that is known has its identifier: the
\* session went on for two messages after START.
LEMMA PreferredAlone ==
    ASSUME L!IdAssumption, L!LengthAssumption, L!TypeOK, StampsInv, LearnInv, L!InSession,
           L!Trainer!Full(buffer), NEW c \in Cars, session.crowd = {c}
    PROVE  IF registry[c] # 0 THEN L!Preferred(buffer) \in session.known[c]
           ELSE L!Preferred(buffer) = 0
<1>1. \A j \in 1..Len(buffer) :
        /\ buffer[j].data.payload = c
        /\ buffer[j].data.id \in session.known[c] \cup {0}
        /\ j > Len(buffer) - since + 1 => buffer[j].data.id = registry[c]
  BY DEF LearnInv, L!CrowdInv
<1>2. /\ L!Preferred(buffer) # 0 =>
           \E j \in 1..Len(buffer) : buffer[j].data.id # 0 /\ L!Preferred(buffer) = buffer[j].data.id
      /\ L!Preferred(buffer) = 0 => \A j \in 1..Len(buffer) : buffer[j].data.id = 0
  BY PreferredTyped, LearningTypes
<1>3. CASE registry[c] # 0
  <2> DEFINE n == Len(buffer)
  <2>1. /\ n \in Nat /\ since \in Nat /\ n >= MaxBuffer /\ n =< StartCount + since
        /\ StartCount \in Nat \ {0} /\ MaxBuffer \in Nat /\ StartCount + 2 =< MaxBuffer
    BY LearningTypes, CountAssumption
    DEF LearnInv, L!CrowdInv, L!Trainer!Full, L!LengthAssumption
  <2>2. n \in 1..n /\ n > n - since + 1
    BY <2>1
  <2>3. buffer[n].data.id = registry[c]
    BY <1>1, <2>2
  <2> QED BY <1>1, <1>2, <1>3, <2>2, <2>3
<1>4. CASE registry[c] = 0
  <2>1. \A j \in 1..Len(buffer) : buffer[j].data.id = 0
    BY <1>1, <1>4 DEF LearnInv, L!UnknownInv
  <2> QED BY <1>2, <1>4, <2>1
<1> QED BY <1>3, <1>4


LEMMA LearnLearner ==
    ASSUME L!IdAssumption, L!LengthAssumption, L!TypeOK, StampsInv, LearnInv, L!Learner
    PROVE  LearnInv'
<1> USE DEF LearnInv
<1>1. CASE L!Report \/ L!DonePreferred \/ L!DonePayloads \/ L!DoneTimerange \/ L!DoneBetween
  <2>1. UNCHANGED <<now, state, buffer, since, rx, registry, pending, sources, session>>
    BY <1>1 DEF L!Report, L!DonePreferred, L!DonePayloads, L!DoneTimerange, L!DoneBetween, L!trainerVars,
         L!registryVars, L!detectionVars
  <2>2. L!UnknownInv'
    BY <2>1 DEF L!UnknownInv
  <2>3. main \in [pc : {"idle", "passings", "evaluate"} \cup L!DoneSteps,
                      now_ts : Nat, polled : Nat, id : L!AllIds \cup {0},
                      payloads : SUBSET Cars, from : Nat, until : Nat, rc3 : SUBSET Cars]
    BY DEF L!TypeOK
  <2>4. ASSUME L!InSession' => L!InSession PROVE L!CrowdInv'
    BY <2>1, <2>4 DEF L!CrowdInv
  <2>5. CASE L!Report
    <3>1. main.pc = "idle" /\ main'.pc = "passings" /\ main'.rc3 = {}
      BY <2>5 DEF L!Report, L!Reporting
    <3>2. L!InSession' => L!InSession
      BY <2>1, <3>1 DEF L!InSession, L!DoneSteps
    <3> QED BY <2>1, <2>2, <2>4, <3>1, <3>2 DEF L!DecidedInv, L!DoneSteps
  <2>6. CASE L!DonePreferred
    <3>1. /\ main.pc = "preferred" /\ main'.pc = "payloads"
          /\ main'.id = L!Preferred(buffer) /\ main'.rc3 = main.rc3
      BY <2>3, <2>6 DEF L!DonePreferred
    <3>2. L!InSession /\ L!Trainer!Full(buffer)
      BY <3>1 DEF L!InSession, L!DoneSteps, L!DecidedInv
    <3>3. \A c \in Cars : session.crowd = {c} =>
            IF registry[c] # 0 THEN main'.id \in session.known[c] ELSE main'.id = 0
      BY <3>1, <3>2, PreferredAlone
    <3> QED BY <2>1, <2>2, <2>4, <3>1, <3>2, <3>3 DEF L!DecidedInv, L!DoneSteps
  <2>7. CASE L!DonePayloads \/ L!DoneTimerange
    <3>1. /\ main.pc \in {"payloads", "timerange"}
          /\ main'.pc \in {"timerange", "between"} /\ main'.id = main.id
          /\ main'.rc3 = main.rc3
      BY <2>3, <2>7 DEF L!DonePayloads, L!DoneTimerange
    <3>2. L!InSession /\ L!Trainer!Full(buffer)
      BY <3>1 DEF L!InSession, L!DoneSteps, L!DecidedInv
    <3> QED BY <2>1, <2>2, <2>4, <3>1, <3>2 DEF L!DecidedInv, L!DoneSteps
  <2>8. CASE L!DoneBetween
    <3> DEFINE found == L!Between(main.from, main.until)
               id == L!ChooseId(main.id, found)
               rc3 == {c \in Cars : L!RC3Pending(c)}
    <3>1. main' = [main EXCEPT !.pc = "store", !.id = id, !.rc3 = rc3]
      BY <2>8 DEF L!DoneBetween
    <3> HIDE DEF id, rc3
    <3>2. main.pc = "between" /\ main'.pc = "store" /\ main'.id = id /\ main'.rc3 = rc3
      BY <2>3, <2>8, <3>1 DEF L!DoneBetween
    <3>3. L!InSession /\ L!Trainer!Full(buffer)
      BY <3>2 DEF L!InSession, L!DoneSteps, L!DecidedInv
    <3>4. ASSUME NEW c \in Cars, session.crowd = {c}
          PROVE  IF registry[c] # 0 THEN id \in session.known[c]
                 ELSE id = IF c \in rc3 THEN RealId[c] ELSE 0
      <4>1. IF registry[c] # 0 THEN main.id \in session.known[c] ELSE main.id = 0
        BY <3>2, <3>4 DEF L!DecidedInv, L!DoneSteps
      <4>2. CASE registry[c] # 0
        <5>1. main.id # 0
          BY <4>1, <4>2, LearnTyped
        <5>2. id = main.id
          BY <5>1, ChosenOne DEF id
        <5> QED BY <4>1, <4>2, <5>2
      <4>3. CASE registry[c] = 0
        <5>1. main.id = 0
          BY <4>1, <4>3
        <5>2. ASSUME NEW i \in found PROVE i = RealId[c]
          <6>1. i \in L!AllIds /\ pending[i] # <<>>
            BY DEF L!Between
          <6>2. sources[i] \subseteq {c} /\ sources[i] # {}
            BY <3>3, <3>4, <6>1 DEF L!CrowdInv, L!UnknownInv
          <6>3. c \in sources[i]
            BY <6>2
          <6> QED BY <4>3, <6>1, <6>3 DEF L!UnknownInv
        <5>3. c \in rc3 <=> RealId[c] \in found
          <6>1. RealId[c] # 0 => RealId[c] \in L!AllIds
            BY Identifiers
          <6>2. RealId[c] \in L!AllIds => RealId[c] # 0
            BY LearnTyped
          <6> QED BY <6>1, <6>2 DEF L!RC3Pending, L!Between, rc3
        <5> HIDE DEF found
        <5>4. CASE c \in rc3
          <6>1. found = {RealId[c]}
            BY <5>2, <5>3, <5>4
          <6>2. L!Cardinality(found) = 1
            BY <6>1, FS_Singleton, SameCardinality
          <6>3. id \in found
            BY <5>1, <6>1, <6>2 DEF id, L!ChooseId
          <6> QED BY <4>3, <5>4, <6>1, <6>3
        <5>5. CASE c \notin rc3
          <6>1. found = {}
            BY <5>2, <5>3, <5>5
          <6>2. id = main.id
            BY <6>1, ChosenOne DEF id
          <6> QED BY <4>3, <5>1, <5>5, <6>2
        <5> QED BY <5>4, <5>5
      <4> QED BY <4>2, <4>3
    <3>5. \A c \in rc3 : RealId[c] # 0
      BY DEF rc3, L!RC3Pending
    <3> QED BY <2>1, <2>2, <2>4, <3>2, <3>3, <3>4, <3>5 DEF L!DecidedInv, L!DoneSteps
  <2> QED BY <1>1, <2>5, <2>6, <2>7, <2>8
<1>2. CASE L!IdentifyPassings
  <2>1. /\ UNCHANGED <<state, buffer, since, rx, registry, sources, session>>
        /\ main.pc = "passings" /\ main'.pc = "evaluate" /\ main'.rc3 = main.rc3
        /\ pending' = L!DropOld(main.now_ts)
    BY <1>2 DEF L!IdentifyPassings, L!trainerVars, L!registryVars, L!TypeOK
  <2>2. \A i \in L!AllIds : pending'[i] # <<>> => pending[i] # <<>>
    BY <2>1 DEF L!DropOld
  <2>3. L!UnknownInv'
    BY <2>1, <2>2 DEF L!UnknownInv
  <2>4. L!InSession' <=> L!InSession
    BY <2>1 DEF L!InSession, L!DoneSteps
  <2>5. L!CrowdInv'
    BY <2>1, <2>2, <2>4 DEF L!CrowdInv
  <2> QED BY <2>1, <2>3, <2>5 DEF L!DecidedInv, L!DoneSteps
<1>3. CASE L!Evaluate
  BY <1>3, LearnEvaluate
<1>4. CASE L!DoneStore
  <2>1. /\ UNCHANGED <<state, buffer, since, rx, pending, sources>>
        /\ main.pc = "store" /\ main'.pc = "idle" /\ main'.rc3 = {}
        /\ registry' = [c \in Cars |-> IF c \in main.payloads THEN L!Assigned(main.id)
                                       ELSE registry[c]]
    BY <1>4 DEF L!DoneStore, L!Reporting, L!Store, L!trainerVars, L!detectionVars
  <2>2. state = "FINALIZING"
    BY <2>1 DEF StampsInv, L!SinceStartInv, L!DoneSteps
  <2>3. L!Assigned(main.id) # 0
    BY LearnTyped DEF L!Assigned
  <2>4. \A c \in Cars : registry'[c] = 0 => registry[c] = 0
    BY <2>1, <2>3
  <2>5. L!UnknownInv'
    BY <2>1, <2>4 DEF L!UnknownInv
  <2>6. ~(L!InSession')
    BY <2>1, <2>2 DEF L!InSession, L!DoneSteps
  <2> QED BY <2>1, <2>5, <2>6 DEF L!CrowdInv, L!DecidedInv, L!DoneSteps
<1> QED BY <1>1, <1>2, <1>3, <1>4 DEF L!Learner

LEMMA LearnNext ==
    ASSUME L!IdAssumption, L!LengthAssumption, L!TypeOK, StampsInv, LearnInv, [L!Next]_(L!vars)
    PROVE  LearnInv'
<1>1. CASE L!Tick \/ UNCHANGED L!vars
  <2>1. UNCHANGED <<state, buffer, since, main, rx, registry, pending, sources, session>>
    BY <1>1 DEF L!Tick, L!vars, L!trainerVars, L!registryVars, L!detectionVars
  <2> QED
    BY <2>1 DEF LearnInv, L!UnknownInv, L!CrowdInv, L!DecidedInv, L!InSession
<1>2. CASE L!Receiver
  BY <1>2, LearnLookup, LearnRC3, LearnDetection, LearnTrainer DEF L!Receiver
<1>3. CASE L!Learner
  BY <1>3, LearnLearner
<1> QED BY <1>1, <1>2, <1>3 DEF L!Next

\* A car that was alone on the loop since the session began is learned as itself:
\* by an identifier its first messages were known by; if there is none, by its real
\* one exactly if RC3 messages of it were pending, else by a new one, whatever
\* happens between the calls that decide it.
THEOREM AloneIsItselfCorrect ==
    ASSUME L!IdAssumption, L!LengthAssumption PROVE L!Spec => L!AloneIsItself
<1> DEFINE Inv == L!TypeOK /\ StampsInv /\ LearnInv
<1>1. L!Init => Inv
  BY LearningTypeInit, StampsInit, LearnInit
<1>2. Inv /\ [L!Next]_(L!vars) => Inv'
  BY StampsNext, LearnNext
<1>3. ASSUME Inv, L!DoneStore, NEW c \in Cars, session.crowd = {c}, c \in main.payloads
      PROVE  IF session.known[c] # {}
             THEN registry'[c] \in session.known[c]
             ELSE registry'[c] = IF c \in main.rc3 THEN RealId[c] ELSE next_transponder
  <2>1. /\ main.pc = "store" /\ L!InSession
        /\ registry'[c] = L!Assigned(main.id)
    BY <1>3 DEF L!DoneStore, L!Store, L!InSession, L!DoneSteps
  <2>2. IF registry[c] # 0 THEN main.id \in session.known[c]
        ELSE main.id = IF c \in main.rc3 THEN RealId[c] ELSE 0
    BY <1>3, <2>1 DEF LearnInv, L!DecidedInv, L!DoneSteps
  <2>5. c \in main.rc3 => RealId[c] # 0
    BY <1>3 DEF LearnInv, L!DecidedInv
  <2>3. IF registry[c] = 0 THEN session.known[c] = {} ELSE registry[c] \in session.known[c]
    BY <1>3, <2>1 DEF LearnInv, L!CrowdInv
  <2>4. L!Assigned(main.id) = IF main.id = 0 THEN next_transponder ELSE main.id
    BY DEF L!Assigned
  <2> QED BY <1>3, <2>1, <2>2, <2>3, <2>4, <2>5, LearnTyped
<1>4. Inv /\ [L!Next]_(L!vars) =>
        [\A c \in Cars :
           L!DoneStore /\ session.crowd = {c} /\ c \in main.payloads =>
             IF session.known[c] # {}
             THEN registry'[c] \in session.known[c]
             ELSE registry'[c] = IF c \in main.rc3 THEN RealId[c]
                                 ELSE next_transponder]_(L!vars)
  BY <1>3
<1> QED BY <1>1, <1>2, <1>4, PTL DEF L!Spec, L!AloneIsItself
=============================================================================
