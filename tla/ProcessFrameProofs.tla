------------------------- MODULE ProcessFrameProofs -------------------------
(* Proofs about ProcessFrame for every value of its constants.             *)
EXTENDS ProcessFrame, TLAPS

----------------------------------------------------------------------------
(* Counters.                                                               *)

\* Counting a frame, and adding counters up, keeps processed =< received.
LEMMA CountLemma ==
    ASSUME NEW c, CountsOK(c), NEW p \in BOOLEAN
    PROVE  CountsOK(Count(c, p))
<1>1. c.received \in Nat /\ c.processed \in Nat /\ c.processed =< c.received
  BY DEF CountsOK, Counts
<1> QED BY <1>1 DEF CountsOK, Counts, Count

LEMMA PlusLemma ==
    ASSUME NEW c, NEW d, CountsOK(c), CountsOK(d)
    PROVE  CountsOK(Plus(c, d))
<1>1. /\ c.received \in Nat /\ c.processed \in Nat /\ c.processed =< c.received
      /\ d.received \in Nat /\ d.processed \in Nat /\ d.processed =< d.received
  BY DEF CountsOK, Counts
<1> QED BY <1>1 DEF CountsOK, Counts, Plus

\* A frame counted in one of three counters counts in their sum.
LEMMA CountPlusLemma ==
    ASSUME NEW a, NEW b, CountsOK(a), CountsOK(b), NEW p \in BOOLEAN
    PROVE  Count(Plus(Plus(a, b), Zero), p) = Plus(Plus(a, Count(b, p)), Zero)
<1>1. /\ a.received \in Nat /\ a.processed \in Nat
      /\ b.received \in Nat /\ b.processed \in Nat
  BY DEF CountsOK, Counts
<1>2. CASE p
  BY <1>1, <1>2 DEF Count, Plus, Zero
<1>3. CASE ~p
  BY <1>1, <1>3 DEF Count, Plus, Zero
<1> QED BY <1>2, <1>3

LEMMA ZeroLemma == CountsOK(Zero)
BY DEF CountsOK, Counts, Zero

----------------------------------------------------------------------------
(* Types.                                                                  *)

LEMMA InitType == Init => TypeOK
<1> SUFFICES ASSUME Init PROVE TypeOK
  OBVIOUS
<1>1. log \in Seq(Message)
  BY DEF Init
<1> QED BY <1>1, ZeroLemma DEF Init, TypeOK, Status, Counts, Zero

\* What a branch of process_frame without a blacklist leaves.
LEMMA ReturnsType ==
    ASSUME TypeOK, NEW p \in BOOLEAN, Returns(p),
           UNCHANGED blacklistVars
    PROVE  TypeOK'
BY DEF Returns, TypeOK, blacklistVars, statsVars

\* The whole step of an RC3 message on the blacklist and the log.
LEMMA RC3Type ==
    ASSUME TypeOK, NEW id \in Ids, NEW s \in Status, RxRC3(id, s)
    PROVE  TypeOK'
<1>1. PICK ts \in (now - RxLag)..(now + BufferSpan) :
        /\ ts >= 1
        /\ msb8_timestamps' = Stamped(id, s, ts)
        /\ banned_transponders' = Banned(id, s, ts)
        /\ log' = Append(log, [id |-> id, status |-> s, timestamp |-> ts,
                               appended |-> IsPassing(id, s, ts)])
  BY DEF RxRC3
<1>2. ts \in Nat
  BY <1>1, TimeAssumption DEF TypeOK
<1>3. msb8_timestamps' \in [Bytes -> Nat]
  BY <1>1, <1>2, IdAssumption DEF Stamped, TypeOK
<1>4. banned_transponders' \subseteq Ids
  BY <1>1 DEF Banned, TypeOK
<1>5. IsPassing(id, s, ts) \in BOOLEAN
  BY DEF IsPassing
<1>6. log' \in Seq(Message)
  <2>1. [id |-> id, status |-> s, timestamp |-> ts, appended |-> IsPassing(id, s, ts)] \in Message
    BY <1>2, <1>5 DEF Message
  <2> QED BY <1>1, <2>1 DEF TypeOK
<1> QED BY <1>3, <1>4, <1>6 DEF RxRC3, Returns, TypeOK, statsVars

LEMMA NextType == TypeOK /\ [Next]_vars => TypeOK'
<1> SUFFICES ASSUME TypeOK, [Next]_vars PROVE TypeOK'
  OBVIOUS
<1>1. CASE Tick
  BY <1>1 DEF Tick, TypeOK, blacklistVars, statsVars
<1>2. CASE RxUndecoded
  BY <1>2, ReturnsType DEF RxUndecoded, Status
<1>3. ASSUME NEW m \in OpenStintMessages, RxOpenStint(m) PROVE TypeOK'
  BY <1>3, ReturnsType DEF RxOpenStint, Status
<1>4. ASSUME NEW m \in RC4Messages, RxRC4(m) PROVE TypeOK'
  BY <1>4, ReturnsType DEF RxRC4, Status
<1>5. ASSUME NEW s \in Status, RxRC3High(s) PROVE TypeOK'
  <2>1. (s = "clear") \in BOOLEAN
    OBVIOUS
  <2> QED BY <1>5, <2>1, ReturnsType DEF RxRC3High
<1>6. ASSUME NEW m \in RC3Messages, RxRC3(m[1], m[2]) PROVE TypeOK'
  <2>1. m[1] \in Ids /\ m[2] \in Status
    BY DEF RC3Messages
  <2> QED BY <1>6, <2>1, RC3Type
<1>7. CASE RxRegister
  <2>1. rx.processed \in BOOLEAN
    BY DEF TypeOK
  <2>2. /\ CountsOK(Count(rx_stats.counts, rx.processed))
        /\ CountsOK(Count(frames, rx.processed))
        /\ CountsOK(Count(missed, rx.processed))
    BY <2>1, CountLemma DEF TypeOK
  <2>3. /\ rx_stats'.counts = Count(rx_stats.counts, rx.processed)
        /\ rx_stats' \in [counts : Counts, last_reset : Nat]
    BY <1>7, <2>2 DEF RxRegister, TypeOK, CountsOK
  <2>4. rx' \in [pc : {"seek", "register"}, processed : BOOLEAN]
    BY <1>7 DEF RxRegister, TypeOK
  <2>5. CountsOK(missed')
    BY <1>7, <2>2 DEF RxRegister, TypeOK
  <2>6. frames' = Count(frames, rx.processed) /\ reported' = reported
    BY <1>7 DEF RxRegister
  <2>7. UNCHANGED <<now, blacklistVars, reporter>>
    BY <1>7 DEF RxRegister
  <2> QED BY <2>2, <2>3, <2>4, <2>5, <2>6, <2>7 DEF TypeOK, blacklistVars
<1>8. CASE Report
  BY <1>8 DEF Report, TypeOK, blacklistVars
<1>9. CASE StatsToString
  <2>1. CountsOK(reported')
    BY <1>9, PlusLemma DEF StatsToString, TypeOK
  <2>2. reporter' \in [pc : {"idle", "to_string", "reset"}, now_ts : Nat]
    BY <1>9 DEF StatsToString, TypeOK
  <2> QED BY <1>9, <2>1, <2>2 DEF StatsToString, TypeOK, blacklistVars
<1>10. CASE Reset
  <2>1. rx_stats' = [counts |-> Zero, last_reset |-> reporter.now_ts]
    BY <1>10 DEF Reset, CountsAfterReset
  <2>2. rx_stats' \in [counts : Counts, last_reset : Nat] /\ CountsOK(rx_stats'.counts)
    BY <2>1, ZeroLemma DEF TypeOK, CountsOK
  <2> QED BY <1>10, <2>2 DEF Reset, TypeOK, blacklistVars
<1>11. CASE UNCHANGED vars
  BY <1>11 DEF TypeOK, vars, blacklistVars, statsVars
<1> QED BY <1>1, <1>2, <1>3, <1>4, <1>5, <1>6, <1>7, <1>8, <1>9, <1>10, <1>11 DEF Next

\* Every variable keeps its type; no sum of reports has more processed frames
\* than received ones.
THEOREM TypeCorrect == Spec => []TypeOK
BY InitType, NextType, PTL DEF Spec

----------------------------------------------------------------------------
(* Each frame is counted once.                                             *)

LEMMA NextOnce == TypeOK /\ EveryFrameOnce /\ [Next]_vars => EveryFrameOnce'
<1> SUFFICES ASSUME TypeOK, EveryFrameOnce, [Next]_vars PROVE EveryFrameOnce'
  OBVIOUS
<1>1. CASE UNCHANGED statsVars
  BY <1>1 DEF EveryFrameOnce, statsVars
<1>2. \A c \in {rx_stats.counts, frames, reported, missed, Zero} :
        c.received \in Nat /\ c.processed \in Nat
  BY ZeroLemma DEF TypeOK, CountsOK, Counts
<1>3. CASE RxRegister
  <2>1. CASE reporter.pc = "reset"
    <3>1. /\ frames' = Count(frames, rx.processed) /\ missed' = Count(missed, rx.processed)
          /\ reported' = reported /\ reporter' = reporter
      BY <1>3, <2>1 DEF RxRegister
    <3>2. frames = Plus(Plus(reported, missed), Zero)
      BY <2>1 DEF EveryFrameOnce
    <3>3. Count(frames, rx.processed) = Plus(Plus(reported, Count(missed, rx.processed)), Zero)
      BY <3>2, CountPlusLemma DEF TypeOK
    <3>4. reporter'.pc = "reset"
      BY <2>1, <3>1
    <3>5. (frames = Plus(Plus(reported, missed), Zero))'
      BY <3>1, <3>3 DEF Plus, Zero
    <3> QED BY <3>4, <3>5 DEF EveryFrameOnce
  <2>2. CASE reporter.pc # "reset"
    <3>1. /\ frames' = Count(frames, rx.processed) /\ missed' = missed
          /\ rx_stats'.counts = Count(rx_stats.counts, rx.processed)
          /\ reported' = reported /\ reporter' = reporter
      BY <1>3, <2>2 DEF RxRegister, TypeOK
    <3>2. frames = Plus(Plus(reported, missed), rx_stats.counts)
      BY <2>2 DEF EveryFrameOnce
    <3> QED BY <1>2, <2>2, <3>1, <3>2 DEF EveryFrameOnce, Plus, Count
  <2> QED BY <2>1, <2>2
<1>4. CASE Report
  BY <1>4 DEF Report, EveryFrameOnce
<1>5. CASE StatsToString
  <2>1. /\ frames = Plus(Plus(reported, missed), rx_stats.counts)
        /\ reported' = Plus(reported, rx_stats.counts)
        /\ frames' = frames /\ missed' = missed /\ reporter'.pc = "reset"
    BY <1>5 DEF StatsToString, EveryFrameOnce, TypeOK
  <2> QED BY <1>2, <2>1 DEF EveryFrameOnce, Plus, Zero
<1>6. CASE Reset
  <2>1. /\ frames = Plus(Plus(reported, missed), Zero)
        /\ frames' = frames /\ missed' = missed /\ reported' = reported
        /\ rx_stats'.counts = Zero
    BY <1>6 DEF Reset, EveryFrameOnce, CountsAfterReset
  <2> QED BY <2>1, <1>6 DEF EveryFrameOnce, Reset
<1>7. Tick => UNCHANGED statsVars
  BY DEF Tick
<1>8. ASSUME \/ RxUndecoded
             \/ \E m \in OpenStintMessages : RxOpenStint(m)
             \/ \E m \in RC4Messages : RxRC4(m)
             \/ \E s \in Status : RxRC3High(s)
             \/ \E m \in RC3Messages : RxRC3(m[1], m[2])
      PROVE  UNCHANGED statsVars
  BY <1>8 DEF RxUndecoded, RxOpenStint, RxRC4, RxRC3High, RxRC3, Returns
<1>9. UNCHANGED vars => UNCHANGED statsVars
  BY DEF vars
<1> QED BY <1>1, <1>3, <1>4, <1>5, <1>6, <1>7, <1>8, <1>9 DEF Next

\* Every frame is in one report, still counted, or was registered between
\* to_string and reset, whatever the order of the two threads.
THEOREM EveryFrameOnceCorrect == Spec => []EveryFrameOnce
<1>1. Init => EveryFrameOnce
  BY DEF Init, EveryFrameOnce, Plus, Zero
<1> QED BY <1>1, InitType, NextType, NextOnce, PTL DEF Spec

----------------------------------------------------------------------------
(* The blacklist.                                                          *)

BlacklistInv ==
    TypeOK /\ StampInv /\ EntryInv /\ BanInv /\ SuppressedForCause /\ GhostStopped

LEMMA InitBlacklist == Init => BlacklistInv
<1> SUFFICES ASSUME Init PROVE BlacklistInv
  OBVIOUS
<1>1. log = <<>> /\ Len(log) = 0 /\ banned_transponders = {}
  BY DEF Init
<1>2. \A b \in Bytes : ~HasEntry(b)
  BY DEF Init, HasEntry
<1>3. StampInv /\ EntryInv
  BY <1>1, <1>2 DEF StampInv, EntryInv
<1>4. BanInv
  BY <1>1 DEF BanInv
<1>5. SuppressedForCause /\ GhostStopped
  BY <1>1 DEF SuppressedForCause, GhostStopped
<1> QED BY <1>3, <1>4, <1>5, InitType DEF BlacklistInv

\* Where neither the blacklist nor the log changes, only the clock may.
LEMMA BlacklistUnchanged ==
    ASSUME BlacklistInv, TypeOK', UNCHANGED blacklistVars, now' >= now
    PROVE  BlacklistInv'
<1>1. now \in Nat /\ now' \in Nat /\ BufferSpan \in Nat
  BY TimeAssumption DEF BlacklistInv, TypeOK
<1>2. log' = log /\ msb8_timestamps' = msb8_timestamps
      /\ banned_transponders' = banned_transponders
  BY DEF blacklistVars
<1>3. StampInv'
  <2> SUFFICES ASSUME NEW m \in 1..Len(log)
               PROVE  log[m].timestamp >= 1 /\ log[m].timestamp =< now' + BufferSpan
    BY <1>2 DEF StampInv
  <2>1. log[m] \in Message
    BY DEF BlacklistInv, TypeOK
  <2>2. log[m].timestamp \in Nat
    BY <2>1 DEF Message
  <2>3. log[m].timestamp >= 1 /\ log[m].timestamp =< now + BufferSpan
    BY DEF BlacklistInv, StampInv
  <2> QED BY <1>1, <2>2, <2>3
<1>4. EntryInv'
  BY <1>2 DEF BlacklistInv, EntryInv, HasEntry
<1>5. BanInv'
  BY <1>2 DEF BlacklistInv, BanInv, Caused, Reveals
<1>6. SuppressedForCause' /\ GhostStopped'
  BY <1>2 DEF BlacklistInv, SuppressedForCause, GhostStopped, Reveals
<1> QED BY <1>3, <1>4, <1>5, <1>6 DEF BlacklistInv

\* An RC3 message: its entry, its ban and its place in the log.
LEMMA BlacklistRC3 ==
    ASSUME BlacklistInv, NEW id \in Ids, NEW s \in Status, RxRC3(id, s)
    PROVE  BlacklistInv'
<1>1. PICK ts \in (now - RxLag)..(now + BufferSpan) :
        /\ ts >= 1
        /\ msb8_timestamps' = Stamped(id, s, ts)
        /\ banned_transponders' = Banned(id, s, ts)
        /\ log' = Append(log, [id |-> id, status |-> s, timestamp |-> ts,
                               appended |-> IsPassing(id, s, ts)])
  BY DEF RxRC3
<1> DEFINE e == [id |-> id, status |-> s, timestamp |-> ts,
                 appended |-> IsPassing(id, s, ts)]
<1>0. PICK last : last = Len(log) + 1
  OBVIOUS
<1>2. /\ now \in Nat /\ now' = now /\ log \in Seq(Message)
      /\ msb8_timestamps \in [Bytes -> Nat]
      /\ BufferSpan \in Nat /\ RxLag \in Nat /\ Window \in Nat
      /\ Jitter = RxLag + BufferSpan
  BY TimeAssumption DEF BlacklistInv, TypeOK, RxRC3, Returns, Jitter
<1>3. ts \in Nat /\ now - RxLag =< ts /\ ts =< now + BufferSpan
  BY <1>1, <1>2
<1>4. /\ Len(log') = last /\ last \in Nat /\ log'[last] = e
      /\ \A i \in 1..Len(log) : log'[i] = log[i] /\ i \in 1..last /\ i # last
      /\ \A i \in 1..last : i \in 1..Len(log) \/ i = last
  BY <1>0, <1>1, <1>2
<1>5. \A i \in 1..Len(log) :
        /\ log[i].id \in Ids /\ log[i].status \in Status /\ log[i].timestamp \in Nat
        /\ log[i].timestamp =< now + BufferSpan
  <2> SUFFICES ASSUME NEW i \in 1..Len(log)
               PROVE  /\ log[i].id \in Ids /\ log[i].status \in Status
                      /\ log[i].timestamp \in Nat /\ log[i].timestamp =< now + BufferSpan
    OBVIOUS
  <2>1. log[i] \in Message
    BY <1>2
  <2> QED BY <2>1 DEF Message, BlacklistInv, StampInv
<1>6. /\ e.id = id /\ e.status = s /\ e.timestamp = ts
      /\ e.appended = IsPassing(id, s, ts)
  OBVIOUS
<1> HIDE DEF e
<1>7. StampInv'
  <2> SUFFICES ASSUME NEW m \in 1..last
               PROVE  log'[m].timestamp >= 1 /\ log'[m].timestamp =< now + BufferSpan
    BY <1>2, <1>4 DEF StampInv
  <2>1. CASE m \in 1..Len(log)
    BY <1>4, <2>1 DEF BlacklistInv, StampInv
  <2>2. CASE m = last
    BY <1>1, <1>3, <1>4, <1>6, <2>2
  <2> QED BY <1>4, <2>1, <2>2
<1>8. EntryInv'
  <2> SUFFICES ASSUME NEW b \in Bytes
               PROVE  /\ msb8_timestamps'[b] # 0 =>
                           \E m \in 1..last :
                             /\ log'[m].status = "count" /\ Msb8[log'[m].id] = b
                             /\ log'[m].timestamp = msb8_timestamps'[b]
                      /\ \A m \in 1..last :
                           log'[m].status = "count" /\ Msb8[log'[m].id] = b =>
                             /\ msb8_timestamps'[b] # 0
                             /\ log'[m].timestamp =< msb8_timestamps'[b] + Jitter
    BY <1>4 DEF EntryInv, HasEntry, Jitter
  <2>1. CASE s = "count" /\ Msb8[id] = b
    <3>1. msb8_timestamps'[b] = ts
      BY <1>1, <1>2, <2>1 DEF Stamped
    <3>2. log'[last].status = "count" /\ Msb8[log'[last].id] = b
          /\ log'[last].timestamp = ts /\ last \in 1..last
      BY <1>2, <1>4, <1>0, <1>6, <2>1
    <3>3. ASSUME NEW m \in 1..last PROVE log'[m].timestamp =< ts + Jitter
      <4>1. CASE m \in 1..Len(log)
        <5>1. log'[m] = log[m] /\ log[m].timestamp \in Nat
              /\ log[m].timestamp =< now + BufferSpan
          BY <1>4, <1>5, <4>1
        <5> HIDE DEF Jitter
        <5> QED BY <1>2, <1>3, <5>1
      <4>2. CASE m = last
        BY <1>2, <1>3, <3>2, <4>2
      <4> QED BY <1>4, <4>1, <4>2
    <3>4. ts # 0
      BY <1>1, <1>3
    <3> QED BY <3>1, <3>2, <3>3, <3>4
  <2>2. CASE ~(s = "count" /\ Msb8[id] = b)
    <3>1. msb8_timestamps'[b] = msb8_timestamps[b]
      BY <1>1, <1>2, <2>2 DEF Stamped
    <3>2. ASSUME NEW m \in 1..last, log'[m].status = "count", Msb8[log'[m].id] = b
          PROVE  m \in 1..Len(log)
      BY <1>4, <1>6, <2>2, <3>2
    <3>3. msb8_timestamps[b] # 0 =>
            \E m \in 1..Len(log) :
              /\ log[m].status = "count" /\ Msb8[log[m].id] = b
              /\ log[m].timestamp = msb8_timestamps[b]
      BY DEF BlacklistInv, EntryInv, HasEntry
    <3>4. \A m \in 1..Len(log) :
            log[m].status = "count" /\ Msb8[log[m].id] = b =>
              msb8_timestamps[b] # 0 /\ log[m].timestamp =< msb8_timestamps[b] + Jitter
      BY DEF BlacklistInv, EntryInv, HasEntry
    <3> QED BY <1>4, <3>1, <3>2, <3>3, <3>4
  <2> QED BY <2>1, <2>2
<1>9. \A i \in banned_transponders' :
        \E k \in 1..last : \E m \in 1..k : Caused(i, m, k)'
  <2> SUFFICES ASSUME NEW i \in banned_transponders'
               PROVE  \E k \in 1..last : \E m \in 1..k : Caused(i, m, k)'
    OBVIOUS
  <2>1. CASE i \in banned_transponders
    <3>1. PICK k \in 1..Len(log) : \E m \in 1..k : Caused(i, m, k)
      BY <2>1 DEF BlacklistInv, BanInv
    <3> PICK m \in 1..k : Caused(i, m, k)
      BY <3>1
    <3>2. k \in 1..last /\ m \in 1..Len(log) /\ log'[k] = log[k] /\ log'[m] = log[m]
      BY <1>2, <1>4
    <3> QED BY <3>2 DEF Caused, Reveals
  <2>2. CASE i \notin banned_transponders
    <3>1. /\ i = id /\ s = "all" /\ HasEntry(Msb8[id])
          /\ ts =< msb8_timestamps[Msb8[id]] + Window
      BY <1>1, <2>2 DEF Banned, Within
    <3>2. PICK m \in 1..Len(log) :
            /\ log[m].status = "count" /\ Msb8[log[m].id] = Msb8[id]
            /\ log[m].timestamp = msb8_timestamps[Msb8[id]]
      BY <3>1, IdAssumption DEF BlacklistInv, EntryInv
    <3>3. last \in 1..last /\ m \in 1..last
      BY <1>0, <1>2, <1>4
    <3>4. Caused(i, m, last)'
      BY <1>4, <1>6, <3>1, <3>2 DEF Caused, Reveals
    <3> QED BY <3>3, <3>4
  <2> QED BY <2>1, <2>2
<1>10. \A m, k \in 1..last :
         /\ m < k /\ Reveals(m, k)'
         /\ log'[k].timestamp =< log'[m].timestamp + Window - Jitter
         => log'[k].id \in banned_transponders'
  <2> SUFFICES ASSUME NEW m \in 1..last, NEW k \in 1..last, m < k, Reveals(m, k)',
                      log'[k].timestamp =< log'[m].timestamp + Window - Jitter
               PROVE  log'[k].id \in banned_transponders'
    OBVIOUS
  <2>1. m \in 1..Len(log)
    BY <1>0, <1>2, <1>4
  <2>2. CASE k \in 1..Len(log)
    <3>1. log[k].id \in banned_transponders
      BY <1>4, <2>1, <2>2 DEF BlacklistInv, BanInv, Reveals
    <3> QED BY <1>1, <1>4, <2>2, <3>1 DEF Banned
  <2>3. CASE k = last
    <3>1. /\ s = "all" /\ log[m].status = "count" /\ Msb8[log[m].id] = Msb8[id]
          /\ ts =< log[m].timestamp + Window - Jitter
      BY <1>4, <1>6, <2>1, <2>3 DEF Reveals
    <3>2. Msb8[id] \in Bytes /\ msb8_timestamps[Msb8[id]] \in Nat
      BY <1>2, IdAssumption
    <3>3. HasEntry(Msb8[id]) /\ log[m].timestamp =< msb8_timestamps[Msb8[id]] + Jitter
      BY <2>1, <3>1, <3>2 DEF BlacklistInv, EntryInv
    <3>4. Within(Msb8[id], ts)
      <4>1. log[m].timestamp \in Nat /\ Jitter \in Nat
        BY <1>2, <1>5, <2>1
      <4>2. ASSUME NEW a \in Nat, NEW b \in Nat, NEW w \in Nat, NEW j \in Nat,
                   NEW t \in Nat, t =< a + w - j, a =< b + j
            PROVE  t =< b + w
        BY <4>2
      <4> QED BY <1>2, <1>3, <3>1, <3>2, <3>3, <4>1, <4>2 DEF Within
    <3> QED BY <1>1, <1>4, <1>6, <2>3, <3>1, <3>3, <3>4 DEF Banned
  <2> QED BY <1>4, <2>2, <2>3
<1>11. BanInv'
  BY <1>4, <1>9, <1>10 DEF BanInv, Jitter
<1>12. SuppressedForCause'
  <2> SUFFICES ASSUME NEW n \in 1..last, log'[n].status = "all", ~log'[n].appended,
                      NEW i, i = log'[n].id
               PROVE  \E k \in 1..n : \E m \in 1..k : Caused(i, m, k)'
    BY <1>4 DEF SuppressedForCause, Caused
  <2>1. CASE n \in 1..Len(log)
    <3>1. PICK k \in 1..n : \E m \in 1..k :
            log[k].id = log[n].id /\ Reveals(m, k) /\ log[k].timestamp =< log[m].timestamp + Window
      BY <1>4, <2>1 DEF BlacklistInv, SuppressedForCause
    <3>4. PICK m \in 1..k :
            log[k].id = log[n].id /\ Reveals(m, k) /\ log[k].timestamp =< log[m].timestamp + Window
      BY <3>1
    <3>2. k \in 1..Len(log) /\ m \in 1..Len(log)
      BY <1>2, <2>1
    <3>3. log'[k] = log[k] /\ log'[m] = log[m] /\ log'[n] = log[n]
      BY <1>4, <2>1, <3>2
    <3> QED BY <3>4, <3>3 DEF Caused, Reveals
  <2>2. CASE n = last
    <3>1. id \in banned_transponders' /\ log'[n].id = id
      BY <1>1, <1>4, <1>6, <2>2 DEF IsPassing
    <3> QED BY <1>9, <2>2, <3>1
  <2> QED BY <1>4, <2>1, <2>2
<1>13. GhostStopped'
  <2> SUFFICES ASSUME NEW m \in 1..last, NEW k \in 1..last, NEW n \in 1..last,
                      m < k, k =< n, Reveals(m, k)',
                      log'[k].timestamp =< log'[m].timestamp + Window - Jitter,
                      log'[n].id = log'[k].id, log'[n].status = "all"
               PROVE  ~log'[n].appended
    BY <1>4 DEF GhostStopped, Jitter
  <2>1. CASE n \in 1..Len(log)
    <3>1. k \in 1..Len(log) /\ m \in 1..Len(log)
      BY <1>2, <2>1
    <3>2. log'[k] = log[k] /\ log'[m] = log[m] /\ log'[n] = log[n]
      BY <1>4, <2>1, <3>1
    <3> QED BY <2>1, <3>1, <3>2 DEF BlacklistInv, GhostStopped, Reveals
  <2>2. CASE n = last
    <3>1. id \in Banned(id, s, ts) /\ s = "all"
      BY <1>1, <1>4, <1>6, <1>10, <2>2
    <3>2. ~IsPassing(id, s, ts)
      BY <3>1 DEF IsPassing
    <3> QED BY <1>4, <1>6, <2>2, <3>2
  <2> QED BY <1>4, <2>1, <2>2
<1>14. TypeOK'
  BY RC3Type DEF BlacklistInv
<1> QED BY <1>7, <1>8, <1>11, <1>12, <1>13, <1>14 DEF BlacklistInv

LEMMA NextBlacklist == BlacklistInv /\ [Next]_vars => BlacklistInv'
<1> SUFFICES ASSUME BlacklistInv, [Next]_vars PROVE BlacklistInv'
  OBVIOUS
<1>1. TypeOK' /\ now \in Nat
  BY NextType DEF BlacklistInv, TypeOK
<1>2. ASSUME NEW m \in RC3Messages, RxRC3(m[1], m[2]) PROVE BlacklistInv'
  <2>1. m[1] \in Ids /\ m[2] \in Status
    BY DEF RC3Messages
  <2> QED BY <1>2, <2>1, BlacklistRC3
<1>3. CASE Tick
  BY <1>1, <1>3, BlacklistUnchanged DEF Tick
<1>4. ASSUME \/ RxUndecoded
             \/ \E m \in OpenStintMessages : RxOpenStint(m)
             \/ \E m \in RC4Messages : RxRC4(m)
             \/ \E s \in Status : RxRC3High(s)
      PROVE  UNCHANGED blacklistVars /\ now' = now
  BY <1>4 DEF RxUndecoded, RxOpenStint, RxRC4, RxRC3High, Returns
<1>5. ASSUME RxRegister \/ Report \/ StatsToString \/ Reset
      PROVE  UNCHANGED blacklistVars /\ now' = now
  BY <1>5 DEF RxRegister, Report, StatsToString, Reset
<1>6. UNCHANGED vars => UNCHANGED blacklistVars /\ now' = now
  BY DEF vars
<1>7. UNCHANGED blacklistVars /\ now' = now => BlacklistInv'
  BY <1>1, BlacklistUnchanged
<1> QED BY <1>2, <1>3, <1>4, <1>5, <1>6, <1>7 DEF Next

\* A transponder is silenced for a cause only.
THEOREM SuppressedForCauseCorrect == Spec => []SuppressedForCause
<1>1. BlacklistInv => SuppressedForCause
  BY DEF BlacklistInv
<1> QED BY <1>1, InitBlacklist, NextBlacklist, PTL DEF Spec

\* From the first pair within the window (less the jitter of the stamps) on,
\* a revealed identifier is never a detection again.
THEOREM GhostStoppedCorrect == Spec => []GhostStopped
<1>1. BlacklistInv => GhostStopped
  BY DEF BlacklistInv
<1> QED BY <1>1, InitBlacklist, NextBlacklist, PTL DEF Spec
============================================================================
