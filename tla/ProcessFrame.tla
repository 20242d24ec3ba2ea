---------------------------- MODULE ProcessFrame ----------------------------
(***************************************************************************)
(* What becomes of a complete frame (process_frame, src/commons.cpp): it   *)
(* is decoded by its protocol, RC3 messages pass the blacklist of          *)
(* transponder identifiers that are really status messages                 *)
(* (AmbRcBlacklist, src/transponder.cpp), identifiers go to the passing    *)
(* detector, and the receive statistics (RxStatistics, src/counters.cpp)   *)
(* count it.  The receiver thread does this while the main thread prints   *)
(* and resets the statistics, each call under their mutex.                 *)
(*                                                                         *)
(* A status byte is "clear" (no counter in the low three bits), "count"    *)
(* (0xf9 to 0xfe: a status message for sure), "all" (0xff: the identifier  *)
(* of an old transponder, or a status message) or "foreign" (a counter     *)
(* without the upper five bits).  Frames are stamped as in PassingDetector.*)
(***************************************************************************)
EXTENDS Integers, Sequences, FiniteSets

CONSTANTS
    Ids,          \* seven digit identifiers seen in RC3 messages
    Bytes,        \* values of the top 8 bits of an identifier
    Msb8,         \* identifier -> its top 8 bits
    Window,       \* the 250 ms of AmbRcBlacklist
    Period,       \* REPORTING_PERIOD_US
    BufferSpan,   \* length of a sample buffer
    RxLag,        \* timing assumption: how late a frame is ever handled
    MaxTime,      \* bound: the clock stops here
    MaxFrames     \* bound: frames processed in a behaviour

ASSUME IdAssumption == Msb8 \in [Ids -> Bytes]
ASSUME TimeAssumption ==
    /\ Window \in Nat /\ Period \in Nat \ {0} /\ BufferSpan \in Nat
    /\ RxLag \in Nat /\ MaxTime \in Nat /\ MaxFrames \in Nat

VARIABLES
    now,              \* the steady clock
    rx,               \* receiver: seeking, or about to register a frame, with
                      \* its status byte and what process_frame returned
    msb8_timestamps,  \* AmbRcBlacklist: byte -> stamp of the latest status
                      \* message, 0 if none
    banned_transponders,
    rx_stats,         \* RxStatistics: frames_received, frames_processed,
                      \* last_reset_timestamp
    reporter,         \* main thread: where in report_detections, its now_ts
    log,              \* history: the RC3 messages, and if they were appended
    frames,           \* history: frames registered, and processed ones
    reported,         \* history: sums over all reports
    missed            \* history: what was registered between to_string and
                      \* reset

blacklistVars == <<msb8_timestamps, banned_transponders, log>>
statsVars == <<rx_stats, reporter, frames, reported, missed>>
vars == <<now, rx, blacklistVars, statsVars>>

Status == {"clear", "count", "all", "foreign"}

\* What may come out of the three decoders.
OpenStintMessages == {"identifier", "timesync", "other"}
RC3Messages == Ids \X Status
RC4Messages == {"known", "unknown"}

----------------------------------------------------------------------------
(* AmbRcBlacklist.  A stamp is at least 1, so 0 is "no entry".             *)

HasEntry(byte) == msb8_timestamps[byte] # 0

WithinExact(byte, ts) == ts = msb8_timestamps[byte]
Within(byte, ts) == ts =< msb8_timestamps[byte] + Window

Stamped(id, status, ts) ==
    IF status = "count" THEN [msb8_timestamps EXCEPT ![Msb8[id]] = ts]
    ELSE msb8_timestamps

BannedAnyTime(id, status, ts) ==
    IF status = "all" THEN banned_transponders \cup {id} ELSE banned_transponders
Banned(id, status, ts) ==
    IF status = "all" /\ HasEntry(Msb8[id]) /\ Within(Msb8[id], ts)
    THEN banned_transponders \cup {id} ELSE banned_transponders

\* append, or not, once the blacklist has seen the message.
IsPassing(id, status, ts) ==
    \/ status = "all" /\ id \notin Banned(id, status, ts)
    \/ status = "clear"

----------------------------------------------------------------------------
(* RxStatistics.                                                           *)

CountEither(c, processed) ==
    IF processed THEN [c EXCEPT !.processed = @ + 1] ELSE [c EXCEPT !.received = @ + 1]
Count(c, processed) ==
    [received |-> c.received + 1, processed |-> c.processed + (IF processed THEN 1 ELSE 0)]
Plus(c, d) ==
    [received |-> c.received + d.received, processed |-> c.processed + d.processed]
Zero == [received |-> 0, processed |-> 0]

ReportingDue(t) == t >= rx_stats.last_reset + Period

CountsAfterResetKept == rx_stats.counts
CountsAfterReset == Zero

----------------------------------------------------------------------------
Init ==
    /\ now = 1
    /\ rx = [pc |-> "seek", processed |-> FALSE]
    /\ msb8_timestamps = [b \in Bytes |-> 0]
    /\ banned_transponders = {}
    /\ rx_stats = [counts |-> Zero, last_reset |-> 0]
    /\ reporter = [pc |-> "idle", now_ts |-> 0]
    /\ log = <<>>
    /\ frames = Zero
    /\ reported = Zero
    /\ missed = Zero

Tick ==
    /\ now < MaxTime
    /\ now' = now + 1
    /\ UNCHANGED <<rx, blacklistVars, statsVars>>

CanProcess == rx.pc = "seek" /\ frames.received < MaxFrames

\* process_frame returns.
Returns(processed) ==
    /\ rx' = [pc |-> "register", processed |-> processed]
    /\ UNCHANGED <<now, statsVars>>

\* No preamble in the frame, no valid checksum, or an invalid RC4 message.
RxUndecoded ==
    /\ CanProcess
    /\ Returns(FALSE)
    /\ UNCHANGED blacklistVars

\* Identifiers and time syncs go to the passing detector (PassingDetector),
\* other numbers nowhere; RC4 messages go to the trainer (RC4Learning).
RxOpenStint(message) ==
    /\ CanProcess
    /\ Returns(TRUE)
    /\ UNCHANGED blacklistVars

RxRC4(message) ==
    /\ CanProcess
    /\ Returns(TRUE)
    /\ UNCHANGED blacklistVars

\* An RC3 message whose identifier has more than seven digits.
RxRC3High(status) ==
    /\ CanProcess
    /\ Returns(status = "clear")
    /\ UNCHANGED blacklistVars

RxRC3(id, status) ==
    /\ CanProcess
    /\ \E ts \in (now - RxLag)..(now + BufferSpan) :
         /\ ts >= 1
         /\ msb8_timestamps' = Stamped(id, status, ts)
         /\ banned_transponders' = Banned(id, status, ts)
         /\ log' = Append(log, [id |-> id, status |-> status, timestamp |-> ts,
                                appended |-> IsPassing(id, status, ts)])
    /\ Returns(TRUE)

\* register_frame
RxRegister ==
    /\ rx.pc = "register"
    /\ rx_stats' = [rx_stats EXCEPT !.counts = Count(@, rx.processed)]
    /\ frames' = Count(frames, rx.processed)
    /\ missed' = IF reporter.pc = "reset" THEN Count(missed, rx.processed) ELSE missed
    /\ rx' = [rx EXCEPT !.pc = "seek"]
    /\ UNCHANGED <<now, blacklistVars, reporter, reported>>

\* report_detections reads the clock and finds a report due ...
Report ==
    /\ reporter.pc = "idle" /\ ReportingDue(now)
    /\ reporter' = [pc |-> "to_string", now_ts |-> now]
    /\ UNCHANGED <<now, rx, blacklistVars, rx_stats, frames, reported, missed>>

\* ... to_string reads the counters ...
StatsToString ==
    /\ reporter.pc = "to_string"
    /\ reported' = Plus(reported, rx_stats.counts)
    /\ reporter' = [reporter EXCEPT !.pc = "reset"]
    /\ UNCHANGED <<now, rx, blacklistVars, rx_stats, frames, missed>>

\* ... and reset clears them.
Reset ==
    /\ reporter.pc = "reset"
    /\ rx_stats' = [counts |-> CountsAfterReset, last_reset |-> reporter.now_ts]
    /\ reporter' = [pc |-> "idle", now_ts |-> 0]
    /\ UNCHANGED <<now, rx, blacklistVars, frames, reported, missed>>

Next ==
    \/ Tick
    \/ RxUndecoded
    \/ \E m \in OpenStintMessages : RxOpenStint(m)
    \/ \E m \in RC4Messages : RxRC4(m)
    \/ \E s \in Status : RxRC3High(s)
    \/ \E m \in RC3Messages : RxRC3(m[1], m[2])
    \/ RxRegister
    \/ Report \/ StatsToString \/ Reset

Spec == Init /\ [][Next]_vars

----------------------------------------------------------------------------
Counts == [received : Nat, processed : Nat]
Message == [id : Ids, status : Status, timestamp : Nat, appended : BOOLEAN]

\* Types of every variable.  No counter of processed frames is over the one of
\* received frames, in the statistics or in any sum of reports.
CountsOK(c) == c \in Counts /\ c.processed =< c.received

TypeOK ==
    /\ now \in Nat
    /\ rx \in [pc : {"seek", "register"}, processed : BOOLEAN]
    /\ msb8_timestamps \in [Bytes -> Nat]
    /\ banned_transponders \subseteq Ids
    /\ rx_stats \in [counts : Counts, last_reset : Nat]
    /\ reporter \in [pc : {"idle", "to_string", "reset"}, now_ts : Nat]
    /\ log \in Seq(Message)
    /\ \A c \in {rx_stats.counts, frames, reported, missed} : CountsOK(c)

\* Message k has the identifier of a real transponder or of a status message,
\* and message m, with the same top 8 bits, says which.
Reveals(m, k) ==
    /\ log[m].status = "count" /\ log[k].status = "all"
    /\ Msb8[log[m].id] = Msb8[log[k].id]

\* A transponder is silenced for a cause only: one of its messages came after
\* a status message with the same top 8 bits and no later than Window from it.
SuppressedForCause ==
    \A n \in 1..Len(log) :
      log[n].status = "all" /\ ~log[n].appended =>
        \E k \in 1..n : \E m \in 1..k :
          /\ log[k].id = log[n].id
          /\ Reveals(m, k)
          /\ log[k].timestamp =< log[m].timestamp + Window

\* A ghost identifier is stopped by its repetition, not by the status message
\* itself (transponder.hpp:68 says otherwise): once a 0xff message of it
\* followed a status message with the same top 8 bits within Window, neither
\* it nor any later one counts as a detection, although only the latest status
\* message is kept for each byte and stamps step back between buffers.
Jitter == RxLag + BufferSpan

GhostStopped ==
    \A m, k, n \in 1..Len(log) :
      /\ m < k /\ k =< n
      /\ Reveals(m, k)
      /\ log[k].timestamp =< log[m].timestamp + Window - Jitter
      /\ log[n].id = log[k].id /\ log[n].status = "all"
      => ~log[n].appended

\* Every frame is in exactly one report, or still counted, or was registered
\* between to_string and reset: nothing else is lost and nothing is reported
\* twice, whenever the two threads take the mutex.
EveryFrameOnce ==
    frames = Plus(Plus(reported, missed),
                  IF reporter.pc = "reset" THEN Zero ELSE rx_stats.counts)

\* What makes SuppressedForCause and GhostStopped inductive.  Stamps: no frame
\* is newer than the buffer it came in.
StampInv ==
    \A m \in 1..Len(log) : log[m].timestamp >= 1 /\ log[m].timestamp =< now + BufferSpan

\* The entry of a byte is the stamp of a status message with that byte, and
\* none of them is newer by more than Jitter.
EntryInv ==
    \A b \in Bytes :
      /\ HasEntry(b) =>
           \E m \in 1..Len(log) :
             log[m].status = "count" /\ Msb8[log[m].id] = b
             /\ log[m].timestamp = msb8_timestamps[b]
      /\ \A m \in 1..Len(log) :
           log[m].status = "count" /\ Msb8[log[m].id] = b =>
             HasEntry(b) /\ log[m].timestamp =< msb8_timestamps[b] + Jitter

\* An identifier is banned for a cause, and whenever there was one.
Caused(id, m, k) == log[k].id = id /\ Reveals(m, k) /\ log[k].timestamp =< log[m].timestamp + Window

BanInv ==
    /\ \A id \in banned_transponders :
         \E k \in 1..Len(log) : \E m \in 1..k : Caused(id, m, k)
    /\ \A m, k \in 1..Len(log) :
         /\ m < k /\ Reveals(m, k)
         /\ log[k].timestamp =< log[m].timestamp + Window - Jitter
         => log[k].id \in banned_transponders
============================================================================
