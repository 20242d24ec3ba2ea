----------------------------- MODULE RC4Trainer -----------------------------
(***************************************************************************)
(* The RC4 trainer (class RC4Trainer, src/rc4.cpp) between the two threads *)
(* that use it.  The receiver appends an entry for each valid RC4 message; *)
(* the reporter calls evaluate once per report_detections, with the clock  *)
(* reading taken when report_detections was entered.  A car parked on the  *)
(* loop sends a stable signal: START; the signal is lost or moves:         *)
(* INTERRUPTED; the buffer is full: DONE; and once the car left: RESET.    *)
(*                                                                         *)
(* Strengths (RSSI) are integers in dB.  A frame is stamped with the start *)
(* of its buffer plus its offset: at most RxLag behind the clock when it   *)
(* is handled and at most BufferSpan ahead, in any order.                  *)
(***************************************************************************)
EXTENDS Integers, Sequences, FiniteSets

CONSTANTS
    Data,          \* what else an entry holds: payload and looked up id
    Rssi,          \* signal strengths that occur
    RssiLimit,     \* RC4_TRAINING_RSSI_LIMIT
    StartCount,    \* 128 entries start a session
    MaxBuffer,     \* BUFFER_MAX_SIZE
    StartSpread,   \* 2 dB
    TrainSpread,   \* 3 dB
    FreshLimit,    \* 100 ms
    StartWindow,   \* 1 s
    GapLimit,      \* 500 ms
    ResetLimit,    \* 1 s
    BufferSpan,    \* length of a sample buffer
    RxLag,         \* timing assumption: how late a frame is ever handled
    PollLimit,     \* timing assumption: the longest time between the clock
                   \* reading of a report and the evaluate of the next one
    Wrap,          \* 2^64
    MaxTime,       \* bound: the clock stops here
    MaxRxTime      \* bound: no frame arrives after this

ASSUME CountAssumption ==
    /\ StartCount \in Nat \ {0} /\ MaxBuffer \in Nat /\ StartCount =< MaxBuffer
ASSUME LevelAssumption ==
    /\ Rssi \subseteq Int /\ RssiLimit \in Int
    /\ StartSpread \in Nat /\ TrainSpread \in Nat
ASSUME TimeAssumption ==
    /\ FreshLimit \in Nat /\ StartWindow \in Nat /\ GapLimit \in Nat
    /\ ResetLimit \in Nat /\ BufferSpan \in Nat /\ RxLag \in Nat
    /\ PollLimit \in Nat /\ MaxTime \in Nat /\ MaxRxTime \in Nat /\ Wrap \in Nat

\* A session starts on a fresher signal than the one that keeps it going.
ASSUME FreshAssumption == FreshLimit =< GapLimit

VARIABLES
    now,       \* the steady clock, relative to startup_ts
    state,     \* RC4Trainer::state
    buffer,    \* RC4Trainer::buffer
    reporter,  \* main thread: in a report or not, its now_ts, and the clock
               \* reading of the last report that evaluated
    result,    \* what the last step's evaluate returned
    since      \* history: how many entries at the end of buffer were
               \* appended after START

trainerVars == <<state, buffer, since>>
vars == <<now, trainerVars, reporter, result>>

Entry == [timestamp : Nat, rssi : Rssi, data : Data]

Results == {"NO_ACTION", "START", "INTERRUPTED", "DONE", "RESET"}

----------------------------------------------------------------------------
(* The rules of append and evaluate.                                       *)

Back(buf) == buf[Len(buf)]

\* push_back, and pop_front over BUFFER_MAX_SIZE.
PushUnbounded(buf, e) == Append(buf, e)
Push(buf, e) ==
    IF Len(buf) < MaxBuffer THEN Append(buf, e) ELSE Tail(Append(buf, e))

\* (int64_t)(timestamp - last.timestamp): signed, a frame may be newer than
\* the reporter's clock reading.
AgeUnsigned(t, e) == (t - e.timestamp) % Wrap
Age(t, e) == t - e.timestamp

\* mx->rssi - mn->rssi =< spread, over the entries of buf.
SpreadWithin(buf, spread) ==
    \A i, j \in 1..Len(buf) : buf[i].rssi - buf[j].rssi =< spread

LastEntries(buf) == SubSeq(buf, Len(buf) - StartCount + 1, Len(buf))

\* IDLE: the last StartCount entries are recent, strong, close and stable.
StartReady(t) ==
    /\ Len(buffer) >= StartCount
    /\ Age(t, Back(buffer)) =< FreshLimit
    /\ Back(buffer).rssi > RssiLimit
    /\ Back(buffer).timestamp - LastEntries(buffer)[1].timestamp =< StartWindow
    /\ SpreadWithin(LastEntries(buffer), StartSpread)

\* START forgets what came before the last StartCount entries.
KeepOlder(buf) == buf
DropAll(buf) == <<>>
Session(buf) == LastEntries(buf)

SignalKept(t) == Len(buffer) = 0
SignalLost(t) == Age(t, Back(buffer)) > GapLimit
BufferDrained(t) == Len(buffer) = 0
CarLeft(t) == Age(t, Back(buffer)) > ResetLimit
Full(buf) == Len(buf) >= MaxBuffer

----------------------------------------------------------------------------
(* evaluate(t), by state.                                                  *)

Start(t) ==
    /\ state = "IDLE" /\ StartReady(t)
    /\ state' = "TRAINING" /\ buffer' = Session(buffer)
    /\ since' = 0
    /\ result' = "START"

Interrupt(t) ==
    /\ state = "TRAINING"
    /\ SignalLost(t) \/ ~SpreadWithin(buffer, TrainSpread)
    /\ state' = "IDLE"
    /\ result' = "INTERRUPTED"
    /\ UNCHANGED <<buffer, since>>

Done(t) ==
    /\ state = "TRAINING"
    /\ ~SignalLost(t) /\ SpreadWithin(buffer, TrainSpread)
    /\ Full(buffer)
    /\ state' = "FINALIZING"
    /\ result' = "DONE"
    /\ UNCHANGED <<buffer, since>>

Reset(t) ==
    /\ state = "FINALIZING" /\ CarLeft(t)
    /\ state' = "IDLE"
    /\ result' = "RESET"
    /\ UNCHANGED <<buffer, since>>

NoAction(t) ==
    /\ \/ state = "IDLE" /\ ~StartReady(t)
       \/ state = "TRAINING" /\ ~SignalLost(t)
            /\ SpreadWithin(buffer, TrainSpread) /\ ~Full(buffer)
       \/ state = "FINALIZING" /\ ~CarLeft(t)
    /\ result' = "NO_ACTION"
    /\ UNCHANGED trainerVars

EvaluateAt(t) == Start(t) \/ Interrupt(t) \/ Done(t) \/ Reset(t) \/ NoAction(t)

\* RC4Trainer::append
AppendEntry(e) ==
    /\ buffer' = Push(buffer, e)
    /\ since' = IF since < Len(Push(buffer, e)) THEN since + 1 ELSE since
    /\ UNCHANGED state

----------------------------------------------------------------------------
Init ==
    /\ now = RxLag                    \* stamps are never negative
    /\ state = "IDLE"
    /\ buffer = <<>>
    /\ reporter = [pc |-> "idle", now_ts |-> 0, polled |-> RxLag]
    /\ result = "NO_ACTION"
    /\ since = 0

\* Time passes, but (PollLimit) the reporter is never that late.
Tick ==
    /\ now < MaxTime
    /\ now < reporter.polled + PollLimit
    /\ now' = now + 1
    /\ result' = "NO_ACTION"
    /\ UNCHANGED <<trainerVars, reporter>>

\* process_frame: a valid RC4 message.
Receive ==
    /\ now =< MaxRxTime
    /\ \E ts \in (now - RxLag)..(now + BufferSpan), r \in Rssi, d \in Data :
         AppendEntry([timestamp |-> ts, rssi |-> r, data |-> d])
    /\ result' = "NO_ACTION"
    /\ UNCHANGED <<now, reporter>>

\* report_detections reads the clock ...
Report ==
    /\ reporter.pc = "idle"
    /\ reporter' = [reporter EXCEPT !.pc = "evaluate", !.now_ts = now]
    /\ result' = "NO_ACTION"
    /\ UNCHANGED <<now, trainerVars>>

\* ... and evaluates the trainer at the end, with that reading.
Evaluate ==
    /\ reporter.pc = "evaluate"
    /\ EvaluateAt(reporter.now_ts)
    /\ reporter' = [pc |-> "idle", now_ts |-> 0, polled |-> reporter.now_ts]
    /\ UNCHANGED now

Next == Tick \/ Receive \/ Report \/ Evaluate

Spec == Init /\ [][Next]_vars

\* The clock runs and the main loop polls; frames may or may not arrive.
Fairness == WF_vars(Tick) /\ WF_vars(Report) /\ WF_vars(Evaluate)

FairSpec == Spec /\ Fairness

----------------------------------------------------------------------------
\* Types of every variable.  The buffer is never over BUFFER_MAX_SIZE.
TypeOK ==
    /\ now \in Nat
    /\ state \in {"IDLE", "TRAINING", "FINALIZING"}
    /\ buffer \in Seq(Entry)
    /\ Len(buffer) =< MaxBuffer
    /\ reporter \in [pc : {"idle", "evaluate"}, now_ts : Nat, polled : Nat]
    /\ result \in Results
    /\ since \in Nat /\ since =< Len(buffer)

\* buffer.back() is called without a check outside IDLE, and buffer.front()
\* after DONE: the buffer is not empty there, whatever START and append drop.
BufferNonEmpty == state # "IDLE" => buffer # <<>>

\* The clock is past RxLag, so that no stamp is negative, and past the
\* reporter's reading of it.
ClockInv == now >= RxLag /\ reporter.now_ts =< now

\* A session is left only for the reasons the protocol gives: INTERRUPTED if
\* no frame came for GapLimit or the strength spread over TrainSpread, RESET
\* if none came for ResetLimit, also when frames are newer than the reporter's
\* reading of the clock.
LeavesForCause ==
    [][LET silent(limit) == now - Back(buffer).timestamp > limit
       IN  /\ result' = "INTERRUPTED" => silent(GapLimit)
                \/ \E i, j \in 1..Len(buffer) : buffer[i].rssi - buffer[j].rssi > TrainSpread
           /\ result' = "RESET" => silent(ResetLimit)]_vars

\* A learned buffer is one stay on the loop: although the gap is only looked
\* at once per report, no two neighbouring entries of a running session are
\* further apart than GapLimit plus what a report and a buffer can hide.
MaxGap ==
    (IF GapLimit > RxLag THEN GapLimit ELSE RxLag) + BufferSpan + PollLimit

SessionContiguous ==
    state = "TRAINING" =>
      \A i \in 1..(Len(buffer) - 1) :
        i >= Len(buffer) - since =>
          buffer[i + 1].timestamp - buffer[i].timestamp =< MaxGap

\* What makes SessionContiguous inductive: the reporter reads the clock at least
\* every PollLimit, and the newest entry of a running session is as recent as
\* the last evaluate found it, or was appended since.
PollInv ==
    /\ reporter.polled =< now /\ now =< reporter.polled + PollLimit
    /\ reporter.pc = "evaluate" => reporter.polled =< reporter.now_ts
    /\ state = "TRAINING" =>
         Back(buffer).timestamp >=
           reporter.polled - (IF GapLimit > RxLag THEN GapLimit ELSE RxLag)

\* A session starts from, and only holds, entries of the last StartWindow
\* before it: what an earlier car left in the buffer is not learned.
StartsFresh ==
    [][result' = "START" =>
         \A i \in 1..Len(buffer') :
           buffer'[i].timestamp >= Back(buffer').timestamp - StartWindow
                                   - RxLag - BufferSpan]_vars

\* What StartsFresh rests on: stamps step back by no more than the time between
\* the latest and the earliest stamp a frame may get.
StampInv ==
    \A j \in 1..Len(buffer) :
      /\ buffer[j].timestamp =< now + BufferSpan
      /\ \A i \in 1..j :
           buffer[i].timestamp =< buffer[j].timestamp + RxLag + BufferSpan

\* Learning is never blocked for good: a session ends, because the car stays and
\* the buffer fills up, or because it leaves; and after DONE the trainer gets ready
\* for the next car once this one left.
SessionsGoOn ==
    /\ state = "TRAINING" ~> state # "TRAINING"
    /\ state = "FINALIZING" ~> state = "IDLE"
============================================================================
