---------------------------- MODULE RC4Learning ----------------------------
(***************************************************************************)
(* Learning an RC4 transponder: the trainer, the registry (its map in      *)
(* memory) and the AMB detections of the passing detector, as the receiver *)
(* thread (process_frame) and the reporter (report_detections) use them    *)
(* together.  Each of the three has a mutex of its own and each call takes *)
(* it anew, so the receiver may append between any two calls of the        *)
(* reporter's DONE branch, and the registry may change between the         *)
(* receiver's lookup and its append to the trainer.                        *)
(*                                                                         *)
(* The payloads of a car are one model value, the car itself.  A hybrid    *)
(* car also sends RC3 messages, which carry its real identifier.           *)
(***************************************************************************)
EXTENDS Integers, Sequences, FiniteSets

CONSTANTS
    Cars,          \* cars with an RC4 transponder
    RealId,        \* car -> the identifier in its RC3 messages, 0 if pure RC4
    AutoBase,      \* 1000
    AutoTop,       \* 9999; bound: no identifier beyond it is assigned
    QuietTime,     \* the 250 ms of report_detections
    RssiLimit, StartCount, MaxBuffer, StartSpread, TrainSpread, FreshLimit,
    StartWindow, GapLimit, ResetLimit, RxLag, PollLimit, Wrap,
    MaxTime, MaxRxTime

VARIABLES
    now, state, buffer, since, result,  \* as in RC4Trainer
    reporter,          \* the main thread, with the locals of the DONE branch;
                       \* history: whose RC3 identifier passings_between saw
    rx,                \* the receiver thread: the RC4 frame it is handling
    registry,          \* RC4Registry::registry, 0 where there is no entry
    next_transponder,  \* RC4Registry::next_transponder
    pending,           \* AMB detections: identifier -> first and last stamp
    heard,             \* history: identifier -> last stamp of a frame of it, or Never
    sources,           \* history: identifier -> cars heard in what is pending
    session            \* history: first stamp of the session, the cars on the
                       \* loop since, and what its first messages knew them by

DoneSteps == {"preferred", "payloads", "timerange", "between", "store"}

Level == RssiLimit + 1      \* the one signal strength: strong and stable

trainerVars == <<state, buffer, since>>
registryVars == <<registry, next_transponder>>
detectionVars == <<pending, heard, sources>>
vars == <<now, trainerVars, result, reporter, rx, registryVars, detectionVars, session>>

RealIds == {RealId[c] : c \in Cars} \ {0}
AllIds == RealIds \cup AutoBase..AutoTop

Trainer == INSTANCE RC4Trainer WITH
    reporter <- [pc |-> IF reporter.pc \in {"passings", "evaluate"}
                        THEN "evaluate" ELSE "idle",
                 now_ts |-> IF reporter.pc \in {"passings", "evaluate"}
                            THEN reporter.now_ts ELSE 0,
                 polled |-> reporter.polled],
    Data <- [payload : Cars, id : AllIds \cup {0}],
    Rssi <- {Level},
    BufferSpan <- 0,
    MaxRxTime <- MaxRxTime + RxLag    \* the last frame is handled until then

ASSUME IdAssumption ==
    /\ AutoBase \in Nat \ {0} /\ AutoTop \in Nat /\ AutoBase =< AutoTop
    /\ RealId \in [Cars -> Nat] /\ RealIds \cap (AutoBase..AutoTop) = {}

\* A session goes on for two messages at least (the code: 128 of 8196
\* start it).
ASSUME LengthAssumption == StartCount + 2 =< MaxBuffer

----------------------------------------------------------------------------
(* The rules of the DONE branch.                                           *)

\* preferred_transponder_id: the first entry whose payload was known.
Preferred(buf) ==
    LET known == {i \in 1..Len(buf) : buf[i].data.id # 0}
    IN  IF known = {} THEN 0
        ELSE buf[CHOOSE i \in known : \A j \in known : i =< j].data.id

\* registry_payloads: payloads that occur more than once.
Payloads(buf) ==
    {c \in Cars : Cardinality({i \in 1..Len(buf) : buf[i].data.payload = c}) > 1}

\* passings_between, for the AMB system.
Between(from, until) ==
    {i \in AllIds : /\ pending[i] # <<>>
                    /\ pending[i][1] =< until
                    /\ pending[i][2] >= from}

\* An RC3 identifier was heard around the time of the buffer and is not forgotten.
RC3Pending(c) ==
    /\ RealId[c] # 0 /\ pending[RealId[c]] # <<>>
    /\ pending[RealId[c]][1] =< reporter.until
    /\ pending[RealId[c]][2] >= reporter.from

\* A detected identifier is used if nothing is preferred and it is the only one.
ChooseNever(id, detected) == id
ChooseId(id, detected) ==
    IF id = 0 /\ Cardinality(detected) = 1 THEN CHOOSE i \in detected : TRUE ELSE id

\* RC4Registry::store
Assigned(id) == IF id = 0 THEN next_transponder ELSE id
Store(id, cs) ==
    /\ registry' = [c \in Cars |-> IF c \in cs THEN Assigned(id) ELSE registry[c]]
    /\ next_transponder' =
         IF id = 0 THEN next_transponder + 1
         ELSE IF id \in AutoBase..AutoTop /\ id + 1 > next_transponder
              THEN id + 1 ELSE next_transponder

\* identify_passings: what has been quiet long enough is forgotten.
Deadline(t) == IF t > QuietTime THEN t - QuietTime ELSE 0
DropOld(t) ==
    [i \in AllIds |-> IF pending[i] # <<>> /\ pending[i][2] =< Deadline(t)
                      THEN <<>> ELSE pending[i]]

\* The trainer is evaluated for the clock reading at the start of the report.
EvaluatedNow == now
EvaluatedAt == reporter.now_ts

\* A detection under an identifier extends what is pending for it.
Extended(p, ts) == IF p = <<>> THEN <<ts, ts>> ELSE <<p[1], ts>>

----------------------------------------------------------------------------
Reporting(pc, t) ==
    [pc |-> pc, now_ts |-> t, polled |-> reporter.polled,
     id |-> 0, payloads |-> {}, from |-> 0, until |-> 0, rc3 |-> {}]

Never == -1
NoSession == [start |-> 0, crowd |-> {}, known |-> [c \in Cars |-> {}]]

Init ==
    /\ now = RxLag
    /\ state = "IDLE" /\ buffer = <<>> /\ since = 0 /\ result = "NO_ACTION"
    /\ reporter = [pc |-> "idle", now_ts |-> 0, polled |-> RxLag,
                   id |-> 0, payloads |-> {}, from |-> 0, until |-> 0, rc3 |-> {}]
    /\ rx = {}
    /\ registry = [c \in Cars |-> 0]
    /\ next_transponder = AutoBase
    /\ pending = [i \in AllIds |-> <<>>]
    /\ heard = [i \in AllIds |-> Never]
    /\ sources = [i \in AllIds |-> {}]
    /\ session = NoSession

\* Time passes while neither thread is late.
Tick ==
    /\ now < MaxTime
    /\ now < reporter.polled + PollLimit
    /\ \A f \in rx : now < f.timestamp + RxLag
    /\ now' = now + 1
    /\ result' = "NO_ACTION"
    /\ UNCHANGED <<trainerVars, reporter, rx, registryVars, detectionVars, session>>

InSession == state = "TRAINING" \/ reporter.pc \in DoneSteps

OnLoop(c) ==
    session' = IF InSession THEN [session EXCEPT !.crowd = @ \cup {c}] ELSE session

\* process_frame on an RC4 message looks the payload up ...
RxLookup(c) ==
    /\ rx = {}
    /\ now =< MaxRxTime
    /\ rx' = {[timestamp |-> now, car |-> c, id |-> registry[c],
               detected |-> registry[c] = 0]}
    /\ OnLoop(c)
    /\ UNCHANGED <<now, trainerVars, result, reporter, registryVars, detectionVars>>

Detect(id, c, ts) ==
    /\ pending' = [pending EXCEPT ![id] = Extended(@, ts)]
    /\ heard' = [heard EXCEPT ![id] = ts]
    /\ sources' = [sources EXCEPT ![id] = IF pending[id] = <<>> THEN {c} ELSE @ \cup {c}]

\* ... appends a detection if it is known ...
RxDetection ==
    /\ \E f \in rx :
         /\ ~f.detected
         /\ Detect(f.id, f.car, f.timestamp)
         /\ rx' = {[f EXCEPT !.detected = TRUE]}
    /\ UNCHANGED <<now, trainerVars, result, reporter, registryVars, session>>

\* ... and an entry to the trainer in any case.
RxTrainer ==
    /\ \E f \in rx :
         /\ f.detected
         /\ Trainer!AppendEntry([timestamp |-> f.timestamp, rssi |-> Level,
                                 data |-> [payload |-> f.car, id |-> f.id]])
    /\ rx' = {}
    /\ result' = "NO_ACTION"
    /\ UNCHANGED <<now, reporter, registryVars, detectionVars, session>>

\* process_frame on an RC3 message of a hybrid car.
RxRC3(c) ==
    /\ rx = {}
    /\ now =< MaxRxTime
    /\ RealId[c] # 0
    /\ Detect(RealId[c], c, now)
    /\ OnLoop(c)
    /\ UNCHANGED <<now, trainerVars, result, reporter, rx, registryVars>>

Report ==
    /\ reporter.pc = "idle"
    /\ reporter' = Reporting("passings", now)
    /\ result' = "NO_ACTION"
    /\ UNCHANGED <<now, trainerVars, rx, registryVars, detectionVars, session>>

IdentifyPassings ==
    /\ reporter.pc = "passings"
    /\ pending' = DropOld(reporter.now_ts)
    /\ reporter' = [reporter EXCEPT !.pc = "evaluate"]
    /\ UNCHANGED <<now, trainerVars, result, rx, registryVars, heard, sources, session>>

\* Who a session begins with, and by what its first messages, and the next one
\* looked up, know a car.
CrowdAtStart(buf) ==
    {buf[j].data.payload : j \in 1..Len(buf)}
      \cup {f.car : f \in rx}
      \cup UNION {sources[i] : i \in {k \in AllIds : pending[k] # <<>>}}
KnownAtStart(buf) ==
    [c \in Cars |->
       ({registry[c]}
          \cup {buf[j].data.id : j \in {k \in 1..Len(buf) : buf[k].data.payload = c}}
          \cup {f.id : f \in {g \in rx : g.car = c}}) \ {0}]

Evaluate ==
    /\ reporter.pc = "evaluate"
    /\ Trainer!EvaluateAt(EvaluatedAt)
    /\ reporter' = [Reporting(IF result' = "DONE" THEN "preferred" ELSE "idle", 0)
                    EXCEPT !.polled = reporter.now_ts]
    /\ session' =
         CASE result' = "START" ->
              [start |-> Trainer!LastEntries(buffer')[1].timestamp,
               crowd |-> CrowdAtStart(buffer'), known |-> KnownAtStart(buffer')]
           [] result' = "INTERRUPTED" -> NoSession
           [] OTHER -> session
    /\ UNCHANGED <<now, rx, registryVars, detectionVars>>

\* The DONE branch, call by call.
DonePreferred ==
    /\ reporter.pc = "preferred"
    /\ reporter' = [reporter EXCEPT !.pc = "payloads", !.id = Preferred(buffer)]
    /\ UNCHANGED <<now, trainerVars, result, rx, registryVars, detectionVars, session>>

DonePayloads ==
    /\ reporter.pc = "payloads"
    /\ reporter' = [reporter EXCEPT !.pc = "timerange", !.payloads = Payloads(buffer)]
    /\ UNCHANGED <<now, trainerVars, result, rx, registryVars, detectionVars, session>>

DoneTimerange ==
    /\ reporter.pc = "timerange"
    /\ reporter' = [reporter EXCEPT !.pc = "between",
                      !.from = buffer[1].timestamp,
                      !.until = buffer[Len(buffer)].timestamp]
    /\ UNCHANGED <<now, trainerVars, result, rx, registryVars, detectionVars, session>>

DoneBetween ==
    /\ reporter.pc = "between"
    /\ reporter' = [reporter EXCEPT !.pc = "store",
                      !.id = ChooseId(@, Between(reporter.from, reporter.until)),
                      !.rc3 = {c \in Cars : RC3Pending(c)}]
    /\ UNCHANGED <<now, trainerVars, result, rx, registryVars, detectionVars, session>>

DoneStore ==
    /\ reporter.pc = "store"
    /\ reporter.id = 0 => next_transponder =< AutoTop
    /\ Store(reporter.id, reporter.payloads)
    /\ reporter' = Reporting("idle", 0)
    /\ session' = NoSession
    /\ UNCHANGED <<now, trainerVars, result, rx, detectionVars>>

Receiver ==
    \/ \E c \in Cars : RxLookup(c) \/ RxRC3(c)
    \/ RxDetection
    \/ RxTrainer

Learner ==
    \/ Report \/ IdentifyPassings \/ Evaluate
    \/ DonePreferred \/ DonePayloads \/ DoneTimerange \/ DoneBetween \/ DoneStore

Next == Tick \/ Receiver \/ Learner

Spec == Init /\ [][Next]_vars

----------------------------------------------------------------------------
\* Types of every variable.
TypeOK ==
    /\ now \in Nat
    /\ Trainer!TypeOK
    /\ reporter \in [pc : {"idle", "passings", "evaluate"} \cup DoneSteps,
                     now_ts : Nat, polled : Nat, id : AllIds \cup {0},
                     payloads : SUBSET Cars, from : Nat, until : Nat,
                     rc3 : SUBSET Cars]
    /\ rx \subseteq [timestamp : Nat, car : Cars, id : AllIds \cup {0}, detected : BOOLEAN]
    /\ registry \in [Cars -> AllIds \cup {0}]
    /\ next_transponder \in AutoBase..(AutoTop + 1)
    /\ pending \in [AllIds -> {<<>>} \cup (Nat \X Nat)]
    /\ heard \in [AllIds -> Nat \cup {Never}]
    /\ sources \in [AllIds -> SUBSET Cars]
    /\ session \in [start : Nat, crowd : SUBSET Cars, known : [Cars -> SUBSET AllIds]]

\* The receiver handles one frame at a time, within RxLag, in the order of
\* their stamps; what is known is detected before it goes to the trainer.
FrameInv ==
    /\ \A f, g \in rx : f = g
    /\ \A f \in rx :
         /\ f.timestamp =< now /\ now =< f.timestamp + RxLag
         /\ f.timestamp =< MaxRxTime
         /\ f.id = 0 => f.detected
         /\ f.id # 0 /\ f.detected => heard[f.id] >= f.timestamp
         /\ \A i \in AllIds : heard[i] =< f.timestamp
    /\ \A i \in AllIds :
         /\ heard[i] =< now
         /\ pending[i] # <<>> => pending[i][2] =< heard[i]

\* The entries of the trainer have ascending stamps, and each that carries an
\* identifier was heard under it.
EntryInv ==
    \A j \in 1..Len(buffer) :
      /\ buffer[j].timestamp =< now
      /\ \A f \in rx : buffer[j].timestamp =< f.timestamp
      /\ \A k \in 1..j : buffer[k].timestamp =< buffer[j].timestamp
      /\ buffer[j].data.id # 0 => heard[buffer[j].data.id] >= buffer[j].timestamp

\* The buffer of a session holds nothing that is older than it, so neither does
\* what the DONE branch has made of it.
SinceStartInv ==
    /\ reporter.pc \in DoneSteps => state = "FINALIZING"
    /\ InSession =>
         buffer # <<>> /\ \A j \in 1..Len(buffer) : session.start =< buffer[j].timestamp
    /\ reporter.pc = "between" => session.start =< reporter.from
    /\ reporter.pc \in DoneSteps \ {"preferred"} /\ reporter.id # 0 =>
         heard[reporter.id] >= session.start

\* What is not known was never looked up with success, and is detected under its
\* real identifier only.
UnknownInv ==
    /\ \A i \in AllIds : pending[i] # <<>> => sources[i] # {}
    /\ \A c \in Cars : registry[c] = 0 =>
         /\ \A j \in 1..Len(buffer) : buffer[j].data.payload = c => buffer[j].data.id = 0
         /\ \A f \in rx : f.car = c => f.id = 0
         /\ \A i \in AllIds : pending[i] # <<>> /\ c \in sources[i] => i = RealId[c]

\* Whatever takes part in a session is in its crowd, under an identifier that is
\* known of it; what was looked up after START has the one of the registry.
CrowdInv ==
    InSession =>
      /\ \A j \in 1..Len(buffer) :
           /\ buffer[j].data.payload \in session.crowd
           /\ buffer[j].data.id \in session.known[buffer[j].data.payload] \cup {0}
           /\ j > Len(buffer) - since + 1 =>
                buffer[j].data.id = registry[buffer[j].data.payload]
      /\ \A f \in rx :
           /\ f.car \in session.crowd
           /\ f.id \in session.known[f.car] \cup {0}
           /\ since # 0 => f.id = registry[f.car]
      /\ \A i \in AllIds : pending[i] # <<>> => sources[i] \subseteq session.crowd
      /\ \A c \in Cars : IF registry[c] = 0 THEN session.known[c] = {}
                         ELSE registry[c] \in session.known[c]
      /\ Len(buffer) =< StartCount + since

\* What the DONE branch has decided so far if one car was alone.
DecidedInv ==
    /\ reporter.pc \in DoneSteps => Trainer!Full(buffer)
    /\ reporter.pc \in DoneSteps \ {"preferred"} =>
         \A c \in Cars : session.crowd = {c} =>
           IF registry[c] # 0 THEN reporter.id \in session.known[c]
           ELSE reporter.id = IF reporter.pc = "store" /\ c \in reporter.rc3
                              THEN RealId[c] ELSE 0
    /\ \A c \in reporter.rc3 : RealId[c] # 0

\* What the trainer promises still holds with the DONE branch and the lookups
\* around it: the composition implements the trainer's specification.
TrainerSpec == Trainer!Spec

\* An identifier is never taken from a car of the past: what is stored is a
\* new automatic identifier or one under which a frame was received since the
\* session began, although the buffer, the pending detections and the registry
\* may all change between the five calls that decide it.
IdFromSession ==
    [][DoneStore =>
         \/ reporter.id = 0
         \/ heard[reporter.id] >= session.start - RxLag]_vars

\* One car alone on the loop since the session began is learned as itself: by
\* an identifier that the messages at the begin of the session know it by; if none
\* knew it, by its real one exactly if RC3 messages of it were pending around the
\* time of the buffer when passings_between was asked, and else by a new automatic
\* one (docs/rc4.md: hybrids are assigned their real identifier).
AloneIsItself ==
    [][\A c \in Cars :
         DoneStore /\ session.crowd = {c} /\ c \in reporter.payloads =>
           IF session.known[c] # {}
           THEN registry'[c] \in session.known[c]
           ELSE registry'[c] = IF c \in reporter.rc3 THEN RealId[c]
                               ELSE next_transponder]_vars
============================================================================
