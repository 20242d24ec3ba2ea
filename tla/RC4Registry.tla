---------------------------- MODULE RC4Registry ----------------------------
(***************************************************************************)
(* The file backed registry of RC4 transponders (RC4Registry and           *)
(* RC4FileBasedRegistry, src/rc4.cpp): a map from payload to transponder   *)
(* identifier in memory, and a directory with one file per identifier.     *)
(* The reporter thread stores what it learned and then, in every report,   *)
(* resynchronises the map with the directory; the receiver thread looks    *)
(* payloads up at any moment; the user adds, deletes and renames files at  *)
(* any moment, also while the directory is read; and the decoder may be    *)
(* stopped and started.                                                    *)
(*                                                                         *)
(* A payload is a model value; the payloads of one transponder may be      *)
(* learned under any identifier, and so may those of several together.     *)
(* Identifier 0 means "assign one"; the automatic identifiers 1000..9999   *)
(* are AutoBase..AutoTop.                                                  *)
(***************************************************************************)
EXTENDS Integers, FiniteSets

CONSTANTS
    Payloads,       \* payloads of RC4 transponders
    Ids,            \* identifiers that occur
    UserIds,        \* identifiers the user gives to files
    AutoBase,       \* 1000
    AutoTop,        \* 9999
    MaxChanges,     \* bound: changes of the directory by the user
    MaxLearned,     \* bound: training sessions
    MaxRestarts     \* bound: restarts of the decoder

None == -1

ASSUME IdAssumption ==
    /\ Ids \subseteq Nat /\ UserIds \subseteq Ids
    /\ AutoBase \in Nat \ {0} /\ AutoTop \in Nat /\ AutoBase =< AutoTop
ASSUME BoundAssumption ==
    MaxChanges \in Nat /\ MaxLearned \in Nat /\ MaxRestarts \in Nat

VARIABLES
    registry,          \* RC4Registry::registry, None where there is no entry
    next_transponder,  \* RC4Registry::next_transponder
    loaded_ids,        \* RC4FileBasedRegistry::loaded_ids
    files,             \* the directory: identifier -> contents
    resync,            \* the reporter: where it is in store and resync, the
                       \* entries of the directory when the walk began that it
                       \* has not visited, current_ids, and the names added and
                       \* removed since the walk began
    writing,           \* what store is about to append to a file, and whether
                       \* the identifier was assigned
    copying,           \* what the user is still writing to a file
    settled,           \* history: "yes" if a resync ran entirely after the
                       \* last change, "running" if one began after it
    altered,           \* history: loaded identifiers whose file is not, or not
                       \* any more, what memory took from it or wrote to it
    taken_over,        \* history: what a loaded identifier held in memory until
                       \* it was stored under another one
    count              \* the bounded events so far

memory == <<registry, next_transponder, loaded_ids>>
vars == <<memory, files, resync, writing, copying, settled, altered, taken_over,
          count>>

Absent == [present |-> FALSE, payloads |-> {}]
FileOf(ps) == [present |-> TRUE, payloads |-> ps]
Present == {i \in Ids : files[i].present}
Holds(i, p) == p \in files[i].payloads

----------------------------------------------------------------------------
(* The rules of store, remove and resync.                                  *)

\* An identifier of the automatic range moves the next one past it.
NextUnchanged(id) == next_transponder
NextAfter(id) ==
    IF id \in AutoBase..AutoTop /\ id + 1 > next_transponder
    THEN id + 1 ELSE next_transponder

\* Identifier 0 asks for the next automatic one.
Assigned(id) == IF id = 0 THEN next_transponder ELSE id

\* RC4Registry::store
Store(id, ps) ==
    /\ registry' = [p \in Payloads |->
                      IF p \in ps THEN Assigned(id) ELSE registry[p]]
    /\ next_transponder' = IF id = 0 THEN next_transponder + 1 ELSE NextAfter(id)
    /\ taken_over' = taken_over \cup
         {[id |-> registry[p], payload |-> p] :
            p \in {q \in ps : registry[q] \notin {None, Assigned(id)}}}

\* A file that was loaded once is not read again.
OnlyAtStart(i) == loaded_ids = {}
NeedsLoading(i) == i \notin loaded_ids

\* Identifiers are forgotten only after the walk.
VisitedOrNot == TRUE
AllVisited == resync.left \subseteq resync.changed

ForgetNothing == {}
Gone == loaded_ids \ resync.current_ids

----------------------------------------------------------------------------
Reporter(pc) == [pc |-> pc, left |-> {}, current_ids |-> {}, changed |-> {}]

\* init_commons resynchronises before anything else ("due").
Init ==
    /\ registry = [p \in Payloads |-> None]
    /\ next_transponder = AutoBase
    /\ loaded_ids = {}
    /\ files = [i \in Ids |-> Absent]
    /\ resync = Reporter("due")
    /\ writing = {}
    /\ copying = {}
    /\ settled = "no"
    /\ altered = {}
    /\ taken_over = {}
    /\ count = [changes |-> 0, learned |-> 0, restarts |-> 0]

\* resync opens the directory and reads its entries one by one.
ResyncBegin ==
    /\ resync.pc \in {"idle", "due"}
    /\ resync' = [Reporter("visit") EXCEPT !.left = Present]
    /\ settled' = IF settled = "no" THEN "running" ELSE settled
    /\ UNCHANGED <<memory, files, writing, copying, altered, taken_over, count>>

\* directory_iterator yields every entry that stays in the directory.  One that
\* is removed or added during the walk it may yield or not: of a renamed file
\* both names, one or neither.
Yields(i) ==
    i \in resync.left \/ (i \in resync.changed \ resync.current_ids /\ files[i].present)

\* One entry, in any order: it is current, and read if it was not before.
\* If it is gone when it is opened, or yields nothing, there is nothing to
\* store, and it counts as loaded anyway.
ResyncVisit(i) ==
    /\ resync.pc = "visit" /\ Yields(i)
    /\ resync' = [resync EXCEPT !.left = @ \ {i}, !.current_ids = @ \cup {i}]
    /\ IF NeedsLoading(i) /\ files[i].payloads # {}
       THEN Store(i, files[i].payloads)
       ELSE UNCHANGED <<registry, next_transponder, taken_over>>
    /\ loaded_ids' = loaded_ids \cup {i}
    /\ UNCHANGED <<files, writing, copying, settled, altered, count>>

\* An identifier without a file is removed, each one under the lock.
ResyncRemove(i) ==
    /\ resync.pc = "visit" /\ AllVisited
    /\ i \in Gone
    /\ registry' = [p \in Payloads |->
                      IF registry[p] = i THEN None ELSE registry[p]]
    /\ loaded_ids' = loaded_ids \ {i}
    /\ altered' = altered \ {i}
    /\ taken_over' = {s \in taken_over : s.id # i}
    /\ UNCHANGED <<next_transponder, files, resync, writing, copying, settled,
                   count>>

ResyncEnd ==
    /\ resync.pc = "visit" /\ AllVisited /\ Gone = {}
    /\ resync' = Reporter("idle")
    /\ settled' = IF settled = "running" THEN "yes" ELSE settled
    /\ UNCHANGED <<memory, files, writing, copying, altered, taken_over, count>>

\* DONE: the reporter stores the payloads of the session, those of one car or of
\* several, under the identifier one of them is known by, under one that the
\* passing detector saw meanwhile, or under 0.  RC4FileBasedRegistry::store
\* updates the map first ...
Learn(id, ps) ==
    /\ resync.pc = "idle"
    /\ count.learned < MaxLearned
    /\ Assigned(id) \in Ids
    /\ Store(id, ps)
    /\ loaded_ids' = loaded_ids \cup {Assigned(id)}
    /\ writing' = {[id |-> Assigned(id), payloads |-> ps, assigned |-> id = 0]}
    /\ altered' = altered \cup ({Assigned(id)} \cap (Present \ loaded_ids))
    /\ resync' = Reporter("write")
    /\ settled' = "no"
    /\ count' = [count EXCEPT !.learned = @ + 1]
    /\ UNCHANGED <<files, copying>>

\* ... and then appends them to the file.  The stream is not checked: the file
\* may not be opened, or opened and not, or not wholly, be written.  DONE is
\* reported, and the resync of the same report follows.
LearnWrite ==
    /\ resync.pc = "write"
    /\ \E w \in writing :
         \/ \E written \in SUBSET w.payloads :
              /\ files' = [files EXCEPT
                             ![w.id] = FileOf(files[w.id].payloads \cup written)]
              /\ altered' = IF written = w.payloads THEN altered
                            ELSE altered \cup {w.id}
         \/ /\ UNCHANGED files
            /\ altered' = altered \cup {w.id}
    /\ writing' = {}
    /\ resync' = Reporter("due")
    /\ UNCHANGED <<memory, copying, settled, taken_over, count>>

----------------------------------------------------------------------------
(* The user, at any step of the above.                                     *)

MayChange(names) ==
    /\ count.changes < MaxChanges
    /\ count' = [count EXCEPT !.changes = @ + 1]
    /\ \A c \in copying : c.id \notin names
    /\ resync' = [resync EXCEPT !.changed = @ \cup (IF resync.pc = "visit" THEN names ELSE {})]
    /\ altered' = altered \cup (names \cap loaded_ids)
    /\ settled' = "no"
    /\ UNCHANGED <<memory, writing, taken_over>>

\* A file of any payloads.  It begins empty.
AddFile(i, ps) ==
    /\ MayChange({i})
    /\ ~files[i].present
    /\ files' = [files EXCEPT ![i] = FileOf({})]
    /\ copying' = copying \cup {[id |-> i, payloads |-> ps]}

FinishCopy ==
    /\ \E c \in copying :
         /\ files' = [files EXCEPT ![c.id] = FileOf(@.payloads \cup c.payloads)]
         /\ copying' = copying \ {c}
         /\ altered' = altered \cup ({c.id} \cap loaded_ids)
    /\ settled' = "no"
    /\ UNCHANGED <<memory, resync, writing, taken_over, count>>

DeleteFile(i) ==
    /\ MayChange({i})
    /\ files[i].present
    /\ files' = [files EXCEPT ![i] = Absent]
    /\ UNCHANGED copying

\* A file of the new name is replaced.
RenameFile(i, j) ==
    /\ MayChange({i, j})
    /\ files[i].present /\ i # j
    /\ files' = [files EXCEPT ![i] = Absent, ![j] = files[i]]
    /\ UNCHANGED copying

\* The decoder ends, at any point, and starts again on the same directory.
Restart ==
    /\ count.restarts < MaxRestarts
    /\ count' = [count EXCEPT !.restarts = @ + 1]
    /\ registry' = [p \in Payloads |-> None]
    /\ next_transponder' = AutoBase
    /\ loaded_ids' = {}
    /\ resync' = Reporter("due")
    /\ writing' = {}
    /\ settled' = "no"
    /\ altered' = {} /\ taken_over' = {}
    /\ UNCHANGED <<files, copying>>

----------------------------------------------------------------------------
Resync ==
    \/ ResyncBegin
    \/ \E i \in Ids : ResyncVisit(i) \/ ResyncRemove(i)
    \/ ResyncEnd

User ==
    \/ \E i \in UserIds, ps \in SUBSET Payloads : AddFile(i, ps)
    \/ FinishCopy
    \/ \E i \in Ids : DeleteFile(i)
    \/ \E i \in Ids, j \in UserIds : RenameFile(i, j)

Next ==
    \/ Resync
    \/ \E id \in Ids \cup {0}, ps \in SUBSET Payloads : Learn(id, ps)
    \/ LearnWrite
    \/ User
    \/ Restart

Spec == Init /\ [][Next]_vars

\* The main loop resynchronises in every report and finishes what it began.
FairSpec == Spec /\ WF_vars(Resync) /\ WF_vars(LearnWrite)

----------------------------------------------------------------------------
\* Types of every variable.  No payload is ever registered under identifier 0,
\* which the trainer takes for "not known".
TypeOK ==
    /\ registry \in [Payloads -> (Nat \ {0}) \cup {None}]
    /\ next_transponder \in Nat /\ next_transponder >= AutoBase
    /\ loaded_ids \subseteq Nat
    /\ files \in [Ids -> [present : BOOLEAN, payloads : SUBSET Payloads]]
    /\ resync \in [pc : {"idle", "due", "visit", "write"}, left : SUBSET Ids,
                   current_ids : SUBSET Ids, changed : SUBSET Ids]
    /\ writing \subseteq [id : Ids, payloads : SUBSET Payloads, assigned : BOOLEAN]
    /\ copying \subseteq [id : Ids, payloads : SUBSET Payloads]
    /\ settled \in {"no", "running", "yes"}
    /\ altered \subseteq Ids
    /\ taken_over \subseteq [id : Nat, payload : Payloads]
    /\ count \in [changes : Nat, learned : Nat, restarts : Nat]

\* A file is followed unless it was changed or written in part after it was
\* loaded ("files are not re-read once loaded", docs/rc4.md:50), or another file
\* or training session has the payload too.
Followed(i, p) == i \notin altered /\ [id |-> i, payload |-> p] \notin taken_over

\* Once a resync has run after the last change, memory and directory agree,
\* whatever was added, deleted, renamed, learned, written in part or interrupted by
\* a restart at any step: what a file holds is known by that file's identifier, and
\* what is known is known by an identifier whose file is there and holds it.
InSync ==
    settled = "yes" =>
      \A p \in Payloads, i \in Ids :
        /\ Holds(i, p) => registry[p] = i \/ ~Followed(i, p)
        /\ registry[p] = i => files[i].present /\ (Holds(i, p) \/ i \in altered)

\* The receiver never fails to find a known payload while the directory has a
\* file for it: a file that was renamed is loaded under its new identifier before
\* the old one is removed, and no step of resync opens a gap.  Only a file that was
\* renamed or added while the directory is read may be missed, until the next
\* resync.
NoLookupGap ==
    [][\A p \in Payloads :
         registry[p] # None /\ registry'[p] = None /\ count'.restarts = count.restarts
         => \A i \in Ids :
              Holds(i, p) => i \in resync.changed \/ ~Followed(i, p)]_vars

\* An identifier that store assigns is nobody's: no other payload is known by it
\* and no file has it, also after automatic identifiers were renamed away, and
\* after a restart, which begins at AutoBase again.  (Identifiers that are given
\* may be shared: of two cars in a session both get that of one.)
AutoIdsDistinct ==
    \A w \in writing :
      w.assigned =>
        /\ \A p \in Payloads \ w.payloads : registry[p] # w.id
        /\ files[w.id].payloads = {}

\* A file that was dropped into the directory is eventually loaded, unless it
\* is taken away again or is not followed; no restart is needed.
Loaded ==
    \A p \in Payloads :
      (\E i \in Ids : Holds(i, p)) ~>
        (registry[p] # None \/ \A i \in Ids : Holds(i, p) => ~Followed(i, p))

----------------------------------------------------------------------------
(* What makes InSync, NoLookupGap and AutoIdsDistinct inductive.           *)

\* Memory follows the loaded files: what is known is known by a loaded identifier;
\* what a loaded file holds is known by its identifier; and what is known is in
\* the file of its identifier, or about to be written there.
KnownLoaded ==
    /\ loaded_ids \subseteq Ids
    /\ \A p \in Payloads : registry[p] # None => registry[p] \in loaded_ids

LoadedKnown ==
    \A i \in loaded_ids, p \in Payloads :
      Holds(i, p) => registry[p] = i \/ ~Followed(i, p)

Written(i, p) ==
    Holds(i, p) \/ i \in altered \/ \E w \in writing : w.id = i /\ p \in w.payloads

KnownWritten ==
    \A i \in Ids, p \in Payloads : registry[p] = i => Written(i, p)

WritingInv ==
    /\ \A w \in writing : /\ resync.pc = "write" /\ w.id \in loaded_ids
                          /\ \A p \in w.payloads : registry[p] = w.id
    /\ \A v, w \in writing : v = w

FilesInv ==
    /\ \A i \in Ids : files[i].payloads # {} => files[i].present
    /\ \A c \in copying : files[c.id].present

MemoryInv == KnownLoaded /\ LoadedKnown /\ KnownWritten /\ WritingInv /\ FilesInv

\* How far a walk is: what it has visited is loaded, and the entries of the
\* directory are visited, still to visit, or new.
ScanInv ==
    /\ settled = "running" => resync.pc = "visit"
    /\ settled = "yes" => loaded_ids = Present
    /\ resync.pc = "write" => settled = "no"
    /\ resync.pc = "visit" =>
         /\ resync.current_ids \subseteq loaded_ids
         /\ Present \subseteq resync.left \cup resync.current_ids \cup resync.changed
         /\ settled # "no" => /\ resync.changed = {}
                              /\ resync.left \cup resync.current_ids \subseteq Present

\* The user numbers files with real identifiers only, and the automatic ones do
\* not run out.
OrdinaryUse ==
    /\ 0 \notin Ids
    /\ UserIds \cap (AutoBase..AutoTop) = {}
    /\ AutoTop + 1 \notin Ids

\* What makes AutoIdsDistinct inductive: the automatic identifiers that are known,
\* loaded, or held by a file once a walk is over, lie below the next one.
AutoIds == AutoBase..AutoTop

AutoInv ==
    /\ next_transponder =< AutoTop + 1
    /\ \A p \in Payloads : registry[p] \in AutoIds => registry[p] < next_transponder
    /\ \A w \in writing : /\ w.id \in AutoIds => w.id < next_transponder
                          /\ w.assigned => w.id \in AutoIds
    /\ \A i \in loaded_ids \cap AutoIds :
         files[i].payloads # {} => i < next_transponder
    /\ resync.pc \in {"idle", "write"} =>
         \A i \in Ids \cap AutoIds : files[i].payloads # {} => i < next_transponder
    /\ resync.pc = "visit" =>
         \A i \in Ids \cap AutoIds : i \in resync.changed => ~files[i].present
    /\ \A c \in copying : c.id \notin AutoIds
============================================================================
