------------------------- MODULE RC4RegistryProofs -------------------------
(* Proofs about RC4Registry for every value of its constants.              *)
EXTENDS RC4Registry, TLAPS

LEMMA TypeInit == Init => TypeOK
BY IdAssumption DEF Init, TypeOK, Reporter, Absent, None

\* What store does to memory: the payloads are under one identifier above zero,
\* whatever held them before is on record, and the other payloads are as they were.
LEMMA StoreLemma ==
    ASSUME TypeOK, NEW id \in Nat, NEW ps \in SUBSET Payloads, Store(id, ps)
    PROVE  /\ Assigned(id) \in Nat \ {0}
           /\ registry' \in [Payloads -> (Nat \ {0}) \cup {None}]
           /\ next_transponder' \in Nat /\ next_transponder' >= next_transponder
           /\ next_transponder' >= AutoBase
           /\ taken_over' \subseteq [id : Nat, payload : Payloads]
           /\ \A p \in ps : registry'[p] = Assigned(id)
           /\ \A p \in Payloads \ ps : registry'[p] = registry[p]
           /\ taken_over \subseteq taken_over'
           /\ \A p \in ps : registry[p] \in Nat /\ registry[p] # Assigned(id) =>
                [id |-> registry[p], payload |-> p] \in taken_over'
<1>1. next_transponder \in Nat /\ next_transponder >= AutoBase /\ AutoBase \in Nat \ {0}
  BY IdAssumption DEF TypeOK
<1>2. Assigned(id) \in Nat \ {0}
  BY <1>1 DEF Assigned
<1>3. registry' = [p \in Payloads |-> IF p \in ps THEN Assigned(id) ELSE registry[p]]
  BY DEF Store
<1>4. \A p \in Payloads : registry[p] \in (Nat \ {0}) \cup {None}
  BY DEF TypeOK
<1>5. registry' \in [Payloads -> (Nat \ {0}) \cup {None}]
  BY <1>2, <1>3, <1>4
<1>6. next_transponder' \in Nat /\ next_transponder' >= next_transponder
  BY <1>1 DEF Store, NextAfter
<1>7. taken_over' = taken_over \cup
         {[id |-> registry[p], payload |-> p] :
            p \in {q \in ps : registry[q] \notin {None, Assigned(id)}}}
  BY DEF Store
<1>8. taken_over' \subseteq [id : Nat, payload : Payloads]
  BY <1>4, <1>7 DEF TypeOK
<1>9. \A p \in ps : registry[p] \in Nat /\ registry[p] # Assigned(id) =>
        [id |-> registry[p], payload |-> p] \in taken_over'
  BY <1>7 DEF None
<1>10. next_transponder' >= AutoBase
  BY <1>1, <1>6
<1> QED BY <1>2, <1>3, <1>5, <1>6, <1>7, <1>8, <1>9, <1>10

\* A change by the user keeps everything but the directory.
LEMMA ChangeType ==
    ASSUME TypeOK, NEW names \in SUBSET Ids, MayChange(names)
    PROVE  /\ resync' \in [pc : {"idle", "due", "visit", "write"}, left : SUBSET Ids,
                           current_ids : SUBSET Ids, changed : SUBSET Ids]
           /\ resync'.pc = resync.pc /\ resync'.left = resync.left
           /\ resync'.current_ids = resync.current_ids
           /\ resync'.changed = resync.changed \cup
                                (IF resync.pc = "visit" THEN names ELSE {})
           /\ altered' = altered \cup (names \cap loaded_ids)
           /\ altered' \subseteq Ids
           /\ settled' = "no"
           /\ count' \in [changes : Nat, learned : Nat, restarts : Nat]
           /\ UNCHANGED <<registry, next_transponder, loaded_ids, writing, taken_over>>
<1>1. resync' = [resync EXCEPT !.changed = @ \cup (IF resync.pc = "visit" THEN names ELSE {})]
  BY DEF MayChange
<1>2. count' \in [changes : Nat, learned : Nat, restarts : Nat]
  BY DEF MayChange, TypeOK
<1> QED BY <1>1, <1>2 DEF MayChange, TypeOK, memory

LEMMA TypeNext == TypeOK /\ [Next]_vars => TypeOK'
<1> SUFFICES ASSUME TypeOK, [Next]_vars PROVE TypeOK'
  OBVIOUS
<1> USE DEF TypeOK
<1> USE IdAssumption
<1>1. CASE ResyncBegin
  <2>1. resync' \in [pc : {"idle", "due", "visit", "write"}, left : SUBSET Ids,
                     current_ids : SUBSET Ids, changed : SUBSET Ids]
    BY <1>1 DEF ResyncBegin, Reporter, Present
  <2> QED BY <1>1, <2>1 DEF ResyncBegin, memory
<1>2. ASSUME NEW i \in Ids, ResyncVisit(i) PROVE TypeOK'
  <2>1. /\ registry' \in [Payloads -> (Nat \ {0}) \cup {None}]
        /\ next_transponder' \in Nat /\ next_transponder' >= AutoBase
        /\ taken_over' \subseteq [id : Nat, payload : Payloads]
    <3>1. CASE NeedsLoading(i) /\ files[i].payloads # {}
      <4>1. Store(i, files[i].payloads) /\ i \in Nat /\ files[i].payloads \in SUBSET Payloads
        BY <1>2, <3>1 DEF ResyncVisit
      <4> QED BY <4>1, StoreLemma
    <3>2. CASE ~(NeedsLoading(i) /\ files[i].payloads # {})
      BY <1>2, <3>2 DEF ResyncVisit
    <3> QED BY <3>1, <3>2
  <2>2. /\ loaded_ids' \subseteq Nat
        /\ UNCHANGED <<files, writing, copying, settled, altered, count>>
    BY <1>2 DEF ResyncVisit
  <2>3. resync' \in [pc : {"idle", "due", "visit", "write"}, left : SUBSET Ids,
                     current_ids : SUBSET Ids, changed : SUBSET Ids]
    BY <1>2 DEF ResyncVisit
  <2> QED BY <2>1, <2>2, <2>3
<1>3. ASSUME NEW i \in Ids, ResyncRemove(i) PROVE TypeOK'
  BY <1>3 DEF ResyncRemove
<1>4. CASE ResyncEnd
  BY <1>4 DEF ResyncEnd, memory, Reporter
<1>5. ASSUME NEW id \in Ids \cup {0}, NEW ps \in SUBSET Payloads, Learn(id, ps)
      PROVE  TypeOK'
  <2>1. Assigned(id) \in Ids /\ Store(id, ps) /\ id \in Nat
    BY <1>5 DEF Learn
  <2>2. /\ registry' \in [Payloads -> (Nat \ {0}) \cup {None}]
        /\ next_transponder' \in Nat /\ next_transponder' >= AutoBase
        /\ taken_over' \subseteq [id : Nat, payload : Payloads]
    BY <2>1, StoreLemma
  <2>3. /\ loaded_ids' \subseteq Nat
        /\ writing' \subseteq [id : Ids, payloads : SUBSET Payloads, assigned : BOOLEAN]
        /\ resync' = Reporter("write") /\ settled' = "no"
        /\ altered' \subseteq Ids
        /\ UNCHANGED <<files, copying>>
    BY <1>5, <2>1 DEF Learn
  <2>4. count' \in [changes : Nat, learned : Nat, restarts : Nat]
    BY <1>5 DEF Learn
  <2> QED BY <2>2, <2>3, <2>4 DEF Reporter
<1>6. CASE LearnWrite
  <2>1. PICK w \in writing :
          \/ \E written \in SUBSET w.payloads :
               /\ files' = [files EXCEPT
                              ![w.id] = FileOf(files[w.id].payloads \cup written)]
               /\ altered' = IF written = w.payloads THEN altered
                             ELSE altered \cup {w.id}
          \/ /\ UNCHANGED files
             /\ altered' = altered \cup {w.id}
    BY <1>6 DEF LearnWrite
  <2>2. w.id \in Ids /\ w.payloads \in SUBSET Payloads
    OBVIOUS
  <2>3. altered' \subseteq Ids
    BY <2>1, <2>2
  <2>4. files' \in [Ids -> [present : BOOLEAN, payloads : SUBSET Payloads]]
    <3>1. CASE UNCHANGED files
      BY <3>1
    <3>2. ASSUME NEW written \in SUBSET w.payloads,
                 files' = [files EXCEPT
                             ![w.id] = FileOf(files[w.id].payloads \cup written)]
          PROVE  files' \in [Ids -> [present : BOOLEAN, payloads : SUBSET Payloads]]
      <4>1. FileOf(files[w.id].payloads \cup written)
              \in [present : BOOLEAN, payloads : SUBSET Payloads]
        BY <2>2 DEF FileOf
      <4> QED BY <3>2, <4>1
    <3> QED BY <2>1, <3>1, <3>2
  <2> QED BY <1>6, <2>3, <2>4 DEF LearnWrite, memory, Reporter
<1>7. ASSUME NEW i \in UserIds, NEW ps \in SUBSET Payloads, AddFile(i, ps) PROVE TypeOK'
  <2>1. files' \in [Ids -> [present : BOOLEAN, payloads : SUBSET Payloads]]
    BY <1>7 DEF AddFile, FileOf
  <2>2. copying' \subseteq [id : Ids, payloads : SUBSET Payloads]
    BY <1>7 DEF AddFile
  <2>3. MayChange({i}) /\ {i} \in SUBSET Ids
    BY <1>7 DEF AddFile
  <2> QED BY <2>1, <2>2, <2>3, ChangeType
<1>8. CASE FinishCopy
  <2>1. PICK c \in copying :
          /\ files' = [files EXCEPT ![c.id] = FileOf(@.payloads \cup c.payloads)]
          /\ copying' = copying \ {c}
          /\ altered' = altered \cup ({c.id} \cap loaded_ids)
    BY <1>8 DEF FinishCopy
  <2>2. c.id \in Ids /\ c.payloads \in SUBSET Payloads
    OBVIOUS
  <2>3. FileOf(files[c.id].payloads \cup c.payloads)
          \in [present : BOOLEAN, payloads : SUBSET Payloads]
    BY <2>2 DEF FileOf
  <2>4. files' \in [Ids -> [present : BOOLEAN, payloads : SUBSET Payloads]]
    BY <2>1, <2>2, <2>3
  <2> QED BY <1>8, <2>1, <2>2, <2>4 DEF FinishCopy, memory
<1>9. ASSUME NEW i \in Ids, DeleteFile(i) PROVE TypeOK'
  <2>1. files' \in [Ids -> [present : BOOLEAN, payloads : SUBSET Payloads]]
    BY <1>9 DEF DeleteFile, Absent
  <2>2. MayChange({i}) /\ {i} \in SUBSET Ids /\ UNCHANGED copying
    BY <1>9 DEF DeleteFile
  <2> QED BY <2>1, <2>2, ChangeType
<1>10. ASSUME NEW i \in Ids, NEW j \in UserIds, RenameFile(i, j) PROVE TypeOK'
  <2>1. files' \in [Ids -> [present : BOOLEAN, payloads : SUBSET Payloads]]
    BY <1>10 DEF RenameFile, Absent
  <2>2. MayChange({i, j}) /\ {i, j} \in SUBSET Ids /\ UNCHANGED copying
    BY <1>10 DEF RenameFile
  <2> QED BY <2>1, <2>2, ChangeType
<1>11. CASE Restart
  BY <1>11 DEF Restart, Reporter, None
<1>12. CASE UNCHANGED vars
  BY <1>12 DEF vars, memory
<1> QED
  BY <1>1, <1>2, <1>3, <1>4, <1>5, <1>6, <1>7, <1>8, <1>9, <1>10, <1>11, <1>12
  DEF Next, Resync, User

\* Every variable keeps its type; no payload is ever known by identifier 0.
THEOREM TypeCorrect == Spec => []TypeOK
BY TypeInit, TypeNext, PTL DEF Spec

----------------------------------------------------------------------------
(* Memory and directory.  Any user, any names but 0.rc4.                   *)

Inv == TypeOK /\ MemoryInv /\ ScanInv

LEMMA InvInit == Init => Inv
<1> SUFFICES ASSUME Init PROVE Inv
  OBVIOUS
<1>1. TypeOK
  BY TypeInit
<1>2. \A i \in Ids : ~files[i].present /\ files[i].payloads = {}
  BY DEF Init, Absent
<1>3. resync.pc = "due" /\ settled = "no" /\ writing = {} /\ copying = {} /\ loaded_ids = {}
  BY DEF Init, Reporter
<1>4. \A p \in Payloads : registry[p] = None
  BY DEF Init
<1>5. None \notin Ids
  BY IdAssumption DEF None
<1>6. MemoryInv
  BY <1>2, <1>3, <1>4, <1>5
  DEF MemoryInv, KnownLoaded, LoadedKnown, KnownWritten, WritingInv, FilesInv
<1>7. ScanInv
  BY <1>3 DEF ScanInv
<1> QED BY <1>1, <1>6, <1>7 DEF Inv

LEMMA IdIsNotNone == \A i \in Ids : i \in Nat /\ i # None
BY IdAssumption DEF None

\* What a loaded identifier held is known by it or on record, also when another
\* takes payloads over.
LEMMA StoreKeepsLoaded ==
    ASSUME Inv, NEW id \in Nat, NEW ps \in SUBSET Payloads, Store(id, ps),
           UNCHANGED files, altered \subseteq altered',
           NEW i \in loaded_ids, NEW p \in Payloads, Holds(i, p)
    PROVE  registry'[p] = i \/ ~Followed(i, p)'
<1>1. i \in Ids /\ i \in Nat
  BY IdIsNotNone DEF Inv, MemoryInv, KnownLoaded
<1>2. registry[p] = i \/ ~Followed(i, p)
  BY DEF Inv, MemoryInv, LoadedKnown
<1>3. taken_over \subseteq taken_over'
  BY StoreLemma DEF Inv
<1>4. CASE ~Followed(i, p)
  BY <1>3, <1>4 DEF Followed
<1>5. CASE registry[p] = i /\ p \notin ps
  <2>1. registry'[p] = registry[p]
    BY <1>5, StoreLemma DEF Inv
  <2> QED BY <1>5, <2>1
<1>6. CASE registry[p] = i /\ p \in ps
  <2>1. registry'[p] = Assigned(id)
    BY <1>6, StoreLemma DEF Inv
  <2>2. registry[p] # Assigned(id) => [id |-> registry[p], payload |-> p] \in taken_over'
    BY <1>1, <1>6, StoreLemma DEF Inv
  <2> QED BY <1>6, <2>1, <2>2 DEF Followed
<1> QED BY <1>2, <1>4, <1>5, <1>6

LEMMA Begin == ASSUME TypeOK', Inv, ResyncBegin PROVE Inv'
<1>1. /\ resync.pc \in {"idle", "due"}
      /\ resync'.pc = "visit" /\ resync'.left = Present
      /\ resync'.current_ids = {} /\ resync'.changed = {}
      /\ settled' = IF settled = "no" THEN "running" ELSE settled
      /\ UNCHANGED <<registry, next_transponder, loaded_ids, files, writing,
                     copying, altered, taken_over, count>>
  BY DEF ResyncBegin, memory, Reporter
<1>2. writing = {}
  BY <1>1 DEF Inv, MemoryInv, WritingInv
<1>3. KnownLoaded' /\ LoadedKnown' /\ KnownWritten'
  BY <1>1 DEF Inv, MemoryInv, KnownLoaded, LoadedKnown, KnownWritten, Written, Holds,
              Followed
<1>4. WritingInv' /\ FilesInv'
  BY <1>1, <1>2 DEF Inv, MemoryInv, WritingInv, FilesInv
<1>5. ScanInv'
  <2>1. Present' = Present
    BY <1>1 DEF Present
  <2>2. settled' = "yes" => loaded_ids = Present
    BY <1>1 DEF Inv, ScanInv
  <2> QED BY <1>1, <2>1, <2>2 DEF ScanInv
<1> QED BY <1>3, <1>4, <1>5 DEF Inv, MemoryInv

\* An entry is read: what it holds becomes known by it.
LEMMA Visit ==
    ASSUME 0 \notin Ids, TypeOK', Inv, NEW i \in Ids, ResyncVisit(i)
    PROVE  Inv'
<1> DEFINE storing == NeedsLoading(i) /\ files[i].payloads # {}
<1>1. /\ resync.pc = "visit" /\ Yields(i) /\ resync'.pc = "visit"
      /\ resync'.left = resync.left \ {i}
      /\ resync'.current_ids = resync.current_ids \cup {i}
      /\ resync'.changed = resync.changed
      /\ loaded_ids' = loaded_ids \cup {i}
      /\ UNCHANGED <<files, writing, copying, settled, altered>>
  BY DEF ResyncVisit, Inv, TypeOK
<1>2. writing = {} /\ Present' = Present
  BY <1>1 DEF Inv, MemoryInv, WritingInv, Present
<1>3. i \in Nat /\ i # 0 /\ i # None
  BY IdIsNotNone
<1>4. files[i].payloads \in SUBSET Payloads
  BY DEF Inv, TypeOK
<1>5. ASSUME storing
      PROVE  /\ Store(i, files[i].payloads)
             /\ \A p \in Payloads : registry'[p] = IF Holds(i, p) THEN i ELSE registry[p]
  <2>1. Store(i, files[i].payloads) /\ Assigned(i) = i
    BY <1>3, <1>5 DEF ResyncVisit, Assigned
  <2> QED BY <2>1 DEF Store, Holds
<1>6. ASSUME ~storing
      PROVE  /\ i \in loaded_ids \/ files[i].payloads = {}
             /\ registry' = registry /\ taken_over' = taken_over
  BY <1>6 DEF ResyncVisit, NeedsLoading
<1>7. KnownLoaded'
  BY <1>1, <1>5, <1>6 DEF Inv, MemoryInv, KnownLoaded
<1>8. LoadedKnown'
  <2>1. ASSUME NEW j \in loaded_ids', NEW p \in Payloads, Holds(j, p)
        PROVE  registry'[p] = j \/ ~Followed(j, p)'
    <3>1. CASE j \in loaded_ids /\ storing
      BY <1>1, <1>3, <1>4, <1>5, <2>1, <3>1, StoreKeepsLoaded
    <3>2. CASE j \in loaded_ids /\ ~storing
      BY <1>1, <1>6, <2>1, <3>2 DEF Inv, MemoryInv, LoadedKnown, Followed
    <3>3. CASE j \notin loaded_ids
      BY <1>1, <1>5, <1>6, <2>1, <3>3 DEF Holds
    <3> QED BY <3>1, <3>2, <3>3
  <2>2. \A j, p : Holds(j, p)' = Holds(j, p)
    BY <1>1 DEF Holds
  <2> QED BY <2>1, <2>2 DEF LoadedKnown
<1>9. KnownWritten'
  <2>1. ASSUME NEW j \in Ids, NEW p \in Payloads, registry'[p] = j
        PROVE  Holds(j, p) \/ j \in altered
    <3>1. CASE registry[p] = j
      BY <1>2, <3>1 DEF Inv, MemoryInv, KnownWritten, Written
    <3>2. CASE registry[p] # j
      BY <1>5, <1>6, <2>1, <3>2
    <3> QED BY <3>1, <3>2
  <2> QED BY <1>1, <2>1 DEF KnownWritten, Written, Holds
<1>10. WritingInv' /\ FilesInv'
  BY <1>1, <1>2 DEF Inv, MemoryInv, WritingInv, FilesInv
<1>11. ScanInv'
  <2>1. settled # "no" => i \in Present /\ resync.changed = {}
                          /\ resync.left \cup resync.current_ids \subseteq Present
    BY <1>1 DEF Inv, ScanInv, Yields
  <2>2. /\ resync.current_ids \subseteq loaded_ids
        /\ Present \subseteq resync.left \cup resync.current_ids \cup resync.changed
        /\ settled = "yes" => loaded_ids = Present
    BY <1>1 DEF Inv, ScanInv
  <2> QED BY <1>1, <1>2, <2>1, <2>2 DEF ScanInv
<1> QED BY <1>7, <1>8, <1>9, <1>10, <1>11 DEF Inv, MemoryInv

\* An identifier is forgotten, and all there is on record of it.
LEMMA Remove == ASSUME TypeOK', Inv, NEW i \in Ids, ResyncRemove(i) PROVE Inv'
<1>1. /\ resync.pc = "visit" /\ AllVisited /\ i \in loaded_ids
      /\ i \notin resync.current_ids
      /\ loaded_ids' = loaded_ids \ {i} /\ altered' = altered \ {i}
      /\ taken_over' = {s \in taken_over : s.id # i}
      /\ UNCHANGED <<files, resync, writing, copying, settled>>
  BY DEF ResyncRemove, Gone
<1>2. \A p \in Payloads : registry'[p] = IF registry[p] = i THEN None ELSE registry[p]
  BY DEF ResyncRemove
<1>3. writing = {} /\ Present' = Present
  BY <1>1 DEF Inv, MemoryInv, WritingInv, Present
<1>4. \A j \in Ids, p \in Payloads : j # i => Followed(j, p)' = Followed(j, p)
  BY <1>1 DEF Followed
<1>5. KnownLoaded'
  BY <1>1, <1>2 DEF Inv, MemoryInv, KnownLoaded
<1>6. LoadedKnown'
  <2>1. ASSUME NEW j \in loaded_ids', NEW p \in Payloads, Holds(j, p)
        PROVE  registry'[p] = j \/ ~Followed(j, p)'
    <3>1. j \in loaded_ids /\ j # i /\ j \in Ids
      BY <1>1 DEF Inv, MemoryInv, KnownLoaded
    <3>2. registry[p] = j \/ ~Followed(j, p)
      BY <2>1, <3>1 DEF Inv, MemoryInv, LoadedKnown
    <3> QED BY <1>2, <1>4, <3>1, <3>2
  <2>2. \A j, p : Holds(j, p)' = Holds(j, p)
    BY <1>1 DEF Holds
  <2> QED BY <2>1, <2>2 DEF LoadedKnown
<1>7. KnownWritten'
  <2>1. ASSUME NEW j \in Ids, NEW p \in Payloads, registry'[p] = j
        PROVE  Holds(j, p) \/ j \in altered'
    <3>1. registry[p] = j /\ j # i
      BY <1>2, <2>1, IdIsNotNone
    <3>2. Holds(j, p) \/ j \in altered
      BY <1>3, <3>1 DEF Inv, MemoryInv, KnownWritten, Written
    <3> QED BY <1>1, <3>1, <3>2
  <2> QED BY <1>1, <2>1 DEF KnownWritten, Written, Holds
<1>8. WritingInv' /\ FilesInv'
  BY <1>1, <1>3 DEF Inv, MemoryInv, WritingInv, FilesInv
<1>9. ScanInv'
  <2>1. settled # "yes"
    BY <1>1 DEF Inv, ScanInv, AllVisited
  <2> QED BY <1>1, <1>3, <2>1 DEF Inv, ScanInv
<1> QED BY <1>5, <1>6, <1>7, <1>8, <1>9 DEF Inv, MemoryInv

LEMMA End == ASSUME TypeOK', Inv, ResyncEnd PROVE Inv'
<1>1. /\ resync.pc = "visit" /\ AllVisited /\ Gone = {} /\ resync'.pc = "idle"
      /\ settled' = IF settled = "running" THEN "yes" ELSE settled
      /\ UNCHANGED <<registry, next_transponder, loaded_ids, files, writing,
                     copying, altered, taken_over, count>>
  BY DEF ResyncEnd, memory, Reporter
<1>2. writing = {}
  BY <1>1 DEF Inv, MemoryInv, WritingInv
<1>3. KnownLoaded' /\ LoadedKnown' /\ KnownWritten'
  BY <1>1 DEF Inv, MemoryInv, KnownLoaded, LoadedKnown, KnownWritten, Written, Holds,
              Followed
<1>4. WritingInv' /\ FilesInv'
  BY <1>1, <1>2 DEF Inv, MemoryInv, WritingInv, FilesInv
<1>5. ScanInv'
  <2>1. Present' = Present
    BY <1>1 DEF Present
  <2>2. settled # "no" => loaded_ids = Present
    BY <1>1 DEF Inv, ScanInv, AllVisited, Gone
  <2>3. settled \in {"no", "running", "yes"}
    BY DEF Inv, TypeOK
  <2> QED BY <1>1, <2>1, <2>2, <2>3 DEF ScanInv
<1> QED BY <1>3, <1>4, <1>5 DEF Inv, MemoryInv

\* What was learned is known by a loaded identifier and about to be written.
LEMMA Train ==
    ASSUME TypeOK', Inv, NEW id \in Ids \cup {0}, NEW ps \in SUBSET Payloads, Learn(id, ps)
    PROVE  Inv'
<1> DEFINE k == Assigned(id)
<1>1. /\ resync.pc = "idle" /\ k \in Ids /\ Store(id, ps) /\ id \in Nat
      /\ loaded_ids' = loaded_ids \cup {k}
      /\ writing' = {[id |-> k, payloads |-> ps, assigned |-> id = 0]}
      /\ altered' = altered \cup ({k} \cap (Present \ loaded_ids))
      /\ resync'.pc = "write" /\ settled' = "no"
      /\ UNCHANGED <<files, copying>>
  BY IdIsNotNone DEF Learn, Reporter
<1>2. writing = {}
  BY <1>1 DEF Inv, MemoryInv, WritingInv
<1>3. /\ \A p \in ps : registry'[p] = k
      /\ \A p \in Payloads \ ps : registry'[p] = registry[p]
  BY <1>1, StoreLemma DEF Inv
<1> HIDE DEF k
<1>4. KnownLoaded'
  BY <1>1, <1>3 DEF Inv, MemoryInv, KnownLoaded
<1>5. LoadedKnown'
  <2>1. ASSUME NEW j \in loaded_ids', NEW p \in Payloads, Holds(j, p)
        PROVE  registry'[p] = j \/ ~Followed(j, p)'
    <3>1. CASE j \in loaded_ids
      BY <1>1, <2>1, <3>1, StoreKeepsLoaded
    <3>2. CASE j \notin loaded_ids
      <4>1. j = k /\ j \in Ids
        BY <1>1, <3>2
      <4>2. j \in Present
        BY <2>1, <4>1 DEF Inv, MemoryInv, FilesInv, Holds, Present
      <4> QED BY <1>1, <3>2, <4>1, <4>2 DEF Followed
    <3> QED BY <3>1, <3>2
  <2>2. \A j, p : Holds(j, p)' = Holds(j, p)
    BY <1>1 DEF Holds
  <2> QED BY <2>1, <2>2 DEF LoadedKnown
<1>6. KnownWritten'
  <2>1. ASSUME NEW j \in Ids, NEW p \in Payloads, registry'[p] = j
        PROVE  Written(j, p)'
    <3>1. CASE p \in ps
      <4>1. j = k
        BY <1>3, <2>1, <3>1
      <4> QED BY <1>1, <3>1, <4>1 DEF Written
    <3>2. CASE p \notin ps
      <4>1. registry[p] = j
        BY <1>3, <2>1, <3>2
      <4>2. Holds(j, p) \/ j \in altered
        BY <1>2, <4>1 DEF Inv, MemoryInv, KnownWritten, Written
      <4> QED BY <1>1, <4>2 DEF Written, Holds
    <3> QED BY <3>1, <3>2
  <2> QED BY <2>1 DEF KnownWritten
<1>7. WritingInv' /\ FilesInv'
  BY <1>1, <1>3 DEF Inv, MemoryInv, WritingInv, FilesInv
<1>8. ScanInv'
  BY <1>1 DEF ScanInv
<1> QED BY <1>4, <1>5, <1>6, <1>7, <1>8 DEF Inv, MemoryInv

\* Written, written in part or not at all: then the file is on record.
LEMMA Write == ASSUME TypeOK', Inv, LearnWrite PROVE Inv'
<1>1. /\ resync.pc = "write" /\ writing' = {} /\ resync'.pc = "due"
      /\ UNCHANGED <<registry, next_transponder, loaded_ids, copying, settled, taken_over>>
  BY DEF LearnWrite, memory, Reporter
<1>2. PICK w \in writing :
        \/ \E written \in SUBSET w.payloads :
             /\ files' = [files EXCEPT
                            ![w.id] = FileOf(files[w.id].payloads \cup written)]
             /\ altered' = IF written = w.payloads THEN altered
                           ELSE altered \cup {w.id}
        \/ /\ UNCHANGED files
           /\ altered' = altered \cup {w.id}
  BY DEF LearnWrite
<1>3. /\ w.id \in loaded_ids /\ w.id \in Ids /\ w.payloads \in SUBSET Payloads
      /\ \A p \in w.payloads : registry[p] = w.id
      /\ \A v \in writing : v = w
  BY DEF Inv, TypeOK, MemoryInv, WritingInv
<1>4. PICK written \in SUBSET w.payloads :
        /\ \A j \in Ids : /\ files[j].present => files'[j].present
                          /\ files'[j].payloads # {} => files'[j].present
                          /\ files'[j].payloads = IF j = w.id
                                                  THEN files[j].payloads \cup written
                                                  ELSE files[j].payloads
        /\ altered' = altered \cup (IF written = w.payloads /\ altered' = altered
                                    THEN {} ELSE {w.id})
  <2>1. ASSUME NEW written \in SUBSET w.payloads,
               files' = [files EXCEPT
                           ![w.id] = FileOf(files[w.id].payloads \cup written)]
        PROVE  \A j \in Ids : /\ files[j].present => files'[j].present
                              /\ files'[j].payloads # {} => files'[j].present
                              /\ files'[j].payloads = IF j = w.id
                                                      THEN files[j].payloads \cup written
                                                      ELSE files[j].payloads
    BY <1>3, <2>1 DEF FileOf, Inv, TypeOK, MemoryInv, FilesInv
  <2>2. CASE UNCHANGED files /\ altered' = altered \cup {w.id}
    <3>1. \A j \in Ids : files[j].payloads # {} => files[j].present
      BY DEF Inv, MemoryInv, FilesInv
    <3>2. {} \in SUBSET w.payloads
      OBVIOUS
    <3>3. \A j \in Ids : /\ files[j].present => files'[j].present
                         /\ files'[j].payloads # {} => files'[j].present
                         /\ files'[j].payloads = IF j = w.id
                                                 THEN files[j].payloads \cup {}
                                                 ELSE files[j].payloads
      BY <2>2, <3>1
    <3>4. altered' = altered \cup (IF {} = w.payloads /\ altered' = altered
                                   THEN {} ELSE {w.id})
      BY <2>2
    <3> QED BY <3>2, <3>3, <3>4
  <2>3. ASSUME NEW written \in SUBSET w.payloads,
               files' = [files EXCEPT
                           ![w.id] = FileOf(files[w.id].payloads \cup written)],
               altered' = IF written = w.payloads THEN altered ELSE altered \cup {w.id}
        PROVE  altered' = altered \cup (IF written = w.payloads /\ altered' = altered
                                        THEN {} ELSE {w.id})
    BY <2>3
  <2> QED BY <1>2, <2>1, <2>2, <2>3
<1>5. altered \subseteq altered' /\ (written = w.payloads \/ w.id \in altered')
  BY <1>4
<1>6. \A j \in Ids, p \in Payloads :
        Holds(j, p)' <=> Holds(j, p) \/ (j = w.id /\ p \in written)
  BY <1>4 DEF Holds
<1>7. KnownLoaded'
  BY <1>1 DEF Inv, MemoryInv, KnownLoaded
<1>8. LoadedKnown'
  <2>1. ASSUME NEW j \in loaded_ids, NEW p \in Payloads, Holds(j, p)'
        PROVE  registry[p] = j \/ ~Followed(j, p)'
    <3>1. j \in Ids
      BY DEF Inv, MemoryInv, KnownLoaded
    <3>2. CASE Holds(j, p)
      BY <1>1, <1>5, <3>2 DEF Inv, MemoryInv, LoadedKnown, Followed
    <3>3. CASE ~Holds(j, p)
      BY <1>3, <1>6, <2>1, <3>1, <3>3
    <3> QED BY <3>2, <3>3
  <2> QED BY <1>1, <2>1 DEF LoadedKnown
<1>9. KnownWritten'
  <2>1. ASSUME NEW j \in Ids, NEW p \in Payloads, registry[p] = j
        PROVE  Holds(j, p)' \/ j \in altered'
    <3>1. Holds(j, p) \/ j \in altered \/ (w.id = j /\ p \in w.payloads)
      BY <1>3, <2>1 DEF Inv, MemoryInv, KnownWritten, Written
    <3> QED BY <1>5, <1>6, <3>1
  <2> QED BY <1>1, <2>1 DEF KnownWritten, Written
<1>10. WritingInv' /\ FilesInv'
  <2>1. \A c \in copying : c.id \in Ids /\ files[c.id].present
    BY DEF Inv, TypeOK, MemoryInv, FilesInv
  <2> QED BY <1>1, <1>4, <2>1 DEF WritingInv, FilesInv
<1>11. ScanInv'
  BY <1>1 DEF Inv, ScanInv
<1> QED BY <1>7, <1>8, <1>9, <1>10, <1>11 DEF Inv, MemoryInv

\* A change of the directory that is on record for every loaded name, and for
\* every name if it comes while the directory is read.
Changed(names) ==
    /\ \A j \in Ids \ names : files'[j] = files[j]
    /\ altered' = altered \cup (names \cap loaded_ids)
    /\ resync'.pc = resync.pc /\ resync'.left = resync.left
    /\ resync'.current_ids = resync.current_ids
    /\ resync.changed \subseteq resync'.changed
    /\ resync.pc = "visit" =>
         \A j \in names : files'[j].present => files[j].present \/ j \in resync'.changed
    /\ settled' = "no"
    /\ UNCHANGED <<registry, next_transponder, loaded_ids, writing, taken_over>>

LEMMA ChangeKeeps ==
    ASSUME TypeOK', Inv, FilesInv', NEW names \in SUBSET Ids, Changed(names)
    PROVE  Inv'
<1>1. KnownLoaded'
  BY DEF Changed, Inv, MemoryInv, KnownLoaded
<1>2. \A j \in Ids \ names, p \in Payloads : Holds(j, p)' = Holds(j, p)
  BY DEF Changed, Holds
<1>3. LoadedKnown'
  <2>1. ASSUME NEW j \in loaded_ids, NEW p \in Payloads, Holds(j, p)'
        PROVE  registry[p] = j \/ ~Followed(j, p)'
    <3>1. j \in Ids
      BY DEF Inv, MemoryInv, KnownLoaded
    <3>2. CASE j \in names
      BY <3>2 DEF Changed, Followed
    <3>3. CASE j \notin names
      <4>1. registry[p] = j \/ ~Followed(j, p)
        BY <1>2, <2>1, <3>1, <3>3 DEF Inv, MemoryInv, LoadedKnown
      <4> QED BY <4>1 DEF Changed, Followed
    <3> QED BY <3>2, <3>3
  <2> QED BY <2>1 DEF Changed, LoadedKnown
<1>4. KnownWritten'
  <2>1. ASSUME NEW j \in Ids, NEW p \in Payloads, registry[p] = j
        PROVE  Written(j, p)'
    <3>1. j \in loaded_ids
      BY <2>1, IdIsNotNone DEF Inv, MemoryInv, KnownLoaded
    <3>2. CASE j \in names
      BY <3>1, <3>2 DEF Changed, Written
    <3>3. CASE j \notin names
      <4>1. Written(j, p)
        BY <2>1 DEF Inv, MemoryInv, KnownWritten
      <4> QED BY <1>2, <3>3, <4>1 DEF Changed, Written
    <3> QED BY <3>2, <3>3
  <2> QED BY <2>1 DEF Changed, KnownWritten
<1>5. WritingInv'
  BY DEF Changed, Inv, MemoryInv, WritingInv
<1>6. ScanInv'
  <2>1. ASSUME resync.pc = "visit", NEW j \in Present'
        PROVE  j \in resync.left \cup resync.current_ids \cup resync'.changed
    <3>1. j \in Ids /\ files'[j].present
      BY <2>1 DEF Present
    <3>2. files[j].present \/ j \in resync'.changed
      BY <2>1, <3>1 DEF Changed
    <3>3. files[j].present => j \in resync.left \cup resync.current_ids \cup resync.changed
      BY <2>1, <3>1 DEF Inv, ScanInv, Present
    <3> QED BY <3>2, <3>3 DEF Changed
  <2>2. resync.pc = "visit" => resync.current_ids \subseteq loaded_ids
    BY DEF Inv, ScanInv
  <2> QED BY <2>1, <2>2 DEF Changed, ScanInv
<1> QED BY <1>1, <1>3, <1>4, <1>5, <1>6 DEF Inv, MemoryInv

LEMMA MayChangeChanges ==
    ASSUME Inv, NEW names \in SUBSET Ids, MayChange(names),
           \A j \in Ids \ names : files'[j] = files[j]
    PROVE  Changed(names)
BY ChangeType DEF Inv, Changed

LEMMA Add ==
    ASSUME TypeOK', Inv, NEW i \in UserIds, NEW ps \in SUBSET Payloads, AddFile(i, ps)
    PROVE  Inv'
<1>1. /\ MayChange({i}) /\ i \in Ids
      /\ files' = [files EXCEPT ![i] = FileOf({})]
      /\ copying' = copying \cup {[id |-> i, payloads |-> ps]}
  BY IdAssumption DEF AddFile
<1>2. \A j \in Ids : files'[j] = IF j = i THEN FileOf({}) ELSE files[j]
  BY <1>1 DEF Inv, TypeOK
<1>3. FilesInv'
  <2>1. \A c \in copying : c.id \in Ids /\ files[c.id].present
    BY DEF Inv, TypeOK, MemoryInv, FilesInv
  <2> QED BY <1>1, <1>2, <2>1 DEF Inv, MemoryInv, FilesInv, FileOf
<1>4. Changed({i})
  BY <1>1, <1>2, MayChangeChanges
<1> QED BY <1>1, <1>3, <1>4, ChangeKeeps

LEMMA Finish == ASSUME TypeOK', Inv, FinishCopy PROVE Inv'
<1>1. PICK c \in copying :
        /\ files' = [files EXCEPT ![c.id] = FileOf(@.payloads \cup c.payloads)]
        /\ copying' = copying \ {c}
        /\ altered' = altered \cup ({c.id} \cap loaded_ids)
  BY DEF FinishCopy
<1>2. /\ settled' = "no" /\ resync' = resync
      /\ UNCHANGED <<registry, next_transponder, loaded_ids, writing, taken_over>>
  BY DEF FinishCopy, memory
<1>3. c.id \in Ids /\ files[c.id].present
  BY DEF Inv, TypeOK, MemoryInv, FilesInv
<1>4. \A j \in Ids : files'[j] = IF j = c.id THEN FileOf(files[j].payloads \cup c.payloads)
                                ELSE files[j]
  BY <1>1 DEF Inv, TypeOK
<1>5. FilesInv'
  <2>1. \A d \in copying : d.id \in Ids /\ files[d.id].present
    BY DEF Inv, TypeOK, MemoryInv, FilesInv
  <2> QED BY <1>1, <1>4, <2>1 DEF Inv, MemoryInv, FilesInv, FileOf
<1>6. Changed({c.id})
  BY <1>1, <1>2, <1>3, <1>4 DEF Changed
<1> QED BY <1>3, <1>5, <1>6, ChangeKeeps

LEMMA Delete == ASSUME TypeOK', Inv, NEW i \in Ids, DeleteFile(i) PROVE Inv'
<1>1. MayChange({i}) /\ files' = [files EXCEPT ![i] = Absent] /\ UNCHANGED copying
  BY DEF DeleteFile
<1>2. \A j \in Ids : files'[j] = IF j = i THEN Absent ELSE files[j]
  BY <1>1 DEF Inv, TypeOK
<1>3. FilesInv'
  <2>1. \A c \in copying : c.id \in Ids /\ files[c.id].present /\ c.id # i
    BY <1>1 DEF Inv, TypeOK, MemoryInv, FilesInv, MayChange
  <2> QED BY <1>1, <1>2, <2>1 DEF Inv, MemoryInv, FilesInv, Absent
<1>4. Changed({i})
  BY <1>1, <1>2, MayChangeChanges
<1> QED BY <1>3, <1>4, ChangeKeeps

LEMMA Rename ==
    ASSUME TypeOK', Inv, NEW i \in Ids, NEW j \in UserIds, RenameFile(i, j)
    PROVE  Inv'
<1>1. /\ MayChange({i, j}) /\ files[i].present /\ j \in Ids /\ i # j
      /\ files' = [files EXCEPT ![i] = Absent, ![j] = files[i]]
      /\ UNCHANGED copying
  BY IdAssumption DEF RenameFile
<1>2. \A k \in Ids : files'[k] = IF k = j THEN files[i]
                                ELSE IF k = i THEN Absent ELSE files[k]
  BY <1>1 DEF Inv, TypeOK
<1>3. FilesInv'
  <2>1. \A c \in copying : c.id \in Ids /\ files[c.id].present /\ c.id # i /\ c.id # j
    BY <1>1 DEF Inv, TypeOK, MemoryInv, FilesInv, MayChange
  <2>2. ASSUME NEW k \in Ids, files'[k].payloads # {} PROVE files'[k].present
    <3>1. files[k].payloads # {} => files[k].present
      BY DEF Inv, MemoryInv, FilesInv
    <3>2. CASE k = j
      BY <1>1, <1>2, <3>2
    <3>3. CASE k # j /\ k = i
      BY <1>2, <2>2, <3>3 DEF Absent
    <3>4. CASE k # j /\ k # i
      BY <1>2, <2>2, <3>1, <3>4
    <3> QED BY <3>2, <3>3, <3>4
  <2>3. ASSUME NEW c \in copying' PROVE files'[c.id].present
    BY <1>1, <1>2, <2>1
  <2> QED BY <2>2, <2>3 DEF FilesInv
<1>4. Changed({i, j})
  BY <1>1, <1>2, MayChangeChanges
<1> QED BY <1>1, <1>3, <1>4, ChangeKeeps

\* Memory starts empty again; the directory is what it was.
LEMMA Again == ASSUME TypeOK', Inv, Restart PROVE Inv'
<1>1. /\ \A p \in Payloads : registry'[p] = None
      /\ loaded_ids' = {} /\ writing' = {} /\ resync'.pc = "due"
      /\ settled' = "no" /\ UNCHANGED <<files, copying>>
  BY DEF Restart, Reporter
<1>2. MemoryInv'
  BY <1>1, IdIsNotNone
  DEF Inv, MemoryInv, KnownLoaded, LoadedKnown, KnownWritten, WritingInv, FilesInv
<1>3. ScanInv'
  BY <1>1 DEF ScanInv
<1> QED BY <1>2, <1>3 DEF Inv

LEMMA Stay == ASSUME Inv, UNCHANGED vars PROVE Inv'
<1>1. TypeOK'
  BY TypeNext DEF Inv
<1>2. MemoryInv'
  BY DEF Inv, MemoryInv, KnownLoaded, LoadedKnown, KnownWritten, Written, WritingInv,
         FilesInv, Holds, Followed, vars, memory
<1>3. ScanInv'
  BY DEF Inv, ScanInv, Present, vars, memory
<1> QED BY <1>1, <1>2, <1>3 DEF Inv

LEMMA InvNext == 0 \notin Ids /\ Inv /\ [Next]_vars => Inv'
<1> SUFFICES ASSUME 0 \notin Ids, Inv, [Next]_vars PROVE Inv'
  OBVIOUS
<1>1. TypeOK'
  BY TypeNext DEF Inv
<1> QED
  BY <1>1, Begin, Visit, Remove, End, Train, Write, Add, Finish, Delete, Rename,
     Again, Stay
  DEF Next, Resync, User

LEMMA Inductive == 0 \notin Ids /\ Spec => [](0 \notin Ids /\ Inv)
<1>1. 0 \notin Ids /\ Init => 0 \notin Ids /\ Inv
  BY InvInit
<1>2. (0 \notin Ids /\ Inv) /\ [Next]_vars => (0 \notin Ids /\ Inv)'
  BY InvNext
<1> QED BY <1>1, <1>2, PTL DEF Spec

\* Once a resync has run after the last change, memory and directory agree, up to
\* what Followed excepts: in store, remove and resync of rc4.cpp, with a user who
\* changes the directory at any step, lazy reading, failing and partial writes,
\* any identifier for what is learned and restarts at any point.
THEOREM InSyncCorrect == 0 \notin Ids /\ Spec => []InSync
<1>1. Inv => InSync
  <2> SUFFICES ASSUME Inv, settled = "yes", NEW p \in Payloads, NEW i \in Ids
               PROVE  /\ Holds(i, p) => registry[p] = i \/ ~Followed(i, p)
                      /\ registry[p] = i => files[i].present /\ (Holds(i, p) \/ i \in altered)
    BY DEF InSync
  <2>1. writing = {} /\ loaded_ids = Present
    BY DEF Inv, MemoryInv, WritingInv, ScanInv
  <2>2. ASSUME Holds(i, p) PROVE registry[p] = i \/ ~Followed(i, p)
    <3>1. i \in loaded_ids
      BY <2>1, <2>2 DEF Inv, MemoryInv, FilesInv, Holds, Present
    <3> QED BY <2>2, <3>1 DEF Inv, MemoryInv, LoadedKnown
  <2>3. ASSUME registry[p] = i PROVE files[i].present /\ (Holds(i, p) \/ i \in altered)
    <3>1. i \in Present
      BY <2>1, <2>3, IdIsNotNone DEF Inv, MemoryInv, KnownLoaded
    <3>2. Written(i, p)
      BY <2>3 DEF Inv, MemoryInv, KnownWritten
    <3> QED BY <2>1, <3>1, <3>2 DEF Written, Present
  <2> QED BY <2>2, <2>3
<1> QED BY <1>1, Inductive, PTL

\* No step of resync takes from the receiver a payload that has a file, unless the
\* file came while the directory was read.
THEOREM NoLookupGapCorrect == 0 \notin Ids /\ Spec => NoLookupGap
<1> DEFINE Step == \A p \in Payloads :
             registry[p] # None /\ registry'[p] = None /\ count'.restarts = count.restarts
             => \A i \in Ids : Holds(i, p) => i \in resync.changed \/ ~Followed(i, p)
<1>1. ASSUME 0 \notin Ids, Inv, [Next]_vars PROVE [Step]_vars
  <2> SUFFICES ASSUME NEW p \in Payloads, registry[p] # None, registry'[p] = None,
                      count'.restarts = count.restarts, NEW j \in Ids, Holds(j, p)
               PROVE  j \in resync.changed \/ ~Followed(j, p)
    OBVIOUS
  <2>1. ASSUME NEW i \in Ids, ResyncRemove(i)
        PROVE  j \in resync.changed \/ ~Followed(j, p)
    <3>1. /\ resync.pc = "visit" /\ resync.left \subseteq resync.changed
          /\ i \notin resync.current_ids /\ registry[p] = i
      BY <2>1 DEF ResyncRemove, AllVisited, Gone
    <3>2. j \in resync.current_ids \cup resync.changed
      BY <1>1, <3>1 DEF Inv, MemoryInv, FilesInv, Holds, ScanInv, Present
    <3>3. j \in resync.current_ids => j \in loaded_ids /\ registry[p] # j
      BY <1>1, <3>1 DEF Inv, ScanInv
    <3> QED BY <1>1, <3>2, <3>3 DEF Inv, MemoryInv, LoadedKnown
  <2>2. ASSUME NEW id \in Nat, NEW ps \in SUBSET Payloads, Store(id, ps) PROVE FALSE
    <3>1. registry'[p] = Assigned(id) \/ registry'[p] = registry[p]
      BY <1>1, <2>2, StoreLemma DEF Inv
    <3>2. Assigned(id) # None
      BY <1>1, <2>2, StoreLemma DEF Inv, None
    <3> QED BY <3>1, <3>2
  <2>3. ASSUME NEW i \in Ids, ResyncVisit(i) PROVE FALSE
    <3>1. CASE NeedsLoading(i) /\ files[i].payloads # {}
      <4>1. Store(i, files[i].payloads) /\ files[i].payloads \in SUBSET Payloads /\ i \in Nat
        BY <1>1, <2>3, <3>1, IdIsNotNone DEF ResyncVisit, Inv, TypeOK
      <4> QED BY <2>2, <4>1
    <3>2. CASE ~(NeedsLoading(i) /\ files[i].payloads # {})
      BY <2>3, <3>2 DEF ResyncVisit
    <3> QED BY <3>1, <3>2
  <2>4. ASSUME NEW id \in Ids \cup {0}, NEW ps \in SUBSET Payloads, Learn(id, ps) PROVE FALSE
    BY <2>2, <2>4, IdIsNotNone DEF Learn
  <2>5. ~Restart
    BY <1>1 DEF Restart, Inv, TypeOK
  <2>6. ~(ResyncBegin \/ ResyncEnd \/ LearnWrite \/ FinishCopy \/ UNCHANGED vars)
    BY DEF ResyncBegin, ResyncEnd, LearnWrite, FinishCopy, vars, memory
  <2>7. ~\E i, k \in Ids, ps \in SUBSET Payloads :
           AddFile(i, ps) \/ DeleteFile(i) \/ RenameFile(i, k)
    BY DEF AddFile, DeleteFile, RenameFile, MayChange, memory
  <2> QED
    BY <1>1, <2>1, <2>3, <2>4, <2>5, <2>6, <2>7, IdAssumption DEF Next, Resync, User
<1>2. (0 \notin Ids /\ Inv) /\ [Next]_vars => [Step]_vars
  BY <1>1
<1> QED BY <1>2, Inductive, PTL DEF Spec, NoLookupGap

----------------------------------------------------------------------------
(* Automatic identifiers, in ordinary use.                                 *)

IInv == Inv /\ AutoInv /\ AutoIdsDistinct

LEMMA AutoInit == Init => AutoInv /\ AutoIdsDistinct
<1> SUFFICES ASSUME Init PROVE AutoInv /\ AutoIdsDistinct
  OBVIOUS
<1>1. /\ resync.pc = "due" /\ writing = {} /\ copying = {} /\ loaded_ids = {}
      /\ next_transponder = AutoBase
      /\ \A p \in Payloads : registry[p] = None
  BY DEF Init, Reporter
<1>2. AutoBase =< AutoTop + 1 /\ None \notin AutoIds
  BY IdAssumption DEF AutoIds, None
<1> QED BY <1>1, <1>2 DEF AutoInv, AutoIdsDistinct

\* store moves the next identifier past the one it used.
LEMMA StoreNext ==
    ASSUME OrdinaryUse, TypeOK, next_transponder =< AutoTop + 1,
           NEW id \in Nat, NEW ps \in SUBSET Payloads, Store(id, ps),
           Assigned(id) \in Ids
    PROVE  /\ next_transponder \in Nat /\ next_transponder' \in Nat
           /\ next_transponder =< next_transponder'
           /\ next_transponder' =< AutoTop + 1
           /\ Assigned(id) \in AutoIds => Assigned(id) < next_transponder'
           /\ id = 0 => next_transponder \in AutoIds
<1>1. /\ next_transponder \in Nat /\ next_transponder >= AutoBase
      /\ AutoBase \in Nat /\ AutoTop \in Nat
  BY IdAssumption DEF TypeOK
<1>2. next_transponder' = IF id = 0 THEN next_transponder + 1 ELSE NextAfter(id)
  BY DEF Store
<1>3. CASE id = 0
  <2>1. next_transponder # AutoTop + 1
    BY <1>3 DEF Assigned, OrdinaryUse
  <2> QED BY <1>1, <1>2, <1>3, <2>1 DEF Assigned, AutoIds
<1>4. CASE id # 0
  BY <1>1, <1>2, <1>4 DEF NextAfter, Assigned, AutoIds
<1> QED BY <1>3, <1>4

LEMMA AutoNat == \A i \in AutoIds : i \in Nat
BY IdAssumption DEF AutoIds

\* The fields of what store is about to write.
LEMMA ToWrite ==
    ASSUME NEW k, NEW ps, NEW id, writing' = {[id |-> k, payloads |-> ps, assigned |-> id = 0]}
    PROVE  \A w \in writing' : w.id = k /\ w.payloads = ps /\ (w.assigned => id = 0)
<1>1. CASE id = 0
  BY <1>1
<1>2. CASE id # 0
  <2>1. writing' = {[id |-> k, payloads |-> ps, assigned |-> FALSE]}
    BY <1>2
  <2> QED BY <2>1
<1> QED BY <1>1, <1>2

LEMMA AutoBegin == ASSUME IInv, ResyncBegin PROVE AutoInv' /\ AutoIdsDistinct'
<1>1. /\ resync'.pc = "visit" /\ resync'.changed = {}
      /\ UNCHANGED <<registry, next_transponder, loaded_ids, files, writing, copying>>
  BY DEF ResyncBegin, memory, Reporter
<1> QED BY <1>1 DEF IInv, AutoInv, AutoIdsDistinct

LEMMA AutoVisit ==
    ASSUME OrdinaryUse, IInv, NEW i \in Ids, ResyncVisit(i)
    PROVE  AutoInv' /\ AutoIdsDistinct'
<1> DEFINE storing == NeedsLoading(i) /\ files[i].payloads # {}
<1>1. /\ resync.pc = "visit" /\ resync'.pc = "visit"
      /\ resync'.changed = resync.changed
      /\ loaded_ids' = loaded_ids \cup {i}
      /\ UNCHANGED <<files, writing, copying>>
  BY DEF ResyncVisit, IInv, Inv, TypeOK
<1>2. writing = {} /\ i \in Nat /\ i # 0
  BY <1>1, IdIsNotNone DEF IInv, Inv, MemoryInv, WritingInv, OrdinaryUse
<1>3. /\ next_transponder \in Nat /\ next_transponder' \in Nat
      /\ next_transponder =< next_transponder'
      /\ next_transponder' =< AutoTop + 1
      /\ i \in AutoIds /\ files[i].payloads # {} => i < next_transponder'
      /\ \A p \in Payloads : registry'[p] \in AutoIds => registry'[p] < next_transponder'
  <2>1. CASE storing
    <3>1. Store(i, files[i].payloads) /\ Assigned(i) = i
          /\ files[i].payloads \in SUBSET Payloads
      BY <1>2, <2>1 DEF ResyncVisit, Assigned, IInv, Inv, TypeOK
    <3>2. /\ next_transponder \in Nat /\ next_transponder' \in Nat
          /\ next_transponder =< next_transponder'
          /\ next_transponder' =< AutoTop + 1
          /\ i \in AutoIds => i < next_transponder'
      BY <1>2, <3>1, StoreNext DEF IInv, Inv, AutoInv
    <3>3. ASSUME NEW p \in Payloads, registry'[p] \in AutoIds
          PROVE  registry'[p] < next_transponder'
      <4>1. registry'[p] = i \/ registry'[p] = registry[p]
        BY <3>1 DEF Store
      <4>2. registry[p] \in AutoIds => registry[p] < next_transponder
        BY DEF IInv, AutoInv
      <4>3. registry'[p] \in Nat
        BY <3>3, AutoNat
      <4> QED BY <3>2, <3>3, <4>1, <4>2, <4>3
    <3> QED BY <3>2, <3>3
  <2>2. CASE ~storing
    <3>1. /\ i \in loaded_ids \/ files[i].payloads = {}
          /\ registry' = registry /\ next_transponder' = next_transponder
      BY <2>2 DEF ResyncVisit, NeedsLoading
    <3>2. next_transponder \in Nat
      BY DEF IInv, Inv, TypeOK
    <3> QED BY <3>1, <3>2 DEF IInv, AutoInv
  <2> QED BY <2>1, <2>2
<1>4. ASSUME NEW j \in loaded_ids' \cap AutoIds, files[j].payloads # {}
      PROVE  j < next_transponder'
  <2>1. CASE j = i
    BY <1>3, <1>4, <2>1
  <2>2. CASE j # i
    <3>1. j < next_transponder /\ j \in Nat
      BY <1>1, <1>4, <2>2, AutoNat DEF IInv, AutoInv
    <3> QED BY <1>3, <3>1
  <2> QED BY <2>1, <2>2
<1> QED BY <1>1, <1>2, <1>3, <1>4 DEF IInv, AutoInv, AutoIdsDistinct

LEMMA AutoRemove ==
    ASSUME IInv, NEW i \in Ids, ResyncRemove(i) PROVE AutoInv' /\ AutoIdsDistinct'
<1>1. /\ resync.pc = "visit" /\ loaded_ids' = loaded_ids \ {i}
      /\ UNCHANGED <<next_transponder, files, resync, writing, copying>>
  BY DEF ResyncRemove
<1>2. \A p \in Payloads : registry'[p] \in {None, registry[p]}
  BY DEF ResyncRemove
<1>3. writing = {} /\ None \notin AutoIds
  BY <1>1, AutoNat DEF IInv, Inv, MemoryInv, WritingInv, None
<1> QED BY <1>1, <1>2, <1>3 DEF IInv, AutoInv, AutoIdsDistinct

\* When a walk ends, the automatic files that are there are loaded.
LEMMA AutoEnd == ASSUME IInv, ResyncEnd PROVE AutoInv' /\ AutoIdsDistinct'
<1>1. /\ resync.pc = "visit" /\ AllVisited /\ resync'.pc = "idle"
      /\ UNCHANGED <<registry, next_transponder, loaded_ids, files, writing, copying>>
  BY DEF ResyncEnd, memory, Reporter
<1>2. ASSUME NEW i \in Ids \cap AutoIds, files[i].payloads # {}
      PROVE  i < next_transponder
  <2>1. i \in Present
    BY <1>2 DEF IInv, Inv, MemoryInv, FilesInv, Present
  <2>2. i \notin resync.changed
    BY <1>1, <2>1 DEF IInv, AutoInv, Present
  <2>3. i \in loaded_ids
    BY <1>1, <2>1, <2>2 DEF IInv, Inv, ScanInv, AllVisited
  <2> QED BY <1>2, <2>3 DEF IInv, AutoInv
<1> QED BY <1>1, <1>2 DEF IInv, AutoInv, AutoIdsDistinct

\* The next identifier is above all that are known or on file.
LEMMA AutoTrain ==
    ASSUME OrdinaryUse, IInv, NEW id \in Ids \cup {0}, NEW ps \in SUBSET Payloads,
           Learn(id, ps)
    PROVE  AutoInv' /\ AutoIdsDistinct'
<1> DEFINE k == Assigned(id)
<1>1. /\ resync.pc = "idle" /\ k \in Ids /\ Store(id, ps) /\ id \in Nat
      /\ loaded_ids' = loaded_ids \cup {k}
      /\ writing' = {[id |-> k, payloads |-> ps, assigned |-> id = 0]}
      /\ resync'.pc = "write"
      /\ UNCHANGED <<files, copying>>
  BY IdIsNotNone DEF Learn, Reporter
<1>2. /\ next_transponder \in Nat /\ next_transponder' \in Nat
      /\ next_transponder =< next_transponder'
      /\ next_transponder' =< AutoTop + 1
      /\ k \in AutoIds => k < next_transponder'
      /\ id = 0 => next_transponder \in AutoIds
  BY <1>1, StoreNext DEF IInv, Inv, AutoInv
<1>3. \A p \in Payloads : registry'[p] = IF p \in ps THEN k ELSE registry[p]
  BY <1>1 DEF Store
<1>4. id = 0 => k = next_transponder
  BY DEF Assigned
<1> HIDE DEF k
<1>5. \A i \in Ids \cap AutoIds : files[i].payloads # {} => i < next_transponder
  BY <1>1 DEF IInv, AutoInv
<1>6. \A p \in Payloads : registry[p] \in AutoIds => registry[p] < next_transponder
  BY DEF IInv, AutoInv
<1>7. ASSUME NEW p \in Payloads, registry'[p] \in AutoIds PROVE registry'[p] < next_transponder'
  <2>1. registry'[p] = k \/ (registry'[p] = registry[p] /\ registry[p] < next_transponder)
    BY <1>3, <1>6, <1>7
  <2> QED BY <1>2, <1>7, <2>1, AutoNat
<1>8. \A i \in Ids \cap AutoIds : files[i].payloads # {} => i < next_transponder'
  BY <1>2, <1>5, AutoNat
<1>9. loaded_ids' \subseteq Ids
  BY <1>1 DEF IInv, Inv, MemoryInv, KnownLoaded
<1>10. AutoInv'
  <2>1. \A w \in writing' : w.id = k /\ (w.assigned => id = 0)
    BY <1>1, ToWrite
  <2>2. \A w \in writing' : /\ w.id \in AutoIds => w.id < next_transponder'
                           /\ w.assigned => w.id \in AutoIds
    BY <1>2, <1>4, <2>1
  <2>3. \A i \in loaded_ids' \cap AutoIds : files[i].payloads # {} => i < next_transponder'
    BY <1>8, <1>9
  <2>4. \A c \in copying' : c.id \notin AutoIds
    BY <1>1 DEF IInv, AutoInv
  <2> QED BY <1>1, <1>2, <1>7, <1>8, <2>2, <2>3, <2>4 DEF AutoInv
<1>11. ASSUME id = 0
       PROVE  /\ \A p \in Payloads \ ps : registry'[p] # k
              /\ files[k].payloads = {}
  <2>1. k = next_transponder /\ k \in AutoIds /\ ~(k < k)
    BY <1>2, <1>4, <1>11, AutoNat
  <2>2. files[k].payloads = {}
    BY <1>1, <1>5, <2>1
  <2>3. \A p \in Payloads \ ps : registry'[p] # k
    BY <1>3, <1>6, <2>1
  <2> QED BY <2>2, <2>3
<1>12. AutoIdsDistinct'
  <2>1. \A w \in writing' : w.id = k /\ w.payloads = ps /\ (w.assigned => id = 0)
    BY <1>1, ToWrite
  <2> QED BY <1>1, <1>11, <2>1 DEF AutoIdsDistinct
<1> QED BY <1>10, <1>12

LEMMA AutoWrite == ASSUME IInv, LearnWrite PROVE AutoInv' /\ AutoIdsDistinct'
<1>1. /\ writing' = {} /\ resync'.pc = "due"
      /\ UNCHANGED <<registry, next_transponder, loaded_ids, copying>>
  BY DEF LearnWrite, memory, Reporter
<1>2. PICK w \in writing :
        \/ \E written \in SUBSET w.payloads :
             files' = [files EXCEPT ![w.id] = FileOf(files[w.id].payloads \cup written)]
        \/ UNCHANGED files
  BY DEF LearnWrite
<1>3. \A j \in Ids : j # w.id => files'[j] = files[j]
  BY <1>2 DEF IInv, Inv, TypeOK
<1>4. w.id \in AutoIds => w.id < next_transponder
  BY DEF IInv, AutoInv
<1>5. \A j \in loaded_ids \cap AutoIds : files'[j].payloads # {} => j < next_transponder
  BY <1>3, <1>4 DEF IInv, AutoInv, Inv, MemoryInv, KnownLoaded
<1> QED BY <1>1, <1>5 DEF IInv, AutoInv, AutoIdsDistinct

\* What the user does never adds a file of the automatic range.
AutoShrinks(names) ==
    /\ \A j \in Ids \cap AutoIds : \/ files'[j] = files[j]
                               \/ (~files'[j].present /\ files'[j].payloads = {})
    /\ \A j \in names \cap AutoIds : ~files'[j].present
    /\ \A c \in copying' : c.id \notin AutoIds

LEMMA AutoChange ==
    ASSUME IInv, NEW names \in SUBSET Ids, Changed(names), AutoShrinks(names),
           resync'.changed \subseteq resync.changed \cup names
    PROVE  AutoInv' /\ AutoIdsDistinct'
<1>1. /\ resync'.pc = resync.pc
      /\ UNCHANGED <<registry, next_transponder, loaded_ids, writing>>
  BY DEF Changed
<1>2. \A j \in Ids \cap AutoIds : files'[j].payloads # {} => files[j].payloads # {}
  BY DEF AutoShrinks
<1>3. \A j \in loaded_ids \cap AutoIds : files'[j].payloads # {} => j < next_transponder
  BY <1>2 DEF IInv, AutoInv, Inv, MemoryInv, KnownLoaded
<1>4. resync.pc \in {"idle", "write"} =>
         \A j \in Ids \cap AutoIds : files'[j].payloads # {} => j < next_transponder
  BY <1>2 DEF IInv, AutoInv
<1>5. resync.pc = "visit" =>
         \A j \in Ids \cap AutoIds : j \in resync'.changed => ~files'[j].present
  BY DEF AutoShrinks, IInv, AutoInv
<1>6. AutoInv'
  BY <1>1, <1>3, <1>4, <1>5 DEF IInv, AutoInv, AutoShrinks
<1>7. AutoIdsDistinct'
  <2>1. ASSUME NEW w \in writing, w.assigned PROVE files'[w.id].payloads = {}
    <3>1. w.id \in Ids \cap AutoIds /\ files[w.id].payloads = {}
      BY <2>1 DEF IInv, AutoInv, AutoIdsDistinct, Inv, TypeOK
    <3> QED BY <1>2, <3>1
  <2> QED BY <1>1, <2>1 DEF IInv, AutoIdsDistinct
<1> QED BY <1>6, <1>7

LEMMA AutoAdd ==
    ASSUME OrdinaryUse, IInv, NEW i \in UserIds, NEW ps \in SUBSET Payloads, AddFile(i, ps)
    PROVE  AutoInv' /\ AutoIdsDistinct'
<1>1. /\ MayChange({i}) /\ i \in Ids /\ i \notin AutoIds
      /\ files' = [files EXCEPT ![i] = FileOf({})]
      /\ copying' = copying \cup {[id |-> i, payloads |-> ps]}
  BY IdAssumption DEF AddFile, OrdinaryUse, AutoIds
<1>2. \A j \in Ids \ {i} : files'[j] = files[j]
  BY <1>1 DEF IInv, Inv, TypeOK
<1>3. Changed({i}) /\ resync'.changed \subseteq resync.changed \cup {i}
  BY <1>1, <1>2, MayChangeChanges, ChangeType DEF IInv, Inv
<1>4. AutoShrinks({i})
  <2>1. \A c \in copying' : c.id \notin AutoIds
    BY <1>1 DEF IInv, AutoInv
  <2>2. \A j \in Ids \cap AutoIds : files'[j] = files[j]
    BY <1>1, <1>2
  <2> QED BY <1>1, <2>1, <2>2 DEF AutoShrinks
<1> QED BY <1>1, <1>3, <1>4, AutoChange

LEMMA AutoFinish == ASSUME IInv, FinishCopy PROVE AutoInv' /\ AutoIdsDistinct'
<1>1. PICK c \in copying :
        /\ files' = [files EXCEPT ![c.id] = FileOf(@.payloads \cup c.payloads)]
        /\ copying' = copying \ {c}
        /\ altered' = altered \cup ({c.id} \cap loaded_ids)
  BY DEF FinishCopy
<1>2. /\ settled' = "no" /\ resync' = resync
      /\ UNCHANGED <<registry, next_transponder, loaded_ids, writing, taken_over>>
  BY DEF FinishCopy, memory
<1>3. c.id \in Ids /\ files[c.id].present /\ c.id \notin AutoIds
  BY DEF IInv, Inv, TypeOK, MemoryInv, FilesInv, AutoInv
<1>4. \A j \in Ids \ {c.id} : files'[j] = files[j]
  BY <1>1 DEF IInv, Inv, TypeOK
<1>5. Changed({c.id})
  BY <1>1, <1>2, <1>3, <1>4 DEF Changed
<1>6. AutoShrinks({c.id})
  <2>1. \A d \in copying' : d.id \notin AutoIds
    BY <1>1 DEF IInv, AutoInv
  <2>2. \A j \in Ids \cap AutoIds : files'[j] = files[j]
    BY <1>3, <1>4
  <2> QED BY <1>3, <2>1, <2>2 DEF AutoShrinks
<1> QED BY <1>2, <1>3, <1>5, <1>6, AutoChange

LEMMA AutoDelete ==
    ASSUME IInv, NEW i \in Ids, DeleteFile(i) PROVE AutoInv' /\ AutoIdsDistinct'
<1>1. MayChange({i}) /\ files' = [files EXCEPT ![i] = Absent] /\ UNCHANGED copying
  BY DEF DeleteFile
<1>2. \A j \in Ids : files'[j] = IF j = i THEN Absent ELSE files[j]
  BY <1>1 DEF IInv, Inv, TypeOK
<1>3. Changed({i}) /\ resync'.changed \subseteq resync.changed \cup {i}
  BY <1>1, <1>2, MayChangeChanges, ChangeType DEF IInv, Inv
<1>4. AutoShrinks({i})
  <2>1. \A c \in copying' : c.id \notin AutoIds
    BY <1>1 DEF IInv, AutoInv
  <2>2. \A j \in Ids \cap AutoIds : j # i => files'[j] = files[j]
    BY <1>2
  <2>3. ~files'[i].present /\ files'[i].payloads = {}
    BY <1>2 DEF Absent
  <2>4. \A j \in {i} : j = i
    OBVIOUS
  <2> QED BY <2>1, <2>2, <2>3, <2>4 DEF AutoShrinks
<1> QED BY <1>3, <1>4, AutoChange

LEMMA AutoRename ==
    ASSUME OrdinaryUse, IInv, NEW i \in Ids, NEW j \in UserIds, RenameFile(i, j)
    PROVE  AutoInv' /\ AutoIdsDistinct'
<1>1. /\ MayChange({i, j}) /\ j \in Ids /\ i # j /\ j \notin AutoIds
      /\ files' = [files EXCEPT ![i] = Absent, ![j] = files[i]]
      /\ UNCHANGED copying
  BY IdAssumption DEF RenameFile, OrdinaryUse, AutoIds
<1>2. \A k \in Ids : files'[k] = IF k = j THEN files[i]
                                ELSE IF k = i THEN Absent ELSE files[k]
  BY <1>1 DEF IInv, Inv, TypeOK
<1>3. Changed({i, j})
  <2>1. \A k \in Ids \ {i, j} : files'[k] = files[k]
    BY <1>2
  <2> QED BY <1>1, <2>1, MayChangeChanges DEF IInv
<1>4. AutoShrinks({i, j})
  <2>1. \A c \in copying' : c.id \notin AutoIds
    BY <1>1 DEF IInv, AutoInv
  <2>2. \A k \in Ids \cap AutoIds : k # i => files'[k] = files[k]
    BY <1>1, <1>2
  <2>3. ~files'[i].present /\ files'[i].payloads = {}
    <3>1. files'[i] = Absent
      BY <1>1, <1>2
    <3> QED BY <3>1 DEF Absent
  <2>4. \A k \in {i, j} \cap AutoIds : k = i
    BY <1>1
  <2> QED BY <2>1, <2>2, <2>3, <2>4 DEF AutoShrinks
<1>5. resync'.changed \subseteq resync.changed \cup {i, j}
  <2>1. {i, j} \in SUBSET Ids
    BY <1>1
  <2> QED BY <1>1, <2>1, ChangeType DEF IInv, Inv
<1> QED BY <1>1, <1>3, <1>4, <1>5, AutoChange

LEMMA AutoAgain == ASSUME IInv, Restart PROVE AutoInv' /\ AutoIdsDistinct'
<1>1. /\ \A p \in Payloads : registry'[p] = None
      /\ next_transponder' = AutoBase
      /\ loaded_ids' = {} /\ writing' = {} /\ resync'.pc = "due"
      /\ UNCHANGED <<files, copying>>
  BY DEF Restart, Reporter
<1>2. AutoBase =< AutoTop + 1 /\ None \notin AutoIds
  BY IdAssumption DEF AutoIds, None
<1> QED BY <1>1, <1>2 DEF IInv, AutoInv, AutoIdsDistinct

LEMMA AutoStay == ASSUME IInv, UNCHANGED vars PROVE AutoInv' /\ AutoIdsDistinct'
BY DEF IInv, AutoInv, AutoIdsDistinct, vars, memory

LEMMA AutoNext == OrdinaryUse /\ IInv /\ [Next]_vars => IInv'
<1> SUFFICES ASSUME OrdinaryUse, IInv, [Next]_vars PROVE IInv'
  OBVIOUS
<1>1. Inv'
  BY InvNext DEF OrdinaryUse, IInv
<1>2. AutoInv' /\ AutoIdsDistinct'
  BY AutoBegin, AutoVisit, AutoRemove, AutoEnd, AutoTrain, AutoWrite, AutoAdd,
     AutoFinish, AutoDelete, AutoRename, AutoAgain, AutoStay
  DEF Next, Resync, User
<1> QED BY <1>1, <1>2 DEF IInv

\* In ordinary use an identifier that store assigns is nobody's, also when automatic
\* identifiers were renamed away or are assigned again after a restart.
THEOREM AutoIdsDistinctCorrect == OrdinaryUse /\ Spec => []AutoIdsDistinct
<1>1. OrdinaryUse /\ Init => OrdinaryUse /\ IInv
  BY InvInit, AutoInit DEF IInv
<1>2. (OrdinaryUse /\ IInv) /\ [Next]_vars => (OrdinaryUse /\ IInv)'
  BY AutoNext DEF OrdinaryUse
<1>3. IInv => AutoIdsDistinct
  BY DEF IInv
<1> QED BY <1>1, <1>2, <1>3, PTL DEF Spec
============================================================================
