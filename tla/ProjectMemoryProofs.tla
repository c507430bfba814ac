------------------------- MODULE ProjectMemoryProofs -------------------------
(***************************************************************************)
(* Proofs about the project memory for any number of concurrent callers    *)
(* that change any entries: what store and index agree on, what a caller   *)
(* that has its answer finds in them, and what is in the file after a call *)
(* that no other overlapped.                                               *)
(***************************************************************************)
EXTENDS ProjectMemory, TLAPS

TypesOK ==
  /\ MemoryTypeOK
  /\ call \in [Callers -> [id : Ids \cup {None}, content : Contents \cup {None}]]

\* What a step leaves in the file is one of its states, and is read as one of memory's.
LEMMA FilesAreFiles ==
  /\ Empty \in Memory
  /\ \A n \in Nat : Torn(n) \in File
  /\ \A m \in Memory : TextSize[m] \in Nat /\ Whole(m) \in File
  /\ \A f \in File : Loaded(f) \in Memory
<1>1. Empty \in Memory
  BY DEF Empty, Memory
<1>2. \A m \in Memory : TextSize[m] \in Nat
  BY MemoryAssumption DEF MemoryAssumption
<1> QED
  BY <1>1, <1>2 DEF Torn, Whole, Loaded, File

LEMMA TypesInitial == Init => TypesOK
<1> SUFFICES ASSUME Init PROVE TypesOK
  OBVIOUS
<1>1. file \in File /\ Loaded(file) = Empty
  BY FilesAreFiles DEF Init, File, Loaded
<1> QED
  BY <1>1, FilesAreFiles DEF Init, TypesOK, MemoryTypeOK, Place, NoCall

\* Every step keeps the types, whoever uses whose entries.
LEMMA TypesStep == ASSUME TypesOK, [Next]_vars PROVE TypesOK'
<1> USE DEF TypesOK, MemoryTypeOK, Place, Goes, Ends
<1>1. ASSUME NEW w \in Callers, MemoryCall(w) PROVE TypesOK'
  <2>1. CASE Begin(w)
    <3>1. PICK i \in Ids, c \in Contents \cup {None} :
            call' = [call EXCEPT ![w] = [id |-> i, content |-> c]]
      BY <2>1 DEF Begin
    <3> QED
      BY <2>1, <3>1 DEF Begin, history
  <2>2. CASE StoreEntry(w) \/ IndexEntry(w)
    <3>1. Set(entries, w) \in Memory /\ Set(index, w) \in Memory
      BY DEF Set, Memory
    <3>2. CASE StoreEntry(w)
      <4>1. entries' \in Memory
        BY <3>1, <3>2 DEF StoreEntry
      <4>2. writers' \in [Ids -> SUBSET Callers]
        BY <3>2 DEF StoreEntry
      <4> QED
        BY <3>2, <4>1, <4>2 DEF StoreEntry
    <3>3. CASE IndexEntry(w)
      <4>1. index' \in Memory
        BY <3>1, <3>3 DEF IndexEntry
      <4> QED
        BY <3>3, <4>1 DEF IndexEntry, history
    <3> QED
      BY <2>2, <3>2, <3>3
  <2>3. CASE ListEntries(w) \/ OpenFails(w)
    <3>1. CASE ListEntries(w)
      BY <3>1 DEF ListEntries, history
    <3>2. CASE OpenFails(w)
      BY <3>2, FilesAreFiles DEF OpenFails, history
    <3> QED
      BY <2>3, <3>1, <3>2
  <2>4. CASE Open(w)
    <3>1. file' \in File
      BY <2>4, FilesAreFiles DEF Open
    <3> QED
      BY <2>4, <3>1 DEF Open, history
  <2>5. CASE Write(w) \/ WriteFails(w)
    <3>1. payload[w] \in Memory /\ file.size \in Nat
      BY DEF File
    <3>2. CASE Write(w)
      <4>1. file' \in File
        BY <3>1, <3>2, FilesAreFiles DEF Write
      <4> QED
        BY <3>2, <4>1, FilesAreFiles DEF Write, history
    <3>3. CASE WriteFails(w)
      <4>1. PICK n \in 0 .. TextSize[payload[w]] - 1 :
              file' = IF n = 0 THEN file ELSE Torn(IF n > file.size THEN n ELSE file.size)
        BY <3>3 DEF WriteFails
      <4>2. n \in Nat
        BY <3>1, FilesAreFiles
      <4>3. file' \in File
        BY <3>1, <4>1, <4>2, FilesAreFiles
      <4> QED
        BY <3>3, <4>3, FilesAreFiles DEF WriteFails, history
    <3> QED
      BY <2>5, <3>2, <3>3
  <2> QED
    BY <1>1, <2>1, <2>2, <2>3, <2>4, <2>5 DEF MemoryCall
<1>2. CASE CreateSnapshot
  BY <1>2 DEF CreateSnapshot, history
<1>3. CASE Restore
  BY <1>3 DEF Restore, Memory
<1>4. CASE Restart
  BY <1>4, FilesAreFiles DEF Restart, NoCall
<1>5. CASE UNCHANGED vars
  BY <1>5 DEF vars
<1> QED
  BY <1>1, <1>2, <1>3, <1>4, <1>5 DEF Next

------------------------------------------------------------------------------
(* The memory *)

Answered(w) == pc[w] = "idle" /\ answer[w] \in {"persisted", "failed"}

InStore(w) == entries[call[w].id] = call[w].content
InIndex(w) == index[call[w].id] = call[w].content

Only(w) == writers[call[w].id] = {w}

(***************************************************************************)
(* The inductive invariant: who is between store and index is among the    *)
(* writers of its entry, and how far a call has got says where its entry   *)
(* is already.  So while its writer is one caller, no other is about to    *)
(* change the index, and one that changes the store becomes a writer.      *)
(***************************************************************************)
CallIsKept(w) ==
  /\ pc[w] # "idle" \/ Answered(w) => call[w].id \in Ids
  /\ pc[w] = "indexing" => w \in writers[call[w].id] /\ (Only(w) => InStore(w))
  /\ pc[w] \in {"listing", "opening", "writing"} \/ Answered(w) =>
       (Only(w) => InStore(w) /\ InIndex(w))

MemoryInv == TypesOK /\ StoreIsIndexed /\ \A w \in Callers : CallIsKept(w)

LEMMA MemoryInitial == Init => MemoryInv
BY TypesInitial DEF Init, MemoryInv, StoreIsIndexed, CallIsKept, Answered

\* A change of an entry leaves the other entries alone.
LEMMA SetIsLocal ==
  ASSUME MemoryInv, NEW w \in Callers, pc[w] # "idle", NEW m \in Memory
  PROVE  /\ call[w].id \in Ids
         /\ Set(m, w)[call[w].id] = call[w].content
         /\ \A i \in Ids \ {call[w].id} : Set(m, w)[i] = m[i]
BY DEF MemoryInv, CallIsKept, Set, Memory

LEMMA StoreKeepsInv ==
  ASSUME MemoryInv, NEW w \in Callers, StoreEntry(w)
  PROVE  StoreIsIndexed' /\ \A v \in Callers : CallIsKept(v)'
<1> USE DEF MemoryInv, TypesOK, MemoryTypeOK, Place, Goes
<1> DEFINE i == call[w].id
<1>1. /\ pc[w] = "storing" /\ pc' = [pc EXCEPT ![w] = "indexing"]
      /\ entries' = Set(entries, w)
      /\ writers' = [writers EXCEPT ![i] = IF Changing(i) = {} THEN {w} ELSE writers[i] \cup {w}]
      /\ UNCHANGED <<index, file, call, payload, answer, snapshot, sole>>
  BY DEF StoreEntry
<1>2. /\ i \in Ids /\ Set(entries, w)[i] = call[w].content
      /\ \A j \in Ids \ {i} : Set(entries, w)[j] = entries[j]
  BY <1>1, SetIsLocal
<1>3. w \in writers'[i] /\ \A j \in Ids \ {i} : writers'[j] = writers[j]
  BY <1>1, <1>2
<1>4. StoreIsIndexed'
  <2>1. w \in Changing(i)'
    BY <1>1 DEF Changing
  <2>2. \A j \in Ids \ {i} : Changing(j)' = Changing(j)
    BY <1>1 DEF Changing
  <2> QED
    BY <1>1, <1>2, <1>3, <2>1, <2>2 DEF StoreIsIndexed
<1>5. CallIsKept(w)'
  BY <1>1, <1>2, <1>3 DEF CallIsKept, Answered, InStore, Only
<1>6. ASSUME NEW v \in Callers \ {w} PROVE CallIsKept(v)'
  <2>1. CallIsKept(v) /\ pc'[v] = pc[v]
    BY <1>1
  <2>2. CASE call[v].id = i
    <3>1. ~Only(v)'
      BY <1>1, <1>3, <2>2 DEF Only
    <3>2. pc[v] = "indexing" => v \in writers'[i]
      <4>1. pc[v] = "indexing" => v \in Changing(i) /\ v \in writers[i]
        BY <2>1, <2>2 DEF Changing, CallIsKept
      <4> QED
        BY <1>1, <1>2, <4>1
    <3> QED
      BY <1>1, <2>1, <2>2, <3>1, <3>2 DEF CallIsKept, Answered
  <2>3. CASE call[v].id # i
    BY <1>1, <1>2, <1>3, <2>1, <2>3 DEF CallIsKept, Answered, InStore, InIndex, Only
  <2> QED
    BY <2>2, <2>3
<1> QED
  BY <1>4, <1>5, <1>6

LEMMA IndexKeepsInv ==
  ASSUME MemoryInv, NEW w \in Callers, IndexEntry(w)
  PROVE  StoreIsIndexed' /\ \A v \in Callers : CallIsKept(v)'
<1> USE DEF MemoryInv, TypesOK, MemoryTypeOK, Place, Goes
<1> DEFINE i == call[w].id
<1>1. /\ pc[w] = "indexing" /\ pc' = [pc EXCEPT ![w] = "listing"]
      /\ index' = Set(index, w)
      /\ UNCHANGED <<entries, file, call, payload, answer, snapshot, writers, sole>>
  BY DEF IndexEntry, history
<1>2. /\ i \in Ids /\ Set(index, w)[i] = call[w].content
      /\ \A j \in Ids \ {i} : Set(index, w)[j] = index[j]
  BY <1>1, SetIsLocal
<1>3. w \in writers[i] /\ (writers[i] = {w} => entries[i] = call[w].content)
  BY <1>1 DEF CallIsKept, Only, InStore
<1>4. StoreIsIndexed'
  <2>1. (\A u, v \in writers[i] : u = v) => writers[i] = {w}
    BY <1>3
  <2>2. \A j \in Ids \ {i} : Changing(j)' = Changing(j)
    BY <1>1 DEF Changing
  <2> QED
    BY <1>1, <1>2, <1>3, <2>1, <2>2 DEF StoreIsIndexed
<1>5. ASSUME NEW v \in Callers PROVE CallIsKept(v)'
  <2>1. CASE v = w
    BY <1>1, <1>2, <1>3, <2>1 DEF CallIsKept, Answered, InStore, InIndex, Only
  <2>2. CASE v # w
    <3>1. CallIsKept(v) /\ pc'[v] = pc[v]
      BY <1>1, <2>2
    <3>2. Only(v) => call[v].id # i
      BY <1>3, <2>2 DEF Only
    <3> QED
      BY <1>1, <1>2, <3>1, <3>2 DEF CallIsKept, Answered, InStore, InIndex, Only
  <2> QED
    BY <2>1, <2>2
<1> QED
  BY <1>4, <1>5

LEMMA CallKeepsInv ==
  ASSUME MemoryInv, NEW w \in Callers, MemoryCall(w)
  PROVE  StoreIsIndexed' /\ \A v \in Callers : CallIsKept(v)'
<1> USE DEF MemoryInv, TypesOK, MemoryTypeOK, Place, Goes, Ends
<1>1. CASE Begin(w)
  <2>1. PICK i \in Ids, c \in Contents \cup {None} :
          call' = [call EXCEPT ![w] = [id |-> i, content |-> c]]
    BY <1>1 DEF Begin
  <2>2. /\ pc[w] = "idle" /\ pc' = [pc EXCEPT ![w] = "storing"]
        /\ UNCHANGED <<entries, index, answer, writers>>
    BY <1>1 DEF Begin
  <2>3. \A i1 \in Ids : Changing(i1)' = Changing(i1)
    BY <2>1, <2>2 DEF Changing
  <2>4. StoreIsIndexed'
    BY <2>2, <2>3 DEF StoreIsIndexed
  <2>5. \A v \in Callers : CallIsKept(v)'
    BY <2>1, <2>2 DEF CallIsKept, Answered, InStore, InIndex, Only
  <2> QED
    BY <2>4, <2>5
<1>2. CASE ListEntries(w) \/ Open(w) \/ OpenFails(w) \/ Write(w) \/ WriteFails(w)
  <2>1. UNCHANGED <<entries, index, call, writers>>
    BY <1>2 DEF ListEntries, Open, OpenFails, Write, WriteFails, history
  <2>2. /\ pc[w] \in {"listing", "opening", "writing"}
        /\ pc'[w] \in {"opening", "writing", "idle"}
        /\ \A v \in Callers \ {w} : pc'[v] = pc[v] /\ answer'[v] = answer[v]
    BY <1>2 DEF ListEntries, Open, OpenFails, Write, WriteFails
  <2>3. \A i \in Ids : Changing(i)' = Changing(i)
    BY <2>1, <2>2 DEF Changing
  <2>4. StoreIsIndexed'
    BY <2>1, <2>3 DEF StoreIsIndexed
  <2>5. \A v \in Callers : CallIsKept(v)'
    BY <2>1, <2>2 DEF CallIsKept, Answered, InStore, InIndex, Only
  <2> QED
    BY <2>4, <2>5
<1> QED
  BY <1>1, <1>2, StoreKeepsInv, IndexKeepsInv DEF MemoryCall

LEMMA MemoryStep == MemoryInv /\ [Next]_vars => MemoryInv'
<1> SUFFICES ASSUME MemoryInv, [Next]_vars PROVE MemoryInv'
  OBVIOUS
<1> USE DEF MemoryInv, TypesOK, MemoryTypeOK, StoreIsIndexed, Changing, CallIsKept, Answered,
            InStore, InIndex, Only, Place
<1>0. TypesOK'
  BY TypesStep
<1>1. CASE CreateSnapshot
  BY <1>0, <1>1 DEF CreateSnapshot, history
<1>2. CASE Restore
  BY <1>0, <1>2 DEF Restore
<1>3. CASE Restart
  BY <1>0, <1>3 DEF Restart
<1>4. CASE UNCHANGED vars
  BY <1>0, <1>4 DEF vars
<1> QED
  BY <1>0, <1>1, <1>2, <1>3, <1>4, CallKeepsInv DEF Next

LEMMA MemoryAlwaysInv == Spec => []MemoryInv
BY MemoryInitial, MemoryStep, PTL DEF Spec

------------------------------------------------------------------------------
(* The file *)

(***************************************************************************)
(* While one caller alone has begun, the others are idle, and what it      *)
(* writes is what is in memory, over the file it has emptied: nothing of   *)
(* an earlier text can stay behind.                                        *)
(***************************************************************************)
FileFollows(w) ==
  /\ \A v \in Callers \ {w} : pc[v] = "idle"
  /\ pc[w] \in {"opening", "writing"} => payload[w] = index
  /\ pc[w] = "writing" => file = Torn(0)
  /\ pc[w] = "idle" /\ answer[w] = "persisted" => Loaded(file) = index

FileInv == TypesOK /\ \A w \in Callers : sole = w => FileFollows(w)

\* Whoever else begins is the sole caller, or there is none any more.
LEMMA SoleStays ==
  ASSUME FileInv, NEW w \in Callers, NEW v \in Callers, v # w, MemoryCall(v)
  PROVE  sole' # w
<1> USE DEF FileInv, FileFollows, TypesOK, MemoryTypeOK, Goes, Ends
<1>1. CASE Begin(v)
  BY <1>1, MemoryAssumption DEF Begin, MemoryAssumption
<1>2. CASE ~Begin(v)
  BY <1>2 DEF MemoryCall, StoreEntry, IndexEntry, ListEntries, Open, OpenFails, Write,
              WriteFails, history
<1> QED
  BY <1>1, <1>2

LEMMA SoleCallStep ==
  ASSUME FileInv, NEW w \in Callers, MemoryCall(w), sole' = w
  PROVE  FileFollows(w)'
<1> USE DEF FileInv, TypesOK, MemoryTypeOK, FileFollows, Goes, Ends
<1>1. CASE Begin(w)
  BY <1>1, MemoryAssumption DEF Begin, MemoryAssumption
<1>2. CASE StoreEntry(w) \/ IndexEntry(w)
  BY <1>2 DEF StoreEntry, IndexEntry, history
<1>3. CASE ListEntries(w) \/ Open(w) \/ OpenFails(w) \/ WriteFails(w)
  BY <1>3 DEF ListEntries, Open, OpenFails, WriteFails, history
<1>4. CASE Write(w)
  <2>1. payload[w] = index /\ file.size = 0 /\ TextSize[payload[w]] \in Nat
    BY <1>4, FilesAreFiles DEF Write, Torn, history
  <2>2. file' = Whole(index)
    BY <1>4, <2>1 DEF Write
  <2> QED
    BY <1>4, <2>2 DEF Write, Whole, Loaded, history
<1> QED
  BY <1>1, <1>2, <1>3, <1>4 DEF MemoryCall

LEMMA FileInitial == Init => FileInv
BY TypesInitial, MemoryAssumption DEF Init, FileInv, FileFollows, MemoryAssumption

LEMMA FileStep ==
  ASSUME FileInv, [Next]_vars
  PROVE  FileInv'
<1> SUFFICES ASSUME NEW w \in Callers, sole' = w PROVE FileFollows(w)'
  BY TypesStep DEF FileInv
<1>1. ASSUME NEW v \in Callers, MemoryCall(v) PROVE FileFollows(w)'
  BY <1>1, SoleStays, SoleCallStep
<1> USE DEF FileInv, TypesOK, MemoryTypeOK
<1>2. CASE CreateSnapshot
  BY <1>2 DEF CreateSnapshot, FileFollows, history
<1>3. CASE Restore
  BY <1>3 DEF Restore, FileFollows
<1>4. CASE Restart
  BY <1>4, MemoryAssumption DEF Restart, MemoryAssumption
<1>5. CASE UNCHANGED vars
  BY <1>5 DEF vars, FileFollows
<1> QED
  BY <1>1, <1>2, <1>3, <1>4, <1>5 DEF Next

LEMMA FileAlwaysInv == Spec => []FileInv
<1>1. FileInv /\ [Next]_vars => FileInv'
  BY FileStep
<1> QED
  BY <1>1, FileInitial, PTL DEF Spec

------------------------------------------------------------------------------
(* Theorems *)

\* Every variable has its type, whatever entries the callers share: among others
\* what is read back from the file after a crash is a memory (memory_loader.py).
THEOREM TypesHold == Spec => []MemoryTypeOK
<1>1. FileInv => MemoryTypeOK
  BY DEF FileInv, TypesOK
<1> QED
  BY <1>1, FileAlwaysInv, PTL

\* A call that has returned is remembered in store and index, whatever the
\* others store, delete and fail to write, unless they change the same entry
\* after it or together with it (backend/memory/memory_manager.py:45-63).
THEOREM AnswersStay == Spec => []AnsweredIsRemembered
<1>1. MemoryInv => AnsweredIsRemembered
  BY DEF MemoryInv, CallIsKept, Answered, Only, InStore, InIndex, AnsweredIsRemembered
<1> QED
  BY <1>1, MemoryAlwaysInv, PTL

\* Store and index agree on every entry no call is in the middle of changing,
\* whoever shares it and also after restores and restarts, but for those whose
\* last changes overlapped between store and index (memory_manager.py:46-47).
THEOREM IndexFollowsStore == Spec => []StoreIsIndexed
BY MemoryAlwaysInv, PTL DEF MemoryInv

\* After a call that no other overlapped, "memory_persisted: true" means that a
\* restart brings back what is in memory, whatever overlapping or failed writes
\* left in the file before it, for texts of any length (memory_manager.py:82-89).
THEOREM PersistedIsReadBack == Spec => []PersistedIsOnDisk
<1>1. FileInv => PersistedIsOnDisk
  BY DEF FileInv, FileFollows, PersistedIsOnDisk
<1> QED
  BY <1>1, FileAlwaysInv, PTL
==============================================================================
