---------------------------- MODULE ProjectMemory ----------------------------
(***************************************************************************)
(* The project memory: backend/memory (manager, store, index, snapshots,   *)
(* loader and serializer) and the file behind it, as its concurrent        *)
(* callers use it: DevelopmentRequestService.execute, whose entries have   *)
(* fresh ids, and POST /memory/entries, whose client names the id, each in *)
(* a thread of its own, without a lock.                                    *)
(* The file is rewritten in place: opened, which empties it, and written   *)
(* in one piece.  The history of changes is a log nobody reads.            *)
(***************************************************************************)
EXTENDS Integers

CONSTANTS
  Callers,
  Ids,        \* of entries
  Contents,   \* what an entry says
  None,
  TextSize    \* [Memory -> Nat], the length of the text that lists it

\* Entries by id; a deleted or unknown one is None.
Memory == [Ids -> Contents \cup {None}]

MemoryAssumption ==
  /\ TextSize \in [Memory -> Nat \ {0}]
  /\ None \notin Contents \cup Callers

ASSUME MemoryAssumption

VARIABLES
  entries,    \* InMemoryStore._entries
  index,      \* MemoryIndex.entries_by_id
  file,       \* what is in the file
  pc,         \* [Callers -> Place], where each call is
  call,       \* [Callers -> what is stored, or deleted]
  payload,    \* [Callers -> the entries it is about to write]
  answer,     \* [Callers -> how its last call ended]
  snapshot,   \* the entries of the last snapshot
  (* History, which no action of the code reads: *)
  writers,    \* [Ids -> who took part in the last change of an entry]
  sole        \* who has begun since all calls ended, if one caller alone has

history == <<writers, sole>>

vars == <<entries, index, file, pc, call, payload, answer, snapshot, writers, sole>>

Empty == [i \in Ids |-> None]

\* "torn" stands for any text the loader cannot read, the empty one included.
File == [kind : {"missing", "whole", "torn"}, entries : Memory, size : Nat]

Torn(n) == [kind |-> "torn", entries |-> Empty, size |-> n]

Whole(m) == [kind |-> "whole", entries |-> m, size |-> TextSize[m]]

Place == {"idle", "storing", "indexing", "listing", "opening", "writing"}

\* _load_from_disk: a file that cannot be read counts as none.
Loaded(f) == IF f.kind = "whole" THEN f.entries ELSE Empty

NoCall == [id |-> None, content |-> None]

Init ==
  /\ file     = [kind |-> "missing", entries |-> Empty, size |-> 0]
  /\ entries  = Loaded(file)
  /\ index    = Loaded(file)
  /\ pc       = [w \in Callers |-> "idle"]
  /\ call     = [w \in Callers |-> NoCall]
  /\ payload  = [w \in Callers |-> Empty]
  /\ answer   = [w \in Callers |-> "none"]
  /\ snapshot = Empty
  /\ writers  = [i \in Ids |-> {}]
  /\ sole     = None

------------------------------------------------------------------------------
(* store_entry, update_entry and delete_entry *)

Goes(w, from, to) == pc[w] = from /\ pc' = [pc EXCEPT ![w] = to]

Ends(w, how) ==
  /\ pc' = [pc EXCEPT ![w] = "idle"]
  /\ answer' = [answer EXCEPT ![w] = how]
  /\ payload' = [payload EXCEPT ![w] = Empty]

Set(memory, w) == [memory EXCEPT ![call[w].id] = call[w].content]

\* A delete is a call without a content.
Begin(w) ==
  /\ Goes(w, "idle", "storing")
  /\ \E i \in Ids, c \in Contents \cup {None} :
       call' = [call EXCEPT ![w] = [id |-> i, content |-> c]]
  /\ sole' = IF \A v \in Callers : pc[v] = "idle" THEN w ELSE None
  /\ UNCHANGED <<entries, index, file, payload, answer, snapshot, writers>>

\* Those between the two changes of an entry, the store's and the index's.
Changing(i) == {w \in Callers : pc[w] = "indexing" /\ call[w].id = i}

StoreEntry(w) ==
  /\ Goes(w, "storing", "indexing")
  /\ entries' = Set(entries, w)
  /\ LET i == call[w].id IN
     writers' = [writers EXCEPT ![i] = IF Changing(i) = {} THEN {w} ELSE writers[i] \cup {w}]
  /\ UNCHANGED <<index, file, call, payload, answer, snapshot, sole>>

FaultIndexEntry(w) ==
  /\ Goes(w, "indexing", "listing")
  /\ index' = IF call[w].content = None THEN index ELSE Set(index, w)
  /\ UNCHANGED <<entries, file, call, payload, answer, snapshot, history>>

IndexEntry(w) ==
  /\ Goes(w, "indexing", "listing")
  /\ index' = Set(index, w)
  /\ UNCHANGED <<entries, file, call, payload, answer, snapshot, history>>

\* _persist_to_disk, from here on.
FaultListEntries(w) ==
  /\ Goes(w, "listing", "opening")
  /\ payload' = [payload EXCEPT ![w] = Set(Loaded(file), w)]
  /\ UNCHANGED <<entries, index, file, call, answer, snapshot, history>>

ListEntries(w) ==
  /\ Goes(w, "listing", "opening")
  /\ payload' = [payload EXCEPT ![w] = index]
  /\ UNCHANGED <<entries, index, file, call, answer, snapshot, history>>

Open(w) ==
  /\ Goes(w, "opening", "writing")
  /\ file' = Torn(0)
  /\ UNCHANGED <<entries, index, call, payload, answer, snapshot, history>>

\* The directory or the file cannot be made: the caller gets the error, and the
\* entry stays where it is.
OpenFails(w) ==
  /\ pc[w] = "opening" /\ Ends(w, "failed")
  /\ UNCHANGED <<entries, index, file, call, snapshot, history>>

\* Over what another caller wrote since: the end of a longer text stays.
Write(w) ==
  /\ pc[w] = "writing" /\ Ends(w, "persisted")
  /\ file' = IF TextSize[payload[w]] >= file.size THEN Whole(payload[w]) ELSE Torn(file.size)
  /\ UNCHANGED <<entries, index, call, snapshot, history>>

\* Less than all of it is written, if anything is.
WriteFails(w) ==
  /\ pc[w] = "writing" /\ Ends(w, "failed")
  /\ \E n \in 0 .. TextSize[payload[w]] - 1 :
       file' = IF n = 0 THEN file ELSE Torn(IF n > file.size THEN n ELSE file.size)
  /\ UNCHANGED <<entries, index, call, snapshot, history>>

------------------------------------------------------------------------------
(* Snapshots and restarts *)

CreateSnapshot ==
  /\ snapshot' = index
  /\ UNCHANGED <<entries, index, file, pc, call, payload, answer, history>>

\* Its entries are put back one by one over what is there, and the file is
\* left alone.  Nobody restores while another call is under way.
Restore ==
  /\ \A w \in Callers : pc[w] = "idle"
  /\ snapshot # Empty
  /\ index' = [i \in Ids |-> IF snapshot[i] = None THEN index[i] ELSE snapshot[i]]
  /\ entries' = [i \in Ids |-> IF snapshot[i] = None THEN entries[i] ELSE snapshot[i]]
  /\ answer' = [w \in Callers |-> IF answer[w] = "none" THEN "none" ELSE "outdated"]
  /\ writers' = [i \in Ids |-> IF snapshot[i] = None THEN writers[i] ELSE {}]
  /\ UNCHANGED <<file, pc, call, payload, snapshot, sole>>

\* The process ends at any moment and is started again.
Restart ==
  /\ index' = Loaded(file)
  /\ entries' = Loaded(file)
  /\ pc' = [w \in Callers |-> "idle"]
  /\ call' = [w \in Callers |-> NoCall]
  /\ payload' = [w \in Callers |-> Empty]
  /\ answer' = [w \in Callers |-> "none"]
  /\ snapshot' = Empty
  /\ writers' = [i \in Ids |-> {}]
  /\ sole' = None
  /\ UNCHANGED file

MemoryCall(w) ==
  \/ Begin(w) \/ StoreEntry(w) \/ IndexEntry(w)
  \/ ListEntries(w) \/ Open(w) \/ OpenFails(w) \/ Write(w) \/ WriteFails(w)

Next ==
  \/ \E w \in Callers : MemoryCall(w)
  \/ CreateSnapshot \/ Restore \/ Restart

Spec == Init /\ [][Next]_vars

------------------------------------------------------------------------------
(* Properties *)

\* Every variable has its type.
MemoryTypeOK ==
  /\ entries \in Memory
  /\ index \in Memory
  /\ file \in File
  /\ pc \in [Callers -> Place]
  /\ payload \in [Callers -> Memory]
  /\ answer \in [Callers -> {"none", "persisted", "failed", "outdated"}]
  /\ snapshot \in Memory
  /\ writers \in [Ids -> SUBSET Callers]
  /\ sole \in Callers \cup {None}

\* A call that has returned, with or without an error, has taken effect in
\* memory, in store and index alike, and keeps it until a snapshot is restored
\* or its entry is changed again, whatever other callers store, delete and
\* write meanwhile; only those that change the very same entry while it is
\* between store and index can take it away (memory_manager.py:45-63).
AnsweredIsRemembered ==
  \A w \in Callers :
    /\ pc[w] = "idle" /\ answer[w] \in {"persisted", "failed"}
    /\ writers[call[w].id] = {w}
    => index[call[w].id] = call[w].content /\ entries[call[w].id] = call[w].content

\* "memory_persisted: true" means, of a call that no other overlapped, that a
\* restart brings back exactly what is in memory, until the next call: entries
\* whose own write had failed are there, deleted ones are not, and the file is
\* whole although overlapping, cut off or failed writes before it have left it
\* torn (memory_manager.py:82).
PersistedIsOnDisk ==
  \A w \in Callers :
    sole = w /\ pc[w] = "idle" /\ answer[w] = "persisted" => Loaded(file) = index

\* Store and index, which are changed one after the other, agree on every entry
\* that no call is in the middle of changing, unless calls that changed it
\* overlapped between store and index: then they may differ until it is changed
\* again, for the store may keep one caller's content and the index the other's
\* (memory_manager.py:46-47, without a lock).
StoreIsIndexed ==
  \A i \in Ids :
    Changing(i) = {} /\ (\A v, w \in writers[i] : v = w) => entries[i] = index[i]
==============================================================================
