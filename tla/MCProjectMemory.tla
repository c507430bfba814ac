--------------------------- MODULE MCProjectMemory ---------------------------
(***************************************************************************)
(* Entries with one content; a text has the length of its entries and of   *)
(* what closes it.  Callers and ids are interchangeable.                   *)
(***************************************************************************)
EXTENDS ProjectMemory, FiniteSets, TLC

MCTextSize == [m \in Memory |-> 1 + Cardinality({i \in Ids : m[i] # None})]
CallersAndIds == Permutations(Callers) \cup Permutations(Ids)
==============================================================================
