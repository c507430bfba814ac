------------------------------ MODULE MCTables ------------------------------
(***************************************************************************)
(* Every pair of arguments; values of two levels of maps and lists, and    *)
(* all of it again under a key or in a list; at most one agent that is not *)
(* built in.                                                               *)
(***************************************************************************)
EXTENDS Tables

MCSent == Arguments(2)

MCForeign == {{}} \cup {{n} : n \in Names}

MapsOf(values, size) ==
  {Map([k \in Key |-> IF k \in DOMAIN f THEN f[k] ELSE Absent]) :
     f \in UNION {[s -> values] : s \in {s \in SUBSET Key : Cardinality(s) <= size}}}

ListsOf(values, size) == {List(s) : s \in UNION {[1..n -> values] : n \in 0..size}}

Flat == Leaf \cup MapsOf(Leaf, 2) \cup ListsOf(Leaf, 2)

MCGiven == Flat \cup MapsOf(Flat, 1) \cup ListsOf(Flat, 1)
==============================================================================
