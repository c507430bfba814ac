------------------------------ MODULE MCPlugins ------------------------------
(***************************************************************************)
(* Three plugins, two of which have the same name.                         *)
(***************************************************************************)
EXTENDS Plugins

CONSTANTS p1, p2, p3, h1, h2

SharedName == [p \in Plugin |-> IF p = p3 THEN "other" ELSE "shared"]
==============================================================================
