---------------------------- MODULE MCUnrealMCP ----------------------------
(***************************************************************************)
(* A call that connects or looks at the connection, two commands, and one  *)
(* that disconnects, all at the same time; the bridge agrees, declines or  *)
(* breaks the connection.                                                  *)
(***************************************************************************)
EXTENDS UnrealMCP

CONSTANTS c1, c2, c3, c4

MCKinds == [c \in Calls |->
  CASE c = c1 -> {"start", "health"}
    [] c = c4 -> {"stop"}
    [] c = c3 -> {"write", "read"}
    [] OTHER -> {"write"}]

Good ==
  [raised |-> "none", status |-> "2xx", body |-> "fits",
   connected |-> TRUE, success |-> TRUE, error |-> "NONE"]

MCReplies == {Good, [Good EXCEPT !.connected = FALSE, !.success = FALSE],
              [Good EXCEPT !.raised = "network"]}
==============================================================================
