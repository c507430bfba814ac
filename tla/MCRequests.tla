----------------------------- MODULE MCRequests ------------------------------
(***************************************************************************)
(* One request during the lifespans of one application: two requests do    *)
(* not touch what the other has.                                           *)
(***************************************************************************)
EXTENDS Requests

CONSTANT r1
==============================================================================
