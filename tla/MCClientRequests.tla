--------------------------- MODULE MCClientRequests ---------------------------
(***************************************************************************)
(* ClientRequests for TLC: no definition is changed.                       *)
(***************************************************************************)
EXTENDS ClientRequests
===============================================================================
