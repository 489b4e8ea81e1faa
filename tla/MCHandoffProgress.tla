-------------------------- MODULE MCHandoffProgress --------------------------
(***************************************************************************)
(* HandoffProgress instantiated for TLC.                                   *)
(***************************************************************************)
EXTENDS HandoffProgress
=============================================================================
