------------------------- MODULE MCControllerSession -------------------------
(* Either player and any user, runs of two batches that may be killed        *)
(* anywhere.                                                                 *)
EXTENDS ControllerSession
=============================================================================
