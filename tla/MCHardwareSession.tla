------------------------- MODULE MCHardwareSession -------------------------
(* The pair of simulators without crashes.                                 *)
EXTENDS HardwareSession
=============================================================================
