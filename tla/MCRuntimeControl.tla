-------------------------- MODULE MCRuntimeControl --------------------------
(* One simulator process; one client sends the three commands of a          *)
(* recalibration in any order, another a Pause, a Synchronize and an attack *)
(* command.                                                                *)
EXTENDS RuntimeControl

MCRequests ==
  ({"operator"} \X Players \X {"pause", "synchronize", "resume"})
    \cup ({"other"} \X Players \X {"pause", "synchronize", "attack"})
=============================================================================
