----------------------------- MODULE MCIpcWriter -----------------------------
(* Two FIFOs smaller than two batches, and two connections after another.    *)
EXTENDS IpcWriter
=============================================================================
