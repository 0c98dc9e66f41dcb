-------------------------- MODULE MCRuntimeStatus --------------------------
(* Instances of RuntimeStatus: one player with its own files, two players   *)
(* with the paths README.md:116-119 recommends, and two players with the   *)
(* path both configurations default to (configs/src/ipc/mod.rs:64-66).      *)
EXTENDS RuntimeStatus

OwnPath == [p \in Players |-> p]
DefaultPath == [p \in Players |-> "/tmp/qkd_ready"]
=============================================================================
