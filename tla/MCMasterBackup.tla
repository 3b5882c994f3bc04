----------------------------- MODULE MCMasterBackup -----------------------------
(* Two other machines, a write on every second callback.                        *)
EXTENDS MasterBackup

MCPeer == {"a", "b"}
================================================================================
