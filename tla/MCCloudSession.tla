---------------------------- MODULE MCCloudSession ----------------------------
(***************************************************************************)
(* Small instances of CloudSession for TLC: every run has the heartbeat,   *)
(* the registrar, the watcher and at most two senders.                     *)
(***************************************************************************)
EXTENDS CloudSession
=============================================================================
