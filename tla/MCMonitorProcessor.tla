-------------------------- MODULE MCMonitorProcessor --------------------------
(***************************************************************************)
(* Small instances of MonitorProcessor for TLC: a monitor, the same id     *)
(* reconfigured to another block, or posting, or decoding too.             *)
(***************************************************************************)
EXTENDS MonitorProcessor, TLC

CONSTANTS i1, b1, b2

Plain   == [id |-> i1, block |-> b1, local |-> FALSE, decodes |-> FALSE]
Moved   == [Plain EXCEPT !.block = b2]
Posts   == [Plain EXCEPT !.local = TRUE]
Decodes == [Posts EXCEPT !.decodes = TRUE]

SomeMonitors == {Plain, Moved, Posts}

\* A monitor is moved from block to block, or one posts.
SomeConfigs  == {{{Plain}, {Moved}}, {{Posts}}}

DecodingMonitors == {Decodes}
DecodingConfigs  == {{{Decodes}}}
=============================================================================
