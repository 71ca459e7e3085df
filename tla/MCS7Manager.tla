----------------------------- MODULE MCS7Manager -----------------------------
(***************************************************************************)
(* Small instances of S7Manager for TLC.                                   *)
(***************************************************************************)
EXTENDS S7Manager, TLC

\* Connections are interchangeable identities: no action names one.  Used
\* only by the runs without temporal properties.
ConnSymmetry == Permutations(Conn)
=============================================================================
