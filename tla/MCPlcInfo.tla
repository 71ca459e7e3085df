------------------------------ MODULE MCPlcInfo ------------------------------
(***************************************************************************)
(* Small instances of PlcInfo for TLC: configurations that differ in every *)
(* part, one without PLCs, one whose stations and monitors are gone.       *)
(***************************************************************************)
EXTENDS PlcInfo, TLC

CONSTANTS p1, p2, s1, a1, a2, m1, m2, t1, d1, d2

First  == [plcs |-> {p1}, stations |-> s1 :> a1,
           monitors |-> {m1}, metas |-> t1 :> d1]
Second == [plcs |-> {p2}, stations |-> s1 :> a2,
           monitors |-> {}, metas |-> t1 :> d2]

FullDetails == {First, Second}
AllDetails  == {First, Second, NoConfig}

OldFile    == {t1 :> d1}
OldStation == {<<s1, a1>>}
=============================================================================
