---------------------------- MODULE MCReportCache ----------------------------
(***************************************************************************)
(* Small instances of ReportCache for TLC: a station, and one that is      *)
(* moved to another block and back; an empty and a filled report block.    *)
(***************************************************************************)
EXTENDS ReportCache

CONSTANTS i1, b1, b2, r1, raw0, raw1

Here  == [id |-> i1, statusDb |-> b1, reportDb |-> r1]
There == [id |-> i1, statusDb |-> b2, reportDb |-> NoDb]

OneStation   == {Here}
OneConfig    == {{Here}}
MovedStation == {Here, There}
MovedConfigs == {{Here}, {There}}

Empty  == [raw |-> raw0, task |-> 0, start |-> NoTime, end |-> 0]
Filled == [raw |-> raw1, task |-> 1, start |-> 1, end |-> 2]

Reports == {Empty, Filled}
JustFilled == {Filled}
=============================================================================
