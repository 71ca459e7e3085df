------------------------------ MODULE PlcConfig ------------------------------
(***************************************************************************)
(* What a plcInfo command carries and how each part of the edge's internal *)
(* state takes it over.  `detail` is a JSON array of PLCs; each has an     *)
(* address, fill stations, monitors and data block definitions.            *)
(***************************************************************************)

CONSTANTS
    Plc,        \* PlcConfig values: id, ip, port
    StationId,
    Address,    \* what a FillStation says beside its id
    Monitor,    \* Monitor values, all their fields
    MetaType,   \* java_type of a DataBlockDefinition
    Def,        \* DataBlockDefinition values
    None

ASSUME NoneIsNone == None \notin Address /\ None \notin Def

\* FillStation: two of one id are two stations when anything else differs.
Station == StationId \X Address

Metas == [MetaType -> Def \cup {None}]

Config == [plcs     : SUBSET Plc,
           stations : [StationId -> Address \cup {None}],
           monitors : SUBSET Monitor,
           metas    : Metas]

NoStations == [s \in StationId |-> None]

\* "", "[]" and everything parse_plc_list finds no PLC in.
NoConfig == [plcs     |-> {},
             stations |-> NoStations,
             monitors |-> {},
             metas    |-> [m \in MetaType |-> None]]

\* The stations of a command.
Stations(d) == {s \in Station : d.stations[s[1]] = s[2]}

\* HashMap::insert for every entry of `new`; nothing is ever removed.
InsertAll(map, new) ==
    [k \in DOMAIN map |-> IF new[k] = None THEN map[k] ELSE new[k]]

\* The report cache keeps its stations when a command has none.
StationsAfter(old, d) == IF Stations(d) = {} THEN old ELSE Stations(d)

\* The monitor processor keeps its monitors when a command has none.
MonitorsAfter(old, d) == IF d.monitors = {} THEN old ELSE d.monitors

MetasAfter(old, d) == InsertAll(old, d.metas)

\* Deploy callbacks find a station's PLC in this map.
FillsAfter(old, d) == InsertAll(old, d.stations)
=============================================================================
