---------------------------- MODULE MCLifecycle ----------------------------
(***************************************************************************)
(* A small instance of Lifecycle for TLC.  The cloud of a site sends       *)
(* stations and monitors, or definitions, or intervals: none of these      *)
(* depends on another.                                                     *)
(***************************************************************************)
EXTENDS Lifecycle, TLC

CONSTANTS p1, s1, a1, a2, m1, t1, t2, d1

NoMetas == [m \in MetaType |-> None]

\* Two configurations that each bring a definition of their own.
Definitions ==
    {[plcs |-> {p1}, stations |-> NoStations, monitors |-> {}, metas |-> [NoMetas EXCEPT ![m] = d1]] :
        m \in MetaType}

\* A station that is replaced by another, monitors that come, go and come back.
StationsAndMonitors ==
    {[plcs |-> {p1}, stations |-> [s \in StationId |-> a1], monitors |-> {m1}, metas |-> NoMetas],
     [plcs |-> {p1}, stations |-> [s \in StationId |-> a2], monitors |-> {}, metas |-> NoMetas]}

Good(ms) == [id |-> "good", conf |-> "good", ms |-> [l \in Loops |-> ms]]

NoServerConf == [Good(1) EXCEPT !.conf = "missing"]

Site(files, details, intervals) ==
    [files |-> files, details |-> details, intervals |-> intervals]

MonitoredSite == Site({Good(1), NoServerConf}, StationsAndMonitors, {})

MonitoredSites == {MonitoredSite}

AllSites ==
    {MonitoredSite,
     Site({Good(1), NoServerConf}, Definitions, {}),
     Site({Good(0), Good(1)}, {}, [Loops -> Milliseconds])}

\* The station that the second configuration removes.
OldStation == {<<s1, a1>>}
=============================================================================
