----------------------------- MODULE ConfigStore -----------------------------
(***************************************************************************)
(* What the edge promises of its configuration, whoever takes it over, how *)
(* many at a time and in which order.  While nobody does, no part changes  *)
(* but for two exceptions.  Somebody begins with a configuration; until    *)
(* everybody has ended, each part may take over any of the configurations  *)
(* wanted; and they end only when each part says what one of these says.   *)
(* The exceptions: a station comes back, the definitions are replaced.     *)
(***************************************************************************)
EXTENDS PlcConfig

CONSTANTS
    Details,            \* the configurations the cloud may send
    WithReport,         \* the stations that may come back
    Stored              \* the definitions that may be put in the place of all

VARIABLES
    busy,               \* somebody is taking a configuration over
    wanted,             \* the configurations of those who are, or were last
    plcs, stations, monitors, metas, fills,    \* the parts
    putBack,            \* stations that came back
    replaced            \* the definitions that were put there, or None

parts == <<plcs, stations, monitors, metas, fills>>

storeVars == <<busy, wanted, parts, putBack, replaced>>

Init ==
    /\ ~busy
    /\ wanted = {NoConfig}
    /\ plcs = {} /\ monitors = {} /\ stations = {}
    /\ metas = NoConfig.metas
    /\ fills = NoStations
    /\ putBack = {} /\ replaced = None

\* Another configuration is wanted, beside others or alone.
Want ==
    /\ \E d \in Details : wanted' = IF busy THEN wanted \cup {d} ELSE {d}
    /\ busy'
    /\ replaced' = IF busy THEN replaced ELSE None
    /\ UNCHANGED <<parts, putBack>>

\* Each part that some wanted configuration says something of says what one
\* of them says.
Settled ==
    /\ \E d \in wanted : plcs = d.plcs
    /\ \/ \A d \in wanted : Stations(d) = {}
       \/ \E d \in wanted : Stations(d) # {} /\ stations = Stations(d) \cup putBack
    /\ \/ \A d \in wanted : d.monitors = {}
       \/ \E d \in wanted : d.monitors # {} /\ monitors = d.monitors
    /\ \A m \in MetaType :
          \/ \A d \in wanted : d.metas[m] = None
          \/ \E d \in wanted : d.metas[m] # None /\ metas[m] = d.metas[m]
          \/ replaced # None /\ metas[m] = replaced[m]
    /\ \A s \in StationId :
          \/ \A d \in wanted : d.stations[s] = None
          \/ \E d \in wanted : d.stations[s] # None /\ fills[s] = d.stations[s]

ShowPlcs(d) ==
    /\ plcs' = d.plcs
    /\ UNCHANGED <<stations, monitors, metas, fills, putBack>>

ShowStations(d) ==
    /\ stations' = StationsAfter(stations, d)
    /\ putBack' = IF Stations(d) = {} THEN putBack ELSE {}
    /\ UNCHANGED <<plcs, monitors, metas, fills>>

ShowMonitors(d) ==
    /\ monitors' = MonitorsAfter(monitors, d)
    /\ UNCHANGED <<plcs, stations, metas, fills, putBack>>

ShowMetas(d) ==
    /\ metas' = MetasAfter(metas, d)
    /\ UNCHANGED <<plcs, stations, monitors, fills, putBack>>

ShowFills(d) ==
    /\ fills' = FillsAfter(fills, d)
    /\ UNCHANGED <<plcs, stations, monitors, metas, putBack>>

\* A part takes a wanted configuration over; this may be the end of it.
Show ==
    /\ busy
    /\ \E d \in wanted : \/ ShowPlcs(d) \/ ShowStations(d) \/ ShowMonitors(d)
                         \/ ShowMetas(d) \/ ShowFills(d)
    /\ ~busy' => Settled'
    /\ UNCHANGED <<wanted, replaced>>

ComeBack ==
    /\ \E s \in WithReport : /\ stations' = stations \cup {s}
                             /\ putBack' = putBack \cup ({s} \ stations)
    /\ UNCHANGED <<busy, wanted, plcs, monitors, metas, fills, replaced>>

Replace ==
    /\ metas' \in Stored
    /\ replaced' = metas'
    /\ UNCHANGED <<busy, wanted, plcs, stations, monitors, fills, putBack>>

Spec == Init /\ [][Want \/ Show \/ ComeBack \/ Replace]_storeVars
=============================================================================
