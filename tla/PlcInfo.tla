------------------------------- MODULE PlcInfo -------------------------------
(***************************************************************************)
(* The plcInfo command (src/src/grpc/cloud.rs, handle_command): the cloud  *)
(* sends the whole configuration again and again; the edge takes a changed *)
(* one over into five structures, one after the other, and always answers  *)
(* for every PLC.                                                          *)
(*                                                                         *)
(* The heartbeat task handles the command its answer brings, the task that *)
(* reads the register stream those of the stream: the same handler runs in *)
(* two tasks with nothing but single locks around single updates.  Two     *)
(* more write to the same structures: the report loop puts a station back  *)
(* that was removed while it was read (report/cache.rs), and the thread    *)
(* that loads the definitions replaces their map (deploy.rs).              *)
(***************************************************************************)
EXTENDS PlcConfig

CONSTANTS
    Details,    \* the configurations the cloud may send
    Heartbeat,  \* the task whose answers bring the command again and again
    Stream,     \* tasks that read a register stream
    WithReport, \* the stations that have a report block (report_db > 0)
    Stored      \* what a file of definitions that parses may hold

ASSUME DetailsAreConfigs == Details \subseteq Config

ASSUME HandlersDisjoint == Heartbeat \cap Stream = {}

ASSUME ReportStations == WithReport \subseteq Station

ASSUME StoredAreMetas == Stored \subseteq Metas /\ None \notin Metas

Handler == Heartbeat \cup Stream

VARIABLES
    cloud,      \* the configuration the server would send now
    last,       \* CloudSession.last_plc_detail
    plcs,       \* S7Manager.plc_list
    stations,   \* keys of ReportCache.caches
    monitors,   \* MonitorProcessor.monitors
    metas,      \* PLCSerializeMetaFactory.cache
    fills,      \* MonitorProcessor.fill_stations
    pc,         \* where each handler is
    cmd,        \* the command's detail
    todo,       \* PLCs not tested yet
    reading,    \* stations the report loop's pass has yet to read
    load,       \* what the loader has parsed and not yet stored, or None
    episode,    \* configurations recorded since no handler was updating
    putBack,    \* stations put back since stations were last updated
    replaced    \* what the loader stored since the episode began, or None

parts  == <<plcs, stations, monitors, metas, fills>>
locals == <<pc, cmd, todo>>
others == <<reading, load>>
aux    == <<episode, putBack, replaced>>
vars   == <<cloud, last, parts, locals, others, aux>>

Updates == {"plcs", "stations", "monitors", "metas", "fills"}

Label == {"idle", "compare", "record", "test", "final"} \cup Updates

Goto(h, label) == pc' = [pc EXCEPT ![h] = label]

\* The command is forgotten when its handler returns.
Return(h) ==
    /\ Goto(h, "idle")
    /\ cmd' = [cmd EXCEPT ![h] = NoConfig]

\* No handler is between its record and its last update.
Settled == \A h \in Handler : pc[h] \notin Updates

Init ==
    /\ cloud \in Details
    /\ last = NoConfig
    /\ plcs = {} /\ monitors = {} /\ stations = {}
    /\ metas = NoConfig.metas
    /\ fills = NoStations
    /\ pc = [h \in Handler |-> "idle"]
    /\ cmd = [h \in Handler |-> NoConfig]
    /\ todo = [h \in Handler |-> {}]
    /\ reading = {}
    /\ load \in Stored \cup {None}
    /\ episode = {NoConfig} /\ putBack = {} /\ replaced = None

\* The operator changes the configuration at the cloud.
Reconfigure ==
    /\ cloud' \in Details \ {cloud}
    /\ UNCHANGED <<last, parts, locals, others, aux>>

\* The answer to a heartbeat, or the next command of the stream, arrives;
\* the server wrote it some time before the handler looks at it.
Receive(h) ==
    /\ pc[h] = "idle"
    /\ cmd' = [cmd EXCEPT ![h] = cloud]
    /\ Goto(h, "compare")
    /\ UNCHANGED <<cloud, last, parts, todo, others, aux>>

\* Mutant: an unchanged configuration is skipped (the defect that section 5
\* of fix-issues-log.md describes).
CompareSkipsUnchanged(h) ==
    /\ pc[h] = "compare"
    /\ \/ /\ cmd[h] = last \/ cmd[h].plcs = {}
          /\ Return(h)
          /\ UNCHANGED todo
       \/ /\ cmd[h] # last /\ cmd[h].plcs # {}
          /\ todo' = [todo EXCEPT ![h] = cmd[h].plcs]
          /\ Goto(h, "record")
          /\ UNCHANGED cmd
    /\ UNCHANGED <<cloud, last, parts, others, aux>>

\* Mutant: last_plc_detail is written where it is compared, before the
\* command turns out to have no PLCs.
CompareRecordsFirst(h) ==
    /\ pc[h] = "compare"
    /\ last' = cmd[h]
    /\ \/ /\ cmd[h].plcs = {}
          /\ Return(h)
          /\ UNCHANGED todo
       \/ /\ cmd[h].plcs # {}
          /\ todo' = [todo EXCEPT ![h] = cmd[h].plcs]
          /\ Goto(h, IF cmd[h] # last THEN "record" ELSE "test")
          /\ UNCHANGED cmd
    /\ UNCHANGED <<cloud, parts, others, aux>>

\* Mutant: the PLCs that were recorded are tested, not those of the command.
CompareTestsLast(h) ==
    /\ pc[h] = "compare"
    /\ \/ /\ cmd[h].plcs = {}
          /\ Return(h)
          /\ UNCHANGED todo
       \/ /\ cmd[h].plcs # {}
          /\ todo' = [todo EXCEPT ![h] = last.plcs]
          /\ Goto(h, IF cmd[h] # last THEN "record" ELSE "test")
          /\ UNCHANGED cmd
    /\ UNCHANGED <<cloud, last, parts, others, aux>>

\* config_changed and parse_plc_list; without PLCs nothing is recorded.
Compare(h) ==
    /\ pc[h] = "compare"
    /\ \/ /\ cmd[h].plcs = {}
          /\ Return(h)
          /\ UNCHANGED todo
       \/ /\ cmd[h].plcs # {}
          /\ todo' = [todo EXCEPT ![h] = cmd[h].plcs]
          /\ Goto(h, IF cmd[h] # last THEN "record" ELSE "test")
          /\ UNCHANGED cmd
    /\ UNCHANGED <<cloud, last, parts, others, aux>>

Record(h) ==
    /\ pc[h] = "record"
    /\ last' = cmd[h]
    /\ Goto(h, "plcs")
    /\ episode' = IF Settled THEN {cmd[h]} ELSE episode \cup {cmd[h]}
    /\ replaced' = IF Settled THEN None ELSE replaced
    /\ UNCHANGED <<cloud, parts, cmd, todo, others, putBack>>

\* S7Manager::update_plc_list, see module S7Manager.
UpdatePlcs(h) ==
    /\ pc[h] = "plcs"
    /\ plcs' = cmd[h].plcs
    /\ Goto(h, "stations")
    /\ UNCHANGED <<cloud, last, stations, monitors, metas, fills, cmd, todo, others, aux>>

\* Mutant: stations are only ever added.
UpdateStationsAdds(h) ==
    /\ pc[h] = "stations"
    /\ stations' = stations \cup Stations(cmd[h])
    /\ putBack' = IF Stations(cmd[h]) = {} THEN putBack ELSE {}
    /\ Goto(h, "monitors")
    /\ UNCHANGED <<cloud, last, plcs, monitors, metas, fills, cmd, todo, others, episode, replaced>>

\* ReportCache::update_fill_stations, unless there are none.
UpdateStations(h) ==
    /\ pc[h] = "stations"
    /\ stations' = StationsAfter(stations, cmd[h])
    /\ putBack' = IF Stations(cmd[h]) = {} THEN putBack ELSE {}
    /\ Goto(h, "monitors")
    /\ UNCHANGED <<cloud, last, plcs, monitors, metas, fills, cmd, todo, others, episode, replaced>>

\* MonitorProcessor::update_monitors, unless there are none.
UpdateMonitors(h) ==
    /\ pc[h] = "monitors"
    /\ monitors' = MonitorsAfter(monitors, cmd[h])
    /\ Goto(h, "metas")
    /\ UNCHANGED <<cloud, last, plcs, stations, metas, fills, cmd, todo, others, aux>>

\* Mutant: a definition that is known already is kept.
SaveMetaKeepsOld(h) ==
    /\ pc[h] = "metas"
    /\ metas' = InsertAll(cmd[h].metas, metas)
    /\ Goto(h, "fills")
    /\ UNCHANGED <<cloud, last, plcs, stations, monitors, fills, cmd, todo, others, aux>>

\* PLCSerializeMetaFactory::save_meta.
SaveMeta(h) ==
    /\ pc[h] = "metas"
    /\ metas' = MetasAfter(metas, cmd[h])
    /\ Goto(h, "fills")
    /\ UNCHANGED <<cloud, last, plcs, stations, monitors, fills, cmd, todo, others, aux>>

\* MonitorProcessor::update_fill_stations.
UpdateFills(h) ==
    /\ pc[h] = "fills"
    /\ fills' = FillsAfter(fills, cmd[h])
    /\ Goto(h, "test")
    /\ UNCHANGED <<cloud, last, plcs, stations, monitors, metas, cmd, todo, others, aux>>

\* One PLC is dialled, with a 3 s limit, and answered for; either outcome
\* goes on with the next one.
TestPlc(h) ==
    /\ pc[h] = "test"
    /\ \/ \E p \in todo[h] :
             /\ todo' = [todo EXCEPT ![h] = @ \ {p}]
             /\ UNCHANGED pc
       \/ /\ todo[h] = {}
          /\ Goto(h, "final")
          /\ UNCHANGED todo
    /\ UNCHANGED <<cloud, last, parts, cmd, others, aux>>

\* send_plc_response("plcInfo", "plcInfo", "ok").
Final(h) ==
    /\ pc[h] = "final"
    /\ Return(h)
    /\ UNCHANGED <<cloud, last, parts, todo, others, aux>>

-----------------------------------------------------------------------------
(* The other two writers                                                    *)

\* read_and_send_reports_direct copies the keys and drops the lock.
ReportPass ==
    /\ reading = {}
    /\ reading' = stations \cap WithReport
    /\ UNCHANGED <<cloud, last, parts, locals, load, aux>>

\* read_report: once the PLC has answered, the station's entry is taken, or
\* made when there is none.
ReadReport(s) ==
    /\ reading' = reading \ {s}
    /\ stations' = stations \cup {s}
    /\ putBack' = putBack \cup ({s} \ stations)
    /\ UNCHANGED <<cloud, last, plcs, monitors, metas, fills, locals, load, episode, replaced>>

ReadReportFails(s) ==
    /\ reading' = reading \ {s}
    /\ UNCHANGED <<cloud, last, parts, locals, load, aux>>

\* load_from_disk: `*c = loaded`, whatever a command has put there.
LoaderStores ==
    /\ load # None
    /\ metas' = load /\ replaced' = load
    /\ load' = None
    /\ UNCHANGED <<cloud, last, plcs, stations, monitors, fills, locals, reading, episode, putBack>>

-----------------------------------------------------------------------------

Update(h) ==
    UpdatePlcs(h) \/ UpdateStations(h) \/ UpdateMonitors(h) \/ SaveMeta(h) \/ UpdateFills(h)

\* The handler goes on with its command.
Step(h) == Compare(h) \/ Record(h) \/ Update(h) \/ TestPlc(h) \/ Final(h)

Next ==
    \/ Reconfigure
    \/ \E h \in Handler : Receive(h) \/ Step(h)
    \/ ReportPass
    \/ \E s \in reading : ReadReport(s) \/ ReadReportFails(s)
    \/ LoaderStores

Spec == Init /\ [][Next]_vars

\* Handlers run on; heartbeats go out at an interval and the server answers
\* with plcInfo.  Nothing is assumed of the stream, of reconfigurations, of
\* the report loop and of the loader.
FairSpec ==
    /\ Spec
    /\ \A h \in Handler : WF_vars(Step(h))
    /\ \A h \in Heartbeat : WF_vars(Receive(h))

-----------------------------------------------------------------------------
(* Properties                                                               *)

\* Types of the variables; a handler tests PLCs of its own command only, and
\* has none left to test, and no command, when it takes the next one.
TypeOK ==
    /\ cloud \in Details
    /\ last \in Config
    /\ plcs \in SUBSET Plc
    /\ stations \in SUBSET Station
    /\ monitors \in SUBSET Monitor
    /\ metas \in Metas
    /\ fills \in [StationId -> Address \cup {None}]
    /\ pc \in [Handler -> Label]
    /\ cmd \in [Handler -> Config]
    /\ todo \in [Handler -> SUBSET Plc]
    /\ reading \in SUBSET WithReport
    /\ {load, replaced} \subseteq Stored \cup {None}
    /\ episode \in SUBSET Config
    /\ putBack \in SUBSET WithReport
    /\ \A h \in Handler :
          /\ todo[h] \subseteq cmd[h].plcs
          /\ pc[h] \in {"idle", "compare", "final"} => todo[h] = {}
          /\ pc[h] = "idle" => cmd[h] = NoConfig

\* The parts of the edge's configuration against a set of configurations: as
\* far as any of these says something of a part, the part says what one of
\* them says.
OneOf(value, said) == said = {} \/ value \in said

Offered(ds) == {Stations(d) : d \in ds} \ {{}}

PlcsOf(ds)     == plcs \in {d.plcs : d \in ds}
StationsOf(ds) == OneOf(stations, {s \cup putBack : s \in Offered(ds)})
MonitorsOf(ds) == OneOf(monitors, {d.monitors : d \in ds} \ {{}})
MetaOf(m, ds)  == \/ OneOf(metas[m], {d.metas[m] : d \in ds} \ {None})
                  \/ replaced # None /\ metas[m] = replaced[m]
FillOf(s, ds)  == OneOf(fills[s], {d.stations[s] : d \in ds} \ {None})

\* What is recorded as applied is applied, as far as the handlers allow: when
\* none of them is updating, the recorded configuration and every part are
\* of the last episode, that is, of the configurations whose updates
\* overlapped.  A command that overlapped with no other is in force alone.
\* Stations put back by a report pass come in addition, and definitions may
\* be those that the loader stored in the episode or after it.
RecordedIsApplied ==
    Settled => /\ last \in episode
               /\ PlcsOf(episode) /\ StationsOf(episode) /\ MonitorsOf(episode)
               /\ \A m \in MetaType : MetaOf(m, episode)
               /\ \A s \in StationId : FillOf(s, episode)

\* Every structure shows configuration d, as far as it takes d over; further
\* stations may be there.
InForce(d) ==
    /\ plcs = d.plcs
    /\ Stations(d) \subseteq stations
    /\ monitors = MonitorsAfter(monitors, d)
    /\ metas = MetasAfter(metas, d)
    /\ fills = FillsAfter(fills, d)

\* Whatever handlers, report passes and the loader have made of the parts
\* before: once no command is being handled and the loader has ended, the
\* next configuration of the cloud that is not the recorded one comes into
\* force, unless the cloud sends yet another one.
Heals ==
    \A d \in {c \in Details : c.plcs # {}} :
        (/\ \A h \in Handler : pc[h] = "idle"
         /\ load = None
         /\ cloud = d /\ last # d)
        ~> (cloud # d \/ InForce(d))

\* A configuration that stays at the cloud is in force at the edge from some
\* time on, whatever was sent before it.
Converges == \A d \in Details : <>[](cloud = d) /\ d.plcs # {} => <>[]InForce(d)

\* The command that a heartbeat brings is answered to the end even when nothing
\* changed: the server takes a PLC for offline 60 s after the last answer.
AlwaysAnswers ==
    \A h \in Heartbeat : (pc[h] = "compare" /\ cmd[h].plcs # {}) ~> pc[h] = "final"

\* Any number of handlers, with the report loop and the loader beside them,
\* keep the promise of ConfigStore.
Store == INSTANCE ConfigStore WITH wanted <- episode, busy <- ~Settled

StoreSpec == Store!Spec
=============================================================================
