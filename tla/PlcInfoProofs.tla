---------------------------- MODULE PlcInfoProofs ----------------------------
(***************************************************************************)
(* Theorems about PlcInfo, for every set of configurations and any number  *)
(* of handlers, with the report loop and the loader beside them: the types *)
(* are right, what is recorded is applied as far as the handlers allow,    *)
(* and together they implement ConfigStore.                                *)
(***************************************************************************)
EXTENDS PlcInfo, TLAPS

\* Merging a map over another of the same type gives a map of that type.
LEMMA InsertAllType ==
    ASSUME NEW K, NEW V, NEW f \in [K -> V], NEW g \in [K -> V]
    PROVE  InsertAll(f, g) \in [K -> V]
BY DEF InsertAll

\* The empty configuration is a configuration that says nothing.
LEMMA NoConfigType ==
    /\ NoConfig \in Config
    /\ NoConfig.plcs = {} /\ NoConfig.monitors = {}
    /\ \A m \in MetaType : NoConfig.metas[m] = None
    /\ \A s \in StationId : NoConfig.stations[s] = None
    /\ Stations(NoConfig) = {}
<1>1. NoConfig \in Config  BY DEF NoConfig, Config, NoStations, Metas
<1>2. \A s \in StationId : NoConfig.stations[s] = None
  BY DEF NoConfig, NoStations
<1>3. Stations(NoConfig) = {}
  BY <1>2, NoneIsNone DEF Stations, Station
<1>. QED  BY <1>1, <1>2, <1>3 DEF NoConfig

\* Taking a configuration over keeps the type of every part.
LEMMA AfterTypes ==
    ASSUME NEW d \in Config, NEW s \in SUBSET Station, NEW m \in SUBSET Monitor,
           NEW t \in Metas, NEW f \in [StationId -> Address \cup {None}]
    PROVE  /\ StationsAfter(s, d) \in SUBSET Station
           /\ MonitorsAfter(m, d) \in SUBSET Monitor
           /\ MetasAfter(t, d) \in Metas
           /\ FillsAfter(f, d) \in [StationId -> Address \cup {None}]
<1>1. d.stations \in [StationId -> Address \cup {None}]  BY DEF Config
<1>2. d.metas \in [MetaType -> Def \cup {None}]  BY DEF Config, Metas
<1>3. d.monitors \in SUBSET Monitor  BY DEF Config
<1>4. InsertAll(t, d.metas) \in Metas
  BY <1>2, InsertAllType DEF Metas
<1>5. InsertAll(f, d.stations) \in [StationId -> Address \cup {None}]
  BY <1>1, InsertAllType
<1>6. StationsAfter(s, d) \in SUBSET Station
  BY DEF StationsAfter, Stations
<1>. QED
  BY <1>3, <1>4, <1>5, <1>6 DEF MonitorsAfter, MetasAfter, FillsAfter

-----------------------------------------------------------------------------

LEMMA InitTypes == Init => TypeOK
<1>1. NoConfig.metas \in Metas /\ NoStations \in [StationId -> Address \cup {None}]
  BY DEF NoConfig, NoStations, Metas
<1>. QED
  BY <1>1, NoConfigType DEF Init, TypeOK, Label

\* Every step keeps the types.
LEMMA StepTypes ==
    ASSUME TypeOK, [Next]_vars
    PROVE  TypeOK'
<1>. USE DEF TypeOK, Label, Updates, Goto, Return, others, aux
<1>1. CASE Reconfigure
  BY <1>1 DEF Reconfigure, parts, locals
<1>2. ASSUME NEW h \in Handler, Receive(h) PROVE TypeOK'
  <2>1. cloud \in Config  BY DetailsAreConfigs
  <2>2. cmd' \in [Handler -> Config]  BY <1>2, <2>1 DEF Receive
  <2>3. pc' \in [Handler -> Label] /\ todo[h] = {}  BY <1>2 DEF Receive
  <2>4. \A g \in Handler :
          /\ todo'[g] \subseteq cmd'[g].plcs
          /\ pc'[g] \in {"idle", "compare", "final"} => todo'[g] = {}
          /\ pc'[g] = "idle" => cmd'[g] = NoConfig
    BY <1>2, <2>3 DEF Receive
  <2>. QED  BY <1>2, <2>2, <2>3, <2>4 DEF Receive, parts
<1>3. ASSUME NEW h \in Handler, Compare(h) PROVE TypeOK'
  <2>1. cmd[h].plcs \in SUBSET Plc  BY DEF Config
  <2>. QED  BY <1>3, <2>1, NoConfigType DEF Compare, parts
<1>4. ASSUME NEW h \in Handler, Record(h) PROVE TypeOK'
  BY <1>4 DEF Record, parts
<1>5. ASSUME NEW h \in Handler, Update(h) PROVE TypeOK'
  <2>. DEFINE d == cmd[h]
  <2>1. d \in Config /\ d.plcs \in SUBSET Plc  BY DEF Config
  <2>2. /\ StationsAfter(stations, d) \in SUBSET Station
        /\ MonitorsAfter(monitors, d) \in SUBSET Monitor
        /\ MetasAfter(metas, d) \in Metas
        /\ FillsAfter(fills, d) \in [StationId -> Address \cup {None}]
    BY <2>1, AfterTypes
  <2>. HIDE DEF d
  <2>3. CASE UpdatePlcs(h)  BY <2>1, <2>3 DEF UpdatePlcs, d
  <2>4. CASE UpdateStations(h)  BY <2>2, <2>4 DEF UpdateStations, d
  <2>5. CASE UpdateMonitors(h)  BY <2>2, <2>5 DEF UpdateMonitors, d
  <2>6. CASE SaveMeta(h)  BY <2>2, <2>6 DEF SaveMeta, d
  <2>7. CASE UpdateFills(h)  BY <2>2, <2>7 DEF UpdateFills, d
  <2>. QED  BY <1>5, <2>3, <2>4, <2>5, <2>6, <2>7 DEF Update
<1>6. ASSUME NEW h \in Handler, TestPlc(h) PROVE TypeOK'
  BY <1>6 DEF TestPlc, parts
<1>7. ASSUME NEW h \in Handler, Final(h) PROVE TypeOK'
  BY <1>7, NoConfigType DEF Final, parts
<1>8. CASE ReportPass
  BY <1>8 DEF ReportPass, parts, locals
<1>9. ASSUME NEW s \in reading, ReadReport(s) \/ ReadReportFails(s) PROVE TypeOK'
  BY <1>9, ReportStations DEF ReadReport, ReadReportFails, parts, locals
<1>10. CASE LoaderStores
  BY <1>10, StoredAreMetas DEF LoaderStores, locals
<1>11. CASE UNCHANGED vars
  BY <1>11 DEF vars, parts, locals
<1>. QED
  BY <1>1, <1>2, <1>3, <1>4, <1>5, <1>6, <1>7, <1>8, <1>9, <1>10, <1>11 DEF Next, Step

\* The variables keep their types, with any number of handlers.
THEOREM PlcInfoTypes == Spec => []TypeOK
BY InitTypes, StepTypes, PTL DEF Spec

-----------------------------------------------------------------------------
(* What the parts say.                                                      *)

\* A part says what a configuration of the episode says, or none says
\* anything of it, or a handler has yet to come to it with one that does.
PlcsInv == \/ \E d \in episode : plcs = d.plcs
           \/ \E h \in Handler : pc[h] = "plcs"

StationsInv ==
    \/ \A d \in episode : Stations(d) = {}
    \/ \E d \in episode : Stations(d) # {} /\ stations = Stations(d) \cup putBack
    \/ \E h \in Handler : pc[h] \in {"plcs", "stations"} /\ Stations(cmd[h]) # {}

MonitorsInv ==
    \/ \A d \in episode : d.monitors = {}
    \/ \E d \in episode : d.monitors # {} /\ monitors = d.monitors
    \/ \E h \in Handler : pc[h] \in {"plcs", "stations", "monitors"} /\ cmd[h].monitors # {}

MetaInv(m) ==
    \/ \A d \in episode : d.metas[m] = None
    \/ \E d \in episode : d.metas[m] # None /\ metas[m] = d.metas[m]
    \/ replaced # None /\ metas[m] = replaced[m]
    \/ \E h \in Handler : /\ pc[h] \in {"plcs", "stations", "monitors", "metas"}
                          /\ cmd[h].metas[m] # None

FillInv(s) ==
    \/ \A d \in episode : d.stations[s] = None
    \/ \E d \in episode : d.stations[s] # None /\ fills[s] = d.stations[s]
    \/ \E h \in Handler : pc[h] \in Updates /\ cmd[h].stations[s] # None

\* RecordedIsApplied with what makes it inductive.
PartsInv ==
    /\ last \in episode
    /\ \A h \in Handler : pc[h] \in Updates => cmd[h] \in episode
    /\ PlcsInv /\ StationsInv /\ MonitorsInv
    /\ \A m \in MetaType : MetaInv(m)
    /\ \A s \in StationId : FillInv(s)

\* The empty edge says what the empty configuration says.
LEMMA InitParts == Init => PartsInv
BY NoConfigType
   DEF Init, PartsInv, PlcsInv, StationsInv, MonitorsInv, MetaInv, FillInv, Updates

\* A step aside of the updates disturbs nothing.
LEMMA AsideKeeps ==
    ASSUME PartsInv, UNCHANGED <<last, parts, aux>>,
           \A h \in Handler : /\ pc'[h] \in Updates => pc[h] \in Updates
                              /\ pc[h] \in Updates => pc'[h] = pc[h] /\ cmd'[h] = cmd[h]
    PROVE  PartsInv'
<1>. USE DEF parts, aux, Updates
<1>1. last' \in episode' /\ \A h \in Handler : pc'[h] \in Updates => cmd'[h] \in episode'
  BY DEF PartsInv
<1>2. PlcsInv'  BY DEF PartsInv, PlcsInv
<1>3. StationsInv'  BY DEF PartsInv, StationsInv
<1>4. MonitorsInv'  BY DEF PartsInv, MonitorsInv
<1>5. ASSUME NEW m \in MetaType PROVE MetaInv(m)'  BY DEF PartsInv, MetaInv
<1>6. ASSUME NEW s \in StationId PROVE FillInv(s)'  BY DEF PartsInv, FillInv
<1>. QED  BY <1>1, <1>2, <1>3, <1>4, <1>5, <1>6 DEF PartsInv

\* A handler that records begins an episode or joins one.  It is ahead of
\* every part, and a part that it says nothing of needs not follow it.
LEMMA RecordKeeps ==
    ASSUME TypeOK, PartsInv, NEW h \in Handler, Record(h)
    PROVE  PartsInv'
<1>1. /\ pc' = [pc EXCEPT ![h] = "plcs"] /\ cmd' = cmd /\ last' = cmd[h]
      /\ UNCHANGED <<plcs, stations, monitors, metas, fills, putBack>>
  BY DEF Record, Goto, parts
<1>2. \A g \in Handler : pc'[g] = IF g = h THEN "plcs" ELSE pc[g]
  BY <1>1 DEF TypeOK
<1>3. \/ Settled /\ episode' = {cmd[h]} /\ replaced' = None
      \/ ~Settled /\ episode' = episode \cup {cmd[h]} /\ replaced' = replaced
  BY DEF Record
<1>4. last' \in episode' /\ \A g \in Handler : pc'[g] \in Updates => cmd'[g] \in episode'
  BY <1>1, <1>2, <1>3 DEF PartsInv, Settled
<1>5. PlcsInv'
  BY <1>2 DEF PlcsInv
<1>6. StationsInv'
  <2>1. CASE Stations(cmd[h]) # {}
    BY <2>1, <1>1, <1>2 DEF StationsInv
  <2>2. CASE Stations(cmd[h]) = {} /\ Settled
    BY <2>2, <1>3 DEF StationsInv
  <2>3. CASE Stations(cmd[h]) = {} /\ ~Settled
    BY <2>3, <1>1, <1>2, <1>3 DEF StationsInv, PartsInv
  <2>. QED  BY <2>1, <2>2, <2>3
<1>7. MonitorsInv'
  <2>1. CASE cmd[h].monitors # {}
    BY <2>1, <1>1, <1>2 DEF MonitorsInv
  <2>2. CASE cmd[h].monitors = {} /\ Settled
    BY <2>2, <1>3 DEF MonitorsInv
  <2>3. CASE cmd[h].monitors = {} /\ ~Settled
    BY <2>3, <1>1, <1>2, <1>3 DEF MonitorsInv, PartsInv
  <2>. QED  BY <2>1, <2>2, <2>3
<1>8. ASSUME NEW m \in MetaType PROVE MetaInv(m)'
  <2>1. CASE cmd[h].metas[m] # None
    BY <2>1, <1>1, <1>2 DEF MetaInv
  <2>2. CASE cmd[h].metas[m] = None /\ Settled
    BY <2>2, <1>3 DEF MetaInv
  <2>3. CASE cmd[h].metas[m] = None /\ ~Settled
    BY <2>3, <1>1, <1>2, <1>3 DEF MetaInv, PartsInv
  <2>. QED  BY <2>1, <2>2, <2>3
<1>9. ASSUME NEW s \in StationId PROVE FillInv(s)'
  <2>. USE DEF Updates
  <2>1. CASE cmd[h].stations[s] # None
    BY <2>1, <1>1, <1>2 DEF FillInv
  <2>2. CASE cmd[h].stations[s] = None /\ Settled
    BY <2>2, <1>3 DEF FillInv
  <2>3. CASE cmd[h].stations[s] = None /\ ~Settled
    BY <2>3, <1>1, <1>2, <1>3 DEF FillInv, PartsInv
  <2>. QED  BY <2>1, <2>2, <2>3
<1>. QED  BY <1>4, <1>5, <1>6, <1>7, <1>8, <1>9 DEF PartsInv

\* An update gives its part what its command says; other parts stay as they
\* are, and the handler is ahead of the same parts as before but for this.
LEMMA UpdateKeeps ==
    ASSUME TypeOK, PartsInv, NEW h \in Handler, Update(h)
    PROVE  PartsInv'
<1>. DEFINE d == cmd[h]
<1>1. /\ pc[h] \in Updates /\ d \in episode
      /\ cmd' = cmd /\ last' = last /\ episode' = episode /\ replaced' = replaced
      /\ \A g \in Handler : g # h => pc'[g] = pc[g]
  BY DEF Update, UpdatePlcs, UpdateStations, UpdateMonitors, SaveMeta, UpdateFills, Goto,
         TypeOK, PartsInv, Updates, aux
<1>. HIDE DEF d
<1>2. \A g \in Handler : pc'[g] \in Updates => cmd'[g] \in episode'
  BY <1>1 DEF PartsInv, d
<1>3. PlcsInv'
  <2>1. CASE UpdatePlcs(h)
    BY <1>1, <2>1 DEF UpdatePlcs, PlcsInv, d
  <2>2. CASE ~UpdatePlcs(h)
    <3>1. pc[h] # "plcs" /\ plcs' = plcs
      BY <2>2 DEF Update, UpdatePlcs, UpdateStations, UpdateMonitors, SaveMeta, UpdateFills
    <3>. QED  BY <1>1, <3>1 DEF PlcsInv, PartsInv
  <2>. QED  BY <2>1, <2>2
<1>4. StationsInv'
  <2>1. CASE UpdateStations(h)
    <3>1. /\ stations' = StationsAfter(stations, d)
          /\ putBack' = IF Stations(d) = {} THEN putBack ELSE {}
      BY <2>1 DEF UpdateStations, d
    <3>2. CASE Stations(d) = {}
      BY <1>1, <3>1, <3>2 DEF StationsInv, PartsInv, StationsAfter, d
    <3>3. CASE Stations(d) # {}
      BY <1>1, <3>1, <3>3 DEF StationsInv, StationsAfter
    <3>. QED  BY <3>2, <3>3
  <2>2. CASE ~UpdateStations(h)
    <3>1. /\ pc[h] # "stations" /\ UNCHANGED <<stations, putBack>>
          /\ pc[h] = "plcs" => pc'[h] = "stations"
      BY <2>2 DEF Update, UpdatePlcs, UpdateStations, UpdateMonitors, SaveMeta, UpdateFills,
                  aux, Goto, TypeOK
    <3>. QED  BY <1>1, <3>1 DEF StationsInv, PartsInv
  <2>. QED  BY <2>1, <2>2
<1>5. MonitorsInv'
  <2>1. CASE UpdateMonitors(h)
    <3>1. monitors' = MonitorsAfter(monitors, d)
      BY <2>1 DEF UpdateMonitors, d
    <3>2. CASE d.monitors = {}
      BY <1>1, <3>1, <3>2 DEF MonitorsInv, PartsInv, MonitorsAfter, d
    <3>3. CASE d.monitors # {}
      BY <1>1, <3>1, <3>3 DEF MonitorsInv, MonitorsAfter
    <3>. QED  BY <3>2, <3>3
  <2>2. CASE ~UpdateMonitors(h)
    <3>1. /\ pc[h] # "monitors" /\ monitors' = monitors
          /\ pc[h] = "plcs" => pc'[h] = "stations"
          /\ pc[h] = "stations" => pc'[h] = "monitors"
      BY <2>2 DEF Update, UpdatePlcs, UpdateStations, UpdateMonitors, SaveMeta, UpdateFills,
                  Goto, TypeOK
    <3>. QED  BY <1>1, <3>1 DEF MonitorsInv, PartsInv
  <2>. QED  BY <2>1, <2>2
<1>6. ASSUME NEW m \in MetaType PROVE MetaInv(m)'
  <2>1. CASE SaveMeta(h)
    <3>1. metas'[m] = IF d.metas[m] = None THEN metas[m] ELSE d.metas[m]
      <4>1. metas' = InsertAll(metas, d.metas)  BY <2>1 DEF SaveMeta, MetasAfter, d
      <4>2. metas \in [MetaType -> Def \cup {None}]  BY DEF TypeOK, Metas
      <4>. QED  BY <4>1, <4>2 DEF InsertAll
    <3>2. CASE d.metas[m] = None
      BY <1>1, <3>1, <3>2 DEF MetaInv, PartsInv, d
    <3>3. CASE d.metas[m] # None
      BY <1>1, <3>1, <3>3 DEF MetaInv
    <3>. QED  BY <3>2, <3>3
  <2>2. CASE ~SaveMeta(h)
    <3>1. /\ pc[h] # "metas" /\ metas' = metas
          /\ pc[h] = "plcs" => pc'[h] = "stations"
          /\ pc[h] = "stations" => pc'[h] = "monitors"
          /\ pc[h] = "monitors" => pc'[h] = "metas"
      BY <2>2 DEF Update, UpdatePlcs, UpdateStations, UpdateMonitors, SaveMeta, UpdateFills,
                  Goto, TypeOK
    <3>. QED  BY <1>1, <3>1 DEF MetaInv, PartsInv
  <2>. QED  BY <2>1, <2>2
<1>7. ASSUME NEW s \in StationId PROVE FillInv(s)'
  <2>1. CASE UpdateFills(h)
    <3>1. fills'[s] = IF d.stations[s] = None THEN fills[s] ELSE d.stations[s]
      <4>1. fills' = InsertAll(fills, d.stations)  BY <2>1 DEF UpdateFills, FillsAfter, d
      <4>2. fills \in [StationId -> Address \cup {None}]  BY DEF TypeOK
      <4>. QED  BY <4>1, <4>2 DEF InsertAll
    <3>2. CASE d.stations[s] = None
      BY <1>1, <3>1, <3>2 DEF FillInv, PartsInv, d
    <3>3. CASE d.stations[s] # None
      BY <1>1, <3>1, <3>3 DEF FillInv
    <3>. QED  BY <3>2, <3>3
  <2>2. CASE ~UpdateFills(h)
    <3>1. fills' = fills /\ pc'[h] \in Updates
      BY <2>2 DEF Update, UpdatePlcs, UpdateStations, UpdateMonitors, SaveMeta, UpdateFills,
                  Goto, TypeOK, Updates
    <3>. QED  BY <1>1, <3>1 DEF FillInv, PartsInv
  <2>. QED  BY <2>1, <2>2
<1>. QED  BY <1>1, <1>2, <1>3, <1>4, <1>5, <1>6, <1>7 DEF PartsInv

\* A station that comes back is one of those put back.
LEMMA ReadReportKeeps ==
    ASSUME PartsInv, NEW s \in reading, ReadReport(s)
    PROVE  PartsInv'
<1>1. /\ stations' = stations \cup {s} /\ putBack' = putBack \cup ({s} \ stations)
      /\ UNCHANGED <<last, plcs, monitors, metas, fills, pc, cmd, episode, replaced>>
  BY DEF ReadReport, locals
<1>2. StationsInv'
  <2>1. ASSUME NEW d \in episode, stations = Stations(d) \cup putBack
        PROVE  stations' = Stations(d) \cup putBack'
    BY <1>1, <2>1
  <2>. QED  BY <1>1, <2>1 DEF StationsInv, PartsInv
<1>3. PlcsInv' /\ MonitorsInv'
  BY <1>1 DEF PartsInv, PlcsInv, MonitorsInv
<1>4. ASSUME NEW m \in MetaType PROVE MetaInv(m)'  BY <1>1 DEF PartsInv, MetaInv
<1>5. ASSUME NEW i \in StationId PROVE FillInv(i)'  BY <1>1 DEF PartsInv, FillInv
<1>. QED  BY <1>1, <1>2, <1>3, <1>4, <1>5 DEF PartsInv

\* The loader's definitions are the exception.
LEMMA LoaderKeeps ==
    ASSUME PartsInv, LoaderStores
    PROVE  PartsInv'
<1>1. /\ metas' = load /\ replaced' = load /\ load # None
      /\ UNCHANGED <<last, plcs, stations, monitors, fills, pc, cmd, episode, putBack>>
  BY DEF LoaderStores, locals
<1>2. PlcsInv' /\ StationsInv' /\ MonitorsInv'
  BY <1>1 DEF PartsInv, PlcsInv, StationsInv, MonitorsInv
<1>3. ASSUME NEW m \in MetaType PROVE MetaInv(m)'  BY <1>1 DEF MetaInv
<1>4. ASSUME NEW s \in StationId PROVE FillInv(s)'  BY <1>1 DEF PartsInv, FillInv
<1>. QED  BY <1>1, <1>2, <1>3, <1>4 DEF PartsInv

\* PartsInv is kept by every step.
LEMMA StepParts ==
    ASSUME TypeOK, PartsInv, [Next]_vars
    PROVE  PartsInv'
<1>1. ASSUME NEW h \in Handler, Receive(h) \/ Compare(h) \/ TestPlc(h) \/ Final(h)
      PROVE  PartsInv'
  BY <1>1, AsideKeeps
     DEF Receive, Compare, TestPlc, Final, Goto, Return, TypeOK, Updates
<1>2. CASE Reconfigure \/ ReportPass \/ (\E s \in reading : ReadReportFails(s)) \/ UNCHANGED vars
  <2>1. UNCHANGED <<last, parts, aux, pc, cmd>>
    BY <1>2 DEF Reconfigure, ReportPass, ReadReportFails, vars, locals
  <2>. QED  BY <2>1, AsideKeeps
<1>. QED
  BY <1>1, <1>2, RecordKeeps, UpdateKeeps, ReadReportKeeps, LoaderKeeps DEF Next, Step

\* When no handler is updating, nobody is ahead of a part.
LEMMA SettledParts ==
    ASSUME PartsInv, Settled
    PROVE  RecordedIsApplied
<1>. USE DEF PartsInv, Settled, Updates
<1>1. PlcsOf(episode)  BY DEF PlcsInv, PlcsOf
<1>2. StationsOf(episode)
  <2>1. CASE \A d \in episode : Stations(d) = {}
    BY <2>1 DEF StationsOf, OneOf, Offered
  <2>2. ASSUME NEW d \in episode, Stations(d) # {}, stations = Stations(d) \cup putBack
        PROVE  StationsOf(episode)
    BY <2>2 DEF StationsOf, OneOf, Offered
  <2>. QED  BY <2>1, <2>2 DEF StationsInv
<1>3. MonitorsOf(episode)  BY DEF MonitorsInv, MonitorsOf, OneOf
<1>4. ASSUME NEW m \in MetaType PROVE MetaOf(m, episode)  BY DEF MetaInv, MetaOf, OneOf
<1>5. ASSUME NEW s \in StationId PROVE FillOf(s, episode)  BY DEF FillInv, FillOf, OneOf
<1>. QED  BY <1>1, <1>2, <1>3, <1>4, <1>5 DEF RecordedIsApplied

THEOREM PartsInvHolds == Spec => []PartsInv
BY InitTypes, StepTypes, InitParts, StepParts, PTL DEF Spec

\* What is recorded as applied is applied, as far as the handlers allow: with
\* any number of them, when none is updating, the record and every part are
\* of the configurations whose updates overlapped last (cloud.rs 401-448).
THEOREM RecordedApplied == Spec => []RecordedIsApplied
<1>1. PartsInv => RecordedIsApplied
  BY SettledParts DEF RecordedIsApplied
<1>. QED  BY <1>1, PartsInvHolds, PTL

-----------------------------------------------------------------------------
(* The refinement of ConfigStore.                                           *)

\* The store's rules of taking a configuration over are those of the code.
LEMMA SameRules ==
    /\ Store!NoConfig = NoConfig /\ Store!NoStations = NoStations
    /\ \A d : Store!Stations(d) = Stations(d)
    /\ \A old, d :
          /\ Store!StationsAfter(old, d) = StationsAfter(old, d)
          /\ Store!MonitorsAfter(old, d) = MonitorsAfter(old, d)
          /\ Store!MetasAfter(old, d) = MetasAfter(old, d)
          /\ Store!FillsAfter(old, d) = FillsAfter(old, d)
BY DEF NoConfig, NoStations, Stations, Station, StationsAfter, MonitorsAfter, MetasAfter,
       FillsAfter, InsertAll, Store!NoConfig, Store!NoStations, Store!Stations,
       Store!Station, Store!StationsAfter, Store!MonitorsAfter, Store!MetasAfter,
       Store!FillsAfter, Store!InsertAll

\* A command being handled is a configuration of the cloud.
CommandsSent == \A h \in Handler : pc[h] # "idle" => cmd[h] \in Details

\* Every step keeps the commands being handled configurations of the cloud.
LEMMA StepSent ==
    ASSUME TypeOK, CommandsSent, [Next]_vars
    PROVE  CommandsSent'
<1>. USE DEF Goto, Return, CommandsSent, TypeOK
<1>1. CASE UNCHANGED locals  BY <1>1 DEF locals
<1>2. ASSUME NEW h \in Handler, Receive(h) PROVE CommandsSent'
  BY <1>2 DEF Receive
<1>3. ASSUME NEW h \in Handler, Compare(h) \/ Final(h) PROVE CommandsSent'
  BY <1>3 DEF Compare, Final
<1>4. ASSUME NEW h \in Handler, Record(h) \/ Update(h) \/ TestPlc(h) PROVE CommandsSent'
  BY <1>4 DEF Record, Update, UpdatePlcs, UpdateStations, UpdateMonitors, SaveMeta,
              UpdateFills, TestPlc
<1>5. Reconfigure \/ ReportPass \/ LoaderStores \/ UNCHANGED vars => UNCHANGED locals
  BY DEF Reconfigure, ReportPass, LoaderStores, vars
<1>6. ASSUME NEW s \in reading, ReadReport(s) \/ ReadReportFails(s) PROVE UNCHANGED locals
  BY <1>6 DEF ReadReport, ReadReportFails
<1>. QED  BY <1>1, <1>2, <1>3, <1>4, <1>5, <1>6 DEF Next, Step

\* Recording a command is wanting another configuration.
LEMMA RecordMaps ==
    ASSUME TypeOK, NEW h \in Handler, Record(h), cmd[h] \in Details
    PROVE  Store!Want
<1>1. ~Settled'
  <2>1. pc'[h] = "plcs"  BY DEF Record, Goto, TypeOK
  <2>. QED  BY <2>1 DEF Settled, Updates
<1>2. /\ episode' = IF ~Settled THEN episode \cup {cmd[h]} ELSE {cmd[h]}
      /\ replaced' = IF ~Settled THEN replaced ELSE None
      /\ UNCHANGED <<parts, putBack>>
  BY DEF Record
<1>. QED  BY <1>1, <1>2 DEF Store!Want, parts, Store!parts

\* The store may end where PartsInv holds and no handler is updating.
LEMMA SettledMaps ==
    ASSUME PartsInv, Settled
    PROVE  Store!Settled
<1>. USE SameRules DEF PartsInv, Settled, Updates
<1>1. \E d \in episode : plcs = d.plcs  BY DEF PlcsInv
<1>2. \/ \A d \in episode : Stations(d) = {}
      \/ \E d \in episode : Stations(d) # {} /\ stations = Stations(d) \cup putBack
  BY DEF StationsInv
<1>3. \/ \A d \in episode : d.monitors = {}
      \/ \E d \in episode : d.monitors # {} /\ monitors = d.monitors
  BY DEF MonitorsInv
<1>4. \A m \in MetaType :
          \/ \A d \in episode : d.metas[m] = None
          \/ \E d \in episode : d.metas[m] # None /\ metas[m] = d.metas[m]
          \/ replaced # None /\ metas[m] = replaced[m]
  BY DEF MetaInv
<1>5. \A s \in StationId :
          \/ \A d \in episode : d.stations[s] = None
          \/ \E d \in episode : d.stations[s] # None /\ fills[s] = d.stations[s]
  BY DEF FillInv
<1>. QED  BY <1>1, <1>2, <1>3, <1>4, <1>5 DEF Store!Settled

\* An update shows a wanted configuration in its part, and may be the last.
LEMMA UpdateMaps ==
    ASSUME TypeOK, PartsInv, PartsInv', NEW h \in Handler, Update(h)
    PROVE  Store!Show
<1>1. /\ ~Settled /\ cmd[h] \in episode
      /\ episode' = episode /\ replaced' = replaced
  BY DEF Settled, PartsInv, Updates, Update, UpdatePlcs, UpdateStations, UpdateMonitors,
         SaveMeta, UpdateFills, aux
<1>2. Settled' => Store!Settled'
  BY SettledMaps, PTL
<1>3. \/ Store!ShowPlcs(cmd[h]) \/ Store!ShowStations(cmd[h]) \/ Store!ShowMonitors(cmd[h])
      \/ Store!ShowMetas(cmd[h]) \/ Store!ShowFills(cmd[h])
  BY SameRules
     DEF Update, UpdatePlcs, UpdateStations, UpdateMonitors, SaveMeta, UpdateFills, aux,
         Store!ShowPlcs, Store!ShowStations, Store!ShowMonitors, Store!ShowMetas,
         Store!ShowFills
<1>. QED  BY <1>1, <1>2, <1>3 DEF Store!Show

\* With any number of handlers, the report loop and the loader, every step is
\* one of the store or leaves it alone.
THEOREM ImplementsStore == Spec => StoreSpec
<1>1. Init => CommandsSent  BY DEF Init, CommandsSent
<1>2. TypeOK /\ CommandsSent /\ [Next]_vars => CommandsSent'  BY StepSent
<1>3. Init => Store!Init
  BY SameRules DEF Init, Settled, Updates, Store!Init
<1>4. ASSUME TypeOK, PartsInv, PartsInv', CommandsSent, [Next]_vars
      PROVE  [Store!Want \/ Store!Show \/ Store!ComeBack \/ Store!Replace]_(Store!storeVars)
  <2>. USE DEF Store!storeVars, Store!parts
  <2>1. ASSUME NEW h \in Handler, Record(h)  PROVE Store!Want
    <3>1. cmd[h] \in Details  BY <2>1, <1>4 DEF Record, CommandsSent
    <3>. QED  BY <2>1, <3>1, <1>4, RecordMaps
  <2>2. ASSUME NEW h \in Handler, Update(h)  PROVE Store!Show
    BY <2>2, <1>4, UpdateMaps
  <2>3. ASSUME UNCHANGED <<parts, aux>>,
               \A h \in Handler : pc'[h] \in Updates <=> pc[h] \in Updates
        PROVE  UNCHANGED Store!storeVars
    BY <2>3 DEF parts, aux, Settled
  <2>4. ASSUME NEW h \in Handler, Receive(h) \/ Compare(h) \/ TestPlc(h) \/ Final(h)
        PROVE  UNCHANGED Store!storeVars
    BY <2>4, <2>3, <1>4
       DEF Receive, Compare, TestPlc, Final, Goto, Return, TypeOK, Updates
  <2>5. CASE Reconfigure \/ ReportPass \/ (\E s \in reading : ReadReportFails(s)) \/ UNCHANGED vars
    <3>1. UNCHANGED <<parts, aux, pc>>
      BY <2>5 DEF Reconfigure, ReportPass, ReadReportFails, vars, locals
    <3>. QED  BY <3>1, <2>3
  <2>6. ASSUME NEW s \in reading, ReadReport(s)  PROVE Store!ComeBack
    BY <2>6, <1>4 DEF ReadReport, locals, Settled, Store!ComeBack, TypeOK
  <2>7. CASE LoaderStores
    <3>1. Store!Replace
      BY <2>7, <1>4 DEF LoaderStores, locals, Settled, Store!Replace, TypeOK
    <3>. QED  BY <3>1
  <2>. QED  BY <1>4, <2>1, <2>2, <2>4, <2>5, <2>6, <2>7 DEF Next, Step
<1>. QED
  BY <1>1, <1>2, <1>3, <1>4, PlcInfoTypes, PartsInvHolds, PTL
     DEF Spec, StoreSpec, Store!Spec
=============================================================================
