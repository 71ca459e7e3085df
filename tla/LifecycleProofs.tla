--------------------------- MODULE LifecycleProofs ---------------------------
(***************************************************************************)
(* Theorems about Lifecycle, for all sites, handlers, loops and intervals: *)
(* types, what keeps the definitions over a restart, and what can end a    *)
(* loop.                                                                   *)
(***************************************************************************)
EXTENDS Lifecycle, TLAPS

\* Merging a map over another of the same type gives a map of that type.
LEMMA InsertAllType ==
    ASSUME NEW K, NEW V, NEW f \in [K -> V], NEW g \in [K -> V]
    PROVE  InsertAll(f, g) \in [K -> V]
BY DEF InsertAll

\* The empty configuration is a configuration.
LEMMA NoConfigType == NoConfig \in Config
BY DEF NoConfig, Config, NoStations, Metas

\* Taking a configuration over keeps the type of every part.
LEMMA AfterTypes ==
    ASSUME NEW d \in Config,
           NEW s \in SUBSET Station,
           NEW m \in SUBSET Monitor,
           NEW t \in Metas
    PROVE  /\ StationsAfter(s, d) \in SUBSET Station
           /\ MonitorsAfter(m, d) \in SUBSET Monitor
           /\ MetasAfter(t, d) \in Metas
BY InsertAllType DEF Config, Metas, Stations, StationsAfter, MonitorsAfter, MetasAfter

LEMMA StoreIs == Store = {"metas", "stations", "monitors"}
BY DEF Store, Empty

\* An empty store is one of its values.
LEMMA EmptyType == \A f \in Store : Empty[f] \in Content[f]
BY StoreIs DEF Empty, Content, NoConfig, Metas

\* The stores after a configuration has been taken over.
LEMMA MemAfterType ==
    ASSUME NEW old, DOMAIN old = Store, \A f \in Store : old[f] \in Content[f],
           NEW d \in Config
    PROVE  /\ DOMAIN MemAfter(old, d) = Store
           /\ \A f \in Store : MemAfter(old, d)[f] \in Content[f]
<1>1. /\ old.metas \in Metas
      /\ old.stations \in SUBSET Station
      /\ old.monitors \in SUBSET Monitor
  BY StoreIs DEF Content
<1>2. /\ MetasAfter(old.metas, d) \in Metas
      /\ StationsAfter(old.stations, d) \in SUBSET Station
      /\ MonitorsAfter(old.monitors, d) \in SUBSET Monitor
  BY <1>1, AfterTypes
<1>. QED
  BY <1>2, StoreIs DEF MemAfter, Content

\* What a site may bring.
LEMMA SiteTypes ==
    ASSUME NEW st \in Sites
    PROVE  /\ \A l \in st.files : l.ms \in [Loops -> Interval]
           /\ st.details \subseteq Details
           /\ st.intervals \subseteq [Loops -> Milliseconds]
BY SitesAssumption DEF Details, Milliseconds

LEMMA DetailTypes == Details \subseteq Config
BY SitesAssumption DEF Details

LEMMA NoJobType == NoJob \in Job
BY DEF NoJob, Job

-----------------------------------------------------------------------------

LEMMA InitTypes == Init => TypeOK
<1>. SUFFICES ASSUME Init PROVE TypeOK
  OBVIOUS
<1>1. Empty.metas \in Content.metas  BY EmptyType, StoreIs
<1>2. DOMAIN Empty = Store  BY DEF Store
<1>3. ticker \in [Loops -> Ticker] /\ interval \in [Loops -> Milliseconds]
      /\ conf \in [Loops -> Milliseconds]
  BY DEF Init, NoTicker, Ticker, NoMilliseconds, Milliseconds
<1>4. \A f \in Store : /\ {mem[f], snap[f], disk[f].content} \subseteq Content[f]
                       /\ disk[f] = Absent(f)
                       /\ ~Writing(f)
  BY EmptyType DEF Init, Absent, Writing
<1>5. job \in [Handler -> Job] /\ \A h \in Handler : job[h] = NoJob
  BY NoJobType DEF Init
<1>. QED
  BY <1>1, <1>2, <1>3, <1>4, <1>5 DEF Init, TypeOK, Ended

\* Every step keeps the types.
LEMMA StepTypes ==
    ASSUME TypeOK, [Next]_vars
    PROVE  TypeOK'
<1>. USE DEF TypeOK, Ended, Up, memory, commands, clocks, aux
<1>1. ASSUME Forget, phase' \in Ended, UNCHANGED <<disk, site, wanted, conf, aux>>
      PROVE  TypeOK'
  <2>1. /\ ticker' \in [Loops -> Ticker]
        /\ interval' \in [Loops -> Milliseconds]
    BY <1>1 DEF Forget, NoTicker, Ticker, NoMilliseconds, Milliseconds
  <2>2. /\ DOMAIN mem' = Store /\ DOMAIN snap' = Store
        /\ \A f \in Store : {mem'[f], snap'[f]} \subseteq Content[f]
    BY <1>1, EmptyType DEF Forget, Store
  <2>3. parsed' \in Content.metas  BY <1>1, EmptyType, StoreIs DEF Forget
  <2>4. \A f \in Store : ~Writing(f)'  BY <1>1 DEF Forget, Writing
  <2>5. /\ job' \in [Handler -> Job] /\ \A h \in Handler : job'[h] = NoJob
        /\ last' = NoConfig
    BY <1>1, NoJobType DEF Forget
  <2>. QED
    BY <1>1, <2>1, <2>2, <2>3, <2>4, <2>5 DEF Forget, Torn, Whole, Absent
<1>2. ASSUME NEW l \in site.files, Start(l)  PROVE TypeOK'
  <2>1. l.ms \in [Loops -> Milliseconds]
    BY SiteTypes DEF Milliseconds
  <2>. QED  BY <1>2, <2>1 DEF Start, Writing, Torn, Whole, Absent
<1>3. CASE SpawnTasks
  BY <1>3 DEF SpawnTasks, NoTicker, Ticker, Milliseconds, Writing, Torn, Whole, Absent
<1>4. CASE LoadNoMonitors
  BY <1>4 DEF LoadNoMonitors, Writing, Torn, Whole, Absent
<1>5. CASE Loader
  <2>1. CASE LoaderStores
    BY <1>5, <2>1, EmptyType, StoreIs
       DEF LoaderStores, Writing, Torn, Whole, Absent
  <2>2. CASE LoaderFindsNothing
    <3>1. intact' \in BOOLEAN  BY <2>2 DEF LoaderFindsNothing
    <3>2. phase \notin Ended  BY <2>2 DEF LoaderFindsNothing
    <3>. QED  BY <2>2, <3>1, <3>2 DEF LoaderFindsNothing, Writing, Torn, Whole, Absent
  <2>3. CASE LoaderCannotRead \/ LoaderParses
    BY <1>5, <2>3, StoreIs
       DEF LoaderCannotRead, LoaderParses, Writing, Torn, Whole, Absent
  <2>. QED  BY <1>5, <2>1, <2>2, <2>3 DEF Loader
<1>6. ASSUME NEW f \in Store, PersistBegins(f)  PROVE TypeOK'
  BY <1>6, EmptyType DEF PersistBegins, HasThread, Writing, Torn, Whole, Absent
<1>7. ASSUME NEW f \in Store, PersistEnds(f)  PROVE TypeOK'
  <2>1. saved' \in SUBSET MetaType /\ intact' \in BOOLEAN
    BY <1>7 DEF PersistEnds, Saves, Names
  <2>. QED  BY <1>7, <2>1, EmptyType DEF PersistEnds, Writing, Torn, Whole, Absent
<1>8. ASSUME NEW f \in Store, PersistFails(f)  PROVE TypeOK'
  BY <1>8, EmptyType DEF PersistFails, Writing, Torn, Whole, Absent
<1>9. ASSUME NEW d \in site.details, Want(d)  PROVE TypeOK'
  BY <1>9, SiteTypes DEF Want, Writing, Torn, Whole, Absent
<1>10. ASSUME NEW h \in Handler, Receive(h) \/ Handle(h)  PROVE TypeOK'
  <2>1. job[h] \in Job /\ job[h].detail \in Details \cup {NoConfig}
    BY DEF Job
  <2>2. CASE Receive(h)
    <3>1. [at |-> "compare", detail |-> wanted] \in Job  BY DEF Job
    <3>2. phase \notin Ended  BY <2>2 DEF Receive, Serving
    <3>. QED  BY <2>2, <3>1, <3>2 DEF Receive, Writing, Torn, Whole, Absent
  <2>3. CASE Compare(h)
    <3>1. /\ [job[h] EXCEPT !.at = "record"] \in Job /\ NoJob \in Job
      BY <2>1, NoConfigType DEF Job, NoJob
    <3>2. job[h] # NoJob  BY <2>3 DEF Compare, NoJob
    <3>. QED  BY <2>3, <3>1, <3>2 DEF Compare, Writing, Torn, Whole, Absent
  <2>4. CASE Record(h)
    <3>1. [job[h] EXCEPT !.at = "stations"] \in Job  BY <2>1, StoreIs DEF Job
    <3>2. job[h] # NoJob  BY <2>4 DEF Record, NoJob
    <3>. QED  BY <2>1, <2>4, <3>1, <3>2 DEF Record, Writing, Torn, Whole, Absent
  <2>5. ASSUME NEW f \in Store, UpdateStore(h, f)  PROVE TypeOK'
    <3>1. job[h].detail \in Config  BY <2>1, NoConfigType, DetailTypes
    <3>2. MemAfter(mem, job[h].detail)[f] \in Content[f]  BY <3>1, MemAfterType
    <3>3. After(f, job[h]) \in Job
      BY <2>1, StoreIs DEF After, Job, NoJob
    <3>4. job[h] # NoJob  BY <2>5, StoreIs DEF UpdateStore, NoJob
    <3>5. phase \notin Ended  BY <3>4
    <3>6. /\ DOMAIN mem' = Store /\ \A g \in Store : mem'[g] \in Content[g]
      BY <2>5, <3>2 DEF UpdateStore
    <3>. QED  BY <2>5, <3>3, <3>5, <3>6 DEF UpdateStore, Writing, Torn, Whole, Absent
  <2>. QED  BY <1>10, <2>2, <2>3, <2>4, <2>5 DEF Handle
<1>16. CASE ReportPass
  BY <1>16 DEF ReportPass, Serving, Writing, Torn, Whole, Absent
<1>17. ASSUME NEW s \in reading, ReadReport(s)  PROVE TypeOK'
  <2>1. s \in Station  BY ReportAssumption
  <2>2. /\ DOMAIN mem' = Store /\ \A f \in Store : mem'[f] \in Content[f]
        /\ phase \notin Ended
    BY <1>17, <2>1, StoreIs DEF ReadReport, Content
  <2>. QED  BY <1>17, <2>2 DEF ReadReport, Writing, Torn, Whole, Absent
<1>11. ASSUME NEW ms \in site.intervals, ConfigCommand(ms)  PROVE TypeOK'
  BY <1>11, SiteTypes DEF ConfigCommand, Writing, Torn, Whole, Absent
<1>12. ASSUME NEW l \in Loops, Loop(l)  PROVE TypeOK'
  <2>1. ticker' \in [Loops -> Ticker]
    <3>1. interval[l] \in Milliseconds /\ ticker[l].ms \in Milliseconds
      BY DEF Ticker
    <3>. QED
      BY <1>12, <3>1 DEF Loop, LoadInterval, CreateTicker, Tick, NewTicker, Ticker
  <2>2. UNCHANGED <<phase, mem, commands, loader, parsed, snap, interval, disk, site, wanted, conf, aux>>
    BY <1>12 DEF Loop, LoadInterval, CreateTicker, Tick
  <2>. QED  BY <2>1, <2>2 DEF Writing, Torn, Whole, Absent
<1>13. ASSUME NEW l \in site.files, StartFails(l)  PROVE TypeOK'
  BY <1>13 DEF StartFails, Writing, Torn, Whole, Absent
<1>14. CASE LoadMonitors \/ Stop \/ Crash
  BY <1>14, <1>1 DEF LoadMonitors, Stop, Crash
<1>15. CASE UNCHANGED vars
  BY <1>15 DEF vars, Writing, Torn, Whole, Absent
<1>. QED
  BY <1>2, <1>3, <1>4, <1>5, <1>6, <1>7, <1>8, <1>9, <1>10, <1>11, <1>12, <1>13,
     <1>14, <1>15, <1>16, <1>17
     DEF Next, Main

\* The variables of Lifecycle keep their types, an ended process leaves
\* nothing but its files, and a file that is being written is half-written,
\* for all sites, handlers, loops and intervals.
THEOREM LifecycleTypes == Spec => []TypeOK
BY InitTypes, StepTypes, PTL DEF Spec

-----------------------------------------------------------------------------
(* What keeps the definitions over a restart.                               *)

LEMMA NamesOfEmpty == Names(Empty.metas) = {}
BY DEF Names, Empty, NoConfig

\* A command adds definitions and takes none away.
LEMMA NamesGrow ==
    ASSUME NEW t \in Metas, NEW d
    PROVE  Names(t) \subseteq Names(MetasAfter(t, d))
BY NoneIsNone DEF Names, Metas, MetasAfter, InsertAll

\* SavedSurvive with what makes it inductive: a whole file is the last whole
\* file there was; what the loader carries is what was in it; and once the
\* loader has stored, memory has every definition that the thread is writing.
SavedInv ==
    /\ disk.metas.state = "absent" => saved = {}
    /\ disk.metas.state = "whole" => saved \subseteq Names(disk.metas.content)
    /\ loader = "parsed" /\ intact => saved \subseteq Names(parsed)
    /\ loader = "done" /\ intact => Names(snap.metas) \subseteq Names(mem.metas)
    /\ SavedSurvive

LEMMA InitSaved == Init => SavedInv
BY StoreIs DEF Init, SavedInv, SavedSurvive, Absent

\* SavedInv is kept by every step.
LEMMA StepSaved ==
    ASSUME TypeOK, SavedInv, [Next]_vars
    PROVE  SavedInv'
<1>. USE DEF SavedInv, SavedSurvive
<1>0. /\ "metas" \in Store
      /\ mem.metas \in Metas /\ snap.metas \in Metas
      /\ disk.metas \in {Absent("metas"), Torn("metas"), Whole(disk.metas.content)}
  BY StoreIs DEF TypeOK, Content
<1>1. CASE UNCHANGED <<mem, loader, parsed, snap, disk, aux>>
  BY <1>1 DEF Names, aux
<1>2. CASE Forget /\ UNCHANGED <<disk, aux>>
  BY <1>2 DEF Forget, aux
<1>3. ASSUME NEW l \in site.files, Start(l)  PROVE SavedInv'
  BY <1>3 DEF Start
<1>4. CASE Loader
  <2>1. CASE LoaderFindsNothing
    <3>1. CASE disk.metas.state = "absent"
      <4>1. snap.metas = Empty.metas
        BY <1>0, <3>1 DEF TypeOK, Writing, Torn
      <4>. QED  BY <2>1, <3>1, <4>1, NamesOfEmpty DEF LoaderFindsNothing
    <3>2. CASE disk.metas.state # "absent"
      BY <2>1, <3>2 DEF LoaderFindsNothing
    <3>. QED  BY <3>1, <3>2
  <2>2. CASE LoaderCannotRead
    BY <2>2 DEF LoaderCannotRead, aux
  <2>3. CASE LoaderParses
    BY <2>3 DEF LoaderParses, aux
  <2>4. CASE LoaderStores
    <3>1. mem'.metas = parsed  BY <2>4, <1>0 DEF LoaderStores, TypeOK
    <3>2. intact' => intact /\ snap.metas = Empty.metas
      BY <2>4 DEF LoaderStores, Writing
    <3>. QED  BY <2>4, <3>1, <3>2, NamesOfEmpty DEF LoaderStores
  <2>. QED  BY <1>4, <2>1, <2>2, <2>3, <2>4 DEF Loader
<1>5. ASSUME NEW f \in Store, PersistBegins(f)  PROVE SavedInv'
  <2>1. CASE f = "metas"
    <3>1. snap'.metas = mem.metas /\ disk'.metas.state = "torn"
      BY <1>5, <2>1 DEF PersistBegins, TypeOK, Torn
    <3>. QED  BY <1>5, <3>1 DEF PersistBegins, aux
  <2>2. CASE f # "metas"
    BY <1>5, <2>2, <1>0 DEF PersistBegins, TypeOK, aux
  <2>. QED  BY <2>1, <2>2
<1>6. ASSUME NEW f \in Store, PersistEnds(f)  PROVE SavedInv'
  <2>1. CASE f = "metas"
    <3>1. /\ snap'.metas = Empty.metas
          /\ disk'.metas.state = "whole" /\ disk'.metas.content = snap.metas
      BY <1>6, <2>1 DEF PersistEnds, TypeOK, Whole
    <3>2. /\ saved' = Names(snap.metas)
          /\ intact' = (intact /\ loader # "parsed")
      BY <1>6, <2>1 DEF PersistEnds, Saves
    <3>. QED  BY <1>6, <3>1, <3>2, NamesOfEmpty DEF PersistEnds
  <2>2. CASE f # "metas"
    BY <1>6, <2>2, <1>0 DEF PersistEnds, Saves, TypeOK, aux
  <2>. QED  BY <2>1, <2>2
<1>7. ASSUME NEW f \in Store, PersistFails(f)  PROVE SavedInv'
  <2>1. snap'.metas = snap.metas \/ snap'.metas = Empty.metas
    BY <1>7, <1>0 DEF PersistFails, TypeOK
  <2>. QED  BY <1>7, <2>1, NamesOfEmpty DEF PersistFails, aux
<1>8. ASSUME NEW h \in Handler, NEW f \in Store, UpdateStore(h, f)  PROVE SavedInv'
  <2>1. \/ mem'.metas = mem.metas
        \/ mem'.metas = MetasAfter(mem.metas, job[h].detail)
    BY <1>0, <1>8 DEF UpdateStore, MemAfter, TypeOK
  <2>2. Names(mem.metas) \subseteq Names(mem'.metas)
    BY <2>1, <1>0, NamesGrow
  <2>. QED  BY <1>8, <2>2 DEF UpdateStore, aux
<1>9. ASSUME NEW s \in reading, ReadReport(s)  PROVE SavedInv'
  <2>1. mem'.metas = mem.metas  BY <1>0, <1>9 DEF ReadReport, TypeOK
  <2>. QED  BY <1>9, <2>1 DEF ReadReport, aux
<1>. QED
  <2>1. CASE \/ \E l \in site.files : StartFails(l)
             \/ SpawnTasks \/ LoadNoMonitors \/ ReportPass
             \/ \E d \in site.details : Want(d)
             \/ \E ms \in site.intervals : ConfigCommand(ms)
             \/ \E h \in Handler : Receive(h) \/ Compare(h) \/ Record(h)
             \/ \E l \in Loops : Loop(l)
             \/ UNCHANGED vars
    BY <2>1, <1>1
       DEF StartFails, SpawnTasks, LoadNoMonitors, ReportPass, Want, ConfigCommand, Receive,
           Compare, Record, Loop, LoadInterval, CreateTicker, Tick, memory, vars
  <2>2. CASE LoadMonitors \/ Stop \/ Crash
    BY <2>2, <1>2 DEF LoadMonitors, Stop, Crash
  <2>. QED
    BY <1>3, <1>4, <1>5, <1>6, <1>7, <1>8, <1>9, <2>1, <2>2 DEF Next, Main, Handle

\* The definitions of the last whole file there was are in memory in every
\* later session, with any configurations and handlers and over any number of
\* crashes (deploy.rs 151-213, 223-250).  A session may lack them only when
\* its loader found the file half-written or could not read it, or when the
\* file was written between the loader's reading and its storing.
THEOREM SavedDefinitionsSurvive == Spec => []SavedSurvive
<1>1. SavedInv => SavedSurvive  BY DEF SavedInv
<1>. QED  BY <1>1, InitTypes, StepTypes, InitSaved, StepSaved, PTL DEF Spec

-----------------------------------------------------------------------------
(* What can end a loop.                                                     *)

\* An interval of 0 comes from the local file, in memory and in a ticker, and
\* no ticker outlives its process.
IntervalInv ==
    \A l \in Loops :
        /\ phase \in Ended => ticker[l].at = "off"
        /\ phase \in Up /\ interval[l] = 0 => conf[l] = 0
        /\ ticker[l].at \in {"loaded", "ticking", "dead"} /\ ticker[l].ms = 0 => conf[l] = 0
        /\ ticker[l].at = "dead" => ticker[l].ms = 0

LEMMA InitIntervals == Init => IntervalInv
BY DEF Init, IntervalInv, NoTicker, Ended, Up

\* IntervalInv is kept by every step.
LEMMA StepIntervals ==
    ASSUME TypeOK, IntervalInv, [Next]_vars
    PROVE  IntervalInv'
<1>. USE DEF IntervalInv, Ended, Up
<1>1. CASE UNCHANGED <<phase, interval, ticker, conf>>
  BY <1>1
<1>2. CASE Forget /\ phase' \in Ended
  BY <1>2 DEF Forget, NoTicker
<1>3. ASSUME NEW l \in site.files, StartFails(l) \/ Start(l)  PROVE IntervalInv'
  BY <1>3 DEF StartFails, Start, memory, clocks
<1>4. CASE SpawnTasks
  BY <1>4 DEF SpawnTasks, NoTicker
<1>5. CASE LoadNoMonitors
  BY <1>5 DEF LoadNoMonitors, memory, clocks
<1>6. ASSUME NEW ms \in site.intervals, ConfigCommand(ms)  PROVE IntervalInv'
  <2>1. \A l \in Loops : interval'[l] = 0 => interval[l] = 0
    BY <1>6, SiteTypes, IntervalAssumption DEF ConfigCommand, Milliseconds
  <2>. QED  BY <1>6, <2>1 DEF ConfigCommand
<1>7. ASSUME NEW l \in Loops, Loop(l)  PROVE IntervalInv'
  <2>1. phase \in Up
    BY <1>7 DEF Loop, LoadInterval, CreateTicker, Tick, TypeOK
  <2>2. \A k \in Loops \ {l} : ticker'[k] = ticker[k]
    BY <1>7 DEF Loop, LoadInterval, CreateTicker, Tick, TypeOK
  <2>3. \/ ticker'[l] = [at |-> "loaded", ms |-> interval[l]]
        \/ ticker[l].at = "loaded" /\ ticker'[l] = NewTicker(ticker[l].ms)
        \/ ticker'[l] = NewTicker(interval[l])
    BY <1>7 DEF Loop, LoadInterval, CreateTicker, Tick, TypeOK
  <2>4. UNCHANGED <<phase, interval, conf>>
    BY <1>7 DEF Loop, LoadInterval, CreateTicker, Tick
  <2>5. /\ ticker'[l].ms = 0 => conf[l] = 0
        /\ ticker'[l].at = "dead" => ticker'[l].ms = 0
        /\ ticker'[l].at # "off"
    BY <2>1, <2>3 DEF NewTicker
  <2>. QED  BY <2>1, <2>2, <2>4, <2>5
<1>. QED
  <2>1. CASE \/ Loader
             \/ \E f \in Store : PersistBegins(f) \/ PersistEnds(f) \/ PersistFails(f)
             \/ \E d \in site.details : Want(d)
             \/ \E h \in Handler : Receive(h) \/ Handle(h)
             \/ ReportPass \/ \E s \in reading : ReadReport(s)
             \/ UNCHANGED vars
    BY <2>1, <1>1
       DEF Loader, LoaderFindsNothing, LoaderCannotRead, LoaderParses, LoaderStores,
           PersistBegins, PersistEnds, PersistFails, Want, Receive, Handle, Compare, Record,
           UpdateStore, ReportPass, ReadReport, clocks, memory, vars
  <2>2. CASE LoadMonitors \/ Stop \/ Crash
    BY <2>2, <1>2 DEF LoadMonitors, Stop, Crash
  <2>. QED
    BY <1>3, <1>4, <1>5, <1>6, <1>7, <2>1, <2>2 DEF Next, Main

\* A loop ends only of an interval of 0 in the local file: no config command,
\* at whatever moment of a loop's start, ends one, with any number of loops.
THEOREM OnlyFiles == Spec => []OnlyFilesEndLoops
<1>1. IntervalInv => OnlyFilesEndLoops
  BY DEF IntervalInv, OnlyFilesEndLoops
<1>. QED
  BY <1>1, InitTypes, StepTypes, InitIntervals, StepIntervals, PTL DEF Spec
=============================================================================
