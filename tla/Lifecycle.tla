------------------------------ MODULE Lifecycle ------------------------------
(***************************************************************************)
(* The life of the process: start (src/src/main.rs, context.rs), the files *)
(* under ~/.edge that outlive it (deploy.rs, report/monitor.rs,            *)
(* report/cache.rs), the intervals of its loops (grpc/cloud.rs), Ctrl-C,   *)
(* crashes and the next start.                                             *)
(*                                                                         *)
(* Each of the three stores has a thread that writes it to its file every  *)
(* 60 s, in place.  Two are loaded by threads of their own beside the      *)
(* first commands, the monitors by main.  The threads' clocks are not      *)
(* modelled: a thread may take its next step at any time.  Commands are    *)
(* handled as in PlcInfo, by what they do to the three stores and to the   *)
(* record; the process may end between any two steps.                      *)
(***************************************************************************)
EXTENDS PlcConfig, Naturals

CONSTANTS
    Sites,       \* what the program may meet: [files, details, intervals]
    Handler,     \* the tasks that handle commands
    WithReport,  \* the stations that have a report block (report_db > 0)
    Loops,       \* the loops with an interval: heartbeat, report, status
    Interval     \* their intervals in ms

Empty == [metas    |-> NoConfig.metas,
          stations |-> {},
          monitors |-> {}]

Store == DOMAIN Empty

\* Mutant: save_meta replaces the map.
MemAfterReplacing(old, d) == [metas    |-> d.metas,
                              stations |-> StationsAfter(old.stations, d),
                              monitors |-> MonitorsAfter(old.monitors, d)]

\* What a configuration makes of the stores.
MemAfter(old, d) == [metas    |-> MetasAfter(old.metas, d),
                     stations |-> StationsAfter(old.stations, d),
                     monitors |-> MonitorsAfter(old.monitors, d)]

\* load_with_paths: whether a file is there, parses and has what is required.
IdState   == {"good", "missing", "invalid", "empty"}
ConfState == {"good", "missing", "invalid"}

(***************************************************************************)
(* A site: what id.key and server.conf may hold at a start, and what its   *)
(* cloud may come to send.  The intervals of server.conf, or its defaults, *)
(* replace those of id.key (merge_server_conf).                            *)
(***************************************************************************)
ASSUME SitesAssumption ==
    Sites \subseteq [files     : SUBSET [id : IdState, conf : ConfState, ms : [Loops -> Interval]],
                     details   : SUBSET Config,
                     intervals : SUBSET [Loops -> Interval \cup {0}]]

ASSUME IntervalAssumption == Interval \subseteq Nat

ASSUME ReportAssumption == WithReport \subseteq Station

\* The configurations of all sites.
Details == UNION {s.details : s \in Sites}

Loads(l) == l.id = "good" /\ l.conf = "good"

VARIABLES
    phase,      \* how far main is, or how the last process ended
    mem,        \* the stores
    last,       \* last_plc_detail
    job,        \* each handler: where it is, and the detail of its command
    reading,    \* stations the report loop's pass has yet to read
    loader,     \* the thread that loads the definitions
    parsed,     \* the definitions it has read and not yet stored
    snap,       \* what the thread of each store is writing to its file
    interval,   \* heart_beat_ms, report_interval_ms, status_interval_ms
    ticker,     \* each loop: how far it is, and its own copy of the interval
    disk,       \* the files
    site,       \* where the program runs
    wanted,     \* the configuration that the cloud sends now
    conf,       \* the intervals of the files at the last start
    saved,      \* names of the definitions in the last whole file there was
    intact      \* the loader found them whole, and they were not written
                \* again before it stored them

commands == <<last, job, reading>>
clocks   == <<interval, ticker>>
aux      == <<saved, intact>>
memory   == <<mem, commands, loader, parsed, snap, clocks>>
vars     == <<phase, memory, disk, site, wanted, conf, aux>>

Ended == {"stopped", "killed", "exited", "panicked"}
Up    == {"connecting", "spawned", "running"}

Absent(f) == [state |-> "absent", content |-> Empty[f]]
Torn(f)   == [state |-> "torn", content |-> Empty[f]]
Whole(c)  == [state |-> "whole", content |-> c]

\* The values of each store.
Content == [metas    |-> Metas,
            stations |-> SUBSET Station,
            monitors |-> SUBSET Monitor]

Milliseconds == Interval \cup {0}

Ticker   == [at : {"off", "started", "loaded", "ticking", "dead"}, ms : Milliseconds]
NoTicker == [at |-> "off", ms |-> 0]

Job   == [at : {"idle", "compare", "record"} \cup Store, detail : Details \cup {NoConfig}]
NoJob == [at |-> "idle", detail |-> NoConfig]

Names(map) == {k \in MetaType : map[k] # None}

\* An empty store is never written.
Writing(f) == snap[f] # Empty[f]

TypeOK ==
    /\ phase \in Ended \cup Up
    /\ DOMAIN mem = Store /\ DOMAIN snap = Store /\ DOMAIN disk = Store
    /\ \A f \in Store :
          /\ {mem[f], snap[f], disk[f].content} \subseteq Content[f]
          /\ disk[f] \in {Absent(f), Torn(f), Whole(disk[f].content)}
          /\ Writing(f) => disk[f] = Torn(f)
    /\ site \in Sites
    /\ {last, wanted} \subseteq Details \cup {NoConfig}
    /\ job \in [Handler -> Job]
    /\ reading \in SUBSET WithReport
    /\ loader \in {"off", "begun", "parsed", "done", "unread"}
    /\ parsed \in Content.metas
    /\ interval \in [Loops -> Milliseconds] /\ conf \in [Loops -> Milliseconds]
    /\ ticker \in [Loops -> Ticker]
    /\ saved \in SUBSET MetaType /\ intact \in BOOLEAN
    /\ phase \in Ended => /\ mem = Empty /\ snap = Empty /\ loader = "off"
                          /\ \A h \in Handler : job[h] = NoJob
                          /\ reading = {}

NoMilliseconds == [l \in Loops |-> 0]

Init ==
    /\ phase = "stopped"
    /\ mem = Empty
    /\ last = NoConfig
    /\ job = [h \in Handler |-> NoJob]
    /\ reading = {}
    /\ loader = "off"
    /\ parsed = Empty.metas
    /\ snap = Empty
    /\ interval = NoMilliseconds
    /\ ticker = [l \in Loops |-> NoTicker]
    /\ disk = [f \in Store |-> Absent(f)]
    /\ site \in Sites
    /\ wanted = NoConfig
    /\ conf = NoMilliseconds
    /\ saved = {} /\ intact = TRUE

\* What ends with the process.
Forget ==
    /\ mem' = Empty
    /\ last' = NoConfig
    /\ job' = [h \in Handler |-> NoJob]
    /\ reading' = {}
    /\ loader' = "off"
    /\ parsed' = Empty.metas
    /\ snap' = Empty
    /\ interval' = NoMilliseconds
    /\ ticker' = [l \in Loops |-> NoTicker]

(***************************************************************************)
(* main                                                                    *)
(***************************************************************************)

\* Without a usable pair of local files main exits with status 1.
StartFails(l) ==
    /\ phase \in Ended
    /\ ~Loads(l)
    /\ phase' = "exited"
    /\ UNCHANGED <<memory, disk, site, wanted, conf, aux>>

\* The factory starts the loader of the definitions and their thread,
\* CloudSession::new takes the intervals; then main awaits connect().
Start(l) ==
    /\ phase \in Ended
    /\ Loads(l)
    /\ phase' = "connecting"
    /\ loader' = "begun"
    /\ conf' = l.ms
    /\ interval' = l.ms
    /\ intact' = TRUE
    /\ UNCHANGED <<mem, commands, parsed, snap, ticker, disk, site, wanted, saved>>

\* The cloud is reached or not; either way every task is spawned.
SpawnTasks ==
    /\ phase = "connecting"
    /\ phase' = "spawned"
    /\ ticker' = [l \in Loops |-> [NoTicker EXCEPT !.at = "started"]]
    /\ UNCHANGED <<mem, commands, loader, parsed, snap, interval, disk, site, wanted, conf, aux>>

\* Monitor::load_from_disk gives nothing: there is no file, or half of one,
\* or it cannot be read.  main goes on to await Ctrl-C.
LoadNoMonitors ==
    /\ phase = "spawned"
    /\ phase' = "running"
    /\ UNCHANGED <<memory, disk, site, wanted, conf, aux>>

\* Mutant: half a file of monitors ends the start as a whole one does.
LoadMonitorsOrPart ==
    /\ phase = "spawned"
    /\ disk.monitors.state # "absent"
    /\ phase' = "panicked"
    /\ Forget
    /\ UNCHANGED <<disk, site, wanted, conf, aux>>

\* It gives the monitors, and MonitorProcessor::load_from_disk blocks on a
\* runtime inside the runtime of main: the panic ends the process.
LoadMonitors ==
    /\ phase = "spawned"
    /\ disk.monitors.state = "whole"
    /\ phase' = "panicked"
    /\ Forget
    /\ UNCHANGED <<disk, site, wanted, conf, aux>>

\* Ctrl-C is awaited last; nothing is written at the end.
Stop ==
    /\ phase = "running"
    /\ phase' = "stopped"
    /\ Forget
    /\ UNCHANGED <<disk, site, wanted, conf, aux>>

\* Ctrl-C before main awaits it, a kill, a power failure.
Crash ==
    /\ phase \in Up
    /\ phase' = "killed"
    /\ Forget
    /\ UNCHANGED <<disk, site, wanted, conf, aux>>

(***************************************************************************)
(* The threads of the files.  The file of stations and reports is loaded   *)
(* too, but never with success: its keys are FillStations turned into      *)
(* strings, which no longer parse as FillStations.  Nothing follows from   *)
(* reading it.                                                             *)
(***************************************************************************)

\* There is no file, or it does not parse: the map is left alone.
LoaderFindsNothing ==
    /\ loader = "begun"
    /\ disk.metas.state # "whole"
    /\ loader' = "done"
    /\ intact' = (disk.metas.state = "absent")
    /\ UNCHANGED <<phase, mem, commands, parsed, snap, clocks, disk, site, wanted, conf, saved>>

LoaderCannotRead ==
    /\ loader = "begun"
    /\ disk.metas.state # "absent"
    /\ loader' = "unread"
    /\ UNCHANGED <<phase, mem, commands, parsed, snap, clocks, disk, site, wanted, conf, aux>>

LoaderParses ==
    /\ loader = "begun"
    /\ disk.metas.state = "whole"
    /\ loader' = "parsed"
    /\ parsed' = disk.metas.content
    /\ UNCHANGED <<phase, mem, commands, snap, clocks, disk, site, wanted, conf, aux>>

\* The whole map is replaced, whatever a command has put there meanwhile.
LoaderStores ==
    /\ loader = "parsed"
    /\ mem' = [mem EXCEPT !.metas = parsed]
    /\ loader' = "done"
    /\ parsed' = Empty.metas
    /\ intact' = (intact /\ ~Writing("metas"))
    /\ UNCHANGED <<phase, commands, snap, clocks, disk, site, wanted, conf, saved>>

\* The monitors' thread is started after main has loaded them, the others
\* before the connection.
HasThread(f) == IF f = "monitors" THEN phase = "running" ELSE phase \in Up

\* Mutant: a file that exists is not written again.
PersistBeginsOnce(f) ==
    /\ HasThread(f)
    /\ ~Writing(f)
    /\ mem[f] # Empty[f]
    /\ disk[f] = Absent(f)
    /\ snap' = [snap EXCEPT ![f] = mem[f]]
    /\ disk' = [disk EXCEPT ![f] = Torn(f)]
    /\ UNCHANGED <<phase, mem, commands, loader, parsed, interval, ticker, site, wanted, conf, aux>>

\* The snapshot is taken and fs::write truncates the file.
PersistBegins(f) ==
    /\ HasThread(f)
    /\ ~Writing(f)
    /\ mem[f] # Empty[f]
    /\ snap' = [snap EXCEPT ![f] = mem[f]]
    /\ disk' = [disk EXCEPT ![f] = Torn(f)]
    /\ UNCHANGED <<phase, mem, commands, loader, parsed, interval, ticker, site, wanted, conf, aux>>

\* What the end of a write does to the account of what was saved.
Saves(f) ==
    IF f = "metas"
      THEN saved' = Names(snap.metas) /\ intact' = (intact /\ loader # "parsed")
      ELSE UNCHANGED aux

\* Mutant: the next round of the thread begins before the write has ended.
PersistEndsTwice(f) ==
    /\ Writing(f)
    /\ disk' = [disk EXCEPT ![f] = Whole(snap[f])]
    /\ Saves(f)
    /\ UNCHANGED <<phase, mem, commands, loader, parsed, snap, interval, ticker, site, wanted, conf>>

PersistEnds(f) ==
    /\ Writing(f)
    /\ disk' = [disk EXCEPT ![f] = Whole(snap[f])]
    /\ snap' = [snap EXCEPT ![f] = Empty[f]]
    /\ Saves(f)
    /\ UNCHANGED <<phase, mem, commands, loader, parsed, interval, ticker, site, wanted, conf>>

\* The disk is full: fs::write ends with an error in the middle of the file.
PersistFails(f) ==
    /\ Writing(f)
    /\ snap' = [snap EXCEPT ![f] = Empty[f]]
    /\ UNCHANGED <<phase, mem, commands, loader, parsed, clocks, disk, site, wanted, conf, aux>>

(***************************************************************************)
(* The cloud's commands, handled by the tasks that main has spawned.       *)
(***************************************************************************)

\* An operator changes the configuration in the cloud.
Want(d) ==
    /\ wanted' = d
    /\ UNCHANGED <<phase, memory, disk, site, conf, aux>>

Serving == phase \in {"spawned", "running"}

\* The answer to a heartbeat, or the next command of a stream.
Receive(h) ==
    /\ Serving
    /\ job[h] = NoJob
    /\ job' = [job EXCEPT ![h] = [at |-> "compare", detail |-> wanted]]
    /\ UNCHANGED <<phase, mem, last, reading, loader, parsed, snap, clocks, disk, site, wanted, conf, aux>>

\* An unchanged configuration, or one without PLCs, changes nothing.
Compare(h) ==
    /\ job[h].at = "compare"
    /\ job' = [job EXCEPT ![h] =
                 IF @.detail # last /\ @.detail.plcs # {} THEN [@ EXCEPT !.at = "record"] ELSE NoJob]
    /\ UNCHANGED <<phase, mem, last, reading, loader, parsed, snap, clocks, disk, site, wanted, conf, aux>>

Record(h) ==
    /\ job[h].at = "record"
    /\ last' = job[h].detail
    /\ job' = [job EXCEPT ![h].at = "stations"]
    /\ UNCHANGED <<phase, mem, reading, loader, parsed, snap, clocks, disk, site, wanted, conf, aux>>

\* Where a handler goes on when it has updated a store.
After(f, j) ==
    CASE f = "stations" -> [j EXCEPT !.at = "monitors"]
      [] f = "monitors" -> [j EXCEPT !.at = "metas"]
      [] f = "metas"    -> NoJob

UpdateStore(h, f) ==
    /\ job[h].at = f
    /\ mem' = [mem EXCEPT ![f] = MemAfter(mem, job[h].detail)[f]]
    /\ job' = [job EXCEPT ![h] = After(f, @)]
    /\ UNCHANGED <<phase, last, reading, loader, parsed, snap, clocks, disk, site, wanted, conf, aux>>

\* The report loop copies the stations, reads each, and takes or makes its
\* entry once the PLC has answered.
ReportPass ==
    /\ Serving
    /\ reading = {}
    /\ reading' = mem.stations \cap WithReport
    /\ UNCHANGED <<phase, mem, last, job, loader, parsed, snap, clocks, disk, site, wanted, conf, aux>>

ReadReport(s) ==
    /\ s \in reading
    /\ reading' = reading \ {s}
    /\ \/ mem' = [mem EXCEPT !.stations = @ \cup {s}]
       \/ UNCHANGED mem
    /\ UNCHANGED <<phase, last, job, loader, parsed, snap, clocks, disk, site, wanted, conf, aux>>

\* Mutant: an interval of 0 is stored like any other.
ConfigCommandOfAny(ms) ==
    /\ Serving
    /\ interval' = ms
    /\ UNCHANGED <<phase, mem, commands, loader, parsed, snap, ticker, disk, site, wanted, conf, aux>>

\* Intervals of 0 are passed over.
ConfigCommand(ms) ==
    /\ Serving
    /\ interval' = [l \in Loops |-> IF ms[l] > 0 THEN ms[l] ELSE interval[l]]
    /\ UNCHANGED <<phase, mem, commands, loader, parsed, snap, ticker, disk, site, wanted, conf, aux>>

(***************************************************************************)
(* The loops.  Each loads its interval, logs, creates a ticker, and after  *)
(* every tick creates another one when the interval has changed.           *)
(***************************************************************************)

LoadInterval(l) ==
    /\ ticker[l].at = "started"
    /\ ticker' = [ticker EXCEPT ![l] = [at |-> "loaded", ms |-> interval[l]]]
    /\ UNCHANGED <<phase, mem, commands, loader, parsed, snap, interval, disk, site, wanted, conf, aux>>

\* tokio's interval() panics on 0; the loop's task ends.
NewTicker(ms) == [at |-> IF ms = 0 THEN "dead" ELSE "ticking", ms |-> ms]

CreateTicker(l) ==
    /\ ticker[l].at = "loaded"
    /\ ticker' = [ticker EXCEPT ![l] = NewTicker(@.ms)]
    /\ UNCHANGED <<phase, mem, commands, loader, parsed, snap, interval, disk, site, wanted, conf, aux>>

\* Mutant: only a longer interval is noticed.
TickSlower(l) ==
    /\ ticker[l].at = "ticking"
    /\ interval[l] > ticker[l].ms
    /\ ticker' = [ticker EXCEPT ![l] = NewTicker(interval[l])]
    /\ UNCHANGED <<phase, mem, commands, loader, parsed, snap, interval, disk, site, wanted, conf, aux>>

Tick(l) ==
    /\ ticker[l].at = "ticking"
    /\ interval[l] # ticker[l].ms
    /\ ticker' = [ticker EXCEPT ![l] = NewTicker(interval[l])]
    /\ UNCHANGED <<phase, mem, commands, loader, parsed, snap, interval, disk, site, wanted, conf, aux>>

Main == SpawnTasks \/ LoadNoMonitors \/ LoadMonitors

Loader == LoaderFindsNothing \/ LoaderCannotRead \/ LoaderParses \/ LoaderStores

Handle(h) == Compare(h) \/ Record(h) \/ \E f \in Store : UpdateStore(h, f)

Loop(l) == LoadInterval(l) \/ CreateTicker(l) \/ Tick(l)

Next ==
    \/ \E l \in site.files : StartFails(l) \/ Start(l)
    \/ Main \/ Stop \/ Crash
    \/ Loader
    \/ \E f \in Store : PersistBegins(f) \/ PersistEnds(f) \/ PersistFails(f)
    \/ \E d \in site.details : Want(d)
    \/ \E h \in Handler : Receive(h) \/ Handle(h)
    \/ ReportPass \/ \E s \in reading : ReadReport(s)
    \/ \E ms \in site.intervals : ConfigCommand(ms)
    \/ \E l \in Loops : Loop(l)

Spec == Init /\ [][Next]_vars

\* Threads and tasks are scheduled, writes end, and the cloud goes on sending.
\* The disk is not full for ever.
Fairness ==
    /\ WF_vars(Main) /\ WF_vars(Loader)
    /\ \A h \in Handler : WF_vars(Receive(h) \/ Handle(h))
    /\ \A f \in Store : WF_vars(PersistBegins(f)) /\ SF_vars(PersistEnds(f))
    /\ \A l \in Loops : WF_vars(Loop(l))

FairSpec == Spec /\ Fairness

(***************************************************************************)
(* Properties                                                              *)
(***************************************************************************)

\* The definitions of the last whole file there was are in memory in every
\* later session, and stay there, whatever crashes, restarts and commands
\* there have been (deploy.rs 151-213, 223-250), so that the next write loses
\* none.  A session may lack them only when its loader found the file
\* half-written or could not read it, or when the thread wrote the file
\* between the loader's reading and its storing.
SavedSurvive == loader = "done" /\ intact => saved \subseteq Names(mem.metas)

\* A loop of the session ends (interval() panics on a period of 0) only if
\* the local file gave it the interval 0: no config command, at whatever
\* moment of the loop's start, ends one (cloud.rs 272-292, 611-635, 768-821).
OnlyFilesEndLoops ==
    \A l \in Loops : ticker[l].at = "dead" => conf[l] = 0

\* Without a whole file of monitors on disk a start ends in a running program,
\* or is killed, whatever half-written files the last crash has left.
StartsWithoutMonitors ==
    phase = "connecting" /\ disk.monitors.state # "whole" ~> phase \in {"running", "killed"}

\* "Start monitor persistence (load from disk + 60s persistence loop)"
\* (main.rs 156): a start goes on with the monitors of the file.  It does not
\* hold: with a whole file every start ends in the panic of monitor.rs 195.
StartsUp == phase = "connecting" ~> phase \in {"running", "killed"}

\* In a session that goes on the file of a store comes to say what the store
\* does, one that a crash or a full disk has left half-written included,
\* unless the configuration never stops to change.
FilesFollow ==
    \/ []<><<wanted' # wanted>>_vars
    \/ \A f \in Store :
          []<>(phase # "running" \/ mem[f] = Empty[f] \/ disk[f] = Whole(mem[f]))

\* A loop that goes on comes to run with the interval last sent.
IntervalsFollow ==
    \A l \in Loops :
        []<>(phase # "running" \/ ticker[l].at = "dead" \/ ticker[l].ms = interval[l])
=============================================================================
