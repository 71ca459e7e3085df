# A verification of filling-pilot-edge-rs

`filling-pilot-edge-rs` is a tokio program that runs beside the PLCs of a
filling plant.  It takes its configuration and commands from a cloud server
over gRPC, reads and writes data blocks of Siemens S7 PLCs, and sends reports,
statuses and monitored blocks to the cloud.  This directory holds TLA+ models
of its concurrent core, the TLC runs that check them and the TLAPS proofs that
carry the main invariants over to every size.  Paths below are relative to the
crate, `src/src/...` being its Rust sources.

## 1. Inventory

| part | source | state it keeps | operations | talks to |
|---|---|---|---|---|
| S7 connection pool | `s7.rs` | `connections` (RwLock of a map), `plc_list` (RwLock), one RwLock per connection | `read_bytes`, `write_bytes`, `check_all_connections`, `test_connection`, `update_plc_list`, `close_all` | called by every loop, the command handlers and HTTP |
| Cloud session | `grpc/cloud.rs`, `main.rs` 113-178 | `client` (RwLock of an Option), `random_number`, intervals, `last_plc_detail` | `connect`, `register`, `start_heartbeat_loop`, `handle_command`, `send_plc_response`, three sending loops, the connection watcher | the server; all parts below |
| plcInfo | `grpc/cloud.rs` 397-470 | `last_plc_detail` | one command, five updates | pool, report cache, monitors, definitions |
| Monitors | `report/monitor.rs` | `monitors`, `states`, `fill_stations`, `monitor-meta.json` | `update_monitors`, `trigger_monitors_direct`, posts to local addresses and their callbacks, persistence | pool, definitions, cloud session |
| Reports and statuses | `report/cache.rs` | `caches`, `status_cache`, `last_status_sent_time`, `reports.json` | `update_fill_stations`, report loop, status loop, `delete_report`, persistence | pool, cloud session |
| Definitions and deploy | `deploy.rs` | map of DataBlockDefinitions, `object-meta.json` | `save_meta`, `decode_as_map`, `encode`, `deploy` | pool, monitors |
| Codecs, data blocks | `codec/` | none | bytes to values and back | definitions, pool |
| Local configuration | `context.rs` | none after start | reads files and environment | `main.rs` |
| HTTP API | `http.rs` | `deployments`, which nothing reads | nine routes | pool |
| Logger | `logger.rs` | a UDP socket | `log` | everyone |
| Command processors | `processor/` | none | not called by the session | - |
| Start and shutdown | `main.rs` | join handles | spawn everything, the PLC status task, Ctrl-C | everyone |

What is hard here:

* **Locks.**  tokio's `RwLock` is fair: a waiting writer stops later readers.
  Guards live across `.await`s, in different orders in different functions
  (`s7.rs`), and across RPCs (`grpc/cloud.rs`).
* **State read before an `.await` and used after it**: a cloned connection, a
  copy of the monitors or stations, the random number, `last_plc_detail`.
* **Two tasks that run the same handler**: commands come with heartbeat
  answers and on the register stream.
* **Delivery is not acknowledged**: a message that cannot be sent is dropped;
  only a timer repairs that.  Posts to local addresses are tasks of their own
  and may overtake each other.
* **Failures**: dead transports that still report themselves connected, a
  server out of reach at start, panics inside a task, restarts with files of
  an earlier run, which are overwritten in place and loaded by threads beside
  the first commands.

What makes each part correct:

* pool: one user per connection, requests on the right connection, no circle
  of waiting tasks, every call returns, broken connections leave the pool;
* session: nobody waits for a guard of its own, heartbeats and messages go on,
  the edge registers when it can and when it is told to;
* plcInfo: what is recorded as applied is applied, by whichever handler; the
  newest configuration comes into force; nothing else writes what it wrote; every
  command is answered;
* monitors, statuses, reports: what is held back from the cloud the cloud has;
  the cloud comes to know every value that stays; every report arrives; what
  is no longer configured is no longer read;
* files: what reached a file survives crashes and later commands; a session that
  goes on writes down what it has; no file keeps the program from starting;
* intervals: a loop runs with the one last sent, and no command ends a loop;
* codecs: what is deployed is what a monitor shows, nothing else is touched, and
  the two encoders agree.

`PROJECT.json` lists every component with what is modelled of it, and under
`hazards` each place where these things can go wrong.

## 2. The modules

| module | models | kind |
|---|---|---|
| `FairRwLock` | tokio's RwLock as the code uses it: requests are queued, guards granted from the head of the queue, readers in groups | operators on a lock value |
| `S7Manager` | the connection pool | state machine |
| `CloudSession` | the gRPC client, heartbeats, registration, commands and answers, the watcher | state machine |
| `PlcConfig` | a configuration and how each structure takes it over | operators |
| `ConfigStore` | what the edge keeps of its promises about the configuration, with any number of handlers and two further writers | abstract specification |
| `PlcInfo` | the plcInfo handler in several tasks, and the other writers of what it updates; implements `ConfigStore` | state machine |
| `MonitorProcessor` | the monitors, their loop, the delivery of its messages, the posts | state machine |
| `ReportCache` | reports and statuses of the fill stations | state machine |
| `S7DateTime` | the date and time in a report block | operators |
| `MetaCodec` | the codecs, objects written to and read from blocks by a definition, the slices that `deploy` writes and a monitor reads | operators |
| `DataBlock` | the second encoder and decoder of blocks, `data_block.rs` | operators |
| `Conversions` | the three at work: a date is read, an object is deployed and seen by a monitor | state machine |
| `Lifecycle` | starts, files, threads that load and write them, commands between them, intervals, Ctrl-C, crashes, the next start | state machine |
| `MC*` | constants for TLC | |
| `*Proofs` | the theorems | |

### FairRwLock

A lock is `[held, queue]`: the set of granted requests `[task, mode]` and the
sequence of waiting ones.  `Ask` grants a request at once when nothing is
queued and it is compatible, and queues it otherwise; `Admit` grants the head
of the queue when it is compatible; `Drop` removes a guard.  This is the semantics of tokio's
semaphore-based lock: first come, first served, readers behind a waiting
writer wait.  It is a library, so its operators are marked external; the
models use it exactly where the code awaits `read()` or `write()`.

### S7Manager

`pc[t]` is the await point a task is at.  Every `.await` on a lock is two
steps: asking, and running with the guard until the next await.  A network
call is one step, taken when it completes, so that whatever happens meanwhile
is interleaved before it.

| `pc` | code |
|---|---|
| `lookup` | `connect`, awaiting `connections.read()` (94) |
| `probe` | awaiting `shared.read()` with the pool's guard alive (96) |
| `dial` | `connector.connect().await`, no lock (109) |
| `store` | awaiting `connections.write()` (113) |
| `io` | awaiting `shared.write()` or in `read_db`/`write_db` (122-123, 131-132, 179-181) |
| `evict` | `test_connection`, awaiting `connections.write()` with the connection's guard alive (189) |
| `snapshot`, `next` | `get_plc_list`, the loop of `check_all_connections` |
| `setList`, `precreate`, `insert` | `update_plc_list` |
| `drain`, `disconnect` | `close_all` |

A connection is `closed`, `open` or `broken`: `is_connected()` of the library
only tells whether it has a session, so a dead transport still counts as
connected.  `Conn` identities are reused once nothing refers to them, as an
`Arc` is freed.

### CloudSession

One client behind one lock.  All RPCs are made with the write guard alive;
commands are handled after it is dropped.  `reachable` is the network, changed
at any time.  Commands are abstracted to what they do to the session: answer
(`plcInfo`, `read`, `write`, `status`, `clientInfo`), change the random number
(`reConnect`), or neither.

### PlcConfig, ConfigStore, PlcInfo

A command carries PLCs, fill stations, monitors and definitions.  `PlcConfig`
says how each structure takes a configuration over: the PLC list is replaced,
stations and monitors are replaced unless the new configuration has none,
definitions and the deploy map only gain entries.  A `FillStation` is a pair of
its id and the rest, as its `Eq` compares all of it: a station that is moved is
another key of the map.

`PlcInfo` is the handler, one step per structure, run by the heartbeat task and by
stream tasks with nothing between them but the single locks.  The same
structures have two more writers.  A pass of the report loop copies the
keys, reads each station's PLC, and then takes the station's entry or makes it
(`ReportPass`, `ReadReport`, `cache.rs` 198-223), so that a station removed
meanwhile comes back; and the loader of the definitions replaces the whole map at
some time (`LoaderStores`, `deploy.rs` 167).  Three variables keep account for the
properties and are read by no step: `episode` is the set of configurations whose
updates have overlapped since no handler was updating, `putBack` the stations put
back since the stations were last updated, `replaced` what the loader stored in
the episode.

`ConfigStore` is what remains of the promise "what is recorded as applied is
applied": while nobody takes over a configuration no part changes, and when all who
did have ended, every part says what one of their configurations says.
Its two exceptions, `ComeBack` and `Replace`, are the other two writers.  That
the overlapping configurations may be mixed for ever is the violated property
`Converges`; what the exceptions mean is said in section 3.

### MonitorProcessor

The loop takes a copy of the monitors, and for each one, with the guard of
`states` alive through the read, reads the block, compares, caches and pushes
a message; afterwards the messages are sent one by one and may be lost.  Time
is abstracted to whether `frequency` or `resend_interval` has elapsed, because
`now - last` is compared with nothing else.  The value of a monitor with a local
address is handed to a task that posts it: `posts` counts the posts on their way,
which arrive in any order or fail, and `heard` is what arrived last.  What comes
back matters to nobody: a callback that asks for a deployment ends the post's
task, in an error or in the `block_on` of `encode` (`deploy.rs` 319).
A monitor with a type and a local
address has its value decoded by `decode_as_map`, whose `Handle::block_on`
panics inside the runtime; the loop's task then ends.

### ReportCache

Two loops share the map of stations.  The report loop (`rpc`) and the status
loop (`spc`) each work on a copy of its keys, read one station after the other,
and send afterwards.  `caches` is a list of reports per station, as in the
code; a station that `read_report` finds missing is put back, and one without a
report or status block (`report_db`, `status_db` not positive) is skipped.
`sendDue[i]` abstracts `last_status_sent_time` to whether 30 s have passed.
`told` is what the status loop got through, `seen` what the cloud saw last from
the loop or from an answer to the status command, which is composed from the
cache and delivered some time later.

### S7DateTime, MetaCodec, DataBlock, Conversions

Pure functions of the code, as operators.  `S7DateTime` counts days as
`extract_s7_datetime` does; a moment is a pair of days and seconds.
`MetaCodec` has the codecs for numbers, booleans, addresses, characters, dates,
strings and wide strings, and `Encode` and `DecodeAsMap` from the lookup of the
definition on (the lookup itself panics inside the runtime, see
`MonitorProcessor`).  A byte has `Base` values and everything the code derives
from 256 is derived from `Base`, so that a string reaches its limit of `Base - 2`
characters and a number the end of its type in small blocks.  Panics of slices
are the value `Panic`.  `Deployed` is the slice of an encoded object that `deploy`
writes to the PLC, `Watched` what a monitor makes of the slice it reads.
`DataBlock` is the encoder and decoder of `data_block.rs`, with the schema that
`http.rs` parses: a second table of sizes and a second match on type names.

`Conversions` reads a date; or writes an object, deploys it, whole or in part,
into a PLC's block, and reads the block as a monitor does, with the same
definition; or puts a value through `DataBlock` and compares it with `MetaCodec`.

### Lifecycle

`phase` is how far `main` is, or how the last process ended. Everything but `disk`
and the cloud's `wanted` is forgotten with the process. `site` never changes: it
says what the local files may hold and what the cloud may come to send. A store (the
definitions, the stations with their reports, the monitors) has a file that is
absent, torn or whole: `fs::write` truncates it and then writes what the thread took
from memory, so that a crash or a full disk in between leaves half a file, which
does not parse. The definitions are loaded by a thread that replaces the map beside
the first commands; the monitors by `main`, which blocks on a runtime inside the
runtime when there are any (`monitor.rs` 195, from `main.rs` 158) and panics; the
stations never, since the keys of the map were turned into strings. Commands are
handled as in `PlcInfo`, by any number of handlers, in the steps that touch the
record and the three stores (`Receive`, `Compare`, `Record`, `UpdateStore`), and the
report loop puts stations back; the process may end, the loader store and a thread
write between any two of these steps. `saved` and `intact` keep account for the
properties: the names of the definitions in the last whole file, and whether the
session's loader found that file whole and the thread has not written it again
before the loader stored.
A loop loads its interval, logs, creates its ticker, and looks for another
interval after every tick.

### How the modules fit together

`S7Manager`, `CloudSession` and the proofs about them are built on
`FairRwLock`.  The other modules use a pool call as one step that succeeds or
fails at any time, and a message as one step that arrives or is lost: this is
what `S7Manager` (`CallsReturn`) and `CloudSession` (`SendsReturn`) say of them.
`PlcInfo` updates the PLC list, the stations, the monitors and the definitions;
`S7Manager`, `ReportCache` and `MonitorProcessor` take the same updates as
`StartUpdate`, `UpdateStations` and `BeginUpdate`, from any configuration at any
time, so they hold whatever `PlcInfo` does.  `PlcInfo` and `Lifecycle` are both
built on `PlcConfig`: one has all five updates and the answers while the process
lives, the other the updates of what has a file, and lets the process end.

## 3. The runs

| run | instance | checks | shows |
|---|---|---|---|
| `s7_safety` | 1 PLC, a reader, the check, an update, the shutdown, 4 connections | `TypeOK`, `OneUserPerSession`, `HangNeedsEvict` | a connection object never has two users, replaced and evicted ones included; the only circle of waiting tasks is the one `test_connection` closes |
| `s7_progress` | 1 PLC, a reader, the check, an update, 3 connections | `CallsReturn`, `BrokenLeavesPool` | calls return and broken connections leave the pool, unless a removal hangs |
| `s7_failed_check` | the same | `FailedCheckEvicts` (violated) | the removal `README.md` promises after a failed check can wait for ever: lock order of 94-96 against 179-189 |
| `plcinfo` | heartbeat and stream handler, the report loop, the loader; two configurations that differ in every part and one without PLCs | `TypeOK`, `RecordedIsApplied`, `StoreSpec`, `Heals`, `AlwaysAnswers` | when no handler is updating, record and parts are of the configurations whose updates overlapped last, but for stations that came back and definitions that were loaded; all writers together implement `ConfigStore`; whatever they have made of the parts, the next configuration that differs from the record comes into force; a heartbeat's command is always answered |
| `plcinfo_two_handlers` | heartbeat and stream handler | `Converges` (violated) | two handlers can leave the parts with an older configuration for ever, the newer one being recorded as applied |
| `cloud` | heartbeat with answers and reConnects, stream with reConnects, one sending loop, watcher, three random numbers | `TypeOK`, `NeverTwice`, `HeartbeatsGoOn`, `SendsReturn`, `LateStartRegisters`, `ReconnectRegisters` | nobody waits for its own guard, everything goes on, the edge registers late; after a reConnect on the stream, and none with a heartbeat after it, the server ends with the number the edge signs with |
| `monitors` | a monitor that is moved to another block and back, or one that posts | `TypeOK`, `CachedWasSent`, `CloudFollows`, `LocalFollows` | what the cache holds back the cloud has; a value that stays reaches the cloud, and the local address although posts overtake each other |
| `monitor_decodes` | a monitor with type and local address | `RunsForEver` (violated) | decoding its first value ends the loop of all monitors |
| `reports` | a station that is moved to another status block and back | `TypeOK`, `CachedWasTold`, `StatusFollows` | every cached status was told; a status that stays is what the cloud sees in the end |
| `conversions` | three days of each month of 2000-2099 and some that are none; every pair of 42 fields at 11 pairs of places, deployed whole or in slices, one refused by the PLC | `DateExact`, `RoundTrip`, `NothingWrong`, `OthersStay`, `SchemasAgree` | dates are those of the calendar; what has its bytes in a block is seen by a monitor after a deployment; nothing reaches a neighbouring field or the rest of the PLC's block; the two encoders agree on the types both know by one name |
| `lifecycle` | one handler, the report loop and a loop with an interval at three sites: one exchanges stations and monitors, one brings two definitions, one sends intervals of 0, 1, 2; any number of starts, crashes and full disks | `TypeOK`, `SavedSurvive`, `OnlyFilesEndLoops`, `StartsWithoutMonitors`, `FilesFollow`, `IntervalsFollow` | the definitions of the last whole file are in memory in every later session whose loader finds it whole and is not overtaken by the thread that writes it; half a file keeps nobody from starting; files come to say what the stores do; no command ends a loop, and a loop comes to run with the interval last sent |
| `lifecycle_start` | the site with monitors | `StartsUp` (violated) | with a whole file of monitors every start panics |

The properties are stated and explained at the end of their modules.  The four
properties marked violated quote what the repository says of the program;
`PROJECT.json` has the quotations under `findings`.  Operators called mutants
in the modules are plausible defects: with one in the place of its original
the property it is made for fails, which shows that the runs reach it.

### What the models show of the code beside the findings

Some passing properties are what is left of a stronger one that the code does not
have.  Each says with its hypothesis which behaviour stands between the two; all
of these behaviours are steps of the models and happen in the runs.

* A station that `update_fill_stations` removes while the report loop reads its PLC
  is put back (`cache.rs` 223) and stays, since every later equal command is passed
  over; `cache.rs` 164 says "Remove stations no longer in config".
  `RecordedIsApplied`, `StoreSpec` and `Heals` allow for such stations and no others.
* The loader of the definitions runs in a thread and replaces the whole map
  (`deploy.rs` 167), also when the first command has saved newer ones, which then
  do not come back; `deploy.rs` 150 calls it "blocking, called on startup".
  `RecordedIsApplied` and `StoreSpec` allow for the definitions of one load.
* A reConnect in a heartbeat's answer replaces the random number, and nobody
  registers with it: `send_heartbeat` ignores the result (`cloud.rs` 336), where the
  comments at 472 and 490 say that the caller registers again.
  `ReconnectRegisters` therefore speaks of a reConnect on a stream with none on a
  heartbeat after it.
* A crash while a file is rewritten in place leaves half of it (`deploy.rs` 204), and
  the next session has none of the definitions that had been saved, although they
  are persisted "every 60 seconds" (95) and loaded "on startup" (113).
  `SavedSurvive` excludes this session by `intact`.
* A whole file of monitors makes every start panic: `StartsUp` is violated, and
  `StartsWithoutMonitors` is what holds.
* A text shorter than its field's size, which `data_block.rs` 144 calls a maximum,
  makes the slice at `deploy.rs` 339 panic (and so does `data_block.rs` 237).
  `RoundTrip` is stated for fields whose values fill them.
* No report is ever recorded, because the first of a station has no predecessor
  (`cache.rs` 302 against the comment at 301): this is a theorem,
  `NoReportIsEverSent`.

Further places where the text and the code differ are found in `context.rs`:
comments call the local files `id` and `serverConf`, the code reads `id.key` and
`server.conf`, and `test_context_serde` parses a key `id.key` where the structure
requires `id`.

`CHECK_DEADLOCK FALSE` stands where the program really may stop: after Ctrl-C,
in the hang of `s7_failed_check`'s kind, when a panic has ended the monitor loop,
when a conversion is done, and in `CloudSession`, whose tasks may all be waiting
for a stream.

### Bounds

* `S7Manager`: one PLC has all the contention, because keys only meet in the
  pool's lock, which every call on the one PLC takes too; two PLCs with a check
  and an update exceed TLC's reach, and that requests stay with their PLC is
  proved instead.  One task per kind of call, since every kind of step of two
  callers is one of a caller and a check, which call the same `connect`;
  the theorems cover any number.  Connections: one in the pool, one per task
  that can hold an old one, and one to dial; a task that found none free would
  only wait, and none is ever needed beyond these.
* `PlcInfo`: two elements of everything but one station id, which has two
  addresses, so that a station is replaced by another of its id; nothing relates
  stations of different ids.  `AllDetails` has an empty and a full configuration of
  each kind, since `parse` and the updates only distinguish empty from not empty
  and old from new.  `WithReport` is the station that the second configuration
  replaces, `Stored` one file with a definition that a command brings as well, or
  none.  The run of `Converges` leaves out what does not matter to it: the
  configuration without PLCs, the report loop and the loader.  The handlers are the
  heartbeat's and one stream's: `main.rs` keeps no more than these busy but for a
  reConnect, and the theorems are about any number.
* `CloudSession`: three random numbers, so that a number which returns is not the
  only way for a wrong one to become right again.
  `MaxAnswers` = 2 bounds the answers of one command: a first and a last one.
  One sending loop stands for three with the same code.
* `MonitorProcessor`, `ReportCache`: one id with two blocks, to be moved, and two
  values.  Nothing in the code relates different ids except the order in which
  a pass visits them and the one message a status pass sends for all.
  `ReportId` is a single value: ids are times and need not differ.
  `ReportCount` = 2.  `MaxPosts` = 2 equal posts on their way, so that posts of two
  values, two each, overtake each other in every order; the loop waits for one
  to end where the code would start a third, and by then an older post has
  nothing left to overtake.  A monitor that is moved and one that posts are two
  choices of the initial state (`SomeConfigs`).
* `Lifecycle`: the definitions share no step with the stations and monitors but the
  command that updates them, and the loops nothing but the process, so a *site*
  (chosen in the initial state) sends one of these and leaves the rest empty.  Two
  configurations each: of the definitions each brings one; a station is replaced by
  another, which the report loop may bring back, and monitors are there in one of
  them.  One handler: two exceed TLC's reach in this run, and `SavedSurvive` is a
  theorem for any number of them.  One of the three loops, which share their code;
  intervals 0, 1 and 2: none, one and another.  The local files of a site give an
  interval of 0 or 1, or do not load.
  No bound on the number of starts and crashes.
* `Conversions`: `Base` = 4 is the least even base in which a string has a
  character and its default size (`Base`, 256 in the code) holds it.  Blocks of
  12 bytes, in a PLC's block of 14, take two of the longest fields, and one of 15
  bytes is more than the PLC takes (`Accepted` excludes it from the claims, since
  `deploy` then fails and the block stays as it was); the places of
  the two are apart, overlapping, over the end of the block and beyond it, in
  either order; the slices that are deployed and watched begin and end at, in
  and beyond the fields; one monitor's size is not addressable by the 16 bits of
  an address (`Addressable` excludes it, `Watched` narrows it).  Each
  type has values at both ends of its range and one step beyond where that is
  possible; one array has the count 0, of which neither encoder nor decoder
  touches a byte.  A `date` stands for the types that only one of the two tables knows.
* `Conn` in `S7Manager` is a symmetry set in `s7_safety` only, which has no
  temporal property.

### Fairness

Weak fairness of a task's own steps says that tokio polls a task whose await
has completed and that network calls end: the S7 library and gRPC are given
time limits by neither this code nor the model, so the liveness results say
what holds as long as no call hangs.  Weak fairness of `Admit*` is the fair
queue of the lock.  The ticks of `tokio::time::interval` give weak fairness to
the heartbeat, the watcher and the periodic check.  Nothing is assumed of
callers, of updates, of the stream or of the operator; `Network` and `Break`
are unfair.  Strong fairness appears in `MonitorProcessor` for the PLC and the
cloud only (a PLC that is asked again and again answers in the end, a message
that is sent again and again gets through, a local address that is posted to again
and again hears a post, which says too that no post is on its way for ever), and
where an update and the loop compete for fair locks that the module does not
spell out.  In `Lifecycle`, `main`, the loader and the loops go on once they have
begun, a thread's 60 s pass, and a handler takes the next command and goes on with
the one it has; a write that is begun again and again ends well at some
time, so that the disk is not full for ever.  Nothing makes anyone start, stop
or kill the program.

## 4. What is proved

All theorems hold for any values of the constants that satisfy the modules'
named assumptions (disjoint sets of tasks, special values outside the sets they
are special to).

**`FairRwLockProofs`** has the lemmas about locks: what `Ask`, `Drop` and `Admit`
do to a lock's type, to who holds and who waits and for which mode, and that a
*sound* lock (a holder does not wait, a writer is alone, a task has one
request) stays sound when a task without a request asks.  The other modules
cite them without expanding a lock.

**`S7ManagerProofs`.**  `OneUserPerSession` and `HangNeedsEvict` are not inductive:
that two tasks do not hold a connection for writing depends on no task asking
twice, and this on where each task is when it asks.  `LockDiscipline` says, for
each lock, at which `pc` a task may hold or await it and in which mode, that a
task at a label that uses a connection has one, and that all locks are sound.

* `LockDisciplineHolds`: it is an invariant, proved lock by lock and action by
  action (`PoolUseStep`, `ListUseStep`, `ConnUseStep`, `SoundPoolStep`, ...).
* `TypeCorrect`: `TypeOK`.
* `OneUser`: two users of a connection would both hold its lock for writing.
* `OnlyEvictHangs`: in a circle without an eviction nobody waits for a
  connection, whose holders are all in I/O or in `probe`; hence nobody waits for
  the pool; hence nobody waits for the list.  So the lock order of every
  operation except `test_connection`'s removal is sound for any number of tasks.
* `RequestsReachTheirPlc`: a request is made on a connection to the PLC it is
  addressed to, with the invariant `PeersMatch` (the pool and the variables of
  tasks agree with what connections were made for).

**`PlcInfoProofs`.**

* `PlcInfoTypes`: `TypeOK`, with the types of what the structures make of a
  configuration.
* `RecordedApplied`: `RecordedIsApplied`, for any number of handlers, passes of the
  report loop at any time and the loader.  `PartsInv`, the inductive
  invariant, says that a handler between its record and its last update has its
  configuration in `episode`, and that each part says what one of the
  configurations of the episode does, with `putBack` and `replaced`, or none says
  anything of it, or a handler has yet to come to it with one that does.
* `ImplementsStore`: for the same, every step is a step of `ConfigStore` or leaves
  its variables alone (`StoreSpec`, which has no fairness).  That an episode ends
  `Settled` is `PartsInv` again.

**`CloudSessionProofs`.**

* `SessionTypes`: `TypeOK`.
* `NobodyWaitsForItself`: `NeverTwice`, from `ClientDisciplineHolds`: only the
  labels between asking and dropping have a request on the client, and handling
  a command is not one of them.

**`LifecycleProofs`.**

* `LifecycleTypes`: `TypeOK`, with what a process leaves behind: nothing but its
  files, and of a file that is being written a torn one.
* `SavedDefinitionsSurvive`: `SavedSurvive`, for any number of handlers, commands in
  progress at a crash, full disks and report passes.  It is not inductive, since what
  a thread is about to write, and what the loader is about to store, must not fall
  short of what was saved.  `SavedInv` says so of every stage of the loader: a whole file is
  the last whole file there was, the loader carries what was in it, and once it has
  stored, memory has every definition that the thread is writing, and names only ever
  join it (`NamesGrow`).
* `OnlyFiles`: `OnlyFilesEndLoops`, from `IntervalInv`: an interval is 0 only if the
  local file's is, and so is every copy of it a loop has taken.

**`MonitorProcessorProofs`.**

* `MonitorTypes`: `TypeOK`, with the fact that only monitors the cloud has sent are
  read, by which a monitor's block has contents.
* `CachedSent`: `CachedWasSent`, which speaks of the time between passes only.
  `SentInv` speaks of all the time: what is cached under an id is what the last
  message about it says that still waits (`Saying`), or none waits (`Silent`) and
  the cloud has seen it or lost it.  A push makes the first true of its id
  (`SayMore`), a delivery moves from the first to the second (`SayLess`), and the
  removal of a state in between only makes the claim weaker.

**`ReportCacheProofs`.**

* `CachedTold`: `CachedWasTold`, along the same lines for the list of a status
  pass, of which the server takes the last entry about an id (`LastEntry`).
* `NoReportIsEverSent`: no report is ever taken up, sent or got, although
  `cache.rs` 301 provides for a first one: `NoReports` says that every list of reports is
  empty, which the first report of a station would have to change and cannot.
* `Types`: `TypeOK`, for which the same is needed: the lists of reports are filtered
  with `SelectSeq`, of which the library says nothing, but they are empty.

**`ConversionsProofs`.**  The loops of `encode`, `calculate_size` and
`days_since_epoch` are recursive functions in the modules.  The prover has no
usable induction rule, so a loop is proved by the least number of rounds after
which a claim would be wrong: `LeastNumber`, from the well-foundedness of `<`, and
`Rounds`, which makes it a rule for sets of numbers.  `ItemRunExists`,
`FieldRunExists` and `RunExists` show by it that the functions which the recursive
definitions choose exist; `FieldIsRun`, `EncodeIsRun` and their counterparts for
`DataBlock` are the equations of the rounds, and no proof after them looks at a
definition of a loop.  Assumed are the types of the objects: natural offsets and
sizes, types the tables know or do not know, values of the type of their field
(`ValueOf`: what JSON can hold and `as_i64`, `as_u64` and the parsers give), whose
encoding is a sequence of bytes or an error; and that `Panic` is no sequence of
bytes and `Err` no value (`NoBytes`).  Names, numbers of fields, bases and blocks are
arbitrary.

* `ConvInvHolds`: each variable is what the operators make of those before it.
* `OthersStayHolds`: `OthersStay`.  `DeployedBytes` and `WatchedBytes` say which byte
  of the PLC's block is which byte of the object and of the monitor's block,
  `SameField` that a field depends on the bytes of its place only, arrays and
  cuts at the block's end included, and `MapOf` that a field whose name is its own
  is found in the map.  Offsets are narrowed to 16 bits, so that `Addressable` is
  needed: beyond it a deployment does write elsewhere.
* `DateIsExact`: `DateExact`, for every sequence of bytes, those that are no
  decimal digits included.  `LeapYears` sums the years by induction and
  `MonthTable` the months, and `DaysAreCivil` compares the sum with a formula that
  counts years from March.
* `SchemasAlwaysAgree`: `SchemasAgree`.  `EncodeByte` and `SchemaEncodeByte` say of each
  encoder what it leaves in a byte of a field that no other overlaps, by the
  round after which the field has been written; `TablesAgree` compares the sizes of
  the types in `Shared`, outside of which the claim says nothing (arrays, `date`,
  `char`, `intAsBigDecimal`, `longAsInt`, `longAsDateTime`, the aliases).
* `RoundTripHolds`: `RoundTrip`, and `NothingWrongHolds`: `NothingWrong`.  Both rest on
  four steps.  (1) Each codec reads back what it wrote, and nothing of fewer bytes
  (`ReadsBack`, `ReadsValue`).  For numbers this is
  arithmetic over the recursive `Pow`: `FromBigEndianIs` recovers a number modulo
  `Pow[width]` from its bytes by induction over the width, and `SignedMod` moves it
  into the signed range.  (2) `EncodeItems` says what `encode` leaves in the bytes of
  each value of an array whose field nothing else overlaps, values that are cut,
  absent or refused by their codec included; `NoBytesIsZero` says that the zeros in
  the place of a refused value are read as it is to be read.  (3) `ItemsLie` carries these
  bytes through the deployed slice, the PLC's block and the padding of the
  monitor (`DeployedBytes`, `WatchedBytes`).  (4) `ItemOutcome` puts them together for
  one value, wherever the block ends.  `RoundTrip` has then only to see that
  nothing is cut; `NothingWrong` needs in addition that what is cut is a tail of the
  array (`CutsTheRest`, `BeginsAfter`), so that skipping it leaves a prefix
  (`NumberPrefix`, `ReadableIs`).

What the two claims exclude, and why, was found by trying to prove them.  Nothing
that was deployed can be read where the PLC refuses the write (`Accepted`).  A
`datetime` keeps two digits of its year, and a moment before 1970 with a fraction
of a second has no text (`Dated`): such a value is missing from what is read, which
`NothingWrong` allows, or, for a `datetime`, read in another century.  A number above
the range of `i64` in a signed field is written as 0 by `as_i64().unwrap_or(0)`, which
`InRange` says too.

## 5. What is left to TLC

Everything that needs fairness (`CallsReturn`, `BrokenLeavesPool`,
`HeartbeatsGoOn`, `SendsReturn`, `LateStartRegisters`, `ReconnectRegisters`,
`Heals`, `AlwaysAnswers`, `CloudFollows`, `LocalFollows`, `StatusFollows`,
`StartsWithoutMonitors`, `FilesFollow`, `IntervalsFollow`): the prover has no rule
for liveness under fairness or for ENABLED.

All invariants of the passing runs are theorems as well.
What is missing from them is stated with them: `wstring`, whose decoder does not
read what its encoder writes, and arrays of anything but numbers in `NothingWrong`,
of which a value in the middle may be skipped.

## 6. What is not modelled

* Time.  Intervals tick, time limits elapse at any time.  That a round of 3 s
  dials stays below the server's 60 s is a matter of numbers the model lacks.
* Hanging network calls: see Fairness.
* The contents of blocks, except whether they changed, outside `Conversions`.
* Floating-point numbers and decimals, which TLC cannot compute with, and texts
  in the place of numbers.
* What a read or write command answers, signatures, the numbers in a report:
  data that is passed on and never looked at again.
* The PLC status task (`main.rs` 180-218) as a whole: its checks are
  `check_all_connections` of `S7Manager`, its messages those of a `Sender` of
  `CloudSession`; that every status is handed to a task of its own, so that two
  of them may overtake each other until the next check, is in neither.
* Callbacks that ask for a deployment (`monitor.rs` 460-530): they find their PLC
  and end in `encode`, whose lookup panics inside the runtime.
* The addresses and texts of the local configuration, HTTP routing, the UDP
  logger, the unused command processors and the map of deployments that `http.rs`
  keeps: no state that others depend on.

## 7. Plan

In this order:

1. That the connections of `S7Manager` suffice: with one more than the tasks can
   hold, one is always `Unreferenced`.
2. A composition of `PlcInfo` with the statuses of `ReportCache`: what a station that
   came back does to `StatusFollows`, which is stated for a station that is the
   only one of its id.
