----------------------------- MODULE ReportCache -----------------------------
(***************************************************************************)
(* Reports and statuses of the fill stations (src/src/report/cache.rs):    *)
(*   - the report loop reads every station's report block, keeps what is   *)
(*     new in a list per station, and sends what the server has not        *)
(*     acknowledged;                                                       *)
(*   - the status loop reads every station's status block and sends what   *)
(*     changed, or was last sent more than 30 s ago, as one message;       *)
(*   - plcInfo handlers exchange the stations, ReportSubmitted marks a     *)
(*     report as sent, a status command is answered from the cache.        *)
(* No lock is held while a PLC is read or a message is sent.  A pass works *)
(* on a copy of the stations.                                              *)
(***************************************************************************)
EXTENDS Naturals, Sequences, SequencesExt

CONSTANTS
    Id,
    StatusDb,       \* blocks with a status
    ReportDb,       \* blocks with a report
    NoDb,           \* index 0: there is none to read
    Station,        \* FillStation values: [id, statusDb, reportDb]
    Configs,        \* sets of stations the cloud sends
    Value,          \* contents of a status block
    Data,           \* contents of a report block: [raw, task, start, end]
    NoTime,         \* `start` of data without a valid time after 1999
    ReportId,       \* now_millis() when a report is made; not unique
    ReportCount,    \* report_count of the stations
    NoValue, Absent

ASSUME StationRecords ==
    Station \subseteq [id : Id, statusDb : StatusDb \cup {NoDb}, reportDb : ReportDb \cup {NoDb}]

ASSUME NoDbIsNone == NoDb \notin StatusDb \cup ReportDb

ASSUME StationConfigs == Configs \subseteq (SUBSET Station) \ {{}}

ASSUME ReportCountAssumption == ReportCount \in Nat

ASSUME NoValueIsNoStatus == NoValue \notin Value

VARIABLES
    status, report,     \* contents of the PLCs' blocks
    caches,             \* ReportCache.caches: list of reports, or Absent
    rpc, rtodo,         \* report loop: idle, read, send; stations left
    outbox,             \* its messages
    arrived,            \* reports the cloud got
    statusCache,        \* ReportCache.status_cache
    sendDue,            \* 30 s have passed since last_status_sent_time, or None
    spc, stodo,         \* status loop: idle, read, send; stations left
    changed,            \* its changed_list
    answer,             \* a status command being answered, or Absent
    told,               \* last status of an id the status loop got through
    seen,               \* last status of an id the cloud got from anyone
    lost                \* the status loop's last message about it got lost

plc     == <<status, report>>
reports == <<rpc, rtodo, outbox, arrived>>
cached  == <<statusCache, sendDue>>
loop    == <<spc, stodo, changed>>
cloud   == <<told, seen, lost>>
vars    == <<plc, caches, reports, cached, loop, answer, cloud>>

Keys == {s \in Station : caches[s] # Absent}

Init ==
    /\ status \in [StatusDb -> Value] /\ report \in [ReportDb -> Data]
    /\ caches = [s \in Station |-> Absent]
    /\ rpc = "idle" /\ rtodo = {} /\ outbox = {} /\ arrived = {}
    /\ statusCache = [i \in Id |-> NoValue] /\ sendDue = [i \in Id |-> TRUE]
    /\ spc = "idle" /\ stodo = {} /\ changed = <<>>
    /\ answer = Absent
    /\ told = [i \in Id |-> NoValue] /\ seen = told
    /\ lost = [i \in Id |-> FALSE]

\* update_fill_stations: stations that stay keep their reports.
UpdateStations(new) ==
    /\ caches' = [s \in Station |-> IF s \notin new THEN Absent
                                    ELSE IF s \in Keys THEN caches[s] ELSE <<>>]
    /\ UNCHANGED <<plc, reports, cached, loop, answer, cloud>>

-----------------------------------------------------------------------------
(* The report loop                                                          *)

ReportPass ==
    /\ rpc = "idle"
    /\ rpc' = "read" /\ rtodo' = {s \in Keys : s.reportDb # NoDb}
    /\ UNCHANGED <<plc, caches, outbox, arrived, cached, loop, answer, cloud>>

\* handle_new_report_read, with the list's last report or none.  Without one
\* `last_report?` returns None.
IsNew(list, d) ==
    /\ d.start # NoTime
    /\ list # <<>>
    /\ d.raw # Last(list).raw
    /\ IF d.task > 0 THEN d.task # Last(list).task
                     ELSE <<d.start, d.end>> # <<Last(list).start, Last(list).end>>

Report(s, d, now) ==
    [id |-> now, station |-> s.id, raw |-> d.raw, task |-> d.task,
     start |-> d.start, end |-> d.end, sent |-> FALSE]

Unsent(r) == ~r.sent

\* read_report: a new report is appended, the oldest one leaves a full list
\* and reports that are sent leave any; other data replaces the content of
\* the last report.
AfterRead(list, s, d, now) ==
    IF IsNew(list, d)
    THEN LET kept == IF Len(list) >= ReportCount /\ list # <<>> THEN Tail(list) ELSE list
         IN  Append(SelectSeq(kept, Unsent), Report(s, d, now))
    ELSE IF list # <<>> /\ ~Last(list).sent /\ d.raw # Last(list).raw
    THEN [list EXCEPT ![Len(list)].raw = d.raw]
    ELSE list

\* The station's entry is made when it is missing.
ReadReport(s) ==
    /\ rpc = "read" /\ s \in rtodo
    /\ rtodo' = rtodo \ {s}
    /\ \E now \in ReportId :
          LET list == IF s \in Keys THEN caches[s] ELSE <<>>
          IN  caches' = [caches EXCEPT ![s] = AfterRead(list, s, report[s.reportDb], now)]
    /\ UNCHANGED <<plc, rpc, outbox, arrived, cached, loop, answer, cloud>>

ReadReportFail(s) ==
    /\ rpc = "read" /\ s \in rtodo
    /\ rtodo' = rtodo \ {s}
    /\ UNCHANGED <<plc, caches, rpc, outbox, arrived, cached, loop, answer, cloud>>

Collect ==
    /\ rpc = "read" /\ rtodo = {}
    /\ outbox' = UNION {{r \in Range(caches[s]) : Unsent(r)} : s \in Keys}
    /\ rpc' = "send"
    /\ UNCHANGED <<plc, caches, rtodo, arrived, cached, loop, answer, cloud>>

\* start_report_loop sends them one after the other; any may get lost.
SendReports ==
    /\ rpc = "send"
    /\ \E got \in SUBSET outbox : arrived' = arrived \cup got
    /\ outbox' = {} /\ rpc' = "idle"
    /\ UNCHANGED <<plc, caches, rtodo, cached, loop, answer, cloud>>

\* delete_report, for ReportSubmitted.
Submitted(id) ==
    /\ caches' = [s \in Station |->
          IF s \notin Keys THEN Absent
          ELSE [i \in DOMAIN caches[s] |->
                   [caches[s][i] EXCEPT !.sent = @ \/ caches[s][i].id = id]]]
    /\ UNCHANGED <<plc, reports, cached, loop, answer, cloud>>

-----------------------------------------------------------------------------
(* The status loop                                                          *)

StatusPass ==
    /\ spc = "idle"
    /\ spc' = "read" /\ stodo' = {s \in Keys : s.statusDb # NoDb}
    /\ UNCHANGED <<plc, caches, reports, cached, changed, answer, cloud>>

\* Mutant: a station's first status is cached and not sent.
ReadStatusSkipsFirst(s) ==
    /\ spc = "read" /\ s \in stodo
    /\ stodo' = stodo \ {s}
    /\ statusCache' = [statusCache EXCEPT ![s.id] = status[s.statusDb]]
    /\ IF statusCache[s.id] # NoValue /\ (statusCache[s.id] # status[s.statusDb] \/ sendDue[s.id])
       THEN /\ sendDue' = [sendDue EXCEPT ![s.id] = FALSE]
            /\ changed' = Append(changed, [id |-> s.id, value |-> status[s.statusDb]])
       ELSE UNCHANGED <<sendDue, changed>>
    /\ UNCHANGED <<plc, caches, reports, spc, answer, cloud>>

\* Mutant: last_status_sent_time is set by every read.
ReadStatusRenews(s) ==
    /\ spc = "read" /\ s \in stodo
    /\ stodo' = stodo \ {s}
    /\ statusCache' = [statusCache EXCEPT ![s.id] = status[s.statusDb]]
    /\ sendDue' = [sendDue EXCEPT ![s.id] = FALSE]
    /\ changed' = IF statusCache[s.id] # status[s.statusDb]
                  THEN Append(changed, [id |-> s.id, value |-> status[s.statusDb]])
                  ELSE changed
    /\ UNCHANGED <<plc, caches, reports, spc, answer, cloud>>

\* The status is cached; a changed one, or one that is due, is listed.
ReadStatus(s) ==
    /\ spc = "read" /\ s \in stodo
    /\ stodo' = stodo \ {s}
    /\ statusCache' = [statusCache EXCEPT ![s.id] = status[s.statusDb]]
    /\ IF statusCache[s.id] # status[s.statusDb] \/ sendDue[s.id]
       THEN /\ sendDue' = [sendDue EXCEPT ![s.id] = FALSE]
            /\ changed' = Append(changed, [id |-> s.id, value |-> status[s.statusDb]])
       ELSE UNCHANGED <<sendDue, changed>>
    /\ UNCHANGED <<plc, caches, reports, spc, answer, cloud>>

ReadStatusFail(s) ==
    /\ spc = "read" /\ s \in stodo
    /\ stodo' = stodo \ {s}
    /\ UNCHANGED <<plc, caches, reports, cached, spc, changed, answer, cloud>>

\* Mutant: the pass ends with stations left.
EndStatusEarly ==
    /\ spc = "read"
    /\ spc' = IF changed = <<>> THEN "idle" ELSE "send"
    /\ UNCHANGED <<plc, caches, reports, cached, stodo, changed, answer, cloud>>

\* An empty list is not sent.
EndStatus ==
    /\ spc = "read" /\ stodo = {}
    /\ spc' = IF changed = <<>> THEN "idle" ELSE "send"
    /\ UNCHANGED <<plc, caches, reports, cached, stodo, changed, answer, cloud>>

About(i) == {n \in DOMAIN changed : changed[n].id = i}

\* The server's map with the message put in, later entries over earlier ones.
WithChanged(map) ==
    [i \in Id |-> IF About(i) = {} THEN map[i] ELSE changed[Max(About(i))].value]

\* The message gets through, or it does not and nobody is told.
SendStatus(through) ==
    /\ spc = "send"
    /\ told' = IF through THEN WithChanged(told) ELSE told
    /\ seen' = IF through THEN WithChanged(seen) ELSE seen
    /\ lost' = [i \in Id |-> IF About(i) = {} THEN lost[i] ELSE ~through]
    /\ spc' = "idle" /\ changed' = <<>>
    /\ UNCHANGED <<plc, caches, reports, cached, stodo, answer>>

-----------------------------------------------------------------------------
(* The status command                                                       *)

\* get_all_statuses; the answer then waits for the client.
StatusCommand ==
    /\ answer = Absent
    /\ answer' = statusCache
    /\ UNCHANGED <<plc, caches, reports, cached, loop, cloud>>

\* Statuses the cache has nothing of are not in the answer.
SendAnswer ==
    /\ answer # Absent
    /\ seen' = [i \in Id |-> IF answer[i] = NoValue THEN seen[i] ELSE answer[i]]
    /\ answer' = Absent
    /\ UNCHANGED <<plc, caches, reports, cached, loop, told, lost>>

LoseAnswer ==
    /\ answer # Absent
    /\ answer' = Absent
    /\ UNCHANGED <<plc, caches, reports, cached, loop, cloud>>

-----------------------------------------------------------------------------
(* The environment                                                          *)

ChangeStatus(b, v) ==
    /\ status[b] # v
    /\ status' = [status EXCEPT ![b] = v]
    /\ UNCHANGED <<report, caches, reports, cached, loop, answer, cloud>>

ChangeReport(b, d) ==
    /\ report[b] # d
    /\ report' = [report EXCEPT ![b] = d]
    /\ UNCHANGED <<status, caches, reports, cached, loop, answer, cloud>>

\* More than 30 s have passed since the status was sent.
Elapse(i) ==
    /\ ~sendDue[i]
    /\ sendDue' = [sendDue EXCEPT ![i] = TRUE]
    /\ UNCHANGED <<plc, caches, reports, statusCache, loop, answer, cloud>>

ReportLoop ==
    \/ ReportPass \/ Collect \/ SendReports
    \/ \E s \in Station : ReadReport(s) \/ ReadReportFail(s)

StatusLoop ==
    \/ StatusPass \/ EndStatus \/ \E through \in BOOLEAN : SendStatus(through)
    \/ \E s \in Station : ReadStatus(s) \/ ReadStatusFail(s)

Next ==
    \/ \E new \in Configs : UpdateStations(new)
    \/ ReportLoop \/ StatusLoop
    \/ \E id \in ReportId : Submitted(id)
    \/ StatusCommand \/ SendAnswer \/ LoseAnswer
    \/ \E b \in StatusDb, v \in Value : ChangeStatus(b, v)
    \/ \E b \in ReportDb, d \in Data : ChangeReport(b, d)
    \/ \E i \in Id : Elapse(i)

Spec == Init /\ [][Next]_vars

\* The interval of a loop ticks, reads and sends end, time passes; a PLC that
\* is read again and again answers, and a message about a station that is sent
\* again and again gets through.
FairStatus ==
    /\ Spec
    /\ WF_vars(StatusLoop) /\ WF_vars(SendAnswer \/ LoseAnswer)
    /\ \A i \in Id : WF_vars(Elapse(i))
    /\ \A s \in Station : SF_vars(ReadStatus(s))
    /\ \A i \in Id : SF_vars(SendStatus(TRUE) /\ About(i) # {})

-----------------------------------------------------------------------------
(* Properties                                                               *)

\* Types of the variables; between passes a loop has nothing left to do.
TypeOK ==
    /\ status \in [StatusDb -> Value] /\ report \in [ReportDb -> Data]
    /\ \A s \in Keys : \A i \in DOMAIN caches[s] : caches[s][i].sent \in BOOLEAN
    /\ rpc \in {"idle", "read", "send"} /\ rtodo \in SUBSET Station
    /\ rpc # "read" => rtodo = {}
    /\ rpc # "send" => outbox = {}
    /\ statusCache \in [Id -> Value \cup {NoValue}] /\ sendDue \in [Id -> BOOLEAN]
    /\ spc \in {"idle", "read", "send"} /\ stodo \in SUBSET Station
    /\ spc # "read" => stodo = {}
    /\ spc = "idle" <=> stodo = {} /\ changed = <<>> /\ spc # "read"
    /\ answer \in {Absent} \cup [Id -> Value \cup {NoValue}]
    /\ told \in [Id -> Value \cup {NoValue}] /\ seen \in [Id -> Value \cup {NoValue}]
    /\ lost \in [Id -> BOOLEAN]

\* A cached status keeps an equal one from being sent for 30 s, so the cloud
\* must have it: between passes the status loop has told exactly what is
\* cached of every station, unless its last message about it was lost.
CachedWasTold ==
    \A i \in Id :
        spc = "idle" /\ statusCache[i] # NoValue /\ ~lost[i] => told[i] = statusCache[i]

\* A status that stays the same comes to be what the cloud sees, although
\* messages are lost and answers to the status command arrive late, with
\* statuses that are older than those the loop has sent since.  The station is
\* the only one of its id then: read_report can bring back one that was moved.
StatusFollows ==
    \A s \in Station, v \in Value :
        s.statusDb # NoDb /\ <>[](status[s.statusDb] = v /\ {o \in Keys : o.id = s.id} = {s})
            => <>[](seen[s.id] = v)
=============================================================================
