--------------------------- MODULE ReportCacheProofs ---------------------------
(***************************************************************************)
(* Theorems about ReportCache, for every set of stations, several of one   *)
(* id included: what the cache keeps from the cloud the status loop has    *)
(* told it, no report ever leaves the report loop, and types.              *)
(***************************************************************************)
EXTENDS ReportCache, SequenceTheorems, WellFoundedInduction, TLAPS

Entry == [id : Id, value : Value]

\* The types of what the status loop uses.
LoopTypes ==
    /\ status \in [StatusDb -> Value]
    /\ statusCache \in [Id -> Value \cup {NoValue}]
    /\ spc \in {"idle", "read", "send"}
    /\ stodo \subseteq {s \in Station : s.statusDb # NoDb}
    /\ changed \in Seq(Entry)
    /\ spc = "idle" => changed = <<>>

\* The last entry of the list about id i has value v.
Lists(list, i, v) ==
    \E k \in 1..Len(list) : /\ list[k].id = i /\ list[k].value = v
                            /\ \A l \in 1..Len(list) : list[l].id = i => l <= k

Omits(list, i) == \A k \in 1..Len(list) : list[k].id # i

\* What is cached of an id is listed last; or nothing about it is listed, and
\* the cloud was told unless that was lost.
Known(i) ==
    statusCache[i] # NoValue =>
        \/ Lists(changed, i, statusCache[i])
        \/ Omits(changed, i) /\ (~lost[i] => told[i] = statusCache[i])

\* CachedWasTold with what makes it inductive.
ToldInv == LoopTypes /\ \A i \in Id : Known(i)

-----------------------------------------------------------------------------

\* One more entry.
LEMMA ListMore ==
    ASSUME NEW list \in Seq(Entry), NEW e \in Entry
    PROVE  /\ Lists(Append(list, e), e.id, e.value)
           /\ \A i \in Id \ {e.id}, v \in Value :
                 /\ Lists(list, i, v) => Lists(Append(list, e), i, v)
                 /\ Omits(list, i) => Omits(Append(list, e), i)
<1>. DEFINE r == Append(list, e)
<1>1. /\ Len(list) \in Nat /\ Len(r) = Len(list) + 1
      /\ \A k \in 1..Len(list) : r[k] = list[k]
      /\ r[Len(list) + 1] = e
  BY AppendProperties, LenProperties
<1>. HIDE DEF r
<1>2. Lists(r, e.id, e.value)
  <2>1. Len(r) \in 1..Len(r) /\ r[Len(r)] = e  BY <1>1
  <2>. QED  BY <1>1, <2>1 DEF Lists
<1>3. ASSUME NEW i \in Id \ {e.id}, NEW v \in Value, Lists(list, i, v)
      PROVE  Lists(r, i, v)
  <2>1. PICK k \in 1..Len(list) :
            /\ list[k].id = i /\ list[k].value = v
            /\ \A l \in 1..Len(list) : list[l].id = i => l <= k
    BY <1>3 DEF Lists
  <2>2. k \in 1..Len(r) /\ r[k] = list[k]  BY <1>1
  <2>3. ASSUME NEW l \in 1..Len(r), r[l].id = i  PROVE l <= k
    <3>1. l \in 1..Len(list)
      <4>1. l # Len(list) + 1  BY <1>1, <2>3
      <4>. QED  BY <1>1, <4>1
    <3>. QED  BY <1>1, <2>1, <2>3, <3>1
  <2>. QED  BY <2>1, <2>2, <2>3 DEF Lists
<1>4. ASSUME NEW i \in Id \ {e.id}, Omits(list, i)
      PROVE  Omits(r, i)
  <2>1. \A k \in 1..Len(r) : k \in 1..Len(list) \/ k = Len(list) + 1  BY <1>1
  <2>. QED  BY <1>1, <1>4, <2>1 DEF Omits
<1>. QED  BY <1>2, <1>3, <1>4 DEF r

\* The server takes the last entry about an id, or leaves what it has.
LEMMA LastEntry ==
    ASSUME LoopTypes, NEW i \in Id, NEW map
    PROVE  /\ Omits(changed, i) => About(i) = {} /\ WithChanged(map)[i] = map[i]
           /\ \A v \in Value : Lists(changed, i, v) =>
                 About(i) # {} /\ WithChanged(map)[i] = v
<1>1. DOMAIN changed = 1..Len(changed) /\ Len(changed) \in Nat
  BY LenProperties DEF LoopTypes
<1>2. ASSUME Omits(changed, i)
      PROVE  About(i) = {} /\ WithChanged(map)[i] = map[i]
  BY <1>1, <1>2 DEF Omits, About, WithChanged
<1>3. ASSUME NEW v \in Value, Lists(changed, i, v)
      PROVE  About(i) # {} /\ WithChanged(map)[i] = v
  <2>1. PICK k \in 1..Len(changed) :
            /\ changed[k].id = i /\ changed[k].value = v
            /\ \A l \in 1..Len(changed) : changed[l].id = i => l <= k
    BY <1>3 DEF Lists
  <2>2. /\ k \in About(i)
        /\ \A l \in About(i) : l \in Nat /\ k >= l
    BY <1>1, <2>1 DEF About
  <2>3. Max(About(i)) = k
    <3>1. \A x \in About(i) : (\A y \in About(i) : x >= y) => x = k
      BY <1>1, <2>2
    <3>. QED  BY <2>2, <3>1 DEF Max
  <2>. QED  BY <2>1, <2>2, <2>3 DEF WithChanged
<1>. QED  BY <1>2, <1>3

-----------------------------------------------------------------------------

LEMMA InitTold == Init => ToldInv
<1>. SUFFICES ASSUME Init PROVE ToldInv
  OBVIOUS
<1>1. changed = <<>> /\ changed \in Seq(Entry)  BY DEF Init
<1>. QED  BY <1>1 DEF Init, ToldInv, LoopTypes, Known

\* A status is read, cached and perhaps listed.
LEMMA ReadStep ==
    ASSUME ToldInv, NEW s \in Station, ReadStatus(s)
    PROVE  ToldInv'
<1>. DEFINE v == status[s.statusDb]
            e == [id |-> s.id, value |-> v]
<1>1. /\ s.id \in Id /\ s.statusDb \in StatusDb /\ spc = "read"
      /\ stodo' = stodo \ {s}
      /\ UNCHANGED <<status, spc, told, lost>>
      /\ statusCache' = [statusCache EXCEPT ![s.id] = v]
  BY StationRecords DEF ReadStatus, ToldInv, LoopTypes, plc, cloud
<1>2. v \in Value /\ e \in Entry /\ e.id = s.id /\ e.value = v
  BY <1>1 DEF ToldInv, LoopTypes, Entry
<1>. HIDE DEF v
<1>3. statusCache' \in [Id -> Value \cup {NoValue}]
  BY <1>1, <1>2 DEF ToldInv, LoopTypes
<1>4. \A i \in Id \ {s.id} : statusCache'[i] = statusCache[i]
  BY <1>1 DEF ToldInv, LoopTypes
<1>5. statusCache'[s.id] = v
  BY <1>1 DEF ToldInv, LoopTypes
<1>6. changed \in Seq(Entry)  BY DEF ToldInv, LoopTypes
<1>7. CASE changed' = Append(changed, e)
  <2>. HIDE DEF e
  <2>1. changed' \in Seq(Entry)  BY <1>2, <1>6, <1>7, AppendProperties
  <2>2. Known(s.id)'
    BY <1>2, <1>5, <1>6, <1>7, ListMore DEF Known
  <2>3. ASSUME NEW i \in Id \ {s.id}  PROVE Known(i)'
    <3>1. SUFFICES ASSUME statusCache[i] # NoValue  PROVE Known(i)'
      BY <1>4 DEF Known
    <3>2. statusCache[i] \in Value  BY <3>1 DEF ToldInv, LoopTypes
    <3>3. /\ Lists(changed, i, statusCache[i]) => Lists(changed', i, statusCache[i])
          /\ Omits(changed, i) => Omits(changed', i)
      BY <1>2, <1>6, <1>7, <3>2, ListMore
    <3>. QED  BY <1>1, <1>4, <3>1, <3>3 DEF Known, ToldInv
  <2>. QED  BY <1>1, <1>3, <2>1, <2>2, <2>3 DEF ToldInv, LoopTypes
<1>8. CASE changed' = changed /\ statusCache[s.id] = v
  <2>1. \A i \in Id : statusCache'[i] = statusCache[i]  BY <1>4, <1>5, <1>8
  <2>. QED  BY <1>1, <1>3, <1>8, <2>1 DEF ToldInv, LoopTypes, Known
<1>. QED  BY <1>7, <1>8 DEF ReadStatus, v, e

\* The list is sent, and told or lost as a whole.
LEMMA SendStep ==
    ASSUME ToldInv, NEW through \in BOOLEAN, SendStatus(through)
    PROVE  ToldInv'
<1>1. /\ spc' = "idle" /\ changed' = <<>> /\ changed' \in Seq(Entry)
      /\ UNCHANGED <<status, statusCache, stodo>>
      /\ told' = (IF through THEN WithChanged(told) ELSE told)
      /\ lost' = [i \in Id |-> IF About(i) = {} THEN lost[i] ELSE ~through]
  BY DEF SendStatus, plc, cached
<1>2. LoopTypes /\ \A i \in Id : Known(i)  BY DEF ToldInv
<1>3. \A i \in Id : Omits(changed', i)
  <2>1. 1..Len(changed') = {}  BY <1>1
  <2>. QED  BY <2>1 DEF Omits
<1>4. ASSUME NEW i \in Id, statusCache[i] # NoValue, ~lost'[i]
      PROVE  told'[i] = statusCache[i]
  <2>1. statusCache[i] \in Value /\ Known(i)  BY <1>2, <1>4 DEF LoopTypes
  <2>2. CASE Lists(changed, i, statusCache[i])
    <3>1. About(i) # {} /\ WithChanged(told)[i] = statusCache[i]
      BY <1>2, <2>1, <2>2, LastEntry
    <3>2. through  BY <1>1, <1>4, <3>1
    <3>. QED  BY <1>1, <3>1, <3>2
  <2>3. CASE Omits(changed, i) /\ (~lost[i] => told[i] = statusCache[i])
    <3>1. About(i) = {} /\ WithChanged(told)[i] = told[i]
      BY <1>2, <2>3, LastEntry
    <3>2. lost'[i] = lost[i]  BY <1>1, <3>1
    <3>. QED  BY <1>1, <1>4, <2>3, <3>1, <3>2
  <2>. QED  BY <1>4, <2>1, <2>2, <2>3 DEF Known
<1>5. LoopTypes'  BY <1>1, <1>2 DEF LoopTypes
<1>. QED  BY <1>1, <1>3, <1>4, <1>5 DEF ToldInv, Known

\* Every step keeps the invariant.
LEMMA StepTold == ToldInv /\ [Next]_vars => ToldInv'
<1>. SUFFICES ASSUME ToldInv, [Next]_vars PROVE ToldInv'
  OBVIOUS
<1>. USE DEF plc, reports, cached, loop, cloud
<1>1. ASSUME UNCHANGED <<status, statusCache, loop, told, lost>>  PROVE ToldInv'
  BY <1>1 DEF ToldInv, LoopTypes, Known
<1>2. ASSUME NEW new \in Configs, UpdateStations(new)  PROVE ToldInv'
  BY <1>1, <1>2 DEF UpdateStations
<1>3. CASE ReportLoop
  BY <1>1, <1>3 DEF ReportLoop, ReportPass, Collect, SendReports, ReadReport, ReadReportFail
<1>4. ASSUME NEW s \in Station, ReadStatus(s)  PROVE ToldInv'
  BY <1>4, ReadStep
<1>5. ASSUME NEW s \in Station, ReadStatusFail(s)  PROVE ToldInv'
  BY <1>5 DEF ReadStatusFail, ToldInv, LoopTypes, Known
<1>6. CASE StatusPass
  BY <1>6 DEF StatusPass, Keys, ToldInv, LoopTypes, Known
<1>7. CASE EndStatus
  BY <1>7 DEF EndStatus, ToldInv, LoopTypes, Known
<1>8. ASSUME NEW through \in BOOLEAN, SendStatus(through)  PROVE ToldInv'
  BY <1>8, SendStep
<1>9. ASSUME NEW id \in ReportId, Submitted(id)  PROVE ToldInv'
  BY <1>1, <1>9 DEF Submitted
<1>10. CASE StatusCommand \/ SendAnswer \/ LoseAnswer
  BY <1>1, <1>10 DEF StatusCommand, SendAnswer, LoseAnswer
<1>11. ASSUME NEW b \in StatusDb, NEW v \in Value, ChangeStatus(b, v)  PROVE ToldInv'
  <2>1. status' \in [StatusDb -> Value]
    BY <1>11 DEF ChangeStatus, ToldInv, LoopTypes
  <2>. QED  BY <1>11, <2>1 DEF ChangeStatus, ToldInv, LoopTypes, Known
<1>12. ASSUME NEW b \in ReportDb, NEW d \in Data, ChangeReport(b, d)  PROVE ToldInv'
  BY <1>1, <1>12 DEF ChangeReport
<1>13. ASSUME NEW i \in Id, Elapse(i)  PROVE ToldInv'
  BY <1>1, <1>13 DEF Elapse
<1>14. CASE UNCHANGED vars
  BY <1>1, <1>14 DEF vars
<1>. QED
  BY <1>2, <1>3, <1>4, <1>5, <1>6, <1>7, <1>8, <1>9, <1>10, <1>11, <1>12, <1>13, <1>14
     DEF Next, StatusLoop

\* A cached status, which keeps an equal one from being sent for 30 s, is what
\* the status loop has told the cloud last unless that message was lost: for
\* every set of stations, several of one id included, exchanged in the middle
\* of a pass (cache.rs 158-178, 392-450).
THEOREM CachedTold == Spec => []CachedWasTold
<1>1. ToldInv => CachedWasTold
  <2>. SUFFICES ASSUME ToldInv, spc = "idle", NEW i \in Id,
                       statusCache[i] # NoValue, ~lost[i]
                PROVE  told[i] = statusCache[i]
    BY DEF CachedWasTold
  <2>1. ~Lists(changed, i, statusCache[i])
    <3>1. 1..Len(changed) = {}  BY DEF ToldInv, LoopTypes
    <3>. QED  BY <3>1 DEF Lists
  <2>. QED  BY <2>1 DEF ToldInv, Known
<1>. QED  BY <1>1, InitTold, StepTold, PTL DEF Spec

-----------------------------------------------------------------------------
(* The report loop.                                                         *)

\* No list of a station has a report in it, and nothing was ever sent.
NoReports ==
    /\ caches \in [Station -> {Absent, <<>>}]
    /\ outbox = {} /\ arrived = {}

\* What is read of a station without reports is not taken for a report:
\* `last_report?` returns before one is made.
LEMMA ReadOfNone ==
    ASSUME NEW s, NEW d, NEW now
    PROVE  AfterRead(<<>>, s, d, now) = <<>>
BY DEF AfterRead, IsNew

LEMMA InitNone == Init => NoReports
BY DEF Init, NoReports

\* NoReports is kept by every step.
LEMMA StepNone == NoReports /\ [Next]_vars => NoReports'
<1>. SUFFICES ASSUME NoReports, [Next]_vars PROVE NoReports'
  OBVIOUS
<1>. USE DEF plc, reports, cached, loop, cloud
<1>1. CASE UNCHANGED <<caches, outbox, arrived>>
  BY <1>1 DEF NoReports
<1>2. ASSUME NEW new \in Configs, UpdateStations(new)  PROVE NoReports'
  BY <1>2 DEF UpdateStations, NoReports, Keys
<1>3. ASSUME NEW s \in Station, ReadReport(s)  PROVE NoReports'
  <2>1. PICK now \in ReportId :
           caches' = [caches EXCEPT ![s] =
               AfterRead(IF s \in Keys THEN caches[s] ELSE <<>>, s, report[s.reportDb], now)]
    BY <1>3 DEF ReadReport
  <2>2. (IF s \in Keys THEN caches[s] ELSE <<>>) = <<>>
    BY DEF Keys, NoReports
  <2>3. caches' = [caches EXCEPT ![s] = <<>>]
    BY <2>1, <2>2, ReadOfNone
  <2>. QED  BY <1>3, <2>3 DEF ReadReport, NoReports
<1>4. CASE Collect
  <2>1. \A s \in Keys : caches[s] = <<>>  BY DEF Keys, NoReports
  <2>2. outbox' = {}
    BY <1>4, <2>1 DEF Collect, Range
  <2>. QED  BY <1>4, <2>2 DEF Collect, NoReports
<1>5. CASE SendReports
  BY <1>5 DEF SendReports, NoReports
<1>6. ASSUME NEW id \in ReportId, Submitted(id)  PROVE NoReports'
  <2>1. ASSUME NEW s \in Station, s \in Keys
        PROVE  [i \in DOMAIN caches[s] |->
                   [caches[s][i] EXCEPT !.sent = @ \/ caches[s][i].id = id]] = <<>>
    <3>1. caches[s] = <<>>  BY <2>1 DEF Keys, NoReports
    <3>. QED  BY <3>1
  <2>2. caches' \in [Station -> {Absent, <<>>}]
    BY <1>6, <2>1 DEF Submitted
  <2>. QED  BY <1>6, <2>2 DEF Submitted, NoReports
<1>. QED
  BY <1>1, <1>2, <1>3, <1>4, <1>5, <1>6
     DEF Next, ReportLoop, StatusLoop, ReportPass, ReadReportFail, StatusPass, EndStatus,
         SendStatus, ReadStatus, ReadStatusFail, StatusCommand, SendAnswer, LoseAnswer,
         ChangeStatus, ChangeReport, Elapse, vars

\* No report is ever taken up, sent or got by the cloud, whatever the PLCs
\* hold: the first report of a station needs one before it (cache.rs 302), for
\* every set of stations, limit of reports and behaviour of the network.
THEOREM NoReportIsEverSent == Spec => [](outbox = {} /\ arrived = {})
<1>1. NoReports => outbox = {} /\ arrived = {}  BY DEF NoReports
<1>. QED  BY <1>1, InitNone, StepNone, PTL DEF Spec

-----------------------------------------------------------------------------
(* Types.                                                                   *)

\* A set of naturals that has an element has a least one.
LEMMA Least ==
    ASSUME NEW S \in SUBSET Nat, NEW n \in S
    PROVE  \E m \in S : \A k \in S : m <= k
<1>. DEFINE R == OpToRel(<, Nat)
<1>1. IsWellFoundedOn(R, Nat)  BY NatLessThanWellFounded
<1>2. \A x, y \in Nat : x < y => <<x, y>> \in R  BY DEF OpToRel
<1>. HIDE DEF R
<1>3. PICK x \in S : \A y \in S : ~(<<y, x>> \in R)  BY <1>1, WFMin
<1>4. \A y \in S : x <= y
  <2>1. TAKE y \in S
  <2>2. x \in Nat /\ y \in Nat  OBVIOUS
  <2>3. ~(y < x)  BY <1>2, <1>3, <2>2
  <2>. QED  BY <2>2, <2>3
<1>. QED  BY <1>4

\* The last entry about an id is an entry of the list.
LEMMA LastOfAbout ==
    ASSUME LoopTypes, NEW i \in Id, About(i) # {}
    PROVE  Max(About(i)) \in DOMAIN changed /\ changed[Max(About(i))].value \in Value
<1>1. DOMAIN changed = 1..Len(changed) /\ Len(changed) \in Nat
  BY LenProperties DEF LoopTypes
<1>. DEFINE n == Len(changed)
            S == {n - k : k \in About(i)}
<1>2. PICK k \in About(i) : TRUE  OBVIOUS
<1>3. \A l \in About(i) : l \in 1..n  BY <1>1 DEF About
<1>4. S \in SUBSET Nat /\ n - k \in S  BY <1>1, <1>2, <1>3
<1>5. PICK m \in S : \A l \in S : m <= l  BY <1>4, Least
<1>6. PICK g \in About(i) : m = n - g  BY <1>5
<1>7. \A l \in About(i) : g >= l
  <2>1. TAKE l \in About(i)
  <2>2. n - g <= n - l  BY <1>5, <1>6, <2>1
  <2>. QED  BY <1>1, <1>3, <1>6, <2>1, <2>2
<1>8. Max(About(i)) \in About(i)
  <2>1. \E x \in About(i) : \A y \in About(i) : x >= y  BY <1>7
  <2>. QED  BY <2>1 DEF Max
<1>9. Max(About(i)) \in DOMAIN changed  BY <1>8 DEF About
<1>10. \A l \in DOMAIN changed : changed[l].value \in Value
  <2>1. TAKE l \in DOMAIN changed
  <2>2. changed[l] \in Entry  BY <1>1, <2>1, ElementOfSeq DEF LoopTypes
  <2>. QED  BY <2>2 DEF Entry
<1>. QED  BY <1>9, <1>10

\* What the server has keeps its types when a list is put in.
LEMMA WithChangedTypes ==
    ASSUME LoopTypes, NEW map \in [Id -> Value \cup {NoValue}]
    PROVE  WithChanged(map) \in [Id -> Value \cup {NoValue}]
BY LastOfAbout DEF WithChanged

\* The types of the report loop, of the status loop and of the answer.
ReportTypes ==
    /\ report \in [ReportDb -> Data]
    /\ rpc \in {"idle", "read", "send"} /\ rtodo \in SUBSET Station
    /\ rpc # "read" => rtodo = {}

StatusTypes ==
    /\ sendDue \in [Id -> BOOLEAN]
    /\ stodo \in SUBSET Station
    /\ spc # "read" => stodo = {}
    /\ spc = "send" => changed # <<>>

CloudTypes ==
    /\ answer \in {Absent} \cup [Id -> Value \cup {NoValue}]
    /\ told \in [Id -> Value \cup {NoValue}] /\ seen \in [Id -> Value \cup {NoValue}]
    /\ lost \in [Id -> BOOLEAN]

LEMMA StepReportTypes == ReportTypes /\ [Next]_vars => ReportTypes'
<1>. SUFFICES ASSUME ReportTypes, [Next]_vars PROVE ReportTypes'
  OBVIOUS
<1>. USE DEF plc, reports, cached, loop, cloud, ReportTypes
<1>1. CASE ReportLoop
  BY <1>1 DEF ReportLoop, ReportPass, Collect, SendReports, ReadReport, ReadReportFail, Keys
<1>2. ASSUME NEW b \in ReportDb, NEW d \in Data, ChangeReport(b, d)  PROVE ReportTypes'
  BY <1>2 DEF ChangeReport
<1>3. CASE UNCHANGED <<report, rpc, rtodo>>
  BY <1>3
<1>. QED
  BY <1>1, <1>2, <1>3
     DEF Next, UpdateStations, StatusLoop, StatusPass, EndStatus, SendStatus, ReadStatus,
         ReadStatusFail, Submitted, StatusCommand, SendAnswer, LoseAnswer, ChangeStatus,
         Elapse, vars

LEMMA StepStatusTypes == LoopTypes /\ StatusTypes /\ [Next]_vars => StatusTypes'
<1>. SUFFICES ASSUME LoopTypes, StatusTypes, [Next]_vars PROVE StatusTypes'
  OBVIOUS
<1>. USE DEF plc, reports, cached, loop, cloud, StatusTypes
<1>1. ASSUME NEW s \in Station, ReadStatus(s)  PROVE StatusTypes'
  BY <1>1 DEF ReadStatus
<1>2. CASE StatusPass \/ EndStatus
  BY <1>2 DEF StatusPass, EndStatus, Keys
<1>3. ASSUME NEW s \in Station, ReadStatusFail(s)  PROVE StatusTypes'
  BY <1>3 DEF ReadStatusFail
<1>4. ASSUME NEW through \in BOOLEAN, SendStatus(through)  PROVE StatusTypes'
  BY <1>4 DEF SendStatus
<1>5. ASSUME NEW i \in Id, Elapse(i)  PROVE StatusTypes'
  BY <1>5 DEF Elapse
<1>6. CASE UNCHANGED <<sendDue, loop>>
  BY <1>6
<1>. QED
  BY <1>1, <1>2, <1>3, <1>4, <1>5, <1>6
     DEF Next, UpdateStations, ReportLoop, ReportPass, Collect, SendReports, ReadReport,
         ReadReportFail, StatusLoop, Submitted, StatusCommand, SendAnswer, LoseAnswer,
         ChangeStatus, ChangeReport, vars

LEMMA StepCloudTypes == LoopTypes /\ CloudTypes /\ [Next]_vars => CloudTypes'
<1>. SUFFICES ASSUME LoopTypes, CloudTypes, [Next]_vars PROVE CloudTypes'
  OBVIOUS
<1>. USE DEF plc, reports, cached, loop, cloud
<1>1. ASSUME NEW through \in BOOLEAN, SendStatus(through)  PROVE CloudTypes'
  <2>1. /\ WithChanged(told) \in [Id -> Value \cup {NoValue}]
        /\ WithChanged(seen) \in [Id -> Value \cup {NoValue}]
    BY WithChangedTypes DEF CloudTypes
  <2>2. lost' \in [Id -> BOOLEAN]  BY <1>1 DEF SendStatus, CloudTypes
  <2>. QED  BY <1>1, <2>1, <2>2 DEF SendStatus, CloudTypes
<1>2. CASE StatusCommand
  BY <1>2 DEF StatusCommand, CloudTypes, LoopTypes
<1>3. CASE SendAnswer
  BY <1>3 DEF SendAnswer, CloudTypes
<1>4. CASE LoseAnswer
  BY <1>4 DEF LoseAnswer, CloudTypes
<1>5. CASE UNCHANGED <<answer, cloud>>
  BY <1>5 DEF CloudTypes
<1>. QED
  BY <1>1, <1>2, <1>3, <1>4, <1>5
     DEF Next, UpdateStations, ReportLoop, ReportPass, Collect, SendReports, ReadReport,
         ReadReportFail, StatusLoop, StatusPass, EndStatus, ReadStatus, ReadStatusFail,
         Submitted, ChangeStatus, ChangeReport, Elapse, vars

\* TypeOK with what makes it inductive.
TypeInv == ToldInv /\ NoReports /\ ReportTypes /\ StatusTypes /\ CloudTypes

\* Types for every instance.  Between passes a loop has nothing left to do, and
\* a status loop that sends has something to send (cache.rs 444).
THEOREM Types == Spec => []TypeOK
<1>1. Init => TypeInv
  <2>1. Init => ToldInv /\ NoReports  BY InitTold, InitNone
  <2>. QED  BY <2>1 DEF Init, TypeInv, ReportTypes, StatusTypes, CloudTypes
<1>2. TypeInv /\ [Next]_vars => TypeInv'
  BY StepTold, StepNone, StepReportTypes, StepStatusTypes, StepCloudTypes
     DEF TypeInv, ToldInv
<1>3. TypeInv => TypeOK
  <2>. SUFFICES ASSUME TypeInv PROVE TypeOK
    OBVIOUS
  <2>1. \A s \in Keys : caches[s] = <<>>  BY DEF TypeInv, NoReports, Keys
  <2>2. \A s \in Keys : DOMAIN caches[s] = {}  BY <2>1
  <2>. QED
    BY <2>2 DEF TypeInv, ToldInv, LoopTypes, NoReports, ReportTypes, StatusTypes,
                CloudTypes, TypeOK
<1>. QED  BY <1>1, <1>2, <1>3, PTL DEF Spec
=============================================================================
