--------------------------- MODULE MonitorProcessor ---------------------------
(***************************************************************************)
(* The monitors (src/src/report/monitor.rs): a loop reads every monitored  *)
(* block that is due, sends what changed, and sends again what has not     *)
(* changed for resend_interval; plcInfo handlers exchange the monitors     *)
(* under it.  The data of a monitor with a local address is posted there   *)
(* too, every time by a task of its own, which waits 10 s at most.         *)
(*                                                                         *)
(* Time is abstracted to whether an interval has elapsed: `now - last` is  *)
(* compared with nothing else.  (When the system clock goes back the u64   *)
(* difference of a release build wraps and counts as elapsed.)             *)
(***************************************************************************)
EXTENDS Naturals, Sequences

CONSTANTS
    Id,         \* monitor ids
    Block,      \* PLC data blocks
    Value,      \* contents of a block
    Monitor,    \* monitors: [id, block, local, decodes]; local: it has a local
                \* address; decodes: and a type, by which its data is decoded
    Configs,    \* families of sets of monitors the cloud may send
    MaxPosts,   \* bound: equal posts on their way at a time
    NoValue, NoMonitor

ASSUME MonitorRecords ==
    Monitor \subseteq [id : Id, block : Block, local : BOOLEAN, decodes : BOOLEAN]

ASSUME ConfigsAssumption == Configs \subseteq SUBSET ((SUBSET Monitor) \ {{}})

ASSUME PostsBound == MaxPosts \in Nat \ {0}

ASSUME NoMonitorIsNone == NoMonitor \notin Monitor

ASSUME NoValueIsNone == NoValue \notin Value

VARIABLES
    plc,        \* contents of the blocks
    sent,       \* the sets of monitors that the cloud sends
    monitors,   \* MonitorProcessor.monitors
    states,     \* MonitorProcessor.states: id -> state or NoState
    updating,   \* update_monitors: the new monitors, {} when none is running
    removing,   \* its to_remove
    pc,         \* the loop: idle, next, reading, deliver, dead
    snap,       \* the loop's copy of the monitors, those not visited yet
    current,    \* the monitor being read; the guard of states is alive
    messages,   \* the loop's messages
    seen,       \* the last message about each id that reached the cloud
    lost,       \* the last message about the id did not
    posts,      \* how many posts of a message are on their way
    heard       \* the last post about each id that reached its local address

loop   == <<pc, snap, current, messages>>
update == <<updating, removing>>
cloud  == <<seen, lost>>
local  == <<posts, heard>>
outside == <<plc, sent>>
vars   == <<outside, monitors, states, update, loop, cloud, local>>

(***************************************************************************)
(* MonitorState: data, whether frequency has elapsed since last_read_time  *)
(* and resend_interval since last_send_time (neither is true of a time     *)
(* that is None, but a monitor never read is due).                         *)
(***************************************************************************)
State == [data : Value \cup {NoValue}, readDue : BOOLEAN, sendDue : BOOLEAN]

NoState == [data |-> NoValue, readDue |-> TRUE, sendDue |-> FALSE]

Message == [about : Monitor, data : Value]

NoMessage == [about |-> NoMonitor, data |-> NoValue]

\* The blocks a monitor may read; nothing depends on the others.
Monitored == {m.block : m \in UNION sent}

\* A missing entry and a default one behave alike: both are NoState.
Init ==
    /\ sent \in Configs
    /\ plc \in [Monitored -> Value]
    /\ monitors = {} /\ updating = {} /\ removing = {}
    /\ states = [i \in Id |-> NoState]
    /\ pc = "idle" /\ snap = {} /\ current = NoMonitor /\ messages = <<>>
    /\ seen = [i \in Id |-> NoMessage]
    /\ lost = [i \in Id |-> FALSE]
    /\ posts = [p \in Message |-> 0]
    /\ heard = [i \in Id |-> NoMessage]

-----------------------------------------------------------------------------
(* update_monitors                                                          *)

\* The guard of monitors is taken and lives until EndUpdate.
BeginUpdate(new) ==
    /\ updating = {}
    /\ new \in sent
    /\ updating' = new
    /\ removing' = monitors \ new
    /\ UNCHANGED <<outside, monitors, states, loop, cloud, local>>

\* A monitor goes, then its state, which waits for a read in progress.
RemoveOne(m) ==
    /\ m \in removing /\ pc # "reading"
    /\ removing' = removing \ {m}
    /\ monitors' = monitors \ {m}
    /\ states' = [states EXCEPT ![m.id] = NoState]
    /\ UNCHANGED <<outside, updating, loop, cloud, local>>

\* Mutant: the new monitors are added, and the guard dropped, before the old
\* ones are gone.
EndUpdateEarly ==
    /\ updating # {}
    /\ monitors' = monitors \cup updating
    /\ updating' = {}
    /\ UNCHANGED <<outside, states, removing, loop, cloud, local>>

EndUpdate ==
    /\ updating # {} /\ removing = {}
    /\ monitors' = monitors \cup updating
    /\ updating' = {}
    /\ UNCHANGED <<outside, states, removing, loop, cloud, local>>

-----------------------------------------------------------------------------
(* trigger_monitors_direct, every 10 ms                                     *)

\* The copy waits for an update in progress.
Snapshot ==
    /\ pc = "idle" /\ updating = {}
    /\ snap' = monitors
    /\ pc' = "next"
    /\ UNCHANGED <<outside, monitors, states, update, current, messages, cloud, local>>

MessageOf(m, s) == [about |-> m, data |-> s.data]

\* A message is pushed; with a local address it is also handed to a task that
\* posts it; with a type too the data is decoded before that by decode_as_map,
\* whose block_on panics inside the runtime.
Push(m, s) ==
    IF m.decodes
    THEN /\ pc' = "dead"
         /\ messages' = <<>>
         /\ UNCHANGED posts
    ELSE /\ pc' = "next"
         /\ messages' = Append(messages, MessageOf(m, s))
         /\ posts[MessageOf(m, s)] < MaxPosts
         /\ posts' = IF m.local THEN [posts EXCEPT ![MessageOf(m, s)] = @ + 1] ELSE posts

\* Mutant: only what has changed is posted.
ResendToCloud(m, s) ==
    IF s.sendDue /\ s.data # NoValue
    THEN /\ states' = [states EXCEPT ![m.id] = [s EXCEPT !.sendDue = FALSE]]
         /\ pc' = "next"
         /\ messages' = Append(messages, MessageOf(m, s))
         /\ UNCHANGED posts
    ELSE /\ states' = [states EXCEPT ![m.id] = s]
         /\ pc' = "next"
         /\ UNCHANGED <<messages, posts>>

\* The end of a visit: state s becomes that of m, and is sent again when the
\* resend interval has elapsed.
Resend(m, s) ==
    IF s.sendDue /\ s.data # NoValue
    THEN /\ states' = [states EXCEPT ![m.id] = [s EXCEPT !.sendDue = FALSE]]
         /\ Push(m, s)
    ELSE /\ states' = [states EXCEPT ![m.id] = s]
         /\ pc' = "next"
         /\ UNCHANGED <<messages, posts>>

\* The next monitor of the copy: a read begins, or the visit ends.
Visit(m) ==
    /\ pc = "next" /\ m \in snap
    /\ snap' = snap \ {m}
    /\ LET s == states[m.id] IN
       \/ /\ s.readDue
          /\ current' = m
          /\ pc' = "reading"
          /\ UNCHANGED <<states, messages, posts>>
       \/ /\ ~s.readDue
          /\ Resend(m, s)
          /\ UNCHANGED current
    /\ UNCHANGED <<outside, monitors, update, cloud, heard>>

\* Mutant: a monitor's first value is cached and not pushed.
ReadOkSkipsFirst ==
    /\ pc = "reading"
    /\ LET m == current
           s == states[m.id]
           read == [s EXCEPT !.data = plc[m.block], !.readDue = FALSE]
       IN  IF plc[m.block] # s.data /\ s.data # NoValue
           THEN /\ states' = [states EXCEPT ![m.id] = [read EXCEPT !.sendDue = FALSE]]
                /\ Push(m, read)
           ELSE Resend(m, read)
    /\ current' = NoMonitor
    /\ UNCHANGED <<outside, monitors, update, snap, cloud, heard>>

\* Mutant: last_send_time is renewed by every read.
ReadOkRenews ==
    /\ pc = "reading"
    /\ LET m == current
           s == states[m.id]
           read == [s EXCEPT !.data = plc[m.block], !.readDue = FALSE,
                             !.sendDue = FALSE]
       IN  IF plc[m.block] # s.data
           THEN /\ states' = [states EXCEPT ![m.id] = read]
                /\ Push(m, read)
           ELSE Resend(m, read)
    /\ current' = NoMonitor
    /\ UNCHANGED <<outside, monitors, update, snap, cloud, heard>>

\* Changed data is cached and pushed, unchanged data may be due again.
ReadOk ==
    /\ pc = "reading"
    /\ LET m == current
           s == states[m.id]
           read == [s EXCEPT !.data = plc[m.block], !.readDue = FALSE]
       IN  IF plc[m.block] # s.data
           THEN /\ states' = [states EXCEPT ![m.id] = [read EXCEPT !.sendDue = FALSE]]
                /\ Push(m, read)
           ELSE Resend(m, read)
    /\ current' = NoMonitor
    /\ UNCHANGED <<outside, monitors, update, snap, cloud, heard>>

\* The read failed: last_read_time stays, old data may be due again.
ReadFail ==
    /\ pc = "reading"
    /\ Resend(current, states[current.id])
    /\ current' = NoMonitor
    /\ UNCHANGED <<outside, monitors, update, snap, cloud, heard>>

EndPass ==
    /\ pc = "next" /\ snap = {}
    /\ pc' = "deliver"
    /\ UNCHANGED <<outside, monitors, states, update, snap, current, messages, cloud, local>>

-----------------------------------------------------------------------------
(* start_monitor_loop: the messages are sent one after the other            *)

Dequeue(isLost) ==
    /\ messages' = Tail(messages)
    /\ lost' = [lost EXCEPT ![Head(messages).about.id] = isLost]

Deliver ==
    /\ pc = "deliver" /\ messages # <<>>
    /\ seen' = [seen EXCEPT ![Head(messages).about.id] = Head(messages)]
    /\ Dequeue(FALSE)
    /\ UNCHANGED <<outside, monitors, states, update, pc, snap, current, local>>

\* No client, or the RPC fails: only logged.
Lose ==
    /\ pc = "deliver" /\ messages # <<>>
    /\ Dequeue(TRUE)
    /\ UNCHANGED <<outside, monitors, states, update, pc, snap, current, seen, local>>

EndDelivery ==
    /\ pc = "deliver" /\ messages = <<>>
    /\ pc' = "idle"
    /\ UNCHANGED <<outside, monitors, states, update, snap, current, messages, cloud, local>>

-----------------------------------------------------------------------------
(* The tasks that post.  Nothing depends on the answer: a callback to       *)
(* deploy ends its task, in an error or in encode's block_on.               *)

Posted(p) ==
    /\ posts[p] > 0
    /\ posts' = [posts EXCEPT ![p] = @ - 1]

PostArrives(p) ==
    /\ Posted(p)
    /\ heard' = [heard EXCEPT ![p.about.id] = p]
    /\ UNCHANGED <<outside, monitors, states, update, loop, cloud>>

\* The address cannot be reached, or does not answer in time.
PostFails(p) ==
    /\ Posted(p)
    /\ UNCHANGED <<outside, monitors, states, update, loop, cloud, heard>>

-----------------------------------------------------------------------------
(* The environment                                                          *)

Change(b, v) ==
    /\ b \in Monitored /\ plc[b] # v
    /\ plc' = [plc EXCEPT ![b] = v]
    /\ UNCHANGED <<sent, monitors, states, update, loop, cloud, local>>

\* frequency, or resend_interval, has elapsed for a monitor that was read.
ElapseRead(i) ==
    /\ states[i].data # NoValue /\ ~states[i].readDue
    /\ states' = [states EXCEPT ![i].readDue = TRUE]
    /\ UNCHANGED <<outside, monitors, update, loop, cloud, local>>

ElapseSend(i) ==
    /\ states[i].data # NoValue /\ ~states[i].sendDue
    /\ states' = [states EXCEPT ![i].sendDue = TRUE]
    /\ UNCHANGED <<outside, monitors, update, loop, cloud, local>>

Pass == Snapshot \/ EndPass \/ EndDelivery \/ \E m \in Monitor : Visit(m)

Next ==
    \/ Pass \/ ReadOk \/ ReadFail \/ Deliver \/ Lose
    \/ EndUpdate
    \/ \E new \in SUBSET Monitor : BeginUpdate(new)
    \/ \E m \in Monitor : RemoveOne(m)
    \/ \E p \in Message : PostArrives(p) \/ PostFails(p)
    \/ \E b \in Block, v \in Value : Change(b, v)
    \/ \E i \in Id : ElapseRead(i) \/ ElapseSend(i)

Spec == Init /\ [][Next]_vars

\* The interval of the loop ticks and time passes; the locks of the monitors and
\* of the states are fair, so that the loop's copy and an update get their turn.
\* Of the reads of a monitor's PLC, of the messages about it and of its posts,
\* which all end by a timeout, not every one fails if there is no end of them.
FairSpec ==
    /\ Spec
    /\ WF_vars(Pass) /\ SF_vars(Snapshot)
    /\ WF_vars(EndUpdate) /\ SF_vars(\E m \in Monitor : RemoveOne(m))
    /\ \A i \in Id : WF_vars(ElapseRead(i)) /\ WF_vars(ElapseSend(i))
    /\ \A i \in Id : SF_vars(ReadOk /\ current.id = i)
    /\ \A i \in Id : SF_vars(Deliver /\ Head(messages).about.id = i)
    /\ \A p \in {q \in Message : q.about.local} : SF_vars(PostArrives(p))

-----------------------------------------------------------------------------
(* Properties                                                               *)

\* Types of the variables; without an update there is nothing to remove.
TypeOK ==
    /\ sent \in Configs
    /\ plc \in [Monitored -> Value]
    /\ monitors \in SUBSET Monitor
    /\ states \in [Id -> State]
    /\ updating \in SUBSET Monitor /\ removing \in SUBSET monitors
    /\ updating = {} => removing = {}
    /\ pc \in {"idle", "next", "reading", "deliver", "dead"}
    /\ snap \in SUBSET Monitor
    /\ current \in Monitor \cup {NoMonitor}
    /\ messages \in Seq(Message)
    /\ seen \in [Id -> Message \cup {NoMessage}]
    /\ lost \in [Id -> BOOLEAN]
    /\ posts \in [Message -> 0..MaxPosts]
    /\ heard \in [Id -> Message \cup {NoMessage}]

\* The cached data of a monitor keeps equal data from being sent, so it must
\* have been handed over: between passes the cloud has seen exactly the cached
\* data of every id, unless the last message about it was lost.
CachedWasSent ==
    \A i \in Id :
        pc = "idle" /\ states[i].data # NoValue /\ ~lost[i]
            => seen[i].data = states[i].data

\* The monitors configured under an id, each with what its block contains.
Watched(i) == {<<m, plc[m.block]>> : m \in {n \in monitors : n.id = i}}

\* What stays in a block that stays monitored comes to be known to the cloud,
\* lost messages and failed reads notwithstanding.
CloudFollows ==
    \A i \in Id :
        <>[][FALSE]_(Watched(i))
            => <>[](\A w \in Watched(i) : <<seen[i].about, seen[i].data>> = w)

\* Likewise to the local address, although every post is a task of its own, so
\* that an older value may overtake a newer one on the way there (monitor.rs
\* 428): the resends put it right.
LocalFollows ==
    \A i \in Id :
        <>[][FALSE]_(Watched(i))
            => <>[](\A w \in Watched(i) :
                        w[1].local => <<heard[i].about, heard[i].data>> = w)

\* cloud.rs: "Runs every 10ms": the loop goes on for ever.
RunsForEver == []<>(pc = "idle")
=============================================================================
