------------------------------ MODULE S7Manager ------------------------------
(***************************************************************************)
(* The S7 connection pool (src/src/s7.rs): one shared connection per PLC,  *)
(* used at the same time by                                                *)
(*   - callers: the report, status and monitor loops, the command          *)
(*     handlers and the HTTP handlers, through read_bytes / write_bytes;   *)
(*   - checkers: the 10 s task of main.rs, through check_all_connections;  *)
(*   - updaters: the plcInfo handlers, through update_plc_list;            *)
(*   - closers: main.rs on Ctrl-C, through close_all.                      *)
(*                                                                         *)
(* Every `.await` on a lock is two steps here, asking and running with the *)
(* guard; every network call is one step, taken when the call completes.   *)
(* A guard dropped and the next lock asked for with no await in between    *)
(* are one step.                                                           *)
(***************************************************************************)
EXTENDS FairRwLock, FiniteSets

CONSTANTS
    Plc,        \* the PLCs, each standing for its "host:port" pool key
    Conn,       \* identities of S7Connection objects, reused once dropped
    NoConn,
    Caller, Checker, Updater, Closer   \* the tasks, by what they call

Task == Caller \cup Checker \cup Updater \cup Closer

ASSUME TasksDisjoint ==
    /\ Caller \cap (Checker \cup Updater \cup Closer) = {}
    /\ Checker \cap (Updater \cup Closer) = {}
    /\ Updater \cap Closer = {}

ASSUME NoConnIsNone == NoConn \notin Conn

ASSUME PlcExists == Plc # {}

VARIABLES
    pc,         \* where each task is in its call
    target,     \* host:port argument of the call, loop variable of the others
    conn,       \* the SharedConnection a task has cloned, or NoConn
    todo,       \* PLCs a check or an update has still to visit
    pool,       \* S7Manager.connections: PLC -> connection, or NoConn
    plcList,    \* S7Manager.plc_list
    sess,       \* what each connection is: see Session
    peer,       \* the PLC a connection was created for
    poolLock,   \* RwLock around connections
    listLock,   \* RwLock around plc_list
    connLock    \* RwLock around each S7Connection

locks == <<poolLock, listLock, connLock>>
data  == <<pool, plcList, sess, peer>>
vars  == <<pc, target, conn, todo, pool, plcList, sess, peer,
           poolLock, listLock, connLock>>

(***************************************************************************)
(* A session is "closed" (is_connected() is false), "open" (connected and  *)
(* working) or "broken" (is_connected() is still true but the transport is *)
(* gone: requests fail).                                                   *)
(***************************************************************************)
Session == {"closed", "open", "broken"}

CallPc  == {"lookup", "probe", "dial", "store", "io"}
PcOf(t) ==
    IF t \in Caller THEN {"idle"} \cup CallPc
    ELSE IF t \in Checker THEN {"idle", "snapshot", "next", "evict"} \cup CallPc
    ELSE IF t \in Updater THEN {"idle", "setList", "precreate", "insert"}
    ELSE {"idle", "drain", "disconnect", "done"}

Label == CallPc \cup {"idle", "snapshot", "next", "evict", "setList", "precreate",
                      "insert", "drain", "disconnect", "done"}

\* A connection nobody references any more has been dropped with its Arc.
Unreferenced(c) ==
    /\ \A p \in Plc : pool[p] # c
    /\ \A t \in Task : conn[t] # c

Goto(t, label) == pc' = [pc EXCEPT ![t] = label]

\* `let shared = self.connect(host, port)`: the lookup of the fast path.
AskLookup(t, p) ==
    /\ target' = [target EXCEPT ![t] = p]
    /\ poolLock' = Ask(poolLock, t, "r")
    /\ Goto(t, "lookup")

-----------------------------------------------------------------------------
(* connect, read_bytes and write_bytes                                      *)

StartCall(t, p) ==
    /\ t \in Caller /\ pc[t] = "idle"
    /\ AskLookup(t, p)
    /\ UNCHANGED <<conn, todo, data, listLock, connLock>>

\* Mutant: the block that ends the pool guard's life before the slow path is
\* missing, so that a miss dials with the guard alive.
LookupKeepsGuard(t) ==
    /\ pc[t] = "lookup" /\ Holds(poolLock, t)
    /\ LET c == pool[target[t]] IN
       \/ /\ c = NoConn
          /\ Goto(t, "dial")
          /\ UNCHANGED <<conn, connLock>>
       \/ /\ c # NoConn
          /\ conn' = [conn EXCEPT ![t] = c]
          /\ connLock' = [connLock EXCEPT ![c] = Ask(@, t, "r")]
          /\ Goto(t, "probe")
    /\ UNCHANGED <<target, todo, data, listLock, poolLock>>

\* Fast path, pool guard held: miss, or await the connection's own lock
\* with the pool guard still alive.
Lookup(t) ==
    /\ pc[t] = "lookup" /\ Holds(poolLock, t)
    /\ LET c == pool[target[t]] IN
       \/ /\ c = NoConn
          /\ poolLock' = Drop(poolLock, t)
          /\ Goto(t, "dial")
          /\ UNCHANGED <<conn, connLock>>
       \/ /\ c # NoConn
          /\ conn' = [conn EXCEPT ![t] = c]
          /\ connLock' = [connLock EXCEPT ![c] = Ask(@, t, "r")]
          /\ Goto(t, "probe")
          /\ UNCHANGED poolLock
    /\ UNCHANGED <<target, todo, data, listLock>>

\* Mutant: the request is made under `shared.read()`.
ProbeForReading(t) ==
    /\ pc[t] = "probe" /\ Holds(connLock[conn[t]], t)
    /\ sess[conn[t]] # "closed"
    /\ poolLock' = Drop(poolLock, t)
    /\ connLock' = [connLock EXCEPT ![conn[t]] = Ask(Drop(@, t), t, "r")]
    /\ Goto(t, "io")
    /\ UNCHANGED <<conn, target, todo, data, listLock>>

\* is_connected() under both guards; then both are dropped, and a live
\* connection is asked for exclusively by read_bytes, write_bytes or
\* test_connection.
Probe(t) ==
    /\ pc[t] = "probe" /\ Holds(connLock[conn[t]], t)
    /\ poolLock' = Drop(poolLock, t)
    /\ LET c == conn[t] IN
       \/ /\ sess[c] # "closed"
          /\ connLock' = [connLock EXCEPT ![c] = Ask(Drop(@, t), t, "w")]
          /\ Goto(t, "io")
          /\ UNCHANGED conn
       \/ /\ sess[c] = "closed"
          /\ connLock' = [connLock EXCEPT ![c] = Drop(@, t)]
          /\ conn' = [conn EXCEPT ![t] = NoConn]
          /\ Goto(t, "dial")
    /\ UNCHANGED <<target, todo, data, listLock>>

\* Slow path: connector.connect().await succeeds, holding no lock.
DialOk(t) ==
    /\ pc[t] = "dial"
    /\ \E c \in Conn :
          /\ Unreferenced(c)
          /\ conn' = [conn EXCEPT ![t] = c]
          /\ sess' = [sess EXCEPT ![c] = "open"]
          /\ peer' = [peer EXCEPT ![c] = target[t]]
    /\ poolLock' = Ask(poolLock, t, "w")
    /\ Goto(t, "store")
    /\ UNCHANGED <<target, todo, pool, plcList, listLock, connLock>>

\* Mutant: a read or a write whose connect() failed removes the key as well.
DialFailEvicts(t) ==
    /\ pc[t] = "dial"
    /\ poolLock' = Ask(poolLock, t, "w")
    /\ Goto(t, "evict")
    /\ UNCHANGED <<target, conn, todo, data, listLock, connLock>>

\* connect() failed: `?` ends a read or a write, test_connection goes on to
\* remove the key.
DialFail(t) ==
    /\ pc[t] = "dial"
    /\ \/ /\ t \in Caller
          /\ Goto(t, "idle")
          /\ UNCHANGED poolLock
       \/ /\ t \in Checker
          /\ poolLock' = Ask(poolLock, t, "w")
          /\ Goto(t, "evict")
    /\ UNCHANGED <<target, conn, todo, data, listLock, connLock>>

\* The new connection replaces whatever the key maps to by now.
Store(t) ==
    /\ pc[t] = "store" /\ Holds(poolLock, t)
    /\ pool' = [pool EXCEPT ![target[t]] = conn[t]]
    /\ poolLock' = Drop(poolLock, t)
    /\ connLock' = [connLock EXCEPT ![conn[t]] = Ask(@, t, "w")]
    /\ Goto(t, "io")
    /\ UNCHANGED <<target, conn, todo, plcList, sess, peer, listLock>>

\* read_db or write_db answered; both guards' last one is dropped.
IoOk(t) ==
    /\ pc[t] = "io" /\ Holds(connLock[conn[t]], t)
    /\ sess[conn[t]] = "open"
    /\ connLock' = [connLock EXCEPT ![conn[t]] = Drop(@, t)]
    /\ conn' = [conn EXCEPT ![t] = NoConn]
    /\ Goto(t, IF t \in Checker THEN "next" ELSE "idle")
    /\ UNCHANGED <<target, todo, data, poolLock, listLock>>

\* Mutant: test_connection reports a failed read and leaves the pool alone.
IoFailKeepsPool(t) ==
    /\ pc[t] = "io" /\ Holds(connLock[conn[t]], t)
    /\ connLock' = [connLock EXCEPT ![conn[t]] = Drop(@, t)]
    /\ conn' = [conn EXCEPT ![t] = NoConn]
    /\ Goto(t, IF t \in Checker THEN "next" ELSE "idle")
    /\ UNCHANGED <<target, todo, data, poolLock, listLock>>

(***************************************************************************)
(* read_db or write_db failed, for a dead transport or an error answer of  *)
(* the PLC; the library may or may not mark the connection closed.  A read *)
(* or write returns.  test_connection awaits the pool for writing with the *)
(* guard of the connection alive.                                          *)
(***************************************************************************)
IoFail(t) ==
    /\ pc[t] = "io" /\ Holds(connLock[conn[t]], t)
    /\ \E s \in {sess[conn[t]], "closed"} : sess' = [sess EXCEPT ![conn[t]] = s]
    /\ \/ /\ t \in Caller
          /\ connLock' = [connLock EXCEPT ![conn[t]] = Drop(@, t)]
          /\ conn' = [conn EXCEPT ![t] = NoConn]
          /\ Goto(t, "idle")
          /\ UNCHANGED poolLock
       \/ /\ t \in Checker
          /\ poolLock' = Ask(poolLock, t, "w")
          /\ Goto(t, "evict")
          /\ UNCHANGED <<conn, connLock>>
    /\ UNCHANGED <<target, todo, pool, plcList, peer, listLock>>

-----------------------------------------------------------------------------
(* check_all_connections and test_connection                                *)

StartCheck(t) ==
    /\ t \in Checker /\ pc[t] = "idle"
    /\ listLock' = Ask(listLock, t, "r")
    /\ Goto(t, "snapshot")
    /\ UNCHANGED <<target, conn, todo, data, poolLock, connLock>>

\* get_plc_list: a copy of the list, the guard dropped.
Snapshot(t) ==
    /\ pc[t] = "snapshot" /\ Holds(listLock, t)
    /\ todo' = [todo EXCEPT ![t] = plcList]
    /\ listLock' = Drop(listLock, t)
    /\ Goto(t, "next")
    /\ UNCHANGED <<target, conn, data, poolLock, connLock>>

NextPlc(t) ==
    /\ pc[t] = "next"
    /\ \/ \E p \in todo[t] :
             /\ todo' = [todo EXCEPT ![t] = @ \ {p}]
             /\ AskLookup(t, p)
       \/ /\ todo[t] = {}
          /\ Goto(t, "idle")
          /\ UNCHANGED <<target, todo, poolLock>>
    /\ UNCHANGED <<conn, data, listLock, connLock>>

\* pool.remove(&key): by key, whatever the key maps to by now.
Evict(t) ==
    /\ pc[t] = "evict" /\ Holds(poolLock, t)
    /\ pool' = [pool EXCEPT ![target[t]] = NoConn]
    /\ poolLock' = Drop(poolLock, t)
    /\ connLock' = IF conn[t] = NoConn THEN connLock
                   ELSE [connLock EXCEPT ![conn[t]] = Drop(@, t)]
    /\ conn' = [conn EXCEPT ![t] = NoConn]
    /\ Goto(t, "next")
    /\ UNCHANGED <<target, todo, plcList, sess, peer, listLock>>

-----------------------------------------------------------------------------
(* update_plc_list                                                          *)

StartUpdate(t, plcs) ==
    /\ t \in Updater /\ pc[t] = "idle"
    /\ todo' = [todo EXCEPT ![t] = plcs]
    /\ listLock' = Ask(listLock, t, "w")
    /\ Goto(t, "setList")
    /\ UNCHANGED <<target, conn, data, poolLock, connLock>>

SetList(t) ==
    /\ pc[t] = "setList" /\ Holds(listLock, t)
    /\ plcList' = todo[t]
    /\ Goto(t, "precreate")
    /\ UNCHANGED <<target, conn, todo, pool, sess, peer, locks>>

\* One turn of the loop per PLC, the guard of the list alive throughout.
Precreate(t) ==
    /\ pc[t] = "precreate"
    /\ \/ \E p \in todo[t] :
             /\ target' = [target EXCEPT ![t] = p]
             /\ todo' = [todo EXCEPT ![t] = @ \ {p}]
             /\ poolLock' = Ask(poolLock, t, "w")
             /\ Goto(t, "insert")
             /\ UNCHANGED listLock
       \/ /\ todo[t] = {}
          /\ listLock' = Drop(listLock, t)
          /\ Goto(t, "idle")
          /\ UNCHANGED <<target, todo, poolLock>>
    /\ UNCHANGED <<conn, data, connLock>>

\* Mutant: the pool's guard is taken once, outside the loop, and outlives it.
InsertKeepsGuard(t) ==
    /\ pc[t] = "insert" /\ Holds(poolLock, t)
    /\ pool[target[t]] # NoConn
    /\ Goto(t, "precreate")
    /\ UNCHANGED <<target, conn, todo, data, locks>>

\* A key that is absent gets a connection that is not connected yet.
Insert(t) ==
    /\ pc[t] = "insert" /\ Holds(poolLock, t)
    /\ \/ /\ pool[target[t]] # NoConn
          /\ UNCHANGED <<pool, sess, peer>>
       \/ /\ pool[target[t]] = NoConn
          /\ \E c \in Conn :
                /\ Unreferenced(c)
                /\ pool' = [pool EXCEPT ![target[t]] = c]
                /\ sess' = [sess EXCEPT ![c] = "closed"]
                /\ peer' = [peer EXCEPT ![c] = target[t]]
    /\ poolLock' = Drop(poolLock, t)
    /\ Goto(t, "precreate")
    /\ UNCHANGED <<target, conn, todo, plcList, listLock, connLock>>

-----------------------------------------------------------------------------
(* close_all                                                                *)

StartClose(t) ==
    /\ t \in Closer /\ pc[t] = "idle"
    /\ poolLock' = Ask(poolLock, t, "w")
    /\ Goto(t, "drain")
    /\ UNCHANGED <<target, conn, todo, data, listLock, connLock>>

\* One turn of the loop per connection, the guard of the pool alive
\* throughout; when the pool is drained the guard is dropped.
Drain(t) ==
    /\ pc[t] = "drain" /\ Holds(poolLock, t)
    /\ \/ \E p \in Plc :
             /\ pool[p] # NoConn
             /\ conn' = [conn EXCEPT ![t] = pool[p]]
             /\ pool' = [pool EXCEPT ![p] = NoConn]
             /\ connLock' = [connLock EXCEPT ![pool[p]] = Ask(@, t, "w")]
             /\ Goto(t, "disconnect")
             /\ UNCHANGED poolLock
       \/ /\ \A p \in Plc : pool[p] = NoConn
          /\ poolLock' = Drop(poolLock, t)
          /\ Goto(t, "done")
          /\ UNCHANGED <<conn, pool, connLock>>
    /\ UNCHANGED <<target, todo, plcList, sess, peer, listLock>>

Disconnect(t) ==
    /\ pc[t] = "disconnect" /\ Holds(connLock[conn[t]], t)
    /\ sess' = [sess EXCEPT ![conn[t]] = "closed"]
    /\ connLock' = [connLock EXCEPT ![conn[t]] = Drop(@, t)]
    /\ conn' = [conn EXCEPT ![t] = NoConn]
    /\ Goto(t, "drain")
    /\ UNCHANGED <<target, todo, pool, plcList, peer, poolLock, listLock>>

-----------------------------------------------------------------------------
(* The runtime and the network                                              *)

AdmitPool ==
    /\ Admissible(poolLock)
    /\ poolLock' = Admit(poolLock)
    /\ UNCHANGED <<pc, target, conn, todo, data, listLock, connLock>>

AdmitList ==
    /\ Admissible(listLock)
    /\ listLock' = Admit(listLock)
    /\ UNCHANGED <<pc, target, conn, todo, data, poolLock, connLock>>

AdmitConn(c) ==
    /\ Admissible(connLock[c])
    /\ connLock' = [connLock EXCEPT ![c] = Admit(@)]
    /\ UNCHANGED <<pc, target, conn, todo, data, poolLock, listLock>>

\* The transport of a connection in use goes away.
Break(c) ==
    /\ ~Unreferenced(c)
    /\ sess[c] = "open"
    /\ sess' = [sess EXCEPT ![c] = "broken"]
    /\ UNCHANGED <<pc, target, conn, todo, pool, plcList, peer, locks>>

-----------------------------------------------------------------------------
Init ==
    /\ pc = [t \in Task |-> "idle"]
    /\ target \in [Task -> {CHOOSE p \in Plc : TRUE}]
    /\ conn = [t \in Task |-> NoConn]
    /\ todo = [t \in Task |-> {}]
    /\ pool = [p \in Plc |-> NoConn]
    /\ plcList = {}
    /\ sess = [c \in Conn |-> "closed"]
    /\ peer \in [Conn -> {CHOOSE p \in Plc : TRUE}]
    /\ poolLock = FreeLock
    /\ listLock = FreeLock
    /\ connLock = [c \in Conn |-> FreeLock]

Connect(t) == Lookup(t) \/ Probe(t) \/ DialOk(t) \/ DialFail(t) \/ Store(t)
Request(t) == IoOk(t) \/ IoFail(t)
Check(t)   == Snapshot(t) \/ NextPlc(t) \/ Evict(t)
Update(t)  == SetList(t) \/ Precreate(t) \/ Insert(t)
Close(t)   == Drain(t) \/ Disconnect(t)

\* A task goes on with the call it is in.
Step(t) == Connect(t) \/ Request(t) \/ Check(t) \/ Update(t) \/ Close(t)

\* A task begins a call.
Start(t) ==
    \/ \E p \in Plc : StartCall(t, p)
    \/ StartCheck(t)
    \/ \E plcs \in SUBSET Plc \ {{}} : StartUpdate(t, plcs)
    \/ StartClose(t)

Runtime == AdmitPool \/ AdmitList \/ \E c \in Conn : AdmitConn(c)

Next ==
    \/ \E t \in Task : Start(t) \/ Step(t)
    \/ Runtime
    \/ \E c \in Conn : Break(c)

Spec == Init /\ [][Next]_vars

(***************************************************************************)
(* The runtime polls every task that can run and grants locks in order;    *)
(* network calls complete; the 10 s interval starts a check again and      *)
(* again.  Nothing is assumed of callers, updates or shutdown beginning.   *)
(***************************************************************************)
Fairness ==
    /\ \A t \in Task : WF_vars(Step(t))
    /\ \A t \in Checker : WF_vars(StartCheck(t))
    /\ WF_vars(AdmitPool) /\ WF_vars(AdmitList)
    /\ \A c \in Conn : WF_vars(AdmitConn(c))

FairSpec == Spec /\ Fairness

-----------------------------------------------------------------------------
(* Properties                                                               *)

\* Types of the variables; pc stays in the labels of the task's own call.
TypeOK ==
    /\ pc \in [Task -> Label]
    /\ \A t \in Task : pc[t] \in PcOf(t)
    /\ target \in [Task -> Plc]
    /\ conn \in [Task -> Conn \cup {NoConn}]
    /\ todo \in [Task -> SUBSET Plc]
    /\ pool \in [Plc -> Conn \cup {NoConn}]
    /\ plcList \in SUBSET Plc
    /\ sess \in [Conn -> Session]
    /\ peer \in [Conn -> Plc]
    /\ poolLock \in Locks(Task)
    /\ listLock \in Locks(Task)
    /\ connLock \in [Conn -> Locks(Task)]

\* The task is exchanging a request, or disconnecting, on connection c.
Using(t, c) ==
    /\ conn[t] = c
    /\ pc[t] \in {"io", "evict", "disconnect"}
    /\ Holds(connLock[c], t)

\* S7 is request-response over one TCP stream, so an S7Connection must never
\* be used by two tasks at a time, whichever of the read, write, check and
\* shutdown paths they are on, replaced and evicted connections included.
OneUserPerSession ==
    \A c \in Conn : \A t, u \in Task : Using(t, c) /\ Using(u, c) => t = u

\* A request reaches the PLC it was addressed to: the shared connection a
\* caller ends up with after a lookup, a dial or a concurrent replacement was
\* created for its own host:port.
RequestReachesItsPlc ==
    \A t \in Task : pc[t] = "io" => peer[conn[t]] = target[t]

\* t cannot go on before u drops a guard.
BlockedBy(t, u) ==
    LET blocks(l) == Waits(l, t) /\ Holds(l, u)
    IN  blocks(poolLock) \/ blocks(listLock) \/ \E c \in Conn : blocks(connLock[c])

\* Every task of S waits for a guard that another task of S will not drop.
CircularWait(S) == S # {} /\ \A t \in S : \E u \in S : BlockedBy(t, u)

\* The locks of plc_list, the pool and the connections are nested in several
\* orders by the different operations.  The only operation that can close a
\* circle of waiting tasks is test_connection's removal of a connection that
\* failed, which awaits the pool with the connection's guard alive.
HangNeedsEvict ==
    \A S \in SUBSET Task :
        CircularWait(S) => \E t \in S : pc[t] = "evict" /\ conn[t] # NoConn

\* A check waits for the pool to remove connection c, and a task that has
\* the pool waits for c.
EvictHangs ==
    \E t, u \in Task :
        /\ pc[t] = "evict" /\ conn[t] # NoConn
        /\ Waits(poolLock, t)
        /\ Holds(poolLock, u)
        /\ Waits(connLock[conn[t]], u)

\* Every call on the manager, a check, an update and the shutdown included,
\* returns, however they interleave and whatever fails, unless a removal
\* hangs as above.
CallsReturn ==
    \A t \in Task : pc[t] # "idle" ~> (pc[t] \in {"idle", "done"} \/ EvictHangs)

\* The checks repair the pool: a connection whose transport died while its
\* PLC is configured does not stay in the pool for the next read, although
\* is_connected() still reports it connected.
BrokenLeavesPool ==
    \A p \in Plc : \A c \in Conn :
        (pool[p] = c /\ sess[c] = "broken" /\ p \in plcList)
            ~> (pool[p] # c \/ p \notin plcList \/ EvictHangs)

\* README.md: when the check's read_db fails the connection is removed from
\* the pool and the next use builds a new one.
FailedCheckEvicts == \A t \in Checker : pc[t] = "evict" ~> pc[t] # "evict"
=============================================================================
