--------------------------- MODULE S7ManagerProofs ---------------------------
(***************************************************************************)
(* Proofs about S7Manager, for any number of PLCs, connections and tasks.  *)
(*                                                                         *)
(* The inductive invariant ties every request on a lock, granted or        *)
(* waiting, to the place in the code its task is at.  From it follow that  *)
(* a connection has one user, and that no circle of waiting tasks closes   *)
(* without test_connection's removal of a failed connection.               *)
(***************************************************************************)
EXTENDS S7Manager, FairRwLockProofs

Requester == {"lookup", "store", "evict", "insert", "drain"}

\* Who holds or awaits the pool's lock is between asking for it and the
\* end of the scope of its guard.
PoolUse ==
    \A t \in Task :
        /\ Holds(poolLock, t) => pc[t] \in Requester \cup {"probe", "disconnect"}
        /\ Waits(poolLock, t) => pc[t] \in Requester

\* The same for the lock of plc_list: update_plc_list keeps its guard while
\* it awaits the pool.
ListUse ==
    \A t \in Task :
        /\ Holds(listLock, t) => pc[t] \in {"snapshot", "setList", "precreate", "insert"}
        /\ Waits(listLock, t) => pc[t] \in {"snapshot", "setList"}

\* A request on connection c's lock is its task's, for reading in the fast
\* path of connect and for writing everywhere else.
ConnMode(t) == IF pc[t] = "probe" THEN "r" ELSE "w"

ConnUse ==
    \A c \in Conn, t \in Task, m \in Mode :
        /\ HoldsFor(connLock[c], t, m) =>
              /\ conn[t] = c /\ m = ConnMode(t)
              /\ pc[t] \in {"probe", "io", "evict", "disconnect"}
        /\ WaitsFor(connLock[c], t, m) =>
              /\ conn[t] = c /\ m = ConnMode(t)
              /\ pc[t] \in {"probe", "io", "disconnect"}

\* These labels are only reached with a connection in hand.
HasConn ==
    \A t \in Task : pc[t] \in {"probe", "store", "io", "disconnect"} => conn[t] \in Conn

SoundLocks ==
    /\ Sound(poolLock)
    /\ Sound(listLock)
    /\ \A c \in Conn : Sound(connLock[c])

LockDiscipline ==
    TypeOK /\ PoolUse /\ ListUse /\ ConnUse /\ HasConn /\ SoundLocks
-----------------------------------------------------------------------------
(* The operations of a lock, for the tasks of this module                   *)

\* Asking and dropping keep the type of a lock.
LEMMA LockTypes ==
    \A l \in Locks(Task), t \in Task :
        /\ \A m \in Mode : Ask(l, t, m) \in Locks(Task)
        /\ Drop(l, t) \in Locks(Task)
  BY AskLemma, DropLemma

\* Admitting keeps the type of a lock.
LEMMA AdmitTypes == \A l \in Locks(Task) : Admissible(l) => Admit(l) \in Locks(Task)
  BY AdmitLemma

\* The discipline holds when the manager is created.
LEMMA InitDiscipline == Init => LockDiscipline
  <1> SUFFICES ASSUME Init PROVE LockDiscipline
    OBVIOUS
  <1>1. (CHOOSE p \in Plc : TRUE) \in Plc
    BY PlcExists
  <1>2. FreeLock \in Locks(Task) /\ Sound(FreeLock)
    BY FreeLockSound
  <1>3. TypeOK
    BY <1>1, <1>2 DEF Init, TypeOK, Label, PcOf, Task, Session, data, locks
  <1>4. PoolUse /\ ListUse /\ ConnUse
    BY DEF Init, PoolUse, ListUse, ConnUse, FreeLock, Holds, Waits, HoldsFor, WaitsFor
  <1>5. HasConn /\ SoundLocks
    BY <1>2 DEF Init, HasConn, SoundLocks
  <1> QED
    BY <1>3, <1>4, <1>5 DEF LockDiscipline

\* The three parts of the types: labels, data, locks.
PcOK ==
    /\ pc \in [Task -> Label]
    /\ \A t \in Task : pc[t] \in PcOf(t)

DataOK ==
    /\ target \in [Task -> Plc]
    /\ conn \in [Task -> Conn \cup {NoConn}]
    /\ todo \in [Task -> SUBSET Plc]
    /\ pool \in [Plc -> Conn \cup {NoConn}]
    /\ plcList \in SUBSET Plc
    /\ sess \in [Conn -> Session]
    /\ peer \in [Conn -> Plc]

LocksOK ==
    /\ poolLock \in Locks(Task)
    /\ listLock \in Locks(Task)
    /\ connLock \in [Conn -> Locks(Task)]

\* TypeOK is its three parts.
LEMMA TypeParts == TypeOK <=> PcOK /\ DataOK /\ LocksOK
  BY DEF TypeOK, PcOK, DataOK, LocksOK

\* A request on, or a drop of, one connection's lock keeps the type of them all.
LEMMA ConnLockTypes ==
    ASSUME LocksOK, NEW t \in Task, NEW m \in Mode, NEW c
    PROVE  /\ [connLock EXCEPT ![c] = Ask(@, t, m)] \in [Conn -> Locks(Task)]
           /\ [connLock EXCEPT ![c] = Drop(@, t)] \in [Conn -> Locks(Task)]
           /\ [connLock EXCEPT ![c] = Ask(Drop(@, t), t, m)] \in [Conn -> Locks(Task)]
  <1>1. CASE c \in Conn
    BY <1>1, LockTypes DEF LocksOK
  <1>2. CASE c \notin Conn
    BY <1>2 DEF LocksOK
  <1> QED
    BY <1>1, <1>2

\* No step leaves the types.
LEMMA TypeStep == TypeOK /\ [Next]_vars => TypeOK'
  <1> SUFFICES ASSUME PcOK, DataOK, LocksOK, [Next]_vars
               PROVE  PcOK' /\ DataOK' /\ LocksOK'
    BY TypeParts DEF TypeOK, PcOK, DataOK, LocksOK
  <1>1. ASSUME NEW t \in Task, NEW p \in Plc, StartCall(t, p)
        PROVE  PcOK' /\ DataOK' /\ LocksOK'
    <2>1. PcOK'
      BY <1>1 DEF StartCall, AskLookup, PcOK, Goto, Label, PcOf, CallPc
    <2>2. DataOK'
      BY <1>1 DEF StartCall, AskLookup, DataOK, data, Session
    <2>3. LocksOK'
      BY <1>1, LockTypes DEF StartCall, AskLookup, DataOK, LocksOK, locks, Mode
    <2> QED
      BY <2>1, <2>2, <2>3
  <1>2. ASSUME NEW t \in Task, Lookup(t)
        PROVE  PcOK' /\ DataOK' /\ LocksOK'
    <2>1. PcOK'
      BY <1>2 DEF Lookup, PcOK, Goto, Label, PcOf, CallPc
    <2>2. DataOK'
      BY <1>2 DEF Lookup, DataOK, data, Session
    <2>3. LocksOK'
      BY <1>2, LockTypes, ConnLockTypes DEF Lookup, LocksOK, locks, Mode
    <2> QED
      BY <2>1, <2>2, <2>3
  <1>3. ASSUME NEW t \in Task, Probe(t)
        PROVE  PcOK' /\ DataOK' /\ LocksOK'
    <2>1. PcOK'
      BY <1>3 DEF Probe, PcOK, Goto, Label, PcOf, CallPc
    <2>2. DataOK'
      BY <1>3 DEF Probe, DataOK, data, Session
    <2>3. LocksOK'
      BY <1>3, LockTypes, ConnLockTypes DEF Probe, LocksOK, locks, Mode
    <2> QED
      BY <2>1, <2>2, <2>3
  <1>4. ASSUME NEW t \in Task, DialOk(t)
        PROVE  PcOK' /\ DataOK' /\ LocksOK'
    <2>1. PcOK'
      BY <1>4 DEF DialOk, PcOK, Goto, Label, PcOf, CallPc
    <2>2. DataOK'
      BY <1>4 DEF DialOk, DataOK, data, Session
    <2>3. LocksOK'
      BY <1>4, LockTypes DEF DialOk, DataOK, LocksOK, locks, Mode
    <2> QED
      BY <2>1, <2>2, <2>3
  <1>5. ASSUME NEW t \in Task, DialFail(t)
        PROVE  PcOK' /\ DataOK' /\ LocksOK'
    <2>1. PcOK'
      BY <1>5, TasksDisjoint DEF DialFail, PcOK, Goto, Label, PcOf, CallPc
    <2>2. DataOK'
      BY <1>5 DEF DialFail, DataOK, data, Session
    <2>3. LocksOK'
      BY <1>5, LockTypes DEF DialFail, DataOK, LocksOK, locks, Mode
    <2> QED
      BY <2>1, <2>2, <2>3
  <1>6. ASSUME NEW t \in Task, Store(t)
        PROVE  PcOK' /\ DataOK' /\ LocksOK'
    <2>1. PcOK'
      BY <1>6 DEF Store, PcOK, Goto, Label, PcOf, CallPc
    <2>2. DataOK'
      BY <1>6 DEF Store, DataOK, data, Session
    <2>3. LocksOK'
      BY <1>6, LockTypes DEF Store, DataOK, LocksOK, locks, Mode
    <2> QED
      BY <2>1, <2>2, <2>3
  <1>7. ASSUME NEW t \in Task, IoOk(t)
        PROVE  PcOK' /\ DataOK' /\ LocksOK'
    <2>1. PcOK'
      BY <1>7, TasksDisjoint DEF IoOk, PcOK, Goto, Label, PcOf, CallPc
    <2>2. DataOK'
      BY <1>7 DEF IoOk, DataOK, data, Session
    <2>3. LocksOK'
      BY <1>7, LockTypes DEF IoOk, DataOK, LocksOK, locks, Mode
    <2> QED
      BY <2>1, <2>2, <2>3
  <1>8. ASSUME NEW t \in Task, IoFail(t)
        PROVE  PcOK' /\ DataOK' /\ LocksOK'
    <2>1. PcOK'
      BY <1>8, TasksDisjoint DEF IoFail, PcOK, Goto, Label, PcOf, CallPc
    <2>2. DataOK'
      BY <1>8 DEF IoFail, DataOK, data, Session
    <2>3. LocksOK'
      BY <1>8, LockTypes, ConnLockTypes DEF IoFail, LocksOK, locks, Mode
    <2> QED
      BY <2>1, <2>2, <2>3
  <1>9. ASSUME NEW t \in Task, StartCheck(t)
        PROVE  PcOK' /\ DataOK' /\ LocksOK'
    <2>1. PcOK'
      BY <1>9, TasksDisjoint DEF StartCheck, PcOK, Goto, Label, PcOf, CallPc
    <2>2. DataOK'
      BY <1>9 DEF StartCheck, DataOK, data, Session
    <2>3. LocksOK'
      BY <1>9, LockTypes DEF StartCheck, DataOK, LocksOK, locks, Mode
    <2> QED
      BY <2>1, <2>2, <2>3
  <1>10. ASSUME NEW t \in Task, Snapshot(t)
         PROVE  PcOK' /\ DataOK' /\ LocksOK'
    <2>1. PcOK'
      BY <1>10 DEF Snapshot, PcOK, Goto, Label, PcOf, CallPc
    <2>2. DataOK'
      BY <1>10 DEF Snapshot, DataOK, data, Session
    <2>3. LocksOK'
      BY <1>10, LockTypes DEF Snapshot, DataOK, LocksOK, locks, Mode
    <2> QED
      BY <2>1, <2>2, <2>3
  <1>11. ASSUME NEW t \in Task, NextPlc(t)
         PROVE  PcOK' /\ DataOK' /\ LocksOK'
    <2>1. PcOK'
      BY <1>11 DEF NextPlc, AskLookup, PcOK, Goto, Label, PcOf, CallPc
    <2>2. DataOK'
      BY <1>11 DEF NextPlc, AskLookup, DataOK, data, Session
    <2>3. LocksOK'
      BY <1>11, LockTypes DEF NextPlc, AskLookup, DataOK, LocksOK, locks, Mode
    <2> QED
      BY <2>1, <2>2, <2>3
  <1>12. ASSUME NEW t \in Task, Evict(t)
         PROVE  PcOK' /\ DataOK' /\ LocksOK'
    <2>1. PcOK'
      BY <1>12 DEF Evict, PcOK, Goto, Label, PcOf, CallPc
    <2>2. DataOK'
      BY <1>12 DEF Evict, DataOK, data, Session
    <2>3. LocksOK'
      BY <1>12, LockTypes DEF Evict, DataOK, LocksOK, locks, Mode
    <2> QED
      BY <2>1, <2>2, <2>3
  <1>13. ASSUME NEW t \in Task, NEW plcs \in SUBSET Plc \ {{}}, StartUpdate(t, plcs)
         PROVE  PcOK' /\ DataOK' /\ LocksOK'
    <2>1. PcOK'
      BY <1>13, TasksDisjoint DEF StartUpdate, PcOK, Goto, Label, PcOf, CallPc
    <2>2. DataOK'
      BY <1>13 DEF StartUpdate, DataOK, data, Session
    <2>3. LocksOK'
      BY <1>13, LockTypes DEF StartUpdate, DataOK, LocksOK, locks, Mode
    <2> QED
      BY <2>1, <2>2, <2>3
  <1>14. ASSUME NEW t \in Task, SetList(t)
         PROVE  PcOK' /\ DataOK' /\ LocksOK'
    <2>1. PcOK'
      BY <1>14 DEF SetList, PcOK, Goto, Label, PcOf, CallPc
    <2>2. DataOK'
      BY <1>14 DEF SetList, DataOK, data, Session
    <2>3. LocksOK'
      BY <1>14, LockTypes DEF SetList, DataOK, LocksOK, locks, Mode
    <2> QED
      BY <2>1, <2>2, <2>3
  <1>15. ASSUME NEW t \in Task, Precreate(t)
         PROVE  PcOK' /\ DataOK' /\ LocksOK'
    <2>1. PcOK'
      BY <1>15 DEF Precreate, PcOK, Goto, Label, PcOf, CallPc
    <2>2. DataOK'
      BY <1>15 DEF Precreate, DataOK, data, Session
    <2>3. LocksOK'
      BY <1>15, LockTypes DEF Precreate, DataOK, LocksOK, locks, Mode
    <2> QED
      BY <2>1, <2>2, <2>3
  <1>16. ASSUME NEW t \in Task, Insert(t)
         PROVE  PcOK' /\ DataOK' /\ LocksOK'
    <2>1. PcOK'
      BY <1>16 DEF Insert, PcOK, Goto, Label, PcOf, CallPc
    <2>2. DataOK'
      BY <1>16 DEF Insert, DataOK, data, Session
    <2>3. LocksOK'
      BY <1>16, LockTypes DEF Insert, DataOK, LocksOK, locks, Mode
    <2> QED
      BY <2>1, <2>2, <2>3
  <1>17. ASSUME NEW t \in Task, StartClose(t)
         PROVE  PcOK' /\ DataOK' /\ LocksOK'
    <2>1. PcOK'
      BY <1>17, TasksDisjoint DEF StartClose, PcOK, Goto, Label, PcOf, CallPc
    <2>2. DataOK'
      BY <1>17 DEF StartClose, DataOK, data, Session
    <2>3. LocksOK'
      BY <1>17, LockTypes DEF StartClose, DataOK, LocksOK, locks, Mode
    <2> QED
      BY <2>1, <2>2, <2>3
  <1>18. ASSUME NEW t \in Task, Drain(t)
         PROVE  PcOK' /\ DataOK' /\ LocksOK'
    <2>1. PcOK'
      BY <1>18 DEF Drain, PcOK, Goto, Label, PcOf, CallPc
    <2>2. DataOK'
      BY <1>18 DEF Drain, DataOK, data, Session
    <2>3. LocksOK'
      BY <1>18, LockTypes, ConnLockTypes DEF Drain, LocksOK, locks, Mode
    <2> QED
      BY <2>1, <2>2, <2>3
  <1>19. ASSUME NEW t \in Task, Disconnect(t)
         PROVE  PcOK' /\ DataOK' /\ LocksOK'
    <2>1. PcOK'
      BY <1>19 DEF Disconnect, PcOK, Goto, Label, PcOf, CallPc
    <2>2. DataOK'
      BY <1>19 DEF Disconnect, DataOK, data, Session
    <2>3. LocksOK'
      BY <1>19, LockTypes DEF Disconnect, DataOK, LocksOK, locks, Mode
    <2> QED
      BY <2>1, <2>2, <2>3
  <1>20. ASSUME Runtime \/ (\E c \in Conn : Break(c)) \/ UNCHANGED vars
         PROVE  PcOK' /\ DataOK' /\ LocksOK'
    <2>1. PcOK'
      BY <1>20 DEF Runtime, AdmitPool, AdmitList, AdmitConn, Break, vars, PcOK
    <2>2. DataOK'
      BY <1>20 DEF Runtime, AdmitPool, AdmitList, AdmitConn, Break, vars, DataOK, data, Session
    <2>3. LocksOK'
      BY <1>20, AdmitTypes
         DEF Runtime, AdmitPool, AdmitList, AdmitConn, Break, vars, LocksOK, locks
    <2> QED
      BY <2>1, <2>2, <2>3
  <1> QED
    BY <1>1, <1>2, <1>3, <1>4, <1>5, <1>6, <1>7, <1>8, <1>9, <1>10, <1>11, <1>12,
       <1>13, <1>14, <1>15, <1>16, <1>17, <1>18, <1>19, <1>20
       DEF Next, Start, Step, Connect, Request, Check, Update, Close

\* Every variable keeps its type, every task the labels of its own call.
THEOREM TypeCorrect == Spec => []TypeOK
  <1>1. Init => TypeOK
    BY InitDiscipline DEF LockDiscipline
  <1> QED
    BY <1>1, TypeStep, PTL DEF Spec
-----------------------------------------------------------------------------
(* The lock discipline                                                      *)

\* Who holds and who waits after a request was made, dropped, admitted.
LEMMA AskUses ==
    \A l \in Locks(Task), t, u \in Task, m \in Mode :
        /\ Holds(Ask(l, t, m), u) => Holds(l, u) \/ u = t
        /\ Waits(Ask(l, t, m), u) => Waits(l, u) \/ u = t
  BY AskUsesOf

\* A dropped guard leaves the others where they are.
LEMMA DropUses ==
    \A l \in Locks(Task), t, u \in Task :
        /\ Holds(Drop(l, t), u) => Holds(l, u) /\ u # t
        /\ Waits(Drop(l, t), u) <=> Waits(l, u)
  BY DropUsesOf

\* An admitted request was waiting.
LEMMA AdmitUses ==
    \A l \in Locks(Task), u \in Task :
        Admissible(l) =>
            /\ Holds(Admit(l), u) => Holds(l, u) \/ Waits(l, u)
            /\ Waits(Admit(l), u) => Waits(l, u)
  BY AdmitUsesOf

\* A sound lock stays sound, and its holders do not wait for it.
LEMMA StaysSound ==
    \A l \in Locks(Task) : Sound(l) =>
        /\ \A t \in Task, m \in Mode :
              ~Holds(l, t) /\ ~Waits(l, t) => Sound(Ask(l, t, m))
        /\ \A t \in Task : Sound(Drop(l, t))
        /\ Admissible(l) => Sound(Admit(l))
  BY StaysSoundOf

\* Nobody waits for a lock of which it holds a guard.
LEMMA HolderDoesNotWait ==
    \A l \in Locks(Task), t \in Task : Sound(l) /\ Holds(l, t) => ~Waits(l, t)
  BY HolderDoesNotWaitOf

\* A request is a request in one of the modes.
LEMMA ModeFacts ==
    \A l \in Locks(Task), u \in Task :
        /\ Holds(l, u) <=> \E n \in Mode : HoldsFor(l, u, n)
        /\ Waits(l, u) <=> \E n \in Mode : WaitsFor(l, u, n)
  <1> SUFFICES ASSUME NEW l \in Locks(Task), NEW u \in Task
               PROVE  /\ Holds(l, u) <=> \E n \in Mode : HoldsFor(l, u, n)
                      /\ Waits(l, u) <=> \E n \in Mode : WaitsFor(l, u, n)
    OBVIOUS
  <1>0. l.held \in SUBSET Requests(Task) /\ l.queue \in Seq(Requests(Task))
    BY DEF Locks
  <1>1. \A h \in l.held : h = [task |-> h.task, mode |-> h.mode] /\ h.mode \in Mode
    BY <1>0 DEF Requests
  <1>2. \A i \in DOMAIN l.queue : l.queue[i] \in Requests(Task)
    BY <1>0
  <1>3. Holds(l, u) <=> \E n \in Mode : HoldsFor(l, u, n)
    BY <1>1 DEF Holds, HoldsFor
  <1>4. Waits(l, u) <=> \E n \in Mode : WaitsFor(l, u, n)
    <2>1. ASSUME NEW i \in DOMAIN l.queue, l.queue[i].task = u
          PROVE  /\ l.queue[i].mode \in Mode
                 /\ l.queue[i] = [task |-> u, mode |-> l.queue[i].mode]
      BY <1>2, <2>1 DEF Requests
    <2>2. ASSUME NEW i \in DOMAIN l.queue, NEW n \in Mode,
                 l.queue[i] = [task |-> u, mode |-> n]
          PROVE  l.queue[i].task = u
      BY <2>2
    <2> QED
      BY <2>1, <2>2 DEF Waits, WaitsFor
  <1> QED
    BY <1>3, <1>4

\* A request is made in the mode asked for.
LEMMA AskModes ==
    \A l \in Locks(Task), t, u \in Task, m, n \in Mode :
        /\ HoldsFor(Ask(l, t, m), u, n) => HoldsFor(l, u, n) \/ (u = t /\ n = m)
        /\ WaitsFor(Ask(l, t, m), u, n) => WaitsFor(l, u, n) \/ (u = t /\ n = m)
  <1> SUFFICES ASSUME NEW l \in Locks(Task), NEW t \in Task, NEW u \in Task,
                      NEW m \in Mode, NEW n \in Mode
               PROVE  /\ HoldsFor(Ask(l, t, m), u, n) => HoldsFor(l, u, n) \/ (u = t /\ n = m)
                      /\ WaitsFor(Ask(l, t, m), u, n) => WaitsFor(l, u, n) \/ (u = t /\ n = m)
    OBVIOUS
  <1> DEFINE a == Ask(l, t, m)
  <1>1. /\ \A h \in a.held : h \in l.held \/ h = [task |-> t, mode |-> m]
        /\ \A i \in DOMAIN a.queue :
              \/ i \in DOMAIN l.queue /\ a.queue[i] = l.queue[i]
              \/ a.queue[i] = [task |-> t, mode |-> m]
    BY AskLemma
  <1> HIDE DEF a
  <1>2. HoldsFor(a, u, n) => HoldsFor(l, u, n) \/ (u = t /\ n = m)
    BY <1>1 DEF HoldsFor
  <1>3. WaitsFor(a, u, n) => WaitsFor(l, u, n) \/ (u = t /\ n = m)
    BY <1>1 DEF WaitsFor
  <1> QED
    BY <1>2, <1>3 DEF a

\* A drop ends the requests of its task among the guards, in every mode.
LEMMA DropModes ==
    \A l \in Locks(Task), t, u \in Task, n \in Mode :
        /\ HoldsFor(Drop(l, t), u, n) => HoldsFor(l, u, n) /\ u # t
        /\ WaitsFor(Drop(l, t), u, n) <=> WaitsFor(l, u, n)
  <1> SUFFICES ASSUME NEW l \in Locks(Task), NEW t \in Task, NEW u \in Task, NEW n \in Mode
               PROVE  /\ HoldsFor(Drop(l, t), u, n) => HoldsFor(l, u, n) /\ u # t
                      /\ WaitsFor(Drop(l, t), u, n) <=> WaitsFor(l, u, n)
    OBVIOUS
  <1> QED
    BY DEF Drop, HoldsFor, WaitsFor

\* A request is admitted in the mode it waited in.
LEMMA AdmitModes ==
    \A l \in Locks(Task), u \in Task, n \in Mode :
        Admissible(l) =>
            /\ HoldsFor(Admit(l), u, n) => HoldsFor(l, u, n) \/ WaitsFor(l, u, n)
            /\ WaitsFor(Admit(l), u, n) => WaitsFor(l, u, n)
  <1> SUFFICES ASSUME NEW l \in Locks(Task), NEW u \in Task, NEW n \in Mode, Admissible(l)
               PROVE  /\ HoldsFor(Admit(l), u, n) => HoldsFor(l, u, n) \/ WaitsFor(l, u, n)
                      /\ WaitsFor(Admit(l), u, n) => WaitsFor(l, u, n)
    OBVIOUS
  <1> QED
    BY AdmitLemma DEF HoldsFor, WaitsFor

\* A task that is at none of the labels of a connection's users has no
\* request on it; a task at some has none on another connection.
LEMMA NoRequest ==
    ASSUME LockDiscipline
    PROVE  \A c \in Conn, t \in Task :
              \/ pc[t] \notin {"probe", "io", "evict", "disconnect"}
              \/ conn[t] # c
              => ~Holds(connLock[c], t) /\ ~Waits(connLock[c], t)
  BY ModeFacts DEF LockDiscipline, TypeOK, ConnUse

\* The pool's lock is held and awaited where PoolUse says.
LEMMA PoolUseStep == LockDiscipline /\ [Next]_vars => PoolUse'
  <1> SUFFICES ASSUME LockDiscipline, [Next]_vars PROVE PoolUse'
    OBVIOUS
  <1> USE DEF LockDiscipline, TypeOK, PoolUse, Requester, SoundLocks, Goto, Mode, locks, data
  <1>1. ASSUME NEW t \in Task, NEW p \in Plc, StartCall(t, p) PROVE PoolUse'
    BY <1>1, AskUses, DropUses, HolderDoesNotWait DEF StartCall, AskLookup
  <1>2. ASSUME NEW t \in Task, Lookup(t) PROVE PoolUse'
    BY <1>2, AskUses, DropUses, HolderDoesNotWait DEF Lookup
  <1>3. ASSUME NEW t \in Task, Probe(t) PROVE PoolUse'
    BY <1>3, AskUses, DropUses, HolderDoesNotWait DEF Probe
  <1>4. ASSUME NEW t \in Task, DialOk(t) PROVE PoolUse'
    BY <1>4, AskUses, DropUses, HolderDoesNotWait DEF DialOk
  <1>5. ASSUME NEW t \in Task, DialFail(t) PROVE PoolUse'
    BY <1>5, AskUses, DropUses, HolderDoesNotWait DEF DialFail
  <1>6. ASSUME NEW t \in Task, Store(t) PROVE PoolUse'
    BY <1>6, AskUses, DropUses, HolderDoesNotWait DEF Store
  <1>7. ASSUME NEW t \in Task, IoOk(t) PROVE PoolUse'
    BY <1>7 DEF IoOk
  <1>8. ASSUME NEW t \in Task, IoFail(t) PROVE PoolUse'
    BY <1>8, AskUses, DropUses, HolderDoesNotWait DEF IoFail
  <1>9. ASSUME NEW t \in Task, StartCheck(t) PROVE PoolUse'
    BY <1>9 DEF StartCheck
  <1>10. ASSUME NEW t \in Task, Snapshot(t) PROVE PoolUse'
    BY <1>10 DEF Snapshot
  <1>11. ASSUME NEW t \in Task, NextPlc(t) PROVE PoolUse'
    BY <1>11, AskUses, DropUses, HolderDoesNotWait DEF NextPlc, AskLookup
  <1>12. ASSUME NEW t \in Task, Evict(t) PROVE PoolUse'
    BY <1>12, AskUses, DropUses, HolderDoesNotWait DEF Evict
  <1>13. ASSUME NEW t \in Task, NEW plcs \in SUBSET Plc \ {{}}, StartUpdate(t, plcs) PROVE PoolUse'
    BY <1>13 DEF StartUpdate
  <1>14. ASSUME NEW t \in Task, SetList(t) PROVE PoolUse'
    BY <1>14 DEF SetList
  <1>15. ASSUME NEW t \in Task, Precreate(t) PROVE PoolUse'
    BY <1>15, AskUses, DropUses, HolderDoesNotWait DEF Precreate
  <1>16. ASSUME NEW t \in Task, Insert(t) PROVE PoolUse'
    BY <1>16, AskUses, DropUses, HolderDoesNotWait DEF Insert
  <1>17. ASSUME NEW t \in Task, StartClose(t) PROVE PoolUse'
    BY <1>17, AskUses, DropUses, HolderDoesNotWait DEF StartClose
  <1>18. ASSUME NEW t \in Task, Drain(t) PROVE PoolUse'
    <2>1. ~Waits(poolLock, t)
      BY <1>18, HolderDoesNotWait DEF Drain
    <2>2. CASE UNCHANGED poolLock /\ pc' = [pc EXCEPT ![t] = "disconnect"]
      BY <2>1, <2>2
    <2>3. CASE poolLock' = Drop(poolLock, t) /\ pc' = [pc EXCEPT ![t] = "done"]
      BY <2>1, <2>3, DropUses
    <2> QED
      BY <1>18, <2>2, <2>3 DEF Drain
  <1>19. ASSUME NEW t \in Task, Disconnect(t) PROVE PoolUse'
    BY <1>19 DEF Disconnect
  <1>20. ASSUME Runtime \/ (\E c \in Conn : Break(c)) \/ UNCHANGED vars PROVE PoolUse'
    BY <1>20, AdmitUses DEF Runtime, AdmitPool, AdmitList, AdmitConn, Break, vars
  <1> QED
    BY <1>1, <1>2, <1>3, <1>4, <1>5, <1>6, <1>7, <1>8, <1>9, <1>10, <1>11, <1>12,
       <1>13, <1>14, <1>15, <1>16, <1>17, <1>18, <1>19, <1>20
       DEF Next, Start, Step, Connect, Request, Check, Update, Close

\* The list's lock is held and awaited where ListUse says.
LEMMA ListUseStep == LockDiscipline /\ [Next]_vars => ListUse'
  <1> SUFFICES ASSUME LockDiscipline, [Next]_vars PROVE ListUse'
    OBVIOUS
  <1> USE DEF LockDiscipline, TypeOK, ListUse, SoundLocks, Goto, Mode, locks, data
  <1>1. ASSUME NEW t \in Task, NEW p \in Plc, StartCall(t, p) PROVE ListUse'
    BY <1>1 DEF StartCall, AskLookup
  <1>2. ASSUME NEW t \in Task, Lookup(t) PROVE ListUse'
    BY <1>2 DEF Lookup
  <1>3. ASSUME NEW t \in Task, Probe(t) PROVE ListUse'
    BY <1>3 DEF Probe
  <1>4. ASSUME NEW t \in Task, DialOk(t) PROVE ListUse'
    BY <1>4 DEF DialOk
  <1>5. ASSUME NEW t \in Task, DialFail(t) PROVE ListUse'
    BY <1>5 DEF DialFail
  <1>6. ASSUME NEW t \in Task, Store(t) PROVE ListUse'
    BY <1>6 DEF Store
  <1>7. ASSUME NEW t \in Task, IoOk(t) PROVE ListUse'
    BY <1>7 DEF IoOk
  <1>8. ASSUME NEW t \in Task, IoFail(t) PROVE ListUse'
    BY <1>8 DEF IoFail
  <1>9. ASSUME NEW t \in Task, StartCheck(t) PROVE ListUse'
    BY <1>9, AskUses, DropUses, HolderDoesNotWait DEF StartCheck
  <1>10. ASSUME NEW t \in Task, Snapshot(t) PROVE ListUse'
    BY <1>10, AskUses, DropUses, HolderDoesNotWait DEF Snapshot
  <1>11. ASSUME NEW t \in Task, NextPlc(t) PROVE ListUse'
    BY <1>11 DEF NextPlc, AskLookup
  <1>12. ASSUME NEW t \in Task, Evict(t) PROVE ListUse'
    BY <1>12 DEF Evict
  <1>13. ASSUME NEW t \in Task, NEW plcs \in SUBSET Plc \ {{}}, StartUpdate(t, plcs) PROVE ListUse'
    BY <1>13, AskUses, DropUses, HolderDoesNotWait DEF StartUpdate
  <1>14. ASSUME NEW t \in Task, SetList(t) PROVE ListUse'
    BY <1>14, HolderDoesNotWait DEF SetList
  <1>15. ASSUME NEW t \in Task, Precreate(t) PROVE ListUse'
    BY <1>15, AskUses, DropUses, HolderDoesNotWait DEF Precreate
  <1>16. ASSUME NEW t \in Task, Insert(t) PROVE ListUse'
    BY <1>16 DEF Insert
  <1>17. ASSUME NEW t \in Task, StartClose(t) PROVE ListUse'
    BY <1>17 DEF StartClose
  <1>18. ASSUME NEW t \in Task, Drain(t) PROVE ListUse'
    BY <1>18 DEF Drain
  <1>19. ASSUME NEW t \in Task, Disconnect(t) PROVE ListUse'
    BY <1>19 DEF Disconnect
  <1>20. ASSUME Runtime \/ (\E c \in Conn : Break(c)) \/ UNCHANGED vars PROVE ListUse'
    BY <1>20, AdmitUses DEF Runtime, AdmitPool, AdmitList, AdmitConn, Break, vars
  <1> QED
    BY <1>1, <1>2, <1>3, <1>4, <1>5, <1>6, <1>7, <1>8, <1>9, <1>10, <1>11, <1>12,
       <1>13, <1>14, <1>15, <1>16, <1>17, <1>18, <1>19, <1>20
       DEF Next, Start, Step, Connect, Request, Check, Update, Close

\* A task keeps its connection as long as its label needs one.
LEMMA HasConnStep == LockDiscipline /\ [Next]_vars => HasConn'
  <1> SUFFICES ASSUME LockDiscipline, [Next]_vars PROVE HasConn'
    OBVIOUS
  <1> USE NoConnIsNone DEF LockDiscipline, TypeOK, HasConn, Label, Goto, Mode, locks, data
  <1>1. ASSUME NEW t \in Task, NEW p \in Plc, StartCall(t, p) PROVE HasConn'
    BY <1>1 DEF StartCall, AskLookup
  <1>2. ASSUME NEW t \in Task, Lookup(t) PROVE HasConn'
    BY <1>2 DEF Lookup
  <1>3. ASSUME NEW t \in Task, Probe(t) PROVE HasConn'
    BY <1>3 DEF Probe
  <1>4. ASSUME NEW t \in Task, DialOk(t) PROVE HasConn'
    BY <1>4 DEF DialOk
  <1>5. ASSUME NEW t \in Task, DialFail(t) PROVE HasConn'
    BY <1>5 DEF DialFail
  <1>6. ASSUME NEW t \in Task, Store(t) PROVE HasConn'
    BY <1>6 DEF Store
  <1>7. ASSUME NEW t \in Task, IoOk(t) PROVE HasConn'
    BY <1>7 DEF IoOk
  <1>8. ASSUME NEW t \in Task, IoFail(t) PROVE HasConn'
    BY <1>8 DEF IoFail
  <1>9. ASSUME NEW t \in Task, StartCheck(t) PROVE HasConn'
    BY <1>9 DEF StartCheck
  <1>10. ASSUME NEW t \in Task, Snapshot(t) PROVE HasConn'
    BY <1>10 DEF Snapshot
  <1>11. ASSUME NEW t \in Task, NextPlc(t) PROVE HasConn'
    BY <1>11 DEF NextPlc, AskLookup
  <1>12. ASSUME NEW t \in Task, Evict(t) PROVE HasConn'
    BY <1>12 DEF Evict
  <1>13. ASSUME NEW t \in Task, NEW plcs \in SUBSET Plc \ {{}}, StartUpdate(t, plcs) PROVE HasConn'
    BY <1>13 DEF StartUpdate
  <1>14. ASSUME NEW t \in Task, SetList(t) PROVE HasConn'
    BY <1>14 DEF SetList
  <1>15. ASSUME NEW t \in Task, Precreate(t) PROVE HasConn'
    BY <1>15 DEF Precreate
  <1>16. ASSUME NEW t \in Task, Insert(t) PROVE HasConn'
    BY <1>16 DEF Insert
  <1>17. ASSUME NEW t \in Task, StartClose(t) PROVE HasConn'
    BY <1>17 DEF StartClose
  <1>18. ASSUME NEW t \in Task, Drain(t) PROVE HasConn'
    BY <1>18 DEF Drain
  <1>19. ASSUME NEW t \in Task, Disconnect(t) PROVE HasConn'
    BY <1>19 DEF Disconnect
  <1>20. ASSUME Runtime \/ (\E c \in Conn : Break(c)) \/ UNCHANGED vars PROVE HasConn'
    BY <1>20, AdmitUses DEF Runtime, AdmitPool, AdmitList, AdmitConn, Break, vars
  <1> QED
    BY <1>1, <1>2, <1>3, <1>4, <1>5, <1>6, <1>7, <1>8, <1>9, <1>10, <1>11, <1>12,
       <1>13, <1>14, <1>15, <1>16, <1>17, <1>18, <1>19, <1>20
       DEF Next, Start, Step, Connect, Request, Check, Update, Close

\* Nobody asks for the pool's lock with a request on it.
LEMMA SoundPoolStep == LockDiscipline /\ [Next]_vars => Sound(poolLock)'
  <1> SUFFICES ASSUME LockDiscipline, [Next]_vars PROVE Sound(poolLock)'
    OBVIOUS
  <1> USE DEF LockDiscipline, TypeOK, PoolUse, Requester, SoundLocks, Goto, Mode, locks, data
  <1>1. ASSUME NEW t \in Task, NEW p \in Plc, StartCall(t, p) PROVE Sound(poolLock)'
    BY <1>1, StaysSound DEF StartCall, AskLookup
  <1>2. ASSUME NEW t \in Task, Lookup(t) PROVE Sound(poolLock)'
    BY <1>2, StaysSound DEF Lookup
  <1>3. ASSUME NEW t \in Task, Probe(t) PROVE Sound(poolLock)'
    BY <1>3, StaysSound DEF Probe
  <1>4. ASSUME NEW t \in Task, DialOk(t) PROVE Sound(poolLock)'
    BY <1>4, StaysSound DEF DialOk
  <1>5. ASSUME NEW t \in Task, DialFail(t) PROVE Sound(poolLock)'
    BY <1>5, StaysSound DEF DialFail
  <1>6. ASSUME NEW t \in Task, Store(t) PROVE Sound(poolLock)'
    BY <1>6, StaysSound DEF Store
  <1>7. ASSUME NEW t \in Task, IoOk(t) PROVE Sound(poolLock)'
    BY <1>7 DEF IoOk
  <1>8. ASSUME NEW t \in Task, IoFail(t) PROVE Sound(poolLock)'
    <2>1. ~Holds(poolLock, t) /\ ~Waits(poolLock, t)
      BY <1>8 DEF IoFail
    <2>2. poolLock' = poolLock \/ poolLock' = Ask(poolLock, t, "w")
      BY <1>8 DEF IoFail
    <2> QED
      BY <2>1, <2>2, StaysSound
  <1>9. ASSUME NEW t \in Task, StartCheck(t) PROVE Sound(poolLock)'
    BY <1>9 DEF StartCheck
  <1>10. ASSUME NEW t \in Task, Snapshot(t) PROVE Sound(poolLock)'
    BY <1>10 DEF Snapshot
  <1>11. ASSUME NEW t \in Task, NextPlc(t) PROVE Sound(poolLock)'
    BY <1>11, StaysSound DEF NextPlc, AskLookup
  <1>12. ASSUME NEW t \in Task, Evict(t) PROVE Sound(poolLock)'
    BY <1>12, StaysSound DEF Evict
  <1>13. ASSUME NEW t \in Task, NEW plcs \in SUBSET Plc \ {{}}, StartUpdate(t, plcs) PROVE Sound(poolLock)'
    BY <1>13 DEF StartUpdate
  <1>14. ASSUME NEW t \in Task, SetList(t) PROVE Sound(poolLock)'
    BY <1>14 DEF SetList
  <1>15. ASSUME NEW t \in Task, Precreate(t) PROVE Sound(poolLock)'
    BY <1>15, StaysSound DEF Precreate
  <1>16. ASSUME NEW t \in Task, Insert(t) PROVE Sound(poolLock)'
    BY <1>16, StaysSound DEF Insert
  <1>17. ASSUME NEW t \in Task, StartClose(t) PROVE Sound(poolLock)'
    BY <1>17, StaysSound DEF StartClose
  <1>18. ASSUME NEW t \in Task, Drain(t) PROVE Sound(poolLock)'
    BY <1>18, StaysSound DEF Drain
  <1>19. ASSUME NEW t \in Task, Disconnect(t) PROVE Sound(poolLock)'
    BY <1>19 DEF Disconnect
  <1>20. ASSUME Runtime \/ (\E c \in Conn : Break(c)) \/ UNCHANGED vars PROVE Sound(poolLock)'
    BY <1>20, StaysSound DEF Runtime, AdmitPool, AdmitList, AdmitConn, Break, vars
  <1> QED
    BY <1>1, <1>2, <1>3, <1>4, <1>5, <1>6, <1>7, <1>8, <1>9, <1>10, <1>11, <1>12,
       <1>13, <1>14, <1>15, <1>16, <1>17, <1>18, <1>19, <1>20
       DEF Next, Start, Step, Connect, Request, Check, Update, Close

\* The same for the list's lock.
LEMMA SoundListStep == LockDiscipline /\ [Next]_vars => Sound(listLock)'
  <1> SUFFICES ASSUME LockDiscipline, [Next]_vars PROVE Sound(listLock)'
    OBVIOUS
  <1> USE DEF LockDiscipline, TypeOK, ListUse, SoundLocks, Goto, Mode, locks, data
  <1>1. ASSUME NEW t \in Task, NEW p \in Plc, StartCall(t, p) PROVE Sound(listLock)'
    BY <1>1 DEF StartCall, AskLookup
  <1>2. ASSUME NEW t \in Task, Lookup(t) PROVE Sound(listLock)'
    BY <1>2 DEF Lookup
  <1>3. ASSUME NEW t \in Task, Probe(t) PROVE Sound(listLock)'
    BY <1>3 DEF Probe
  <1>4. ASSUME NEW t \in Task, DialOk(t) PROVE Sound(listLock)'
    BY <1>4 DEF DialOk
  <1>5. ASSUME NEW t \in Task, DialFail(t) PROVE Sound(listLock)'
    BY <1>5 DEF DialFail
  <1>6. ASSUME NEW t \in Task, Store(t) PROVE Sound(listLock)'
    BY <1>6 DEF Store
  <1>7. ASSUME NEW t \in Task, IoOk(t) PROVE Sound(listLock)'
    BY <1>7 DEF IoOk
  <1>8. ASSUME NEW t \in Task, IoFail(t) PROVE Sound(listLock)'
    BY <1>8 DEF IoFail
  <1>9. ASSUME NEW t \in Task, StartCheck(t) PROVE Sound(listLock)'
    BY <1>9, StaysSound DEF StartCheck
  <1>10. ASSUME NEW t \in Task, Snapshot(t) PROVE Sound(listLock)'
    BY <1>10, StaysSound DEF Snapshot
  <1>11. ASSUME NEW t \in Task, NextPlc(t) PROVE Sound(listLock)'
    BY <1>11 DEF NextPlc, AskLookup
  <1>12. ASSUME NEW t \in Task, Evict(t) PROVE Sound(listLock)'
    BY <1>12 DEF Evict
  <1>13. ASSUME NEW t \in Task, NEW plcs \in SUBSET Plc \ {{}}, StartUpdate(t, plcs) PROVE Sound(listLock)'
    BY <1>13, StaysSound DEF StartUpdate
  <1>14. ASSUME NEW t \in Task, SetList(t) PROVE Sound(listLock)'
    BY <1>14 DEF SetList
  <1>15. ASSUME NEW t \in Task, Precreate(t) PROVE Sound(listLock)'
    BY <1>15, StaysSound DEF Precreate
  <1>16. ASSUME NEW t \in Task, Insert(t) PROVE Sound(listLock)'
    BY <1>16 DEF Insert
  <1>17. ASSUME NEW t \in Task, StartClose(t) PROVE Sound(listLock)'
    BY <1>17 DEF StartClose
  <1>18. ASSUME NEW t \in Task, Drain(t) PROVE Sound(listLock)'
    BY <1>18 DEF Drain
  <1>19. ASSUME NEW t \in Task, Disconnect(t) PROVE Sound(listLock)'
    BY <1>19 DEF Disconnect
  <1>20. ASSUME Runtime \/ (\E c \in Conn : Break(c)) \/ UNCHANGED vars PROVE Sound(listLock)'
    BY <1>20, StaysSound DEF Runtime, AdmitPool, AdmitList, AdmitConn, Break, vars
  <1> QED
    BY <1>1, <1>2, <1>3, <1>4, <1>5, <1>6, <1>7, <1>8, <1>9, <1>10, <1>11, <1>12,
       <1>13, <1>14, <1>15, <1>16, <1>17, <1>18, <1>19, <1>20
       DEF Next, Start, Step, Connect, Request, Check, Update, Close

\* The same for a connection's lock.
LEMMA SoundConnStep == LockDiscipline /\ [Next]_vars => (\A c \in Conn : Sound(connLock[c]))'
  <1> SUFFICES ASSUME LockDiscipline, [Next]_vars PROVE (\A c \in Conn : Sound(connLock[c]))'
    OBVIOUS
  <1> USE StaysSound, NoRequest DEF LockDiscipline, TypeOK, HasConn, SoundLocks, Goto, Mode, locks, data
  <1>1. ASSUME NEW t \in Task, NEW p \in Plc, StartCall(t, p) PROVE (\A c \in Conn : Sound(connLock[c]))'
    BY <1>1 DEF StartCall, AskLookup
  <1>2. ASSUME NEW t \in Task, Lookup(t) PROVE (\A c \in Conn : Sound(connLock[c]))'
    <2>1. CASE connLock' = connLock
      BY <2>1
    <2>2. CASE connLock' = [connLock EXCEPT ![pool[target[t]]] = Ask(@, t, "r")]
      BY <1>2, <2>2 DEF Lookup
    <2> QED
      BY <1>2, <2>1, <2>2 DEF Lookup
  <1>3. ASSUME NEW t \in Task, Probe(t) PROVE (\A c \in Conn : Sound(connLock[c]))'
    <2> DEFINE c == conn[t]
               d == Drop(connLock[c], t)
    <2>1. c \in Conn /\ Sound(d) /\ d \in Locks(Task)
      BY <1>3, LockTypes DEF Probe
    <2>2. ~Holds(d, t) /\ ~Waits(d, t)
      BY <1>3, <2>1, DropUses, HolderDoesNotWait DEF Probe
    <2>3. Sound(Ask(d, t, "w"))
      BY <2>1, <2>2
    <2>4. \/ connLock' = [connLock EXCEPT ![c] = Ask(d, t, "w")]
          \/ connLock' = [connLock EXCEPT ![c] = d]
      BY <1>3 DEF Probe
    <2> QED
      BY <2>1, <2>3, <2>4
  <1>4. ASSUME NEW t \in Task, DialOk(t) PROVE (\A c \in Conn : Sound(connLock[c]))'
    BY <1>4 DEF DialOk
  <1>5. ASSUME NEW t \in Task, DialFail(t) PROVE (\A c \in Conn : Sound(connLock[c]))'
    BY <1>5 DEF DialFail
  <1>6. ASSUME NEW t \in Task, Store(t) PROVE (\A c \in Conn : Sound(connLock[c]))'
    BY <1>6 DEF Store
  <1>7. ASSUME NEW t \in Task, IoOk(t) PROVE (\A c \in Conn : Sound(connLock[c]))'
    BY <1>7 DEF IoOk
  <1>8. ASSUME NEW t \in Task, IoFail(t) PROVE (\A c \in Conn : Sound(connLock[c]))'
    <2>1. connLock' = connLock \/ connLock' = [connLock EXCEPT ![conn[t]] = Drop(@, t)]
      BY <1>8 DEF IoFail
    <2> QED
      BY <2>1
  <1>9. ASSUME NEW t \in Task, StartCheck(t) PROVE (\A c \in Conn : Sound(connLock[c]))'
    BY <1>9 DEF StartCheck
  <1>10. ASSUME NEW t \in Task, Snapshot(t) PROVE (\A c \in Conn : Sound(connLock[c]))'
    BY <1>10 DEF Snapshot
  <1>11. ASSUME NEW t \in Task, NextPlc(t) PROVE (\A c \in Conn : Sound(connLock[c]))'
    BY <1>11 DEF NextPlc, AskLookup
  <1>12. ASSUME NEW t \in Task, Evict(t) PROVE (\A c \in Conn : Sound(connLock[c]))'
    BY <1>12 DEF Evict
  <1>13. ASSUME NEW t \in Task, NEW plcs \in SUBSET Plc \ {{}}, StartUpdate(t, plcs) PROVE (\A c \in Conn : Sound(connLock[c]))'
    BY <1>13 DEF StartUpdate
  <1>14. ASSUME NEW t \in Task, SetList(t) PROVE (\A c \in Conn : Sound(connLock[c]))'
    BY <1>14 DEF SetList
  <1>15. ASSUME NEW t \in Task, Precreate(t) PROVE (\A c \in Conn : Sound(connLock[c]))'
    BY <1>15 DEF Precreate
  <1>16. ASSUME NEW t \in Task, Insert(t) PROVE (\A c \in Conn : Sound(connLock[c]))'
    BY <1>16 DEF Insert
  <1>17. ASSUME NEW t \in Task, StartClose(t) PROVE (\A c \in Conn : Sound(connLock[c]))'
    BY <1>17 DEF StartClose
  <1>18. ASSUME NEW t \in Task, Drain(t) PROVE (\A c \in Conn : Sound(connLock[c]))'
    <2>1. CASE connLock' = connLock
      BY <2>1
    <2>2. ASSUME NEW p \in Plc, pool[p] # NoConn,
                 connLock' = [connLock EXCEPT ![pool[p]] = Ask(@, t, "w")]
          PROVE  (\A c \in Conn : Sound(connLock[c]))'
      BY <1>18, <2>2 DEF Drain
    <2> QED
      BY <1>18, <2>1, <2>2 DEF Drain
  <1>19. ASSUME NEW t \in Task, Disconnect(t) PROVE (\A c \in Conn : Sound(connLock[c]))'
    BY <1>19 DEF Disconnect
  <1>20. ASSUME Runtime \/ (\E c \in Conn : Break(c)) \/ UNCHANGED vars PROVE (\A c \in Conn : Sound(connLock[c]))'
    <2>1. ASSUME NEW c \in Conn, AdmitConn(c) PROVE (\A d \in Conn : Sound(connLock[d]))'
      BY <2>1 DEF AdmitConn
    <2>2. ASSUME UNCHANGED connLock PROVE (\A d \in Conn : Sound(connLock[d]))'
      BY <2>2
    <2> QED
      BY <1>20, <2>1, <2>2 DEF Runtime, AdmitPool, AdmitList, Break, vars
  <1> QED
    BY <1>1, <1>2, <1>3, <1>4, <1>5, <1>6, <1>7, <1>8, <1>9, <1>10, <1>11, <1>12,
       <1>13, <1>14, <1>15, <1>16, <1>17, <1>18, <1>19, <1>20
       DEF Next, Start, Step, Connect, Request, Check, Update, Close

\* A task that drops its guard on its connection has no request on any.
LEMMA LeaveConn ==
    ASSUME LockDiscipline, NEW t \in Task, NEW l \in Label,
           conn[t] \in Conn, Holds(connLock[conn[t]], t),
           connLock' = [connLock EXCEPT ![conn[t]] = Drop(@, t)],
           conn' = [conn EXCEPT ![t] = NoConn],
           pc' = [pc EXCEPT ![t] = l]
    PROVE  ConnUse'
  <1> USE DEF LockDiscipline, TypeOK, SoundLocks
  <1>1. \A c \in Conn, m \in Mode : ~HoldsFor(connLock'[c], t, m) /\ ~WaitsFor(connLock'[c], t, m)
    <2>1. ASSUME NEW c \in Conn, c # conn[t]
          PROVE  connLock'[c] = connLock[c] /\ ~Holds(connLock[c], t) /\ ~Waits(connLock[c], t)
      BY <2>1, NoRequest
    <2>2. /\ connLock'[conn[t]] = Drop(connLock[conn[t]], t)
          /\ ~Waits(connLock[conn[t]], t)
      BY HolderDoesNotWait
    <2> QED
      BY <2>1, <2>2, DropModes, ModeFacts
  <1>2. ASSUME NEW c \in Conn, NEW u \in Task, u # t, NEW m \in Mode
        PROVE  /\ HoldsFor(connLock'[c], u, m) => HoldsFor(connLock[c], u, m)
               /\ WaitsFor(connLock'[c], u, m) => WaitsFor(connLock[c], u, m)
    BY <1>2, DropModes
  <1> QED
    BY <1>1, <1>2 DEF ConnUse, ConnMode

\* Every request on a connection is its task's, in the mode of its label.
LEMMA ConnUseStep == LockDiscipline /\ [Next]_vars => ConnUse'
  <1> SUFFICES ASSUME LockDiscipline, [Next]_vars PROVE ConnUse'
    OBVIOUS
  <1> USE AskModes, DropModes, DropUses, ModeFacts DEF LockDiscipline, TypeOK, ConnUse, ConnMode, HasConn, SoundLocks, Goto, Mode, locks, data
  <1>1. ASSUME NEW t \in Task, NEW p \in Plc, StartCall(t, p) PROVE ConnUse'
    BY <1>1 DEF StartCall, AskLookup
  <1>2. ASSUME NEW t \in Task, Lookup(t) PROVE ConnUse'
    <2>1. \A c \in Conn : ~Holds(connLock[c], t) /\ ~Waits(connLock[c], t)
      BY <1>2, NoRequest DEF Lookup
    <2>2. CASE UNCHANGED <<conn, connLock>> /\ pc' = [pc EXCEPT ![t] = "dial"]
      BY <2>1, <2>2
    <2>3. CASE /\ pool[target[t]] # NoConn
               /\ conn' = [conn EXCEPT ![t] = pool[target[t]]]
               /\ connLock' = [connLock EXCEPT ![pool[target[t]]] = Ask(@, t, "r")]
               /\ pc' = [pc EXCEPT ![t] = "probe"]
      BY <2>1, <2>3
    <2> QED
      BY <1>2, <2>2, <2>3 DEF Lookup
  <1>3. ASSUME NEW t \in Task, Probe(t) PROVE ConnUse'
    <2> DEFINE c == conn[t]
               d == Drop(connLock[c], t)
    <2>1. c \in Conn /\ d \in Locks(Task) /\ ~Waits(connLock[c], t)
      BY <1>3, LockTypes, HolderDoesNotWait DEF Probe
    <2>2. \A m \in Mode : ~HoldsFor(d, t, m) /\ ~WaitsFor(d, t, m)
      BY <2>1
    <2>3. CASE /\ connLock' = [connLock EXCEPT ![c] = Ask(d, t, "w")]
               /\ conn' = conn
               /\ pc' = [pc EXCEPT ![t] = "io"]
      BY <2>1, <2>2, <2>3
    <2>4. CASE /\ connLock' = [connLock EXCEPT ![c] = d]
               /\ conn' = [conn EXCEPT ![t] = NoConn]
               /\ pc' = [pc EXCEPT ![t] = "dial"]
      BY <1>3, <2>1, <2>2, <2>4, NoRequest
    <2> QED
      BY <1>3, <2>3, <2>4 DEF Probe
  <1>4. ASSUME NEW t \in Task, DialOk(t) PROVE ConnUse'
    BY <1>4 DEF DialOk
  <1>5. ASSUME NEW t \in Task, DialFail(t) PROVE ConnUse'
    BY <1>5 DEF DialFail
  <1>6. ASSUME NEW t \in Task, Store(t) PROVE ConnUse'
    BY <1>6 DEF Store
  <1>7. ASSUME NEW t \in Task, IoOk(t) PROVE ConnUse'
    BY <1>7, LeaveConn DEF IoOk, Label
  <1>8. ASSUME NEW t \in Task, IoFail(t) PROVE ConnUse'
    <2>1. CASE /\ connLock' = [connLock EXCEPT ![conn[t]] = Drop(@, t)]
               /\ conn' = [conn EXCEPT ![t] = NoConn]
               /\ pc' = [pc EXCEPT ![t] = "idle"]
      BY <1>8, <2>1, LeaveConn DEF IoFail, Label
    <2>2. CASE UNCHANGED <<conn, connLock>> /\ pc' = [pc EXCEPT ![t] = "evict"]
      BY <1>8, <2>2, HolderDoesNotWait DEF IoFail
    <2> QED
      BY <1>8, <2>1, <2>2 DEF IoFail
  <1>9. ASSUME NEW t \in Task, StartCheck(t) PROVE ConnUse'
    BY <1>9 DEF StartCheck
  <1>10. ASSUME NEW t \in Task, Snapshot(t) PROVE ConnUse'
    BY <1>10 DEF Snapshot
  <1>11. ASSUME NEW t \in Task, NextPlc(t) PROVE ConnUse'
    BY <1>11 DEF NextPlc, AskLookup
  <1>12. ASSUME NEW t \in Task, Evict(t) PROVE ConnUse'
    <2>1. CASE conn[t] = NoConn
      BY <1>12, <2>1, NoConnIsNone DEF Evict
    <2>2. CASE conn[t] # NoConn
      BY <1>12, <2>2 DEF Evict
    <2> QED
      BY <2>1, <2>2
  <1>13. ASSUME NEW t \in Task, NEW plcs \in SUBSET Plc \ {{}}, StartUpdate(t, plcs) PROVE ConnUse'
    BY <1>13 DEF StartUpdate
  <1>14. ASSUME NEW t \in Task, SetList(t) PROVE ConnUse'
    BY <1>14 DEF SetList
  <1>15. ASSUME NEW t \in Task, Precreate(t) PROVE ConnUse'
    BY <1>15 DEF Precreate
  <1>16. ASSUME NEW t \in Task, Insert(t) PROVE ConnUse'
    BY <1>16 DEF Insert
  <1>17. ASSUME NEW t \in Task, StartClose(t) PROVE ConnUse'
    BY <1>17 DEF StartClose
  <1>18. ASSUME NEW t \in Task, Drain(t) PROVE ConnUse'
    <2>1. CASE connLock' = connLock /\ conn' = conn /\ pc' = [pc EXCEPT ![t] = "done"]
      BY <1>18, <2>1, NoRequest DEF Drain
    <2>2. ASSUME NEW p \in Plc, pool[p] # NoConn,
                 conn' = [conn EXCEPT ![t] = pool[p]],
                 connLock' = [connLock EXCEPT ![pool[p]] = Ask(@, t, "w")],
                 pc' = [pc EXCEPT ![t] = "disconnect"]
          PROVE  ConnUse'
      <3>1. \A c \in Conn : ~Holds(connLock[c], t) /\ ~Waits(connLock[c], t)
        BY <1>18, NoRequest DEF Drain
      <3> QED
        BY <1>18, <2>2, <3>1
    <2> QED
      BY <1>18, <2>1, <2>2 DEF Drain
  <1>19. ASSUME NEW t \in Task, Disconnect(t) PROVE ConnUse'
    BY <1>19, LeaveConn DEF Disconnect, Label
  <1>20. ASSUME Runtime \/ (\E c \in Conn : Break(c)) \/ UNCHANGED vars PROVE ConnUse'
    <2>1. CASE UNCHANGED <<pc, conn, connLock>>
      BY <2>1
    <2>2. ASSUME NEW c \in Conn, AdmitConn(c) PROVE ConnUse'
      BY <2>2, AdmitModes DEF AdmitConn
    <2> QED
      BY <1>20, <2>1, <2>2 DEF Runtime, AdmitPool, AdmitList, Break, vars
  <1> QED
    BY <1>1, <1>2, <1>3, <1>4, <1>5, <1>6, <1>7, <1>8, <1>9, <1>10, <1>11, <1>12,
       <1>13, <1>14, <1>15, <1>16, <1>17, <1>18, <1>19, <1>20
       DEF Next, Start, Step, Connect, Request, Check, Update, Close

\* The discipline is inductive.
LEMMA DisciplineStep == LockDiscipline /\ [Next]_vars => LockDiscipline'
  <1> SUFFICES ASSUME LockDiscipline, [Next]_vars PROVE LockDiscipline'
    OBVIOUS
  <1>1. TypeOK'
    BY TypeStep DEF LockDiscipline
  <1>2. PoolUse' /\ ListUse' /\ HasConn' /\ ConnUse'
    BY PoolUseStep, ListUseStep, HasConnStep, ConnUseStep
  <1>3. SoundLocks'
    BY SoundPoolStep, SoundListStep, SoundConnStep DEF SoundLocks
  <1> QED
    BY <1>1, <1>2, <1>3 DEF LockDiscipline

THEOREM LockDisciplineHolds == Spec => []LockDiscipline
  BY InitDiscipline, DisciplineStep, PTL DEF Spec

-----------------------------------------------------------------------------
(* What follows from it                                                     *)

\* No connection has two users: both would hold its lock for writing.
THEOREM OneUser == Spec => []OneUserPerSession
  <1>1. LockDiscipline => OneUserPerSession
    <2> SUFFICES ASSUME LockDiscipline, NEW c \in Conn, NEW t \in Task, NEW u \in Task,
                        Using(t, c), Using(u, c)
                 PROVE  t = u
      BY DEF OneUserPerSession
    <2> USE DEF LockDiscipline, TypeOK, Using
    <2>1. ASSUME NEW v \in {t, u} PROVE HoldsFor(connLock[c], v, "w")
      <3>1. PICK m \in Mode : HoldsFor(connLock[c], v, m)
        BY <2>1, ModeFacts
      <3>2. m = "w"
        BY <2>1, <3>1 DEF ConnUse, ConnMode
      <3> QED
        BY <3>1, <3>2
    <2>2. [task |-> t, mode |-> "w"] = [task |-> u, mode |-> "w"]
      BY <2>1 DEF SoundLocks, Sound, Exclusive, HoldsFor
    <2> QED
      BY <2>2
  <1> QED
    BY <1>1, LockDisciplineHolds, PTL

(***************************************************************************)
(* In a circle of waiting tasks none of which is removing a failed         *)
(* connection, nobody waits for a connection, because who holds one is not *)
(* waiting; hence nobody waits for the pool, because who holds it can only *)
(* be waiting for a connection; hence nobody waits for the list.           *)
(***************************************************************************)
THEOREM OnlyEvictHangs == Spec => []HangNeedsEvict
  <1>1. LockDiscipline => HangNeedsEvict
    <2> SUFFICES ASSUME LockDiscipline, NEW S \in SUBSET Task, CircularWait(S),
                        \A t \in S : ~(pc[t] = "evict" /\ conn[t] # NoConn)
                 PROVE  FALSE
      BY DEF HangNeedsEvict
    <2> USE DEF LockDiscipline, TypeOK
    <2>1. \A t \in S : \E u \in S : BlockedBy(t, u)
      BY DEF CircularWait
    <2>2. ASSUME NEW t \in S, NEW u \in S, NEW c \in Conn,
                 Waits(connLock[c], t), Holds(connLock[c], u)
          PROVE  FALSE
      <3>1. pc[u] \in {"probe", "io", "evict", "disconnect"} /\ conn[u] = c
        BY <2>2, NoRequest
      <3>2. pc[u] # "evict"
        BY <3>1, NoConnIsNone
      <3>3. \A d \in Conn : ~Waits(connLock[d], u)
        BY <2>2, <3>1, NoRequest, HolderDoesNotWait DEF SoundLocks
      <3>4. ~Waits(poolLock, u) /\ ~Waits(listLock, u)
        BY <3>1, <3>2 DEF PoolUse, ListUse, Requester
      <3> QED
        BY <2>1, <3>3, <3>4 DEF BlockedBy
    <2>3. ASSUME NEW t \in S, NEW u \in S, Waits(poolLock, t), Holds(poolLock, u)
          PROVE  FALSE
      <3>1. ~Waits(poolLock, u)
        BY <2>3, HolderDoesNotWait DEF SoundLocks
      <3>2. ~Waits(listLock, u)
        BY <2>3 DEF PoolUse, ListUse, Requester
      <3> QED
        BY <2>1, <2>2, <3>1, <3>2 DEF BlockedBy
    <2>4. ASSUME NEW t \in S, NEW u \in S, Waits(listLock, t), Holds(listLock, u)
          PROVE  FALSE
      <3>1. ~Waits(listLock, u)
        BY <2>4, HolderDoesNotWait DEF SoundLocks
      <3> QED
        BY <2>1, <2>2, <2>3, <3>1 DEF BlockedBy
    <2> QED
      BY <2>1, <2>2, <2>3, <2>4 DEF CircularWait, BlockedBy
  <1> QED
    BY <1>1, LockDisciplineHolds, PTL
-----------------------------------------------------------------------------
(* Whose connection a request is made on                                    *)

\* The pool maps a PLC to a connection made for it, and so does the variable
\* of a task on its way from the lookup to the request.
PeersMatch ==
    /\ \A p \in Plc : pool[p] # NoConn => peer[pool[p]] = p
    /\ \A t \in Task : pc[t] \in {"probe", "store", "io"} => peer[conn[t]] = target[t]

\* A connection gets another PLC only when it is made anew, and then neither
\* the pool nor a task refers to it.
LEMMA PeersStep == LockDiscipline /\ PeersMatch /\ [Next]_vars => PeersMatch'
  <1> SUFFICES ASSUME LockDiscipline, PeersMatch, [Next]_vars PROVE PeersMatch'
    OBVIOUS
  <1> USE NoConnIsNone DEF LockDiscipline, TypeOK, HasConn, PeersMatch, Label, Goto, locks, data
  <1>1. ASSUME NEW t \in Task, NEW p \in Plc, StartCall(t, p) PROVE PeersMatch'
    BY <1>1 DEF StartCall, AskLookup
  <1>2. ASSUME NEW t \in Task, Lookup(t) PROVE PeersMatch'
    BY <1>2 DEF Lookup
  <1>3. ASSUME NEW t \in Task, Probe(t) PROVE PeersMatch'
    BY <1>3 DEF Probe
  <1>4. ASSUME NEW t \in Task, DialOk(t) PROVE PeersMatch'
    BY <1>4 DEF DialOk, Unreferenced
  <1>5. ASSUME NEW t \in Task, DialFail(t) PROVE PeersMatch'
    BY <1>5 DEF DialFail
  <1>6. ASSUME NEW t \in Task, Store(t) PROVE PeersMatch'
    BY <1>6 DEF Store
  <1>7. ASSUME NEW t \in Task, IoOk(t) PROVE PeersMatch'
    BY <1>7 DEF IoOk
  <1>8. ASSUME NEW t \in Task, IoFail(t) PROVE PeersMatch'
    BY <1>8 DEF IoFail
  <1>9. ASSUME NEW t \in Task, StartCheck(t) PROVE PeersMatch'
    BY <1>9 DEF StartCheck
  <1>10. ASSUME NEW t \in Task, Snapshot(t) PROVE PeersMatch'
    BY <1>10 DEF Snapshot
  <1>11. ASSUME NEW t \in Task, NextPlc(t) PROVE PeersMatch'
    BY <1>11 DEF NextPlc, AskLookup
  <1>12. ASSUME NEW t \in Task, Evict(t) PROVE PeersMatch'
    BY <1>12 DEF Evict
  <1>13. ASSUME NEW t \in Task, NEW plcs \in SUBSET Plc \ {{}}, StartUpdate(t, plcs) PROVE PeersMatch'
    BY <1>13 DEF StartUpdate
  <1>14. ASSUME NEW t \in Task, SetList(t) PROVE PeersMatch'
    BY <1>14 DEF SetList
  <1>15. ASSUME NEW t \in Task, Precreate(t) PROVE PeersMatch'
    BY <1>15 DEF Precreate
  <1>16. ASSUME NEW t \in Task, Insert(t) PROVE PeersMatch'
    BY <1>16 DEF Insert, Unreferenced
  <1>17. ASSUME NEW t \in Task, StartClose(t) PROVE PeersMatch'
    BY <1>17 DEF StartClose
  <1>18. ASSUME NEW t \in Task, Drain(t) PROVE PeersMatch'
    BY <1>18 DEF Drain
  <1>19. ASSUME NEW t \in Task, Disconnect(t) PROVE PeersMatch'
    BY <1>19 DEF Disconnect
  <1>20. ASSUME Runtime \/ (\E c \in Conn : Break(c)) \/ UNCHANGED vars PROVE PeersMatch'
    BY <1>20 DEF Runtime, AdmitPool, AdmitList, AdmitConn, Break, vars
  <1> QED
    BY <1>1, <1>2, <1>3, <1>4, <1>5, <1>6, <1>7, <1>8, <1>9, <1>10, <1>11, <1>12,
       <1>13, <1>14, <1>15, <1>16, <1>17, <1>18, <1>19, <1>20
       DEF Next, Start, Step, Connect, Request, Check, Update, Close

\* With any number of PLCs, every request is made on a connection to the PLC
\* it is addressed to.
THEOREM RequestsReachTheirPlc == Spec => []RequestReachesItsPlc
  <1>1. Init => PeersMatch
    BY DEF Init, PeersMatch
  <1>2. PeersMatch => RequestReachesItsPlc
    BY DEF PeersMatch, RequestReachesItsPlc
  <1> QED
    BY <1>1, <1>2, LockDisciplineHolds, PeersStep, PTL DEF Spec
=============================================================================
