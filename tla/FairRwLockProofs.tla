-------------------------- MODULE FairRwLockProofs --------------------------
(***************************************************************************)
(* What asking for, dropping and admitting a request do to a lock: the     *)
(* facts the proofs about its users rest on.                               *)
(***************************************************************************)
EXTENDS FairRwLock, TLAPS

\* A writer's guard is alone.
Exclusive(l) == \A g, h \in l.held : g.mode = "w" => h = g

\* A task has at most one request on the lock, granted or waiting.
OneRequestEach(l) ==
    /\ \A h \in l.held, i \in DOMAIN l.queue : h.task # l.queue[i].task
    /\ \A i, j \in DOMAIN l.queue : l.queue[i].task = l.queue[j].task => i = j

\* The requests with their mode.
HoldsFor(l, t, m) == [task |-> t, mode |-> m] \in l.held

WaitsFor(l, t, m) == \E i \in DOMAIN l.queue : l.queue[i] = [task |-> t, mode |-> m]

Sound(l) == Exclusive(l) /\ OneRequestEach(l)

\* A lock nobody has asked for is sound.
LEMMA FreeLockSound ==
    ASSUME NEW T
    PROVE  FreeLock \in Locks(T) /\ Sound(FreeLock)
  BY DEF FreeLock, Locks, Sound, Exclusive, OneRequestEach

\* Asking: the lock stays sound when the task has no other request on it,
\* and only that task's request is new.
LEMMA AskLemma ==
    ASSUME NEW T, NEW l \in Locks(T), NEW t \in T, NEW m \in Mode
    PROVE  /\ Ask(l, t, m) \in Locks(T)
           /\ \A h \in Ask(l, t, m).held :
                 h \in l.held \/ h = [task |-> t, mode |-> m]
           /\ \A i \in DOMAIN Ask(l, t, m).queue :
                 \/ i \in DOMAIN l.queue /\ Ask(l, t, m).queue[i] = l.queue[i]
                 \/ Ask(l, t, m).queue[i] = [task |-> t, mode |-> m]
           /\ Sound(l) /\ ~Holds(l, t) /\ ~Waits(l, t) => Sound(Ask(l, t, m))
  <1> DEFINE req == [task |-> t, mode |-> m]
             a   == Ask(l, t, m)
  <1>0. req \in Requests(T) /\ l.held \in SUBSET Requests(T)
        /\ l.queue \in Seq(Requests(T)) /\ req.task = t /\ req.mode = m
    BY DEF Requests, Locks
  <1>1. CASE l.queue = <<>> /\ Compatible(l, m)
    <2>1. a = [held |-> l.held \cup {req}, queue |-> l.queue]
      BY <1>1 DEF Ask
    <2>2. a \in Locks(T)
      BY <2>1, <1>0 DEF Locks
    <2>3. ASSUME Sound(l), ~Holds(l, t) PROVE Sound(a)
      BY <2>1, <2>3, <1>0, <1>1
         DEF Sound, Exclusive, OneRequestEach, Holds, Compatible, Mode, Requests
    <2> QED
      BY <2>1, <2>2, <2>3
  <1>2. CASE ~(l.queue = <<>> /\ Compatible(l, m))
    <2>1. a = [held |-> l.held, queue |-> Append(l.queue, req)]
      BY <1>2 DEF Ask
    <2>2. a \in Locks(T)
      BY <2>1, <1>0 DEF Locks
    <2>3. /\ Len(a.queue) = Len(l.queue) + 1
          /\ DOMAIN a.queue = 1..Len(l.queue) + 1
          /\ DOMAIN l.queue = 1..Len(l.queue)
          /\ \A i \in 1..Len(l.queue) : a.queue[i] = l.queue[i]
          /\ a.queue[Len(l.queue) + 1] = req
      BY <2>1, <1>0
    <2>4. Len(l.queue) \in Nat
      BY <1>0
    <2>5. \A i \in DOMAIN a.queue :
             i \in DOMAIN l.queue \/ i = Len(l.queue) + 1
      BY <2>3, <2>4
    <2>6. ASSUME Sound(l), ~Holds(l, t), ~Waits(l, t) PROVE Sound(a)
      <3>1. Exclusive(a)
        BY <2>1, <2>6 DEF Sound, Exclusive
      <3>2. OneRequestEach(a)
        BY <2>1, <2>3, <2>5, <2>6, <1>0
           DEF Sound, OneRequestEach, Holds, Waits
      <3> QED
        BY <3>1, <3>2 DEF Sound
    <2> QED
      BY <2>1, <2>2, <2>3, <2>5, <2>6
  <1> QED
    BY <1>1, <1>2

\* Dropping: the other tasks keep what they have, the task keeps nothing.
LEMMA DropLemma ==
    ASSUME NEW T, NEW l \in Locks(T), NEW t \in T
    PROVE  /\ Drop(l, t) \in Locks(T)
           /\ \A h \in Drop(l, t).held : h \in l.held /\ h.task # t
           /\ ~Holds(Drop(l, t), t)
           /\ Drop(l, t).queue = l.queue
           /\ Sound(l) => Sound(Drop(l, t))
           /\ Sound(l) /\ Holds(l, t) => ~Waits(Drop(l, t), t)
  BY DEF Drop, Locks, Holds, Waits, Sound, Exclusive, OneRequestEach

\* Admitting: the head of the queue becomes a guard, nothing else changes.
LEMMA AdmitLemma ==
    ASSUME NEW T, NEW l \in Locks(T), Admissible(l)
    PROVE  /\ Admit(l) \in Locks(T)
           /\ \A h \in Admit(l).held :
                 h \in l.held \/ \E i \in DOMAIN l.queue : h = l.queue[i]
           /\ \A i \in DOMAIN Admit(l).queue :
                 \E j \in DOMAIN l.queue : Admit(l).queue[i] = l.queue[j]
           /\ Sound(l) => Sound(Admit(l))
  <1> DEFINE a == Admit(l)
  <1>0. l.held \in SUBSET Requests(T) /\ l.queue \in Seq(Requests(T))
        /\ l.queue # <<>>
    BY DEF Locks, Admissible
  <1>1. a = [held |-> l.held \cup {Head(l.queue)}, queue |-> Tail(l.queue)]
    BY DEF Admit
  <1>2. /\ DOMAIN l.queue = 1..Len(l.queue)
        /\ Len(l.queue) \in Nat /\ Len(l.queue) >= 1
        /\ Head(l.queue) = l.queue[1]
        /\ l.queue[1] \in Requests(T)
    BY <1>0
  <1>3. /\ Tail(l.queue) \in Seq(Requests(T))
        /\ DOMAIN Tail(l.queue) = 1..(Len(l.queue) - 1)
        /\ \A i \in 1..(Len(l.queue) - 1) : Tail(l.queue)[i] = l.queue[i + 1]
    BY <1>0, <1>2
  <1>4. a \in Locks(T)
    BY <1>0, <1>1, <1>2, <1>3 DEF Locks
  <1>5. \A i \in DOMAIN a.queue :
           i + 1 \in DOMAIN l.queue /\ i + 1 # 1 /\ a.queue[i] = l.queue[i + 1]
    BY <1>1, <1>2, <1>3
  <1>6. ASSUME Sound(l) PROVE Sound(a)
    <2>1. Exclusive(a)
      <3>1. /\ l.queue[1].mode = "w" => l.held = {}
            /\ l.queue[1].mode # "w" => \A h \in l.held : h.mode = "r"
        BY <1>2 DEF Admissible, Compatible
      <3>2. a.held = l.held \cup {l.queue[1]}
        BY <1>1, <1>2
      <3>3. CASE l.queue[1].mode = "w"
        BY <3>1, <3>2, <3>3 DEF Exclusive
      <3>4. CASE l.queue[1].mode # "w"
        <4>1. \A h \in a.held : h.mode # "w"
          BY <3>1, <3>2, <3>4
        <4> QED
          BY <4>1 DEF Exclusive
      <3> QED
        BY <3>3, <3>4
    <2>2. OneRequestEach(a)
      <3>1. ASSUME NEW h \in a.held, NEW i \in DOMAIN a.queue
            PROVE  h.task # a.queue[i].task
        <4>1. i + 1 \in DOMAIN l.queue /\ i + 1 # 1 /\ a.queue[i] = l.queue[i + 1]
          BY <3>1, <1>5
        <4>2. CASE h \in l.held
          BY <4>1, <4>2, <1>6 DEF Sound, OneRequestEach
        <4>3. CASE h = l.queue[1]
          <5>1. 1 \in DOMAIN l.queue
            BY <1>2
          <5> QED
            BY <4>1, <4>3, <5>1, <1>6 DEF Sound, OneRequestEach
        <4> QED
          BY <3>1, <4>2, <4>3, <1>1, <1>2
      <3>2. ASSUME NEW i \in DOMAIN a.queue, NEW j \in DOMAIN a.queue,
                   a.queue[i].task = a.queue[j].task
            PROVE  i = j
        <4>1. i + 1 = j + 1
          BY <3>2, <1>5, <1>6 DEF Sound, OneRequestEach
        <4>2. i \in Nat /\ j \in Nat
          BY <1>1, <1>2, <1>3, <3>2
        <4> QED BY <4>1, <4>2
      <3> QED BY <3>1, <3>2 DEF OneRequestEach
    <2> QED BY <2>1, <2>2 DEF Sound
  <1> QED
    BY <1>1, <1>2, <1>4, <1>5, <1>6

\* Who holds and who waits after a request was made: who did before, and
\* the task that made it.
LEMMA AskUsesOf ==
    ASSUME NEW T
    PROVE
    \A l \in Locks(T), t, u \in T, m \in Mode :
        /\ Holds(Ask(l, t, m), u) => Holds(l, u) \/ u = t
        /\ Waits(Ask(l, t, m), u) => Waits(l, u) \/ u = t
  <1> SUFFICES ASSUME NEW l \in Locks(T), NEW t \in T, NEW u \in T, NEW m \in Mode
               PROVE  /\ Holds(Ask(l, t, m), u) => Holds(l, u) \/ u = t
                      /\ Waits(Ask(l, t, m), u) => Waits(l, u) \/ u = t
    OBVIOUS
  <1> DEFINE a == Ask(l, t, m)
  <1>1. /\ \A h \in a.held : h \in l.held \/ h = [task |-> t, mode |-> m]
        /\ \A i \in DOMAIN a.queue :
              \/ i \in DOMAIN l.queue /\ a.queue[i] = l.queue[i]
              \/ a.queue[i] = [task |-> t, mode |-> m]
    BY AskLemma
  <1> HIDE DEF a
  <1>2. Holds(a, u) => Holds(l, u) \/ u = t
    BY <1>1 DEF Holds
  <1>3. Waits(a, u) => Waits(l, u) \/ u = t
    BY <1>1 DEF Waits
  <1> QED
    BY <1>2, <1>3 DEF a

\* ... after a guard was dropped: nobody new, and no longer its task.
LEMMA DropUsesOf ==
    ASSUME NEW T
    PROVE
    \A l \in Locks(T), t, u \in T :
        /\ Holds(Drop(l, t), u) => Holds(l, u) /\ u # t
        /\ Waits(Drop(l, t), u) <=> Waits(l, u)
  <1> SUFFICES ASSUME NEW l \in Locks(T), NEW t \in T, NEW u \in T
               PROVE  /\ Holds(Drop(l, t), u) => Holds(l, u) /\ u # t
                      /\ Waits(Drop(l, t), u) <=> Waits(l, u)
    OBVIOUS
  <1> QED
    BY DropLemma DEF Holds, Waits

\* ... after the head of the queue was admitted: a task that waited holds.
LEMMA AdmitUsesOf ==
    ASSUME NEW T
    PROVE
    \A l \in Locks(T), u \in T :
        Admissible(l) =>
            /\ Holds(Admit(l), u) => Holds(l, u) \/ Waits(l, u)
            /\ Waits(Admit(l), u) => Waits(l, u)
  <1> SUFFICES ASSUME NEW l \in Locks(T), NEW u \in T, Admissible(l)
               PROVE  /\ Holds(Admit(l), u) => Holds(l, u) \/ Waits(l, u)
                      /\ Waits(Admit(l), u) => Waits(l, u)
    OBVIOUS
  <1> QED
    BY AdmitLemma DEF Holds, Waits

\* A sound lock stays sound under every operation.
LEMMA StaysSoundOf ==
    ASSUME NEW T
    PROVE
    \A l \in Locks(T) : Sound(l) =>
        /\ \A t \in T, m \in Mode :
              ~Holds(l, t) /\ ~Waits(l, t) => Sound(Ask(l, t, m))
        /\ \A t \in T : Sound(Drop(l, t))
        /\ Admissible(l) => Sound(Admit(l))
  BY AskLemma, DropLemma, AdmitLemma

\* The holder of a sound lock does not wait for it.
LEMMA HolderDoesNotWaitOf ==
    ASSUME NEW T
    PROVE
    \A l \in Locks(T), t \in T : Sound(l) /\ Holds(l, t) => ~Waits(l, t)
  BY DEF Sound, OneRequestEach, Holds, Waits
=============================================================================
