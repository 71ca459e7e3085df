-------------------------- MODULE CloudSessionProofs --------------------------
(***************************************************************************)
(* Proofs about CloudSession, for any number of tasks and answers.  The    *)
(* inductive invariant says where in the code a task can have a request on *)
(* the client's lock: from it follows that no task waits for itself.       *)
(***************************************************************************)
EXTENDS CloudSession, FairRwLockProofs

\* The labels between asking for the client and dropping its guard.
AtLock == {"beat", "register", "send", "check", "setClient"}

ClientUse ==
    \A t \in Task : Holds(clientLock, t) \/ Waits(clientLock, t) => pc[t] \in AtLock

\* A task that sends has an answer left to send.
SomethingLeft == \A t \in Task : pc[t] \in {"compose", "send"} => left[t] >= 1

ClientDiscipline == TypeOK /\ ClientUse /\ SomethingLeft /\ Sound(clientLock)

\* The operations on the lock keep its type.
LEMMA ClientLockTypes ==
    /\ \A l \in Locks(Task), t \in Task :
          /\ \A m \in Mode : Ask(l, t, m) \in Locks(Task)
          /\ Drop(l, t) \in Locks(Task)
    /\ \A l \in Locks(Task) : Admissible(l) => Admit(l) \in Locks(Task)
  BY AskLemma, DropLemma, AdmitLemma

\* Only asking makes a request, dropping ends it, and admitting moves it.
LEMMA ClientLockUses ==
    /\ \A l \in Locks(Task), t, u \in Task, m \in Mode :
          Holds(Ask(l, t, m), u) \/ Waits(Ask(l, t, m), u)
             => Holds(l, u) \/ Waits(l, u) \/ u = t
    /\ \A l \in Locks(Task), t, u \in Task :
          /\ Holds(Drop(l, t), u) => Holds(l, u) /\ u # t
          /\ Waits(Drop(l, t), u) => Waits(l, u)
    /\ \A l \in Locks(Task), u \in Task :
          Admissible(l) /\ (Holds(Admit(l), u) \/ Waits(Admit(l), u))
             => Holds(l, u) \/ Waits(l, u)
<1>1. \A l \in Locks(Task), t, u \in Task, m \in Mode :
          Holds(Ask(l, t, m), u) \/ Waits(Ask(l, t, m), u)
             => Holds(l, u) \/ Waits(l, u) \/ u = t
  BY AskUsesOf
<1>2. \A l \in Locks(Task), t, u \in Task :
          /\ Holds(Drop(l, t), u) => Holds(l, u) /\ u # t
          /\ Waits(Drop(l, t), u) => Waits(l, u)
  BY DropUsesOf
<1>3. \A l \in Locks(Task), u \in Task :
          Admissible(l) /\ (Holds(Admit(l), u) \/ Waits(Admit(l), u))
             => Holds(l, u) \/ Waits(l, u)
  BY AdmitUsesOf
<1>. QED  BY <1>1, <1>2, <1>3

\* The discipline holds when the tasks are spawned.
LEMMA InitClient == Init => ClientDiscipline
<1>. SUFFICES ASSUME Init PROVE ClientDiscipline
  OBVIOUS
<1>1. FreeLock \in Locks(Task) /\ Sound(FreeLock)
  BY FreeLockSound
<1>2. TypeOK
  BY <1>1, RandomAssumption, AnswersBound DEF Init, TypeOK, Label, Kind
<1>3. ClientUse
  BY DEF Init, ClientUse, FreeLock, Holds, Waits
<1>4. SomethingLeft
  BY DEF Init, SomethingLeft
<1>. QED
  BY <1>1, <1>2, <1>3, <1>4 DEF ClientDiscipline, Init

\* A step by which task t comes to ask for the client.
AskStep(t, m, label) ==
    /\ clientLock' = Ask(clientLock, t, m)
    /\ Goto(t, label)

\* A task that asks from a label without a request leaves the lock sound and
\* is at a label of AtLock.
LEMMA AskKeeps ==
    ASSUME ClientDiscipline, NEW t \in Task, NEW m \in Mode, NEW label \in AtLock,
           pc[t] \notin AtLock, AskStep(t, m, label)
    PROVE  clientLock' \in Locks(Task) /\ ClientUse' /\ Sound(clientLock)'
<1>1. clientLock \in Locks(Task) /\ pc \in [Task -> Label]
  BY DEF ClientDiscipline, TypeOK
<1>2. ~Holds(clientLock, t) /\ ~Waits(clientLock, t)
  BY DEF ClientDiscipline, ClientUse
<1>3. Sound(Ask(clientLock, t, m))
  BY <1>1, <1>2, StaysSoundOf DEF ClientDiscipline
<1>4. \A u \in Task : pc'[u] = IF u = t THEN label ELSE pc[u]
  BY <1>1 DEF AskStep, Goto
<1>5. ClientUse'
  BY <1>1, <1>4, ClientLockUses DEF AskStep, ClientUse, ClientDiscipline
<1>. QED
  BY <1>1, <1>3, <1>5, ClientLockTypes DEF AskStep

\* A task that drops its guard has no request left and may go anywhere.
LEMMA DropKeeps ==
    ASSUME ClientDiscipline, NEW t \in Task, NEW label,
           Holds(clientLock, t), Release(t), Goto(t, label)
    PROVE  clientLock' \in Locks(Task) /\ ClientUse' /\ Sound(clientLock)'
<1>1. clientLock \in Locks(Task) /\ pc \in [Task -> Label] /\ Sound(clientLock)
  BY DEF ClientDiscipline, TypeOK
<1>2. ~Waits(clientLock, t)
  BY <1>1, HolderDoesNotWaitOf
<1>3. Sound(Drop(clientLock, t))
  BY <1>1, StaysSoundOf
<1>4. \A u \in Task : u # t => pc'[u] = pc[u]
  BY <1>1 DEF Goto
<1>5. ClientUse'
  BY <1>1, <1>2, <1>4, ClientLockUses DEF Release, ClientUse, ClientDiscipline
<1>. QED
  BY <1>1, <1>3, <1>5, ClientLockTypes DEF Release

\* A task without a request may go anywhere while the lock stays as it is.
LEMMA IdleKeeps ==
    ASSUME ClientDiscipline, NEW t \in Task, NEW label,
           pc[t] \notin AtLock, clientLock' = clientLock, Goto(t, label)
    PROVE  clientLock' \in Locks(Task) /\ ClientUse' /\ Sound(clientLock)'
<1>1. clientLock \in Locks(Task) /\ pc \in [Task -> Label] /\ Sound(clientLock)
  BY DEF ClientDiscipline, TypeOK
<1>2. \A u \in Task : u # t => pc'[u] = pc[u]
  BY <1>1 DEF Goto
<1>. QED
  BY <1>1, <1>2 DEF ClientUse, ClientDiscipline
-----------------------------------------------------------------------------
(* One step per action                                                      *)

\* The types of everything but the lock.
Plain ==
    /\ pc \in [Task -> Label]
    /\ client \in BOOLEAN /\ reachable \in BOOLEAN
    /\ random \in Random
    /\ carried \in [Task -> Random \cup {NoRandom}]
    /\ command \in [Task -> Kind]
    /\ left \in [Task -> 0..MaxAnswers]
    /\ registered \in Random \cup {NoRandom}

\* Every step keeps the types and the answers left.
LEMMA PlainStep ==
    ASSUME ClientDiscipline, [Next]_vars
    PROVE  Plain' /\ SomethingLeft'
<1>. USE DEF Goto, Label, locals
<1>1. Plain /\ SomethingLeft
  BY DEF ClientDiscipline, TypeOK, Plain
<1>. USE DEF Plain, SomethingLeft
<1>2. ASSUME NEW t \in Task, Tick(t) PROVE Plain' /\ SomethingLeft'
  BY <1>1, <1>2 DEF Tick
<1>3. ASSUME NEW t \in Task, AskClient(t) PROVE Plain' /\ SomethingLeft'
  BY <1>1, <1>3 DEF AskClient
<1>4. ASSUME NEW t \in Task, Produce(t) PROVE Plain' /\ SomethingLeft'
  BY <1>1, <1>4, AnswersBound DEF Produce
<1>5. ASSUME NEW t \in Task, StreamCommand(t) PROVE Plain' /\ SomethingLeft'
  BY <1>1, <1>5, CommandKinds DEF StreamCommand
<1>6. ASSUME NEW t \in Task, StreamEnd(t) PROVE Plain' /\ SomethingLeft'
  BY <1>1, <1>6 DEF StreamEnd, Ended
<1>7. ASSUME NEW t \in Task, Beat(t) PROVE Plain' /\ SomethingLeft'
  BY <1>1, <1>7, CommandKinds DEF Beat
<1>8. ASSUME NEW t \in Task, Build(t) PROVE Plain' /\ SomethingLeft'
  BY <1>1, <1>8 DEF Build
<1>9. ASSUME NEW t \in Task, Register(t) PROVE Plain' /\ SomethingLeft'
  BY <1>1, <1>9 DEF Register, Ended
<1>10. ASSUME NEW t \in Task, HandleQuiet(t) PROVE Plain' /\ SomethingLeft'
  BY <1>1, <1>10 DEF HandleQuiet, Return
<1>11. ASSUME NEW t \in Task, HandleAnswer(t) PROVE Plain' /\ SomethingLeft'
  BY <1>1, <1>11, AnswersBound DEF HandleAnswer, Handled, Kind
<1>12. ASSUME NEW t \in Task, HandleReconnect(t) PROVE Plain' /\ SomethingLeft'
  BY <1>1, <1>12 DEF HandleReconnect, Handled, Kind
<1>13. ASSUME NEW t \in Task, Compose(t) PROVE Plain' /\ SomethingLeft'
  BY <1>1, <1>13 DEF Compose
<1>14. ASSUME NEW t \in Task, Send(t) PROVE Plain' /\ SomethingLeft'
  <2>1. left[t] \in 1..MaxAnswers /\ left[t] - 1 \in 0..MaxAnswers
    BY <1>1, <1>14, AnswersBound DEF Send
  <2>2. left' = [left EXCEPT ![t] = left[t] - 1]  BY <1>14 DEF Send
  <2>3. left' \in [Task -> 0..MaxAnswers]  BY <1>1, <2>1, <2>2
  <2>4. left[t] > 1 => left'[t] >= 1  BY <1>1, <2>1, <2>2
  <2>5. SomethingLeft'
    BY <1>1, <1>14, <2>1, <2>2, <2>4 DEF Send, Return
  <2>. QED  BY <1>1, <1>14, <2>3, <2>5 DEF Send, Return
<1>15. ASSUME NEW t \in Task, CheckClient(t) PROVE Plain' /\ SomethingLeft'
  BY <1>1, <1>15 DEF CheckClient
<1>16. ASSUME NEW t \in Task, Dial(t) PROVE Plain' /\ SomethingLeft'
  BY <1>1, <1>16 DEF Dial
<1>17. ASSUME NEW t \in Task, SetClient(t) PROVE Plain' /\ SomethingLeft'
  BY <1>1, <1>17 DEF SetClient
<1>18. CASE AdmitClient  BY <1>1, <1>18 DEF AdmitClient
<1>19. CASE Network  BY <1>1, <1>19 DEF Network
<1>20. CASE UNCHANGED vars  BY <1>1, <1>20 DEF vars
<1>. QED
  BY <1>2, <1>3, <1>4, <1>5, <1>6, <1>7, <1>8, <1>9, <1>10, <1>11, <1>12, <1>13,
     <1>14, <1>15, <1>16, <1>17, <1>18, <1>19, <1>20 DEF Next, Step, Handle

\* The lock's part of the discipline.
LockPart == clientLock \in Locks(Task) /\ ClientUse /\ Sound(clientLock)

\* Every step keeps the lock's part.
LEMMA LockStep ==
    ASSUME ClientDiscipline, [Next]_vars
    PROVE  LockPart'
<1>. USE DEF LockPart
<1>1. clientLock \in Locks(Task) /\ ClientUse /\ Sound(clientLock)
  BY DEF ClientDiscipline, TypeOK
<1>2. ASSUME NEW t \in Task, Tick(t) \/ AskClient(t) \/ Build(t) \/ Compose(t)
      PROVE  LockPart'
  <2>1. \E m \in Mode, label \in AtLock : pc[t] \notin AtLock /\ AskStep(t, m, label)
    BY <1>2 DEF Tick, AskClient, Build, Compose, AskStep, Mode, AtLock
  <2>. QED  BY <2>1, AskKeeps
<1>3. ASSUME NEW t \in Task,
             Beat(t) \/ Register(t) \/ Send(t) \/ CheckClient(t) \/ SetClient(t)
      PROVE  LockPart'
  <2>1. Holds(clientLock, t) /\ Release(t) /\ \E label : Goto(t, label)
    BY <1>3 DEF Beat, Register, Send, CheckClient, SetClient
  <2>. QED  BY <2>1, DropKeeps
<1>4. ASSUME NEW t \in Task,
             Produce(t) \/ StreamCommand(t) \/ StreamEnd(t) \/ Handle(t)
      PROVE  LockPart'
  <2>1. pc[t] \notin AtLock /\ clientLock' = clientLock /\ \E label : Goto(t, label)
    BY <1>4 DEF Produce, StreamCommand, StreamEnd, Handle, HandleQuiet,
                HandleAnswer, HandleReconnect, AtLock
  <2>. QED  BY <2>1, IdleKeeps
<1>5. ASSUME NEW t \in Task, Dial(t) PROVE LockPart'
  <2>1. pc[t] \notin AtLock  BY <1>5 DEF Dial, AtLock
  <2>2. CASE clientLock' = clientLock /\ Goto(t, "idle")
    BY <2>1, <2>2, IdleKeeps
  <2>3. CASE AskStep(t, "w", "setClient")
    BY <2>1, <2>3, AskKeeps DEF Mode, AtLock
  <2>. QED  BY <1>5, <2>2, <2>3 DEF Dial, AskStep
<1>6. CASE AdmitClient
  <2>1. clientLock' = Admit(clientLock) /\ Admissible(clientLock) /\ pc' = pc
    BY <1>6 DEF AdmitClient
  <2>2. ClientUse'  BY <1>1, <2>1, ClientLockUses DEF ClientUse
  <2>. QED  BY <1>1, <2>1, <2>2, ClientLockTypes, StaysSoundOf
<1>7. CASE Network \/ UNCHANGED vars
  BY <1>1, <1>7 DEF Network, vars, ClientUse
<1>. QED
  BY <1>2, <1>3, <1>4, <1>5, <1>6, <1>7 DEF Next, Step

\* Every variable keeps its type, and a task has a request on the client's
\* lock only between asking for it and dropping its guard.
THEOREM ClientDisciplineHolds == Spec => []ClientDiscipline
<1>1. ClientDiscipline /\ [Next]_vars => ClientDiscipline'
  BY PlainStep, LockStep DEF ClientDiscipline, Plain, LockPart, TypeOK
<1>. QED
  BY InitClient, <1>1, PTL DEF Spec

\* The variables of the session keep their types.
THEOREM SessionTypes == Spec => []TypeOK
<1>1. ClientDiscipline => TypeOK  BY DEF ClientDiscipline
<1>. QED  BY <1>1, ClientDisciplineHolds, PTL

\* No task waits for the client while it holds it, with any number of
\* senders, commands and answers.
THEOREM NobodyWaitsForItself == Spec => []NeverTwice
<1>1. ClientDiscipline => NeverTwice
  BY HolderDoesNotWaitOf DEF ClientDiscipline, TypeOK, NeverTwice
<1>. QED  BY <1>1, ClientDisciplineHolds, PTL
=============================================================================
