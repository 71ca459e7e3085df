------------------------ MODULE MonitorProcessorProofs ------------------------
(***************************************************************************)
(* Theorems about MonitorProcessor, for every set of monitors, blocks,     *)
(* values and posts: its types, and that what the cache keeps from the     *)
(* cloud the cloud has been sent.                                          *)
(***************************************************************************)
EXTENDS MonitorProcessor, SequenceTheorems, TLAPS

\* TypeOK with what makes it inductive: only what the cloud has sent is read.
TypeInv ==
    /\ TypeOK
    /\ monitors \cup updating \cup snap \subseteq UNION sent
    /\ pc = "reading" => current \in UNION sent

\* What a push may change keeps its type.
LEMMA PushType ==
    ASSUME TypeOK, NEW m \in Monitor, NEW s \in State, s.data # NoValue, Push(m, s)
    PROVE  /\ pc' \in {"next", "dead"}
           /\ messages' \in Seq(Message)
           /\ posts' \in [Message -> 0..MaxPosts]
<1>1. MessageOf(m, s) \in Message
  BY DEF MessageOf, Message, State
<1>2. CASE m.decodes
  BY <1>2 DEF Push, TypeOK
<1>3. CASE ~m.decodes
  <2>1. posts[MessageOf(m, s)] + 1 \in 0..MaxPosts
    BY <1>1, <1>3, PostsBound DEF Push, TypeOK
  <2>2. posts' \in [Message -> 0..MaxPosts]
    BY <1>1, <1>3, <2>1 DEF Push, TypeOK
  <2>3. messages' \in Seq(Message)
    <3>1. messages' = Append(messages, MessageOf(m, s))
      BY <1>3 DEF Push
    <3>. QED  BY <1>1, <3>1, AppendProperties DEF TypeOK
  <2>. QED  BY <1>3, <2>2, <2>3 DEF Push
<1>. QED  BY <1>2, <1>3

\* So does the end of a visit.
LEMMA ResendType ==
    ASSUME TypeOK, NEW m \in Monitor, NEW s \in State, Resend(m, s)
    PROVE  /\ states' \in [Id -> State]
           /\ pc' \in {"next", "dead"}
           /\ messages' \in Seq(Message)
           /\ posts' \in [Message -> 0..MaxPosts]
<1>1. [s EXCEPT !.sendDue = FALSE] \in State  BY DEF State
<1>2. states' \in [Id -> State]
  BY <1>1 DEF Resend, TypeOK
<1>3. CASE s.sendDue /\ s.data # NoValue
  BY <1>2, <1>3, PushType DEF Resend
<1>4. CASE ~(s.sendDue /\ s.data # NoValue)
  BY <1>2, <1>4 DEF Resend, TypeOK
<1>. QED  BY <1>3, <1>4

\* A monitor that the cloud has sent has an id and a block with contents.
LEMMA SentMonitor ==
    ASSUME TypeOK, NEW m \in UNION sent
    PROVE  /\ m \in Monitor
           /\ m.id \in Id /\ states[m.id] \in State
           /\ plc[m.block] \in Value
<1>1. m \in Monitor  BY ConfigsAssumption DEF TypeOK
<1>2. m.id \in Id  BY <1>1, MonitorRecords
<1>3. m.block \in Monitored  BY DEF Monitored
<1>. QED  BY <1>1, <1>2, <1>3 DEF TypeOK

LEMMA InitTypes == Init => TypeInv
<1>. SUFFICES ASSUME Init PROVE TypeInv
  OBVIOUS
<1>1. states \in [Id -> State]  BY DEF Init, NoState, State
<1>2. posts \in [Message -> 0..MaxPosts]  BY PostsBound DEF Init
<1>. QED  BY <1>1, <1>2 DEF Init, TypeInv, TypeOK

\* The end of a read.
LEMMA ReadTypes ==
    ASSUME TypeInv, ReadOk
    PROVE  TypeInv'
<1>. DEFINE m == current
            read == [states[m.id] EXCEPT !.data = plc[m.block], !.readDue = FALSE]
<1>1. pc = "reading" /\ m \in UNION sent  BY DEF ReadOk, TypeInv
<1>2. m \in Monitor /\ m.id \in Id /\ states[m.id] \in State /\ plc[m.block] \in Value
  BY <1>1, SentMonitor DEF TypeInv
<1>3. read \in State /\ [read EXCEPT !.sendDue = FALSE] \in State
      /\ read.data = plc[m.block] /\ read.data # NoValue
  BY <1>2, NoValueIsNone DEF State
<1>4. /\ states' \in [Id -> State]
      /\ pc' \in {"next", "dead"}
      /\ messages' \in Seq(Message)
      /\ posts' \in [Message -> 0..MaxPosts]
  <2>1. CASE plc[m.block] # states[m.id].data
    <3>1. /\ states' = [states EXCEPT ![m.id] = [read EXCEPT !.sendDue = FALSE]]
          /\ Push(m, read)
      BY <2>1 DEF ReadOk
    <3>2. states' \in [Id -> State]  BY <1>2, <1>3, <3>1 DEF TypeInv, TypeOK
    <3>. HIDE DEF read, m
    <3>. QED  BY <1>2, <1>3, <3>1, <3>2, PushType DEF TypeInv
  <2>2. CASE plc[m.block] = states[m.id].data
    <3>1. Resend(m, read)  BY <2>2 DEF ReadOk
    <3>. HIDE DEF read, m
    <3>. QED  BY <1>2, <1>3, <3>1, ResendType DEF TypeInv
  <2>. QED  BY <2>1, <2>2
<1>5. /\ current' = NoMonitor
      /\ UNCHANGED <<plc, sent, monitors, updating, removing, snap, seen, lost, heard>>
  BY DEF ReadOk, outside, update, cloud
<1>. HIDE DEF read, m
<1>. QED  BY <1>4, <1>5 DEF TypeInv, TypeOK, Monitored

\* The next visit of a pass.
LEMMA VisitTypes ==
    ASSUME TypeInv, NEW m \in Monitor, Visit(m)
    PROVE  TypeInv'
<1>1. m \in UNION sent  BY DEF Visit, TypeInv
<1>2. m.id \in Id /\ states[m.id] \in State  BY <1>1, SentMonitor DEF TypeInv
<1>3. /\ states' \in [Id -> State]
      /\ messages' \in Seq(Message)
      /\ posts' \in [Message -> 0..MaxPosts]
      /\ \/ pc' = "reading" /\ current' = m
         \/ pc' \in {"next", "dead"} /\ current' = current
  <2>1. CASE states[m.id].readDue
    BY <2>1 DEF Visit, TypeInv, TypeOK
  <2>2. CASE ~states[m.id].readDue
    <3>1. Resend(m, states[m.id]) /\ current' = current  BY <2>2 DEF Visit
    <3>. QED  BY <1>2, <3>1, ResendType DEF TypeInv
  <2>. QED  BY <2>1, <2>2
<1>4. /\ snap' \subseteq snap
      /\ UNCHANGED <<plc, sent, monitors, updating, removing, seen, lost, heard>>
  BY DEF Visit, outside, update, cloud
<1>. QED  BY <1>1, <1>3, <1>4 DEF TypeInv, TypeOK, Monitored

\* A message, if there is one, is of the right type, and so is the rest.
LEMMA DequeueTypes ==
    ASSUME TypeOK, messages # <<>>
    PROVE  /\ Head(messages) \in Message
           /\ Head(messages).about.id \in Id
           /\ Tail(messages) \in Seq(Message)
<1>1. Head(messages) \in Message /\ Tail(messages) \in Seq(Message)
  BY HeadTailProperties DEF TypeOK
<1>. QED  BY <1>1, MonitorRecords DEF Message

\* Every step keeps the types.
LEMMA StepTypes == TypeInv /\ [Next]_vars => TypeInv'
<1>. SUFFICES ASSUME TypeInv, [Next]_vars PROVE TypeInv'
  OBVIOUS
<1>. USE DEF TypeInv, TypeOK, Monitored, outside, loop, update, cloud, local
<1>1. ASSUME NEW new \in SUBSET Monitor, BeginUpdate(new)  PROVE TypeInv'
  BY <1>1, ConfigsAssumption DEF BeginUpdate
<1>2. ASSUME NEW m \in Monitor, RemoveOne(m)  PROVE TypeInv'
  <2>1. states' \in [Id -> State]  BY <1>2 DEF RemoveOne, NoState, State
  <2>. QED  BY <1>2, <2>1 DEF RemoveOne
<1>3. CASE EndUpdate
  BY <1>3 DEF EndUpdate
<1>4. CASE Snapshot \/ EndPass \/ EndDelivery
  BY <1>4 DEF Snapshot, EndPass, EndDelivery
<1>5. ASSUME NEW m \in Monitor, Visit(m)  PROVE TypeInv'
  BY <1>5, VisitTypes
<1>6. CASE ReadOk
  BY <1>6, ReadTypes
<1>7. CASE ReadFail
  <2>1. current \in UNION sent  BY <1>7 DEF ReadFail
  <2>2. current \in Monitor /\ states[current.id] \in State
    BY <2>1, SentMonitor
  <2>3. /\ states' \in [Id -> State]
        /\ pc' \in {"next", "dead"}
        /\ messages' \in Seq(Message)
        /\ posts' \in [Message -> 0..MaxPosts]
    BY <1>7, <2>2, ResendType DEF ReadFail
  <2>. QED  BY <1>7, <2>3 DEF ReadFail
<1>8. CASE Deliver \/ Lose
  <2>1. messages # <<>>  BY <1>8 DEF Deliver, Lose
  <2>2. lost' \in [Id -> BOOLEAN] /\ messages' \in Seq(Message)
    BY <1>8, <2>1, DequeueTypes DEF Deliver, Lose, Dequeue
  <2>3. seen' \in [Id -> Message \cup {NoMessage}]
    BY <1>8, <2>1, DequeueTypes DEF Deliver, Lose
  <2>. QED  BY <1>8, <2>2, <2>3 DEF Deliver, Lose, Dequeue
<1>9. ASSUME NEW p \in Message, PostArrives(p) \/ PostFails(p)  PROVE TypeInv'
  <2>1. posts[p] - 1 \in 0..MaxPosts
    BY <1>9, PostsBound DEF PostArrives, PostFails, Posted
  <2>2. posts' \in [Message -> 0..MaxPosts]
    BY <1>9, <2>1 DEF PostArrives, PostFails, Posted
  <2>3. heard' \in [Id -> Message \cup {NoMessage}]
    BY <1>9 DEF PostArrives, PostFails
  <2>. QED  BY <1>9, <2>2, <2>3 DEF PostArrives, PostFails, Posted
<1>10. ASSUME NEW b \in Block, NEW v \in Value, Change(b, v)  PROVE TypeInv'
  BY <1>10 DEF Change
<1>11. ASSUME NEW i \in Id, ElapseRead(i) \/ ElapseSend(i)  PROVE TypeInv'
  <2>1. /\ [states[i] EXCEPT !.readDue = TRUE] \in State
        /\ [states[i] EXCEPT !.sendDue = TRUE] \in State
    BY DEF State
  <2>2. states' \in [Id -> State]  BY <1>11, <2>1 DEF ElapseRead, ElapseSend
  <2>. QED  BY <1>11, <2>2 DEF ElapseRead, ElapseSend
<1>12. CASE UNCHANGED vars
  BY <1>12 DEF vars
<1>. QED
  BY <1>1, <1>2, <1>3, <1>4, <1>5, <1>6, <1>7, <1>8, <1>9, <1>10, <1>11, <1>12
     DEF Next, Pass

\* The variables of MonitorProcessor keep their types, for every set of
\* monitors, and without an update there is nothing to remove.
THEOREM MonitorTypes == Spec => []TypeOK
<1>1. TypeInv => TypeOK  BY DEF TypeInv
<1>. QED  BY <1>1, InitTypes, StepTypes, PTL DEF Spec

-----------------------------------------------------------------------------
(* What the cache keeps from the cloud.                                     *)

\* The last message about id i among q says d; there is none about it.
Saying(q, i, d) ==
    \E k \in 1..Len(q) : /\ q[k].about.id = i
                         /\ q[k].data = d
                         /\ \A l \in 1..Len(q) : q[l].about.id = i => l <= k

Silent(q, i) == \A k \in 1..Len(q) : q[k].about.id # i

\* One more message.
LEMMA SayMore ==
    ASSUME NEW q \in Seq(Message), NEW x \in Message
    PROVE  /\ Saying(Append(q, x), x.about.id, x.data)
           /\ \A i \in Id \ {x.about.id}, d \in Value :
                 /\ Saying(q, i, d) => Saying(Append(q, x), i, d)
                 /\ Silent(q, i) => Silent(Append(q, x), i)
<1>. DEFINE r == Append(q, x)
<1>1. /\ Len(q) \in Nat /\ Len(r) = Len(q) + 1
      /\ \A k \in 1..Len(q) : r[k] = q[k]
      /\ r[Len(q) + 1] = x
  BY AppendProperties, LenProperties
<1>. HIDE DEF r
<1>2. Saying(r, x.about.id, x.data)
  <2>1. Len(r) \in 1..Len(r)  BY <1>1
  <2>2. r[Len(r)] = x  BY <1>1
  <2>. QED  BY <1>1, <2>1, <2>2 DEF Saying
<1>3. ASSUME NEW i \in Id \ {x.about.id}, NEW d \in Value, Saying(q, i, d)
      PROVE  Saying(r, i, d)
  <2>1. PICK k \in 1..Len(q) :
            /\ q[k].about.id = i /\ q[k].data = d
            /\ \A l \in 1..Len(q) : q[l].about.id = i => l <= k
    BY <1>3 DEF Saying
  <2>2. k \in 1..Len(r) /\ r[k] = q[k]  BY <1>1
  <2>3. ASSUME NEW l \in 1..Len(r), r[l].about.id = i  PROVE l <= k
    <3>1. l # Len(q) + 1  BY <1>1, <2>3
    <3>2. l \in 1..Len(q)  BY <1>1, <3>1
    <3>. QED  BY <1>1, <2>1, <2>3, <3>2
  <2>. QED  BY <2>1, <2>2, <2>3 DEF Saying
<1>4. ASSUME NEW i \in Id \ {x.about.id}, Silent(q, i)
      PROVE  Silent(r, i)
  <2>1. \A k \in 1..Len(r) : k \in 1..Len(q) \/ k = Len(q) + 1  BY <1>1
  <2>. QED  BY <1>1, <1>4, <2>1 DEF Silent
<1>. QED  BY <1>2, <1>3, <1>4 DEF r

\* One message less.
LEMMA SayLess ==
    ASSUME NEW q \in Seq(Message), q # <<>>, NEW i \in Id, NEW d \in Value
    PROVE  /\ Saying(q, i, d) =>
                 \/ Saying(Tail(q), i, d)
                 \/ Head(q).about.id = i /\ Head(q).data = d /\ Silent(Tail(q), i)
           /\ Silent(q, i) => Head(q).about.id # i /\ Silent(Tail(q), i)
<1>. DEFINE r == Tail(q)
<1>1. /\ Len(q) \in Nat \ {0} /\ Len(r) = Len(q) - 1
      /\ \A k \in 1..Len(r) : r[k] = q[k + 1] /\ k + 1 \in 1..Len(q)
      /\ Head(q) = q[1]
  BY HeadTailProperties, LenProperties, EmptySeq
<1>. HIDE DEF r
<1>2. ASSUME Silent(q, i)  PROVE Head(q).about.id # i /\ Silent(r, i)
  <2>1. 1 \in 1..Len(q)  BY <1>1
  <2>. QED  BY <1>1, <1>2, <2>1 DEF Silent
<1>3. ASSUME Saying(q, i, d)
      PROVE  \/ Saying(r, i, d)
             \/ Head(q).about.id = i /\ Head(q).data = d /\ Silent(r, i)
  <2>1. PICK k \in 1..Len(q) :
            /\ q[k].about.id = i /\ q[k].data = d
            /\ \A l \in 1..Len(q) : q[l].about.id = i => l <= k
    BY <1>3 DEF Saying
  <2>2. CASE k = 1
    <3>1. \A l \in 1..Len(r) : ~(l + 1 <= k)  BY <1>1, <2>2
    <3>2. Silent(r, i)  BY <1>1, <2>1, <3>1 DEF Silent
    <3>. QED  BY <1>1, <2>1, <2>2, <3>2
  <2>3. CASE k # 1
    <3>1. k - 1 \in 1..Len(r) /\ (k - 1) + 1 = k  BY <1>1, <2>3
    <3>2. r[k - 1] = q[k]  BY <1>1, <3>1
    <3>3. ASSUME NEW l \in 1..Len(r), r[l].about.id = i  PROVE l <= k - 1
      <4>1. l + 1 <= k  BY <1>1, <2>1, <3>3
      <4>. QED  BY <1>1, <4>1
    <3>. QED  BY <2>1, <3>1, <3>2, <3>3 DEF Saying
  <2>. QED  BY <2>2, <2>3
<1>. QED  BY <1>2, <1>3 DEF r

\* What is cached under an id is what the last message about it says that waits
\* to be delivered; or there is none, and the cloud has seen it unless it was
\* lost.
Known(i) ==
    states[i].data # NoValue =>
        \/ Saying(messages, i, states[i].data)
        \/ /\ Silent(messages, i)
           /\ ~lost[i] => seen[i].data = states[i].data

\* CachedWasSent with what makes it inductive.
SentInv ==
    pc # "dead" => /\ \A i \in Id : Known(i)
                   /\ pc = "idle" => messages = <<>>

LEMMA InitSent == Init => SentInv
BY DEF Init, SentInv, Known, NoState

\* The cached data of every id stays or goes, and nothing is sent.
LEMMA QuietStep ==
    ASSUME SentInv, TypeInv, pc # "dead",
           UNCHANGED <<messages, seen, lost>>,
           \A i \in Id : states'[i].data \in {states[i].data, NoValue}
    PROVE  \A i \in Id : Known(i)'
BY DEF SentInv, Known

\* What is pushed is cached.
LEMMA PushStep ==
    ASSUME SentInv, TypeInv, pc # "dead", pc' # "dead", UNCHANGED <<seen, lost>>,
           NEW m \in UNION sent, NEW s \in State, s.data # NoValue, Push(m, s),
           NEW t \in State, t.data = s.data, states' = [states EXCEPT ![m.id] = t]
    PROVE  \A i \in Id : Known(i)'
<1>. DEFINE x == MessageOf(m, s)
<1>1. messages' = Append(messages, x)  BY DEF Push
<1>2. messages \in Seq(Message)  BY DEF TypeInv, TypeOK
<1>3. m \in Monitor /\ m.id \in Id  BY SentMonitor DEF TypeInv
<1>4. x \in Message /\ x.about.id = m.id /\ x.data = s.data
  BY <1>3 DEF MessageOf, Message, State
<1>5. Known(m.id)'
  <2>1. states'[m.id].data = s.data  BY <1>3 DEF TypeInv, TypeOK
  <2>2. Saying(messages', m.id, s.data)
    <3>. HIDE DEF x
    <3>. QED  BY <1>1, <1>2, <1>4, SayMore
  <2>. QED  BY <2>1, <2>2 DEF Known
<1>6. ASSUME NEW i \in Id, i # m.id  PROVE Known(i)'
  <2>1. states'[i] = states[i]  BY <1>6 DEF TypeInv, TypeOK
  <2>2. SUFFICES ASSUME states[i].data # NoValue  PROVE Known(i)'
    BY <2>1 DEF Known
  <2>3. states[i].data \in Value  BY <2>2 DEF TypeInv, TypeOK, State
  <2>4. /\ Saying(messages, i, states[i].data) => Saying(messages', i, states[i].data)
        /\ Silent(messages, i) => Silent(messages', i)
    <3>. HIDE DEF x
    <3>. QED  BY <1>1, <1>2, <1>4, <1>6, <2>3, SayMore
  <2>. QED  BY <2>1, <2>2, <2>4 DEF Known, SentInv
<1>. QED  BY <1>5, <1>6

\* So is what the end of a visit leaves.
LEMMA ResendStep ==
    ASSUME SentInv, TypeInv, pc # "dead", UNCHANGED <<seen, lost>>,
           NEW m \in UNION sent, NEW s \in State, s.data = states[m.id].data,
           Resend(m, s)
    PROVE  SentInv'
<1>1. pc' \in {"next", "dead"}
  BY SentMonitor, ResendType DEF TypeInv
<1>2. CASE s.sendDue /\ s.data # NoValue
  <2>1. [s EXCEPT !.sendDue = FALSE] \in State /\ [s EXCEPT !.sendDue = FALSE].data = s.data
    BY DEF State
  <2>2. Push(m, s) /\ states' = [states EXCEPT ![m.id] = [s EXCEPT !.sendDue = FALSE]]
    BY <1>2 DEF Resend
  <2>. QED  BY <1>1, <1>2, <2>1, <2>2, PushStep DEF SentInv
<1>3. CASE ~(s.sendDue /\ s.data # NoValue)
  <2>1. states' = [states EXCEPT ![m.id] = s] /\ UNCHANGED messages
    BY <1>3 DEF Resend
  <2>2. \A i \in Id : states'[i].data \in {states[i].data, NoValue}
    BY <2>1 DEF TypeInv, TypeOK
  <2>. QED  BY <1>1, <2>1, <2>2, QuietStep DEF SentInv
<1>. QED  BY <1>2, <1>3

LEMMA ReadStep ==
    ASSUME SentInv, TypeInv, ReadOk
    PROVE  SentInv'
<1>. DEFINE m == current
            read == [states[m.id] EXCEPT !.data = plc[m.block], !.readDue = FALSE]
<1>1. pc = "reading" /\ m \in UNION sent  BY DEF ReadOk, TypeInv
<1>2. m \in Monitor /\ m.id \in Id /\ states[m.id] \in State /\ plc[m.block] \in Value
  BY <1>1, SentMonitor DEF TypeInv
<1>3. /\ read \in State /\ [read EXCEPT !.sendDue = FALSE] \in State
      /\ read.data = plc[m.block] /\ read.data # NoValue
      /\ [read EXCEPT !.sendDue = FALSE].data = read.data
  BY <1>2, NoValueIsNone DEF State
<1>4. UNCHANGED <<seen, lost>>  BY DEF ReadOk, cloud
<1>5. CASE plc[m.block] # states[m.id].data
  <2>1. /\ states' = [states EXCEPT ![m.id] = [read EXCEPT !.sendDue = FALSE]]
        /\ Push(m, read)
    BY <1>5 DEF ReadOk
  <2>. HIDE DEF read, m
  <2>2. pc' \in {"next", "dead"}
    BY <1>2, <1>3, <2>1, PushType DEF TypeInv
  <2>. QED  BY <1>1, <1>3, <1>4, <2>1, <2>2, PushStep DEF SentInv
<1>6. CASE plc[m.block] = states[m.id].data
  <2>1. Resend(m, read) /\ read.data = states[m.id].data  BY <1>3, <1>6 DEF ReadOk
  <2>. HIDE DEF read, m
  <2>. QED  BY <1>1, <1>3, <1>4, <2>1, ResendStep
<1>. QED  BY <1>5, <1>6

\* A message arrives or is lost.
LEMMA DeliverStep ==
    ASSUME SentInv, TypeInv, Deliver \/ Lose
    PROVE  SentInv'
<1>. DEFINE h == Head(messages)
<1>1. /\ pc = "deliver" /\ pc' = "deliver" /\ messages # <<>>
      /\ messages' = Tail(messages) /\ states' = states
  BY DEF Deliver, Lose, Dequeue
<1>2. h \in Message /\ h.about.id \in Id
  BY <1>1, DequeueTypes DEF TypeInv
<1>3. ASSUME NEW i \in Id, states[i].data # NoValue  PROVE Known(i)'
  <2>1. states[i].data \in Value  BY <1>3 DEF TypeInv, TypeOK, State
  <2>2. messages \in Seq(Message)  BY DEF TypeInv, TypeOK
  <2>3. Known(i)  BY <1>1 DEF SentInv
  <2>4. /\ Saying(messages, i, states[i].data) =>
                \/ Saying(messages', i, states[i].data)
                \/ h.about.id = i /\ h.data = states[i].data /\ Silent(messages', i)
        /\ Silent(messages, i) => h.about.id # i /\ Silent(messages', i)
    BY <1>1, <2>1, <2>2, SayLess
  <2>5. CASE h.about.id = i
    <3>1. \/ Saying(messages', i, states[i].data)
          \/ h.data = states[i].data /\ Silent(messages', i)
      BY <1>3, <2>3, <2>4, <2>5 DEF Known
    <3>2. CASE Deliver
      <4>1. seen'[i] = h  BY <1>2, <2>5, <3>2 DEF Deliver, TypeInv, TypeOK
      <4>. QED  BY <1>1, <3>1, <4>1 DEF Known
    <3>3. CASE Lose
      <4>1. lost'[i]  BY <1>2, <2>5, <3>3 DEF Lose, Dequeue, TypeInv, TypeOK
      <4>. QED  BY <1>1, <3>1, <4>1 DEF Known
    <3>. QED  BY <3>2, <3>3
  <2>6. CASE h.about.id # i
    <3>1. lost'[i] = lost[i] /\ seen'[i] = seen[i]
      BY <1>2, <2>6 DEF Deliver, Lose, Dequeue, TypeInv, TypeOK
    <3>. QED  BY <1>1, <1>3, <2>3, <2>4, <2>6, <3>1 DEF Known
  <2>. QED  BY <2>5, <2>6
<1>. QED  BY <1>1, <1>3 DEF SentInv, Known

LEMMA StepSent == TypeInv /\ SentInv /\ [Next]_vars => SentInv'
<1>. SUFFICES ASSUME TypeInv, SentInv, [Next]_vars PROVE SentInv'
  OBVIOUS
<1>. USE DEF outside, loop, update, cloud, local
<1>1. ASSUME UNCHANGED <<messages, seen, lost>>, pc' = pc,
             \A i \in Id : states'[i].data \in {states[i].data, NoValue}
      PROVE  SentInv'
  BY <1>1, QuietStep DEF SentInv
<1>2. ASSUME NEW new \in SUBSET Monitor, BeginUpdate(new)  PROVE SentInv'
  BY <1>1, <1>2 DEF BeginUpdate
<1>3. ASSUME NEW m \in Monitor, RemoveOne(m)  PROVE SentInv'
  <2>1. \A i \in Id : states'[i].data \in {states[i].data, NoValue}
    BY <1>3 DEF RemoveOne, NoState, TypeInv, TypeOK
  <2>. QED  BY <1>1, <1>3, <2>1 DEF RemoveOne
<1>4. CASE EndUpdate
  BY <1>1, <1>4 DEF EndUpdate
<1>5. CASE Snapshot \/ EndPass \/ EndDelivery
  <2>1. UNCHANGED <<states, messages, seen, lost>> /\ pc # "dead"
    BY <1>5 DEF Snapshot, EndPass, EndDelivery
  <2>2. \A i \in Id : Known(i)'  BY <2>1, QuietStep
  <2>3. pc' = "idle" => messages' = <<>>
    BY <1>5 DEF Snapshot, EndPass, EndDelivery
  <2>. QED  BY <2>2, <2>3 DEF SentInv
<1>6. ASSUME NEW m \in Monitor, Visit(m)  PROVE SentInv'
  <2>1. m \in UNION sent /\ pc = "next" /\ UNCHANGED <<seen, lost>>
    BY <1>6 DEF Visit, TypeInv
  <2>2. CASE states[m.id].readDue
    <3>1. UNCHANGED <<states, messages>> /\ pc' = "reading"
      BY <1>6, <2>2 DEF Visit
    <3>. QED  BY <2>1, <3>1, QuietStep DEF SentInv
  <2>3. CASE ~states[m.id].readDue
    <3>1. Resend(m, states[m.id])  BY <1>6, <2>3 DEF Visit
    <3>2. states[m.id] \in State  BY <2>1, SentMonitor DEF TypeInv
    <3>. QED  BY <2>1, <3>1, <3>2, ResendStep
  <2>. QED  BY <2>2, <2>3
<1>7. CASE ReadOk
  BY <1>7, ReadStep
<1>8. CASE ReadFail
  <2>1. /\ current \in UNION sent /\ pc = "reading" /\ UNCHANGED <<seen, lost>>
        /\ Resend(current, states[current.id])
    BY <1>8 DEF ReadFail, TypeInv
  <2>2. states[current.id] \in State  BY <2>1, SentMonitor DEF TypeInv
  <2>. QED  BY <2>1, <2>2, ResendStep
<1>9. CASE Deliver \/ Lose
  BY <1>9, DeliverStep
<1>10. ASSUME NEW p \in Message, PostArrives(p) \/ PostFails(p)  PROVE SentInv'
  BY <1>1, <1>10 DEF PostArrives, PostFails
<1>11. ASSUME NEW b \in Block, NEW v \in Value, Change(b, v)  PROVE SentInv'
  BY <1>1, <1>11 DEF Change
<1>12. ASSUME NEW i \in Id, ElapseRead(i) \/ ElapseSend(i)  PROVE SentInv'
  <2>1. \A j \in Id : states'[j].data = states[j].data
    <3>1. /\ [states[i] EXCEPT !.readDue = TRUE].data = states[i].data
          /\ [states[i] EXCEPT !.sendDue = TRUE].data = states[i].data
      BY DEF TypeInv, TypeOK, State
    <3>. QED  BY <1>12, <3>1 DEF ElapseRead, ElapseSend, TypeInv, TypeOK
  <2>. QED  BY <1>1, <1>12, <2>1 DEF ElapseRead, ElapseSend
<1>13. CASE UNCHANGED vars
  BY <1>1, <1>13 DEF vars
<1>. QED
  BY <1>2, <1>3, <1>4, <1>5, <1>6, <1>7, <1>8, <1>9, <1>10, <1>11, <1>12, <1>13
     DEF Next, Pass

\* The cached data of a monitor, which keeps equal data from being sent, is what
\* the cloud has seen last unless that message was lost: for every set of
\* monitors, several of one id included, and every interleaving of passes with
\* updates (monitor.rs 268-357, cloud.rs 825-838).
THEOREM CachedSent == Spec => []CachedWasSent
<1>1. TypeInv /\ SentInv => CachedWasSent
  <2>. SUFFICES ASSUME TypeInv, SentInv, pc = "idle", NEW i \in Id,
                       states[i].data # NoValue, ~lost[i]
                PROVE  seen[i].data = states[i].data
    BY DEF CachedWasSent
  <2>1. ~Saying(messages, i, states[i].data)
    <3>1. messages = <<>>  BY DEF SentInv
    <3>2. 1..Len(messages) = {}  BY <3>1
    <3>. QED  BY <3>2 DEF Saying
  <2>. QED  BY <2>1 DEF SentInv, Known
<1>. QED
  BY <1>1, InitTypes, StepTypes, InitSent, StepSent, PTL DEF Spec
=============================================================================
