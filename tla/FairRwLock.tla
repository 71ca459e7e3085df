----------------------------- MODULE FairRwLock -----------------------------
(***************************************************************************)
(* The read-write lock of the asynchronous runtime, tokio::sync::RwLock,   *)
(* as every component of the edge uses it.  It is outside the repository;  *)
(* it is modelled from how the source awaits `.read()` and `.write()`.     *)
(*                                                                         *)
(* A lock is a value: the requests that are granted (`held`, the guards    *)
(* alive) and those still waiting (`queue`).  The lock is fair: a request  *)
(* that finds another one waiting queues behind it, even a reader that     *)
(* would be compatible with the guards alive.  This is what makes a reader *)
(* wait for a writer that itself waits for an older reader.                *)
(***************************************************************************)
EXTENDS Naturals, Sequences

Mode == {"r", "w"}

Requests(T) == [task : T, mode : Mode]

Locks(T) == [held : SUBSET Requests(T), queue : Seq(Requests(T))]

FreeLock == [held |-> {}, queue |-> <<>>]

\* A writer needs the lock for itself, a reader only the absence of a writer.
Compatible(l, m) ==
    IF m = "w" THEN l.held = {} ELSE \A h \in l.held : h.mode = "r"

\* Task t awaits a guard of mode m: granted at once, or queued.
Ask(l, t, m) ==
    LET req == [task |-> t, mode |-> m] IN
    IF l.queue = <<>> /\ Compatible(l, m)
    THEN [held |-> l.held \cup {req}, queue |-> l.queue]
    ELSE [held |-> l.held, queue |-> Append(l.queue, req)]

\* Task t drops its guard.
Drop(l, t) == [held |-> {h \in l.held : h.task # t}, queue |-> l.queue]

\* The request at the head of the queue can be granted ...
Admissible(l) == l.queue # <<>> /\ Compatible(l, Head(l.queue).mode)

\* ... and is.
Admit(l) == [held |-> l.held \cup {Head(l.queue)}, queue |-> Tail(l.queue)]

Holds(l, t) == \E h \in l.held : h.task = t

Waits(l, t) == \E i \in DOMAIN l.queue : l.queue[i].task = t
=============================================================================
