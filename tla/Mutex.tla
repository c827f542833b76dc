------------------------------- MODULE Mutex -------------------------------
(***************************************************************************)
(* co::mutex (mutex_impl in co/src/co.cc): a lock for coroutines and       *)
(* threads.  unlock() hands the lock over: to a coroutine by making it     *)
(* ready to resume, the lock staying taken; to the threads by setting      *)
(* _lock to 2, which the first thread to leave the condition variable      *)
(* turns into 1.  A section under _m is one action; what unlock() does     *)
(* after it has released _m is another.                                    *)
(***************************************************************************)
EXTENDS Naturals, Sequences, FiniteSets

CONSTANTS
    Co, Thread,  \* who locks
    Null,        \* the queue entry of a thread
    MaxLock      \* bound: how often each of them locks

Actor == Co \cup Thread

VARIABLES
    lock,    \* _lock: 0 free, 1 taken, 2 on its way to a thread
    wq,      \* _wq
    ready,   \* coroutines given to add_ready_task and not resumed yet
    pc,      \* where each actor is
    target,  \* what unlock() took from the queue and has yet to wake
    locks    \* how often each actor has locked (bound)

vars == <<lock, wq, ready, pc, target, locks>>

\* "queued": a coroutine that has suspended; "cv": a thread in the condition
\* variable, "woken" when it has left it; "wake": unlock() has released _m.
Place == {"idle", "queued", "cv", "woken", "holding", "wake"}

Init ==
    /\ lock = 0 /\ wq = <<>> /\ ready = {}
    /\ pc = [a \in Actor |-> "idle"]
    /\ target = [a \in Actor |-> Null]
    /\ locks = [a \in Actor |-> 0]

Goes(a, p) == pc' = [pc EXCEPT ![a] = p]

Calls(a) ==
    /\ pc[a] = "idle"
    /\ locks[a] < MaxLock
    /\ locks' = [locks EXCEPT ![a] = @ + 1]
    /\ UNCHANGED <<ready, target>>

\* lock() or try_lock() of a free lock.
AcquireFree(a) ==
    /\ Calls(a)
    /\ lock = 0
    /\ lock' = 1
    /\ Goes(a, "holding")
    /\ UNCHANGED wq

\* lock() in a coroutine, up to yield().
LockCo(c) ==
    /\ Calls(c)
    /\ lock # 0
    /\ wq' = Append(wq, c)
    /\ Goes(c, "queued")
    /\ UNCHANGED lock

\* lock() in a thread, up to cv_wait().
LockThread(t) ==
    /\ Calls(t)
    /\ lock # 0
    /\ wq' = Append(wq, Null)
    /\ Goes(t, "cv")
    /\ UNCHANGED lock

\* The scheduler resumes c, which now has the lock.
ResumeCo(c) ==
    /\ pc[c] = "queued" /\ c \in ready
    /\ ready' = ready \ {c}
    /\ Goes(c, "holding")
    /\ UNCHANGED <<lock, wq, target, locks>>

\* A bug: the thread does not check _lock when it leaves the condition variable.
ThreadWokenUnchecked(t) ==
    /\ pc[t] = "woken"
    /\ lock' = 1 /\ Goes(t, "holding")
    /\ UNCHANGED <<wq, ready, target, locks>>

\* A thread has left cv_wait and has _m: it takes a lock that is on its way,
\* else it waits again.
ThreadWoken(t) ==
    /\ pc[t] = "woken"
    /\ IF lock = 2
       THEN lock' = 1 /\ Goes(t, "holding")
       ELSE Goes(t, "cv") /\ UNCHANGED lock
    /\ UNCHANGED <<wq, ready, target, locks>>

\* A condition variable may wake a thread for no reason.
SpuriousWake(t) ==
    /\ pc[t] = "cv"
    /\ Goes(t, "woken")
    /\ UNCHANGED <<lock, wq, ready, target, locks>>

\* unlock(), under _m.
Unlock(a) ==
    /\ pc[a] = "holding"
    /\ IF wq = <<>>
       THEN lock' = 0 /\ Goes(a, "idle") /\ UNCHANGED <<wq, target>>
       ELSE /\ wq' = Tail(wq)
            /\ target' = [target EXCEPT ![a] = Head(wq)]
            /\ lock' = IF Head(wq) = Null THEN 2 ELSE 1
            /\ Goes(a, "wake")
    /\ UNCHANGED <<ready, locks>>

\* A bug: a thread that waits is not notified.
WakeNoNotify(a) ==
    /\ pc[a] = "wake"
    /\ ready' = IF target[a] = Null THEN ready ELSE ready \cup {target[a]}
    /\ Goes(a, "idle")
    /\ target' = [target EXCEPT ![a] = Null]
    /\ UNCHANGED <<lock, wq, locks>>

\* unlock(), after _m: add_ready_task(co), or cv_notify_one, which wakes some
\* thread that is in the condition variable.
Wake(a) ==
    /\ pc[a] = "wake"
    /\ target' = [target EXCEPT ![a] = Null]
    /\ IF target[a] # Null
       THEN ready' = ready \cup {target[a]} /\ Goes(a, "idle")
       ELSE /\ IF \E t \in Thread : pc[t] = "cv"
               THEN \E t \in Thread : pc[t] = "cv" /\ pc' = [pc EXCEPT ![a] = "idle", ![t] = "woken"]
               ELSE Goes(a, "idle")
            /\ UNCHANGED ready
    /\ UNCHANGED <<lock, wq, locks>>

CoStep(c) == LockCo(c) \/ ResumeCo(c)
ThreadStep(t) == LockThread(t) \/ ThreadWoken(t) \/ SpuriousWake(t)

Next ==
    \/ \E a \in Actor : AcquireFree(a) \/ Unlock(a) \/ Wake(a)
    \/ \E c \in Co : CoStep(c)
    \/ \E t \in Thread : ThreadStep(t)

Spec == Init /\ [][Next]_vars

-----------------------------------------------------------------------------
\* The type of every variable.
TypeOK ==
    /\ lock \in 0..2
    /\ wq \in Seq(Co \cup {Null})
    /\ ready \subseteq Co
    /\ pc \in [Actor -> Place]
    /\ target \in [Actor -> Co \cup {Null}]
    /\ locks \in [Actor -> Nat]

\* The coroutines that have the lock and have not been resumed yet.
Granted == (ready \cup {target[a] : a \in {b \in Actor : pc[b] = "wake"}}) \ {Null}

Holders == {a \in Actor : pc[a] = "holding"} \cup Granted

\* At most one coroutine or thread has the lock, the one it is being handed
\* to included, and then _lock says so.
MutualExclusion ==
    /\ \A a, b \in Holders : a = b
    /\ lock = 1 <=> Holders # {}

Entries(x) == Cardinality({i \in 1..Len(wq) : wq[i] = x})

\* Every waiter is accounted for, once: a coroutine by its queue entry until
\* unlock() takes it, the threads by the null entries and a lock on its way.
\* The lock is never free with somebody waiting for it, and a lock on its way
\* to a thread gets there: one is awake, or unlock() is about to wake one.
WaitersAccounted ==
    /\ \A c \in Co : Entries(c) = IF pc[c] = "queued" /\ c \notin Granted THEN 1 ELSE 0
    /\ Cardinality({t \in Thread : pc[t] \in {"cv", "woken"}}) =
          Entries(Null) + (IF lock = 2 THEN 1 ELSE 0)
    /\ lock = 0 => \A a \in Actor : pc[a] \notin {"queued", "cv", "woken"}
    /\ lock = 2 => \/ \E t \in Thread : pc[t] = "woken"
                   \/ \E a \in Actor : pc[a] = "wake" /\ target[a] = Null

\* Coroutines get the lock in the order in which they queued.
Overtakes(c, d) ==
    \E i, j \in 1..Len(wq) : i < j /\ wq[i] = c /\ wq[j] = d

CoroutinesInOrder ==
    [][\A c, d \in Co : Overtakes(c, d) => ~(d \in Granted' /\ c \notin Granted')]_vars

\* Whoever waits for the lock gets it.
WaitersGetTheLock ==
    \A a \in Actor : pc[a] \in {"queued", "cv", "woken"} ~> pc[a] = "holding"
=============================================================================
