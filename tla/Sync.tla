-------------------------------- MODULE Sync --------------------------------
(***************************************************************************)
(* The objects coroutines and threads synchronise with, side by side: the  *)
(* event, the wait_group made of it, the event for threads alone, and the  *)
(* mutex.  A behaviour exercises one of them; the first three share the    *)
(* variables of an event, each with its own waiters and signalers.         *)
(***************************************************************************)
EXTENDS Naturals, FiniteSets

CONSTANTS
    Co, Thread, Signaler, TimedCo, TimedThread, MaxWait, MaxSignal,  \* Event, SyncEvent
    GroupCo, GroupThread, Worker,  \* WaitGroup: who waits, and the workers
    W, NoW,                        \* Event, WaitGroup
    MutexCo, MutexThread, Null, MaxLock  \* Mutex

ASSUME SyncAssumption ==
    /\ TimedCo \subseteq Co /\ TimedThread \subseteq Thread
    /\ Co \cap Thread = {} /\ GroupCo \cap GroupThread = {}
    /\ NoW \notin W
    /\ MaxWait \in Nat /\ MaxSignal \in Nat /\ MaxLock \in Nat
    /\ MutexCo \cap MutexThread = {} /\ Null \notin MutexCo \cup MutexThread
    /\ IsFiniteSet(Thread) /\ IsFiniteSet(GroupThread) /\ IsFiniteSet(Worker) /\ IsFiniteSet(MutexThread)

VARIABLES
    which,                                         \* the object
    manual, signaled, wc, wt, sn, wst, wco, coWx, ready, pc, snT, rest,
    waits, signals, counted, result,               \* Event
    wg, work,                                      \* WaitGroup
    lock, wq, lockReady, lockPc, target, locks     \* Mutex

eventVars == <<manual, signaled, wc, wt, sn, wst, wco, coWx, ready, pc, snT, rest,
               waits, signals, counted, result>>
groupVars == <<wg, work>>
mutexVars == <<lock, wq, lockReady, lockPc, target, locks>>

Ev == INSTANCE Event WITH Spurious <- TRUE
Group == INSTANCE WaitGroup WITH
    Co <- GroupCo, Thread <- GroupThread, Signaler <- Worker, TimedCo <- {},
    TimedThread <- {}, Spurious <- FALSE, MaxWait <- 1, MaxSignal <- 1
Threads == INSTANCE SyncEvent WITH Spurious <- TRUE
Lock == INSTANCE Mutex WITH Co <- MutexCo, Thread <- MutexThread, ready <- lockReady, pc <- lockPc

\* The event that only threads use.
ThreadsEv == INSTANCE Event WITH Co <- {}, W <- {}, Spurious <- TRUE

AllInit ==
    /\ \/ which = "event" /\ Ev!Init
       \/ which = "wait_group" /\ Group!WGInit
       \/ which = "sync_event" /\ Threads!SyncInit /\ ThreadsEv!Init
       \/ which = "mutex" /\ ThreadsEv!Init /\ manual = FALSE /\ signaled = FALSE
    /\ which # "wait_group" => wg = 0 /\ work = [s \in Worker |-> "none"]
    /\ Lock!Init

AllNext ==
    /\ UNCHANGED which
    /\ \/ which = "event" /\ Ev!Next /\ UNCHANGED <<groupVars, mutexVars>>
       \/ which = "wait_group" /\ Group!WGNext /\ UNCHANGED mutexVars
       \/ which = "sync_event" /\ Threads!SyncNext
          /\ UNCHANGED <<wc, wst, wco, coWx, ready, rest, groupVars, mutexVars>>
       \/ which = "mutex" /\ Lock!Next /\ UNCHANGED <<eventVars, groupVars>>

\* What is ready is resumed, threads that can run do, a signal that has begun
\* ends, and who has the lock unlocks it.  Nobody has to wait, signal or lock.
Fairness ==
    /\ \A c \in GroupCo :
          WF_eventVars(which = "wait_group" /\ (Group!Resume(c) \/ Group!ResumeTimedOut(c)))
    /\ \A t \in GroupThread :
          WF_eventVars(which = "wait_group" /\ (Group!ThreadNotified(t) \/ Group!ThreadExpired(t)))
    /\ \A s \in Worker : WF_eventVars(which = "wait_group" /\ Group!SignalRest(s))
    /\ \A a \in MutexCo \cup MutexThread :
          WF_mutexVars(which = "mutex" /\ (Lock!Unlock(a) \/ Lock!Wake(a)))
    /\ \A c \in MutexCo : WF_mutexVars(which = "mutex" /\ Lock!ResumeCo(c))
    /\ \A t \in MutexThread : WF_mutexVars(which = "mutex" /\ Lock!ThreadWoken(t))

AllSpec == AllInit /\ [][AllNext]_<<which, eventVars, groupVars, mutexVars>> /\ Fairness

-----------------------------------------------------------------------------
\* Event: every coroutine inside wait() can still be found by a signal or has
\* been, nobody sleeps on a signaled event, and wait() returns true to the
\* coroutines a signal was spent on, and to no others.
WaitersServed ==
    which = "event" => Ev!NoWaiterForgotten /\ Ev!SignaledMeansNoWaiter /\ Ev!CoVerdict

\* Event: no waitx is used after it was freed, and none is leaked.
WaitxOwned == which = "event" => Ev!WaitxOwned

\* WaitGroup: wait() does not return early, and the last done() releases all
\* that wait.
GroupReleased == which = "wait_group" => Group!NoEarlyReturn /\ Group!LeftOnlyByAnother

\* SyncEvent: it promises threads what an event does.
ImplementsEvent ==
    /\ which = "sync_event" => ThreadsEv!Init
    /\ [][which = "sync_event" => ThreadsEv!Next]_eventVars

\* Mutex: one has the lock, through every handover, and every waiter is in the
\* queue or on its way.
LockHandedOver == which = "mutex" => Lock!MutualExclusion /\ Lock!WaitersAccounted

\* What a signal of a wait_group has begun it finishes, and who waits for a
\* mutex gets it, coroutines in the order in which they queued.
WaitersReturn ==
    /\ \A a \in GroupCo \cup GroupThread :
          which = "wait_group" /\ (\/ counted[a]
                                   \/ a \in GroupCo /\ \E s \in Worker : Group!InList(coWx[a], rest[s]))
             ~> which = "wait_group" /\ pc[a] = "idle"
    /\ Lock!CoroutinesInOrder
    /\ Lock!WaitersGetTheLock
=============================================================================
