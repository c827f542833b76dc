------------------------------- MODULE Sched -------------------------------
(***************************************************************************)
(* One scheduler of the library: the thread that runs Sched::loop, the     *)
(* TaskManager other threads push to, the pipe that wakes epoll up, and    *)
(* the timers of the coroutines that wait (co/src/sched.h, sched.cc and    *)
(* epoll/epoll.h, epoll.cc).                                               *)
(*                                                                         *)
(* Every step of the loop thread and of a posting thread between two       *)
(* accesses to shared memory is an action of its own.  Time is abstract:   *)
(* a timer is armed, becomes due, and check_timeout takes the due ones.    *)
(* Shared memory is sequentially consistent.                               *)
(***************************************************************************)
EXTENDS Naturals, Sequences, FiniteSets

CONSTANTS
    Co,        \* closures handed to go(), and the coroutines that run them
    Thread,    \* other threads of the process, which post, wake and stop
    Loop,      \* the scheduler's own thread, as the caller of such a function
    NoCo,      \* "no coroutine": the loop itself has control
    PipeEv,    \* the event of the pipe's read end in an epoll_wait result
    MaxYield   \* bound: how often a coroutine suspends before it returns

ASSUME SchedAssumption ==
    /\ Loop \notin Thread /\ IsFiniteSet(Thread)
    /\ NoCo \notin Co
    /\ PipeEv \notin Co
    /\ MaxYield \in Nat

Caller == Thread \cup {Loop}

VARIABLES
    newTasks,     \* TaskManager::_new_tasks
    readyTasks,   \* TaskManager::_ready_tasks
    signaled,     \* Epoll::_signaled
    pipe,         \* bytes in the pipe
    stopped,      \* _x.stopped
    ev,           \* _x.ev is signaled: the loop has ended
    pcL,          \* where the loop thread is
    batchNew,     \* the loop's local new_tasks, not yet resumed
    batchReady,   \* the loop's local ready_tasks, not yet resumed
    timedOut,     \* ready_tasks as check_timeout filled it, not yet resumed
    events,       \* the events of the last epoll_wait, not yet handled
    waitForever,  \* _wait_ms is (uint32)-1
    timeout,      \* _timeout
    cur,          \* the coroutine that has control, or NoCo
    st,           \* life of a coroutine
    wx,           \* state of co->waitx, "none" when it is null
    timers,       \* the coroutines _timer has an entry for
    due,          \* those whose deadline has passed
    it,           \* co->it is not _timer.end()
    ioReady,      \* coroutines whose file descriptor has become ready
    yields,       \* number of times a coroutine has suspended (bound)
    pcC,          \* where a caller of a posting function is
    job,          \* the coroutine that caller is waking up, or NoCo
    stopper       \* the threads whose stop() was the first, and so waits

mgrVars == <<newTasks, readyTasks>>
pipeVars == <<signaled, pipe>>
loopVars == <<pcL, batchNew, batchReady, timedOut, events, waitForever, timeout, cur>>
coVars == <<st, wx, yields>>
timerVars == <<timers, due, it>>
callVars == <<pcC, job, stopper>>
vars == <<mgrVars, pipeVars, stopped, ev, loopVars, coVars, timerVars, ioReady, callVars>>

(***************************************************************************)
(* A coroutine is "unborn" until go() is called on it, "new" while its     *)
(* closure is queued, "running" from resume() to yield(), "enlisted" when  *)
(* it has put itself in some waiting list and not yet yielded, and then    *)
(* "waiting" (for a wake-up), "sleeping" (for its timer alone) or "io" (in *)
(* epoll); "done" when main_func has returned.                             *)
(***************************************************************************)
CoState == {"unborn", "new", "running", "enlisted", "waiting", "sleeping", "io", "done"}
WaitState == {"none", "wait", "ready", "timeout"}
LoopLabel == {"check", "wait", "woken", "events", "drained", "new", "ready",
              "timedout", "exit", "ended"}
CallLabel == {"idle", "push", "cas", "write", "join", "out"}

Init ==
    /\ newTasks = <<>> /\ readyTasks = <<>>
    /\ signaled = FALSE /\ pipe = 0
    /\ stopped = FALSE /\ ev = FALSE
    /\ pcL = "check"
    /\ batchNew = <<>> /\ batchReady = <<>>
    /\ timedOut = {} /\ events = {}
    /\ waitForever = TRUE /\ timeout = FALSE
    /\ cur = NoCo
    /\ st = [c \in Co |-> "unborn"]
    /\ wx = [c \in Co |-> "none"]
    /\ yields = [c \in Co |-> 0]
    /\ timers = {} /\ due = {} /\ it = [c \in Co |-> FALSE]
    /\ ioReady = {}
    /\ pcC = [p \in Caller |-> "idle"]
    /\ job = [p \in Caller |-> NoCo]
    /\ stopper = {}

(***************************************************************************)
(* Callers: go(), the wake-up of a waiter, stop().  The loop thread is a   *)
(* caller when the coroutine it runs calls one of these.                   *)
(***************************************************************************)
CanCall(p) ==
    /\ pcC[p] = "idle"
    /\ p = Loop => cur # NoCo /\ st[cur] = "running"

\* Sched::add_new_task, first half: push the closure under the mutex.
AddNewTask(p, c) ==
    /\ CanCall(p)
    /\ st[c] = "unborn"
    /\ newTasks' = Append(newTasks, c)
    /\ st' = [st EXCEPT ![c] = "new"]
    /\ pcC' = [pcC EXCEPT ![p] = "cas"]
    /\ UNCHANGED <<readyTasks, pipeVars, stopped, ev, loopVars, wx, yields, timerVars, ioReady, job, stopper>>

\* A waker wins the waiter's waitx: CAS(&w->state, st_wait, st_ready).
WinWaiter(p, c) ==
    /\ CanCall(p)
    /\ wx[c] = "wait"
    /\ wx' = [wx EXCEPT ![c] = "ready"]
    /\ pcC' = [pcC EXCEPT ![p] = "push"]
    /\ job' = [job EXCEPT ![p] = c]
    /\ UNCHANGED <<mgrVars, pipeVars, stopped, ev, loopVars, st, yields, timerVars, ioReady, stopper>>

\* Sched::add_ready_task, first half.
AddReadyTask(p) ==
    /\ pcC[p] = "push"
    /\ readyTasks' = Append(readyTasks, job[p])
    /\ pcC' = [pcC EXCEPT ![p] = "cas"]
    /\ job' = [job EXCEPT ![p] = NoCo]
    /\ UNCHANGED <<newTasks, pipeVars, stopped, ev, loopVars, coVars, timerVars, ioReady, stopper>>

\* Where a caller goes when signal() returns: stop() then waits for the loop.
AfterSignal(p) == IF p \in stopper THEN "join" ELSE "idle"

\* Epoll::signal, CAS(&_signaled, 0, 1).
SignalCas(p) ==
    /\ pcC[p] = "cas"
    /\ signaled' = TRUE
    /\ pcC' = [pcC EXCEPT ![p] = IF signaled THEN AfterSignal(p) ELSE "write"]
    /\ UNCHANGED <<mgrVars, pipe, stopped, ev, loopVars, coVars, timerVars, ioReady, job, stopper>>

\* Epoll::signal, the write of one byte.
SignalWrite(p) ==
    /\ pcC[p] = "write"
    /\ pipe' = pipe + 1
    /\ pcC' = [pcC EXCEPT ![p] = AfterSignal(p)]
    /\ UNCHANGED <<mgrVars, signaled, stopped, ev, loopVars, coVars, timerVars, ioReady, job, stopper>>

\* A bug: stop() sets the flag and does not signal epoll.
StopSilently(p) ==
    /\ p \in Thread
    /\ CanCall(p)
    /\ ~stopped
    /\ stopped' = TRUE
    /\ pcC' = [pcC EXCEPT ![p] = "join"]
    /\ stopper' = stopper \cup {p}
    /\ UNCHANGED <<mgrVars, pipeVars, ev, loopVars, coVars, timerVars, ioReady, job>>

\* Sched::stop: the swap of _x.stopped; a second stop returns at once.
Stop(p) ==
    /\ p \in Thread
    /\ CanCall(p)
    /\ stopped' = TRUE
    /\ IF stopped
       THEN UNCHANGED callVars
       ELSE /\ pcC' = [pcC EXCEPT ![p] = "cas"]
            /\ stopper' = stopper \cup {p}
            /\ UNCHANGED job
    /\ UNCHANGED <<mgrVars, pipeVars, ev, loopVars, coVars, timerVars, ioReady>>

\* A bug: stop() does not wait for the loop.
StopReturnsEarly(p) ==
    /\ pcC[p] = "join"
    /\ pcC' = [pcC EXCEPT ![p] = "out"]
    /\ UNCHANGED <<mgrVars, pipeVars, stopped, ev, loopVars, coVars, timerVars, ioReady, job, stopper>>

\* Sched::stop: _x.ev.wait() returns; the event is not manual-reset.
StopReturns(p) ==
    /\ pcC[p] = "join"
    /\ ev
    /\ ev' = FALSE
    /\ pcC' = [pcC EXCEPT ![p] = "out"]
    /\ UNCHANGED <<mgrVars, pipeVars, stopped, loopVars, coVars, timerVars, ioReady, job, stopper>>

(***************************************************************************)
(* The loop thread (Sched::loop).  It steps only while no coroutine has    *)
(* control.                                                                *)
(***************************************************************************)
At(l) == pcL = l /\ cur = NoCo

\* while (!_x.stopped)
LoopCheck ==
    /\ At("check")
    /\ pcL' = IF stopped THEN "exit" ELSE "wait"
    /\ UNCHANGED <<mgrVars, pipeVars, stopped, ev, batchNew, batchReady, timedOut, events,
                   waitForever, timeout, cur, coVars, timerVars, ioReady, callVars>>

Pending == ioReady \cup (IF pipe > 0 THEN {PipeEv} ELSE {})

\* epoll_wait returns the pending events, edge-triggered.
WaitEvents ==
    /\ At("wait")
    /\ Pending # {}
    /\ events' = Pending
    /\ ioReady' = {}
    /\ pcL' = "woken"
    /\ UNCHANGED <<mgrVars, pipeVars, stopped, ev, batchNew, batchReady, timedOut,
                   waitForever, timeout, cur, coVars, timerVars, callVars>>

\* epoll_wait returns 0 after _wait_ms.
WaitTimeout ==
    /\ At("wait")
    /\ Pending = {}
    /\ ~waitForever
    /\ pcL' = "woken"
    /\ UNCHANGED <<mgrVars, pipeVars, stopped, ev, batchNew, batchReady, timedOut, events,
                   waitForever, timeout, cur, coVars, timerVars, ioReady, callVars>>

\* epoll_wait returns -1 with EINTR: straight back to the loop's condition.
WaitInterrupted ==
    /\ At("wait")
    /\ Pending = {}
    /\ pcL' = "check"
    /\ UNCHANGED <<mgrVars, pipeVars, stopped, ev, batchNew, batchReady, timedOut, events,
                   waitForever, timeout, cur, coVars, timerVars, ioReady, callVars>>

\* if (_x.stopped) break, before any event is looked at.
LoopWoken ==
    /\ At("woken")
    /\ pcL' = IF stopped THEN "exit" ELSE "events"
    /\ UNCHANGED <<mgrVars, pipeVars, stopped, ev, batchNew, batchReady, timedOut, events,
                   waitForever, timeout, cur, coVars, timerVars, ioReady, callVars>>

\* handle_ev_pipe: read the pipe until it is empty ...
DrainPipe ==
    /\ At("events")
    /\ PipeEv \in events
    /\ pipe' = 0
    /\ pcL' = "drained"
    /\ UNCHANGED <<mgrVars, signaled, stopped, ev, batchNew, batchReady, timedOut, events,
                   waitForever, timeout, cur, coVars, timerVars, ioReady, callVars>>

\* A bug: _signaled is not reset.
ClearSignaledNever ==
    /\ At("drained")
    /\ events' = events \ {PipeEv}
    /\ pcL' = "events"
    /\ UNCHANGED <<mgrVars, pipeVars, stopped, ev, batchNew, batchReady, timedOut,
                   waitForever, timeout, cur, coVars, timerVars, ioReady, callVars>>

\* ... and only then store 0 into _signaled.
ClearSignaled ==
    /\ At("drained")
    /\ signaled' = FALSE
    /\ events' = events \ {PipeEv}
    /\ pcL' = "events"
    /\ UNCHANGED <<mgrVars, pipe, stopped, ev, batchNew, batchReady, timedOut,
                   waitForever, timeout, cur, coVars, timerVars, ioReady, callVars>>

\* A bug: the coroutine's timer survives the resume.
ResumeKeepsTimer(c) ==
    /\ cur' = c
    /\ st' = [st EXCEPT ![c] = "running"]
    /\ UNCHANGED timerVars

\* Sched::resume(c): delete the timer co->it names, then give c control.
Resume(c) ==
    /\ cur' = c
    /\ st' = [st EXCEPT ![c] = "running"]
    /\ it' = [it EXCEPT ![c] = FALSE]
    /\ IF it[c]
       THEN timers' = timers \ {c} /\ due' = due \ {c}
       ELSE UNCHANGED <<timers, due>>

\* An I/O event: resume the coroutine the socket's context names.
HandleIo(c) ==
    /\ At("events")
    /\ c \in events \ {PipeEv}
    /\ events' = events \ {c}
    /\ IF st[c] = "io"
       THEN Resume(c)
       ELSE UNCHANGED <<cur, st, timerVars>>
    /\ UNCHANGED <<mgrVars, pipeVars, stopped, ev, pcL, batchNew, batchReady, timedOut,
                   waitForever, timeout, wx, yields, ioReady, callVars>>

\* TaskManager::get_all_tasks, under the mutex.
GetAllTasks ==
    /\ At("events")
    /\ events = {}
    /\ batchNew' = newTasks /\ batchReady' = readyTasks
    /\ newTasks' = <<>> /\ readyTasks' = <<>>
    /\ pcL' = "new"
    /\ UNCHANGED <<pipeVars, stopped, ev, timedOut, events, waitForever, timeout, cur,
                   coVars, timerVars, ioReady, callVars>>

\* A bug: the closures are popped from the back.
ResumeNewLast ==
    /\ At("new")
    /\ batchNew # <<>>
    /\ batchNew' = SubSeq(batchNew, 1, Len(batchNew) - 1)
    /\ Resume(batchNew[Len(batchNew)])
    /\ UNCHANGED <<mgrVars, pipeVars, stopped, ev, pcL, batchReady, timedOut, events,
                   waitForever, timeout, wx, yields, ioReady, callVars>>

\* The loop over new_tasks; new_coroutine() gives each closure a coroutine.
ResumeNew ==
    /\ At("new")
    /\ batchNew # <<>>
    /\ batchNew' = Tail(batchNew)
    /\ Resume(Head(batchNew))
    /\ UNCHANGED <<mgrVars, pipeVars, stopped, ev, pcL, batchReady, timedOut, events,
                   waitForever, timeout, wx, yields, ioReady, callVars>>

NewDone ==
    /\ At("new")
    /\ batchNew = <<>>
    /\ pcL' = "ready"
    /\ UNCHANGED <<mgrVars, pipeVars, stopped, ev, batchNew, batchReady, timedOut, events,
                   waitForever, timeout, cur, coVars, timerVars, ioReady, callVars>>

\* The loop over ready_tasks.
ResumeReady ==
    /\ At("ready")
    /\ batchReady # <<>>
    /\ batchReady' = Tail(batchReady)
    /\ Resume(Head(batchReady))
    /\ UNCHANGED <<mgrVars, pipeVars, stopped, ev, pcL, batchNew, timedOut, events,
                   waitForever, timeout, wx, yields, ioReady, callVars>>

\* A bug: check_timeout ignores the state of the waitx.
TimerAlwaysWins == due

\* TimerManager::check_timeout: take the due timers; a waiter is resumed only
\* if the timer wins its waitx, CAS(&w->state, st_wait, st_timeout).
TimerWins == {c \in due : wx[c] \in {"none", "wait"}}

CheckTimeout ==
    /\ At("ready")
    /\ batchReady = <<>>
    /\ timedOut' = TimerWins
    /\ wx' = [c \in Co |-> IF c \in due /\ wx[c] = "wait" THEN "timeout" ELSE wx[c]]
    /\ timers' = timers \ due
    /\ due' = {}
    /\ it' = [c \in Co |-> it[c] /\ c \notin due]
    /\ waitForever' = (timers \ due = {})
    /\ timeout' = (TimerWins # {})
    /\ pcL' = "timedout"
    /\ UNCHANGED <<mgrVars, pipeVars, stopped, ev, batchNew, batchReady, events, cur,
                   st, yields, ioReady, callVars>>

\* The loop over the timed-out coroutines, _timeout being true.  An I/O wait
\* that timed out takes its event out of epoll first (~io_event).
ResumeTimedOut(c) ==
    /\ At("timedout")
    /\ c \in timedOut
    /\ timedOut' = timedOut \ {c}
    /\ Resume(c)
    /\ ioReady' = ioReady \ {c}
    /\ UNCHANGED <<mgrVars, pipeVars, stopped, ev, pcL, batchNew, batchReady, events,
                   waitForever, timeout, wx, yields, callVars>>

\* A bug: _timeout is not reset.
TimedOutDoneStale ==
    /\ At("timedout")
    /\ timedOut = {}
    /\ pcL' = "check"
    /\ UNCHANGED <<mgrVars, pipeVars, stopped, ev, batchNew, batchReady, timedOut, events,
                   waitForever, timeout, cur, coVars, timerVars, ioReady, callVars>>

TimedOutDone ==
    /\ At("timedout")
    /\ timedOut = {}
    /\ timeout' = FALSE
    /\ pcL' = "check"
    /\ UNCHANGED <<mgrVars, pipeVars, stopped, ev, batchNew, batchReady, timedOut, events,
                   waitForever, cur, coVars, timerVars, ioReady, callVars>>

\* _x.ev.signal() after the loop.
LoopExit ==
    /\ At("exit")
    /\ ev' = TRUE
    /\ pcL' = "ended"
    /\ UNCHANGED <<mgrVars, pipeVars, stopped, batchNew, batchReady, timedOut, events,
                   waitForever, timeout, cur, coVars, timerVars, ioReady, callVars>>

(***************************************************************************)
(* The coroutine that has control.                                         *)
(***************************************************************************)
Running(c) == cur = c /\ st[c] = "running" /\ pcC[Loop] = "idle"

CanSuspend(c) == Running(c) /\ yields[c] < MaxYield

\* Sched::yield: control goes back to the loop.
YieldAs(c, s) ==
    /\ cur' = NoCo
    /\ st' = [st EXCEPT ![c] = s]
    /\ yields' = [yields EXCEPT ![c] = @ + 1]

\* A blocking call puts its waitx in the object's list and unlocks the
\* object: from here on any thread can wake the coroutine, which still runs.
Enlist(c) ==
    /\ CanSuspend(c)
    /\ st' = [st EXCEPT ![c] = "enlisted"]
    /\ wx' = [wx EXCEPT ![c] = "wait"]
    /\ UNCHANGED <<mgrVars, pipeVars, stopped, ev, loopVars, yields, timerVars, ioReady, callVars>>

\* A bug: _wait_ms is left as it was.
AddTimerKeepsWait(c, setIt) ==
    /\ timers' = timers \cup {c}
    /\ it' = [it EXCEPT ![c] = setIt]
    /\ UNCHANGED <<due, waitForever>>

\* Sched::add_timer
AddTimer(c, setIt) ==
    /\ timers' = timers \cup {c}
    /\ it' = [it EXCEPT ![c] = setIt]
    /\ waitForever' = FALSE
    /\ UNCHANGED due

NoTimer == UNCHANGED <<timerVars, waitForever>>

\* ... and then suspends, with a timer or without.
Wait(c, timed) ==
    /\ cur = c /\ st[c] = "enlisted"
    /\ YieldAs(c, "waiting")
    /\ IF timed THEN AddTimer(c, TRUE) ELSE NoTimer
    /\ UNCHANGED <<mgrVars, pipeVars, stopped, ev, pcL, batchNew, batchReady, timedOut,
                   events, timeout, wx, ioReady, callVars>>

\* Sched::sleep does not set co->it, and co->waitx is null.
Sleep(c) ==
    /\ CanSuspend(c)
    /\ YieldAs(c, "sleeping")
    /\ wx' = [wx EXCEPT ![c] = "none"]
    /\ AddTimer(c, FALSE)
    /\ UNCHANGED <<mgrVars, pipeVars, stopped, ev, pcL, batchNew, batchReady, timedOut,
                   events, timeout, ioReady, callVars>>

\* io_event::wait, after the event was added to epoll.
WaitIo(c, timed) ==
    /\ CanSuspend(c)
    /\ YieldAs(c, "io")
    /\ wx' = [wx EXCEPT ![c] = "none"]
    /\ IF timed THEN AddTimer(c, TRUE) ELSE NoTimer
    /\ UNCHANGED <<mgrVars, pipeVars, stopped, ev, pcL, batchNew, batchReady, timedOut,
                   events, timeout, ioReady, callVars>>

\* main_func jumps back after cb->run(); resume() recycles the coroutine.
Return(c) ==
    /\ Running(c)
    /\ cur' = NoCo
    /\ st' = [st EXCEPT ![c] = "done"]
    /\ wx' = [wx EXCEPT ![c] = "none"]
    /\ UNCHANGED <<mgrVars, pipeVars, stopped, ev, pcL, batchNew, batchReady, timedOut, events,
                   waitForever, timeout, yields, timerVars, ioReady, callVars>>

(***************************************************************************)
(* The environment: time passes, sockets become ready.                     *)
(***************************************************************************)
Expire(c) ==
    /\ c \in timers \ due
    /\ due' = due \cup {c}
    /\ UNCHANGED <<mgrVars, pipeVars, stopped, ev, loopVars, coVars, timers, it, ioReady, callVars>>

BecomeReady(c) ==
    /\ st[c] = "io"
    /\ c \notin ioReady \cup events
    /\ ioReady' = ioReady \cup {c}
    /\ UNCHANGED <<mgrVars, pipeVars, stopped, ev, loopVars, coVars, timerVars, callVars>>

(***************************************************************************)
(* The specification                                                       *)
(***************************************************************************)
SignalStep(p) == AddReadyTask(p) \/ SignalCas(p) \/ SignalWrite(p) \/ StopReturns(p)

CallStep(p) ==
    \/ \E c \in Co : AddNewTask(p, c) \/ WinWaiter(p, c)
    \/ Stop(p)
    \/ SignalStep(p)

LoopStep ==
    \/ LoopCheck \/ WaitEvents \/ WaitTimeout \/ LoopWoken
    \/ DrainPipe \/ ClearSignaled \/ (\E c \in Co : HandleIo(c))
    \/ GetAllTasks \/ ResumeNew \/ NewDone \/ ResumeReady
    \/ CheckTimeout \/ (\E c \in Co : ResumeTimedOut(c)) \/ TimedOutDone
    \/ LoopExit

CoStep(c) ==
    \/ Enlist(c) \/ Sleep(c) \/ Return(c)
    \/ \E timed \in BOOLEAN : Wait(c, timed) \/ WaitIo(c, timed)

Next ==
    \/ \E p \in Caller : CallStep(p)
    \/ LoopStep
    \/ WaitInterrupted
    \/ \E c \in Co : CoStep(c) \/ Expire(c) \/ BecomeReady(c)

Spec == Init /\ [][Next]_vars

(***************************************************************************)
(* Fairness.  The operating system runs every thread, so the loop and a    *)
(* caller inside signal() go on; signals do not interrupt epoll_wait       *)
(* forever, so a wait that may time out infinitely often does (the strong  *)
(* fairness); a coroutine that has control gives it back; time passes.     *)
(* Nothing obliges anyone to post, to wake a waiter, to stop or to send.   *)
(***************************************************************************)
Fairness ==
    /\ WF_vars(LoopStep)
    /\ SF_vars(WaitTimeout)
    /\ \A p \in Caller : WF_vars(SignalStep(p))
    /\ \A c \in Co : WF_vars(CoStep(c)) /\ WF_vars(Expire(c))

FairSpec == Spec /\ Fairness

-----------------------------------------------------------------------------
(***************************************************************************)
(* Properties                                                              *)
(***************************************************************************)
\* The type of every variable (Sched, TaskManager, Epoll and Coroutine).
TypeOK ==
    /\ newTasks \in Seq(Co) /\ readyTasks \in Seq(Co)
    /\ signaled \in BOOLEAN /\ pipe \in Nat
    /\ stopped \in BOOLEAN /\ ev \in BOOLEAN
    /\ pcL \in LoopLabel
    /\ batchNew \in Seq(Co) /\ batchReady \in Seq(Co)
    /\ timedOut \subseteq Co
    /\ events \subseteq Co \cup {PipeEv}
    /\ waitForever \in BOOLEAN /\ timeout \in BOOLEAN
    /\ cur \in Co \cup {NoCo}
    /\ st \in [Co -> CoState]
    /\ wx \in [Co -> WaitState]
    /\ yields \in [Co -> Nat]
    /\ timers \subseteq Co /\ due \subseteq timers
    /\ it \in [Co -> BOOLEAN]
    /\ ioReady \subseteq Co
    /\ pcC \in [Caller -> CallLabel]
    /\ job \in [Caller -> Co \cup {NoCo}]
    /\ stopper \subseteq Thread
    /\ \A p \in Caller : pcC[p] = "push" => job[p] \in Co

Signaling(p) == pcC[p] \in {"cas", "write"}

Announced == pipe > 0 \/ \E p \in Caller : Signaling(p)

\* No lost wake-up: the loop never blocks in epoll_wait on an empty pipe with
\* a task in its queues, or with the stop flag set, unless the caller that
\* put it there is still inside Epoll::signal and will write the byte.
NoLostWakeup ==
    /\ pcL = "wait"
    /\ newTasks # <<>> \/ readyTasks # <<>> \/ stopped
    => Announced

\* Epoll::signal coalesces.  _signaled is set exactly while the one byte is
\* in somebody's hands: a caller's that won the CAS and is about to write it,
\* the pipe's, or the loop's that has read it; there is never a second byte.
Handshake ==
    /\ signaled <=> pipe > 0 \/ pcL = "drained" \/ (\E p \in Caller : pcC[p] = "write")
    /\ pipe \in {0, 1}
    /\ \A p, q \in Caller : pcC[p] = "write" /\ pcC[q] = "write" => p = q
    /\ (\E p \in Caller : pcC[p] = "write") => pipe = 0 /\ pcL # "drained"
    /\ pcL = "drained" => pipe = 0
    /\ PipeEv \in events => pipe > 0 \/ pcL = "drained"

\* Why no wake-up is lost: from get_all_tasks on, round the loop to the next
\* look at the events, whatever has been pushed is announced, by a byte in
\* the pipe or by a caller that has yet to try _signaled.
TasksAnnounced ==
    /\ pcL \in {"new", "ready", "timedout", "check", "wait", "woken"}
    /\ newTasks # <<>> \/ readyTasks # <<>>
    => Announced

\* The same of stop(): the flag is read by a loop that was woken up.
StopAnnounced == pcL = "wait" /\ stopped => Announced

\* The handshake of the callers and the loop that NoLostWakeup rests on.
WakeupsArrive == NoLostWakeup /\ Handshake /\ TasksAnnounced /\ StopAnnounced

Occurrences(s, c) == Cardinality({i \in 1..Len(s) : s[i] = c})

\* The number of places from which the loop is going to resume c.
Tickets(c) ==
    Occurrences(newTasks, c) + Occurrences(batchNew, c)
    + Occurrences(readyTasks, c) + Occurrences(batchReady, c)
    + Cardinality({p \in Caller : job[p] = c})
    + (IF c \in timedOut THEN 1 ELSE 0)

\* What c is owed: one resume once it is posted, or once its waitx is won
\* by a waker or by its timer; none while it runs, waits or has returned.
Owed(c) ==
    CASE st[c] = "new" -> 1
      [] st[c] \in {"enlisted", "waiting"} -> IF wx[c] = "wait" THEN 0 ELSE 1
      [] st[c] \in {"sleeping", "io"} -> IF c \in timedOut THEN 1 ELSE 0
      [] OTHER -> 0

\* A waker and a timer race for a waiter: exactly one of them resumes it, and
\* nothing resumes a coroutine that is running or has been recycled.
ResumedExactlyOnce == \A c \in Co : Tickets(c) = Owed(c)

\* A coroutine that has control has no timer left that could resume it later,
\* in another wait or after it was recycled: a timer belongs to a suspended
\* coroutine.  And the loop does not block without a limit while there is one:
\* _wait_ms is brought down by every add_timer and sleep that check_timeout
\* did not see.
TimersKept ==
    /\ \A c \in timers : st[c] \in {"waiting", "sleeping", "io"}
    /\ pcL = "wait" /\ timers # {} => ~waitForever

\* co::timeout() tells the truth: the coroutine that just came back from a
\* wait sees _timeout exactly when the timer won its waitx.
TimeoutVerdict ==
    \A c \in Co : cur = c /\ wx[c] \in {"ready", "timeout"} /\ st[c] = "running"
                  => timeout = (wx[c] = "timeout")

\* Timers of what waits only, and the truth about those that have expired.
TimersExact == TimersKept /\ TimeoutVerdict

\* When stop() returns to its caller, the loop has ended: no coroutine of
\* this scheduler has control any more, now or later.
StopQuiesces == \A p \in Thread : pcC[p] = "out" => pcL = "ended" /\ cur = NoCo

\* The mailbox of closures ...
NewBox == INSTANCE Mailbox WITH Item <- Co, box <- batchNew \o newTasks, closed <- stopped

\* ... and that of coroutines that are ready to resume.
ReadyBox == INSTANCE Mailbox WITH Item <- Co, box <- batchReady \o readyTasks, closed <- stopped

\* Sched implements both: go() runs closures, and add_ready_task resumes
\* coroutines, in the order in which they were pushed, each once, and all of
\* them unless the scheduler is stopped.
TasksAreDelivered == NewBox!Spec /\ ReadyBox!Spec

\* A coroutine woken by an event, or whose sleep is over, runs again unless
\* the scheduler is stopped.
SleepersWake ==
    \A c \in Co : st[c] = "sleeping" \/ (st[c] = "waiting" /\ c \in timers)
                  ~> st[c] = "running" \/ stopped

\* stop() returns: its signal reaches the loop wherever it is.
StopReturnsInTheEnd == \A p \in Thread : pcC[p] = "join" ~> pcC[p] = "out"

\* Everybody who waits for the loop returns.
WaitsEnd == SleepersWake /\ StopReturnsInTheEnd
=============================================================================
