------------------------------- MODULE Event -------------------------------
(***************************************************************************)
(* co::event (event_impl in co/src/co.cc): coroutines and threads wait for *)
(* an event that others signal.  A coroutine waits through a heap object,  *)
(* the waitx, in the list _wc; signal() and the coroutine's timer race for *)
(* its state with a CAS, and a waitx that lost to a timer stays in the     *)
(* list, to be freed by signal() or reused by the next wait().  A thread   *)
(* waits on a condition variable and is counted in _wt.                    *)
(*                                                                         *)
(* A section under the event's mutex is one action.  The CASes signal()    *)
(* makes after it has unlocked are actions of their own.                   *)
(***************************************************************************)
EXTENDS Naturals, Sequences, FiniteSets

CONSTANTS
    Co,         \* coroutines that wait
    Thread,     \* threads that wait
    Signaler,   \* callers of signal() and reset()
    W,          \* heap objects a waitx can be
    NoW,        \* null
    TimedCo,    \* the coroutines that wait with a timeout
    TimedThread,\* the threads that wait with a timeout
    Spurious,   \* pthread_cond_wait may return without a notification
    MaxWait,    \* bound: waits per actor
    MaxSignal   \* bound: signals and resets per signaler

Waiter == Co \cup Thread

VARIABLES
    manual,     \* _manual_reset, fixed by the constructor
    signaled,   \* _signaled
    wc,         \* _wc: the list of waitx objects
    wt,         \* _wt: number of threads waiting
    sn,         \* _sn: number of times threads were notified
    wst,        \* state of a waitx, "free" when it is not allocated
    wco,        \* waitx_t::co
    coWx,       \* Coroutine::waitx
    ready,      \* how often add_ready_task(c) was called and c not resumed yet
    pc,         \* where a waiter is
    snT,        \* the local sn of a thread
    rest,       \* the waitx objects signal() took and still has to wake
    waits,      \* waits so far (bound)
    signals,    \* signals and resets so far (bound)
    counted,    \* history: this wait of the waiter was answered by a signal
    result      \* what its last wait returned

vars == <<manual, signaled, wc, wt, sn, wst, wco, coWx, ready, pc, snT, rest,
          waits, signals, counted, result>>

Init ==
    /\ manual \in BOOLEAN
    /\ signaled \in BOOLEAN
    /\ wc = <<>> /\ wt = 0 /\ sn = 0
    /\ wst = [w \in W |-> "free"]
    /\ wco = [w \in W |-> NoW]
    /\ coWx = [c \in Co |-> NoW]
    /\ ready = [c \in Co |-> 0]
    /\ pc = [a \in Waiter |-> "idle"]
    /\ snT = [t \in Thread |-> 0]
    /\ rest = [s \in Signaler |-> <<>>]
    /\ waits = [a \in Waiter |-> 0]
    /\ signals = [s \in Signaler |-> 0]
    /\ counted = [a \in Waiter |-> FALSE]
    /\ result = [a \in Waiter |-> "none"]

Begin(a) ==
    /\ pc[a] = "idle"
    /\ waits[a] < MaxWait
    /\ waits' = [waits EXCEPT ![a] = @ + 1]
    /\ UNCHANGED signals

Returns(a, r) ==
    /\ pc' = [pc EXCEPT ![a] = "idle"]
    /\ result' = [result EXCEPT ![a] = r]

Blocks(a, at) ==
    /\ pc' = [pc EXCEPT ![a] = at]
    /\ result' = [result EXCEPT ![a] = "none"]
    /\ counted' = [counted EXCEPT ![a] = FALSE]

\* wait() on a signaled event, in a coroutine or a thread.
WaitSignaled(a) ==
    /\ Begin(a)
    /\ signaled
    /\ signaled' = manual
    /\ Returns(a, "true")
    /\ counted' = [counted EXCEPT ![a] = TRUE]
    /\ UNCHANGED <<manual, wc, wt, sn, wst, wco, coWx, ready, snT, rest>>

\* wait(0) on an event that is not signaled.
WaitZero(a) ==
    /\ Begin(a)
    /\ a \in TimedCo \cup TimedThread
    /\ ~signaled
    /\ Returns(a, "false")
    /\ counted' = [counted EXCEPT ![a] = FALSE]
    /\ UNCHANGED <<manual, signaled, wc, wt, sn, wst, wco, coWx, ready, snT, rest>>

(***************************************************************************)
(* Coroutines                                                              *)
(***************************************************************************)
\* The timed-out objects at the head of _wc: the first is reused, the others
\* are freed.
StaleLength ==
    LET live == {i \in 1..Len(wc) : wst[wc[i]] # "timeout"}
    IN  IF live = {} THEN Len(wc) ELSE (CHOOSE i \in live : \A j \in live : i <= j) - 1

Stale == {wc[i] : i \in 1..StaleLength}
Fresh == SubSeq(wc, StaleLength + 1, Len(wc))

\* event_impl::wait in a coroutine, up to yield().  A reused waitx keeps its
\* old co: only its state is set.
WaitCo(c) ==
    /\ Begin(c)
    /\ ~signaled
    /\ \E w \in IF Stale # {} THEN {wc[1]} ELSE {x \in W : wst[x] = "free"} :
          /\ wst' = [x \in W |-> IF x = w THEN "wait"
                                 ELSE IF x \in Stale THEN "free" ELSE wst[x]]
          /\ wco' = IF Stale # {} THEN wco ELSE [wco EXCEPT ![w] = c]
          /\ coWx' = [coWx EXCEPT ![c] = w]
          /\ wc' = Append(Fresh, w)
    /\ Blocks(c, "waiting")
    /\ UNCHANGED <<manual, signaled, wt, sn, ready, snT, rest>>

\* A bug: the waitx is not freed when the wait succeeds.
ResumeLeaks(c) ==
    /\ pc[c] = "waiting"
    /\ ready[c] > 0
    /\ ready' = [ready EXCEPT ![c] = @ - 1]
    /\ coWx' = [coWx EXCEPT ![c] = NoW]
    /\ Returns(c, "true")
    /\ UNCHANGED <<manual, signaled, wc, wt, sn, wst, wco, snT, rest, waits, signals, counted>>

\* The scheduler resumes c from its ready tasks: not timed out, the waitx is
\* freed and wait() returns true.
Resume(c) ==
    /\ pc[c] = "waiting"
    /\ ready[c] > 0
    /\ ready' = [ready EXCEPT ![c] = @ - 1]
    /\ wst' = [wst EXCEPT ![coWx[c]] = "free"]
    /\ coWx' = [coWx EXCEPT ![c] = NoW]
    /\ Returns(c, "true")
    /\ UNCHANGED <<manual, signaled, wc, wt, sn, wco, snT, rest, waits, signals, counted>>

\* A bug: the timer does not look at the state of the waitx.
TimeoutAlways(c) ==
    /\ pc[c] = "waiting"
    /\ c \in TimedCo
    /\ wst' = [wst EXCEPT ![coWx[c]] = "timeout"]
    /\ pc' = [pc EXCEPT ![c] = "timedout"]
    /\ UNCHANGED <<manual, signaled, wc, wt, sn, wco, coWx, ready, snT, rest,
                   waits, signals, counted, result>>

\* check_timeout: the timer of c wins its waitx ...
Timeout(c) ==
    /\ pc[c] = "waiting"
    /\ c \in TimedCo
    /\ wst[coWx[c]] = "wait"
    /\ wst' = [wst EXCEPT ![coWx[c]] = "timeout"]
    /\ pc' = [pc EXCEPT ![c] = "timedout"]
    /\ UNCHANGED <<manual, signaled, wc, wt, sn, wco, coWx, ready, snT, rest,
                   waits, signals, counted, result>>

\* ... and c is resumed with timeout() true: it leaves the waitx in the list.
ResumeTimedOut(c) ==
    /\ pc[c] = "timedout"
    /\ coWx' = [coWx EXCEPT ![c] = NoW]
    /\ Returns(c, "false")
    /\ UNCHANGED <<manual, signaled, wc, wt, sn, wst, wco, ready, snT, rest,
                   waits, signals, counted>>

(***************************************************************************)
(* Threads.  "cv" is inside the condition variable; "notified" and         *)
(* "expired" have left it and wait for the mutex.                          *)
(***************************************************************************)
\* event_impl::wait in a thread, up to cv_wait.
WaitThread(t) ==
    /\ Begin(t)
    /\ ~signaled
    /\ wt' = wt + 1
    /\ snT' = [snT EXCEPT ![t] = sn]
    /\ Blocks(t, "cv")
    /\ UNCHANGED <<manual, signaled, wc, sn, wst, wco, coWx, ready, rest>>

\* The condition variable gives up on its timeout, or for no reason.
Leave(t) ==
    /\ pc[t] = "cv"
    /\ \/ t \in TimedThread /\ pc' = [pc EXCEPT ![t] = "expired"]
       \/ Spurious /\ pc' = [pc EXCEPT ![t] = "notified"]
    /\ UNCHANGED <<manual, signaled, wc, wt, sn, wst, wco, coWx, ready, snT, rest,
                   waits, signals, counted, result>>

\* cv_wait returned true.
ThreadNotified(t) ==
    /\ pc[t] = "notified"
    /\ Returns(t, "true")
    /\ UNCHANGED <<manual, signaled, wc, wt, sn, wst, wco, coWx, ready, snT, rest,
                   waits, signals, counted>>

\* cv_wait returned false: unless threads were notified since, take it out of
\* the count.
ThreadExpired(t) ==
    /\ pc[t] = "expired"
    /\ wt' = IF sn = snT[t] THEN wt - 1 ELSE wt
    /\ Returns(t, "false")
    /\ UNCHANGED <<manual, signaled, wc, sn, wst, wco, coWx, ready, snT, rest,
                   waits, signals, counted>>

(***************************************************************************)
(* signal() and reset()                                                    *)
(***************************************************************************)
\* signal(), under the mutex.  Threads that wait are all notified.  If there
\* are none, the list is walked up to the first coroutine that is still
\* waiting; what was passed over had timed out and is freed.  The event is
\* marked signaled only if neither was found.
FirstLive ==
    LET live == {i \in 1..Len(wc) : wst[wc[i]] = "wait"}
    IN  IF live = {} THEN 0 ELSE CHOOSE i \in live : \A j \in live : i <= j

InSection(s) ==
    /\ rest[s] = <<>>
    /\ signals[s] < MaxSignal
    /\ signals' = [signals EXCEPT ![s] = @ + 1]

\* A bug: the coroutines are dropped when there are threads to notify.
NotifyThreadsOnly(s) ==
    /\ wt > 0
    /\ wt' = 0
    /\ sn' = sn + 1
    /\ pc' = [a \in Waiter |-> IF pc[a] = "cv" THEN "notified" ELSE pc[a]]
    /\ counted' = [a \in Waiter |-> counted[a] \/ pc[a] \in {"cv", "expired"}]
    /\ signaled' = (signaled /\ manual)
    /\ UNCHANGED <<wst, ready, rest>>

NotifyThreads(s) ==
    /\ wt > 0
    /\ wt' = 0
    /\ sn' = sn + 1
    /\ rest' = [rest EXCEPT ![s] = wc]
    /\ pc' = [a \in Waiter |-> IF pc[a] = "cv" THEN "notified" ELSE pc[a]]
    /\ counted' = [a \in Waiter |-> counted[a] \/ pc[a] \in {"cv", "expired"}]
    /\ signaled' = (signaled /\ manual)
    /\ UNCHANGED <<wst, ready>>

WakeFirst(s) ==
    /\ wt = 0
    /\ FirstLive > 0
    /\ LET w == wc[FirstLive] IN
       /\ wst' = [x \in W |-> IF x = w THEN "ready"
                              ELSE IF \E i \in 1..FirstLive : wc[i] = x THEN "free" ELSE wst[x]]
       /\ ready' = [ready EXCEPT ![wco[w]] = @ + 1]
       /\ counted' = [a \in Waiter |-> counted[a] \/ a = wco[w]]
       /\ rest' = [rest EXCEPT ![s] = SubSeq(wc, FirstLive + 1, Len(wc))]
    /\ signaled' = (signaled /\ manual)
    /\ UNCHANGED <<wt, sn, pc>>

MarkSignaled(s) ==
    /\ wt = 0
    /\ FirstLive = 0
    /\ wst' = [x \in W |-> IF \E i \in 1..Len(wc) : wc[i] = x THEN "free" ELSE wst[x]]
    /\ signaled' = TRUE
    /\ UNCHANGED <<wt, sn, pc, ready, counted, rest>>

Signal(s) ==
    /\ InSection(s)
    /\ NotifyThreads(s) \/ WakeFirst(s) \/ MarkSignaled(s)
    /\ wc' = <<>>
    /\ UNCHANGED <<manual, wco, coWx, snT, waits, result>>

\* signal() after unlocking: the rest of the list, one object at a time.
SignalRest(s) ==
    /\ rest[s] # <<>>
    /\ rest' = [rest EXCEPT ![s] = Tail(@)]
    /\ LET w == Head(rest[s]) IN
       IF wst[w] = "wait"
       THEN /\ wst' = [wst EXCEPT ![w] = "ready"]
            /\ ready' = [ready EXCEPT ![wco[w]] = @ + 1]
            /\ counted' = [counted EXCEPT ![wco[w]] = TRUE]
       ELSE /\ wst' = [wst EXCEPT ![w] = "free"]
            /\ UNCHANGED <<ready, counted>>
    /\ UNCHANGED <<manual, signaled, wc, wt, sn, wco, coWx, pc, snT, waits, signals, result>>

Reset(s) ==
    /\ InSection(s)
    /\ signaled' = FALSE
    /\ UNCHANGED <<manual, wc, wt, sn, wst, wco, coWx, ready, pc, snT, rest,
                   waits, counted, result>>

Step(a) ==
    \/ WaitSignaled(a) \/ WaitZero(a)
    \/ a \in Co /\ (WaitCo(a) \/ Resume(a) \/ Timeout(a) \/ ResumeTimedOut(a))
    \/ a \in Thread /\ (WaitThread(a) \/ Leave(a) \/ ThreadNotified(a) \/ ThreadExpired(a))

Next ==
    \/ \E a \in Waiter : Step(a)
    \/ \E s \in Signaler : Signal(s) \/ SignalRest(s) \/ Reset(s)

Spec == Init /\ [][Next]_vars

-----------------------------------------------------------------------------
\* The type of every variable.
TypeOK ==
    /\ manual \in BOOLEAN /\ signaled \in BOOLEAN
    /\ wc \in Seq(W)
    /\ wt \in Nat /\ sn \in Nat
    /\ wst \in [W -> {"free", "wait", "ready", "timeout"}]
    /\ wco \in [W -> Co \cup {NoW}]
    /\ coWx \in [Co -> W \cup {NoW}]
    /\ ready \in [Co -> Nat]
    /\ pc \in [Waiter -> {"idle", "waiting", "timedout", "cv", "notified", "expired"}]
    /\ snT \in [Thread -> Nat]
    /\ rest \in [Signaler -> Seq(W)]
    /\ counted \in [Waiter -> BOOLEAN]
    /\ result \in [Waiter -> {"none", "true", "false"}]

InList(w, l) == \E i \in 1..Len(l) : l[i] = w

Listed(w) == InList(w, wc) \/ \E s \in Signaler : InList(w, rest[s])

\* "Wake up all waiters": a coroutine inside wait() can still be found by a
\* signal, now or in the list one is working through, or it has been found
\* and its scheduler is about to resume it.
NoWaiterForgotten ==
    \A c \in Co : pc[c] = "waiting" =>
        \/ wst[coWx[c]] = "wait" /\ Listed(coWx[c])
        \/ wst[coWx[c]] = "ready" /\ ready[c] = 1

\* A waitx in a list is allocated and in no other list, and one that nobody
\* knows of has been freed: no use after free, and no leak.
WaitxOwned ==
    /\ \A w \in W : Listed(w) => wst[w] \in {"wait", "timeout"}
    /\ \A w \in W : wst[w] # "free" => Listed(w) \/ \E c \in Co : coWx[c] = w
    /\ \A s \in Signaler, w \in W : InList(w, rest[s]) =>
          ~InList(w, wc) /\ \A r \in Signaler \ {s} : ~InList(w, rest[r])

\* Nobody sleeps on a signaled event.
SignaledMeansNoWaiter ==
    signaled => wt = 0 /\ \A i \in 1..Len(wc) : wst[wc[i]] # "wait"

\* wait() returns true to a coroutine exactly when a signal counted it as a
\* waiter, or when it took the event's signaled state: no signal is used up by
\* a waiter that then reports a timeout, and no wait succeeds without a signal.
\* (A thread's wait promises less: it may expire while signal() still counts
\* it, and its condition variable may wake it with no signal.)
CoVerdict == \A a \in Co : result[a] # "none" => (result[a] = "true" <=> counted[a])

=============================================================================
