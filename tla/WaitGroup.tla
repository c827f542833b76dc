----------------------------- MODULE WaitGroup -----------------------------
(***************************************************************************)
(* co::wait_group (co/src/co.cc): a counter and an auto-reset event.  The  *)
(* signalers of the event are the workers; each is counted with add(1) by  *)
(* a worker that is still counted itself, and calls done() once.           *)
(***************************************************************************)
EXTENDS Event

VARIABLES
    wg,     \* event_impl::_wg, the counter
    work    \* what each worker is doing

wgVars == <<wg, work>>

WGInit ==
    /\ Init
    /\ manual = FALSE /\ signaled = FALSE
    /\ \E s \in Signaler : work = [r \in Signaler |-> IF r = s THEN "working" ELSE "none"]
    /\ wg = 1

\* wait_group::add(1), and the worker r is started.
Add(s, r) ==
    /\ work[s] = "working" /\ work[r] = "none"
    /\ wg' = wg + 1
    /\ work' = [work EXCEPT ![r] = "working"]
    /\ UNCHANGED vars

\* A bug: the caller compares the counter with 1 after the decrement.
DoneOffByOne(s) ==
    /\ work[s] = "working"
    /\ wg' = wg - 1
    /\ work' = [work EXCEPT ![s] = IF wg' = 1 THEN "signal" ELSE "done"]
    /\ UNCHANGED vars

\* wait_group::done, the decrement.
Done(s) ==
    /\ work[s] = "working"
    /\ wg' = wg - 1
    /\ work' = [work EXCEPT ![s] = IF wg' = 0 THEN "signal" ELSE "done"]
    /\ UNCHANGED vars

\* wait_group::done, the last worker signals the event.
DoneSignal(s) ==
    /\ work[s] = "signal"
    /\ Signal(s)
    /\ work' = [work EXCEPT ![s] = "done"]
    /\ UNCHANGED wg

WGNext ==
    \/ \E a \in Waiter : Step(a) /\ UNCHANGED wgVars
    \/ \E s \in Signaler : \/ \E r \in Signaler : Add(s, r)
                           \/ Done(s) \/ DoneSignal(s)
                           \/ SignalRest(s) /\ UNCHANGED wgVars

WGSpec == WGInit /\ [][WGNext]_<<vars, wgVars>>

-----------------------------------------------------------------------------
Settled == \A s \in Signaler : work[s] \in {"none", "done"} /\ rest[s] = <<>>

\* wait() does not return while a worker is still counted.
NoEarlyReturn == \A a \in Waiter : result[a] = "true" => wg = 0

Blocked(a) == pc[a] = "cv" \/ (pc[a] = "waiting" /\ wst[coWx[a]] = "wait")

\* What does hold: a waiter is left behind only by a wait() that came after
\* the last done() and took the event's one signal; the waiters that the last
\* done() finds are all released.
LeftOnlyByAnother ==
    Settled => \A a \in Waiter : Blocked(a) => \E b \in Waiter \ {a} : counted[b]
=============================================================================
