----------------------------- MODULE SyncEvent -----------------------------
(***************************************************************************)
(* co::sync_event (sync_event_impl in co/src/co.cc), the event for threads *)
(* alone: a condition variable, the number of threads that wait and the    *)
(* number of times they were notified.  A section under _m is one action.  *)
(***************************************************************************)
EXTENDS Naturals

CONSTANTS Thread, Signaler, TimedThread, Spurious, MaxWait, MaxSignal  \* as in Event

VARIABLES
    manual, signaled, wt, sn,  \* _manual_reset, _signaled, _wt, _sn
    pc,        \* where a thread is
    snT,       \* the local sn of a timed wait; history for the others
    waits, signals,  \* bounds
    counted, result  \* history: a signal answered the wait; what it returned

syncVars == <<manual, signaled, wt, sn, pc, snT, waits, signals, counted, result>>

SyncInit ==
    /\ manual \in BOOLEAN /\ signaled \in BOOLEAN
    /\ wt = 0 /\ sn = 0
    /\ pc = [t \in Thread |-> "idle"]
    /\ snT = [t \in Thread |-> 0]
    /\ waits = [t \in Thread |-> 0] /\ signals = [s \in Signaler |-> 0]
    /\ counted = [t \in Thread |-> FALSE]
    /\ result = [t \in Thread |-> "none"]

Returns(t, r) ==
    /\ pc' = [pc EXCEPT ![t] = "idle"]
    /\ result' = [result EXCEPT ![t] = r]

\* wait() and wait(ms), up to cv_wait().
Wait(t) ==
    /\ pc[t] = "idle" /\ waits[t] < MaxWait
    /\ waits' = [waits EXCEPT ![t] = @ + 1]
    /\ \/ /\ signaled
          /\ signaled' = manual
          /\ Returns(t, "true")
          /\ counted' = [counted EXCEPT ![t] = TRUE]
          /\ UNCHANGED <<wt, snT>>
       \/ /\ ~signaled /\ t \in TimedThread   \* ms = 0
          /\ Returns(t, "false")
          /\ counted' = [counted EXCEPT ![t] = FALSE]
          /\ UNCHANGED <<signaled, wt, snT>>
       \/ /\ ~signaled
          /\ wt' = wt + 1
          /\ snT' = [snT EXCEPT ![t] = sn]
          /\ pc' = [pc EXCEPT ![t] = "cv"]
          /\ result' = [result EXCEPT ![t] = "none"]
          /\ counted' = [counted EXCEPT ![t] = FALSE]
          /\ UNCHANGED signaled
    /\ UNCHANGED <<manual, sn, signals>>

\* The condition variable gives up on its timeout, or for no reason.
Leave(t) ==
    /\ pc[t] = "cv"
    /\ \/ t \in TimedThread /\ pc' = [pc EXCEPT ![t] = "expired"]
       \/ Spurious /\ pc' = [pc EXCEPT ![t] = "notified"]
    /\ UNCHANGED <<manual, signaled, wt, sn, snT, waits, signals, counted, result>>

\* A bug: a wait that expired is taken out of the count after a signal, too.
LeftAlways(t) ==
    /\ pc[t] \in {"notified", "expired"}
    /\ wt' = IF pc[t] = "expired" /\ wt > 0 THEN wt - 1 ELSE wt
    /\ Returns(t, IF pc[t] = "expired" THEN "false" ELSE "true")
    /\ UNCHANGED <<manual, signaled, sn, snT, waits, signals, counted>>

\* cv_wait has returned, and the thread has _m.
Left(t) ==
    /\ pc[t] \in {"notified", "expired"}
    /\ wt' = IF pc[t] = "expired" /\ sn = snT[t] THEN wt - 1 ELSE wt
    /\ Returns(t, IF pc[t] = "expired" THEN "false" ELSE "true")
    /\ UNCHANGED <<manual, signaled, sn, snT, waits, signals, counted>>

Calls(s) ==
    /\ signals[s] < MaxSignal
    /\ signals' = [signals EXCEPT ![s] = @ + 1]

Signal(s) ==
    /\ Calls(s)
    /\ IF wt > 0
       THEN /\ wt' = 0
            /\ sn' = sn + 1
            /\ signaled' = (signaled /\ manual)
            /\ pc' = [t \in Thread |-> IF pc[t] = "cv" THEN "notified" ELSE pc[t]]
            /\ counted' = [t \in Thread |-> counted[t] \/ pc[t] \in {"cv", "expired"}]
       ELSE signaled' = TRUE /\ UNCHANGED <<wt, sn, pc, counted>>
    /\ UNCHANGED <<manual, snT, waits, result>>

Reset(s) ==
    /\ Calls(s)
    /\ signaled' = FALSE
    /\ UNCHANGED <<manual, wt, sn, pc, snT, waits, counted, result>>

SyncNext ==
    \/ \E t \in Thread : Wait(t) \/ Leave(t) \/ Left(t)
    \/ \E s \in Signaler : Signal(s) \/ Reset(s)
=============================================================================
