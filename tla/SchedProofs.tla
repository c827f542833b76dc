---------------------------- MODULE SchedProofs ----------------------------
(***************************************************************************)
(* Proofs about Sched, for any number of coroutines and threads.           *)
(***************************************************************************)
EXTENDS Sched, QueueLemmas

(***************************************************************************)
(* Type correctness.                                                       *)
(***************************************************************************)
USE DEF Caller

LEMMA TypeInit == Init => TypeOK
<1> SUFFICES ASSUME Init PROVE TypeOK
  OBVIOUS
<1> USE SchedAssumption DEF Init, CoState, WaitState, LoopLabel, CallLabel
<1>1. newTasks \in Seq(Co) /\ readyTasks \in Seq(Co) /\ batchNew \in Seq(Co) /\ batchReady \in Seq(Co)
  OBVIOUS
<1>2. pipe \in Nat /\ yields \in [Co -> Nat]
  OBVIOUS
<1>3. /\ signaled \in BOOLEAN /\ stopped \in BOOLEAN /\ ev \in BOOLEAN
      /\ waitForever \in BOOLEAN /\ timeout \in BOOLEAN /\ it \in [Co -> BOOLEAN]
  OBVIOUS
<1> QED
  BY <1>1, <1>2, <1>3 DEF TypeOK

LEMMA TypeCall == ASSUME TypeOK, NEW p \in Caller, CallStep(p) PROVE TypeOK'
<1> USE DEF TypeOK, CallLabel, mgrVars, pipeVars, loopVars, coVars, timerVars, callVars
<1>1. ASSUME NEW c \in Co, AddNewTask(p, c) PROVE TypeOK'
  BY <1>1 DEF AddNewTask, CoState
<1>2. ASSUME NEW c \in Co, WinWaiter(p, c) PROVE TypeOK'
  BY <1>2 DEF WinWaiter, WaitState
<1>3. CASE AddReadyTask(p)
  BY <1>3 DEF AddReadyTask
<1>4. CASE SignalCas(p)
  BY <1>4 DEF SignalCas, AfterSignal
<1>5. CASE SignalWrite(p)
  BY <1>5 DEF SignalWrite, AfterSignal
<1>6. CASE Stop(p)
  BY <1>6 DEF Stop
<1>7. CASE StopReturns(p)
  BY <1>7 DEF StopReturns
<1> QED
  BY <1>1, <1>2, <1>3, <1>4, <1>5, <1>6, <1>7 DEF CallStep, SignalStep

LEMMA TypeLoop == ASSUME TypeOK, LoopStep \/ WaitInterrupted PROVE TypeOK'
<1> USE DEF TypeOK, At, LoopLabel, mgrVars, pipeVars, loopVars, coVars, timerVars, callVars
<1>1. CASE LoopCheck
  BY <1>1 DEF LoopCheck
<1>2. CASE WaitEvents
  BY <1>2 DEF WaitEvents, Pending
<1>3. CASE WaitTimeout
  BY <1>3 DEF WaitTimeout
<1>4. CASE WaitInterrupted
  BY <1>4 DEF WaitInterrupted
<1>5. CASE LoopWoken
  BY <1>5 DEF LoopWoken
<1>6. CASE DrainPipe
  BY <1>6 DEF DrainPipe
<1>7. CASE ClearSignaled
  BY <1>7 DEF ClearSignaled
<1>8. ASSUME NEW c \in Co, HandleIo(c) PROVE TypeOK'
  BY <1>8 DEF HandleIo, Resume, CoState
<1>9. CASE GetAllTasks
  BY <1>9 DEF GetAllTasks
<1>10. CASE ResumeNew
  BY <1>10 DEF ResumeNew, Resume, CoState
<1>11. CASE NewDone
  BY <1>11 DEF NewDone
<1>12. CASE ResumeReady
  BY <1>12 DEF ResumeReady, Resume, CoState
<1>13. CASE CheckTimeout
  BY <1>13 DEF CheckTimeout, TimerWins, WaitState
<1>14. ASSUME NEW c \in Co, ResumeTimedOut(c) PROVE TypeOK'
  BY <1>14 DEF ResumeTimedOut, Resume, CoState
<1>15. CASE TimedOutDone
  BY <1>15 DEF TimedOutDone
<1>16. CASE LoopExit
  BY <1>16 DEF LoopExit
<1> QED
  BY <1>1, <1>2, <1>3, <1>4, <1>5, <1>6, <1>7, <1>8, <1>9, <1>10, <1>11, <1>12, <1>13, <1>14, <1>15, <1>16 DEF LoopStep

LEMMA TypeCo ==
    ASSUME TypeOK, NEW c \in Co, CoStep(c) \/ Expire(c) \/ BecomeReady(c) PROVE TypeOK'
<1> USE DEF TypeOK, CoState, WaitState, mgrVars, pipeVars, loopVars, coVars, timerVars, callVars
<1>1. CASE Enlist(c)
  BY <1>1 DEF Enlist, CanSuspend, Running
<1>2. ASSUME NEW s \in CoState, YieldAs(c, s)
      PROVE  cur' \in Co \cup {NoCo} /\ st' \in [Co -> CoState] /\ yields' \in [Co -> Nat]
  BY <1>2 DEF YieldAs
<1>3. ASSUME NEW b \in BOOLEAN, AddTimer(c, b)
      PROVE  /\ timers' \subseteq Co /\ due' \subseteq timers'
             /\ it' \in [Co -> BOOLEAN] /\ waitForever' \in BOOLEAN
  BY <1>3 DEF AddTimer
<1>4. ASSUME NEW timed \in BOOLEAN, Wait(c, timed) PROVE TypeOK'
  <2>1. cur' \in Co \cup {NoCo} /\ st' \in [Co -> CoState] /\ yields' \in [Co -> Nat]
    BY <1>2, <1>4 DEF Wait
  <2>2. /\ timers' \subseteq Co /\ due' \subseteq timers'
        /\ it' \in [Co -> BOOLEAN] /\ waitForever' \in BOOLEAN
    BY <1>3, <1>4 DEF Wait, NoTimer
  <2> QED
    BY <1>4, <2>1, <2>2 DEF Wait
<1>5. CASE Sleep(c)
  <2>1. cur' \in Co \cup {NoCo} /\ st' \in [Co -> CoState] /\ yields' \in [Co -> Nat]
    BY <1>2, <1>5 DEF Sleep
  <2>2. /\ timers' \subseteq Co /\ due' \subseteq timers'
        /\ it' \in [Co -> BOOLEAN] /\ waitForever' \in BOOLEAN
    BY <1>3, <1>5 DEF Sleep
  <2> QED
    BY <1>5, <2>1, <2>2 DEF Sleep
<1>6. ASSUME NEW timed \in BOOLEAN, WaitIo(c, timed) PROVE TypeOK'
  <2>1. cur' \in Co \cup {NoCo} /\ st' \in [Co -> CoState] /\ yields' \in [Co -> Nat]
    BY <1>2, <1>6 DEF WaitIo
  <2>2. /\ timers' \subseteq Co /\ due' \subseteq timers'
        /\ it' \in [Co -> BOOLEAN] /\ waitForever' \in BOOLEAN
    BY <1>3, <1>6 DEF WaitIo, NoTimer
  <2> QED
    BY <1>6, <2>1, <2>2 DEF WaitIo
<1>7. CASE Return(c)
  BY <1>7 DEF Return, Running
<1>8. CASE Expire(c)
  BY <1>8 DEF Expire
<1>9. CASE BecomeReady(c)
  BY <1>9 DEF BecomeReady
<1> QED
  BY <1>1, <1>4, <1>5, <1>6, <1>7, <1>8, <1>9 DEF CoStep

\* TypeOK is an invariant of the scheduler, its callers and its coroutines.
THEOREM TypeCorrect == Spec => []TypeOK
<1>1. TypeOK /\ [Next]_vars => TypeOK'
  <2> SUFFICES ASSUME TypeOK, [Next]_vars PROVE TypeOK'
    OBVIOUS
  <2>1. CASE Next
    BY <2>1, TypeCall, TypeLoop, TypeCo DEF Next
  <2>2. CASE UNCHANGED vars
    BY <2>2 DEF TypeOK, vars, mgrVars, pipeVars, loopVars, coVars, timerVars, callVars
  <2> QED
    BY <2>1, <2>2
<1> QED
  BY TypeInit, <1>1, PTL DEF Spec

(***************************************************************************)
(* No wake-up is lost.  The invariant joins the handshake on _signaled,    *)
(* the announcement of queued tasks and the fate of the stop flag.         *)
(***************************************************************************)
WakeupInv == Handshake /\ TasksAnnounced /\ StopAnnounced

LEMMA WakeupInit == Init => WakeupInv
BY SchedAssumption DEF Init, WakeupInv, Handshake, TasksAnnounced, StopAnnounced, Announced, Signaling

\* A step that touches none of the variables of the handshake, and moves the
\* loop only inside or out of the part where tasks are announced, keeps it.
LEMMA WakeupFrame ==
    ASSUME TypeOK, WakeupInv, UNCHANGED <<newTasks, readyTasks, pipeVars, stopped, events, callVars>>,
           \/ pcL' = pcL
           \/ /\ pcL \in {"new", "ready", "timedout", "check", "wait", "woken", "exit"}
              /\ \/ pcL # "exit" /\ pcL' \in {"ready", "timedout", "check", "woken", "events"}
                 \/ pcL' \in {"exit", "ended"}
    PROVE  WakeupInv'
BY DEF WakeupInv, Handshake, TasksAnnounced, StopAnnounced, Announced, Signaling, pipeVars, callVars

LEMMA WakeupCall == ASSUME TypeOK, WakeupInv, NEW p \in Caller, CallStep(p) PROVE WakeupInv'
<1> USE DEF TypeOK, WakeupInv, Handshake, TasksAnnounced, StopAnnounced, Announced, Signaling,
            pipeVars, loopVars, CallLabel
<1>1. ASSUME NEW c \in Co, AddNewTask(p, c) PROVE WakeupInv'
  BY <1>1 DEF AddNewTask, CanCall
<1>2. ASSUME NEW c \in Co, WinWaiter(p, c) PROVE WakeupInv'
  BY <1>2 DEF WinWaiter, CanCall, mgrVars
<1>3. CASE AddReadyTask(p)
  BY <1>3 DEF AddReadyTask
<1>4. CASE SignalCas(p)
  BY <1>4 DEF SignalCas, AfterSignal, mgrVars
<1>5. CASE SignalWrite(p)
  BY <1>5 DEF SignalWrite, AfterSignal, mgrVars
<1>6. CASE Stop(p)
  BY <1>6 DEF Stop, CanCall, mgrVars, callVars
<1>7. CASE StopReturns(p)
  BY <1>7 DEF StopReturns, mgrVars
<1> QED
  BY <1>1, <1>2, <1>3, <1>4, <1>5, <1>6, <1>7 DEF CallStep, SignalStep

LEMMA WakeupLoop == ASSUME TypeOK, WakeupInv, LoopStep \/ WaitInterrupted PROVE WakeupInv'
<1> USE DEF At, mgrVars
<1>1. CASE LoopCheck \/ DrainPipe \/ ClearSignaled \/ GetAllTasks \/ WaitEvents
  <2> USE DEF TypeOK, WakeupInv, Handshake, TasksAnnounced, StopAnnounced, Announced, Signaling,
              pipeVars, callVars
  <2>1. CASE LoopCheck
    BY <2>1 DEF LoopCheck
  <2>2. CASE DrainPipe
    BY <2>2 DEF DrainPipe
  <2>3. CASE ClearSignaled
    BY <2>3 DEF ClearSignaled
  <2>4. CASE GetAllTasks
    BY <2>4 DEF GetAllTasks
  <2>5. CASE WaitEvents
    BY <2>5, SchedAssumption DEF WaitEvents, Pending
  <2> QED
    BY <1>1, <2>1, <2>2, <2>3, <2>4, <2>5
<1>2. CASE WaitTimeout
  BY <1>2, WakeupFrame DEF WaitTimeout
<1>3. CASE WaitInterrupted
  BY <1>3, WakeupFrame DEF WaitInterrupted
<1>4. CASE LoopWoken
  BY <1>4, WakeupFrame DEF LoopWoken
<1>5. ASSUME NEW c \in Co, HandleIo(c) PROVE WakeupInv'
  BY <1>5, SchedAssumption DEF HandleIo, WakeupInv, Handshake, TasksAnnounced, StopAnnounced,
     Announced, Signaling, pipeVars, callVars
<1>6. CASE ResumeNew
  BY <1>6, WakeupFrame DEF ResumeNew
<1>7. CASE NewDone
  BY <1>7, WakeupFrame DEF NewDone
<1>8. CASE ResumeReady
  BY <1>8, WakeupFrame DEF ResumeReady
<1>9. CASE CheckTimeout
  BY <1>9, WakeupFrame DEF CheckTimeout
<1>10. ASSUME NEW c \in Co, ResumeTimedOut(c) PROVE WakeupInv'
  BY <1>10, WakeupFrame DEF ResumeTimedOut
<1>11. CASE TimedOutDone
  BY <1>11, WakeupFrame DEF TimedOutDone
<1>12. CASE LoopExit
  BY <1>12, WakeupFrame DEF LoopExit
<1> QED
  BY <1>1, <1>2, <1>3, <1>4, <1>5, <1>6, <1>7, <1>8, <1>9, <1>10, <1>11, <1>12 DEF LoopStep

LEMMA WakeupCo ==
    ASSUME TypeOK, WakeupInv, NEW c \in Co, CoStep(c) \/ Expire(c) \/ BecomeReady(c)
    PROVE  WakeupInv'
<1>1. UNCHANGED <<newTasks, readyTasks, pipeVars, stopped, events, callVars>> /\ pcL' = pcL
  BY DEF CoStep, Enlist, Wait, Sleep, WaitIo, Return, Expire, BecomeReady, mgrVars, loopVars
<1> QED
  BY <1>1, WakeupFrame

\* WakeupsArrive, for any number of callers and coroutines: NoLostWakeup with
\* the handshake that makes it so.
THEOREM WakeupsArriveAtTheLoop == Spec => []WakeupsArrive
<1>1. TypeOK /\ WakeupInv /\ [Next]_vars => WakeupInv'
  <2> SUFFICES ASSUME TypeOK, WakeupInv, [Next]_vars PROVE WakeupInv'
    OBVIOUS
  <2>1. CASE Next
    BY <2>1, WakeupCall, WakeupLoop, WakeupCo DEF Next
  <2>2. CASE UNCHANGED vars
    BY <2>2, WakeupFrame DEF vars, mgrVars, loopVars
  <2> QED
    BY <2>1, <2>2
<1>2. WakeupInv => WakeupsArrive
  BY DEF WakeupsArrive, WakeupInv, NoLostWakeup, TasksAnnounced, StopAnnounced
<1> QED
  BY WakeupInit, TypeCorrect, <1>1, <1>2, PTL DEF Spec

(***************************************************************************)
(* Who resumes a coroutine.  ResumedExactlyOnce counts the tickets of a    *)
(* coroutine against what it is owed; it is inductive with what follows:   *)
(* which coroutine has control, what its waitx may be in each state, whom  *)
(* a timer may belong to, and which of the loop's local lists are in use   *)
(* where.  TimersExact and StopQuiesces follow from the same conjunction.  *)
(***************************************************************************)
Control ==
    /\ \A c \in Co : st[c] \in {"running", "enlisted"} <=> cur = c
    /\ cur # NoCo => pcL \in {"events", "new", "ready", "timedout"}

WaitStates ==
    \A c \in Co :
      /\ wx[c] = "wait" => st[c] \in {"enlisted", "waiting"}
      /\ st[c] = "enlisted" => wx[c] \in {"wait", "ready"}
      /\ st[c] = "waiting" => wx[c] # "none"
      /\ st[c] \in {"unborn", "new", "sleeping", "io"} => wx[c] = "none"

TimersMatch ==
    /\ \A c \in timers : /\ st[c] \in {"waiting", "sleeping", "io"}
                         /\ st[c] # "sleeping" => it[c]
    /\ timers # {} => ~waitForever

TimedOutMatch ==
    /\ pcL # "timedout" => timedOut = {} /\ ~timeout
    /\ timedOut # {} => timeout
    /\ \A c \in timedOut : /\ c \notin timers
                           /\ st[c] \in {"waiting", "sleeping", "io"}
                           /\ wx[c] \in {"timeout", "none"}
    /\ \A c \in Co : st[c] = "waiting" /\ wx[c] = "timeout" => c \in timedOut

LocalLists ==
    /\ pcL # "new" => batchNew = <<>>
    /\ pcL \notin {"new", "ready"} => batchReady = <<>>
    /\ \A p \in Caller : pcC[p] # "push" => job[p] = NoCo

LoopEnds ==
    /\ ev => pcL = "ended"
    /\ \A p \in Caller : pcC[p] = "out" => pcL = "ended"

Surroundings ==
    /\ TypeOK /\ Control /\ WaitStates /\ TimersMatch /\ TimedOutMatch
    /\ LocalLists /\ LoopEnds /\ TimeoutVerdict

LifeInv == Surroundings /\ ResumedExactlyOnce

\* How the parts of Tickets change.
LEMMA CallersFinite == IsFiniteSet(Caller)
BY SchedAssumption, FS_AddElement

LEMMA OccurrencesTimes == ASSUME NEW s, NEW c PROVE Occurrences(s, c) = Times(s, c)
BY DEF Occurrences, Times, Places

LEMMA OccurrencesType ==
    ASSUME NEW s \in Seq(Co), NEW c
    PROVE  Occurrences(s, c) \in Nat /\ (s = <<>> => Occurrences(s, c) = 0)
BY OccurrencesTimes, TimesType, TimesEmpty

LEMMA OccurrencesAppend ==
    ASSUME NEW s \in Seq(Co), NEW d \in Co, NEW c
    PROVE  Occurrences(Append(s, d), c) = Occurrences(s, c) + (IF d = c THEN 1 ELSE 0)
BY OccurrencesTimes, TimesAppend

LEMMA OccurrencesTail ==
    ASSUME NEW s \in Seq(Co), s # <<>>, NEW c
    PROVE  /\ Tail(s) \in Seq(Co) /\ Head(s) \in Co
           /\ Occurrences(s, c) = Occurrences(Tail(s), c) + (IF Head(s) = c THEN 1 ELSE 0)
<1>1. Tail(s) \in Seq(Co) /\ Head(s) \in Co
  OBVIOUS
<1> QED
  BY <1>1, OccurrencesTimes, TimesTail

Wakers(c) == Cardinality({p \in Caller : job[p] = c})

LEMMA TicketsParts ==
    ASSUME TypeOK, NEW c \in Co
    PROVE  /\ Occurrences(newTasks, c) \in Nat /\ Occurrences(batchNew, c) \in Nat
           /\ Occurrences(readyTasks, c) \in Nat /\ Occurrences(batchReady, c) \in Nat
           /\ Wakers(c) \in Nat
           /\ Tickets(c) = Occurrences(newTasks, c) + Occurrences(batchNew, c)
                           + Occurrences(readyTasks, c) + Occurrences(batchReady, c)
                           + Wakers(c) + (IF c \in timedOut THEN 1 ELSE 0)
<1>1. {p \in Caller : job[p] = c} \in SUBSET Caller
  OBVIOUS
<1>2. Wakers(c) \in Nat
  BY <1>1, CallersFinite, FS_Subset, FS_CardinalityType DEF Wakers
<1> QED
  BY <1>2, OccurrencesType DEF TypeOK, Tickets, Wakers

LEMMA TicketsNext ==
    ASSUME NEW c \in Co
    PROVE  Tickets(c)' = Occurrences(newTasks', c) + Occurrences(batchNew', c)
                         + Occurrences(readyTasks', c) + Occurrences(batchReady', c)
                         + Wakers(c)' + (IF c \in timedOut' THEN 1 ELSE 0)
BY DEF Tickets, Wakers, Occurrences

LEMMA WakersMove ==
    ASSUME TypeOK, TypeOK', NEW p \in Caller, \A q \in Caller \ {p} : job'[q] = job[q], NEW c \in Co
    PROVE  /\ Wakers(c) \in Nat /\ Wakers(c)' \in Nat
           /\ Wakers(c)' + (IF job[p] = c THEN 1 ELSE 0) = Wakers(c) + (IF job'[p] = c THEN 1 ELSE 0)
<1>1. /\ IsFiniteSet(Caller)
      /\ job \in [Caller -> Co \cup {NoCo}] /\ job' \in [Caller -> Co \cup {NoCo}]
  BY CallersFinite DEF TypeOK
<1>2. /\ Wakers(c) = Cardinality(Sources(job, Caller, c))
      /\ Wakers(c)' = Cardinality(Sources(job', Caller, c))
  BY DEF Wakers, Sources
<1> QED
  BY <1>1, <1>2, CountMoves

LEMMA OwedWhen ==
    ASSUME TypeOK, NEW c \in Co
    PROVE  /\ Owed(c) \in {0, 1}
           /\ Owed(c) = 1 <=> \/ st[c] = "new"
                              \/ st[c] \in {"enlisted", "waiting"} /\ wx[c] # "wait"
                              \/ st[c] \in {"sleeping", "io"} /\ c \in timedOut
BY DEF Owed

\* The head of a local list is a coroutine to resume: one that is new, or
\* that a waker has won, and no timer owns it.
LEMMA HeadIsOwed ==
    ASSUME LifeInv, cur = NoCo, timedOut = {}, NEW l \in {batchNew, batchReady}, l # <<>>
    PROVE  /\ Head(l) \in Co
           /\ \/ st[Head(l)] = "new"
              \/ st[Head(l)] = "waiting" /\ wx[Head(l)] = "ready"
<1> DEFINE c == Head(l)
<1>1. c \in Co /\ l \in Seq(Co)
  BY DEF LifeInv, Surroundings, TypeOK
<1>2. Occurrences(l, c) > 0
  <2>1. /\ Tail(l) \in Seq(Co)
        /\ Occurrences(l, c) = Occurrences(Tail(l), c) + (IF Head(l) = c THEN 1 ELSE 0)
    BY <1>1, OccurrencesTail
  <2>2. Occurrences(Tail(l), c) \in Nat
    BY <2>1, OccurrencesType
  <2> QED
    BY <2>1, <2>2
<1>3. Tickets(c) > 0
  <2>1. Occurrences(batchNew, c) > 0 \/ Occurrences(batchReady, c) > 0
    BY <1>2
  <2>2. TypeOK /\ c \in Co
    BY <1>1 DEF LifeInv, Surroundings
  <2> HIDE DEF c
  <2> QED
    BY <2>1, <2>2, TicketsParts
<1>4. Owed(c) > 0
  BY <1>1, <1>3 DEF LifeInv, ResumedExactlyOnce
<1>5. st[c] \in {"new", "waiting"} /\ (st[c] = "waiting" => wx[c] # "wait")
  <2>1. Owed(c) = 1 /\ st[c] # "enlisted"
    BY <1>1, <1>4, OwedWhen, SchedAssumption DEF LifeInv, Surroundings, Control
  <2> QED
    BY <1>1, <2>1, OwedWhen DEF LifeInv, Surroundings
<1> QED
  BY <1>1, <1>5 DEF LifeInv, Surroundings, WaitStates, TimedOutMatch, TypeOK, WaitState

LEMMA LifeInit == Init => LifeInv
<1> SUFFICES ASSUME Init PROVE LifeInv
  OBVIOUS
<1>1. TypeOK
  BY TypeInit
<1>2. Control /\ WaitStates /\ TimersMatch /\ TimedOutMatch /\ LocalLists /\ LoopEnds /\ TimeoutVerdict
  BY SchedAssumption DEF Init, Control, WaitStates, TimersMatch, TimedOutMatch, LocalLists, LoopEnds,
     TimeoutVerdict
<1>3. ASSUME NEW c \in Co PROVE Tickets(c) = Owed(c)
  <2>1. /\ Occurrences(newTasks, c) = 0 /\ Occurrences(batchNew, c) = 0
        /\ Occurrences(readyTasks, c) = 0 /\ Occurrences(batchReady, c) = 0
    <3>1. Occurrences(<<>>, c) = 0
      BY OccurrencesTimes, TimesEmpty
    <3> QED
      BY <3>1 DEF Init
  <2>2. {p \in Caller : job[p] = c} = {}
    BY SchedAssumption DEF Init
  <2>3. Wakers(c) = 0
    BY <2>2, FS_EmptySet DEF Wakers
  <2> QED
    BY <1>1, <2>1, <2>3, TicketsParts DEF Init, Owed
<1> QED
  BY <1>1, <1>2, <1>3 DEF LifeInv, Surroundings, ResumedExactlyOnce

(***************************************************************************)
(* The steps.  Each lemma gets TypeOK' from type correctness.              *)
(***************************************************************************)
ticketVars == <<newTasks, readyTasks, batchNew, batchReady, timedOut, job>>

LEMMA OnceFrame ==
    ASSUME LifeInv, UNCHANGED ticketVars, \A c \in Co : Owed(c)' = Owed(c)
    PROVE  ResumedExactlyOnce'
BY DEF LifeInv, ResumedExactlyOnce, Tickets, Occurrences, ticketVars

\* A step that resumes nobody and changes no list, no timer and no waitx.
QuietMove ==
    \/ pcL' = pcL
    \/ /\ cur = NoCo
       /\ \/ /\ pcL \in {"check", "wait", "woken", "events", "drained"}
             /\ pcL' \in {"check", "wait", "woken", "events", "drained", "exit"}
          \/ pcL = "new" /\ batchNew = <<>> /\ pcL' = "ready"

LEMMA QuietStep ==
    ASSUME LifeInv, TypeOK', UNCHANGED <<ticketVars, st, wx, timers, it, waitForever, timeout, cur, ev>>,
           QuietMove,
           \A p \in Caller : /\ pcC[p] = "push" => pcC'[p] = "push"
                             /\ pcC'[p] = "out" => pcC[p] = "out"
    PROVE  LifeInv'
<1> USE DEF LifeInv, Surroundings
<1>1. Control' /\ LocalLists' /\ LoopEnds'
  BY SchedAssumption DEF Control, LocalLists, LoopEnds, QuietMove, ticketVars
<1>2. WaitStates' /\ TimersMatch' /\ TimeoutVerdict'
  BY DEF WaitStates, TimersMatch, TimeoutVerdict
<1>3. TimedOutMatch'
  BY DEF TimedOutMatch, QuietMove, ticketVars
<1>4. \A c \in Co : Owed(c)' = Owed(c)
  BY DEF Owed, ticketVars
<1> QED
  BY <1>1, <1>2, <1>3, <1>4, OnceFrame

LEMMA LifeCall == ASSUME LifeInv, TypeOK', NEW p \in Caller, CallStep(p) PROVE LifeInv'
<1> USE DEF LifeInv, Surroundings
<1>0. TypeOK
  OBVIOUS
<1>1. ASSUME NEW d \in Co, AddNewTask(p, d) PROVE LifeInv'
  <2> USE DEF AddNewTask, CanCall
  <2>1. Surroundings'
    BY <1>0, <1>1 DEF Control, WaitStates, TimersMatch, TimedOutMatch, LocalLists, LoopEnds, TimeoutVerdict,
       TypeOK, loopVars, timerVars
  <2>2. ASSUME NEW c \in Co PROVE Tickets(c)' = Owed(c)'
    <3>1. Occurrences(newTasks', c) = Occurrences(newTasks, c) + (IF d = c THEN 1 ELSE 0)
      BY <1>0, <1>1, OccurrencesAppend DEF TypeOK
    <3>2. UNCHANGED <<readyTasks, batchNew, batchReady, timedOut>> /\ Wakers(c)' = Wakers(c)
      BY <1>1 DEF Wakers, loopVars
    <3>3. Tickets(c)' = Tickets(c) + (IF d = c THEN 1 ELSE 0)
      BY <1>0, <3>1, <3>2, TicketsParts, TicketsNext
    <3>4. Owed(c)' = IF d = c THEN 1 ELSE Owed(c)
      BY <1>0, <1>1 DEF Owed, TypeOK, loopVars
    <3>5. d = c => Owed(c) = 0
      BY <1>0, <1>1 DEF Owed
    <3> QED
      BY <1>0, <3>3, <3>4, <3>5, OwedWhen DEF ResumedExactlyOnce
  <2> QED
    BY <2>1, <2>2 DEF ResumedExactlyOnce
<1>2. ASSUME NEW d \in Co, WinWaiter(p, d) PROVE LifeInv'
  <2> USE <1>2 DEF WinWaiter, CanCall
  <2>1. Surroundings'
    BY <1>0 DEF Control, WaitStates, TimersMatch, TimedOutMatch, LocalLists, LoopEnds, TimeoutVerdict,
       TypeOK, loopVars, timerVars
  <2>2. ASSUME NEW c \in Co PROVE Tickets(c)' = Owed(c)'
    <3>1. job[p] = NoCo /\ job'[p] = d /\ \A q \in Caller \ {p} : job'[q] = job[q]
      BY <1>0 DEF LocalLists, TypeOK
    <3>2. Wakers(c)' = Wakers(c) + (IF d = c THEN 1 ELSE 0) /\ Wakers(c) \in Nat
      BY <1>0, <3>1, WakersMove, SchedAssumption
    <3>3. Tickets(c)' = Tickets(c) + (IF d = c THEN 1 ELSE 0)
      BY <1>0, <3>2, TicketsParts, TicketsNext DEF loopVars, mgrVars
    <3>4. d = c => Owed(c) = 0 /\ Owed(c)' = 1
      BY <1>0, OwedWhen DEF Owed, TypeOK, WaitStates
    <3>5. d # c => Owed(c)' = Owed(c)
      BY <1>0 DEF Owed, TypeOK, loopVars
    <3> QED
      BY <1>0, <3>3, <3>4, <3>5, OwedWhen DEF ResumedExactlyOnce
  <2> QED
    BY <2>1, <2>2 DEF ResumedExactlyOnce
<1>3. CASE AddReadyTask(p)
  <2> USE <1>3 DEF AddReadyTask
  <2>1. Surroundings'
    BY <1>0 DEF Control, WaitStates, TimersMatch, TimedOutMatch, LocalLists, LoopEnds, TimeoutVerdict,
       TypeOK, loopVars, timerVars, coVars
  <2>2. ASSUME NEW c \in Co PROVE Tickets(c)' = Owed(c)'
    <3>1. job[p] \in Co /\ job'[p] = NoCo /\ \A q \in Caller \ {p} : job'[q] = job[q]
      BY <1>0 DEF TypeOK
    <3>2. Wakers(c) = Wakers(c)' + (IF job[p] = c THEN 1 ELSE 0) /\ Wakers(c) \in Nat /\ Wakers(c)' \in Nat
      BY <1>0, <3>1, WakersMove, SchedAssumption
    <3>3. Occurrences(readyTasks', c) = Occurrences(readyTasks, c) + (IF job[p] = c THEN 1 ELSE 0)
      BY <1>0, <3>1, OccurrencesAppend DEF TypeOK
    <3>4. Tickets(c)' = Tickets(c)
      BY <1>0, <3>2, <3>3, TicketsParts, TicketsNext DEF loopVars
    <3>5. Owed(c)' = Owed(c)
      BY DEF Owed, loopVars, coVars
    <3> QED
      BY <3>4, <3>5 DEF ResumedExactlyOnce
  <2> QED
    BY <2>1, <2>2 DEF ResumedExactlyOnce
<1>4. CASE SignalCas(p)
  BY <1>0, <1>4, QuietStep DEF SignalCas, AfterSignal, QuietMove, TypeOK, ticketVars, mgrVars, loopVars,
     coVars, timerVars
<1>5. CASE SignalWrite(p)
  BY <1>0, <1>5, QuietStep DEF SignalWrite, AfterSignal, QuietMove, TypeOK, ticketVars, mgrVars, loopVars,
     coVars, timerVars
<1>6. CASE Stop(p)
  BY <1>0, <1>6, QuietStep DEF Stop, CanCall, QuietMove, TypeOK, ticketVars, mgrVars, loopVars, coVars,
     timerVars, callVars
<1>7. CASE StopReturns(p)
  <2> USE <1>7 DEF StopReturns
  <2>1. Surroundings'
    BY <1>0 DEF Control, WaitStates, TimersMatch, TimedOutMatch, LocalLists, LoopEnds, TimeoutVerdict,
       TypeOK, loopVars, timerVars, coVars
  <2>2. \A c \in Co : Owed(c)' = Owed(c)
    BY DEF Owed, loopVars, coVars
  <2> QED
    BY <2>1, <2>2, OnceFrame DEF ticketVars, mgrVars, loopVars
<1> QED
  BY <1>1, <1>2, <1>3, <1>4, <1>5, <1>6, <1>7 DEF CallStep, SignalStep

\* Resuming c, whatever the list it comes from.
LEMMA ResumeKeeps ==
    ASSUME LifeInv, TypeOK', NEW c \in Co, cur = NoCo, Resume(c),
           UNCHANGED <<pcL, wx, timeout, waitForever, pcC, job, ev>>,
           pcL \in {"events", "new", "ready", "timedout"},
           wx[c] # "wait",
           wx[c] \in {"ready", "timeout"} => timeout = (wx[c] = "timeout"),
           st[c] = "sleeping" => c \notin timers,
           timedOut' = timedOut \ {c},
           pcL # "new" => batchNew' = <<>>,
           pcL \notin {"new", "ready"} => batchReady' = <<>>
    PROVE  /\ Surroundings'
           /\ \A d \in Co : Owed(d)' = IF d = c THEN 0 ELSE Owed(d)
<1> USE SchedAssumption DEF Resume
<1>0. TypeOK /\ Control /\ WaitStates /\ TimersMatch /\ TimedOutMatch /\ LocalLists /\ LoopEnds
  BY DEF LifeInv, Surroundings
<1>1. st' = [st EXCEPT ![c] = "running"] /\ st \in [Co -> CoState] /\ cur' = c /\ timers' \subseteq timers
  BY <1>0 DEF TypeOK
<1>2. Control' /\ WaitStates'
  BY <1>0, <1>1 DEF Control, WaitStates, CoState
<1>3. TimersMatch'
  <2>1. c \notin timers'
    <3>1. CASE it[c]
      BY <3>1
    <3>2. CASE ~it[c]
      <4>1. c \notin timers
        BY <1>0, <3>2 DEF TimersMatch
      <4>2. timers' = timers
        BY <3>2
      <4> QED
        BY <4>1, <4>2
    <3> QED
      BY <3>1, <3>2
  <2>2. \A d \in timers' : d \in timers /\ d \in Co /\ d # c
    BY <1>0, <1>1, <2>1 DEF TypeOK
  <2>3. it \in [Co -> BOOLEAN] /\ it' = [it EXCEPT ![c] = FALSE]
    BY <1>0 DEF TypeOK
  <2>4. \A d \in timers' : st'[d] = st[d] /\ it'[d] = it[d]
    BY <1>1, <2>2, <2>3
  <2> QED
    BY <1>0, <2>2, <2>4 DEF TimersMatch
<1>4. TimedOutMatch' /\ TimeoutVerdict'
  BY <1>0 DEF TimedOutMatch, TimeoutVerdict, TypeOK
<1>5. LocalLists' /\ LoopEnds'
  BY <1>0 DEF LocalLists, LoopEnds
<1>6. ASSUME NEW d \in Co PROVE Owed(d)' = IF d = c THEN 0 ELSE Owed(d)
  BY <1>0, <1>1 DEF Owed, CoState
<1> QED
  BY <1>2, <1>3, <1>4, <1>5, <1>6 DEF Surroundings

LEMMA LifeResume ==
    ASSUME LifeInv, TypeOK',
           \/ \E c \in Co : HandleIo(c) \/ ResumeTimedOut(c)
           \/ ResumeNew \/ ResumeReady
    PROVE  LifeInv'
<1>0. /\ TypeOK /\ Control /\ WaitStates /\ TimersMatch /\ TimedOutMatch /\ LocalLists /\ LoopEnds
      /\ TimeoutVerdict /\ ResumedExactlyOnce
  BY DEF LifeInv, Surroundings
<1>1. ASSUME NEW c \in Co, HandleIo(c) PROVE LifeInv'
  <2>1. CASE st[c] # "io"
    BY <1>1, <2>1, QuietStep DEF HandleIo, QuietMove, At, ticketVars, mgrVars, timerVars, callVars
  <2>2. CASE st[c] = "io"
    <3>1. wx[c] = "none" /\ c \notin timedOut /\ timedOut' = timedOut
      BY <1>0, <1>1, <2>2 DEF HandleIo, At, WaitStates, TimedOutMatch
    <3>2. Surroundings' /\ \A d \in Co : Owed(d)' = IF d = c THEN 0 ELSE Owed(d)
      <4>1. /\ cur = NoCo /\ Resume(c) /\ UNCHANGED <<pcL, wx, timeout, waitForever, pcC, job, ev>>
            /\ pcL = "events" /\ UNCHANGED <<batchNew, batchReady>>
        BY <1>1, <2>2 DEF HandleIo, At, callVars
      <4>2. batchNew = <<>> /\ batchReady = <<>> /\ timedOut' = timedOut \ {c}
        BY <1>0, <3>1, <4>1 DEF LocalLists
      <4> QED
        BY <2>2, <3>1, <4>1, <4>2, ResumeKeeps
    <3>3. Owed(c) = 0
      BY <1>0, <2>2, <3>1, OwedWhen
    <3>4. ResumedExactlyOnce'
      BY <1>1, <3>2, <3>3, OnceFrame DEF HandleIo, ticketVars, mgrVars, callVars
    <3> QED
      BY <3>2, <3>4 DEF LifeInv
  <2> QED
    BY <2>1, <2>2
<1>2. ASSUME NEW c \in Co, ResumeTimedOut(c) PROVE LifeInv'
  <2>1. /\ cur = NoCo /\ Resume(c) /\ UNCHANGED <<pcL, wx, timeout, waitForever, pcC, job, ev>>
        /\ pcL = "timedout" /\ c \in timedOut /\ timedOut' = timedOut \ {c}
        /\ UNCHANGED <<newTasks, readyTasks, batchNew, batchReady>>
    BY <1>2 DEF ResumeTimedOut, At, callVars, mgrVars
  <2>2. timeout /\ wx[c] \in {"timeout", "none"} /\ c \notin timers /\ batchNew = <<>> /\ batchReady = <<>>
    BY <1>0, <2>1 DEF TimedOutMatch, LocalLists
  <2>3. Surroundings' /\ \A d \in Co : Owed(d)' = IF d = c THEN 0 ELSE Owed(d)
    BY <2>1, <2>2, ResumeKeeps
  <2>4. ASSUME NEW d \in Co PROVE Tickets(d)' = Owed(d)'
    <3>1. Wakers(d)' = Wakers(d)
      BY <2>1 DEF Wakers
    <3>2. Tickets(d) = Tickets(d)' + (IF d = c THEN 1 ELSE 0)
      BY <1>0, <2>1, <3>1, TicketsParts, TicketsNext
    <3>3. Owed(c) = 1
      BY <1>0, <2>1, <2>2, OwedWhen DEF TimedOutMatch
    <3>4. Tickets(d)' \in Int
      BY <1>0, <2>1, <3>1, TicketsParts, TicketsNext
    <3> QED
      BY <1>0, <2>3, <3>2, <3>3, <3>4 DEF ResumedExactlyOnce
  <2> QED
    BY <2>3, <2>4 DEF LifeInv, ResumedExactlyOnce
<1>3. CASE ResumeNew
  <2> DEFINE c == Head(batchNew)
  <2>1. /\ cur = NoCo /\ Resume(c) /\ UNCHANGED <<pcL, wx, timeout, waitForever, pcC, job, ev, timedOut>>
        /\ pcL = "new" /\ batchNew # <<>> /\ batchNew' = Tail(batchNew)
        /\ UNCHANGED <<newTasks, readyTasks, batchReady>>
    BY <1>3 DEF ResumeNew, At, callVars, mgrVars
  <2>2. timedOut = {} /\ ~timeout
    BY <1>0, <2>1 DEF TimedOutMatch
  <2>3. c \in Co /\ (st[c] = "new" \/ (st[c] = "waiting" /\ wx[c] = "ready"))
    BY <2>1, <2>2, HeadIsOwed
  <2>4. wx[c] \in {"none", "ready"}
    BY <1>0, <2>3 DEF WaitStates
  <2> HIDE DEF c
  <2>5. Surroundings' /\ \A d \in Co : Owed(d)' = IF d = c THEN 0 ELSE Owed(d)
    <3>1. timedOut' = timedOut \ {c} /\ (wx[c] \in {"ready", "timeout"} => timeout = (wx[c] = "timeout"))
      BY <1>0, <2>1, <2>2, <2>4 DEF TypeOK
    <3> QED
      BY <2>1, <2>2, <2>3, <2>4, <3>1, ResumeKeeps
  <2>6. ASSUME NEW d \in Co PROVE Tickets(d)' = Owed(d)'
    <3>1. Wakers(d)' = Wakers(d)
      BY <2>1 DEF Wakers
    <3>2. Occurrences(batchNew, d) = Occurrences(batchNew', d) + (IF c = d THEN 1 ELSE 0)
      BY <1>0, <2>1, OccurrencesTail DEF TypeOK, c
    <3>3. Occurrences(batchNew', d) \in Nat
      BY OccurrencesType DEF TypeOK
    <3>4. UNCHANGED <<newTasks, readyTasks, batchReady, timedOut>>
      BY <2>1
    <3>5. Tickets(d) = Tickets(d)' + (IF d = c THEN 1 ELSE 0) /\ Tickets(d)' \in Int
      BY <1>0, <3>1, <3>2, <3>3, <3>4, TicketsParts, TicketsNext
    <3>6. Owed(c) = 1
      BY <1>0, <2>3, OwedWhen
    <3> QED
      BY <1>0, <2>5, <3>5, <3>6 DEF ResumedExactlyOnce
  <2> QED
    BY <2>5, <2>6 DEF LifeInv, ResumedExactlyOnce
<1>4. CASE ResumeReady
  <2> DEFINE c == Head(batchReady)
  <2>1. /\ cur = NoCo /\ Resume(c) /\ UNCHANGED <<pcL, wx, timeout, waitForever, pcC, job, ev, timedOut>>
        /\ pcL = "ready" /\ batchReady # <<>> /\ batchReady' = Tail(batchReady)
        /\ UNCHANGED <<newTasks, readyTasks, batchNew>>
    BY <1>4 DEF ResumeReady, At, callVars, mgrVars
  <2>2. timedOut = {} /\ ~timeout /\ batchNew' = <<>>
    BY <1>0, <2>1 DEF TimedOutMatch, LocalLists
  <2>3. c \in Co /\ (st[c] = "new" \/ (st[c] = "waiting" /\ wx[c] = "ready"))
    BY <2>1, <2>2, HeadIsOwed
  <2>4. wx[c] \in {"none", "ready"}
    BY <1>0, <2>3 DEF WaitStates
  <2> HIDE DEF c
  <2>5. Surroundings' /\ \A d \in Co : Owed(d)' = IF d = c THEN 0 ELSE Owed(d)
    <3>1. timedOut' = timedOut \ {c} /\ (wx[c] \in {"ready", "timeout"} => timeout = (wx[c] = "timeout"))
      BY <1>0, <2>1, <2>2, <2>4 DEF TypeOK
    <3> QED
      BY <2>1, <2>2, <2>3, <2>4, <3>1, ResumeKeeps
  <2>6. ASSUME NEW d \in Co PROVE Tickets(d)' = Owed(d)'
    <3>1. Wakers(d)' = Wakers(d)
      BY <2>1 DEF Wakers
    <3>2. Occurrences(batchReady, d) = Occurrences(batchReady', d) + (IF c = d THEN 1 ELSE 0)
      BY <1>0, <2>1, OccurrencesTail DEF TypeOK, c
    <3>3. Occurrences(batchReady', d) \in Nat
      BY OccurrencesType DEF TypeOK
    <3>4. UNCHANGED <<newTasks, readyTasks, batchNew, timedOut>>
      BY <2>1
    <3>5. Tickets(d) = Tickets(d)' + (IF d = c THEN 1 ELSE 0) /\ Tickets(d)' \in Int
      BY <1>0, <3>1, <3>2, <3>3, <3>4, TicketsParts, TicketsNext
    <3>6. Owed(c) = 1
      BY <1>0, <2>3, OwedWhen
    <3> QED
      BY <1>0, <2>5, <3>5, <3>6 DEF ResumedExactlyOnce
  <2> QED
    BY <2>5, <2>6 DEF LifeInv, ResumedExactlyOnce
<1> QED
  BY <1>1, <1>2, <1>3, <1>4

\* The loop's steps that resume nobody.
LEMMA LifeLoop ==
    ASSUME LifeInv, TypeOK',
           \/ LoopCheck \/ WaitEvents \/ WaitTimeout \/ WaitInterrupted \/ LoopWoken
           \/ DrainPipe \/ ClearSignaled \/ GetAllTasks \/ NewDone \/ CheckTimeout
           \/ TimedOutDone \/ LoopExit
    PROVE  LifeInv'
<1>0. /\ TypeOK /\ Control /\ WaitStates /\ TimersMatch /\ TimedOutMatch /\ LocalLists /\ LoopEnds
      /\ TimeoutVerdict /\ ResumedExactlyOnce
  BY DEF LifeInv, Surroundings
<1> USE DEF At, QuietMove, ticketVars, mgrVars, loopVars, coVars, timerVars, callVars
<1>1. CASE LoopCheck \/ WaitEvents \/ WaitTimeout \/ WaitInterrupted \/ LoopWoken
  BY <1>1, QuietStep DEF LoopCheck, WaitEvents, WaitTimeout, WaitInterrupted, LoopWoken
<1>2. CASE DrainPipe \/ ClearSignaled \/ NewDone
  BY <1>2, QuietStep DEF DrainPipe, ClearSignaled, NewDone
<1>3. CASE GetAllTasks
  <2>1. /\ cur = NoCo /\ cur' = cur /\ pcL = "events" /\ pcL' = "new" /\ batchNew = <<>> /\ batchReady = <<>>
        /\ UNCHANGED <<st, wx, it, timers, waitForever, timedOut, timeout, ev, pcC, job>>
    BY <1>0, <1>3 DEF GetAllTasks, LocalLists
  <2>2. Surroundings'
    BY <1>0, <2>1 DEF Surroundings, Control, WaitStates, TimersMatch, TimedOutMatch, LocalLists, LoopEnds,
       TimeoutVerdict
  <2>3. ASSUME NEW c \in Co PROVE Tickets(c)' = Owed(c)'
    <3>1. /\ batchNew' = newTasks /\ batchReady' = readyTasks /\ newTasks' = batchNew
          /\ readyTasks' = batchReady /\ timedOut' = timedOut
      BY <1>3, <2>1 DEF GetAllTasks
    <3>2. Wakers(c)' = Wakers(c)
      BY <2>1 DEF Wakers
    <3>3. Tickets(c)' = Tickets(c)
      BY <1>0, <3>1, <3>2, TicketsParts, TicketsNext
    <3>4. Owed(c)' = Owed(c)
      BY <2>1 DEF Owed
    <3> QED
      BY <1>0, <3>3, <3>4 DEF ResumedExactlyOnce
  <2> QED
    BY <2>2, <2>3 DEF LifeInv, ResumedExactlyOnce
<1>4. CASE CheckTimeout
  <2> USE DEF CheckTimeout, TimerWins
  <2>1. /\ cur = NoCo /\ cur' = cur /\ pcL = "ready" /\ pcL' = "timedout" /\ batchReady = <<>> /\ batchNew = <<>>
        /\ timedOut = {} /\ due \subseteq timers /\ timers' = timers \ due
        /\ UNCHANGED <<newTasks, readyTasks, batchNew, batchReady, st, ev, pcC, job>>
    BY <1>0, <1>4 DEF LocalLists, TimedOutMatch, TypeOK
  <2>2. /\ \A c \in timedOut' : c \in due /\ c \in Co /\ wx[c] \in {"none", "wait"}
        /\ \A c \in Co : c \in due /\ wx[c] \in {"none", "wait"} => c \in timedOut'
        /\ \A c \in Co : wx'[c] = IF c \in due /\ wx[c] = "wait" THEN "timeout" ELSE wx[c]
    BY <1>0, <1>4 DEF TypeOK
  <2>3. \A c \in timers' : it'[c] = it[c]
    BY <1>0, <1>4, <2>1 DEF TypeOK
  <2>4. Control' /\ LocalLists' /\ LoopEnds' /\ TimeoutVerdict'
    <3>1. Control'
      BY <1>0, <2>1, SchedAssumption DEF Control
    <3>2. LocalLists' /\ LoopEnds'
      BY <1>0, <2>1 DEF LocalLists, LoopEnds
    <3>3. TimeoutVerdict'
      BY <2>1, SchedAssumption DEF TimeoutVerdict
    <3> QED
      BY <3>1, <3>2, <3>3
  <2>5. WaitStates'
    BY <1>0, <2>1, <2>2 DEF WaitStates, TimersMatch
  <2>6. TimersMatch'
    BY <1>0, <1>4, <2>1, <2>3 DEF TimersMatch
  <2>7. timedOut' # {} => timeout'
    BY <1>4
  <2>8. TimedOutMatch'
    BY <1>0, <2>1, <2>2, <2>7 DEF TimedOutMatch, TimersMatch
  <2>9. ASSUME NEW c \in Co PROVE Tickets(c)' = Owed(c)'
    <3>1. Wakers(c)' = Wakers(c)
      BY <2>1 DEF Wakers
    <3>2. Tickets(c)' = Tickets(c) + (IF c \in timedOut' THEN 1 ELSE 0)
      BY <1>0, <2>1, <3>1, TicketsParts, TicketsNext
    <3>3. c \in timedOut' => /\ st[c] \in {"waiting", "sleeping", "io"}
                             /\ st[c] = "waiting" => wx[c] = "wait"
      BY <1>0, <2>1, <2>2 DEF TimersMatch, WaitStates
    <3>4. c \in timedOut' => Owed(c) = 0
      BY <1>0, <2>1, <3>3, OwedWhen
    <3>5. c \in timedOut' => Owed(c)' = 1
      BY <2>1, <2>2, <3>3 DEF Owed
    <3>6. c \notin timedOut' => Owed(c)' = Owed(c)
      <4> SUFFICES ASSUME c \notin timedOut' PROVE Owed(c)' = Owed(c)
        OBVIOUS
      <4>1. wx'[c] = wx[c] /\ st'[c] = st[c] /\ c \notin timedOut
        BY <2>1, <2>2
      <4> QED
        BY <4>1 DEF Owed
    <3> QED
      BY <1>0, <3>2, <3>4, <3>5, <3>6, OwedWhen DEF ResumedExactlyOnce
  <2> QED
    BY <2>4, <2>5, <2>6, <2>8, <2>9 DEF LifeInv, Surroundings, ResumedExactlyOnce
<1>5. CASE TimedOutDone
  <2> USE <1>5 DEF TimedOutDone
  <2>1. Surroundings'
    BY <1>0, SchedAssumption DEF Surroundings, Control, WaitStates, TimersMatch, TimedOutMatch, LocalLists,
       LoopEnds, TimeoutVerdict
  <2>2. \A c \in Co : Owed(c)' = Owed(c)
    BY DEF Owed
  <2> QED
    BY <2>1, <2>2, OnceFrame DEF LifeInv
<1>6. CASE LoopExit
  <2> USE <1>6 DEF LoopExit
  <2>1. Surroundings'
    BY <1>0, SchedAssumption DEF Surroundings, Control, WaitStates, TimersMatch, TimedOutMatch, LocalLists,
       LoopEnds, TimeoutVerdict
  <2>2. \A c \in Co : Owed(c)' = Owed(c)
    BY DEF Owed
  <2> QED
    BY <2>1, <2>2, OnceFrame DEF LifeInv
<1> QED
  BY <1>1, <1>2, <1>3, <1>4, <1>5, <1>6

LEMMA LifeCo ==
    ASSUME LifeInv, TypeOK', NEW c \in Co, CoStep(c) \/ Expire(c) \/ BecomeReady(c) PROVE LifeInv'
<1>0. /\ TypeOK /\ Control /\ WaitStates /\ TimersMatch /\ TimedOutMatch /\ LocalLists /\ LoopEnds
      /\ TimeoutVerdict /\ ResumedExactlyOnce
  BY DEF LifeInv, Surroundings
<1> USE SchedAssumption DEF mgrVars, loopVars, coVars, timerVars, callVars, CanSuspend, Running, YieldAs
<1>1. CASE Expire(c) \/ BecomeReady(c)
  BY <1>1, QuietStep DEF Expire, BecomeReady, QuietMove, ticketVars
<1>2. CASE Enlist(c) \/ Return(c)
  <2>1. Surroundings'
    <3>1. /\ cur = c /\ st[c] = "running" /\ c \notin timers /\ c \notin timedOut
          /\ UNCHANGED <<ticketVars, pcL, timers, it, waitForever, timeout, ev, pcC>>
      BY <1>0, <1>2 DEF Enlist, Return, TimersMatch, TimedOutMatch, ticketVars
    <3>2. /\ \A d \in Co : d # c => st'[d] = st[d] /\ wx'[d] = wx[d]
          /\ \/ cur' = c /\ st'[c] = "enlisted" /\ wx'[c] = "wait"
             \/ cur' = NoCo /\ st'[c] = "done" /\ wx'[c] = "none"
      BY <1>0, <1>2 DEF Enlist, Return, TypeOK
    <3>3. Control' /\ WaitStates'
      BY <1>0, <3>1, <3>2 DEF Control, WaitStates
    <3>4. TimersMatch' /\ TimedOutMatch'
      BY <1>0, <3>1, <3>2 DEF TimersMatch, TimedOutMatch, ticketVars, TypeOK
    <3>5. LocalLists' /\ LoopEnds' /\ TimeoutVerdict'
      BY <1>0, <3>1, <3>2 DEF LocalLists, LoopEnds, TimeoutVerdict, ticketVars
    <3> QED
      BY <3>3, <3>4, <3>5 DEF Surroundings
  <2>2. \A d \in Co : Owed(d)' = Owed(d)
    BY <1>0, <1>2 DEF Enlist, Return, Owed, TypeOK
  <2> QED
    BY <1>2, <2>1, <2>2, OnceFrame DEF LifeInv, Enlist, Return, ticketVars
<1>3. ASSUME Sleep(c) \/ \E timed \in BOOLEAN : Wait(c, timed) \/ WaitIo(c, timed)
      PROVE  LifeInv'
  <2>1. /\ cur = c /\ cur' = NoCo /\ st[c] \in {"running", "enlisted"} /\ c \notin timers /\ c \notin timedOut
        /\ UNCHANGED <<ticketVars, pcL, timeout, ev, pcC>>
    BY <1>0, <1>3 DEF Sleep, Wait, WaitIo, ticketVars, TimersMatch, TimedOutMatch
  <2>2. \/ /\ st[c] = "enlisted" /\ st' = [st EXCEPT ![c] = "waiting"] /\ wx' = wx
        \/ /\ st[c] = "running" /\ wx' = [wx EXCEPT ![c] = "none"]
           /\ \/ st' = [st EXCEPT ![c] = "sleeping"] \/ st' = [st EXCEPT ![c] = "io"]
    BY <1>3 DEF Sleep, Wait, WaitIo
  <2>3. \/ /\ timers' = timers \cup {c} /\ ~waitForever'
           /\ it' = [it EXCEPT ![c] = TRUE] \/ (st'[c] = "sleeping" /\ it' = [it EXCEPT ![c] = FALSE])
        \/ UNCHANGED <<timers, it, waitForever>>
    BY <1>0, <1>3 DEF Sleep, Wait, WaitIo, AddTimer, NoTimer, TypeOK
  <2>4. Control' /\ LocalLists' /\ LoopEnds' /\ TimeoutVerdict'
    <3>1. Control'
      <4>1. st'[c] \in {"waiting", "sleeping", "io"} /\ \A d \in Co : d # c => st'[d] = st[d]
        BY <1>0, <2>2 DEF TypeOK, CoState
      <4> QED
        BY <1>0, <2>1, <4>1 DEF Control
    <3>2. LocalLists' /\ LoopEnds'
      BY <1>0, <2>1 DEF LocalLists, LoopEnds, ticketVars
    <3>3. TimeoutVerdict'
      BY <2>1 DEF TimeoutVerdict
    <3> QED
      BY <3>1, <3>2, <3>3
  <2>5. WaitStates'
    BY <1>0, <2>1, <2>2 DEF WaitStates, TypeOK, CoState
  <2>6. TimedOutMatch'
    <3>1. /\ timedOut' = timedOut /\ timers' \subseteq timers \cup {c} /\ c \notin timedOut
          /\ pcL' = pcL /\ timeout' = timeout
      BY <2>1, <2>3 DEF ticketVars
    <3>2. \A d \in Co : d # c => st'[d] = st[d] /\ wx'[d] = wx[d]
      BY <1>0, <2>2 DEF TypeOK
    <3>3. ~(st'[c] = "waiting" /\ wx'[c] = "timeout")
      BY <1>0, <2>2 DEF WaitStates, TypeOK
    <3> QED
      BY <1>0, <3>1, <3>2, <3>3 DEF TimedOutMatch, TypeOK
  <2>7. TimersMatch'
    <3>1. st'[c] \in {"waiting", "sleeping", "io"} /\ \A d \in Co : d # c => st'[d] = st[d]
      BY <1>0, <2>2 DEF TypeOK, CoState
    <3>2. CASE UNCHANGED <<timers, it, waitForever>>
      BY <1>0, <2>1, <3>1, <3>2 DEF TimersMatch, TypeOK
    <3>3. CASE /\ timers' = timers \cup {c} /\ ~waitForever'
               /\ it' = [it EXCEPT ![c] = TRUE] \/ (st'[c] = "sleeping" /\ it' = [it EXCEPT ![c] = FALSE])
      <4>1. it \in [Co -> BOOLEAN] /\ timers \subseteq Co
        BY <1>0 DEF TypeOK
      <4>2. \A d \in timers : it'[d] = it[d]
        BY <2>1, <3>3, <4>1
      <4>3. st'[c] # "sleeping" => it'[c]
        BY <3>3, <4>1
      <4> QED
        BY <1>0, <2>1, <3>1, <3>3, <4>1, <4>2, <4>3 DEF TimersMatch
    <3> QED
      BY <2>3, <3>2, <3>3
  <2>8. \A d \in Co : Owed(d)' = Owed(d)
    <3> SUFFICES ASSUME NEW d \in Co PROVE Owed(d)' = Owed(d)
      OBVIOUS
    <3>1. CASE d # c
      <4>1. st'[d] = st[d] /\ wx'[d] = wx[d]
        BY <1>0, <2>2, <3>1 DEF TypeOK
      <4> QED
        BY <2>1, <4>1 DEF Owed, ticketVars
    <3>2. CASE d = c
      BY <1>0, <2>1, <2>2, <3>2 DEF Owed, ticketVars, TypeOK, CoState
    <3> QED
      BY <3>1, <3>2
  <2> QED
    BY <2>1, <2>4, <2>5, <2>6, <2>7, <2>8, OnceFrame DEF LifeInv, Surroundings
<1> QED
  BY <1>1, <1>2, <1>3 DEF CoStep

LEMMA LifeInvariant == Spec => []LifeInv
<1>1. LifeInv /\ TypeOK' /\ [Next]_vars => LifeInv'
  <2> SUFFICES ASSUME LifeInv, TypeOK', [Next]_vars PROVE LifeInv'
    OBVIOUS
  <2>1. CASE Next
    BY <2>1, LifeCall, LifeResume, LifeLoop, LifeCo DEF Next, LoopStep
  <2>2. CASE UNCHANGED vars
    BY <2>2, QuietStep DEF QuietMove, vars, ticketVars, mgrVars, loopVars, coVars, timerVars, callVars
  <2> QED
    BY <2>1, <2>2
<1> QED
  BY LifeInit, TypeCorrect, <1>1, PTL DEF Spec

\* For any coroutines and threads: the places from which the loop will resume
\* a coroutine are as many as it is owed, at every moment of every race
\* between a waker, the timer and the loop's own lists.
THEOREM EachIsResumedOnce == Spec => []ResumedExactlyOnce
<1>1. LifeInv => ResumedExactlyOnce
  BY DEF LifeInv
<1> QED
  BY <1>1, LifeInvariant, PTL

\* No timer outlives the wait it was armed for, the loop never blocks without
\* a limit while one is armed, and timeout() tells a coroutine the truth.
THEOREM TimersAreExact == Spec => []TimersExact
<1>1. LifeInv => TimersExact
  BY DEF LifeInv, Surroundings, TimersExact, TimersKept, TimersMatch
<1> QED
  BY <1>1, LifeInvariant, PTL

\* A caller that is back from stop() finds the loop ended for good.
THEOREM StopIsFinal == Spec => []StopQuiesces
<1>1. LifeInv => StopQuiesces
  BY DEF LifeInv, Surroundings, StopQuiesces, LoopEnds, Control
<1> QED
  BY <1>1, LifeInvariant, PTL

(***************************************************************************)
(* Tasks are delivered in order: Sched implements Mailbox twice, step by   *)
(* step.  (That all tasks are delivered is liveness, which TLC checks.)    *)
(***************************************************************************)
mailVars == <<newTasks, batchNew, readyTasks, batchReady, stopped>>

LEMMA MailboxInit == Init => NewBox!Init /\ ReadyBox!Init
BY ConcatEmptySeq, EmptySeq DEF Init, NewBox!Init, ReadyBox!Init

LEMMA MailboxFrame ==
    ASSUME UNCHANGED mailVars
    PROVE  UNCHANGED NewBox!mvars /\ UNCHANGED ReadyBox!mvars
BY DEF mailVars, NewBox!mvars, ReadyBox!mvars

LEMMA MailboxStep ==
    ASSUME TypeOK, LocalLists, [Next]_vars
    PROVE  [NewBox!Next]_(NewBox!mvars) /\ [ReadyBox!Next]_(ReadyBox!mvars)
<1> USE DEF TypeOK, mgrVars, loopVars, coVars, timerVars, callVars
<1> DEFINE Good == [NewBox!Next]_(NewBox!mvars) /\ [ReadyBox!Next]_(ReadyBox!mvars)
<1>1. ASSUME UNCHANGED mailVars PROVE Good
  BY <1>1, MailboxFrame
<1>2. ASSUME NEW p \in Caller, NEW c \in Co, AddNewTask(p, c) PROVE Good
  <2>1. newTasks' = Append(newTasks, c) /\ UNCHANGED <<readyTasks, batchNew, batchReady, stopped>>
    BY <1>2 DEF AddNewTask
  <2>2. batchNew \o Append(newTasks, c) = Append(batchNew \o newTasks, c)
    BY ConcatAppend
  <2> QED
    BY <2>1, <2>2 DEF NewBox!Next, NewBox!Put, ReadyBox!mvars
<1>3. ASSUME NEW p \in Caller, AddReadyTask(p) PROVE Good
  <2>1. /\ job[p] \in Co /\ readyTasks' = Append(readyTasks, job[p])
        /\ UNCHANGED <<newTasks, batchNew, batchReady, stopped>>
    BY <1>3 DEF AddReadyTask
  <2>2. batchReady \o Append(readyTasks, job[p]) = Append(batchReady \o readyTasks, job[p])
    BY <2>1, ConcatAppend
  <2> QED
    BY <2>1, <2>2 DEF ReadyBox!Next, ReadyBox!Put, NewBox!mvars
<1>4. ASSUME NEW p \in Caller, Stop(p) PROVE Good
  <2>1. stopped' = TRUE /\ UNCHANGED <<newTasks, readyTasks, batchNew, batchReady>>
    BY <1>4 DEF Stop
  <2>2. CASE stopped
    BY <1>1, <2>1, <2>2 DEF mailVars
  <2>3. CASE ~stopped
    BY <2>1, <2>3 DEF NewBox!Next, NewBox!Close, ReadyBox!Next, ReadyBox!Close
  <2> QED
    BY <2>2, <2>3
<1>5. CASE GetAllTasks
  <2>1. /\ batchNew = <<>> /\ batchReady = <<>> /\ newTasks' = <<>> /\ readyTasks' = <<>>
        /\ batchNew' = newTasks /\ batchReady' = readyTasks /\ stopped' = stopped
    BY <1>5 DEF GetAllTasks, At, LocalLists
  <2>2. newTasks \o <<>> = <<>> \o newTasks /\ readyTasks \o <<>> = <<>> \o readyTasks
    BY ConcatEmptySeq
  <2> QED
    BY <2>1, <2>2 DEF NewBox!mvars, ReadyBox!mvars
<1>6. CASE ResumeNew
  <2>1. /\ batchNew # <<>> /\ batchNew' = Tail(batchNew)
        /\ UNCHANGED <<newTasks, readyTasks, batchReady, stopped>>
    BY <1>6 DEF ResumeNew
  <2>2. batchNew \o newTasks # <<>> /\ Tail(batchNew) \o newTasks = Tail(batchNew \o newTasks)
    BY <2>1, ConcatTail
  <2> QED
    BY <2>1, <2>2 DEF NewBox!Next, NewBox!Take, ReadyBox!mvars
<1>7. CASE ResumeReady
  <2>1. /\ batchReady # <<>> /\ batchReady' = Tail(batchReady)
        /\ UNCHANGED <<newTasks, readyTasks, batchNew, stopped>>
    BY <1>7 DEF ResumeReady
  <2>2. batchReady \o readyTasks # <<>> /\ Tail(batchReady) \o readyTasks = Tail(batchReady \o readyTasks)
    BY <2>1, ConcatTail
  <2> QED
    BY <2>1, <2>2 DEF ReadyBox!Next, ReadyBox!Take, NewBox!mvars
<1>8. ASSUME NEW p \in Caller,
             (\E c \in Co : WinWaiter(p, c)) \/ SignalCas(p) \/ SignalWrite(p) \/ StopReturns(p)
      PROVE  Good
  BY <1>1, <1>8 DEF WinWaiter, SignalCas, SignalWrite, StopReturns, mailVars
<1>9. ASSUME \/ LoopCheck \/ WaitEvents \/ WaitTimeout \/ WaitInterrupted \/ LoopWoken
             \/ DrainPipe \/ ClearSignaled \/ NewDone
      PROVE  Good
  BY <1>1, <1>9 DEF LoopCheck, WaitEvents, WaitTimeout, WaitInterrupted, LoopWoken, DrainPipe,
     ClearSignaled, NewDone, mailVars
<1>10. ASSUME \/ CheckTimeout \/ TimedOutDone \/ LoopExit
              \/ \E c \in Co : HandleIo(c) \/ ResumeTimedOut(c)
       PROVE  Good
  BY <1>1, <1>10 DEF CheckTimeout, TimedOutDone, LoopExit, HandleIo, ResumeTimedOut, mailVars
<1>11. ASSUME NEW c \in Co, CoStep(c) \/ Expire(c) \/ BecomeReady(c) PROVE Good
  BY <1>1, <1>11 DEF CoStep, Enlist, Sleep, Return, Wait, WaitIo, Expire, BecomeReady, mailVars
<1>12. CASE UNCHANGED vars
  BY <1>1, <1>12 DEF vars, mailVars
<1> QED
  BY <1>2, <1>3, <1>4, <1>5, <1>6, <1>7, <1>8, <1>9, <1>10, <1>11, <1>12
     DEF Next, CallStep, SignalStep, LoopStep

\* New closures and coroutines that are ready are taken in the order in which
\* they were put, each once, and nothing but stop() closes the mailboxes.
THEOREM TasksStayInOrder ==
    Spec => /\ NewBox!Init /\ [][NewBox!Next]_(NewBox!mvars)
            /\ ReadyBox!Init /\ [][ReadyBox!Next]_(ReadyBox!mvars)
<1>1. LifeInv => TypeOK /\ LocalLists
  BY DEF LifeInv, Surroundings
<1> QED
  BY <1>1, MailboxInit, MailboxStep, LifeInvariant, PTL DEF Spec

=============================================================================
