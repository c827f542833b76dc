----------------------------- MODULE SchedManager -----------------------------
(***************************************************************************)
(* The schedulers of a process: SchedManager, main_sched(), stop_scheds()  *)
(* and what happens at exit (co/src/sched.h, sched.cc).  The first go()    *)
(* makes the manager, which starts a thread for each scheduler, or for all *)
(* but the first if the main thread is to run that one.  A scheduler's     *)
(* loop is one step here, see Sched.                                       *)
(***************************************************************************)
EXTENDS Naturals, FiniteSets

CONSTANTS
    AppThread, Main, \* the program's threads, and the one that runs main()
    Ncpu, SchedNum,  \* hardware_concurrency() and FLG_co_sched_num
    ManLiberties   \* what programs may do that the manager does not allow for:
                   \* "late_main", main_sched() when schedulers run already;
                   \* "no_loop", the main thread does not call loop() before
                   \* stop_scheds(); "inside", a coroutine calls stop_scheds();
                   \* "two_stops", stop_scheds() or exit during another;
                   \* "slow", a loop takes longer than the 128 ms of exit

Num == IF SchedNum = 0 \/ SchedNum > Ncpu THEN Ncpu ELSE SchedNum
Scheds == 0..Num - 1
Callers == AppThread \cup Scheds  \* a scheduler calls when a coroutine of it does

VARIABLES
    asMain,   \* main_thread_as_sched()
    made,     \* sched_man() has been called
    active,   \* is_active()
    inLoop,   \* the threads inside the loop of each scheduler
    stopped, ended,  \* _x.stopped, and _x.ev signaled
    table,    \* the size of each caller's SchedInfo::cputime, 0 without one
    stopping, \* where each caller is in stop(): its scheduler, and whether it waits
    done,     \* history: the callers stop_scheds() has returned to
    phase     \* "runs", "exit" when main() has returned, "gone" without schedulers

manVars == <<asMain, made, active, inLoop, stopped, ended, table, stopping, done, phase>>

NotStopping == [at |-> 0, waits |-> FALSE, stops |-> FALSE]

ManInit ==
    /\ asMain = FALSE /\ made = FALSE /\ active = FALSE
    /\ inLoop = [s \in Scheds |-> {}]
    /\ stopped = {} /\ ended = {}
    /\ table = [t \in Callers |-> 0]
    /\ stopping = [t \in Callers |-> NotStopping]
    /\ done = {} /\ phase = "runs"

\* A thread of the program, or a coroutine that runs.
CanCall(t) ==
    /\ phase # "gone" /\ ~stopping[t].stops
    /\ t \notin AppThread => inLoop[t] # {}
    /\ t = Main => phase = "runs" /\ \A s \in Scheds : Main \notin inLoop[s]

\* A bug: the flag is not looked at.
MakeAll ==
    /\ ~made
    /\ made' = TRUE /\ active' = TRUE
    /\ inLoop' = [s \in Scheds |-> {s}]

\* The constructor of SchedManager.
Make ==
    /\ ~made
    /\ made' = TRUE /\ active' = TRUE
    /\ inLoop' = [s \in Scheds |-> IF s = 0 /\ asMain' THEN {} ELSE {s}]

\* go() and next_sched(), which looks at the times of two neighbours, the first
\* at random.
NextSched(t) ==
    /\ CanCall(t)
    /\ UNCHANGED <<asMain, stopped, ended, stopping, done, phase>>
    /\ \/ Make
       \/ made /\ UNCHANGED <<made, active, inLoop>>
    /\ table' = [table EXCEPT ![t] = IF @ # 0 \/ Num = 1 THEN @ ELSE IF active' THEN Num ELSE Ncpu]

\* main_sched()
MainSched ==
    /\ CanCall(Main)
    /\ "late_main" \in ManLiberties \/ ~made
    /\ asMain' = TRUE
    /\ \/ Make
       \/ made /\ UNCHANGED <<made, active, inLoop>>
    /\ UNCHANGED <<stopped, ended, table, stopping, done, phase>>

\* MainSched::loop()
MainLoop ==
    /\ CanCall(Main) /\ asMain
    /\ inLoop' = [inLoop EXCEPT ![0] = @ \cup {Main}]
    /\ UNCHANGED <<asMain, made, active, stopped, ended, table, stopping, done, phase>>

\* A loop finds _x.stopped, and ends.
LoopEnds(s, r) ==
    /\ r \in inLoop[s] /\ s \in stopped /\ ~stopping[s].stops
    /\ inLoop' = [inLoop EXCEPT ![s] = @ \ {r}]
    /\ ended' = ended \cup {s}
    /\ UNCHANGED <<asMain, made, active, stopped, table, stopping, done, phase>>

-----------------------------------------------------------------------------
Begins(t) ==
    /\ "two_stops" \in ManLiberties \/ \A u \in Callers : ~stopping[u].stops
    /\ stopping' = [stopping EXCEPT ![t] = [at |-> 0, waits |-> FALSE, stops |-> TRUE]]

\* stop_scheds()
StopScheds(t) ==
    /\ CanCall(t) /\ made
    /\ t \notin AppThread => "inside" \in ManLiberties
    /\ t = Main /\ asMain /\ 0 \notin ended => "no_loop" \in ManLiberties
    /\ Begins(t)
    /\ UNCHANGED <<asMain, made, active, inLoop, stopped, ended, table, done, phase>>

\* main() returns, and ~SchedManager stops the schedulers with a timeout.
Exit ==
    /\ CanCall(Main) /\ made
    /\ phase' = "exit"
    /\ Begins(Main)
    /\ UNCHANGED <<asMain, made, active, inLoop, stopped, ended, table, done>>

\* Sched::stop: the first to stop it waits for it.
StopOne(t) ==
    LET s == stopping[t].at IN
    /\ stopping[t].stops /\ ~stopping[t].waits /\ s < Num
    /\ stopped' = stopped \cup {s}
    /\ stopping' = IF s \in stopped THEN [stopping EXCEPT ![t].at = @ + 1]
                   ELSE [stopping EXCEPT ![t].waits = TRUE]
    /\ UNCHANGED <<asMain, made, active, inLoop, ended, table, done, phase>>

\* The wait ends, with the loop or with the time.
Expires(t) ==
    t = Main /\ phase = "exit" /\ (inLoop[stopping[t].at] = {} \/ "slow" \in ManLiberties)

StopWaited(t) ==
    /\ stopping[t].waits
    /\ stopping[t].at \in ended \/ Expires(t)
    /\ stopping' = [stopping EXCEPT ![t].at = @ + 1, ![t].waits = FALSE]
    /\ UNCHANGED <<asMain, made, active, inLoop, stopped, ended, table, done, phase>>

\* SchedManager::stop returns; at exit the schedulers are destroyed next.
StopReturns(t) ==
    /\ stopping[t].stops /\ stopping[t].at = Num
    /\ stopping' = [stopping EXCEPT ![t] = NotStopping]
    /\ active' = FALSE
    /\ done' = done \cup {t}
    /\ phase' = IF t = Main /\ phase = "exit" THEN "gone" ELSE phase
    /\ UNCHANGED <<asMain, made, inLoop, stopped, ended, table>>

ManNext ==
    \/ MainSched \/ MainLoop \/ Exit
    \/ \E t \in Callers : NextSched(t) \/ StopScheds(t) \/ StopOne(t) \/ StopWaited(t) \/ StopReturns(t)
    \/ \E s \in Scheds : \E r \in inLoop[s] : LoopEnds(s, r)

ManSpec == ManInit /\ [][ManNext]_manVars

-----------------------------------------------------------------------------
\* One thread runs a scheduler; none does when stop_scheds() has returned, or
\* when the schedulers are destroyed.  (Main in loop() again leaves at once.)
StopIsComplete ==
    /\ \A s \in Scheds : Cardinality(inLoop[s]) <= 1
    /\ done # {} \/ phase = "gone" => \A s \in Scheds : inLoop[s] \subseteq {Main} /\ s \in stopped

\* stop_scheds() waits for a loop that runs, or that the main thread is to run.
StopCanReturn ==
    \A t \in Callers : stopping[t].waits /\ stopping[t].at \notin ended /\ ~(t = Main /\ phase = "exit") =>
       \/ inLoop[stopping[t].at] # {} /\ ~stopping[stopping[t].at].stops
       \/ stopping[t].at = 0 /\ asMain /\ phase = "runs" /\ ~stopping[Main].stops

\* The times a thread remembers are those of all schedulers.
TimesCovered == \A t \in Callers : table[t] = 0 \/ table[t] >= Num

\* A scheduler is run by one thread at most and is left when it is stopped, a
\* stop waits for who will answer, and next_sched() sees every scheduler.
StopsInOrder == StopIsComplete /\ StopCanReturn /\ TimesCovered
=============================================================================
