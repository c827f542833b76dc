------------------------------- MODULE Timers -------------------------------
(***************************************************************************)
(* Time in a scheduler: the TimerManager with its insertion hint           *)
(* (co/src/sched.h, sched.cc), the time the loop lets epoll_wait sleep,    *)
(* and the hooked calls that turn what a program asks for into             *)
(* milliseconds: sleep, usleep, nanosleep, and poll, select and their      *)
(* likes, which look and sleep in turns (co/src/hook.cc, hook_win.cc).     *)
(*                                                                         *)
(* Numbers have the width of the code's scaled down: Word stands for 2^32  *)
(* and Unit for 1000, and a program asks in units of 1/Unit of a           *)
(* millisecond.  All steps are those of the scheduler's thread.            *)
(***************************************************************************)
EXTENDS Naturals, SequencesExt

CONSTANTS
    Sleeper, End,  \* coroutines; _timer.end()
    Word, Unit,
    Delays,     \* bound: what add_timer and co::sleep are called with
    Seconds, Fines,  \* bound: the two parts of a time the hooks are called with
    Cap,        \* the longest nap of poll and select
    EndlessSelect, \* programs on Windows call select() without a timeout
    MaxNow      \* bound: the clock

ASSUME TimersAssumption ==
    /\ End \notin Sleeper
    /\ Word \in Nat \ 0..2 /\ Unit \in Nat \ {0} /\ Cap \in Nat \ {0}
    /\ Delays \subseteq 0..Word - 2 /\ Seconds \subseteq Nat /\ Fines \subseteq 0..Unit * Unit - 1
    /\ EndlessSelect \in BOOLEAN /\ MaxNow \in Nat

VARIABLES
    now,
    timer,   \* _timer: the entries in order, of a coroutine and a deadline
    hint,    \* _it: the entry it points to, or End
    it,      \* the coroutines whose co->it points to their entry
    waitMs,  \* _wait_ms
    checked, \* history: the time waitMs counts from
    st,      \* "runs", "sleeps", "waits" (with a waitx), or "won" by a waker
    nap,     \* the t and x of a coroutine in poll or select
    since, want,  \* history: when a call began, and how long it must take
    loop     \* "wait" in epoll_wait, else "pass"

timersVars == <<now, timer, hint, it, waitMs, checked, st, nap, since, want, loop>>

Forever == Word - 1
MaxMs == Forever \div 2
NoNap == [t |-> 0, x |-> 0]

TimersInit ==
    /\ now = 0 /\ checked = 0
    /\ timer = <<>> /\ hint = End /\ it = {}
    /\ waitMs = Forever
    /\ st = [c \in Sleeper |-> "runs"]
    /\ nap = [c \in Sleeper |-> NoNap]
    /\ since = [c \in Sleeper |-> 0] /\ want = [c \in Sleeper |-> 0]
    /\ loop = "pass"

Owners(s) == {s[i].co : i \in 1..Len(s)}
Pos(c) == CHOOSE i \in 1..Len(timer) : timer[i].co = c
Lesser(a, b) == IF a < b THEN a ELSE b

\* Where the multimap puts a key: as near before the hint as the order allows.
PlaceFor(at) ==
    LET h == IF hint = End THEN Len(timer) + 1 ELSE Pos(hint)
        fits == {i \in 1..Len(timer) + 1 : /\ \A j \in 1..i - 1 : timer[j].at <= at
                                           /\ \A j \in i..Len(timer) : timer[j].at >= at}
    IN  IF h \in fits THEN h
        ELSE IF \A i \in fits : i < h THEN CHOOSE i \in fits : \A j \in fits : j <= i
        ELSE CHOOSE i \in fits : \A j \in fits : i <= j

\* A bug: _wait_ms is not lowered.
AddTimerLate(c, ms) ==
    /\ timer' = InsertAt(timer, PlaceFor(now + ms), [co |-> c, at |-> now + ms])
    /\ hint' = c
    /\ UNCHANGED waitMs

\* TimerManager::add_timer, and _wait_ms.
AddTimer(c, ms) ==
    /\ timer' = InsertAt(timer, PlaceFor(now + ms), [co |-> c, at |-> now + ms])
    /\ hint' = c
    /\ waitMs' = Lesser(waitMs, ms)

Runs(c) == loop = "pass" /\ st[c] = "runs" /\ nap[c] = NoNap

\* Sched::sleep(ms), in a call that must take at least w milliseconds.
Sleep(c, ms, w) ==
    /\ Runs(c)
    /\ AddTimer(c, ms)
    /\ st' = [st EXCEPT ![c] = "sleeps"]
    /\ since' = [since EXCEPT ![c] = now] /\ want' = [want EXCEPT ![c] = w]
    /\ UNCHANGED <<now, it, checked, nap, loop>>

\* add_timer(ms) and yield(), with a waitx.
Wait(c, ms) ==
    /\ Runs(c)
    /\ AddTimer(c, ms)
    /\ it' = it \cup {c}
    /\ st' = [st EXCEPT ![c] = "waits"]
    /\ since' = [since EXCEPT ![c] = now] /\ want' = [want EXCEPT ![c] = 0]
    /\ UNCHANGED <<now, checked, nap, loop>>

\* Milliseconds from seconds and a fraction: in select, nanosleep and kevent;
\* usleep has no seconds.
ToMs(sec, fine) ==
    IF sec < MaxMs \div Unit
    THEN LET n == sec * Unit * Unit + fine
         IN  IF n <= Unit THEN IF n = 0 THEN 0 ELSE 1
             ELSE IF n < MaxMs * Unit THEN n \div Unit ELSE MaxMs
    ELSE MaxMs

\* What a program may count on: all the milliseconds it asked for, one for any
\* part of one, and no more than the hooks can count.
AtLeast(sec, fine) ==
    LET n == sec * Unit * Unit + fine IN IF n \in 1..Unit THEN 1 ELSE Lesser(n \div Unit, MaxMs)

\* sleep(n), usleep(us) and nanosleep(), in a coroutine.
SleepHook(c, n) == Sleep(c, (n * Unit) % Word, n * Unit)
NanosleepHook(c, sec, fine) == Sleep(c, ToMs(sec, fine), AtLeast(sec, fine))

\* kevent() of a kqueue of the program's, with a timeout, where there is no epoll.
KeventHook(c, sec, fine) == ToMs(sec, fine) > 0 /\ Wait(c, ToMs(sec, fine))

\* A bug: the nap is doubled before it is counted.
NextNapCounted(c) ==
    LET n == nap[c]
        y == IF n.x < Cap THEN 2 * n.x ELSE n.x
    IN  [nap EXCEPT ![c] = [t |-> IF n.t = Forever THEN Forever ELSE IF n.t > y THEN n.t - y ELSE 0,
                            x |-> y]]

\* A bug: naps grow without end.
NextNapLonger(c) ==
    LET n == nap[c] IN
    [nap EXCEPT ![c] = [t |-> IF n.t = Forever THEN Forever ELSE IF n.t > n.x THEN n.t - n.x ELSE 0,
                        x |-> 2 * n.x]]

\* What is left, and the next nap, twice as long up to Cap.
NextNap(c) ==
    LET n == nap[c] IN
    [nap EXCEPT ![c] = [t |-> IF n.t = Forever THEN Forever ELSE IF n.t > n.x THEN n.t - n.x ELSE 0,
                        x |-> IF n.x < Cap THEN 2 * n.x ELSE n.x]]

\* A call that looks for ms milliseconds, must take at least w if it finds
\* nothing, and naps x first.
BeginLooking(c, ms, x, w) ==
    /\ Runs(c)
    /\ ms > 0
    /\ nap' = [nap EXCEPT ![c] = [t |-> ms, x |-> x]]
    /\ since' = [since EXCEPT ![c] = now] /\ want' = [want EXCEPT ![c] = w]
    /\ UNCHANGED <<now, timer, hint, it, waitMs, checked, st, loop>>

Poll(c, ms) == BeginLooking(c, ms, 1, ms)
Select(c, sec, fine) == BeginLooking(c, ToMs(sec, fine), 1, AtLeast(sec, fine))

\* On Windows, where the time left is an int, -1 if there is no timeout, and
\* less than any nap.
WinSelect(c, sec, fine, endless) ==
    IF endless THEN BeginLooking(c, Forever, Forever, Forever)
    ELSE BeginLooking(c, ToMs(sec, fine), 1, AtLeast(sec, fine))

WSAPoll(c, ms) == BeginLooking(c, ms, 1, ms)
WSAWaitForMultipleEvents(c, ms) == BeginLooking(c, ms, 1, ms)

\* The same, with a packet of the port for what is looked for.
GetQueuedCompletionStatus(c, ms) == BeginLooking(c, ms, 1, ms)
GetQueuedCompletionStatusEx(c, ms) == BeginLooking(c, ms, 1, ms)

\* Nothing is ready: nap.
LookAndNap(c) ==
    /\ loop = "pass" /\ st[c] = "runs"
    /\ nap[c].t > 0
    /\ AddTimer(c, Lesser(nap[c].t, nap[c].x))
    /\ nap' = NextNap(c)
    /\ st' = [st EXCEPT ![c] = "sleeps"]
    /\ UNCHANGED <<now, it, checked, since, want, loop>>

\* Something is ready, or the time is up: only then it was not too early.
StopLooking(c) ==
    /\ loop = "pass" /\ st[c] = "runs" /\ nap[c] # NoNap
    /\ want' = [want EXCEPT ![c] = IF nap[c].t = 0 THEN @ ELSE 0]
    /\ nap' = [nap EXCEPT ![c] = NoNap]
    /\ UNCHANGED <<now, timer, hint, it, waitMs, checked, st, since, loop>>

-----------------------------------------------------------------------------
Tick ==
    /\ now < MaxNow
    /\ now' = now + 1
    /\ UNCHANGED <<timer, hint, it, waitMs, checked, st, nap, since, want, loop>>

\* A waker wins the waitx of c.
Won(c) ==
    /\ st[c] = "waits"
    /\ st' = [st EXCEPT ![c] = "won"]
    /\ UNCHANGED <<now, timer, hint, it, waitMs, checked, nap, since, want, loop>>

\* A bug: the hint is left on the entry that is erased.
DelTimerKeepHint(c) ==
    /\ timer' = RemoveAt(timer, Pos(c))
    /\ UNCHANGED hint

\* TimerManager::del_timer
DelTimer(c) ==
    /\ timer' = RemoveAt(timer, Pos(c))
    /\ hint' = IF hint # c THEN hint
               ELSE IF Pos(c) = Len(timer) THEN End ELSE timer[Pos(c) + 1].co

\* Sched::resume of a coroutine that waited.
Resume(c) ==
    /\ loop = "pass" /\ st[c] = "won"
    /\ IF c \in it THEN DelTimer(c) ELSE UNCHANGED <<timer, hint>>
    /\ it' = it \ {c}
    /\ st' = [st EXCEPT ![c] = "runs"]
    /\ UNCHANGED <<now, waitMs, checked, nap, since, want, loop>>

\* TimerManager::check_timeout of the first n entries, and the resumption of
\* those it returns.
TimedOut(n) ==
    LET gone == {timer[i].co : i \in 1..n}
        rest == SubSeq(timer, n + 1, Len(timer))
    IN  /\ loop = "pass"
        /\ \A i \in 1..n : timer[i].at <= now
        /\ n < Len(timer) => timer[n + 1].at > now
        /\ timer' = rest
        /\ hint' = IF hint \notin gone THEN hint ELSE IF rest = <<>> THEN End ELSE rest[1].co
        /\ it' = it \ gone
        /\ st' = [c \in Sleeper |-> IF c \in gone /\ st[c] # "won" THEN "runs" ELSE st[c]]
        /\ waitMs' = IF rest = <<>> THEN Forever ELSE (rest[1].at - now) % Word
        /\ checked' = now
        /\ UNCHANGED <<now, nap, since, want, loop>>

CheckTimeout == \E n \in 0..Len(timer) : TimedOut(n)

\* The loop enters epoll_wait, which takes _wait_ms for an int, and leaves it.
EpollWait ==
    /\ loop = "pass" /\ \A c \in Sleeper : st[c] = "runs" => nap[c] = NoNap
    /\ loop' = "wait"
    /\ UNCHANGED <<now, timer, hint, it, waitMs, checked, st, nap, since, want>>

EpollReturns ==
    /\ loop = "wait"
    /\ loop' = "pass"
    /\ UNCHANGED <<now, timer, hint, it, waitMs, checked, st, nap, since, want>>

TimersNext ==
    \/ Tick \/ CheckTimeout \/ EpollWait \/ EpollReturns
    \/ \E c \in Sleeper :
          \/ \E ms \in Delays : Sleep(c, ms, ms) \/ Wait(c, ms)
          \/ \E ms \in Delays \cup {Forever} :
                \/ Poll(c, ms) \/ WSAPoll(c, ms) \/ WSAWaitForMultipleEvents(c, ms)
                \/ GetQueuedCompletionStatus(c, ms) \/ GetQueuedCompletionStatusEx(c, ms)
          \/ \E n \in Seconds : \/ SleepHook(c, n)
                                \/ \E f \in Fines : \/ NanosleepHook(c, n, f) \/ Select(c, n, f)
                                                    \/ KeventHook(c, n, f)
                                                    \/ \E endless \in {FALSE, EndlessSelect} :
                                                          WinSelect(c, n, f, endless)
          \/ LookAndNap(c) \/ StopLooking(c) \/ Won(c) \/ Resume(c)

TimersSpec == TimersInit /\ [][TimersNext]_timersVars

-----------------------------------------------------------------------------
\* The iterators the scheduler keeps point into the map: _it to an entry that
\* exists or the end, co->it to the coroutine's own entry.  The map is in
\* order, and a coroutine has an entry as long as it waits.
IteratorsValid ==
    /\ hint \in Owners(timer) \cup {End}
    /\ it \subseteq Owners(timer)
    /\ \A i, j \in 1..Len(timer) : i < j => timer[i].at <= timer[j].at /\ timer[i].co # timer[j].co
    /\ \A c \in Sleeper : st[c] \in {"sleeps", "waits"} => c \in Owners(timer)

\* epoll_wait is never told to sleep past a deadline, nor for ever while there
\* is one.
LoopWakesInTime ==
    loop = "wait" /\ timer # <<>> =>
       waitMs <= MaxMs /\ \A i \in 1..Len(timer) : checked + waitMs <= timer[i].at

\* A coroutine that polls looks again before long, however long it has polled.
LooksAgain ==
    \A c \in Sleeper : nap[c] # NoNap =>
        /\ nap[c].x <= Cap
        /\ st[c] = "sleeps" => timer[Pos(c)].at <= now + Cap

\* The iterators the scheduler keeps point to entries that exist, epoll_wait is
\* not told to sleep past a deadline, and polls look again before long.
TimersSound == IteratorsValid /\ LoopWakesInTime /\ LooksAgain

\* No call that sleeps, and no poll or select that finds nothing, ends early.
SleepsLongEnough ==
    [][\A c \in Sleeper : (st[c] = "sleeps" /\ nap[c] = NoNap /\ st'[c] = "runs")
                     \/ (nap[c] # NoNap /\ nap'[c] = NoNap)
                     => now - since[c] >= want'[c]]_timersVars
=============================================================================
