-------------------------------- MODULE Kqueue --------------------------------
(***************************************************************************)
(* Waiting for sockets where there is no epoll (co/src/epoll/kqueue.cc).   *)
(* Unlike on Linux, SockCtx only says that a direction of a socket is      *)
(* waited for, not by whom: the event that a scheduler's kqueue returns    *)
(* names the coroutine, and the loop resumes it without looking further.   *)
(***************************************************************************)
EXTENDS FiniteSets

CONSTANTS
    Co, Sched, At,  \* coroutines, and the scheduler of each
    Fd, None,
    KqLiberties     \* what programs may do that this does not allow for:
                    \* "poll", poll() for both directions of a socket, or
                    \* of one another coroutine waits for;
                    \* "share", two coroutines wait for one direction;
                    \* "close_in_use", close or shut down a socket others use

Dir == {"r", "w"}

VARIABLES
    flags,  \* SockCtx: the directions waited for
    notes,  \* what each kqueue has: a socket, a direction, and the udata
    can,    \* the directions in which a socket is ready
    batch,  \* the events that kevent has returned, and are not handled
    runs,   \* the coroutine each scheduler runs
    op      \* the call of each coroutine, and whether it waits

kqVars == <<flags, notes, can, batch, runs, op>>

NoCall == [fd |-> None, dirs |-> {}, poll |-> FALSE, timed |-> FALSE, waits |-> FALSE]

KqInit ==
    /\ flags = [f \in Fd |-> {}]
    /\ notes = [s \in Sched |-> {}]
    /\ can = [f \in Fd |-> {"w"}]
    /\ batch = [s \in Sched |-> {}]
    /\ runs = [s \in Sched |-> None]
    /\ op = [c \in Co |-> NoCall]

Note(f, d, c) == [fd |-> f, dir |-> d, co |-> c]
OfFd(f, D) == {Note(f, d, c) : d \in D, c \in Co}
Runs(c) == runs[At[c]] = c

\* add_ev_read and add_ev_write of the directions D: EV_ADD, unless SockCtx has
\* them already.
AddEv(c, f, D) ==
    /\ flags' = [flags EXCEPT ![f] = @ \cup D]
    /\ notes' = [notes EXCEPT ![At[c]] = @ \cup {Note(f, d, c) : d \in D \ flags[f]}]

\* A bug: SockCtx is cleared, and the kqueue is not told.
DelEvFlags(c, f, D) ==
    /\ flags' = [flags EXCEPT ![f] = @ \ D]
    /\ UNCHANGED notes

\* del_ev_read, del_ev_write and del_event, which tell the kqueue of the caller.
DelEv(c, f, D) ==
    /\ flags' = [flags EXCEPT ![f] = @ \ D]
    /\ notes' = [notes EXCEPT ![At[c]] = @ \ OfFd(f, D \cap flags[f])]

InUse(f, D) == \E c \in Co : op[c].fd = f /\ op[c].dirs \cap D # {}

\* A call that finds what it is for at once.
Transfer(c, f, d) ==
    /\ Runs(c) /\ op[c] = NoCall
    /\ d \in can[f] /\ ("share" \in KqLiberties \/ ~InUse(f, {d}))
    /\ can' = [can EXCEPT ![f] = @ \ {d}]
    /\ UNCHANGED <<flags, notes, batch, runs, op>>

\* A call on a socket that is not ready: recv, accept and the like, send and
\* connect, or poll, which adds the events it is for.
Begin(c, f, D, poll, timed) ==
    /\ Runs(c) /\ op[c] = NoCall
    /\ Cardinality(D) = 1 \/ (poll /\ "poll" \in KqLiberties)
    /\ "share" \in KqLiberties \/ ~InUse(f, D)
    /\ "poll" \in KqLiberties \/ \A b \in Co : op[b].fd = f => ~poll /\ ~op[b].poll
    /\ D \cap can[f] = {}
    /\ AddEv(c, f, D)
    /\ op' = [op EXCEPT ![c] = [fd |-> f, dirs |-> D, poll |-> poll, timed |-> timed, waits |-> TRUE]]
    /\ runs' = [runs EXCEPT ![At[c]] = None]
    /\ UNCHANGED <<can, batch>>

\* The system call after the wait finds what it is for, or nothing.
Again(c) ==
    /\ Runs(c) /\ op[c].fd # None /\ ~op[c].waits
    /\ ~op[c].poll /\ op[c].dirs \cap can[op[c].fd] = {}
    /\ op' = [op EXCEPT ![c].waits = TRUE]
    /\ runs' = [runs EXCEPT ![At[c]] = None]
    /\ UNCHANGED <<flags, notes, can, batch>>

\* The call ends, and ~io_event or poll() removes what was added.
Ends(c) ==
    /\ DelEv(c, op[c].fd, IF op[c].poll THEN Dir ELSE op[c].dirs)
    /\ op' = [op EXCEPT ![c] = NoCall]

Done(c) ==
    /\ Runs(c) /\ op[c].fd # None /\ ~op[c].waits
    /\ op[c].poll \/ op[c].dirs \cap can[op[c].fd] # {}
    /\ Ends(c)
    /\ \E D \in {{}, op[c].dirs} : can' = [can EXCEPT ![op[c].fd] = IF op[c].poll THEN @ ELSE @ \ D]
    /\ UNCHANGED <<batch, runs>>

\* The coroutine does something else, to be resumed later as a task.
Park(c) ==
    /\ Runs(c) /\ op[c] = NoCall
    /\ runs' = [runs EXCEPT ![At[c]] = None]
    /\ UNCHANGED <<flags, notes, can, batch, op>>

Idle(s) == runs[s] = None /\ batch[s] = {}

\* kevent(): level-triggered, as EV_CLEAR is not set.
Kevent(s) ==
    /\ Idle(s)
    /\ batch' = [batch EXCEPT ![s] = {n \in notes[s] : n.dir \in can[n.fd]}]
    /\ batch'[s] # {}
    /\ UNCHANGED <<flags, notes, can, runs, op>>

\* The loop resumes the coroutine an event names.
Handle(s, e) ==
    /\ runs[s] = None /\ e \in batch[s]
    /\ batch' = [batch EXCEPT ![s] = @ \ {e}]
    /\ runs' = [runs EXCEPT ![s] = e.co]
    /\ op' = [op EXCEPT ![e.co].waits = FALSE]
    /\ UNCHANGED <<flags, notes, can>>

\* It resumes tasks, and those whose time is up.
RunTask(c) ==
    /\ Idle(At[c]) /\ op[c] = NoCall
    /\ runs' = [runs EXCEPT ![At[c]] = c]
    /\ UNCHANGED <<flags, notes, can, batch, op>>

TimeOut(c) ==
    /\ Idle(At[c]) /\ op[c].timed /\ op[c].waits
    /\ Ends(c)
    /\ runs' = [runs EXCEPT ![At[c]] = c]
    /\ UNCHANGED <<can, batch>>

\* co::shutdown, and close(), after which the number is another socket's.
Shutdown(c, f, D) ==
    /\ Runs(c) /\ op[c] = NoCall
    /\ "close_in_use" \in KqLiberties \/ ~InUse(f, D)
    /\ DelEv(c, f, D)
    /\ can' = [can EXCEPT ![f] = @ \cup D]
    /\ UNCHANGED <<batch, runs, op>>

Close(c, f) ==
    /\ Runs(c) /\ op[c] = NoCall
    /\ "close_in_use" \in KqLiberties \/ ~InUse(f, Dir)
    /\ flags' = [flags EXCEPT ![f] = {}]
    /\ notes' = [s \in Sched |-> notes[s] \ OfFd(f, Dir)]
    /\ can' = [can EXCEPT ![f] = {"w"}]
    /\ UNCHANGED <<batch, runs, op>>

Arrive(f, d) ==
    /\ can' = [can EXCEPT ![f] = @ \cup {d}]
    /\ UNCHANGED <<flags, notes, batch, runs, op>>

KqNext ==
    \/ \E c \in Co, f \in Fd :
          \/ \E D \in SUBSET Dir : \/ \E poll, timed \in BOOLEAN : Begin(c, f, D, poll, timed)
                                   \/ Shutdown(c, f, D)
          \/ Close(c, f)
          \/ \E d \in Dir : Transfer(c, f, d)
    \/ \E c \in Co : Again(c) \/ Done(c) \/ Park(c) \/ RunTask(c) \/ TimeOut(c)
    \/ \E s \in Sched : Kevent(s) \/ \E e \in batch[s] : Handle(s, e)
    \/ \E f \in Fd, d \in Dir : Arrive(f, d)

KqSpec == KqInit /\ [][KqNext]_kqVars

-----------------------------------------------------------------------------
\* An event names a coroutine that waits for it, when it is handled too, and a
\* coroutine that waits has its events in its scheduler's kqueue.
EventsNameWaiters ==
    /\ \A s \in Sched : \A n \in notes[s] : At[n.co] = s /\ op[n.co].fd = n.fd /\ n.dir \in op[n.co].dirs
    /\ \A s \in Sched : \A e \in batch[s] : op[e.co].waits /\ op[e.co].fd = e.fd /\ e.dir \in op[e.co].dirs
    /\ \A c \in Co : op[c].waits => \A d \in op[c].dirs : Note(op[c].fd, d, c) \in notes[At[c]]
=============================================================================
