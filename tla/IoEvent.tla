------------------------------ MODULE IoEvent ------------------------------
(***************************************************************************)
(* Socket I/O in coroutines on Linux: recv, send and connect of            *)
(* co/src/sock.cc wait through an io_event, which registers the socket     *)
(* with the epoll of the coroutine's scheduler (co/src/epoll/epoll.cc) and *)
(* records the coroutine in the socket's SockCtx (co/src/sock_ctx.h).  The *)
(* scheduler takes a batch of events from epoll_wait and resumes, for each *)
(* of them, the coroutines the SockCtx names when it comes to that event.  *)
(*                                                                         *)
(* Between two suspensions a coroutine is interleaved with the other       *)
(* schedulers and the network at its system calls.  The kernel's side is   *)
(* external: sockets are readable or writable, and an epoll has a ready    *)
(* list, edge-triggered.                                                   *)
(***************************************************************************)
EXTENDS Naturals, Sequences, FiniteSets

CONSTANTS
    Sched, Co, Fd,
    NoCo,
    SchedOf,      \* the scheduler of each coroutine
    TimedCo,      \* the coroutines that pass a timeout
    OpenFd,       \* the sockets that are open and connected at first
    Shared,       \* several coroutines may read, or write, one socket
    CloseInUse,   \* a socket may be closed or shut down while others use it
    MaxOps        \* bound: calls of each coroutine

ASSUME IoAssumption ==
    /\ SchedOf \in [Co -> Sched]
    /\ NoCo \notin Co
    /\ TimedCo \subseteq Co /\ OpenFd \subseteq Fd /\ Fd # {}
    /\ Shared \in BOOLEAN /\ CloseInUse \in BOOLEAN
    /\ MaxOps \in [Co -> Nat]

Dir == {"r", "w"}
Other(d) == IF d = "r" THEN "w" ELSE "r"

VARIABLES
    \* the kernel's sockets and epolls
    conn,    \* "closed", "fresh", "connecting", "connected" or "failed"
    ready,   \* the directions in which a socket is ready
    err,     \* the sockets with an error to report
    reg,     \* the events each epoll is interested in, per socket
    armed,   \* the ready list of each epoll
    \* the process
    ctx,     \* SockCtx: the coroutine recorded for each direction of a socket
    batch,   \* the events of epoll_wait a scheduler has not handled yet
    due,     \* rco and wco of the event it is handling
    run,     \* the coroutine a scheduler runs
    pc, op,  \* where each coroutine is, and in which call on which socket
    added,   \* io_event::_added of the call
    ops,     \* calls so far (bound)
    gen, got \* history: incarnation of each socket, and the call's

kernelVars == <<conn, ready, err, gen>>
epollVars == <<reg, armed>>
schedVars == <<batch, due, run>>
coVars == <<pc, op, added, ops, got>>
vars == <<kernelVars, epollVars, ctx, schedVars, coVars>>

NoOp == [kind |-> "none", fd |-> CHOOSE f \in Fd : TRUE, dir |-> "r"]

Init ==
    /\ conn = [f \in Fd |-> IF f \in OpenFd THEN "connected" ELSE "closed"]
    /\ ready = [f \in Fd |-> IF f \in OpenFd THEN {"w"} ELSE {}]
    /\ err = {}
    /\ reg = [s \in Sched |-> [f \in Fd |-> {}]]
    /\ armed = [s \in Sched |-> {}]
    /\ ctx = [f \in Fd |-> [d \in Dir |-> NoCo]]
    /\ batch = [s \in Sched |-> {}]
    /\ due = [s \in Sched |-> <<>>]
    /\ run = [s \in Sched |-> NoCo]
    /\ pc = [c \in Co |-> "parked"]
    /\ op = [c \in Co |-> NoOp]
    /\ added = [c \in Co |-> FALSE]
    /\ ops = [c \in Co |-> 0]
    /\ gen = [f \in Fd |-> 0]
    /\ got = [c \in Co |-> 0]

InCall(c, f) == pc[c] \in {"call", "block", "wait", "so_error"} /\ op[c].fd = f
Closing(c, f) == pc[c] = "closing" /\ op[c].fd = f
Goes(c, p) == pc' = [pc EXCEPT ![c] = p]

(***************************************************************************)
(* The network                                                             *)
(***************************************************************************)
Reports(f, interest) == f \in err' \/ ready'[f] \cap interest # {}

\* What happens to a socket goes to the ready list of every epoll that is
\* interested in it.
Announce(f) ==
    armed' = [s \in Sched |->
                IF reg[s][f] # {} /\ Reports(f, reg[s][f]) THEN armed[s] \cup {f} ELSE armed[s]]

Arrive(f, d) ==
    /\ conn[f] = "connected"
    /\ d \notin ready[f]
    /\ ready' = [ready EXCEPT ![f] = @ \cup {d}]
    /\ UNCHANGED <<conn, err, gen, reg, ctx, schedVars, coVars>>
    /\ Announce(f)

Break(f) ==
    /\ conn[f] = "connected"
    /\ f \notin err
    /\ err' = err \cup {f}
    /\ UNCHANGED <<conn, ready, gen, reg, ctx, schedVars, coVars>>
    /\ Announce(f)

\* A pending connect is established, or refused.
Connected(f) ==
    /\ conn[f] = "connecting"
    /\ \/ /\ conn' = [conn EXCEPT ![f] = "connected"]
          /\ ready' = [ready EXCEPT ![f] = {"w"}]
       \/ /\ conn' = [conn EXCEPT ![f] = "failed"]
          /\ ready' = [ready EXCEPT ![f] = Dir]
    /\ UNCHANGED <<err, gen, reg, ctx, schedVars, coVars>>
    /\ Announce(f)

(***************************************************************************)
(* Registration: Epoll::add_ev_read and add_ev_write, del_ev_read and      *)
(* del_ev_write, del_event.  s is the scheduler of the caller.             *)
(***************************************************************************)
Recorded(s, f, d) == ctx[f][d] # NoCo /\ SchedOf[ctx[f][d]] = s

\* epoll_ctl with EPOLL_CTL_ADD or EPOLL_CTL_MOD
Interest(s, f, I) ==
    /\ reg' = [reg EXCEPT ![s][f] = I]
    /\ armed' = IF f \in err \/ ready[f] \cap I # {}
                THEN [armed EXCEPT ![s] = @ \cup {f}] ELSE armed

Forget(s, f) ==
    /\ reg' = [reg EXCEPT ![s][f] = {}]
    /\ armed' = [armed EXCEPT ![s] = @ \ {f}]

\* epoll_ctl succeeds: EBADF for a closed socket, EEXIST, ENOENT.
CanAdd(s, f, d) ==
    /\ conn[f] # "closed"
    /\ Recorded(s, f, Other(d)) <=> reg[s][f] # {}

AddEv(s, c, f, d) ==
    IF ctx[f][d] # NoCo
    THEN UNCHANGED <<ctx, epollVars>>
    ELSE /\ Interest(s, f, IF Recorded(s, f, Other(d)) THEN Dir ELSE {d})
         /\ ctx' = [ctx EXCEPT ![f][d] = c]

DelEv(s, f, d) ==
    IF ctx[f][d] = NoCo
    THEN UNCHANGED <<ctx, epollVars>>
    ELSE /\ ctx' = [ctx EXCEPT ![f][d] = NoCo]
         /\ IF Recorded(s, f, Other(d)) /\ reg[s][f] # {}
            THEN Interest(s, f, {Other(d)})
            ELSE Forget(s, f)

Nobody == [d \in Dir |-> NoCo]

(***************************************************************************)
(* The scheduler                                                           *)
(***************************************************************************)
Free(s) == run[s] = NoCo /\ due[s] = <<>> /\ batch[s] = {}

\* epoll_wait: an event says in which directions the socket is ready, or in
\* none when it only has an error.
EpollWait(s) ==
    /\ Free(s)
    /\ armed[s] # {}
    /\ armed' = [armed EXCEPT ![s] = {}]
    /\ batch' = [batch EXCEPT ![s] =
          {[fd |-> f, dirs |-> ready[f] \cap reg[s][f]] :
             f \in {g \in armed[s] : g \in err \/ ready[g] \cap reg[s][g] # {}}}]
    /\ UNCHANGED <<kernelVars, reg, ctx, due, run, coVars>>

\* A bug: an event with an error only is for nobody.
DueReadyOnly(s, e, d) ==
    IF d \in e.dirs /\ Recorded(s, e.fd, d) THEN <<ctx[e.fd][d]>> ELSE <<>>

\* Whom the loop resumes for an event: an event in one direction only is not
\* for the other.
Due(s, e, d) ==
    IF (d \in e.dirs \/ Other(d) \notin e.dirs) /\ Recorded(s, e.fd, d)
    THEN <<ctx[e.fd][d]>> ELSE <<>>

\* A bug: one of reader and writer is resumed for an event, not both.
HandleEventOnce(s) ==
    /\ run[s] = NoCo /\ due[s] = <<>>
    /\ \E e \in batch[s] :
          /\ batch' = [batch EXCEPT ![s] = @ \ {e}]
          /\ due' = [due EXCEPT ![s] = IF Due(s, e, "r") # <<>> THEN Due(s, e, "r") ELSE Due(s, e, "w")]
    /\ UNCHANGED <<kernelVars, epollVars, ctx, run, coVars>>

\* The loop handles an event.
HandleEvent(s) ==
    /\ run[s] = NoCo /\ due[s] = <<>>
    /\ \E e \in batch[s] :
          /\ batch' = [batch EXCEPT ![s] = @ \ {e}]
          /\ due' = [due EXCEPT ![s] = Due(s, e, "r") \o Due(s, e, "w")]
    /\ UNCHANGED <<kernelVars, epollVars, ctx, run, coVars>>

\* resume(rco), then resume(wco).
ResumeDue(s) ==
    /\ run[s] = NoCo
    /\ due[s] # <<>>
    /\ LET c == Head(due[s]) IN
       /\ run' = [run EXCEPT ![s] = c]
       /\ Goes(c, IF op[c].kind = "connect" THEN "so_error" ELSE "call")
    /\ due' = [due EXCEPT ![s] = Tail(@)]
    /\ UNCHANGED <<kernelVars, epollVars, ctx, batch, op, added, ops, got>>

\* The loop goes on to what is ready for other reasons.
ResumeParked(c) ==
    /\ Free(SchedOf[c])
    /\ pc[c] = "parked"
    /\ Goes(c, "running")
    /\ run' = [run EXCEPT ![SchedOf[c]] = c]
    /\ UNCHANGED <<kernelVars, epollVars, ctx, batch, due, op, added, ops, got>>

(***************************************************************************)
(* The calls of a coroutine                                                *)
(***************************************************************************)
Calls(c) ==
    /\ pc[c] = "running"
    /\ ops[c] < MaxOps[c]
    /\ ops' = [ops EXCEPT ![c] = @ + 1]

\* The caller suspends for another reason, or ends.
Park(c) ==
    /\ pc[c] = "running"
    /\ Goes(c, "parked")
    /\ run' = [run EXCEPT ![SchedOf[c]] = NoCo]
    /\ UNCHANGED <<kernelVars, epollVars, ctx, batch, due, op, added, ops, got>>

\* socket()
Socket(c, f) ==
    /\ Calls(c)
    /\ conn[f] = "closed"
    /\ conn' = [conn EXCEPT ![f] = "fresh"]
    /\ gen' = [gen EXCEPT ![f] = @ + 1]
    /\ UNCHANGED <<ready, err, epollVars, ctx, schedVars, pc, op, added, got>>

Begins(c, k, f, d) ==
    /\ Shared \/ \A b \in Co : InCall(b, f) => op[b].dir # d
    /\ CloseInUse \/ \A b \in Co : ~Closing(b, f)
    /\ op' = [op EXCEPT ![c] = [kind |-> k, fd |-> f, dir |-> d]]
    /\ added' = [added EXCEPT ![c] = FALSE]
    /\ got' = [got EXCEPT ![c] = gen[f]]

\* recv or send, up to the system call.  recvn, recvfrom and accept are recv,
\* and sendto is send.
Begin(c, f, d) ==
    /\ Calls(c)
    /\ conn[f] = "connected"
    /\ Begins(c, IF d = "r" THEN "recv" ELSE "send", f, d)
    /\ Goes(c, "call")
    /\ UNCHANGED <<kernelVars, epollVars, ctx, schedVars>>

\* connect() and its system call, which answers EINPROGRESS.
Connect(c, f) ==
    /\ Calls(c)
    /\ conn[f] = "fresh"
    /\ Begins(c, "connect", f, "w")
    /\ conn' = [conn EXCEPT ![f] = "connecting"]
    /\ Goes(c, "block")
    /\ UNCHANGED <<ready, err, gen, epollVars, ctx, schedVars>>

\* A bug: the event is not deleted when the call ends.
ReturnsRegistered(c, how) ==
    /\ Goes(c, how)
    /\ UNCHANGED <<ctx, epollVars, op, added, ops, got>>

\* The system call of connect() succeeds, or fails, at once.
ConnectAtOnce(c, f) ==
    /\ Calls(c)
    /\ conn[f] = "fresh"
    /\ \E r \in {"connected", "failed"} : conn' = [conn EXCEPT ![f] = r]
    /\ ready' = [ready EXCEPT ![f] = {"w"}]
    /\ UNCHANGED <<err, gen, epollVars, ctx, schedVars, pc, op, added, got>>

\* The call ends: ~io_event, then the caller goes on.
Returns(c, how) ==
    /\ Goes(c, how)
    /\ IF added[c]
       THEN DelEv(SchedOf[c], op[c].fd, op[c].dir)
       ELSE UNCHANGED <<ctx, epollVars>>
    /\ UNCHANGED <<op, added, ops, got>>

\* The system call fails on a socket that is closed or has an error ...
TryFails(c) ==
    LET f == op[c].fd IN
    /\ pc[c] = "call"
    /\ conn[f] # "connected" \/ f \in err
    /\ err' = err \ {f}
    /\ Returns(c, "running")
    /\ UNCHANGED <<conn, ready, gen, schedVars>>

\* ... else it moves all of the bytes that are there, or less, ...
Moves(c) ==
    LET f == op[c].fd
        d == op[c].dir
    IN  /\ pc[c] = "call"
        /\ conn[f] = "connected" /\ f \notin err /\ d \in ready[f]
        /\ \E r \in {ready[f], ready[f] \ {d}} : ready' = [ready EXCEPT ![f] = r]
        /\ UNCHANGED <<conn, err, gen, schedVars>>

\* ... and the call is done, or it wants more and tries again; ...
TryDone(c) == Moves(c) /\ Returns(c, "running")
TryMore(c) == Moves(c) /\ UNCHANGED <<coVars, ctx, epollVars>>

\* ... or it answers EAGAIN.
TryAgain(c) ==
    LET f == op[c].fd IN
    /\ pc[c] = "call"
    /\ conn[f] = "connected" /\ f \notin err /\ op[c].dir \notin ready[f]
    /\ Goes(c, "block")
    /\ UNCHANGED <<kernelVars, schedVars, op, added, ops, got, ctx, epollVars>>

Try(c) == TryFails(c) \/ TryDone(c) \/ TryMore(c) \/ TryAgain(c)

\* io_event::wait: register on the first time, and yield.
Block(c) ==
    LET s == SchedOf[c]
        f == op[c].fd
        d == op[c].dir
    IN  /\ pc[c] = "block"
        /\ \/ /\ added[c]
              /\ UNCHANGED <<ctx, epollVars, added>>
           \/ /\ ~added[c]
              /\ ctx[f][d] # NoCo \/ CanAdd(s, f, d)
              /\ AddEv(s, c, f, d)
              /\ added' = [added EXCEPT ![c] = TRUE]
        /\ Goes(c, "wait")
        /\ run' = [run EXCEPT ![s] = NoCo]
        /\ UNCHANGED <<kernelVars, batch, due, op, ops, got>>

\* The registration fails, here or for want of memory in the kernel, and so
\* does the call.
BlockFails(c) ==
    LET f == op[c].fd IN
    /\ pc[c] = "block"
    /\ ~added[c]
    /\ ctx[f][op[c].dir] = NoCo
    /\ Returns(c, "running")
    /\ UNCHANGED <<kernelVars, schedVars>>

\* The timer of c wins; the call fails with ETIMEDOUT.
TimeOut(c) ==
    /\ Free(SchedOf[c])
    /\ pc[c] = "wait" /\ c \in TimedCo
    /\ run' = [run EXCEPT ![SchedOf[c]] = c]
    /\ Returns(c, "running")
    /\ UNCHANGED <<kernelVars, batch, due>>

\* A bug: connect() does not ask for SO_ERROR.
SoErrorUnasked(c) ==
    /\ pc[c] = "so_error"
    /\ Returns(c, "success")
    /\ UNCHANGED <<kernelVars, schedVars>>

\* connect() asks for SO_ERROR: 0 unless the connection was refused.
SoError(c) ==
    /\ pc[c] = "so_error"
    /\ Returns(c, IF conn[op[c].fd] \in {"failed", "closed"} THEN "running" ELSE "success")
    /\ UNCHANGED <<kernelVars, schedVars>>

\* connect() has returned 0, and the caller goes on.
Succeeded(c) ==
    /\ pc[c] = "success"
    /\ Goes(c, "running")
    /\ UNCHANGED <<kernelVars, epollVars, ctx, schedVars, op, added, ops, got>>

MayClose(f) == CloseInUse \/ \A b \in Co : ~InCall(b, f) /\ ~Closing(b, f)

\* del_event() and the system call, which takes the socket out of every epoll.
Closes(f) ==
    /\ ctx' = [ctx EXCEPT ![f] = Nobody]
    /\ reg' = [s \in Sched |-> [reg[s] EXCEPT ![f] = {}]]
    /\ armed' = [s \in Sched |-> armed[s] \ {f}]
    /\ conn' = [conn EXCEPT ![f] = "closed"]
    /\ ready' = [ready EXCEPT ![f] = {}]
    /\ err' = err \ {f}
    /\ UNCHANGED gen

\* close(fd) in a coroutine.
Close(c, f) ==
    /\ Calls(c)
    /\ conn[f] # "closed" /\ MayClose(f)
    /\ Closes(f)
    /\ UNCHANGED <<schedVars, pc, op, added, got>>

\* close(fd) in a thread that is not a scheduler.
CloseByThread(f) ==
    /\ conn[f] # "closed" /\ MayClose(f)
    /\ Closes(f)
    /\ UNCHANGED <<schedVars, coVars>>

\* close(fd, ms): the events are deleted now, and the socket is closed when
\* the coroutine has slept.
CloseLater(c, f) ==
    /\ Calls(c)
    /\ conn[f] # "closed" /\ MayClose(f)
    /\ ctx' = [ctx EXCEPT ![f] = Nobody]
    /\ IF ctx[f] = Nobody THEN UNCHANGED epollVars ELSE Forget(SchedOf[c], f)
    /\ Goes(c, "closing")
    /\ op' = [op EXCEPT ![c] = [kind |-> "close", fd |-> f, dir |-> "r"]]
    /\ run' = [run EXCEPT ![SchedOf[c]] = NoCo]
    /\ UNCHANGED <<kernelVars, batch, due, added, got>>

CloseSlept(c) ==
    /\ Free(SchedOf[c])
    /\ pc[c] = "closing"
    /\ LET f == op[c].fd IN
       /\ conn' = [conn EXCEPT ![f] = "closed"]
       /\ ready' = [ready EXCEPT ![f] = {}]
       /\ err' = err \ {f}
       /\ reg' = [s \in Sched |-> [reg[s] EXCEPT ![f] = {}]]
       /\ armed' = [s \in Sched |-> armed[s] \ {f}]
    /\ Goes(c, "running")
    /\ run' = [run EXCEPT ![SchedOf[c]] = c]
    /\ UNCHANGED <<gen, ctx, batch, due, op, added, ops, got>>

\* shutdown(fd, 'r' or 'w'): the socket stays ready in that direction.
Shutdown(c, f, d) ==
    /\ Calls(c)
    /\ conn[f] = "connected" /\ MayClose(f)
    /\ DelEv(SchedOf[c], f, d)
    /\ ready' = [ready EXCEPT ![f] = @ \cup {d}]
    /\ UNCHANGED <<conn, err, gen, schedVars, pc, op, added, got>>

CoStep(c) ==
    \/ ResumeParked(c) \/ Park(c) \/ Try(c) \/ Block(c) \/ BlockFails(c)
    \/ TimeOut(c) \/ SoError(c) \/ Succeeded(c) \/ CloseSlept(c)
    \/ \E f \in Fd :
          \/ Socket(c, f) \/ Connect(c, f) \/ ConnectAtOnce(c, f) \/ Close(c, f) \/ CloseLater(c, f)
          \/ \E d \in Dir : Begin(c, f, d) \/ Shutdown(c, f, d)

SchedStep(s) == EpollWait(s) \/ HandleEvent(s) \/ ResumeDue(s)

Outside == \E f \in Fd : Connected(f) \/ Break(f) \/ CloseByThread(f) \/ \E d \in Dir : Arrive(f, d)

Next == (\E c \in Co : CoStep(c)) \/ (\E s \in Sched : SchedStep(s)) \/ Outside

Spec == Init /\ [][Next]_vars

\* Schedulers run, and so does the coroutine a scheduler is in.  Every pass of
\* the loop calls epoll_wait before it resumes a finite number of others, so
\* resuming those does not put epoll_wait off for ever; and a call moves a
\* finite number of bytes.
Fairness ==
    /\ \A s \in Sched : SF_vars(EpollWait(s)) /\ WF_vars(HandleEvent(s) \/ ResumeDue(s))
    /\ \A c \in Co :
          /\ WF_vars(Block(c) \/ BlockFails(c) \/ SoError(c) \/ Succeeded(c) \/ Park(c))
          /\ WF_vars(TryFails(c) \/ TryAgain(c) \/ TryDone(c)) /\ SF_vars(TryDone(c))

FairSpec == Spec /\ Fairness

-----------------------------------------------------------------------------
\* The type of every variable.
KernelTypes ==
    /\ conn \in [Fd -> {"closed", "fresh", "connecting", "connected", "failed"}]
    /\ ready \in [Fd -> SUBSET Dir] /\ err \subseteq Fd
    /\ gen \in [Fd -> Nat]

EpollTypes ==
    /\ reg \in [Sched -> [Fd -> SUBSET Dir]]
    /\ armed \in [Sched -> SUBSET Fd]
    /\ ctx \in [Fd -> [Dir -> Co \cup {NoCo}]]

SchedTypes ==
    /\ batch \in [Sched -> SUBSET [fd : Fd, dirs : SUBSET Dir]]
    /\ due \in [Sched -> Seq(Co)]
    /\ run \in [Sched -> Co \cup {NoCo}]

CallTypes ==
    /\ pc \in [Co -> {"parked", "running", "call", "block", "wait", "so_error", "success", "closing"}]
    /\ op \in [Co -> [kind : {"none", "recv", "send", "connect", "close"}, fd : Fd, dir : Dir]]
    /\ added \in [Co -> BOOLEAN] /\ got \in [Co -> Nat]
    /\ ops \in [Co -> Nat] /\ \A c \in Co : ops[c] <= MaxOps[c]

TypeOK == KernelTypes /\ EpollTypes /\ SchedTypes /\ CallTypes

Waits(c) == pc[c] = "wait"

\* A coroutine that waits for a socket is the one its SockCtx names, and the
\* epoll of its scheduler watches the socket for it; nothing is left registered
\* by a call that has returned, where an event would resume a coroutine that
\* waits for something else; and a scheduler resumes a coroutine for an event
\* only while it waits for one.
Registrations ==
    /\ \A c \in Co : Waits(c) /\ got[c] = gen[op[c].fd] =>
          /\ ctx[op[c].fd][op[c].dir] = c
          /\ op[c].dir \in reg[SchedOf[c]][op[c].fd]
    /\ \A f \in Fd, d \in Dir : ctx[f][d] # NoCo =>
          added[ctx[f][d]] /\ InCall(ctx[f][d], f) /\ op[ctx[f][d]].dir = d
    /\ \A s \in Sched, f \in Fd, d \in Dir : d \in reg[s][f] => Recorded(s, f, d)
    /\ \A s \in Sched : \A i \in 1..Len(due[s]) : Waits(due[s][i]) /\ SchedOf[due[s][i]] = s

\* An edge-triggered event is not lost: while a coroutine waits for a socket
\* that is ready, or is about to after EAGAIN, its scheduler still has the
\* event in front of it.  An error goes to one of those who wait.
Pending(c, f, d) ==
    LET s == SchedOf[c] IN
    \/ f \in armed[s]
    \/ \E e \in batch[s] : e.fd = f /\ (d \in e.dirs \/ Other(d) \notin e.dirs)
    \/ \E i \in 1..Len(due[s]) : due[s][i] = c

NoMissedEvent ==
    \A c \in Co :
        LET f == op[c].fd
            d == op[c].dir
            alone == \A b \in Co \ {c} : ~InCall(b, f)
        IN  /\ Waits(c) \/ (pc[c] = "block" /\ added[c])
            /\ d \in ready[f] \/ (f \in err /\ alone)
            => Pending(c, f, d)

\* connect() returns 0 only for a connection that was established.
ConnectVerdict ==
    [][\A c \in Co : pc[c] = "so_error" /\ pc'[c] = "success" => conn[op[c].fd] = "connected"]_vars

\* A coroutine that waits for a socket that is ready is resumed.
ReadySocketsWake ==
    \A c \in Co : Waits(c) /\ op[c].dir \in ready[op[c].fd] ~> ~Waits(c)
=============================================================================
