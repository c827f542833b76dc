----------------------------- MODULE Overlapped -----------------------------
(***************************************************************************)
(* Overlapped I/O on Windows: io_event (co/src/io_event.cc), the calls     *)
(* that use it (co/src/sock_win.cc and the hooks in co/src/hook_win.cc)    *)
(* and the handling of completion packets in Sched::loop.                  *)
(*                                                                         *)
(* A coroutine posts an operation with a heap object, the PerIoInfo, waits *)
(* for its packet, and frees it.  If its timer wins the object's state it  *)
(* leaves the object behind, and the loop that gets the packet frees it.   *)
(* A socket is associated with the completion port of the scheduler that   *)
(* used it first; a coroutine of another scheduler is woken through that   *)
(* one's loop.  What one thread does without touching what others read is  *)
(* one action; posting an operation and waiting for it are two.            *)
(***************************************************************************)
EXTENDS Naturals, Sequences

CONSTANTS
    Co, Sched, At,   \* coroutines, schedulers, where each coroutine lives
    Hooked, Stream, Dgram, Listen,  \* sockets the hooks know, and of co::socket
    Uses,            \* the sockets each coroutine uses
    Timed,           \* where they may wait with a timeout: pairs of the two
    Info, None,      \* heap objects a PerIoInfo can be
    ExAtOnce,        \* AcceptEx and ConnectEx may complete at once
    Rewait,          \* a program waits again on an io_event after a timeout, or
                     \* after wait() has looked at a socket that was not connected
    MaxCall, MaxClose  \* bounds

Sock == Hooked \cup Stream \cup Dgram \cup Listen

VARIABLES
    can,      \* can_skip_iocp_on_success
    live,     \* the PerIoInfo objects that are allocated
    state, owner, \* of each: state, co
    got,      \* of each: what the packet brought (n), "nothing" if cancelled
    ev,       \* the io_event of a coroutine: its PerIoInfo
    waitx,    \* Coroutine::waitx
    call,     \* the call it is in: its socket and kind
    pc,       \* where it is
    timer,    \* the coroutines with a timer
    ready,    \* how often add_ready_task(c) was called, and c not resumed
    pend,     \* the operations the kernel has
    port,     \* the completion packets of each scheduler
    bound,    \* the scheduler a socket is associated with
    mark,     \* SockCtx
    skip,     \* the socket queues no packet for what completes at once
    ctxSkip,  \* f_skip_iocp in its HookCtx
    conn,     \* a stream socket is connected
    aborted,  \* the coroutines whose last call returned nothing, being cancelled
    calls, closes  \* bounds

ovVars == <<can, live, state, owner, got, ev, waitx, call, pc, timer, ready, pend, port,
            bound, mark, skip, ctxSkip, conn, aborted, calls, closes>>

NoCall == [fd |-> None, kind |-> "none"]

\* co::socket: datagram sockets skip packets from the beginning.
NewSocket(f) == can /\ f \in Dgram

OvInit ==
    /\ can \in BOOLEAN
    /\ live = {} /\ pend = {}
    /\ state = [i \in Info |-> "wait"]
    /\ owner = [i \in Info |-> None]
    /\ got = [i \in Info |-> "data"]
    /\ ev = [c \in Co |-> None] /\ waitx = [c \in Co |-> None]
    /\ call = [c \in Co |-> NoCall]
    /\ pc = [c \in Co |-> "idle"]
    /\ timer = {}
    /\ ready = [c \in Co |-> 0]
    /\ port = [s \in Sched |-> <<>>]
    /\ bound = [f \in Sock |-> None]
    /\ mark = [f \in Sock |-> {}]
    /\ skip = [f \in Sock |-> NewSocket(f)]
    /\ ctxSkip = [f \in Sock |-> FALSE]
    /\ conn = [f \in Sock |-> FALSE]
    /\ aborted = {}
    /\ calls = 0 /\ closes = 0

\* Nothing else runs on the thread of s: no coroutine is inside a call, or was
\* returned by check_timeout and has not been resumed yet.
Inside(s) == {c \in Co : At[c] = s /\ pc[c] \in {"posted", "posted0", "woken", "timedout"}}
Idle(s) == Inside(s) = {} /\ \A c \in Co : At[c] = s => pc[c] # "expired"

-----------------------------------------------------------------------------
\* Iocp::add_event.  Associating a socket twice fails, which is ignored.
AddEvent(f, s) ==
    /\ bound' = [bound EXCEPT ![f] = IF mark[f] = {} /\ @ = None THEN s ELSE @]
    /\ mark' = [mark EXCEPT ![f] = IF mark[f] = {} /\ bound[f] = None THEN {"r", "w"} ELSE @]

\* mem::alloc: any object will do, those that are free are alike.
Fresh == IF Info = live THEN {} ELSE {CHOOSE i \in Info : i \notin live}

\* The constructors of io_event.
NewInfo(c, f, i) ==
    /\ live' = live \cup {i}
    /\ owner' = [owner EXCEPT ![i] = c]
    /\ ev' = [ev EXCEPT ![c] = i]
    /\ AddEvent(f, At[c])

\* mem::free: what the object held is forgotten.
Free(i) ==
    /\ live' = live \ {i}
    /\ state' = [state EXCEPT ![i] = "wait"]
    /\ owner' = [owner EXCEPT ![i] = None]
    /\ got' = [got EXCEPT ![i] = "data"]

NewEvent(c, f, i) == NewInfo(c, f, i) /\ waitx' = [waitx EXCEPT ![c] = i]

\* set_skip_iocp, in the hooks.
SetSkip(f) ==
    IF can /\ f \in Hooked /\ ~ctxSkip[f]
    THEN skip' = [skip EXCEPT ![f] = TRUE] /\ ctxSkip' = [ctxSkip EXCEPT ![f] = TRUE]
    ELSE UNCHANGED <<skip, ctxSkip>>

Op(i, f, c) == [info |-> i, fd |-> f, by |-> At[c], port |-> bound'[f],
                connects |-> call'[c].kind = "connect", cancelled |-> FALSE]
Packet(i, out) == [info |-> i, out |-> out]

\* WSARecv and the like, with the PerIoInfo i: it is pending, or is done at
\* once, and then a packet is queued all the same unless the socket skips it.
Pends(c, f, i) == pend' = pend \cup {Op(i, f, c)} /\ UNCHANGED port
DoneAtOnce(f, i) ==
    /\ UNCHANGED pend
    /\ IF skip'[f] THEN UNCHANGED port
       ELSE port' = [port EXCEPT ![bound'[f]] = Append(@, Packet(i, "data"))]

GoesOn(c, at) == pc' = [pc EXCEPT ![c] = at]

\* What is done at once is waited for, unless sockets can skip packets.
Posts(c, f, i) ==
    \/ Pends(c, f, i) /\ GoesOn(c, "posted")
    \/ DoneAtOnce(f, i) /\ GoesOn(c, IF can THEN "woken" ELSE "posted0")

\* accept and connect do not wait for what is done at once.
PostsEx(c, f, i) ==
    \/ /\ Pends(c, f, i)
       /\ GoesOn(c, IF f \in Listen THEN "posted0" ELSE "posted")
       /\ UNCHANGED conn
    \/ /\ ExAtOnce
       /\ DoneAtOnce(f, i)
       /\ GoesOn(c, "woken")
       /\ conn' = [conn EXCEPT ![f] = f \in Stream]

Calls(c, f, k) ==
    /\ pc[c] = "idle" /\ Idle(At[c]) /\ f \in Uses[c]
    /\ calls < MaxCall
    /\ calls' = calls + 1
    /\ call' = [call EXCEPT ![c] = [fd |-> f, kind |-> k]]
    /\ UNCHANGED <<got, timer, ready, closes, aborted>>

\* recv, send, WSARecv, ... of a blocking overlapped socket, and co::recvfrom
\* and co::sendto, up to the wait.
BeginIo(c, f) ==
    /\ f \in Hooked \cup Dgram
    /\ Calls(c, f, "io")
    /\ \E i \in Fresh : /\ NewEvent(c, f, i) /\ state' = [state EXCEPT ![i] = "wait"]
                        /\ SetSkip(f) /\ Posts(c, f, i)
    /\ UNCHANGED conn

\* co::accept and co::connect, up to the wait.
BeginEx(c, f) ==
    /\ f \in Listen \cup Stream
    /\ ~conn[f]
    /\ Calls(c, f, IF f \in Listen THEN "accept" ELSE "connect")
    /\ UNCHANGED <<skip, ctxSkip>>
    /\ \E i \in Fresh : /\ NewEvent(c, f, i) /\ state' = [state EXCEPT ![i] = "wait"]
                        /\ PostsEx(c, f, i)

\* A call that fails where it starts: only the association is left of it.
FailAtOnce(c, f) ==
    /\ pc[c] = "idle" /\ Idle(At[c]) /\ f \in Uses[c]
    /\ calls < MaxCall
    /\ calls' = calls + 1
    /\ AddEvent(f, At[c])
    /\ SetSkip(f)
    /\ UNCHANGED <<live, state, owner, got, ev, waitx, call, pc, timer, ready, pend, port,
                   conn, aborted, closes>>

\* io_event::wait, up to yield(): with or without a timer.
Waits(c, at) ==
    /\ GoesOn(c, "waiting")
    /\ \/ UNCHANGED timer
       \/ at # "posted0" /\ <<c, call'[c].fd>> \in Timed /\ timer' = timer \cup {c}

EnterWait(c) ==
    /\ pc[c] \in {"posted", "posted0"}
    /\ UNCHANGED <<live, owner, got, ev, waitx, call, ready, pend, port, bound, mark, skip,
                   ctxSkip, conn, aborted, calls, closes>>
    /\ Waits(c, pc[c])
    /\ state' = [state EXCEPT ![ev[c]] = "wait"]

-----------------------------------------------------------------------------
\* io_event::wait on a non-blocking TCP socket: it posts an operation on no
\* bytes, with the same object each time.
PostEmpty(c, f, i) ==
    /\ state' = [state EXCEPT ![i] = "wait"]
    /\ got' = [got EXCEPT ![i] = "data"]
    /\ \/ Pends(c, f, i) /\ Waits(c, "posted")
       \/ DoneAtOnce(f, i) /\ (IF can THEN GoesOn(c, "woken") /\ UNCHANGED timer
                               ELSE Waits(c, "posted"))

\* co::recv, recvn and send of a connected socket that would block.
BeginTcp(c, f) ==
    /\ f \in Stream
    /\ conn[f] /\ skip[f] = can
    /\ pc[c] = "idle" /\ Idle(At[c]) /\ f \in Uses[c]
    /\ calls < MaxCall
    /\ calls' = calls + 1
    /\ call' = [call EXCEPT ![c] = [fd |-> f, kind |-> "tcp"]]
    /\ UNCHANGED <<ready, closes, aborted, skip, ctxSkip, conn>>
    /\ \E i \in Fresh : NewEvent(c, f, i) /\ PostEmpty(c, f, i)

\* ... and once more.
AgainTcp(c) ==
    /\ pc[c] = "woken" /\ call[c].kind = "tcp"
    /\ conn[call[c].fd]
    /\ UNCHANGED <<live, owner, ev, waitx, call, bound, mark, skip, ctxSkip, conn, ready,
                   aborted, calls, closes>>
    /\ PostEmpty(c, call[c].fd, ev[c])

\* The program waits for a socket with an io_event of its own.  If it is not
\* connected, wait() looks again and again until it is, without the object.
WaitUser(c, f, i) ==
    IF conn[f]
    THEN PostEmpty(c, f, i) /\ UNCHANGED waitx
    ELSE /\ state' = [state EXCEPT ![i] = "wait"]
         /\ waitx' = [waitx EXCEPT ![c] = None]
         /\ GoesOn(c, "nap")
         /\ UNCHANGED <<got, timer, pend, port>>

BeginUser(c, f) ==
    /\ f \in Stream
    /\ conn[f] => skip[f] = can
    /\ pc[c] = "idle" /\ Idle(At[c]) /\ f \in Uses[c]
    /\ calls < MaxCall
    /\ calls' = calls + 1
    /\ call' = [call EXCEPT ![c] = [fd |-> f, kind |-> "user"]]
    /\ UNCHANGED <<ready, closes, aborted, skip, ctxSkip, conn>>
    /\ \E i \in Fresh :
          /\ NewInfo(c, f, i)
          /\ \/ conn[f] /\ PostEmpty(c, f, i) /\ waitx' = [waitx EXCEPT ![c] = i]
             \/ ~conn[f] /\ WaitUser(c, f, i)

\* Connected, or the time is up.
NapEnds(c) ==
    /\ pc[c] = "nap" /\ Idle(At[c])
    /\ conn[call[c].fd] \/ <<c, call[c].fd>> \in Timed
    /\ GoesOn(c, "woken")
    /\ UNCHANGED <<live, state, owner, got, ev, waitx, call, timer, ready, pend, port, bound, mark,
                   skip, ctxSkip, conn, aborted, calls, closes>>

AgainUser(c) ==
    /\ call[c].kind = "user"
    /\ \/ pc[c] = "woken" /\ (Rewait \/ waitx[c] # None)
       \/ pc[c] = "timedout" /\ Rewait
    /\ calls < MaxCall
    /\ calls' = calls + 1
    /\ UNCHANGED <<live, owner, ev, call, bound, mark, skip, ctxSkip, conn, ready, aborted, closes>>
    /\ WaitUser(c, call[c].fd, ev[c])

-----------------------------------------------------------------------------
\* The kernel completes an operation, with nothing if it was cancelled before
\* it was done; a connection is made or refused.
Complete(op) ==
    /\ op \in pend
    /\ pend' = pend \ {op}
    /\ \E out \in {"data"} \cup (IF op.cancelled THEN {"nothing"} ELSE {}) :
          /\ port' = [port EXCEPT ![op.port] = Append(@, Packet(op.info, out))]
          /\ \/ UNCHANGED conn
             \/ op.connects /\ op.fd # None /\ out = "data"
                /\ conn' = [conn EXCEPT ![op.fd] = TRUE]
    /\ UNCHANGED <<live, state, owner, got, ev, waitx, call, pc, timer, ready, bound, mark, skip,
                   ctxSkip, aborted, calls, closes>>

\* Sched::resume of a coroutine that waits.
Resumed(c) ==
    /\ pc' = [pc EXCEPT ![c] = "woken"]
    /\ timer' = timer \ {c}

\* The packet finds its coroutine waiting, and wakes it.
Wakes(s, p) ==
    /\ state[p.info] = "wait"
    /\ state' = [state EXCEPT ![p.info] = "ready"]
    /\ got' = [got EXCEPT ![p.info] = p.out]
    /\ IF At[owner[p.info]] = s
       THEN Resumed(owner[p.info]) /\ UNCHANGED ready
       ELSE ready' = [ready EXCEPT ![owner[p.info]] = @ + 1] /\ UNCHANGED <<pc, timer>>
    /\ UNCHANGED <<live, owner>>

\* A bug: the object of a coroutine that has timed out is not freed.
DequeueLeaks(s) ==
    /\ port[s] # <<>> /\ Idle(s)
    /\ port' = [port EXCEPT ![s] = Tail(@)]
    /\ \/ Wakes(s, Head(port[s]))
       \/ state[Head(port[s]).info] # "wait" /\ UNCHANGED <<live, state, owner, got, pc, timer, ready>>
    /\ UNCHANGED <<ev, waitx, call, pend, bound, mark, skip, ctxSkip, conn, aborted, calls, closes>>

\* Sched::loop, a completion packet.  Nobody waits for it if a timer has won.
Dequeue(s) ==
    /\ port[s] # <<>> /\ Idle(s)
    /\ port' = [port EXCEPT ![s] = Tail(@)]
    /\ \/ Wakes(s, Head(port[s]))
       \/ /\ state[Head(port[s]).info] # "wait"
          /\ Free(Head(port[s]).info)
          /\ UNCHANGED <<pc, timer, ready>>
    /\ UNCHANGED <<ev, waitx, call, pend, bound, mark, skip, ctxSkip, conn, aborted, calls, closes>>

\* Sched::loop, a ready coroutine.
RunReady(c) ==
    /\ ready[c] > 0 /\ Idle(At[c])
    /\ ready' = [ready EXCEPT ![c] = @ - 1]
    /\ Resumed(c)
    /\ UNCHANGED <<live, state, owner, got, ev, waitx, call, pend, port, bound, mark, skip,
                   ctxSkip, conn, aborted, calls, closes>>

\* TimerManager::check_timeout
Expire(c) ==
    /\ c \in timer /\ Inside(At[c]) = {}
    /\ timer' = timer \ {c}
    /\ IF waitx[c] = None \/ state[waitx[c]] = "wait"
       THEN /\ GoesOn(c, "expired")
            /\ state' = IF waitx[c] = None THEN state ELSE [state EXCEPT ![waitx[c]] = "timeout"]
       ELSE UNCHANGED <<pc, state>>
    /\ UNCHANGED <<live, owner, got, ev, waitx, call, ready, pend, port, bound, mark, skip,
                   ctxSkip, conn, aborted, calls, closes>>

\* io_event::wait, timed out: CancelIo cancels whatever this thread has posted
\* on the socket.
TimedOut(c) ==
    /\ pc[c] = "expired" /\ Inside(At[c]) = {}
    /\ GoesOn(c, "timedout")
    /\ pend' = {[op EXCEPT !.cancelled = @ \/ (op.fd = call[c].fd /\ op.by = At[c])] : op \in pend}
    /\ UNCHANGED <<live, state, owner, got, ev, waitx, call, timer, ready, port, bound, mark,
                   skip, ctxSkip, conn, aborted, calls, closes>>

\* The call returns and its io_event is destroyed.
Leave(c) ==
    /\ pc' = [pc EXCEPT ![c] = "idle"]
    /\ call' = [call EXCEPT ![c] = NoCall]
    /\ ev' = [ev EXCEPT ![c] = None] /\ waitx' = [waitx EXCEPT ![c] = None]
    /\ UNCHANGED <<timer, ready, pend, port, bound, mark, ctxSkip, conn, calls, closes>>

LeaveTimedOut(c) ==
    /\ pc[c] = "timedout"
    /\ Leave(c)
    /\ aborted' = aborted \ {c}
    /\ UNCHANGED <<live, state, owner, got, skip>>

\* A connect that succeeded lets the socket skip packets from now on.
LeaveDone(c) ==
    /\ pc[c] = "woken"
    /\ Free(ev[c])
    /\ LET connected == call[c].kind = "connect" /\ conn[call[c].fd]
       IN  skip' = IF connected THEN [skip EXCEPT ![call[c].fd] = can] ELSE skip
    /\ aborted' = IF call[c].kind = "io" /\ got[ev[c]] = "nothing"
                  THEN aborted \cup {c} ELSE aborted \ {c}
    /\ Leave(c)

\* A bug: closesocket does not clear the socket's HookCtx.
CloseUncleared(f) ==
    /\ closes < MaxClose
    /\ \A c \in Co : call[c].fd = f => call[c].kind \notin {"tcp", "user"}
    /\ closes' = closes + 1
    /\ mark' = [mark EXCEPT ![f] = {}] /\ bound' = [bound EXCEPT ![f] = None]
    /\ skip' = [skip EXCEPT ![f] = NewSocket(f)]
    /\ conn' = [conn EXCEPT ![f] = FALSE]
    /\ pend' = {IF op.fd = f THEN [op EXCEPT !.fd = None] ELSE op : op \in pend}
    /\ UNCHANGED <<live, state, owner, got, ev, waitx, call, pc, timer, ready, port, ctxSkip, aborted, calls>>

\* closesocket and co::close of a socket, and another that gets its number.
Close(f) ==
    /\ closes < MaxClose
    /\ \A c \in Co : call[c].fd = f => call[c].kind \notin {"tcp", "user"}
    /\ closes' = closes + 1
    /\ ctxSkip' = [ctxSkip EXCEPT ![f] = FALSE]
    /\ mark' = [mark EXCEPT ![f] = {}] /\ bound' = [bound EXCEPT ![f] = None]
    /\ skip' = [skip EXCEPT ![f] = NewSocket(f)]
    /\ conn' = [conn EXCEPT ![f] = FALSE]
    /\ pend' = {IF op.fd = f THEN [op EXCEPT !.fd = None] ELSE op : op \in pend}
    /\ UNCHANGED <<live, state, owner, got, ev, waitx, call, pc, timer, ready, port, aborted, calls>>

\* shutdown of one direction.  The HookCtx is cleared with the second.
Shutdown(f, d) ==
    /\ closes < MaxClose
    /\ closes' = closes + 1
    /\ mark' = [mark EXCEPT ![f] = @ \ {d}]
    /\ UNCHANGED <<live, state, owner, got, ev, waitx, call, pc, timer, ready, pend, port, bound,
                   skip, ctxSkip, conn, aborted, calls>>

OvNext ==
    /\ UNCHANGED can
    /\ \/ \E c \in Co :
             \/ \E f \in Uses[c] : BeginIo(c, f) \/ BeginEx(c, f) \/ FailAtOnce(c, f)
                                   \/ BeginTcp(c, f) \/ BeginUser(c, f)
             \/ EnterWait(c) \/ AgainTcp(c) \/ NapEnds(c) \/ AgainUser(c)
             \/ RunReady(c) \/ Expire(c) \/ TimedOut(c) \/ LeaveTimedOut(c) \/ LeaveDone(c)
       \/ \E s \in Sched : Dequeue(s)
       \/ \E op \in pend : Complete(op)
       \/ \E f \in Sock : Close(f) \/ \E d \in {"r", "w"} : Shutdown(f, d)

OvSpec == OvInit /\ [][OvNext]_ovVars

-----------------------------------------------------------------------------
Refers(i) == (\E op \in pend : op.info = i)
             \/ \E s \in Sched : \E k \in 1..Len(port[s]) : port[s][k].info = i

\* A PerIoInfo exists as long as the kernel, a packet or a coroutine refers to
\* it, and no longer.
InfoOwned ==
    /\ \A i \in Info : Refers(i) => i \in live
    /\ \A i \in live : Refers(i) \/ \E c \in Co : ev[c] = i
    /\ \A c \in Co : ev[c] # None /\ pc[c] \notin {"expired", "timedout"} => ev[c] \in live

\* A coroutine is resumed only while it waits, once, and not for ever without:
\* while it waits it has a timer, an operation, a packet, or has been woken.
ResumedByOwn ==
    /\ \A c \in Co : ready[c] > 0 => ready[c] = 1 /\ pc[c] \in {"posted", "posted0", "waiting"}
    /\ \A s \in Sched : port[s] # <<>> /\ state[Head(port[s]).info] = "wait" =>
          pc[owner[Head(port[s]).info]] \in {"posted", "posted0", "waiting"}
    /\ \A c \in Co : pc[c] = "waiting" =>
          ready[c] > 0 \/ c \in timer \/ (Refers(ev[c]) /\ state[ev[c]] = "wait")

\* A call that got its packet got what it asked for: recvfrom() does not return
\* 0 because another coroutine's call has timed out.
NotCancelled == aborted = {}
=============================================================================
