-------------------------------- MODULE Hook --------------------------------
(***************************************************************************)
(* The hooked system calls of co/src/hook.cc on Linux.  A call on a        *)
(* blocking descriptor must suspend the coroutine that makes it, not the   *)
(* thread of its scheduler: the hook makes the descriptor non-blocking     *)
(* behind the program's back, remembers that in the descriptor's HookCtx   *)
(* (nb_mark), and waits through an io_event whenever the system call       *)
(* answers EAGAIN.                                                         *)
(*                                                                         *)
(* The kernel is external.  A descriptor refers to an open file            *)
(* description, which dup makes several of them share, and O_NONBLOCK is   *)
(* a flag of the description; HookCtx is kept by descriptor.  A step of a  *)
(* call ends at the next access to the description or the HookCtx that     *)
(* callers in other threads can come in between of.                        *)
(***************************************************************************)
EXTENDS Naturals, FiniteSets

CONSTANTS
    Co, Thread,  \* who calls: coroutines, and threads that are not schedulers
    Fd, Desc,    \* descriptors and open file descriptions
    None,
    Liberties,   \* what programs may do of which the hooks lose track
    Timeouts,    \* bound: the directions for which programs set a timeout
    Apis         \* bound: the calls programs make

Caller == Co \cup Thread

ASSUME HookAssumption ==
    /\ Co \cap Thread = {}
    /\ None \notin Desc \cup Co \cup Thread
    /\ Liberties \subseteq {"use_after_shutdown", "shutdown_fails", "connect_used", "mode_of_dup",
                            "mode_in_use", "two_polls", "thread_shares"}
    /\ Timeouts \subseteq {"r", "w"}
    /\ Apis \in [Caller -> SUBSET {"recv", "read", "send", "write", "accept", "connect", "poll",
                                   "select", "epoll_wait"}]

Dir == {"r", "w"}

VARIABLES
    \* the kernel
    file,   \* the description of each descriptor
    kind,   \* "sock" (sockets and pipes) or "epoll"
    knb,    \* the descriptions with O_NONBLOCK
    ready,  \* the directions in which a description is ready
    shut,   \* the directions that are shut down, which stay ready
    \* the process
    ctx,    \* HookCtx of each descriptor
    reg,    \* SockCtx: who waits for a descriptor, in each direction
    pc, op, \* where each caller is, and in which call
    \* history
    asked   \* the descriptions the program has made non-blocking

kernelVars == <<file, kind, knb, ready, shut>>
vars == <<kernelVars, ctx, reg, pc, op, asked>>

Blank == [so |-> FALSE, nb |-> FALSE, mark |-> FALSE, flags |-> {}, timeout |-> {}]
Nobody == [d \in Dir |-> None]
NoOp == [api |-> "none", fd |-> None, dir |-> "r", timed |-> FALSE]

Init ==
    /\ file = [f \in Fd |-> None]
    /\ kind = [e \in Desc |-> "sock"]
    /\ knb = {} /\ asked = {}
    /\ ready = [e \in Desc |-> {}]
    /\ shut = [e \in Desc |-> {}]
    /\ ctx = [f \in Fd |-> Blank]
    /\ reg = [f \in Fd |-> Nobody]
    /\ pc = [c \in Caller |-> "idle"]
    /\ op = [c \in Caller |-> NoOp]

Open(f) == file[f] # None

\* The program leaves a socket alone that it has shut down in both directions.
Usable(f) == Open(f) /\ ("use_after_shutdown" \in Liberties \/ shut[file[f]] # Dir)

Fds(e) == {f \in Fd : file[f] = e}
Idle == {"idle", "EAGAIN"}
In(c, f) == pc[c] \notin Idle /\ op[c].fd = f
InUse(e) == \E c \in Caller, f \in Fds(e) : In(c, f)

Goes(c, p) == pc' = [pc EXCEPT ![c] = p] /\ op' = IF p \in Idle THEN [op EXCEPT ![c] = NoOp] ELSE op

SetNonBlocking(x, v) == [x EXCEPT !.nb = v, !.mark = FALSE]

-----------------------------------------------------------------------------
(***************************************************************************)
(* Descriptors come and go                                                 *)
(***************************************************************************)
Opens(f, e, k, nb) ==
    /\ ~Open(f) /\ Fds(e) = {}
    /\ file' = [file EXCEPT ![f] = e]
    /\ kind' = [kind EXCEPT ![e] = k]
    /\ knb' = IF nb THEN knb \cup {e} ELSE knb \ {e}
    /\ asked' = IF nb THEN asked \cup {e} ELSE asked \ {e}
    /\ \E r \in {{}, {"w"}} : ready' = [ready EXCEPT ![e] = r]
    /\ shut' = [shut EXCEPT ![e] = {}]

\* HookCtx of a descriptor that socket, socketpair, pipe or pipe2 returned.
Created(x, nb) == LET y == [x EXCEPT !.so = TRUE] IN IF nb THEN SetNonBlocking(y, TRUE) ELSE y

Socket(f, nb) ==
    /\ \E e \in Desc : Opens(f, e, "sock", nb)
    /\ ctx' = [ctx EXCEPT ![f] = Created(ctx[f], nb)]
    /\ UNCHANGED <<reg, pc, op>>

\* epoll_create and the like are not hooked.
EpollCreate(f) ==
    /\ \E e \in Desc : Opens(f, e, "epoll", FALSE)
    /\ UNCHANGED <<ctx, reg, pc, op>>

\* fcntl(F_SETFL) and ioctl(FIONBIO).
SetMode(f, nb) ==
    LET e == file[f] IN
    /\ Usable(f)
    /\ "mode_of_dup" \in Liberties \/ Fds(e) = {f}
    /\ "mode_in_use" \in Liberties \/ ~InUse(e)
    /\ knb' = IF nb THEN knb \cup {e} ELSE knb \ {e}
    /\ asked' = IF nb THEN asked \cup {e} ELSE asked \ {e}
    /\ ctx' = IF ctx[f].so THEN [ctx EXCEPT ![f] = SetNonBlocking(@, nb)] ELSE ctx
    /\ UNCHANGED <<file, kind, ready, shut, reg, pc, op>>

\* The kernel forgets a description with its last descriptor.
Refers(g, e) ==
    LET gone == {x \in Desc : Fds(x) = {g} /\ x # e}
    IN  /\ file' = [file EXCEPT ![g] = e]
        /\ knb' = knb \ gone /\ asked' = asked \ gone
        /\ ready' = [x \in Desc |-> IF x \in gone THEN {} ELSE ready[x]]
        /\ shut' = [x \in Desc |-> IF x \in gone THEN {} ELSE shut[x]]
        /\ kind' = [x \in Desc |-> IF x \in gone THEN "sock" ELSE kind[x]]

\* dup and fcntl(F_DUPFD), to a descriptor that is free.
Dup(f, g) ==
    /\ Open(f) /\ ~Open(g) /\ ~InUse(file[f])
    /\ Refers(g, file[f])
    /\ ctx' = IF ctx[f].so THEN [ctx EXCEPT ![g] = ctx[f]] ELSE ctx
    /\ UNCHANGED <<reg, pc, op>>

\* dup2 and dup3, which close what the new descriptor referred to.
Dup2(f, g) ==
    /\ Open(f) /\ f # g /\ ~InUse(file[f])
    /\ \A c \in Caller : ~In(c, g)
    /\ Refers(g, file[f])
    /\ ctx' = [ctx EXCEPT ![g] = ctx[f]]
    /\ UNCHANGED <<reg, pc, op>>

\* setsockopt(SO_RCVTIMEO or SO_SNDTIMEO): a timeout of 0 is none.
SetTimeout(f, d, on) ==
    /\ Usable(f) /\ kind[file[f]] = "sock"
    /\ ctx' = [ctx EXCEPT ![f].timeout = IF on THEN @ \cup {d} ELSE @ \ {d}]
    /\ UNCHANGED <<kernelVars, reg, pc, op, asked>>

\* A bug: close() leaves the HookCtx as it is.
CloseUncleared(f) ==
    /\ Open(f) /\ \A c \in Caller : ~In(c, f)
    /\ reg' = IF ctx[f].so THEN [reg EXCEPT ![f] = Nobody] ELSE reg
    /\ Refers(f, None)
    /\ UNCHANGED <<ctx, pc, op>>

\* close(): HookCtx and events of a socket or pipe go first.
Close(f) ==
    /\ Open(f) /\ \A c \in Caller : ~In(c, f)
    /\ IF ctx[f].so
       THEN /\ ctx' = [ctx EXCEPT ![f] = Blank]
            /\ reg' = [reg EXCEPT ![f] = Nobody]
       ELSE UNCHANGED <<ctx, reg>>
    /\ Refers(f, None)
    /\ UNCHANGED <<pc, op>>

\* HookCtx forgets the descriptor when both directions are shut down.
Shut(x, how) ==
    IF how = Dir \/ x.flags \cup how = Dir THEN Blank ELSE [x EXCEPT !.flags = @ \cup how]

\* shutdown(SHUT_RD, SHUT_WR or SHUT_RDWR).  The kernel refuses it for a socket
\* that is not connected, after the HookCtx has been changed.
Shutdown(f, how) ==
    LET e == file[f] IN
    /\ Usable(f) /\ kind[e] = "sock" /\ ~InUse(e)
    /\ ctx' = [ctx EXCEPT ![f] = Shut(@, how)]
    /\ reg' = [reg EXCEPT ![f] = [d \in Dir |-> IF d \in how THEN None ELSE @[d]]]
    /\ \/ /\ shut' = [shut EXCEPT ![e] = @ \cup how]
          /\ ready' = [ready EXCEPT ![e] = @ \cup how]
       \/ "shutdown_fails" \in Liberties /\ UNCHANGED <<shut, ready>>
    /\ UNCHANGED <<file, kind, knb, pc, op, asked>>

\* Data, room, a connection or an event arrives.
Arrive(e, d) ==
    /\ Fds(e) # {} /\ d \notin ready[e]
    /\ ready' = [ready EXCEPT ![e] = @ \cup {d}]
    /\ UNCHANGED <<file, kind, knb, shut, ctx, reg, pc, op, asked>>

-----------------------------------------------------------------------------
(***************************************************************************)
(* Calls.  "recv" stands for recv, recvfrom and recvmsg, "send" for send,  *)
(* sendto and sendmsg, "read" for read and readv, "write" for write and    *)
(* writev, "accept" for accept and accept4, "select" for poll and select   *)
(* when they look every few milliseconds, and "poll" for poll of one       *)
(* non-blocking socket.                                                    *)
(***************************************************************************)
DirOf(api) == CASE api \in {"recv", "read", "accept", "epoll_wait"} -> {"r"}
                [] api \in {"send", "write", "connect"} -> {"w"}
                [] OTHER -> Dir

Transfers == {"recv", "read", "send", "write", "accept"}

\* Programs use a direction of a description from one place at a time, and
\* leave a socket that is shut down alone.
Fits(c, api, f, d) ==
    LET e == file[f] IN
    /\ Usable(f) /\ api \in Apis[c] /\ d \in DirOf(api)
    /\ kind[e] = IF api = "epoll_wait" THEN "epoll" ELSE "sock"
    /\ "thread_shares" \in Liberties \/ c \in Co \/ e \notin knb \/ e \in asked
    /\ \A b \in Caller : pc[b] \notin Idle /\ file[op[b].fd] = e =>
          /\ op[b].dir # d
          /\ op[b].api # "connect" /\ (api # "connect" \/ "connect_used" \in Liberties)
          /\ "two_polls" \in Liberties \/ "poll" \notin {api, op[b].api}
          /\ "thread_shares" \in Liberties \/ (b \in Co <=> c \in Co)
    /\ api = "connect" /\ "connect_used" \notin Liberties => \A g \in Fds(e) : ~ctx[g].mark

\* The call goes to the kernel as it is.
Direct(c, api, f) ==
    \/ c \in Thread
    \/ ctx[f].nb
    \/ api \in {"read", "write"} /\ ~ctx[f].so

Calls(c, api, f, d, timed, p) ==
    /\ pc[c] \in Idle
    /\ Fits(c, api, f, d)
    /\ op' = [op EXCEPT ![c] = [api |-> api, fd |-> f, dir |-> d, timed |-> timed]]
    /\ pc' = [pc EXCEPT ![c] = p]

BeginDirect(c, api, f, d) ==
    /\ api \in Transfers \cup {"connect"}
    /\ Calls(c, api, f, d, FALSE, "direct")
    /\ Direct(c, api, f)
    /\ UNCHANGED <<kernelVars, ctx, reg, asked>>

\* A bug: the descriptor is marked, and stays blocking.
BeginTransferBlocking(c, api, f, d) ==
    /\ api \in Transfers
    /\ Calls(c, api, f, d, FALSE, IF ctx[f].mark THEN "try" ELSE "mark")
    /\ ~Direct(c, api, f)
    /\ UNCHANGED <<kernelVars, ctx, reg, asked>>

\* A call that may have to wait, up to set_nb_mark.
BeginTransfer(c, api, f, d) ==
    /\ api \in Transfers
    /\ Calls(c, api, f, d, FALSE, IF ctx[f].mark THEN "try" ELSE "mark")
    /\ ~Direct(c, api, f)
    /\ knb' = IF ctx[f].mark THEN knb ELSE knb \cup {file[f]}
    /\ UNCHANGED <<file, kind, ready, shut, ctx, reg, asked>>

Mark(c) ==
    /\ pc[c] = "mark"
    /\ ctx' = [ctx EXCEPT ![op[c].fd].mark = TRUE]
    /\ Goes(c, "try")
    /\ UNCHANGED <<kernelVars, reg, asked>>

\* connect(): the descriptor is made non-blocking for as long as it takes.
BeginConnect(c, f) ==
    /\ Calls(c, "connect", f, "w", "w" \in ctx[f].timeout, "connecting")
    /\ ~Direct(c, "connect", f)
    /\ knb' = knb \cup {file[f]}
    /\ UNCHANGED <<file, kind, ready, shut, ctx, reg, asked>>

\* co::connect succeeds or fails at once, or waits.
ConnectCall(c) ==
    /\ pc[c] = "connecting"
    /\ Goes(c, "restore") \/ Goes(c, "block")
    /\ UNCHANGED <<kernelVars, ctx, reg, asked>>

Restore(c) ==
    /\ pc[c] = "restore"
    /\ knb' = knb \ {file[op[c].fd]}
    /\ Goes(c, "idle")
    /\ UNCHANGED <<file, kind, ready, shut, ctx, reg, asked>>

\* poll() of one non-blocking socket, and epoll_wait(): wait for an event.
BeginWait(c, api, f, d, timed) ==
    /\ c \in Co
    /\ \/ api = "poll" /\ ctx[f].so /\ ctx[f].nb
       \/ api = "epoll_wait"
    /\ Calls(c, api, f, d, timed, "block")
    /\ UNCHANGED <<kernelVars, ctx, reg, asked>>

\* select(), and poll() of other descriptors: look, and sleep some more.
BeginLook(c, f, d, timed) ==
    /\ c \in Co
    /\ Calls(c, "select", f, d, timed, "look")
    /\ UNCHANGED <<kernelVars, ctx, reg, asked>>

Look(c) ==
    /\ pc[c] = "look"
    /\ op[c].timed \/ op[c].dir \in ready[file[op[c].fd]]
    /\ Goes(c, "idle")
    /\ UNCHANGED <<kernelVars, ctx, reg, asked>>

\* The system call of a transfer finds what it is for ...
Moves(c) ==
    LET e == file[op[c].fd]
        d == op[c].dir
    IN  /\ pc[c] \in {"try", "direct", "stuck"}
        /\ d \in ready[e]
        /\ \E r \in {ready[e], (ready[e] \ {d}) \cup (shut[e] \cap {d})} : ready' = [ready EXCEPT ![e] = r]

\* A bug: both directions of the descriptor are removed.
DelEvBoth(f, d) == reg' = [reg EXCEPT ![f] = Nobody]

DelEv(f, d) == reg' = [reg EXCEPT ![f][d] = None]

\* ~io_event, if the event was added.
Leave(c) ==
    IF reg[op[c].fd][op[c].dir] = c THEN DelEv(op[c].fd, op[c].dir) ELSE UNCHANGED reg

TransferDone(c) ==
    /\ op[c].api # "accept"
    /\ Moves(c)
    /\ Goes(c, "idle")
    /\ Leave(c)
    /\ UNCHANGED <<file, kind, knb, shut, ctx, asked>>

\* A bug: accept4 does not look at SOCK_NONBLOCK.
AcceptedBlocking(x, four, nb) == [x EXCEPT !.so = TRUE]

\* HookCtx of what accept and accept4 return.
Accepted(x, four, nb) ==
    LET y == [x EXCEPT !.so = TRUE] IN IF four THEN SetNonBlocking(y, nb) ELSE y

AcceptDone(c, g, four, nb) ==
    /\ op[c].api = "accept"
    /\ four \/ ~nb
    /\ pc[c] \in {"try", "direct", "stuck"}
    /\ "r" \in ready[file[op[c].fd]]
    /\ \E e \in Desc : Opens(g, e, "sock", nb)
    /\ ctx' = [ctx EXCEPT ![g] = Accepted(@, four, nb)]
    /\ Goes(c, "idle")
    /\ Leave(c)

\* ... or a non-blocking description answers EAGAIN; on a blocking one the
\* thread of the caller stays in the kernel.
Again(c) ==
    /\ pc[c] \in {"try", "direct"}
    /\ op[c].dir \notin ready[file[op[c].fd]]
    /\ Goes(c, IF file[op[c].fd] \notin knb THEN "stuck"
               ELSE IF pc[c] = "try" THEN "block" ELSE "EAGAIN")
    /\ UNCHANGED <<kernelVars, ctx, reg, asked>>

TimedNow(c) ==
    IF op[c].api \in {"recv", "read", "send", "write"}
    THEN op[c].dir \in ctx[op[c].fd].timeout ELSE op[c].timed

\* io_event::wait, or add_io_event, up to yield().
Block(c) ==
    LET f == op[c].fd
        d == op[c].dir
    IN  /\ pc[c] = "block"
        /\ reg' = IF reg[f][d] = None THEN [reg EXCEPT ![f][d] = c] ELSE reg
        /\ op' = [op EXCEPT ![c].timed = TimedNow(c)]
        /\ pc' = [pc EXCEPT ![c] = "wait"]
        /\ UNCHANGED <<kernelVars, ctx, asked>>

\* The event cannot be added: a transfer fails, poll() looks for itself, and
\* accept(), which does not ask, tries again at once.
BlockFails(c) ==
    /\ pc[c] = "block"
    /\ reg[op[c].fd][op[c].dir] = None
    /\ Goes(c, CASE op[c].api = "connect" -> "restore"
                 [] op[c].api = "poll" -> "look"
                 [] op[c].api = "accept" -> "try"
                 [] OTHER -> "idle")
    /\ UNCHANGED <<kernelVars, ctx, reg, asked>>

\* Where a call goes on: poll() removes the events of both directions, and
\* epoll_wait() answers what is there.
Resumes(c, how) ==
    /\ IF op[c].api = "poll"
       THEN reg' = [reg EXCEPT ![op[c].fd] = Nobody] /\ Goes(c, "idle")
       ELSE IF op[c].api \in Transfers /\ how = "event"
       THEN Goes(c, "try") /\ UNCHANGED reg
       ELSE /\ Leave(c)
            /\ Goes(c, IF op[c].api = "connect" THEN "restore" ELSE "idle")
    /\ UNCHANGED <<kernelVars, ctx, asked>>

\* The scheduler resumes the coroutine the SockCtx names.
Wake(c) ==
    /\ pc[c] = "wait"
    /\ op[c].dir \in ready[file[op[c].fd]]
    /\ reg[op[c].fd][op[c].dir] = c
    /\ Resumes(c, "event")

TimeOut(c) == pc[c] = "wait" /\ op[c].timed /\ Resumes(c, "timeout")

Step(c) ==
    \/ Mark(c) \/ ConnectCall(c) \/ Restore(c) \/ Look(c) \/ TransferDone(c) \/ Again(c)
    \/ Block(c) \/ BlockFails(c) \/ Wake(c) \/ TimeOut(c)
    \/ \E g \in Fd, four, nb \in BOOLEAN : AcceptDone(c, g, four, nb)

Begin(c) ==
    \E f \in Fd, d \in Dir :
       \/ \E api \in Transfers \cup {"connect"} : BeginDirect(c, api, f, d)
       \/ \E api \in Transfers : BeginTransfer(c, api, f, d)
       \/ d = "w" /\ BeginConnect(c, f)
       \/ \E timed \in BOOLEAN : \/ \E api \in {"poll", "epoll_wait"} : BeginWait(c, api, f, d, timed)
                                 \/ BeginLook(c, f, d, timed)

Program ==
    \E f \in Fd :
       \/ \E nb \in BOOLEAN : Socket(f, nb) \/ SetMode(f, nb)
       \/ EpollCreate(f) \/ Close(f)
       \/ \E g \in Fd : Dup(f, g) \/ Dup2(f, g)
       \/ \E d \in Timeouts, on \in BOOLEAN : SetTimeout(f, d, on)
       \/ \E how \in {{"r"}, {"w"}, Dir} : Shutdown(f, how)

Next ==
    \/ \E c \in Caller : Begin(c) \/ Step(c)
    \/ Program
    \/ \E e \in Desc, d \in Dir : Arrive(e, d)

Spec == Init /\ [][Next]_vars

-----------------------------------------------------------------------------
\* The type of every variable.
TypeOK ==
    /\ file \in [Fd -> Desc \cup {None}]
    /\ kind \in [Desc -> {"sock", "epoll"}]
    /\ knb \subseteq Desc /\ asked \subseteq Desc
    /\ ready \in [Desc -> SUBSET Dir] /\ shut \in [Desc -> SUBSET Dir]
    /\ ctx \in [Fd -> [so : BOOLEAN, nb : BOOLEAN, mark : BOOLEAN,
                       flags : SUBSET Dir, timeout : SUBSET Dir]]
    /\ reg \in [Fd -> [Dir -> Caller \cup {None}]]
    /\ pc \in [Caller -> Idle \cup {"direct", "mark", "try", "stuck", "block", "wait",
                                    "connecting", "restore", "look"}]
    /\ op \in [Caller -> [api : Transfers \cup {"none", "connect", "poll", "select", "epoll_wait"},
                          fd : Fd \cup {None}, dir : Dir, timed : BOOLEAN]]

\* No call of a coroutine keeps the thread of its scheduler in the kernel.
SchedulerNotBlocked == \A c \in Co : pc[c] # "stuck"

\* The program sees the mode it asked for: EAGAIN only from a descriptor it has
\* made non-blocking, and a transfer on such a descriptor never suspends.
ModesKept ==
    [][\A c \in Caller : pc'[c] # pc[c] =>
          /\ pc'[c] = "EAGAIN" => file[op[c].fd] \in asked
          /\ pc'[c] = "block" /\ op'[c].api \in Transfers => file[op[c].fd] \notin asked]_vars

\* What is kept about a descriptor ends with it: a number that is free, which
\* the kernel will give to another file, has a blank HookCtx and no waiter.
NothingLeftBehind == \A f \in Fd : ~Open(f) => ctx[f] = Blank /\ reg[f] = Nobody

\* A call that waits is the one the loop will resume for the event: its
\* registration is not refused for another's, and not removed with another's.
WaitersRegistered == \A c \in Caller : pc[c] = "wait" => reg[op[c].fd][op[c].dir] = c

\* HookCtx and SockCtx agree with what is open and who waits.
ContextsExact == NothingLeftBehind /\ WaitersRegistered
=============================================================================
