------------------------------- MODULE WinCalls -------------------------------
(***************************************************************************)
(* The memory of overlapped calls: the hooks of co/src/hook_win.cc for     *)
(* recv, WSARecv, ... on a blocking overlapped socket, and io_event's      *)
(* buffer.  While a coroutine waits another one runs on its stack, so what *)
(* the kernel reads or writes meanwhile must not lie there: it is put in   *)
(* the PerIoInfo, or in copies of the caller's WSABUFs and WSAMSG, and     *)
(* copied back when the call succeeds.  The PerIoInfo of a call that has   *)
(* timed out is freed by the loop that gets its packet; the copies are     *)
(* freed at once.                                                          *)
(***************************************************************************)
EXTENDS Naturals, FiniteSets

CONSTANTS
    Co, Info, None,  \* coroutines; calls, each with its PerIoInfo; no call
    CancelAtOnce,    \* an operation is over when CancelIo returns
    CallLiberties    \* what programs may do with which the hooks do not cope:
                     \* "msg_flags", to look at the flags of a received message;
                     \* "one_limit", to send messages with only one timeout set

VARIABLES
    memory,  \* what is allocated: <<i, "info">>, <<i, "copy">>
    ops,     \* the operations the kernel has
    packets, \* the calls whose packet is in the port
    doing,   \* the call of each coroutine
    limits,  \* the directions that have a timeout, in the HookCtx
    lacks    \* the pieces the last call of each coroutine succeeded without

callVars == <<memory, ops, packets, doing, limits, lacks>>

NoCall == [id |-> None]

CallsInit ==
    /\ memory = {} /\ ops = {} /\ packets = {}
    /\ doing = [c \in Co |-> NoCall]
    /\ limits = {}
    /\ lacks = [c \in Co |-> {}]

Referred == {op.id : op \in ops} \cup packets \cup {doing[c].id : c \in Co} \cup {m[1] : m \in memory}

\* hook_setsockopt with SO_RCVTIMEO and SO_SNDTIMEO.
SetTimeout(d, on) ==
    /\ limits' = IF on THEN limits \cup {d} ELSE limits \ {d}
    /\ UNCHANGED <<memory, ops, packets, doing, lacks>>

-----------------------------------------------------------------------------
(***************************************************************************)
(* Where the pieces of a call are: "bytes", the buffers; "name", the       *)
(* address; "control", the control data and "msg", the message itself with *)
(* its lengths and flags.                                                  *)
(***************************************************************************)
\* stack is the set of pieces the caller has there.
Places(pieces, info, copy, stack) ==
    [p \in pieces |-> IF p \in info THEN "info" ELSE IF p \in copy THEN "copy"
                      ELSE IF p \in stack THEN "stack" ELSE "own"]

\* The third constructor of io_event: bytes on the stack go with the PerIoInfo.
InInfo(stack) == stack \cap {"bytes"}

\* check_wsabufs
Wsabufs(stack) == stack \cap {"bytes"}

\* A bug: an address on the stack is no reason to copy a message.
WsamsgLoose(d, stack) ==
    IF stack \cap {"msg", "control", "bytes"} = {} THEN {}
    ELSE {"msg"} \cup (stack \cap (IF d = "recv" THEN {"name", "control", "bytes"} ELSE {"control", "bytes"}))

\* check_wsamsg
Wsamsg(d, stack) ==
    LET kept == IF d = "recv" THEN {} ELSE {"name"}
    IN  IF stack \subseteq kept THEN {} ELSE {"msg"} \cup (stack \ kept)

\* What the kernel uses until the operation is over: addresses and messages to
\* be sent are taken at the call.
Used(op) == {p \in DOMAIN op.place : op.dir = "recv" \/ p \in {"bytes", "control"}}

\* A call passes on the pieces that are where the caller has them, and those
\* copied, in before it or back after it.  These are the others.
Missed(k) == {p \in DOMAIN k.place : k.place[p] \in {"info", "copy"}} \ k.copied

\* The call is made with a PerIoInfo: it fails, is done at once, or pends.  d
\* is its direction, t the timeout it uses, copied what is copied in or back.
Posts(c, d, t, place, copied) ==
    LET i == CHOOSE i \in Info : i \notin Referred
        k == [id |-> i, dir |-> d, place |-> place, copied |-> copied,
              asked |-> d \in limits, expires |-> t \in limits]
    IN  /\ doing[c] = NoCall
        /\ Info \ Referred # {}
        /\ UNCHANGED <<packets, limits>>
        /\ \/ /\ lacks' \in {[lacks EXCEPT ![c] = {}], [lacks EXCEPT ![c] = Missed(k)]}
              /\ UNCHANGED <<memory, ops, doing>>
           \/ /\ doing' = [doing EXCEPT ![c] = k]
              /\ ops' = ops \cup {k}
              /\ memory' = memory \cup {<<i, "info">>}
                                  \cup {<<i, "copy">> : p \in {p \in DOMAIN place : place[p] = "copy"}}
              /\ UNCHANGED lacks

-----------------------------------------------------------------------------
Recv(c, stack) ==
    Posts(c, "recv", "recv", Places({"bytes"}, InInfo(stack), {}, stack), InInfo(stack))

Recvfrom(c, stack) ==
    LET held == InInfo(stack) \cup {"name"}
    IN  Posts(c, "recv", "recv", Places({"bytes", "name"}, held, {}, stack), held)

\* The flags are kept in the PerIoInfo.
WSARecv(c, stack) ==
    Posts(c, "recv", "recv", Places({"bytes", "flags"}, {"flags"}, Wsabufs(stack), stack),
          Wsabufs(stack) \cup {"flags"})

WSARecvFrom(c, stack) ==
    Posts(c, "recv", "recv",
          Places({"bytes", "flags", "name"}, {"flags", "name"}, Wsabufs(stack), stack),
          Wsabufs(stack) \cup {"flags", "name"})

Send(c, stack) ==
    Posts(c, "send", "send", Places({"bytes"}, InInfo(stack), {}, stack), InInfo(stack))

Sendto(c, stack) ==
    Posts(c, "send", "send", Places({"bytes", "name"}, InInfo(stack), {}, stack), InInfo(stack))

WSASend(c, stack) ==
    Posts(c, "send", "send", Places({"bytes"}, {}, Wsabufs(stack), stack), Wsabufs(stack))

WSASendTo(c, stack) ==
    Posts(c, "send", "send", Places({"bytes", "name"}, {}, Wsabufs(stack), stack), Wsabufs(stack))

\* The flags of a message are in it, and clean_wsamsg leaves them behind.
WSARecvMsg(c, stack) ==
    LET copies == Wsamsg("recv", stack)
        flags == IF "msg_flags" \in CallLiberties THEN {"flags"} ELSE {}
    IN  Posts(c, "recv", "recv",
              Places({"msg", "name", "control", "bytes"} \cup flags, {},
                     IF "msg" \in copies THEN copies \cup {"flags"} ELSE copies, stack), copies)

\* It waits as long as a receiver.
WSASendMsg(c, stack) ==
    /\ "one_limit" \in CallLiberties \/ limits \in {{}, {"recv", "send"}}
    /\ Posts(c, "send", "recv",
             Places({"msg", "name", "control", "bytes"}, {}, Wsamsg("send", stack), stack),
             Wsamsg("send", stack))

-----------------------------------------------------------------------------
\* The kernel completes an operation.
Complete(op) ==
    /\ ops' = ops \ {op} /\ packets' = packets \cup {op.id}
    /\ UNCHANGED <<memory, doing, limits, lacks>>

\* The call returns: clean_wsabufs and clean_wsamsg, and the destructor of
\* io_event.
Returns(c) ==
    /\ memory' = memory \ {<<doing[c].id, "info">>, <<doing[c].id, "copy">>}
    /\ lacks' = [lacks EXCEPT ![c] = Missed(doing[c])]
    /\ doing' = [doing EXCEPT ![c] = NoCall]

\* The loop gets a packet, of a call that waits or of one that has timed out.
Dequeue(i) ==
    /\ packets' = packets \ {i}
    /\ \/ \E c \in Co : doing[c].id = i /\ Returns(c)
       \/ /\ \A c \in Co : doing[c].id # i
          /\ memory' = memory \ {<<i, "info">>}
          /\ UNCHANGED <<doing, lacks>>
    /\ UNCHANGED <<ops, limits>>

\* The time is up: the operation is cancelled, and the copies are freed.
TimesOut(c) ==
    /\ doing[c] # NoCall /\ doing[c].expires
    /\ IF CancelAtOnce /\ doing[c] \in ops
       THEN ops' = ops \ {doing[c]} /\ packets' = packets \cup {doing[c].id}
       ELSE UNCHANGED <<ops, packets>>
    /\ memory' = memory \ {<<doing[c].id, "copy">>}
    /\ doing' = [doing EXCEPT ![c] = NoCall]
    /\ lacks' = [lacks EXCEPT ![c] = {}]
    /\ UNCHANGED limits

CallsNext ==
    \/ \E c \in Co, stack \in SUBSET {"bytes", "name", "control", "msg"} :
          \/ Recv(c, stack) \/ Recvfrom(c, stack) \/ WSARecv(c, stack) \/ WSARecvFrom(c, stack)
          \/ Send(c, stack) \/ Sendto(c, stack) \/ WSASend(c, stack) \/ WSASendTo(c, stack)
          \/ WSARecvMsg(c, stack) \/ WSASendMsg(c, stack)
    \/ \E c \in Co : TimesOut(c)
    \/ \E op \in ops : Complete(op)
    \/ \E i \in packets : Dequeue(i)
    \/ \E d \in {"recv", "send"}, on \in BOOLEAN : SetTimeout(d, on)

CallsSpec == CallsInit /\ [][CallsNext]_callVars

-----------------------------------------------------------------------------
\* The kernel writes to no memory that was freed or is another's stack, and
\* none is left allocated.
MemoryKept ==
    /\ \A op \in ops : \A p \in Used(op) :
          op.place[p] = "own" \/ <<op.id, op.place[p]>> \in memory
    /\ \A m \in memory : m[1] \in {op.id : op \in ops} \cup packets \cup {doing[c].id : c \in Co}

\* A call that succeeds has passed on all its pieces, and one that waits can
\* time out exactly if its direction was given a timeout.
CallsComplete ==
    \A c \in Co : /\ lacks[c] = {}
                  /\ doing[c] # NoCall => (doing[c].expires <=> doing[c].asked)
=============================================================================
