-------------------------------- MODULE Chan --------------------------------
(***************************************************************************)
(* co::chan (pipe_impl in co/src/co.cc): a bounded channel for coroutines  *)
(* and threads.  The buffer is a ring; who cannot go on waits in _wq       *)
(* through a heap object, the waitx: readers while the buffer is empty,    *)
(* writers while it is full.  A read or a write that finds a waiter        *)
(* completes that waiter's operation too.  Timers race with that for the   *)
(* state of the waitx, by CAS; a waitx that timed out stays in _wq until   *)
(* somebody pops and frees it.                                             *)
(*                                                                         *)
(* A waitx is named by its operation, <<actor, how many it has made>>, and *)
(* the object an operation writes has that name too.  A section under _m   *)
(* is one action; add_ready_task(), called after it, is part of it: the    *)
(* coroutine's resume is an action of its own in any case.                 *)
(***************************************************************************)
EXTENDS Naturals, Sequences, FiniteSets

CONSTANTS
    Co, Thread,  \* who reads and writes
    OnStack,     \* the coroutines whose p points into their own stack
    Cap,         \* _buf_size / _blk_size
    Timed,       \* _ms # -1
    MaxOps,      \* bound: operations per actor
    Raw          \* memory that holds no object

ASSUME ChanAssumption ==
    /\ Co \cap Thread = {} /\ OnStack \subseteq Co
    /\ Cap \in Nat \ {0} /\ MaxOps \in Nat
    /\ Timed \in BOOLEAN
    /\ Raw \notin (Co \cup Thread) \X (1..MaxOps)

Actor == Co \cup Thread
Op == Actor \X (1..MaxOps)

VARIABLES
    rx, wx, full, slot,  \* _rx, _wx, _full and _buf, in blocks
    closed,    \* _closed
    wq,        \* _wq
    state,     \* waitx::state, "free" when the waitx is not allocated
    done,      \* waitx::x.done: 1 ok, 2 the channel was closed
    hbuf,      \* the memory behind the waitx of an actor whose p is on its stack
    pc,        \* where each actor is
    doing,     \* "read" or "write": the kind of each operation
    ops,       \* operations begun
    got,       \* what p of a read holds
    told,      \* what done() said of an operation
    accepted,  \* history: objects that entered the channel, in order
    delivered  \* history: objects that left it, in order

ring == <<rx, wx, full, slot>>
vars == <<ring, closed, wq, state, done, hbuf, pc, doing, ops, got, told,
          accepted, delivered>>

Init ==
    /\ rx = 0 /\ wx = 0 /\ full = FALSE
    /\ slot = [i \in 0..Cap-1 |-> Raw]
    /\ closed = 0 /\ wq = <<>>
    /\ state = [o \in Op |-> "free"]
    /\ done = [o \in Op |-> 0]
    /\ hbuf = [o \in Op |-> Raw]
    /\ pc = [a \in Actor |-> "idle"]
    /\ doing = [o \in Op |-> "none"]
    /\ ops = [a \in Actor |-> 0]
    /\ got = [o \in Op |-> Raw]
    /\ told = [o \in Op |-> "none"]
    /\ accepted = <<>> /\ delivered = <<>>

-----------------------------------------------------------------------------
Step(i) == (i + 1) % Cap
Empty == rx = wx /\ ~full

Current(a) == <<a, ops[a]>>

Begin(a, kind) ==
    /\ pc[a] = "idle" /\ ops[a] < MaxOps
    /\ ops' = [ops EXCEPT ![a] = @ + 1]
    /\ doing' = [doing EXCEPT ![Current(a)'] = kind]
    /\ UNCHANGED closed

\* The operation a has just begun returns at once.
Returns(a, how) == told' = [told EXCEPT ![Current(a)'] = how]

\* It has queued a waitx and waits: a coroutine has suspended, a thread is in
\* the condition variable.
Enlists(a) ==
    /\ wq' = Append(wq, Current(a)')
    /\ state' = [state EXCEPT ![Current(a)'] = "wait"]
    /\ pc' = [pc EXCEPT ![a] = IF a \in Co THEN "suspended" ELSE "cv"]
    /\ UNCHANGED <<ring, done, got, told, accepted, delivered>>

\* The positions in _wq of those whose timer has not won.
Live == {i \in 1..Len(wq) : state[wq[i]] = "wait"}
First == CHOOSE i \in Live : \A j \in Live : i <= j
AfterFirst == SubSeq(wq, First + 1, Len(wq))
Popped == {wq[i] : i \in 1..First - 1}

\* The object the waiting writer w offers: the copy in its waitx if p was on
\* its stack, which may belong to another coroutine by now.
Offered(w) == IF w[1] \in OnStack THEN hbuf[w] ELSE w

\* The waiter w is found, the ones before it had timed out and are freed.
\* Only then is there a CAS, which changes the state.
Found(w) ==
    /\ wq' = AfterFirst
    /\ state' = [o \in Op |-> IF o \in Popped THEN "free"
                              ELSE IF o = w /\ Timed THEN "ready" ELSE state[o]]
    /\ done' = [done EXCEPT ![w] = 1]

\* All that are in _wq have timed out: they are freed.
NobodyFound ==
    /\ Live = {}
    /\ wq' = <<>>
    /\ state' = [o \in Op |-> IF \E i \in 1..Len(wq) : wq[i] = o THEN "free" ELSE state[o]]
    /\ UNCHANGED done

\* A bug: a thread is not notified.
NotifyNobody(w) == UNCHANGED pc

\* cv_notify_all, if the waiter w is a thread.
Notify(w) ==
    IF w[1] \in Thread
    THEN pc' = [a \in Actor |-> IF pc[a] = "cv" THEN "woken" ELSE pc[a]]
    ELSE UNCHANGED pc

-----------------------------------------------------------------------------
\* _read_block: the oldest object goes to p, the block is empty.
ReadBlock(a) ==
    /\ rx' = Step(rx)
    /\ got' = [got EXCEPT ![Current(a)'] = slot[rx]]
    /\ delivered' = Append(delivered, slot[rx])

\* read() of a buffer that is neither empty nor full.
ReadSome(a) ==
    /\ Begin(a, "read")
    /\ rx # wx
    /\ ReadBlock(a)
    /\ slot' = [slot EXCEPT ![rx] = Raw]
    /\ Returns(a, "done")
    /\ UNCHANGED <<wx, full, wq, state, done, hbuf, pc, accepted>>

\* A bug: the buffer stays marked full when no writer was waiting.
ReadFullKeepsFull(a) ==
    /\ Begin(a, "read")
    /\ rx = wx /\ full
    /\ ReadBlock(a)
    /\ Returns(a, "done")
    /\ NobodyFound
    /\ slot' = [slot EXCEPT ![rx] = Raw]
    /\ hbuf' = [o \in Op |-> IF state'[o] = "free" THEN Raw ELSE hbuf[o]]
    /\ UNCHANGED <<wx, full, pc, accepted>>

\* read() of a full buffer that no writer waits for.
ReadFull(a) ==
    /\ Begin(a, "read")
    /\ rx = wx /\ full
    /\ ReadBlock(a)
    /\ Returns(a, "done")
    /\ NobodyFound
    /\ slot' = [slot EXCEPT ![rx] = Raw]
    /\ full' = FALSE
    /\ hbuf' = [o \in Op |-> IF state'[o] = "free" THEN Raw ELSE hbuf[o]]
    /\ UNCHANGED <<wx, pc, accepted>>

\* A bug: the copy in the waitx of a writer that timed out is not destroyed.
ReadAndAdmitLeaks(a) ==
    /\ Begin(a, "read")
    /\ rx = wx /\ full
    /\ ReadBlock(a)
    /\ Returns(a, "done")
    /\ Live # {}
    /\ LET w == wq[First] IN
       /\ Found(w)
       /\ slot' = [slot EXCEPT ![wx] = Offered(w)]
       /\ accepted' = Append(accepted, Offered(w))
       /\ hbuf' = [hbuf EXCEPT ![w] = Raw]
       /\ Notify(w)
    /\ wx' = Step(wx)
    /\ UNCHANGED full

\* read() of a full buffer: the first writer that waits puts its object into
\* the block that is now empty.
ReadAndAdmit(a) ==
    /\ Begin(a, "read")
    /\ rx = wx /\ full
    /\ ReadBlock(a)
    /\ Returns(a, "done")
    /\ Live # {}
    /\ LET w == wq[First] IN
       /\ Found(w)
       /\ slot' = [slot EXCEPT ![wx] = Offered(w)]
       /\ accepted' = Append(accepted, Offered(w))
       /\ hbuf' = [o \in Op |-> IF o = w \/ o \in Popped THEN Raw ELSE hbuf[o]]
       /\ Notify(w)
    /\ wx' = Step(wx)
    /\ UNCHANGED full

\* read() of an empty channel that has been closed.
ReadClosed(a) ==
    /\ Begin(a, "read")
    /\ Empty /\ closed # 0
    /\ Returns(a, "enod")
    /\ UNCHANGED <<ring, wq, state, done, hbuf, pc, got, accepted, delivered>>

\* read() of an empty channel, up to yield() or cv_wait().
ReadWaits(a) ==
    /\ Begin(a, "read")
    /\ Empty /\ closed = 0
    /\ Enlists(a)
    /\ UNCHANGED hbuf

\* _write_block, of the object this write offers.
WriteBlock(a) ==
    /\ slot' = [slot EXCEPT ![wx] = Current(a)']
    /\ wx' = Step(wx)
    /\ full' = (rx = Step(wx))
    /\ accepted' = Append(accepted, Current(a)')
    /\ UNCHANGED rx

\* write() to a closed channel.
WriteClosed(a) ==
    /\ Begin(a, "write")
    /\ closed # 0
    /\ Returns(a, "enod")
    /\ UNCHANGED <<ring, wq, state, done, hbuf, pc, got, accepted, delivered>>

\* write() to a buffer that is neither empty nor full.
WriteSome(a) ==
    /\ Begin(a, "write")
    /\ closed = 0 /\ rx # wx
    /\ WriteBlock(a)
    /\ Returns(a, "done")
    /\ UNCHANGED <<wq, state, done, hbuf, pc, got, delivered>>

\* A bug: the readers that wait are not looked at.
WriteEmptyUnseen(a) ==
    /\ Begin(a, "write")
    /\ closed = 0 /\ Empty
    /\ WriteBlock(a)
    /\ Returns(a, "done")
    /\ UNCHANGED <<wq, state, done, hbuf, pc, got, delivered>>

\* write() to an empty buffer that no reader waits for.
WriteEmpty(a) ==
    /\ Begin(a, "write")
    /\ closed = 0 /\ Empty
    /\ NobodyFound
    /\ WriteBlock(a)
    /\ Returns(a, "done")
    /\ UNCHANGED <<hbuf, pc, got, delivered>>

\* A bug: the object is written to p although the coroutine whose stack p
\* points into is suspended.
WriteHandsOverOnStack(a) ==
    /\ Begin(a, "write")
    /\ closed = 0 /\ Empty
    /\ Live # {}
    /\ LET r == wq[First] IN
       /\ Found(r)
       /\ got' = [got EXCEPT ![r] = Current(a)']
       /\ Notify(r)
    /\ accepted' = Append(accepted, Current(a)')
    /\ delivered' = Append(delivered, Current(a)')
    /\ Returns(a, "done")
    /\ UNCHANGED <<ring, hbuf>>

\* write() to an empty buffer: the first reader that waits gets the object,
\* in its waitx if its p is on its stack, else in p.
WriteHandsOver(a) ==
    /\ Begin(a, "write")
    /\ closed = 0 /\ Empty
    /\ Live # {}
    /\ LET r == wq[First] IN
       /\ Found(r)
       /\ IF r[1] \in OnStack
          THEN hbuf' = [hbuf EXCEPT ![r] = Current(a)'] /\ UNCHANGED got
          ELSE got' = [got EXCEPT ![r] = Current(a)'] /\ UNCHANGED hbuf
       /\ Notify(r)
    /\ accepted' = Append(accepted, Current(a)')
    /\ delivered' = Append(delivered, Current(a)')
    /\ Returns(a, "done")
    /\ UNCHANGED ring

\* write() to a full buffer, up to yield() or cv_wait(): an object on the
\* stack of a coroutine is copied to the waitx.
WriteWaits(a) ==
    /\ Begin(a, "write")
    /\ closed = 0 /\ rx = wx /\ full
    /\ Enlists(a)
    /\ hbuf' = IF a \in OnStack THEN [hbuf EXCEPT ![Current(a)'] = Current(a)'] ELSE hbuf

-----------------------------------------------------------------------------
Kept == <<ring, closed, wq, done, doing, ops, accepted, delivered>>

\* The operation o of a ends with this answer, its waitx is freed.
Answered(a, o) ==
    /\ state' = [state EXCEPT ![o] = "free"]
    /\ told' = [told EXCEPT ![o] = IF done[o] = 1 THEN "done" ELSE "enod"]
    /\ pc' = [pc EXCEPT ![a] = "idle"]

\* The scheduler resumes c, as somebody has completed its operation.
ResumeCo(c) ==
    LET o == Current(c) IN
    /\ pc[c] = "suspended" /\ done[o] # 0
    /\ Answered(c, o)
    /\ IF doing[o] = "read" /\ done[o] = 1 /\ c \in OnStack
       THEN got' = [got EXCEPT ![o] = hbuf[o]] /\ hbuf' = [hbuf EXCEPT ![o] = Raw]
       ELSE UNCHANGED <<got, hbuf>>
    /\ UNCHANGED Kept

\* A bug: the timer does not race for the state.
TimeoutAlways(c) ==
    /\ Timed /\ pc[c] = "suspended"
    /\ state' = [state EXCEPT ![Current(c)] = "timeout"]
    /\ pc' = [pc EXCEPT ![c] = "timedout"]
    /\ UNCHANGED <<Kept, hbuf, got, told>>

\* The timer of c wins its waitx ...
Timeout(c) ==
    /\ Timed /\ pc[c] = "suspended"
    /\ state[Current(c)] = "wait"
    /\ state' = [state EXCEPT ![Current(c)] = "timeout"]
    /\ pc' = [pc EXCEPT ![c] = "timedout"]
    /\ UNCHANGED <<Kept, hbuf, got, told>>

\* ... and c is resumed with timeout() true.
ResumeTimedOut(c) ==
    /\ pc[c] = "timedout"
    /\ told' = [told EXCEPT ![Current(c)] = "enod"]
    /\ pc' = [pc EXCEPT ![c] = "idle"]
    /\ UNCHANGED <<Kept, state, hbuf, got>>

\* The condition variable gives up, or wakes the thread for no reason.
Leave(t) ==
    /\ pc[t] = "cv"
    /\ \E p \in IF Timed THEN {"woken", "expired"} ELSE {"woken"} :
          pc' = [pc EXCEPT ![t] = p]
    /\ UNCHANGED <<Kept, state, hbuf, got, told>>

\* A thread that is out of cv_wait and has _m finds its operation completed,
\* or waits again.
ThreadWoken(t) ==
    LET o == Current(t) IN
    /\ pc[t] = "woken" \/ (pc[t] = "expired" /\ state[o] # "wait")
    /\ IF done[o] # 0
       THEN Answered(t, o)
       ELSE pc' = [pc EXCEPT ![t] = "cv"] /\ UNCHANGED <<state, told>>
    /\ UNCHANGED <<Kept, hbuf, got>>

\* A thread whose cv_wait timed out wins its waitx and leaves it in _wq.
ThreadExpired(t) ==
    LET o == Current(t) IN
    /\ pc[t] = "expired" /\ state[o] = "wait"
    /\ state' = [state EXCEPT ![o] = "timeout"]
    /\ told' = [told EXCEPT ![o] = "enod"]
    /\ pc' = [pc EXCEPT ![t] = "idle"]
    /\ UNCHANGED <<Kept, hbuf, got>>

-----------------------------------------------------------------------------
KeptByClose == <<ring, hbuf, doing, ops, got, told, accepted, delivered>>

\* close(): the first closer goes on to wake the readers; a later one waits
\* until it is done, or returns at once, and changes nothing.
Close ==
    /\ closed = 0
    /\ closed' = 1
    /\ UNCHANGED <<KeptByClose, wq, state, done, pc>>

\* close(), under _m: every reader that waits is told that the channel is
\* closed, those that timed out are freed.
CloseDrain ==
    /\ closed = 1
    /\ closed' = 2
    /\ IF Empty
       THEN LET live == {wq[i] : i \in Live}
                stale == {wq[i] : i \in 1..Len(wq)} \ live
            IN  /\ wq' = <<>>
                /\ state' = [o \in Op |-> IF o \in live THEN "ready"
                                          ELSE IF o \in stale THEN "free" ELSE state[o]]
                /\ done' = [o \in Op |-> IF o \in live THEN 2 ELSE done[o]]
                /\ pc' = [a \in Actor |-> IF pc[a] = "cv" /\ \E o \in live : o[1] \in Thread
                                          THEN "woken" ELSE pc[a]]
       ELSE UNCHANGED <<wq, state, done, pc>>
    /\ UNCHANGED KeptByClose

Read(a) == ReadSome(a) \/ ReadFull(a) \/ ReadAndAdmit(a) \/ ReadClosed(a) \/ ReadWaits(a)

Write(a) ==
    \/ WriteClosed(a) \/ WriteSome(a) \/ WriteEmpty(a)
    \/ WriteHandsOver(a) \/ WriteWaits(a)

Next ==
    \/ \E a \in Actor : Read(a) \/ Write(a)
    \/ \E c \in Co : ResumeCo(c) \/ Timeout(c) \/ ResumeTimedOut(c)
    \/ \E t \in Thread : Leave(t) \/ ThreadWoken(t) \/ ThreadExpired(t)
    \/ Close \/ CloseDrain

Spec == Init /\ [][Next]_vars

\* Schedulers resume what is ready, threads that can run do.  Nobody has to
\* read, write or close, and no timer has to fire.
Fairness ==
    /\ \A c \in Co : WF_vars(ResumeCo(c) \/ ResumeTimedOut(c))
    /\ \A t \in Thread : WF_vars(ThreadWoken(t) \/ ThreadExpired(t))
    /\ WF_vars(CloseDrain)

FairSpec == Spec /\ Fairness

-----------------------------------------------------------------------------
\* The type of every variable.
TypeOK ==
    /\ rx \in 0..Cap-1 /\ wx \in 0..Cap-1 /\ full \in BOOLEAN
    /\ slot \in [0..Cap-1 -> Op \cup {Raw}]
    /\ closed \in 0..2
    /\ wq \in Seq(Op)
    /\ state \in [Op -> {"free", "wait", "ready", "timeout"}]
    /\ done \in [Op -> 0..2]
    /\ hbuf \in [Op -> Op \cup {Raw}] /\ got \in [Op -> Op \cup {Raw}]
    /\ pc \in [Actor -> {"idle", "suspended", "timedout", "cv", "woken", "expired"}]
    /\ doing \in [Op -> {"none", "read", "write"}]
    /\ ops \in [Actor -> 0..MaxOps]
    /\ told \in [Op -> {"none", "done", "enod"}]
    /\ accepted \in Seq(Op) /\ delivered \in Seq(Op)

\* What the ring holds, oldest first.
Count == IF full THEN Cap ELSE (wx + Cap - rx) % Cap
Contents == [i \in 1..Count |-> slot[(rx + i - 1) % Cap]]

\* Objects leave the channel in the order in which they entered it; none is
\* lost, none is invented, and a block that is not in use holds no object.
Fifo ==
    /\ accepted = delivered \o Contents
    /\ Cardinality({i \in 0..Cap-1 : slot[i] # Raw}) = Count

Entered(o) == \E i \in 1..Len(accepted) : accepted[i] = o
Reads == {o \in Op : doing[o] = "read"}
Writes == {o \in Op : doing[o] = "write"}

\* done() tells the truth.  A writer: its object entered the channel, or it
\* never will.  A reader: every object that left the channel is with one
\* reader, which is told so once it returns; a reader told otherwise has none.
DoneVerdict ==
    /\ \A o \in Writes :
        /\ told[o] = "done" => Entered(o)
        /\ told[o] = "enod" => ~Entered(o)
    /\ \A i \in 1..Len(delivered) :
        Cardinality({o \in Reads : got[o] = delivered[i] \/ hbuf[o] = delivered[i]}) = 1
    /\ \A o \in Reads :
        /\ told[o] = "done" => got[o] # Raw
        /\ told[o] = "enod" => got[o] = Raw /\ hbuf[o] = Raw

Queued(o) == \E i \in 1..Len(wq) : wq[i] = o
Waits(o) == \E a \in Actor : pc[a] \notin {"idle", "timedout"} /\ o = Current(a)

\* Whoever waits can be found in _wq, or has been served; and it has reason
\* to wait: a reader as there is nothing to read and the channel is not
\* closed, a writer as the buffer is full.
WaitersJustified ==
    \A o \in Op : Waits(o) /\ done[o] = 0 =>
        /\ Queued(o) /\ state[o] = "wait"
        /\ IF doing[o] = "read" THEN Empty /\ closed # 2 ELSE full

\* A waitx is allocated exactly while it is in _wq or its owner waits, it is
\* in _wq once, and when it is freed the memory behind it holds no object.
WaitxOwned ==
    /\ \A o \in Op : state[o] # "free" <=> Queued(o) \/ Waits(o)
    /\ \A i, j \in 1..Len(wq) : wq[i] = wq[j] => i = j
    /\ \A o \in Op : state[o] = "free" => hbuf[o] = Raw

\* Who waits is in the queue, with reason, and what is in the queue is alive.
WaitersExact == WaitersJustified /\ WaitxOwned

\* Nobody writes to the stack of a coroutine that is suspended: by then the
\* stack may hold the frames of another.
StacksUntouched ==
    [][\A c \in OnStack : pc[c] = "suspended" /\ pc'[c] = "suspended" =>
            got'[Current(c)] = got[Current(c)]]_vars

\* An operation that somebody completed returns, and so does every read that
\* waits when the channel is closed.
ServedReturn ==
    \A o \in Op : done[o] # 0 \/ (closed # 0 /\ doing[o] = "read") ~> told[o] # "none"
=============================================================================
