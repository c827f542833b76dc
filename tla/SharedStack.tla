---------------------------- MODULE SharedStack ----------------------------
(***************************************************************************)
(* How a scheduler runs many coroutines on a few stacks (Sched::resume,    *)
(* save_stack, new_coroutine and recycle in co/src/sched.cc and sched.h).  *)
(* The frames of a suspended coroutine stay on its stack until another     *)
(* coroutine of the same stack is resumed; then they are copied to a heap  *)
(* buffer, and copied back to the same addresses before it runs again.     *)
(*                                                                         *)
(* The contents of a stack are abstracted to a frame: whose it is and how  *)
(* often that coroutine has run since it started.                          *)
(***************************************************************************)
EXTENDS Naturals, FiniteSets

CONSTANTS
    Co,        \* Coroutine structures of the pool
    Stack,     \* Sched::_stack, an array of _stack_num stacks
    StackOf,   \* co->stack: the stack of each coroutine, by its id
    Buf,       \* heap buffers (Buffer::_h)
    NoCo, NoBuf, NoFrame,
    MaxBufs,   \* 128: capacity of _bufs
    MaxRun     \* bound: how often a coroutine yields

ASSUME StackAssumption ==
    /\ StackOf \in [Co -> Stack]
    /\ NoCo \notin Co
    /\ NoBuf \notin Buf
    /\ NoFrame \notin Nat \cup [co : Co, run : Nat]
    /\ MaxBufs \in Nat /\ MaxRun \in Nat

VARIABLES
    life,      \* "free" in the pool, "new", "running" or "suspended"
    owner,     \* Stack::co
    frames,       \* the frame on each stack
    buf,       \* Coroutine::pbuf
    data,      \* the frame in each heap buffer
    bufs,      \* Sched::_bufs, free buffers kept for reuse
    runs       \* how often each coroutine has yielded since it started

stackVars == <<life, owner, frames, buf, data, bufs, runs>>

Frame == [co : Co, run : Nat] \cup {NoFrame}

\* The frame c must find on its stack when it is resumed.
FrameOf(c) == [co |-> c, run |-> runs[c]]

StackInit ==
    /\ life = [c \in Co |-> "free"]
    /\ owner = [s \in Stack |-> NoCo]
    /\ frames = [s \in Stack |-> NoFrame]
    /\ buf = [c \in Co |-> NoBuf]
    /\ data = [b \in Buf |-> NoFrame]
    /\ bufs = {}
    /\ runs = [c \in Co |-> 0]

NobodyRuns == \A c \in Co : life[c] # "running"

\* CoroutinePool::pop and Sched::new_coroutine: ctx is 0.
NewCoroutine(c) ==
    /\ life[c] = "free"
    /\ life' = [life EXCEPT ![c] = "new"]
    /\ UNCHANGED <<owner, frames, buf, data, bufs, runs>>

\* A buffer nobody holds, for the Buffer::append of a coroutine without one.
Unused == {b \in Buf \ bufs : \A c \in Co : buf[c] # b}

\* The buffer save_stack(o) uses: o's own, else one from _bufs, else a new one.
BufferFor(o) ==
    CASE buf[o] # NoBuf -> {buf[o]}
      [] buf[o] = NoBuf /\ bufs # {} -> bufs
      [] OTHER -> Unused

\* Sched::save_stack(o)
SaveStack(o) ==
    IF o = NoCo
    THEN UNCHANGED <<buf, data, bufs>>
    ELSE \E b \in BufferFor(o) :
            /\ buf' = [buf EXCEPT ![o] = b]
            /\ data' = [data EXCEPT ![b] = frames[StackOf[o]]]
            /\ bufs' = bufs \ {b}

\* A bug: the frames of the stack's owner are not saved for a new coroutine.
ResumeNewOverwrites(c) ==
    /\ NobodyRuns
    /\ life[c] = "new"
    /\ UNCHANGED <<buf, data, bufs>>
    /\ owner' = [owner EXCEPT ![StackOf[c]] = c]
    /\ life' = [life EXCEPT ![c] = "running"]
    /\ runs' = [runs EXCEPT ![c] = 0]
    /\ frames' = [frames EXCEPT ![StackOf[c]] = [co |-> c, run |-> 0]]

\* Sched::resume of a coroutine whose ctx is 0: the stack is allocated on
\* first use, its owner's frames are saved, and a new context is made.
ResumeNew(c) ==
    /\ NobodyRuns
    /\ life[c] = "new"
    /\ IF owner[StackOf[c]] = c
       THEN UNCHANGED <<buf, data, bufs>>
       ELSE SaveStack(owner[StackOf[c]])
    /\ owner' = [owner EXCEPT ![StackOf[c]] = c]
    /\ life' = [life EXCEPT ![c] = "running"]
    /\ runs' = [runs EXCEPT ![c] = 0]
    /\ frames' = [frames EXCEPT ![StackOf[c]] = [co |-> c, run |-> 0]]

\* A bug: the saved frames are not copied back.
ResumeSuspendedNoCopy(c) ==
    /\ NobodyRuns
    /\ life[c] = "suspended"
    /\ IF owner[StackOf[c]] = c
       THEN UNCHANGED <<buf, data, bufs>>
       ELSE SaveStack(owner[StackOf[c]])
    /\ owner' = [owner EXCEPT ![StackOf[c]] = c]
    /\ life' = [life EXCEPT ![c] = "running"]
    /\ UNCHANGED <<frames, runs>>

\* Sched::resume of a suspended coroutine.
ResumeSuspended(c) ==
    /\ NobodyRuns
    /\ life[c] = "suspended"
    /\ IF owner[StackOf[c]] = c
       THEN UNCHANGED <<buf, data, bufs, frames>>
       ELSE /\ SaveStack(owner[StackOf[c]])
            /\ frames' = [frames EXCEPT ![StackOf[c]] = data[buf[c]]]
    /\ owner' = [owner EXCEPT ![StackOf[c]] = c]
    /\ life' = [life EXCEPT ![c] = "running"]
    /\ UNCHANGED runs

\* The coroutine has run and calls Sched::yield; resume() stores its ctx.
Yield(c) ==
    /\ life[c] = "running"
    /\ runs[c] < MaxRun
    /\ life' = [life EXCEPT ![c] = "suspended"]
    /\ runs' = [runs EXCEPT ![c] = @ + 1]
    /\ frames' = [frames EXCEPT ![StackOf[c]] = [co |-> c, run |-> runs[c] + 1]]
    /\ UNCHANGED <<owner, buf, data, bufs>>

\* main_func returned: the stack has no owner any more, and recycle() keeps
\* the buffer for reuse unless it is large or _bufs is full, else frees it.
Return(c) ==
    /\ life[c] = "running"
    /\ life' = [life EXCEPT ![c] = "free"]
    /\ owner' = [owner EXCEPT ![StackOf[c]] = NoCo]
    /\ buf' = [buf EXCEPT ![c] = NoBuf]
    /\ \E large \in BOOLEAN :
          bufs' = IF buf[c] = NoBuf \/ large \/ Cardinality(bufs) >= MaxBufs
                  THEN bufs
                  ELSE bufs \cup {buf[c]}
    /\ UNCHANGED <<frames, data, runs>>

StackNext ==
    \E c \in Co : NewCoroutine(c) \/ ResumeNew(c) \/ ResumeSuspended(c) \/ Yield(c) \/ Return(c)

StackSpec == StackInit /\ [][StackNext]_stackVars

-----------------------------------------------------------------------------
\* The type of every variable.
StackTypes ==
    /\ life \in [Co -> {"free", "new", "running", "suspended"}]
    /\ owner \in [Stack -> Co \cup {NoCo}]
    /\ frames \in [Stack -> Frame]
    /\ buf \in [Co -> Buf \cup {NoBuf}]
    /\ data \in [Buf -> Frame]
    /\ bufs \subseteq Buf
    /\ runs \in [Co -> Nat]

\* One coroutine runs at a time, on a stack that is recorded as its own, and
\* a stack is never recorded as that of a coroutine that went back to the
\* pool: save_stack would copy the stack of nobody.
OwnerIsLive ==
    /\ \A s \in Stack : owner[s] # NoCo =>
          StackOf[owner[s]] = s /\ life[owner[s]] \in {"running", "suspended"}
    /\ \A c, d \in Co : life[c] = "running" /\ life[d] = "running" => c = d
    /\ \A c \in Co : life[c] = "running" => owner[StackOf[c]] = c

\* A heap buffer has one holder: a coroutine, or _bufs.
BuffersHaveOneHolder ==
    /\ \A c, d \in Co : buf[c] = buf[d] /\ buf[c] # NoBuf => c = d
    /\ \A c \in Co : buf[c] \notin bufs
    /\ \A c \in Co : life[c] \in {"free", "new"} => buf[c] = NoBuf

\* The frames of every suspended coroutine exist exactly as it left them, on
\* its stack while it owns it and in its buffer otherwise; a coroutine that
\* has control finds its own frames under its feet.
FrameIntegrity ==
    \A c \in Co :
        /\ life[c] = "running" => frames[StackOf[c]] = FrameOf(c)
        /\ life[c] = "suspended" =>
              IF owner[StackOf[c]] = c
              THEN frames[StackOf[c]] = FrameOf(c)
              ELSE buf[c] # NoBuf /\ data[buf[c]] = FrameOf(c)

\* Where the frame of c is, read off the memory the code keeps it in.
FrameAt(c) ==
    IF owner[StackOf[c]] = c THEN frames[StackOf[c]]
    ELSE IF buf[c] # NoBuf THEN data[buf[c]]
    ELSE NoFrame

PrivateFrame ==
    [c \in Co |-> IF life[c] \in {"running", "suspended"} /\ FrameAt(c) # NoFrame
                  THEN FrameAt(c).run
                  ELSE NoFrame]

RunningCo == IF NobodyRuns THEN NoCo ELSE CHOOSE c \in Co : life[c] = "running"

Private == INSTANCE PrivateStacks WITH running <- RunningCo, frame <- PrivateFrame

\* Sharing is invisible: the memory a coroutine sees through its stack and its
\* buffer behaves as a stack of its own.
SharingIsInvisible == Private!Spec
=============================================================================
