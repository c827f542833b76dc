------------------------------ MODULE MCParts ------------------------------
(***************************************************************************)
(* Parts of the library that share nothing and are small enough to be      *)
(* checked in one run, side by side: the shared stacks of a scheduler, its *)
(* pool of coroutine structures and its timers, the intrusive list, the    *)
(* wait queue of a mutex, co::pool; on Windows overlapped I/O, the memory  *)
(* of its calls, and the hooks for sockets that are not overlapped; the    *)
(* containers lru_map and array, and text: the buffer of a string, its     *)
(* algorithms, and numbers; how the schedulers start and stop; and, as the  *)
(* platforms have them, kqueue, the resolver calls, the switch of contexts, *)
(* and the copiers and the transaction of Detours.  A behaviour exercises   *)
(* one.                                                                     *)
(***************************************************************************)
EXTENDS SharedStack, MutexQueue, SchedManager, Timers, Integers, TLC

CONSTANTS
    Exercised,                      \* the parts
    Node, Null,                     \* CList
    CosPerBlock, MaxBlock, MaxLive, \* CoPool
    Sch, Elem, MaxCap,              \* Pool
    WinCo, Sched, At, Hooked, Stream, Dgram, Listen, Uses, Timed, Info, None,
    ExAtOnce, Rewait, MaxCall, MaxClose,  \* Overlapped
    HardSock, Liberties,                  \* WinHook
    Caller, CancelAtOnce, CallLiberties,  \* WinCalls
    Key, Val, Capacity, MovedFrom, LruLiberties,   \* LruMap
    Value, Default, Raw, Broken, OwnElement, MaxArray,  \* Array
    Char, Nul, Junk, MaxText, Star, One, TextLiberties,  \* Text
    NetCo, NetAt, Fd, KqLiberties,        \* Kqueue
    DnsLiberties,                         \* Dns
    Routine, Loop, Abis, Sizes, CtxLiberties,   \* Context
    Half8, Half16, Half32, Away, DisLiberties,  \* Disasm
    Piece, Page, Reach14, Reach19, Reach26, Source, Copies, ArmLiberties, \* Disasm, for ARM64
    Fn, Code, PageOf, AddressOf, Stub, HookVar, FirstPointer, User, Other, Addresses, Far, NearFar,
    PerRegion, IgnoreTooSmall, RetainRegions, NoOne, Own, DetourLiberties   \* Detours

ASSUME PartsAssumption ==
    /\ Null \notin Node
    /\ N \in Nat \ {0} /\ MaxLen \in Nat
    /\ CosPerBlock \in Nat \ {0} /\ MaxBlock \in Nat /\ MaxLive \in Nat
    /\ MaxCap \in Nat
    /\ At \in [WinCo -> Sched]
    /\ Uses \in [WinCo -> SUBSET (Hooked \cup Stream \cup Dgram \cup Listen)]
    /\ Timed \subseteq WinCo \X (Hooked \cup Stream \cup Dgram)
    /\ None \notin WinCo \cup Sched \cup Info \cup Hooked \cup Stream \cup Dgram \cup Listen
    /\ ExAtOnce \in BOOLEAN /\ Rewait \in BOOLEAN
    /\ MaxCall \in Nat /\ MaxClose \in Nat
    /\ Capacity \in Nat \ {0} /\ Capacity <= Cardinality(Node) /\ MovedFrom \notin Key
    /\ LruLiberties \subseteq {"moved_key", "known_key"}
    /\ Default \in Value /\ {Raw, Broken} \cap Value = {} /\ Raw # Broken
    /\ OwnElement \in BOOLEAN /\ MaxArray \in Nat
    /\ {Nul, Junk} \cap Char = {} /\ MaxText \in Nat
    /\ Star \in Nat \ 0..2 /\ One \in Nat \ 0..2 /\ Star # One
    /\ TextLiberties \subseteq {"stars", "half", "bare", "places"}
    /\ CancelAtOnce \in BOOLEAN
    /\ Main \in AppThread /\ Ncpu \in Nat \ {0} /\ SchedNum \in Nat /\ AppThread \cap Nat = {}
    /\ ManLiberties \subseteq {"late_main", "no_loop", "inside", "two_stops", "slow"}
    /\ NetAt \in [NetCo -> Sched] /\ None \notin NetCo \cup Fd
    /\ KqLiberties \subseteq {"poll", "share", "close_in_use"}
    /\ DnsLiberties \subseteq {"two_threads", "keeps", "both", "byname2"}
    /\ Loop \notin Routine /\ Sizes \subseteq Nat \ 0..33
    /\ Abis \subseteq {"x64", "x64_win", "x86", "x86_mac", "x86_win", "arm", "arm64", "mips"}
    /\ CtxLiberties \subseteq {"float", "arm_sp", "home", "depths", "odd_size"}
    /\ 0 < Half8 /\ Half8 < Half16 /\ Half16 < Half32
    /\ Away \subseteq Int \ (-Half16)..Half16
    /\ DisLiberties \subseteq {"loop", "rel16", "xbegin", "far", "addr16", "evex"}
    /\ Piece \in Nat \ 0..1 /\ Page \in Nat \ {0} /\ Page * Reach19 = Piece * Piece
    /\ 0 < Reach14 /\ Reach14 <= Reach19 /\ Reach19 < Reach26 /\ Reach26 < Piece * Piece
    /\ Source \in Nat /\ Copies \subseteq Nat /\ ArmLiberties \subseteq {"adr", "ldr", "prfm"}
    /\ AddressOf \in [Fn -> Nat] /\ FirstPointer \in [HookVar -> Fn \cup DOMAIN Stub]
    /\ Range(Stub) \subseteq Fn /\ DOMAIN Stub \cap Fn = {} /\ \A f \in Fn : Code[f] # <<>>
    /\ Addresses \subseteq Nat /\ 0 < NearFar /\ NearFar < Far /\ PerRegion \in Nat \ 0..2
    /\ {IgnoreTooSmall, RetainRegions} \subseteq BOOLEAN
    /\ NoOne \notin Fn \cup User \cup Addresses /\ Own \notin Fn
    /\ DetourLiberties \subseteq {"order", "again", "running", "behind", "eight", "outside", "racing"}
    /\ None \notin Info /\ CallLiberties \subseteq {"msg_flags", "one_limit"}
    /\ HardSock # {} /\ Liberties \subseteq {"connect_used", "mode_in_use"}

VARIABLES
    which,                                        \* the structure
    head, next, prev, list,                       \* CList
    c, o, v, useCount, v0, vc, blks, holders,     \* CoPool
    yields, vec, room, held, dead, task, walk, pos, wg, clearing, stale,  \* Pool
    can, live, state, waiter, got, ev, waitx, call, pc, due, ready, pend, port, bound, mark, skip,
    ctxSkip, conn, aborted, calls, closes,        \* Overlapped
    knb, ctx, readable, at, on,                   \* WinHook
    memory, ops, packets, doing, limits, lacks,   \* WinCalls
    kv, ki, kl, key, entries,                     \* LruMap
    cells, size, content,                         \* Array
    bytes, len, text, ask, answer,                \* Text
    flags, notes, kqCan, batch, kqRuns, op,       \* Kqueue
    global, own, where, lookup, static, ent, scratch, \* Dns
    abi, top, space, regs, sp, jumpsTo, routine, arrived, context, back, base, callSp, turn, from, sent, \* Context
    insn, copied,                                 \* Disasm
    word, code,                                   \* Disasm, for ARM64
    pendingThread, pendingError, operations, threads, regions, region, pFree, trampoline, writable, perm,
    jump, pointer, commits, suspended, eip, executed, attached  \* Detours

listVars == <<head, next, prev, list>>
coVars == <<c, o, v, useCount, v0, vc, blks, holders>>
poolVars == <<yields, vec, room, held, dead, task, walk, pos, wg, clearing, stale>>
winVars == <<can, live, state, waiter, got, ev, waitx, call, pc, due, ready, pend, port, bound,
             mark, skip, ctxSkip, conn, aborted, calls, closes>>
hardVars == <<knb, ctx, readable, at, on>>
callVars == <<memory, ops, packets, doing, limits, lacks>>
windowsVars == <<winVars, hardVars, callVars>>
lruVars == <<kv, ki, kl, key, entries>>
arrayVars == <<cells, size, content>>
textVars == <<bytes, len, text, ask, answer>>
kqVars == <<flags, notes, kqCan, batch, kqRuns, op>>
dnsVars == <<global, own, where, lookup, static, ent, scratch>>
contextVars == <<abi, top, space, regs, sp, jumpsTo, routine, arrived, context, back, base, callSp, turn,
                 from, sent>>
detoursVars == <<pendingThread, pendingError, operations, threads, regions, region, pFree, trampoline,
                 writable, perm, jump, pointer, commits, suspended, eip, executed, attached>>
copyVars == <<insn, copied, word, code, detoursVars>>
platformVars == <<manVars, kqVars, dnsVars, contextVars>>
dataVars == <<lruVars, arrayVars, textVars>>

List == INSTANCE CList
Cos == INSTANCE CoPool WITH N <- CosPerBlock
Elems == INSTANCE Pool
Win == INSTANCE Overlapped WITH Co <- WinCo, timer <- due, owner <- waiter
Hard == INSTANCE WinHook WITH Co <- WinCo, Sock <- HardSock, ready <- readable, pc <- at
Pieces == INSTANCE WinCalls WITH Co <- Caller
Lru == INSTANCE LruMap
Objects == INSTANCE Array
Words == INSTANCE Text
Kq == INSTANCE Kqueue WITH Co <- NetCo, At <- NetAt, can <- kqCan, runs <- kqRuns
Resolver == INSTANCE Dns WITH Co <- NetCo, At <- NetAt, at <- where, call <- lookup
Switch == INSTANCE Context WITH mem <- space, pc <- jumpsTo, runs <- routine, since <- arrived
Copier == INSTANCE Disasm
Hooking == INSTANCE Detours

structVars == <<listVars, q, coVars, poolVars>>

\* The stacks of Context are large; they exist where it is exercised.
NoContext ==
    /\ abi = None /\ top = None /\ space = None /\ regs = None /\ sp = None /\ jumpsTo = None
    /\ routine = None /\ arrived = None /\ context = None /\ back = None /\ base = None
    /\ callSp = None /\ turn = None /\ from = None /\ sent = None

AllInit ==
    /\ which \in Exercised
    /\ StackInit /\ List!Init /\ Init /\ Cos!Init /\ Elems!Init /\ TimersInit
    /\ Hard!WinInit /\ Win!OvInit /\ Pieces!CallsInit
    /\ Lru!LruInit /\ Objects!ArrayInit /\ Words!BufferInit /\ Words!TextInit
    /\ ManInit /\ Kq!KqInit /\ Resolver!DnsInit /\ Copier!DisInit /\ Copier!ArmInit
    /\ Hooking!DetoursInit
    /\ (which = "pool" \/ yields = {}) /\ (which = "overlapped" \/ can)
    /\ IF which = "context" THEN Switch!ContextInit ELSE NoContext

StructNext ==
    \/ which = "clist" /\ List!Next /\ UNCHANGED <<q, coVars, poolVars>>
    \/ which = "mutex_queue" /\ Next /\ UNCHANGED <<listVars, coVars, poolVars>>
    \/ which = "co_pool" /\ Cos!Next /\ UNCHANGED <<listVars, q, poolVars>>
    \/ which = "pool" /\ Elems!Next /\ UNCHANGED <<listVars, q, coVars>>

TextNext ==
    \/ which = "buffer" /\ Words!BufferNext /\ UNCHANGED <<ask, answer>>
    \/ which = "text" /\ Words!TextNext /\ UNCHANGED <<bytes, len, text>>

DataNext ==
    \/ which = "lru_map" /\ Lru!LruNext /\ UNCHANGED <<arrayVars, textVars>>
    \/ which = "array" /\ Objects!ArrayNext /\ UNCHANGED <<lruVars, textVars>>
    \/ TextNext /\ UNCHANGED <<lruVars, arrayVars>>

WindowsNext ==
    \/ which = "overlapped" /\ Win!OvNext /\ UNCHANGED <<hardVars, callVars>>
    \/ which = "hard" /\ Hard!WinNext /\ UNCHANGED <<winVars, callVars>>
    \/ which = "calls" /\ Pieces!CallsNext /\ UNCHANGED <<winVars, hardVars>>

SystemNext ==
    \/ which = "stacks" /\ StackNext /\ UNCHANGED <<structVars, timersVars, windowsVars>>
    \/ StructNext /\ UNCHANGED <<stackVars, timersVars, windowsVars>>
    \/ which = "timers" /\ TimersNext /\ UNCHANGED <<stackVars, structVars, windowsVars>>
    \/ WindowsNext /\ UNCHANGED <<stackVars, structVars, timersVars>>

PlatformNext ==
    \/ which = "manager" /\ ManNext /\ UNCHANGED <<kqVars, dnsVars, contextVars>>
    \/ which = "kqueue" /\ Kq!KqNext /\ UNCHANGED <<manVars, dnsVars, contextVars>>
    \/ which = "dns" /\ Resolver!DnsNext /\ UNCHANGED <<manVars, kqVars, contextVars>>
    \/ which = "context" /\ Switch!ContextNext /\ UNCHANGED <<manVars, kqVars, dnsVars>>

CopyNext ==
    \/ which = "disasm" /\ Copier!Copy /\ UNCHANGED <<word, code, detoursVars>>
    \/ which = "disasm_arm64" /\ Copier!CopyArm64 /\ UNCHANGED <<insn, copied, detoursVars>>
    \/ which = "detours" /\ Hooking!DetoursNext /\ UNCHANGED <<insn, copied, word, code>>

systemVars == <<stackVars, structVars, timersVars, windowsVars>>

AllNext ==
    /\ UNCHANGED which
    /\ \/ SystemNext /\ UNCHANGED <<dataVars, platformVars, copyVars>>
       \/ DataNext /\ UNCHANGED <<systemVars, platformVars, copyVars>>
       \/ PlatformNext /\ UNCHANGED <<systemVars, dataVars, copyVars>>
       \/ CopyNext /\ UNCHANGED <<systemVars, dataVars, platformVars>>

AllSpec == AllInit /\ [][AllNext]_<<which, systemVars, dataVars, platformVars, copyVars>>

-----------------------------------------------------------------------------
\* A part's variables stay as they are while another one is exercised, so its
\* invariants are asked where it is.  Those of SharedStack, MutexQueue,
\* SchedManager and Timers (FrameIntegrity and SharingIsInvisible, IsMailbox,
\* StopsInOrder, and TimersSound and SleepsLongEnough) are theirs.

\* CoPool, Pool, CList, LruMap, Array and the buffer of Text: after every
\* sequence of operations, free lists, use counts and blocks agree with what is
\* in use, and what is in use is not handed out again; an element has one
\* holder, and none after it was destroyed; and links in both directions, an
\* index, an order of use and memory that moves spell what was put into a
\* container.  Text: trim, split, replace, match and the searches compute what
\* their definitions say, and numbers survive the way into text and back.
StructuresExact ==
    /\ which = "co_pool" => Cos!ListsExact /\ Cos!PopIsFresh
    /\ which = "pool" => Elems!ElementsAccounted /\ Elems!ClearIsComplete
    /\ which = "clist" => List!LinksSpellList
    /\ which = "lru_map" => Lru!LruExact
    /\ which = "array" => Objects!ArrayExact
    /\ which = "buffer" => Words!TextKept
    /\ which = "text" => Words!TextAsPromised

\* Overlapped and WinCalls: the memory of an operation exists as long as the
\* kernel or a coroutine refers to it, and no longer; it is not another
\* coroutine's stack, and what a call transfers gets there complete.
IoMemoryKept ==
    /\ which = "overlapped" => Win!InfoOwned
    /\ which = "calls" => Pieces!MemoryKept /\ Pieces!CallsComplete

\* Overlapped, Kqueue, WinHook and Dns: a coroutine is resumed by what it waits
\* for, once, and does not wait for what will never come; no call on a blocking
\* socket that is not overlapped keeps the scheduler's thread in the kernel; and
\* a call of the resolver gives its caller the caller's answer, and is alone in
\* the resolver of its thread.
CallsReturn ==
    /\ which = "overlapped" => Win!ResumedByOwn
    /\ which = "kqueue" => Kq!EventsNameWaiters
    /\ which = "hard" => Hard!WinNotBlocked
    /\ which = "dns" => Resolver!AnswersKept /\ Resolver!ResolverEnteredOnce

\* Context: a function of a coroutine that is entered, and a jump that returns,
\* find the stack, the registers and the arguments as a call would leave them,
\* whatever the coroutines did in between.
SwitchKeepsAll == which = "context" => Switch!SwitchKeepsAll

\* Disasm and Detours: a hooked function whose first instructions are in a
\* trampoline does what it did.  The copy of an instruction is a whole
\* instruction that does, where it is, what the original did where that was,
\* and leads to the same place; after every sequence of transactions a call
\* goes through a function's hooks to its own code, trampolines are in use for
\* one hook or free, pages are as they were, and the threads that were in the
\* code go on where they were.
HooksTransparent ==
    /\ which = "disasm" => Copier!CopiesLead
    /\ which = "disasm_arm64" => Copier!Arm64CopiesLead
    /\ which = "detours" => Hooking!HooksInPlace

\* Overlapped: no call is cancelled but the one whose timer has expired.
NotCancelled == which = "overlapped" => Win!NotCancelled

-----------------------------------------------------------------------------
(***************************************************************************)
(* Values for the constants.  Three coroutines share one stack.            *)
(***************************************************************************)
CONSTANTS c1, c2, c3, s1, s2, w1, w2, hk, ts, ds, ls, plain, padded, tiny, stub, h1, h2, h3, h4

StackOfImpl == [x \in {c1, c2, c3} |-> s1]

\* On Windows, one coroutine in each of two schedulers: they share a datagram
\* socket; the first one has a stream socket, with and without a timeout, and
\* the second one a hooked socket and one that listens.  In the run about
\* CancelIo all of these are one datagram socket, and s2 is s1.
AtImpl == w1 :> s1 @@ w2 :> s2
UsesImpl == w1 :> {ts, ds} @@ w2 :> {ds, hk, ls}
TimedImpl == {<<w1, ts>>}

\* With kqueue, and in the resolver, two of three coroutines share a scheduler.
NetAtImpl == c1 :> s1 @@ c2 :> s1 @@ c3 :> s2

\* The trampoline is below the function or above it.
AwayImpl == {-24, 24}

\* Functions to hook, the first one twice, once through a stub: of one, eight
\* bytes are moved; one is too short, but padding follows; one is too short.
Insn(n, m, kind) == [size |-> n, copy |-> m, kind |-> kind]
CodeImpl ==
    plain :> <<Insn(3, 3, "other"), Insn(5, 5, "other"), Insn(2, 2, "other")>>
    @@ padded :> <<Insn(2, 6, "other"), Insn(1, 1, "ret"), Insn(1, 1, "brk"), Insn(3, 3, "nop")>>
    @@ tiny :> <<Insn(1, 1, "ret"), Insn(2, 2, "nop")>>
AddressOfImpl == plain :> 10 @@ padded :> 12 @@ tiny :> 12
FirstPointerImpl == h1 :> plain @@ h2 :> stub @@ h3 :> padded @@ h4 :> tiny
StubImpl == stub :> plain
=============================================================================
