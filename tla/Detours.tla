------------------------------ MODULE Detours ------------------------------
(***************************************************************************)
(* The transaction in which Detours patches functions (detours.cpp, as it  *)
(* is built for x64): the trampolines and the regions they are taken from, *)
(* DetourTransactionBegin, DetourAttach, DetourDetach, DetourUpdateThread, *)
(* and commit and abort.                                                   *)
(*                                                                         *)
(* Code is the list of its instructions: the size of each, that of its     *)
(* copy (Disasm has what is in it) and its kind, "jmp", "ret", "brk",      *)
(* "nop", "loopne" or "other".  The first bytes of a function are its own, *)
(* or a jump to a trampoline.                                              *)
(* Addresses are numbers of regions of 64K; a trampoline is the region and *)
(* its index there.                                                        *)
(***************************************************************************)
EXTENDS Integers, SequencesExt, FiniteSetsExt, Functions

CONSTANTS
    Fn,           \* functions
    Code, PageOf, AddressOf,
    Stub,           \* import stubs, and the functions they jump to
    HookVar,        \* the variables through which detours call what they hook
    FirstPointer,   \* a function or a stub
    User,           \* threads that use the API
    Other,          \* threads that may be in the code meanwhile
    Addresses,      \* bound: where the system has room for a region
    Far, NearFar,   \* 2GB, and 1GB
    PerRegion,      \* DETOUR_TRAMPOLINES_PER_REGION
    IgnoreTooSmall, RetainRegions,  \* s_fIgnoreTooSmall, s_fRetainRegions
    NoOne, Own,     \* markers: nobody, nothing or nowhere; the function's own code
    DetourLiberties \* what the code does not stand: "order", to detach another
                    \* hook of a function than the last; "again", two operations
                    \* on a function in a transaction; "running", threads in
                    \* what a commit changes that are not suspended; "behind",
                    \* or that are behind the first 8 bytes of a trampoline;
                    \* "eight", or before code of 8 bytes that is moved;
                    \* "outside", to suspend a thread without a transaction;
                    \* "racing", to begin while another's commit is not back yet

SizeOfJmp == 5    \* SIZE_OF_JMP
SizeOfPointer == 8
Jump == <<[size |-> SizeOfJmp, copy |-> SizeOfJmp, kind |-> "jmp"]>>

VARIABLES
    pendingThread,  \* s_nPendingThreadId
    pendingError,   \* s_nPendingError: is there one
    operations,     \* s_pPendingOperations, the newest first
    threads,        \* s_pPendingThreads
    regions,        \* s_pRegions, first to last
    region,         \* s_pRegion
    pFree,          \* of each region
    trampoline,     \* their content, or Blank
    writable,       \* the regions that can be written
    perm,           \* of each page: can its functions be written
    jump,           \* the first bytes of each function
    pointer,        \* of each hook: a function, or the trampoline it calls
    commits,        \* of each user: "back", or in a commit that did or did not patch
    suspended,      \* how often each of Other is
    eip,            \* where it is: in what, and at which offset
    executed,       \* history: how many instructions of the function it did
    attached        \* history: of each function, its hooks, the newest first

detoursVars == <<pendingThread, pendingError, operations, threads, regions, region, pFree, trampoline,
                 writable, perm, jump, pointer, commits, suspended, eip, executed, attached>>

regionVars == <<regions, region, pFree, trampoline>>
programVars == <<jump, pointer, attached>>
threadVars == <<suspended, eip, executed>>

\* The trampolines that are ever used of a region: the first two are on no list.
Indices == 2..PerRegion - 1
Slots == Addresses \X Indices
Blank == [fn |-> NoOne]
Nowhere == [in |-> NoOne, off |-> 0]

-----------------------------------------------------------------------------
(***************************************************************************)
(* The code that is moved.                                                 *)
(***************************************************************************)
Total(s, k) == FoldLeft(LAMBDA n, i : n + i.size, 0, SubSeq(s, 1, k))
TotalCopy(s, k) == FoldLeft(LAMBDA n, i : n + i.copy, 0, SubSeq(s, 1, k))

SkipJmp(p) == IF p \in DOMAIN Stub THEN Stub[p] ELSE p
Target(h) == SkipJmp(FirstPointer[h])

\* loopne passes for a jump.
DoesCodeEndFunction(i) == i.kind \in {"jmp", "ret", "brk", "loopne"}
IsCodeFiller(i) == i.kind \in {"nop", "brk"}

\* What is at the head of f.
EntryOf(f) == IF jump[f] = Own THEN Code[f] ELSE Jump

\* Instructions are moved until there is room for a jump, at most eight, and
\* none behind the end of the function.
MovedOf(s) ==
    LET Enough(k) == Total(s, k) >= SizeOfJmp \/ k = 8 \/ DoesCodeEndFunction(s[k])
    IN  SubSeq(s, 1, Min({k \in DOMAIN s : Enough(k)} \cup {Len(s)}))

\* The bytes that are replaced: if these are too few, padding behind them too.
CutOf(s) ==
    LET Enough(k) == Total(s, k) >= SizeOfJmp \/ k = Len(s) \/ ~IsCodeFiller(s[k + 1])
    IN  Total(s, Min({k \in Len(MovedOf(s))..Len(s) : Enough(k)}))

\* rAlign has the ends of instructions, in 3 and in 5 bits, the rest is 0.
AlignFromTarget(tr, off) ==
    LET same == {k \in DOMAIN tr.moved : Total(tr.moved, k) % 8 = off}
    IN  IF same = {} THEN 0 ELSE TotalCopy(tr.moved, Min(same)) % 32
AlignFromTrampoline(tr, off) ==
    LET same == {k \in DOMAIN tr.moved : TotalCopy(tr.moved, k) % 32 = off}
    IN  IF same = {} THEN 0 ELSE Total(tr.moved, Min(same)) % 8

-----------------------------------------------------------------------------
(***************************************************************************)
(* Trampolines and regions.                                                *)
(***************************************************************************)
Lowest(a) == a - Far    \* detour_2gb_below
Highest(a) == a + Far   \* detour_2gb_above

\* Within 2GB of the function and of where a jump at its head leads.
Bounds(f) ==
    LET a == AddressOf[f]
    IN  IF jump[f] = Own THEN Lowest(a)..Highest(a)
        ELSE IF jump[f][1] < a THEN Lowest(a)..Highest(jump[f][1])
        ELSE Lowest(jump[f][1])..Highest(a)

Usable(r, f) == pFree[r] # <<>> /\ r \in Bounds(f)

\* The default region, or the first that will do.
Existing(f) ==
    LET default == IF region = NoOne /\ regions # <<>> THEN regions[1] ELSE region
        usable == SelectSeq(regions, LAMBDA r : Usable(r, f))
    IN  IF default # NoOne /\ Usable(default, f) THEN <<default>> ELSE usable

\* The highest or lowest place between l and h where there is room, if any.
Room == Addresses \ Range(regions)
FromHi(l, h) == LET S == {r \in Room : l < r /\ r < h} IN IF S = {} THEN {} ELSE {Max(S)}
FromLo(l, h) == LET S == {r \in Room : l <= r /\ r < h} IN IF S = {} THEN {} ELSE {Min(S)}

\* Places a GB away and further are tried first, then those that are closer:
\* these may be out of the bounds.
AllocateNew(f) ==
    LET a == AddressOf[f]
        lo == Min(Bounds(f))
        hi == Max(Bounds(f))
        tries == <<FromHi(lo, a - NearFar), FromLo(a + NearFar, hi), FromLo(a - NearFar, a),
                   FromHi(a, a + NearFar), FromHi(lo, a), FromLo(a, hi)>>
        found == {i \in DOMAIN tries : tries[i] # {}}
    IN  IF found = {} THEN {} ELSE tries[Min(found)]

Outcome(s, rs, r, free) == [slot |-> s, regions |-> rs, region |-> r, free |-> free]

\* The last check comes when the region is made.
TakeFrom(r, f, rs, free) ==
    IF r \in Bounds(f) THEN Outcome(<<r, Head(free[r])>>, rs, r, [free EXCEPT ![r] = Tail(@)])
    ELSE Outcome(NoOne, rs, r, free)

\* From a region there is, or a new one, unless the system has none to give.
AllocTrampoline(f) ==
    IF Existing(f) # <<>> THEN {TakeFrom(Existing(f)[1], f, regions, pFree)}
    ELSE {TakeFrom(r, f, <<r>> \o regions, [pFree EXCEPT ![r] = [j \in 1..PerRegion - 2 |-> j + 1]]) :
             r \in AllocateNew(f)}
         \cup {Outcome(NoOne, regions, NoOne, pFree)}

Freed(free, slot) == [free EXCEPT ![slot[1]] = <<slot[2]>> \o @]

-----------------------------------------------------------------------------
(***************************************************************************)
(* The API.  A call of a thread that does not own the transaction, or      *)
(* after an error, changes nothing.                                        *)
(***************************************************************************)
DetoursInit ==
    /\ pendingThread = NoOne /\ pendingError = FALSE /\ operations = <<>> /\ threads = <<>>
    /\ regions = <<>> /\ region = NoOne /\ pFree = [r \in Addresses |-> <<>>]
    /\ trampoline = [s \in Slots |-> Blank]
    /\ writable = {} /\ perm = [p \in Range(PageOf) |-> FALSE]
    /\ jump = [f \in Fn |-> Own] /\ pointer = FirstPointer
    /\ commits = [u \in User |-> "back"]
    /\ suspended = [t \in Other |-> 0] /\ eip = [t \in Other |-> Nowhere]
    /\ executed = [t \in Other |-> 0] /\ attached = [f \in Fn |-> <<>>]

\* Making the regions writable may fail at any of them.
DetourTransactionBegin(u) ==
    /\ pendingThread = NoOne /\ commits[u] = "back"
    /\ "racing" \in DetourLiberties \/ \A v \in User : commits[v] = "back"
    /\ pendingThread' = u /\ operations' = <<>> /\ threads' = <<>>
    /\ \E n \in 0..Len(regions) :
          /\ writable' = Range(SubSeq(regions, 1, n))
          /\ pendingError' = (n < Len(regions))
    /\ UNCHANGED <<regionVars, perm, programVars, commits, threadVars>>

Working(u) == pendingThread = u /\ pendingError = FALSE
Untouched(f) == "again" \in DetourLiberties \/ \A i \in DOMAIN operations : operations[i].fn # f

\* The page can be written from now on, until commit or abort.
Queue(remove, h, f, s) ==
    /\ operations' = <<[isRemove |-> remove, hook |-> h, fn |-> f, slot |-> s,
                        perm |-> perm[PageOf[f]]]>> \o operations
    /\ perm' = [perm EXCEPT ![PageOf[f]] = TRUE]

\* rbCode does what code is, and then goes on behind the cut bytes; rbRestore is
\* what code was.
Trampoline(f, h) ==
    [fn |-> f, hook |-> h, code |-> jump[f], cut |-> CutOf(EntryOf(f)), moved |-> MovedOf(EntryOf(f))]

\* There may be no memory for the operation, or no trampoline, too little to
\* move, or a page that cannot be made writable.
DetourAttach(u, h) ==
    LET f == SkipJmp(pointer[h])
        Large == CutOf(EntryOf(f)) >= SizeOfJmp
    IN  /\ Working(u) /\ pointer[h] \notin Slots /\ Untouched(f)
        /\ \E a \in AllocTrampoline(f) \cup {Outcome(NoOne, regions, region, pFree)} :
              /\ regions' = a.regions /\ region' = a.region
              /\ writable' = writable \cup (Range(a.regions) \ Range(regions))
              /\ \/ /\ a.slot # NoOne /\ Large
                    /\ pFree' = a.free
                    /\ trampoline' = [trampoline EXCEPT ![a.slot] = Trampoline(f, h)]
                    /\ Queue(FALSE, h, f, a.slot)
                    /\ UNCHANGED pendingError
                 \/ /\ pFree' = IF a.slot = NoOne THEN a.free ELSE Freed(a.free, a.slot)
                    /\ pendingError' = ~(a.slot # NoOne /\ ~Large /\ IgnoreTooSmall)
                    /\ UNCHANGED <<trampoline, operations, perm>>
        /\ UNCHANGED <<pendingThread, threads, programVars, commits, threadVars>>

\* What the hook's variable points to has to be a trampoline to its detour.
DetourDetach(u, h) ==
    LET s == pointer[h] IN
    /\ Working(u) /\ Untouched(Target(h))
    /\ \/ s \in Slots /\ ("order" \in DetourLiberties \/ attached[Target(h)][1] = h)
          /\ Queue(TRUE, h, trampoline[s].fn, s) /\ UNCHANGED pendingError
       \/ s \notin Slots /\ IgnoreTooSmall /\ UNCHANGED <<pendingError, operations, perm>>
       \/ pendingError' = TRUE /\ UNCHANGED <<operations, perm>>
    /\ UNCHANGED <<pendingThread, threads, regionVars, writable, programVars, commits, threadVars>>

\* It does not ask whose transaction it is, or whether there is one.  Bound: a
\* thread is suspended once.
DetourUpdateThread(t) ==
    /\ pendingThread # NoOne \/ "outside" \in DetourLiberties
    /\ pendingError = FALSE /\ t \notin Range(threads)
    /\ \/ suspended' = [suspended EXCEPT ![t] = @ + 1] /\ threads' = <<t>> \o threads /\ UNCHANGED pendingError
       \/ pendingError' = TRUE /\ UNCHANGED <<suspended, threads>>
    /\ UNCHANGED <<pendingThread, operations, regionVars, writable, perm, programVars, commits,
                   eip, executed>>

\* The end of both: pages as they were, the threads run again.
Finish ==
    /\ perm' = FoldLeft(LAMBDA p, o : [p EXCEPT ![PageOf[o.fn]] = o.perm], perm, operations)
    /\ suspended' = [t \in Other |-> IF t \in Range(threads) THEN suspended[t] - 1 ELSE suspended[t]]
    /\ operations' = <<>> /\ threads' = <<>> /\ writable' = {} /\ pendingThread' = NoOne
    /\ UNCHANGED <<pendingError, executed>>

\* The trampolines of the operations in ops are given back.
GiveBack(ops) ==
    /\ trampoline' = [s \in Slots |-> IF \E i \in DOMAIN ops : ops[i].slot = s THEN Blank ELSE trampoline[s]]
    /\ pFree' = FoldLeft(LAMBDA free, o : Freed(free, o.slot), pFree, ops)

Abort ==
    /\ GiveBack(SelectSeq(operations, LAMBDA o : ~o.isRemove))
    /\ Finish
    /\ UNCHANGED <<regions, region, programVars, eip>>

DetourTransactionAbort(u) == pendingThread = u /\ Abort /\ UNCHANGED commits

\* Put the bytes back, or a jump in their place.
Patched(w, o) ==
    [jump |-> [w.jump EXCEPT ![o.fn] = IF o.isRemove THEN trampoline[o.slot].code ELSE o.slot],
     pointer |-> [w.pointer EXCEPT ![o.hook] = IF o.isRemove THEN o.fn ELSE o.slot]]

\* A bug: as if the copy of an instruction were as long as the instruction.
RedirectedAsIs(e, o) ==
    IF o.isRemove /\ e.in = o.slot /\ e.off < SizeOfPointer THEN [in |-> o.fn, off |-> e.off]
    ELSE IF ~o.isRemove /\ e.in = o.fn /\ e.off < trampoline[o.slot].cut
    THEN [in |-> o.slot, off |-> e.off]
    ELSE e

\* A suspended thread at e goes on where its code is now; sizeof(o->pTrampoline)
\* is the size of a pointer.
Redirected(e, o) ==
    LET tr == trampoline[o.slot]
    IN  IF o.isRemove /\ e.in = o.slot /\ e.off < SizeOfPointer
        THEN [in |-> o.fn, off |-> AlignFromTrampoline(tr, e.off)]
        ELSE IF ~o.isRemove /\ e.in = o.fn /\ e.off < tr.cut
        THEN [in |-> o.slot, off |-> AlignFromTarget(tr, e.off)]
        ELSE e

Recorded(a, o) ==
    [a EXCEPT ![o.fn] = IF o.isRemove THEN SelectSeq(@, LAMBDA h : h # o.hook) ELSE <<o.hook>> \o @]

FreeUnusedRegions(freed) ==
    LET unused == IF freed /\ ~RetainRegions
                  THEN {r \in Range(regions) : \A i \in Indices : trampoline'[<<r, i>>] = Blank}
                  ELSE {}
    IN  /\ regions' = SelectSeq(regions, LAMBDA r : r \notin unused)
        /\ region' = IF unused = {} THEN region ELSE NoOne

Patch ==
    LET done == FoldLeft(Patched, [jump |-> jump, pointer |-> pointer], operations)
        removals == SelectSeq(operations, LAMBDA o : o.isRemove)
    IN  /\ jump' = done.jump /\ pointer' = done.pointer
        /\ eip' = [t \in Other |-> IF t \in Range(threads) THEN FoldLeft(Redirected, eip[t], operations)
                                                           ELSE eip[t]]
        /\ GiveBack(removals)
        /\ FreeUnusedRegions(removals # <<>>)
        /\ attached' = FoldLeft(Recorded, attached, Reverse(operations))
        /\ Finish

\* The end of 8 bytes and their begin are the same in 3 bits.
Misled(e) ==
    e.off = 0 /\ \E i \in DOMAIN operations :
        LET o == operations[i]
        IN  ~o.isRemove /\ o.fn = e.in /\ \E k \in DOMAIN trampoline[o.slot].moved :
                                            Total(trampoline[o.slot].moved, k) % 8 = 0

DetourTransactionCommit(u) ==
    /\ pendingThread = u
    /\ "running" \in DetourLiberties \/ \A t \in Other : t \in Range(threads) \/ eip[t] = Nowhere
    /\ "behind" \in DetourLiberties \/ \A t \in Other : eip[t].in \in Slots => eip[t].off < SizeOfPointer
    /\ "eight" \in DetourLiberties \/ \A t \in Other : ~Misled(eip[t])
    /\ \/ pendingError /\ Abort /\ commits' = [commits EXCEPT ![u] = "failed"]
       \/ ~pendingError /\ Patch /\ commits' = [commits EXCEPT ![u] = "patched"]

\* It returns what s_nPendingError is by then.
CommitReturns(u) ==
    /\ commits[u] # "back"
    /\ commits' = [commits EXCEPT ![u] = "back"]
    /\ UNCHANGED <<pendingThread, pendingError, operations, threads, regionVars, writable, perm, programVars,
                   threadVars>>

-----------------------------------------------------------------------------
(***************************************************************************)
(* Threads in the code that may be moved: they have executed k of its      *)
(* instructions, in the function or in its copy.                           *)
(***************************************************************************)
\* Nobody is behind the end of a function.
Steps(s) == {k \in 0..Len(s) : \A i \in 1..k : s[i].kind \notin {"jmp", "ret", "brk"}}

\* Is f's own code behind k instructions in f, or its entry, and not another's.
IsCode(f, k) == k = 0 \/ jump[f] = Own \/ k >= Len(MovedOf(Code[f]))

RunTo(t, place, k) == eip' = [eip EXCEPT ![t] = place] /\ executed' = [executed EXCEPT ![t] = k]

\* It leaves the code, or is in a function or in a trampoline that is called.
Run(t) ==
    /\ suspended[t] = 0
    /\ \/ RunTo(t, Nowhere, 0)
       \/ \E f \in Fn : \E k \in Steps(Code[f]) :
             IsCode(f, k) /\ RunTo(t, [in |-> f, off |-> Total(Code[f], k)], k)
       \/ \E s \in {pointer[h] : h \in HookVar} \cap Slots : \E k \in Steps(trampoline[s].moved) :
             RunTo(t, [in |-> s, off |-> TotalCopy(trampoline[s].moved, k)], k)
    /\ UNCHANGED <<pendingThread, pendingError, operations, threads, regionVars, writable, perm, programVars,
                   commits, suspended>>

DetoursNext ==
    \/ \E u \in User : DetourTransactionBegin(u) \/ DetourTransactionAbort(u) \/ DetourTransactionCommit(u)
                       \/ CommitReturns(u)
    \/ \E u \in User, h \in HookVar : DetourAttach(u, h) \/ DetourDetach(u, h)
    \/ \E t \in Other : DetourUpdateThread(t) \/ Run(t)

DetoursSpec == DetoursInit /\ [][DetoursNext]_detoursVars

-----------------------------------------------------------------------------
\* A call of a function goes through its hooks, the newest first, and then
\* through its own code: the first trampoline is at its head, and each hook's
\* variable leads to the code that was at the head before it.
HooksChain ==
    /\ \A f \in Fn :
          LET a == attached[f]
          IN  /\ jump[f] = IF a = <<>> THEN Own ELSE pointer[a[1]]
              /\ \A i \in DOMAIN a :
                    LET tr == trampoline[pointer[a[i]]]
                    IN  /\ pointer[a[i]] \in Slots /\ tr # Blank
                        /\ tr.fn = f /\ tr.hook = a[i]
                        /\ tr.code = IF i = Len(a) THEN Own ELSE pointer[a[i + 1]]
    /\ \A h \in HookVar : h \notin Range(attached[Target(h)]) => SkipJmp(pointer[h]) = Target(h)

\* A trampoline of a region is free, or in use for one hook, in reach of its
\* function and of where its code leads.
TrampolinesAccounted ==
    LET queued == {operations[i].slot : i \in {j \in DOMAIN operations : ~operations[j].isRemove}}
        used == queued \cup ({pointer[h] : h \in HookVar} \cap Slots)
    IN  /\ {s \in Slots : trampoline[s] # Blank} = used
        /\ \A s \in used : LET tr == trampoline[s]
                           IN  /\ s[1] \in Range(regions)
                               /\ s[1] - AddressOf[tr.fn] \in -Far..Far
                               /\ tr.code = Own \/ s[1] - tr.code[1] \in -Far..Far
        /\ \A r \in Range(regions) :
              /\ IsInjective(pFree[r])
              /\ Range(pFree[r]) = {i \in Indices : trampoline[<<r, i>>] = Blank}

\* Nothing stays writable, queued or suspended behind a transaction; within it,
\* what is to be written can be.
TransactionsLeaveNothing ==
    /\ pendingThread = NoOne =>
          /\ operations = <<>> /\ threads = <<>> /\ writable = {}
          /\ \A p \in DOMAIN perm : ~perm[p]
          /\ \A t \in Other : suspended[t] = 0
    /\ pendingThread # NoOne /\ ~pendingError => Range(regions) \subseteq writable
    /\ \A i \in DOMAIN operations : perm[PageOf[operations[i].fn]]

\* A thread in code that was moved is at the instruction it was at.
ThreadsGoOn ==
    \A t \in Other :
        LET e == eip[t]
            k == executed[t]
        IN  \/ e = Nowhere
            \/ e.in \in Fn /\ e.off = Total(Code[e.in], k) /\ IsCode(e.in, k)
            \/ e.in \in Slots /\ trampoline[e.in] # Blank /\ e.off = TotalCopy(trampoline[e.in].moved, k)

\* A commit returns an error exactly if it has changed nothing.
CommitsTellTrue == \A u \in User : commits[u] # "back" => pendingError = (commits[u] = "failed")

HooksInPlace ==
    HooksChain /\ TrampolinesAccounted /\ TransactionsLeaveNothing /\ ThreadsGoOn /\ CommitsTellTrue
=============================================================================
