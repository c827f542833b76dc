----------------------------- MODULE HookProofs -----------------------------
(***************************************************************************)
(* The hooks, for any coroutines, threads, descriptors and descriptions,   *)
(* of programs that take no liberties with their descriptors; and time in  *)
(* a scheduler, where the hooked calls that sleep or poll end.             *)
(***************************************************************************)
EXTENDS Hook, Timers, SequenceTheorems, WellFoundedInduction, TLAPS

\* What the hooks ask of a program.
Tame == Liberties = {}

-----------------------------------------------------------------------------
(***************************************************************************)
(* Types                                                                   *)
(***************************************************************************)
Apis0 == Transfers \cup {"none", "connect", "poll", "select", "epoll_wait"}
Place == Idle \cup {"direct", "mark", "try", "stuck", "block", "wait", "connecting", "restore", "look"}
OpType == [api : Apis0, fd : Fd \cup {None}, dir : Dir, timed : BOOLEAN]
CtxType == [so : BOOLEAN, nb : BOOLEAN, mark : BOOLEAN, flags : SUBSET Dir, timeout : SUBSET Dir]

KernelTypes ==
    /\ file \in [Fd -> Desc \cup {None}]
    /\ kind \in [Desc -> {"sock", "epoll"}]
    /\ knb \subseteq Desc /\ asked \subseteq Desc
    /\ ready \in [Desc -> SUBSET Dir] /\ shut \in [Desc -> SUBSET Dir]

ContextTypes == ctx \in [Fd -> CtxType] /\ reg \in [Fd -> [Dir -> Caller \cup {None}]]
CallTypes == pc \in [Caller -> Place] /\ op \in [Caller -> OpType]

LEMMA TestIsBoolean == ASSUME NEW a, NEW S PROVE (a \in S) \in BOOLEAN
  BY SMT

LEMMA TypesAre == TypeOK <=> KernelTypes /\ ContextTypes /\ CallTypes
  BY DEF TypeOK, KernelTypes, ContextTypes, CallTypes, Place, OpType, CtxType, Apis0

LEMMA TypesAreNext == TypeOK' <=> KernelTypes' /\ ContextTypes' /\ CallTypes'
  BY TypesAre, PTL

LEMMA BlankType == Blank \in CtxType /\ Nobody \in [Dir -> Caller \cup {None}] /\ NoOp \in OpType
  BY DEF Blank, CtxType, Nobody, NoOp, OpType, Apis0, Dir

LEMMA TypesAtFirst == Init => TypeOK
  <1> SUFFICES ASSUME Init PROVE KernelTypes /\ ContextTypes /\ CallTypes
    BY TypesAre
  <1> QED
    BY BlankType DEF Init, KernelTypes, ContextTypes, CallTypes, Place, Idle

LEMMA OpensTypes ==
    ASSUME KernelTypes, NEW f \in Fd, NEW e \in Desc, NEW k \in {"sock", "epoll"}, NEW nb \in BOOLEAN,
           Opens(f, e, k, nb)
    PROVE  KernelTypes'
  BY DEF Opens, KernelTypes, Dir

LEMMA RefersTypes ==
    ASSUME KernelTypes, NEW g \in Fd, NEW e \in Desc \cup {None}, Refers(g, e)
    PROVE  KernelTypes'
  BY DEF Refers, KernelTypes, Dir

LEMMA CreatedTypes ==
    ASSUME NEW x \in CtxType, NEW nb \in BOOLEAN, NEW four \in BOOLEAN, NEW how \in SUBSET Dir
    PROVE  /\ Created(x, nb) \in CtxType /\ Accepted(x, four, nb) \in CtxType
           /\ SetNonBlocking(x, nb) \in CtxType /\ Shut(x, how) \in CtxType
  <1>1. [x EXCEPT !.so = TRUE] \in CtxType /\ [x EXCEPT !.nb = nb, !.mark = FALSE] \in CtxType
        /\ [x EXCEPT !.flags = @ \cup how] \in CtxType
    BY DEF CtxType
  <1>2. \A y \in CtxType : [y EXCEPT !.nb = nb, !.mark = FALSE] \in CtxType
    BY DEF CtxType
  <1>3. SetNonBlocking(x, nb) \in CtxType /\ Shut(x, how) \in CtxType
    BY <1>1, BlankType DEF SetNonBlocking, Shut
  <1>4. Created(x, nb) \in CtxType /\ Accepted(x, four, nb) \in CtxType
    BY <1>1, <1>2 DEF SetNonBlocking, Created, Accepted
  <1> QED
    BY <1>3, <1>4

ProgramStep ==
    \/ Program
    \/ \E e \in Desc, d \in Dir : Arrive(e, d)

LEMMA ProgramTypes == ASSUME TypeOK, ProgramStep PROVE TypeOK'
  <1> SUFFICES KernelTypes' /\ ContextTypes' /\ CallTypes'
    BY TypesAreNext
  <1>0. KernelTypes /\ ContextTypes /\ CallTypes
    BY TypesAre
  <1>1. ASSUME NEW f \in Fd, NEW nb \in BOOLEAN, Socket(f, nb) PROVE KernelTypes' /\ ContextTypes' /\ CallTypes'
    BY <1>0, <1>1, OpensTypes, CreatedTypes DEF Socket, ContextTypes, CallTypes
  <1>2. ASSUME NEW f \in Fd, NEW nb \in BOOLEAN, SetMode(f, nb) PROVE KernelTypes' /\ ContextTypes' /\ CallTypes'
    <2>1. file[f] \in Desc
      BY <1>0, <1>2 DEF SetMode, Usable, Open, KernelTypes
    <2>2. ContextTypes'
      BY <1>0, <1>2, CreatedTypes DEF SetMode, ContextTypes
    <2>3. KernelTypes' /\ CallTypes'
      BY <1>0, <1>2, <2>1 DEF SetMode, KernelTypes, CallTypes
    <2> QED
      BY <2>2, <2>3
  <1>3. ASSUME NEW f \in Fd, EpollCreate(f) PROVE KernelTypes' /\ ContextTypes' /\ CallTypes'
    BY <1>0, <1>3, OpensTypes DEF EpollCreate, ContextTypes, CallTypes
  <1>4. ASSUME NEW f \in Fd, Close(f) PROVE KernelTypes' /\ ContextTypes' /\ CallTypes'
    BY <1>0, <1>4, RefersTypes, BlankType DEF Close, ContextTypes, CallTypes
  <1>5. ASSUME NEW f \in Fd, NEW g \in Fd, Dup(f, g) \/ Dup2(f, g) PROVE KernelTypes' /\ ContextTypes' /\ CallTypes'
    <2>1. file[f] \in Desc \cup {None}
      BY <1>0 DEF KernelTypes
    <2> QED
      BY <1>0, <1>5, <2>1, RefersTypes DEF Dup, Dup2, ContextTypes, CallTypes
  <1>6. ASSUME NEW f \in Fd, NEW d \in Dir, NEW on \in BOOLEAN, SetTimeout(f, d, on)
        PROVE KernelTypes' /\ ContextTypes' /\ CallTypes'
    <2>1. ctx' \in [Fd -> CtxType]
      <3>1. \A x \in CtxType, e \in SUBSET Dir : [x EXCEPT !.timeout = e] \in CtxType
        BY DEF CtxType
      <3>2. ctx[f].timeout \in SUBSET Dir
        BY <1>0 DEF ContextTypes, CtxType
      <3>3. PICK e \in SUBSET Dir : ctx' = [ctx EXCEPT ![f].timeout = e]
        BY <1>6, <3>2 DEF SetTimeout
      <3> QED
        BY <1>0, <3>1, <3>3 DEF ContextTypes
    <2> QED
      BY <1>0, <1>6, <2>1 DEF SetTimeout, KernelTypes, ContextTypes, CallTypes, kernelVars
  <1>7. ASSUME NEW f \in Fd, NEW how \in SUBSET Dir, Shutdown(f, how)
        PROVE KernelTypes' /\ ContextTypes' /\ CallTypes'
    <2>1. ctx' \in [Fd -> CtxType]
      BY <1>0, <1>7, CreatedTypes DEF Shutdown, ContextTypes
    <2>2. reg' \in [Fd -> [Dir -> Caller \cup {None}]]
      BY <1>0, <1>7 DEF Shutdown, ContextTypes
    <2>3. KernelTypes' /\ CallTypes'
      BY <1>0, <1>7 DEF Shutdown, KernelTypes, CallTypes
    <2> QED
      BY <2>1, <2>2, <2>3 DEF ContextTypes
  <1>8. ASSUME NEW e \in Desc, NEW d \in Dir, Arrive(e, d) PROVE KernelTypes' /\ ContextTypes' /\ CallTypes'
    BY <1>0, <1>8 DEF Arrive, KernelTypes, ContextTypes, CallTypes
  <1> QED
    BY <1>1, <1>2, <1>3, <1>4, <1>5, <1>6, <1>7, <1>8, HookAssumption DEF ProgramStep, Program, Dir

LEMMA GoesIs ==
    ASSUME CallTypes, NEW c \in Caller, NEW p \in Place, Goes(c, p)
    PROVE  /\ CallTypes'
           /\ pc'[c] = p /\ op'[c] = IF p \in Idle THEN NoOp ELSE op[c]
           /\ \A b \in Caller : b # c => pc'[b] = pc[b] /\ op'[b] = op[b]
  BY BlankType DEF Goes, CallTypes

LEMMA CallsIs ==
    ASSUME CallTypes, NEW c \in Caller, NEW api \in Apis0, NEW f \in Fd, NEW d \in Dir, NEW timed \in BOOLEAN,
           NEW p \in Place, Calls(c, api, f, d, timed, p)
    PROVE  /\ CallTypes'
           /\ pc'[c] = p /\ op'[c] = [api |-> api, fd |-> f, dir |-> d, timed |-> timed]
           /\ \A b \in Caller : b # c => pc'[b] = pc[b] /\ op'[b] = op[b]
  BY DEF Calls, CallTypes, OpType

LEMMA LeaveTypes ==
    ASSUME ContextTypes, NEW c \in Caller, Leave(c)
    PROVE  reg' \in [Fd -> [Dir -> Caller \cup {None}]]
  BY DEF ContextTypes, Leave, DelEv

LEMMA BeginTypes == ASSUME TypeOK, NEW c \in Caller, Begin(c) PROVE TypeOK'
  <1> SUFFICES KernelTypes' /\ ContextTypes' /\ CallTypes'
    BY TypesAreNext
  <1>0. KernelTypes /\ ContextTypes /\ CallTypes
    BY TypesAre
  <1>1. \A p : p \in {"direct", "mark", "try", "connecting", "block", "look"} => p \in Place
    BY DEF Place
  <1>2. ASSUME NEW f \in Fd, NEW d \in Dir, NEW api \in Transfers \cup {"connect"}, BeginDirect(c, api, f, d)
        PROVE KernelTypes' /\ ContextTypes' /\ CallTypes'
    <2>1. Calls(c, api, f, d, FALSE, "direct") /\ api \in Apis0
      BY <1>2 DEF BeginDirect, Apis0
    <2>2. CallTypes'
      BY <1>0, <1>1, <2>1, CallsIs
    <2> QED
      BY <1>0, <1>2, <2>2 DEF BeginDirect, kernelVars, KernelTypes, ContextTypes
  <1>3. ASSUME NEW f \in Fd, NEW d \in Dir, NEW api \in Transfers, BeginTransfer(c, api, f, d)
        PROVE KernelTypes' /\ ContextTypes' /\ CallTypes'
    <2>1. Calls(c, api, f, d, FALSE, "try") \/ Calls(c, api, f, d, FALSE, "mark")
      BY <1>3 DEF BeginTransfer
    <2>2. CallTypes'
      BY <1>0, <1>1, <2>1, CallsIs DEF Apis0
    <2>3. file[f] \in Desc
      BY <1>0, <2>1 DEF Calls, Fits, Usable, Open, KernelTypes
    <2> QED
      BY <1>0, <1>3, <2>2, <2>3 DEF BeginTransfer, KernelTypes, ContextTypes
  <1>4. ASSUME NEW f \in Fd, BeginConnect(c, f) PROVE KernelTypes' /\ ContextTypes' /\ CallTypes'
    <2>1. Calls(c, "connect", f, "w", "w" \in ctx[f].timeout, "connecting") /\ "connect" \in Apis0 /\ "w" \in Dir
      BY <1>4 DEF BeginConnect, Apis0, Dir
    <2>4. ("w" \in ctx[f].timeout) \in BOOLEAN
      BY ONLY TestIsBoolean
    <2>2. CallTypes'
      BY <1>0, <1>1, <2>1, <2>4, CallsIs
    <2>3. file[f] \in Desc
      BY <1>0, <2>1 DEF Calls, Fits, Usable, Open, KernelTypes
    <2> QED
      BY <1>0, <1>4, <2>2, <2>3 DEF BeginConnect, KernelTypes, ContextTypes
  <1>5. ASSUME NEW f \in Fd, NEW d \in Dir, NEW timed \in BOOLEAN, NEW api \in {"poll", "epoll_wait"},
               BeginWait(c, api, f, d, timed)
        PROVE KernelTypes' /\ ContextTypes' /\ CallTypes'
    <2>1. Calls(c, api, f, d, timed, "block") /\ api \in Apis0
      BY <1>5 DEF BeginWait, Apis0
    <2>2. CallTypes'
      BY <1>0, <1>1, <2>1, CallsIs
    <2> QED
      BY <1>0, <1>5, <2>2 DEF BeginWait, kernelVars, KernelTypes, ContextTypes
  <1>6. ASSUME NEW f \in Fd, NEW d \in Dir, NEW timed \in BOOLEAN, BeginLook(c, f, d, timed)
        PROVE KernelTypes' /\ ContextTypes' /\ CallTypes'
    <2>1. Calls(c, "select", f, d, timed, "look") /\ "select" \in Apis0
      BY <1>6 DEF BeginLook, Apis0
    <2>2. CallTypes'
      BY <1>0, <1>1, <2>1, CallsIs
    <2> QED
      BY <1>0, <1>6, <2>2 DEF BeginLook, kernelVars, KernelTypes, ContextTypes
  <1> QED
    BY <1>2, <1>3, <1>4, <1>5, <1>6 DEF Begin

LEMMA StepTypes == ASSUME TypeOK, NEW c \in Caller, Step(c) PROVE TypeOK'
  <1> SUFFICES KernelTypes' /\ ContextTypes' /\ CallTypes'
    BY TypesAreNext
  <1>0. KernelTypes /\ ContextTypes /\ CallTypes
    BY TypesAre
  <1>1. \A p : p \in {"idle", "EAGAIN", "try", "restore", "block", "look", "stuck", "wait"} => p \in Place
    BY DEF Place, Idle
  <1>2. CASE Mark(c)
    <2>1. ctx' \in [Fd -> CtxType]
      <3>1. \A x \in CtxType : [x EXCEPT !.mark = TRUE] \in CtxType
        BY DEF CtxType
      <3>2. ctx' = [ctx EXCEPT ![op[c].fd].mark = TRUE]
        BY <1>2 DEF Mark
      <3> QED
        BY <1>0, <3>1, <3>2 DEF ContextTypes
    <2>2. CallTypes'
      BY <1>0, <1>1, <1>2, GoesIs DEF Mark
    <2> QED
      BY <1>0, <1>2, <2>1, <2>2 DEF Mark, kernelVars, KernelTypes, ContextTypes
  <1>3. CASE ConnectCall(c) \/ Look(c) \/ Again(c) \/ BlockFails(c)
    <2>1. \E p \in Place : Goes(c, p)
      BY <1>1, <1>3 DEF ConnectCall, Look, Again, BlockFails
    <2>2. CallTypes'
      BY <1>0, <2>1, GoesIs
    <2>3. UNCHANGED <<kernelVars, ctx, reg, asked>>
      BY <1>3 DEF ConnectCall, Look, Again, BlockFails
    <2> QED
      BY <1>0, <2>2, <2>3 DEF kernelVars, KernelTypes, ContextTypes
  <1>4. CASE Restore(c)
    <2>1. CallTypes'
      BY <1>0, <1>1, <1>4, GoesIs DEF Restore
    <2> QED
      BY <1>0, <1>4, <2>1 DEF Restore, KernelTypes, ContextTypes
  <1>5. CASE TransferDone(c)
    <2>1. CallTypes'
      BY <1>0, <1>1, <1>5, GoesIs DEF TransferDone
    <2>2. reg' \in [Fd -> [Dir -> Caller \cup {None}]]
      BY <1>0, <1>5, LeaveTypes DEF TransferDone
    <2>3. ready' \in [Desc -> SUBSET Dir]
      <3> DEFINE e == file[op[c].fd]
                 d == op[c].dir
      <3>1. PICK r \in {ready[e], (ready[e] \ {d}) \cup (shut[e] \cap {d})} : ready' = [ready EXCEPT ![e] = r]
        BY <1>5 DEF TransferDone, Moves
      <3> HIDE DEF d
      <3>2. e \in Desc => r \in SUBSET Dir
        BY <1>0, <3>1 DEF KernelTypes
      <3> HIDE DEF e
      <3> QED
        BY <1>0, <3>1, <3>2 DEF KernelTypes
    <2> QED
      BY <1>0, <1>5, <2>1, <2>2, <2>3 DEF TransferDone, KernelTypes, ContextTypes
  <1>6. CASE Block(c)
    <2>1. reg' \in [Fd -> [Dir -> Caller \cup {None}]]
      BY <1>0, <1>6 DEF Block, ContextTypes
    <2>2. TimedNow(c) \in BOOLEAN
      <3>1. op[c].timed \in BOOLEAN
        BY <1>0 DEF CallTypes, OpType
      <3>2. (op[c].dir \in ctx[op[c].fd].timeout) \in BOOLEAN
        BY ONLY TestIsBoolean
      <3> QED
        BY <3>1, <3>2, Zenon DEF TimedNow
    <2>3. CallTypes'
      BY <1>0, <1>1, <1>6, <2>2 DEF Block, CallTypes, OpType
    <2> QED
      BY <1>0, <1>6, <2>1, <2>3 DEF Block, kernelVars, KernelTypes, ContextTypes
  <1>7. CASE Wake(c) \/ TimeOut(c)
    <2>1. PICK how \in {"event", "timeout"} : Resumes(c, how)
      BY <1>7 DEF Wake, TimeOut
    <2>2. \E p \in Place : Goes(c, p)
      BY <1>1, <2>1 DEF Resumes
    <2>3. CallTypes'
      BY <1>0, <2>2, GoesIs
    <2>4. reg' \in [Fd -> [Dir -> Caller \cup {None}]]
      <3>1. CASE Leave(c)
        BY <1>0, <3>1, LeaveTypes
      <3>2. CASE UNCHANGED reg
        BY <1>0, <3>2 DEF ContextTypes
      <3>3. CASE reg' = [reg EXCEPT ![op[c].fd] = Nobody]
        BY <1>0, <3>3, BlankType DEF ContextTypes
      <3> QED
        BY <2>1, <3>1, <3>2, <3>3 DEF Resumes
    <2> QED
      BY <1>0, <2>1, <2>3, <2>4 DEF Resumes, kernelVars, KernelTypes, ContextTypes
  <1>8. ASSUME NEW g \in Fd, NEW four \in BOOLEAN, NEW nb \in BOOLEAN, AcceptDone(c, g, four, nb)
        PROVE KernelTypes' /\ ContextTypes' /\ CallTypes'
    <2>1. CallTypes'
      BY <1>0, <1>1, <1>8, GoesIs DEF AcceptDone
    <2>2. reg' \in [Fd -> [Dir -> Caller \cup {None}]]
      BY <1>0, <1>8, LeaveTypes DEF AcceptDone
    <2>3. ctx' \in [Fd -> CtxType]
      BY <1>0, <1>8, CreatedTypes DEF AcceptDone, ContextTypes
    <2>4. KernelTypes'
      BY <1>0, <1>8, OpensTypes DEF AcceptDone
    <2> QED
      BY <2>1, <2>2, <2>3, <2>4 DEF ContextTypes
  <1> QED
    BY <1>2, <1>3, <1>4, <1>5, <1>6, <1>7, <1>8 DEF Step

LEMMA TypesKept == TypeOK /\ [Next]_vars => TypeOK'
  <1> SUFFICES ASSUME TypeOK, [Next]_vars PROVE TypeOK'
    OBVIOUS
  <1>1. CASE UNCHANGED vars
    BY <1>1 DEF vars, kernelVars, TypeOK
  <1>2. CASE Next
    BY <1>2, ProgramTypes, BeginTypes, StepTypes DEF Next, ProgramStep
  <1> QED
    BY <1>1, <1>2

\* Every variable of the hooks keeps its type.
THEOREM TypeCorrect == Spec => []TypeOK
  BY TypesAtFirst, TypesKept, PTL DEF Spec

-----------------------------------------------------------------------------
(***************************************************************************)
(* The inductive invariant                                                 *)
(***************************************************************************)
\* The calls that transfer or connect, and where those are that the hooks keep
\* from blocking.
Moving == Transfers \cup {"connect"}
Steps == {"mark", "try", "block", "wait", "connecting", "restore"}

Calling(c) == pc[c] \notin Idle
Hooked(c) == pc[c] \in Steps /\ op[c].api \in Moving
Target(c) == file[op[c].fd]

\* HookCtx of a descriptor, and the description it refers to.
ContextOK(f) ==
    /\ ~Open(f) => ctx[f] = Blank
    /\ Open(f) =>
          /\ ctx[f].so => kind[file[f]] = "sock" /\ (file[f] \in asked => ctx[f].nb)
          /\ ~ctx[f].so => ctx[f] = Blank /\ (kind[file[f]] = "sock" => shut[file[f]] = Dir)
          /\ ctx[f].flags \subseteq shut[file[f]]
          /\ ctx[f].nb => file[f] \in knb /\ file[f] \in asked
          /\ ctx[f].mark => file[f] \in knb

Contexts == \A f \in Fd : ContextOK(f)

\* Where a call is, and on what.
PlaceOK(c) ==
    Calling(c) =>
       /\ op[c].fd \in Fd /\ Open(op[c].fd)
       /\ pc[c] = "stuck" => c \notin Co
       /\ c \notin Co => pc[c] \in {"direct", "stuck"}
       /\ pc[c] = "direct" => op[c].api \in Moving
       /\ pc[c] \in {"mark", "try"} => op[c].api \in Transfers
       /\ pc[c] \in {"connecting", "restore"} => op[c].api = "connect"

Placed == \A c \in Caller : PlaceOK(c)

\* The mode of what a call is on: a hooked one works on a description that the
\* program takes for blocking and that is not.
ModeOK(c) ==
    /\ Hooked(c) => Target(c) \in knb /\ Target(c) \notin asked
    /\ pc[c] = "direct" =>
          (Target(c) \in knb => Target(c) \in asked) /\ (c \in Co => Target(c) \in knb)

Modes == \A c \in Caller : ModeOK(c)

\* The descriptor that is marked is a socket's, and no descriptor is that a
\* connect() works on, which takes O_NONBLOCK back at its end.
MarkOK(c) ==
    Hooked(c) =>
       /\ pc[c] = "mark" => ctx[op[c].fd].so
       /\ op[c].api = "connect" => \A g \in Fd : file[g] = Target(c) => ~ctx[g].mark

Marks == \A c \in Caller : MarkOK(c)

\* Calls on one description.
Apart ==
    \A b, c \in Caller : b # c /\ Calling(b) /\ Calling(c) /\ Target(b) = Target(c) =>
       /\ op[b].dir # op[c].dir
       /\ op[b].api \notin {"connect", "poll"}
       /\ b \in Co <=> c \in Co

\* Who is registered is in a call that waits, and who waits is registered.
RegOK(f, d) ==
    reg[f][d] # None =>
       /\ pc[reg[f][d]] \in {"try", "block", "wait"}
       /\ op[reg[f][d]].fd = f /\ op[reg[f][d]].dir = d

Registered == (\A f \in Fd, d \in Dir : RegOK(f, d)) /\ WaitersRegistered

Inv == TypeOK /\ Contexts /\ Placed /\ Modes /\ Marks /\ Apart /\ Registered

-----------------------------------------------------------------------------
(***************************************************************************)
(* What the program does with its descriptors leaves calls alone.          *)
(***************************************************************************)
CallsLeftAlone ==
    /\ UNCHANGED <<pc, op>>
    /\ \A c \in Caller : Calling(c) =>
          /\ file'[op[c].fd] = file[op[c].fd]
          /\ Target(c) \in knb' <=> Target(c) \in knb
          /\ Target(c) \in asked' <=> Target(c) \in asked
          /\ reg'[op[c].fd] = reg[op[c].fd]
          /\ ctx[op[c].fd].so => ctx'[op[c].fd].so
          /\ \A g \in Fd : file'[g] = Target(c) =>
                file[g] = Target(c) /\ (ctx'[g].mark => ctx[g].mark)
    /\ \A f \in Fd, d \in Dir : reg'[f][d] \in {reg[f][d], None}

LEMMA HookedIsCalling == ASSUME NEW c, Hooked(c) PROVE Calling(c)
  BY DEF Hooked, Calling, Steps, Idle

LEMMA RegisteredIs ==
    ASSUME Inv, NEW f \in Fd, NEW d \in Dir, reg[f][d] # None
    PROVE  reg[f][d] \in Caller /\ Calling(reg[f][d])
  BY DEF Inv, TypeOK, Registered, RegOK, Calling, Idle

LEMMA CallsKept ==
    ASSUME Inv, CallsLeftAlone
    PROVE  Placed' /\ Modes' /\ Marks' /\ Apart' /\ Registered'
  <1>1. \A c \in Caller : Calling(c)' = Calling(c) /\ Hooked(c)' = Hooked(c)
    BY DEF CallsLeftAlone, Calling, Hooked
  <1>2. \A c \in Caller : Calling(c) => Target(c)' = Target(c) /\ op[c].fd \in Fd /\ Open(op[c].fd)
    BY DEF CallsLeftAlone, Inv, Placed, PlaceOK, Target
  <1>3. ASSUME NEW c \in Caller PROVE PlaceOK(c)'
    BY <1>1, <1>2 DEF CallsLeftAlone, Inv, Placed, PlaceOK, Open
  <1>4. ASSUME NEW c \in Caller PROVE ModeOK(c)'
    <2>1. pc[c] = "direct" => Calling(c)
      BY DEF Calling, Idle
    <2> QED
      BY <1>1, <1>2, <2>1, HookedIsCalling DEF CallsLeftAlone, Inv, Modes, ModeOK
  <1>5. ASSUME NEW c \in Caller PROVE MarkOK(c)'
    BY <1>1, <1>2, HookedIsCalling DEF CallsLeftAlone, Inv, Marks, MarkOK
  <1>6. Apart'
    BY <1>1, <1>2 DEF CallsLeftAlone, Inv, Apart
  <1>7. ASSUME NEW f \in Fd, NEW d \in Dir PROVE RegOK(f, d)'
    <2>1. reg'[f][d] # None => reg'[f][d] = reg[f][d]
      BY DEF CallsLeftAlone
    <2> QED
      BY <2>1 DEF CallsLeftAlone, Inv, Registered, RegOK
  <1>8. WaitersRegistered'
    <2> SUFFICES ASSUME NEW c \in Caller, pc'[c] = "wait" PROVE reg'[op'[c].fd][op'[c].dir] = c
      BY DEF WaitersRegistered
    <2>1. pc[c] = "wait" /\ op'[c] = op[c] /\ Calling(c)
      BY DEF CallsLeftAlone, Calling, Idle
    <2> QED
      BY <2>1 DEF CallsLeftAlone, Inv, Registered, WaitersRegistered
  <1> QED
    BY <1>3, <1>4, <1>5, <1>6, <1>7, <1>8 DEF Placed, Modes, Marks, Registered

\* A descriptor whose HookCtx and description are as those of another one were.
LEMMA ContextCopied ==
    ASSUME Contexts, NEW f \in Fd, NEW h \in Fd, Open(h),
           file'[f] = file[h], ctx'[f] = ctx[h],
           kind'[file[h]] = kind[file[h]], shut'[file[h]] = shut[file[h]],
           file[h] \in knb' <=> file[h] \in knb, file[h] \in asked' <=> file[h] \in asked
    PROVE  ContextOK(f)'
  BY DEF Contexts, ContextOK, Open

LEMMA ContextClosed ==
    ASSUME NEW f \in Fd, file'[f] = None, ctx'[f] = Blank
    PROVE  ContextOK(f)'
  BY DEF ContextOK, Open

\* Nothing happens to a descriptor.
LEMMA ContextUnmoved ==
    ASSUME Contexts, NEW f \in Fd, file'[f] = file[f], ctx'[f] = ctx[f],
           Open(f) => /\ kind'[file[f]] = kind[file[f]] /\ shut'[file[f]] = shut[file[f]]
                      /\ file[f] \in knb' <=> file[f] \in knb
                      /\ file[f] \in asked' <=> file[f] \in asked
    PROVE  ContextOK(f)'
  BY DEF Contexts, ContextOK, Open

LEMMA Elsewhere ==
    ASSUME Inv, NEW e, ~InUse(e), NEW c \in Caller, Calling(c)
    PROVE  Target(c) # e
  BY DEF Inv, Placed, PlaceOK, InUse, Fds, In, Calling, Target

LEMMA TypeFacts ==
    ASSUME Inv
    PROVE  KernelTypes /\ ContextTypes /\ CallTypes
  BY TypesAre DEF Inv

\* A new description: nobody is in its descriptors, and what it was is forgotten.
LEMMA OpensIs ==
    ASSUME Inv, NEW f \in Fd, NEW e \in Desc, NEW k \in {"sock", "epoll"}, NEW nb \in BOOLEAN,
           Opens(f, e, k, nb)
    PROVE  /\ ~Open(f) /\ ctx[f] = Blank
           /\ file'[f] = e /\ kind'[e] = k /\ shut'[e] = {}
           /\ e \in knb' <=> nb
           /\ e \in asked' <=> nb
           /\ \A g \in Fd : g # f => file'[g] = file[g] /\ file[g] # e
           /\ \A x : x # e => /\ kind'[x] = kind[x] /\ shut'[x] = shut[x]
                              /\ x \in knb' <=> x \in knb
                              /\ x \in asked' <=> x \in asked
           /\ \A c \in Caller : Calling(c) => op[c].fd # f /\ Target(c) # e
  <1>0. KernelTypes
    BY TypeFacts
  <1>1. ~Open(f) /\ \A g \in Fd : file[g] # e
    BY DEF Opens, Fds
  <1>2. ctx[f] = Blank
    BY <1>1 DEF Inv, Contexts, ContextOK
  <1>3. file' = [file EXCEPT ![f] = e] /\ kind' = [kind EXCEPT ![e] = k] /\ shut' = [shut EXCEPT ![e] = {}]
        /\ knb' = (IF nb THEN knb \cup {e} ELSE knb \ {e}) /\ asked' = (IF nb THEN asked \cup {e} ELSE asked \ {e})
    BY DEF Opens
  <1>4. \A c \in Caller : Calling(c) => op[c].fd # f /\ Target(c) # e
    BY <1>1 DEF Inv, Placed, PlaceOK, Target
  <1>5. \A g \in Fd : g # f => file'[g] = file[g] /\ file[g] # e
    BY <1>0, <1>1, <1>3 DEF KernelTypes
  <1>6. \A x : x # e => /\ kind'[x] = kind[x] /\ shut'[x] = shut[x]
                        /\ x \in knb' <=> x \in knb
                        /\ x \in asked' <=> x \in asked
    BY <1>0, <1>3 DEF KernelTypes
  <1>7. file'[f] = e /\ kind'[e] = k /\ shut'[e] = {} /\ (e \in knb' <=> nb) /\ (e \in asked' <=> nb)
    BY <1>0, <1>3 DEF KernelTypes
  <1> QED
    BY <1>1, <1>2, <1>4, <1>5, <1>6, <1>7

\* The descriptor g refers to e now: what other descriptors refer to stays.
LEMMA RefersIs ==
    ASSUME Inv, NEW g \in Fd, NEW e \in Desc \cup {None}, Refers(g, e)
    PROVE  /\ file'[g] = e
           /\ \A h \in Fd : h # g => file'[h] = file[h]
           /\ \A x \in Desc : x = e \/ (\E h \in Fd : h # g /\ file[h] = x) =>
                 /\ kind'[x] = kind[x] /\ shut'[x] = shut[x]
                 /\ x \in knb' <=> x \in knb
                 /\ x \in asked' <=> x \in asked
  <1>0. KernelTypes
    BY TypeFacts
  <1> DEFINE gone == {x \in Desc : Fds(x) = {g} /\ x # e}
  <1>1. /\ file' = [file EXCEPT ![g] = e]
        /\ knb' = knb \ gone /\ asked' = asked \ gone
        /\ shut' = [x \in Desc |-> IF x \in gone THEN {} ELSE shut[x]]
        /\ kind' = [x \in Desc |-> IF x \in gone THEN "sock" ELSE kind[x]]
    BY DEF Refers
  <1>2. ASSUME NEW x \in Desc, x = e \/ (\E h \in Fd : h # g /\ file[h] = x) PROVE x \notin gone
    BY <1>2 DEF Fds
  <1> HIDE DEF gone
  <1> QED
    BY <1>0, <1>1, <1>2 DEF KernelTypes

\* What a call is on does not depend on descriptors no call is on.
LEMMA TargetStays ==
    ASSUME Inv, NEW g \in Fd, \A c \in Caller : ~In(c, g), NEW e \in Desc \cup {None}, Refers(g, e),
           NEW c \in Caller, Calling(c)
    PROVE  /\ op[c].fd \in Fd /\ op[c].fd # g /\ Target(c) \in Desc
           /\ file'[op[c].fd] = file[op[c].fd]
           /\ Target(c) \in knb' <=> Target(c) \in knb
           /\ Target(c) \in asked' <=> Target(c) \in asked
  <1>1. op[c].fd \in Fd /\ op[c].fd # g /\ Target(c) \in Desc /\ file[op[c].fd] = Target(c)
    BY TypeFacts DEF Inv, Placed, PlaceOK, In, Calling, Target, Open, KernelTypes
  <1> QED
    BY <1>1, RefersIs

LEMMA BlankContext ==
    ASSUME NEW f \in Fd, ctx'[f] = Blank,
           Open(f)' /\ kind'[file'[f]] = "sock" => shut'[file'[f]] = Dir
    PROVE  ContextOK(f)'
  BY DEF ContextOK, Blank

\* socket() and the like.
LEMMA SocketKeeps ==
    ASSUME Inv, NEW f \in Fd, NEW nb \in BOOLEAN, Socket(f, nb)
    PROVE  CallsLeftAlone /\ Contexts'
  <1>0. KernelTypes /\ ContextTypes
    BY TypeFacts
  <1>1. PICK e \in Desc : Opens(f, e, "sock", nb)
    BY DEF Socket
  <1>2. /\ ctx' = [ctx EXCEPT ![f] = Created(ctx[f], nb)] /\ UNCHANGED <<reg, pc, op>>
    BY DEF Socket
  <1>3. /\ ~Open(f) /\ ctx[f] = Blank
        /\ file'[f] = e /\ kind'[e] = "sock" /\ shut'[e] = {}
        /\ e \in knb' <=> nb
        /\ e \in asked' <=> nb
        /\ \A g \in Fd : g # f => file'[g] = file[g] /\ file[g] # e
        /\ \A x : x # e => /\ kind'[x] = kind[x] /\ shut'[x] = shut[x]
                           /\ x \in knb' <=> x \in knb
                           /\ x \in asked' <=> x \in asked
        /\ \A c \in Caller : Calling(c) => op[c].fd # f /\ Target(c) # e
    BY <1>1, OpensIs
  <1>4. \A g \in Fd : g # f => ctx'[g] = ctx[g]
    BY <1>0, <1>2 DEF ContextTypes
  <1>5. CallsLeftAlone
    <2>1. \A c \in Caller : Calling(c) => op[c].fd \in Fd /\ file[op[c].fd] = Target(c)
      BY DEF Inv, Placed, PlaceOK, Target
    <2> QED
      BY <1>2, <1>3, <1>4, <2>1 DEF CallsLeftAlone
  <1>6. ContextOK(f)'
    <2>1. ctx'[f] = Created(Blank, nb)
      BY <1>0, <1>2, <1>3 DEF ContextTypes
    <2>2. ctx'[f].so /\ ctx'[f].flags = {} /\ ~ctx'[f].mark /\ (ctx'[f].nb <=> nb)
      BY <2>1 DEF Created, SetNonBlocking, Blank
    <2> QED
      BY <1>3, <2>2, HookAssumption DEF ContextOK, Open
  <1>7. ASSUME NEW g \in Fd, g # f PROVE ContextOK(g)'
    BY <1>3, <1>4, <1>7, ContextUnmoved DEF Inv
  <1> QED
    BY <1>5, <1>6, <1>7 DEF Contexts

LEMMA EpollCreateKeeps ==
    ASSUME Inv, NEW f \in Fd, EpollCreate(f)
    PROVE  CallsLeftAlone /\ Contexts'
  <1>1. PICK e \in Desc : Opens(f, e, "epoll", FALSE)
    BY DEF EpollCreate
  <1>2. UNCHANGED <<ctx, reg, pc, op>>
    BY DEF EpollCreate
  <1>3. /\ ~Open(f) /\ ctx[f] = Blank
        /\ file'[f] = e /\ kind'[e] = "epoll" /\ shut'[e] = {}
        /\ \A g \in Fd : g # f => file'[g] = file[g] /\ file[g] # e
        /\ \A x : x # e => /\ kind'[x] = kind[x] /\ shut'[x] = shut[x]
                           /\ x \in knb' <=> x \in knb
                           /\ x \in asked' <=> x \in asked
        /\ \A c \in Caller : Calling(c) => op[c].fd # f /\ Target(c) # e
    BY <1>1, OpensIs
  <1>5. CallsLeftAlone
    <2>1. \A c \in Caller : Calling(c) => op[c].fd \in Fd /\ file[op[c].fd] = Target(c)
      BY DEF Inv, Placed, PlaceOK, Target
    <2> QED
      BY <1>2, <1>3, <2>1 DEF CallsLeftAlone
  <1>6. ContextOK(f)'
    BY <1>2, <1>3, BlankContext
  <1>7. ASSUME NEW g \in Fd, g # f PROVE ContextOK(g)'
    BY <1>2, <1>3, <1>7, ContextUnmoved DEF Inv
  <1> QED
    BY <1>5, <1>6, <1>7 DEF Contexts

\* fcntl() and ioctl() set the mode of the only descriptor of a description.
LEMMA SetModeKeeps ==
    ASSUME Tame, Inv, NEW f \in Fd, NEW nb \in BOOLEAN, SetMode(f, nb)
    PROVE  CallsLeftAlone /\ Contexts'
  <1> DEFINE e == file[f]
  <1>0. KernelTypes /\ ContextTypes
    BY TypeFacts
  <1>1. /\ Open(f) /\ Fds(e) = {f} /\ ~InUse(e)
        /\ knb' = (IF nb THEN knb \cup {e} ELSE knb \ {e})
        /\ asked' = (IF nb THEN asked \cup {e} ELSE asked \ {e})
        /\ ctx' = IF ctx[f].so THEN [ctx EXCEPT ![f] = SetNonBlocking(@, nb)] ELSE ctx
        /\ UNCHANGED <<file, kind, ready, shut, reg, pc, op>>
    BY DEF SetMode, Usable, Tame
  <1>2. shut[e] # Dir
    BY DEF SetMode, Usable, Tame
  <1>3. \A g \in Fd : g # f => ctx'[g] = ctx[g] /\ file[g] # e
    BY <1>0, <1>1 DEF ContextTypes, Fds
  <1>4. CallsLeftAlone
    <2>1. \A c \in Caller : Calling(c) => Target(c) # e /\ op[c].fd # f
      BY <1>1, Elsewhere DEF Target
    <2>2. \A c \in Caller : Calling(c) => op[c].fd \in Fd /\ file[op[c].fd] = Target(c)
      BY DEF Inv, Placed, PlaceOK, Target
    <2>3. e = file[f]
      OBVIOUS
    <2> HIDE DEF e
    <2> QED
      BY <1>1, <1>3, <2>1, <2>2, <2>3 DEF CallsLeftAlone
  <1>5. ContextOK(f)'
    <2>1. ContextOK(f)
      BY DEF Inv, Contexts
    <2>2. CASE ctx[f].so
      <3>1. ctx'[f] = [ctx[f] EXCEPT !.nb = nb, !.mark = FALSE] /\ ctx[f] \in CtxType
        BY <1>0, <1>1, <2>2 DEF ContextTypes, SetNonBlocking
      <3>2. ctx'[f].so /\ (ctx'[f].nb <=> nb) /\ ~ctx'[f].mark /\ ctx'[f].flags = ctx[f].flags
        BY <2>2, <3>1 DEF CtxType
      <3> QED
        BY <1>1, <2>1, <2>2, <3>2 DEF ContextOK, Open
    <2>3. CASE ~ctx[f].so
      <3>1. ctx'[f] = Blank /\ kind[e] # "sock"
        BY <1>1, <1>2, <2>1, <2>3 DEF ContextOK
      <3> QED
        BY <1>1, <3>1, BlankContext
    <2> QED
      BY <2>2, <2>3
  <1>6. ASSUME NEW g \in Fd, g # f PROVE ContextOK(g)'
    <2>1. file'[g] = file[g] /\ ctx'[g] = ctx[g] /\ file[g] # e
      BY <1>1, <1>3, <1>6
    <2>2. /\ kind'[file[g]] = kind[file[g]] /\ shut'[file[g]] = shut[file[g]]
          /\ file[g] \in knb' <=> file[g] \in knb
          /\ file[g] \in asked' <=> file[g] \in asked
      BY <1>1, <2>1
    <2> QED
      BY <2>1, <2>2, ContextUnmoved DEF Inv
  <1> QED
    BY <1>4, <1>5, <1>6 DEF Contexts

\* dup(), dup2() and dup3() copy the HookCtx along with the description.
LEMMA DupKeeps ==
    ASSUME Inv, NEW f \in Fd, NEW g \in Fd, Open(f), f # g, ~InUse(file[f]),
           \A c \in Caller : ~In(c, g), Refers(g, file[f]),
           ctx' = [ctx EXCEPT ![g] = ctx[f]], UNCHANGED <<reg, pc, op>>
    PROVE  CallsLeftAlone /\ Contexts'
  <1> DEFINE e == file[f]
  <1>0. KernelTypes /\ ContextTypes /\ e \in Desc
    BY TypeFacts DEF KernelTypes, Open
  <1>1. /\ file'[g] = e
        /\ \A h \in Fd : h # g => file'[h] = file[h]
        /\ \A x \in Desc : x = e \/ (\E h \in Fd : h # g /\ file[h] = x) =>
              /\ kind'[x] = kind[x] /\ shut'[x] = shut[x]
              /\ x \in knb' <=> x \in knb
              /\ x \in asked' <=> x \in asked
    BY <1>0, RefersIs
  <1>2. ctx'[g] = ctx[f] /\ \A h \in Fd : h # g => ctx'[h] = ctx[h]
    BY <1>0 DEF ContextTypes
  <1>3. \A c \in Caller : Calling(c) =>
           /\ op[c].fd \in Fd /\ op[c].fd # g /\ Target(c) # e
           /\ file'[op[c].fd] = file[op[c].fd]
           /\ Target(c) \in knb' <=> Target(c) \in knb
           /\ Target(c) \in asked' <=> Target(c) \in asked
    BY <1>0, TargetStays, Elsewhere
  <1>4. CallsLeftAlone
    <2>1. ASSUME NEW c \in Caller, Calling(c), NEW h \in Fd, file'[h] = Target(c)
          PROVE  file[h] = Target(c) /\ (ctx'[h].mark => ctx[h].mark)
      BY <1>1, <1>2, <1>3, <2>1
    <2>2. \A c \in Caller : Calling(c) => ctx'[op[c].fd] = ctx[op[c].fd]
      BY <1>2, <1>3
    <2> HIDE DEF e
    <2> QED
      BY <1>3, <2>1, <2>2 DEF CallsLeftAlone
  <1>5. ContextOK(g)'
    BY <1>0, <1>1, <1>2, ContextCopied DEF Inv
  <1>6. ASSUME NEW h \in Fd, h # g PROVE ContextOK(h)'
    <2>1. Open(h) => file[h] \in Desc
      BY <1>0 DEF KernelTypes, Open
    <2>2. file'[h] = file[h] /\ ctx'[h] = ctx[h]
      BY <1>1, <1>2, <1>6
    <2>3. Open(h) => /\ kind'[file[h]] = kind[file[h]] /\ shut'[file[h]] = shut[file[h]]
                     /\ file[h] \in knb' <=> file[h] \in knb
                     /\ file[h] \in asked' <=> file[h] \in asked
      BY <1>1, <1>6, <2>1
    <2> QED
      BY <2>2, <2>3, ContextUnmoved DEF Inv
  <1> QED
    BY <1>4, <1>5, <1>6 DEF Contexts

LEMMA BothDupsKeep ==
    ASSUME Inv, NEW f \in Fd, NEW g \in Fd, Dup(f, g) \/ Dup2(f, g)
    PROVE  CallsLeftAlone /\ Contexts'
  <1>0. ContextTypes
    BY TypeFacts
  <1>1. CASE Dup2(f, g)
    BY <1>1, DupKeeps DEF Dup2
  <1>2. CASE Dup(f, g)
    <2>1. /\ Open(f) /\ ~Open(g) /\ ~InUse(file[f]) /\ Refers(g, file[f]) /\ UNCHANGED <<reg, pc, op>>
          /\ ctx' = IF ctx[f].so THEN [ctx EXCEPT ![g] = ctx[f]] ELSE ctx
      BY <1>2 DEF Dup
    <2>2. \A c \in Caller : ~In(c, g)
      BY <2>1 DEF Inv, Placed, PlaceOK, In, Calling
    <2>3. f # g
      BY <2>1
    <2>4. ctx' = [ctx EXCEPT ![g] = ctx[f]]
      <3>1. CASE ctx[f].so
        BY <2>1, <3>1
      <3>2. CASE ~ctx[f].so
        <4>1. ctx[f] = Blank /\ ctx[g] = Blank
          BY <2>1, <3>2 DEF Inv, Contexts, ContextOK
        <4> QED
          BY <1>0, <2>1, <3>2, <4>1 DEF ContextTypes
      <3> QED
        BY <3>1, <3>2
    <2> QED
      BY <2>1, <2>2, <2>3, <2>4, DupKeeps
  <1> QED
    BY <1>1, <1>2

LEMMA SetTimeoutKeeps ==
    ASSUME Tame, Inv, NEW f \in Fd, NEW d \in Dir, NEW on \in BOOLEAN, SetTimeout(f, d, on)
    PROVE  CallsLeftAlone /\ Contexts'
  <1>0. KernelTypes /\ ContextTypes
    BY TypeFacts
  <1>1. /\ Open(f) /\ shut[file[f]] # Dir /\ kind[file[f]] = "sock"
        /\ UNCHANGED <<file, kind, knb, shut, reg, pc, op, asked>>
        /\ \A g \in Fd : g # f => ctx'[g] = ctx[g]
    BY <1>0 DEF SetTimeout, Usable, Tame, kernelVars, ContextTypes
  <1>2. /\ ctx'[f].so = ctx[f].so /\ ctx'[f].nb = ctx[f].nb /\ ctx'[f].mark = ctx[f].mark
        /\ ctx'[f].flags = ctx[f].flags
    BY <1>0 DEF SetTimeout, ContextTypes, CtxType
  <1>3. ContextOK(f) /\ ctx[f].so
    BY <1>1 DEF Inv, Contexts, ContextOK
  <1>4. ContextOK(f)'
    BY <1>1, <1>2, <1>3 DEF ContextOK, Open
  <1>5. ASSUME NEW g \in Fd, g # f PROVE ContextOK(g)'
    BY <1>1, <1>5, ContextUnmoved DEF Inv
  <1>6. CallsLeftAlone
    <2>1. \A g \in Fd : ctx'[g].so = ctx[g].so /\ ctx'[g].mark = ctx[g].mark
      BY <1>1, <1>2
    <2>2. \A c \in Caller : Calling(c) => op[c].fd \in Fd
      BY DEF Inv, Placed, PlaceOK
    <2> QED
      BY <1>1, <2>1, <2>2 DEF CallsLeftAlone
  <1> QED
    BY <1>4, <1>5, <1>6 DEF Contexts

LEMMA CloseKeeps ==
    ASSUME Inv, NEW f \in Fd, Close(f)
    PROVE  CallsLeftAlone /\ Contexts'
  <1>0. KernelTypes /\ ContextTypes
    BY TypeFacts
  <1>1. Open(f) /\ (\A c \in Caller : ~In(c, f)) /\ Refers(f, None) /\ UNCHANGED <<pc, op>>
    BY DEF Close
  <1>2. /\ ctx'[f] = Blank
        /\ \A g \in Fd : g # f => ctx'[g] = ctx[g] /\ reg'[g] = reg[g]
        /\ \A d \in Dir : reg'[f][d] \in {reg[f][d], None}
    <2>1. CASE ctx[f].so
      BY <1>0, <2>1 DEF Close, ContextTypes, Nobody
    <2>2. CASE ~ctx[f].so
      <3>1. ctx[f] = Blank
        BY <1>1, <2>2 DEF Inv, Contexts, ContextOK
      <3> QED
        BY <2>2, <3>1 DEF Close
    <2> QED
      BY <2>1, <2>2
  <1>3. /\ file'[f] = None
        /\ \A h \in Fd : h # f => file'[h] = file[h]
        /\ \A x \in Desc : (\E h \in Fd : h # f /\ file[h] = x) =>
              /\ kind'[x] = kind[x] /\ shut'[x] = shut[x]
              /\ x \in knb' <=> x \in knb
              /\ x \in asked' <=> x \in asked
    BY <1>1, RefersIs
  <1>4. \A c \in Caller : Calling(c) =>
           /\ op[c].fd \in Fd /\ op[c].fd # f /\ Target(c) \in Desc
           /\ file'[op[c].fd] = file[op[c].fd]
           /\ Target(c) \in knb' <=> Target(c) \in knb
           /\ Target(c) \in asked' <=> Target(c) \in asked
    BY <1>1, TargetStays
  <1>5. CallsLeftAlone
    <2>1. ASSUME NEW c \in Caller, Calling(c), NEW h \in Fd, file'[h] = Target(c)
          PROVE  file[h] = Target(c) /\ (ctx'[h].mark => ctx[h].mark)
      <3>1. h # f
        BY <1>3, <1>4, <2>1, HookAssumption
      <3> QED
        BY <1>2, <1>3, <2>1, <3>1
    <2>2. \A c \in Caller : Calling(c) => ctx'[op[c].fd] = ctx[op[c].fd] /\ reg'[op[c].fd] = reg[op[c].fd]
      BY <1>2, <1>4
    <2>3. \A g \in Fd, d \in Dir : reg'[g][d] \in {reg[g][d], None}
      BY <1>2
    <2> QED
      BY <1>1, <1>4, <2>1, <2>2, <2>3 DEF CallsLeftAlone
  <1>6. ContextOK(f)'
    BY <1>2, <1>3, ContextClosed
  <1>7. ASSUME NEW h \in Fd, h # f PROVE ContextOK(h)'
    <2>1. Open(h) => file[h] \in Desc
      BY <1>0 DEF KernelTypes, Open
    <2>2. file'[h] = file[h] /\ ctx'[h] = ctx[h]
      BY <1>2, <1>3, <1>7
    <2>3. Open(h) => /\ kind'[file[h]] = kind[file[h]] /\ shut'[file[h]] = shut[file[h]]
                     /\ file[h] \in knb' <=> file[h] \in knb
                     /\ file[h] \in asked' <=> file[h] \in asked
      BY <1>3, <1>7, <2>1
    <2> QED
      BY <2>2, <2>3, ContextUnmoved DEF Inv
  <1> QED
    BY <1>5, <1>6, <1>7 DEF Contexts

LEMMA ShutdownKeeps ==
    ASSUME Tame, Inv, NEW f \in Fd, NEW how \in {{"r"}, {"w"}, Dir}, Shutdown(f, how)
    PROVE  CallsLeftAlone /\ Contexts'
  <1> DEFINE e == file[f]
  <1>0. KernelTypes /\ ContextTypes /\ e \in Desc
    BY TypeFacts DEF KernelTypes, Open, Shutdown, Usable
  <1>1. /\ Open(f) /\ shut[e] # Dir /\ kind[e] = "sock" /\ ~InUse(e)
        /\ ctx' = [ctx EXCEPT ![f] = Shut(@, how)]
        /\ reg' = [reg EXCEPT ![f] = [d \in Dir |-> IF d \in how THEN None ELSE @[d]]]
        /\ shut' = [shut EXCEPT ![e] = @ \cup how]
        /\ UNCHANGED <<file, kind, knb, pc, op, asked>>
    BY DEF Shutdown, Usable, Tame
  <1>2. /\ \A g \in Fd : g # f => ctx'[g] = ctx[g] /\ reg'[g] = reg[g]
        /\ ctx'[f] = Shut(ctx[f], how)
        /\ \A d \in Dir : reg'[f][d] \in {reg[f][d], None}
        /\ shut'[e] = shut[e] \cup how /\ \A x : x # e => shut'[x] = shut[x]
    BY <1>0, <1>1 DEF ContextTypes, KernelTypes
  <1>3. \A c \in Caller : Calling(c) =>
           Target(c) # e /\ op[c].fd # f /\ op[c].fd \in Fd /\ file[op[c].fd] = Target(c)
    BY <1>1, Elsewhere DEF Target, Inv, Placed, PlaceOK
  <1>4. CallsLeftAlone
    <2>1. ASSUME NEW c \in Caller, Calling(c), NEW h \in Fd, file'[h] = Target(c)
          PROVE  file[h] = Target(c) /\ (ctx'[h].mark => ctx[h].mark)
      <3>1. file[h] = Target(c) /\ h # f
        BY <1>1, <1>3, <2>1
      <3> QED
        BY <1>2, <3>1
    <2>2. \A c \in Caller : Calling(c) => ctx'[op[c].fd] = ctx[op[c].fd] /\ reg'[op[c].fd] = reg[op[c].fd]
      BY <1>2, <1>3
    <2>3. \A g \in Fd, d \in Dir : reg'[g][d] \in {reg[g][d], None}
      BY <1>2
    <2> QED
      BY <1>1, <1>3, <2>1, <2>2, <2>3 DEF CallsLeftAlone
  <1>5. shut'[e] \subseteq Dir
    BY <1>0, <1>2 DEF KernelTypes, Dir
  <1>6. ContextOK(f)'
    <2>1. ContextOK(f) /\ ctx[f].so /\ ctx[f] \in CtxType
      BY <1>0, <1>1 DEF Inv, Contexts, ContextOK, ContextTypes
    <2>2. CASE how = Dir \/ ctx[f].flags \cup how = Dir
      <3>1. ctx'[f] = Blank
        BY <1>2, <2>2 DEF Shut
      <3>2. shut'[e] = Dir
        BY <1>1, <1>2, <1>5, <2>1, <2>2 DEF ContextOK
      <3> QED
        BY <1>1, <3>1, <3>2, BlankContext
    <2>3. CASE ~(how = Dir \/ ctx[f].flags \cup how = Dir)
      <3>1. ctx'[f] = [ctx[f] EXCEPT !.flags = ctx[f].flags \cup how]
        BY <1>2, <2>3 DEF Shut
      <3>2. /\ ctx'[f].so = ctx[f].so /\ ctx'[f].nb = ctx[f].nb /\ ctx'[f].mark = ctx[f].mark
            /\ ctx'[f].flags = ctx[f].flags \cup how
        BY <2>1, <3>1 DEF CtxType
      <3> QED
        BY <1>1, <1>2, <2>1, <3>2 DEF ContextOK, Open
    <2> QED
      BY <2>2, <2>3
  <1>7. ASSUME NEW g \in Fd, g # f PROVE ContextOK(g)'
    <2>1. file'[g] = file[g] /\ ctx'[g] = ctx[g] /\ ContextOK(g)
      BY <1>1, <1>2, <1>7 DEF Inv, Contexts
    <2>2. file[g] # e => ContextOK(g)'
      BY <1>1, <1>2, <2>1, ContextUnmoved DEF Inv
    <2>3. file[g] = e => ContextOK(g)'
      BY <1>1, <1>2, <2>1 DEF ContextOK, Open
    <2> QED
      BY <2>2, <2>3
  <1> QED
    BY <1>4, <1>6, <1>7 DEF Contexts

LEMMA ProgramKeeps == ASSUME Tame, Inv, ProgramStep PROVE CallsLeftAlone /\ Contexts'
  <1>1. ASSUME NEW e \in Desc, NEW d \in Dir, Arrive(e, d) PROVE CallsLeftAlone /\ Contexts'
    <2>1. UNCHANGED <<file, kind, knb, shut, ctx, reg, pc, op, asked>>
      BY <1>1 DEF Arrive
    <2>2. Contexts'
      BY <2>1 DEF Inv, Contexts, ContextOK, Open
    <2>3. \A c \in Caller : Calling(c) => file[op[c].fd] = Target(c)
      BY DEF Target
    <2> QED
      BY <2>1, <2>2, <2>3 DEF CallsLeftAlone
  <1> QED
    BY <1>1, SocketKeeps, SetModeKeeps, EpollCreateKeeps, CloseKeeps, BothDupsKeep, SetTimeoutKeeps,
       ShutdownKeeps, HookAssumption
    DEF ProgramStep, Program, Dir

-----------------------------------------------------------------------------
(***************************************************************************)
(* What a step of one call does to it and to the others.                   *)
(***************************************************************************)
OthersLeftAlone(c) ==
    \A b \in Caller : b # c =>
       /\ pc'[b] = pc[b] /\ op'[b] = op[b]
       /\ Calling(b) =>
             /\ file'[op[b].fd] = file[op[b].fd]
             /\ Hooked(b) \/ pc[b] = "direct" =>
                   /\ Target(b) \in knb' <=> Target(b) \in knb
                   /\ Target(b) \in asked' <=> Target(b) \in asked
             /\ ctx[op[b].fd].so => ctx'[op[b].fd].so
             /\ op[b].api = "connect" => \A g \in Fd : file'[g] = Target(b) =>
                   file[g] = Target(b) /\ (ctx'[g].mark => ctx[g].mark)

CallOK(c) == PlaceOK(c) /\ ModeOK(c) /\ MarkOK(c)

\* Where the call of c goes on it keeps apart from the others.
Separate(c) ==
    pc'[c] \notin Idle => \A b \in Caller : b # c /\ Calling(b) /\ Target(b) = file'[op'[c].fd] =>
       /\ op[b].dir # op'[c].dir
       /\ op[b].api \notin {"connect", "poll"} /\ op'[c].api \notin {"connect", "poll"}
       /\ b \in Co <=> c \in Co

LEMMA CallsStay ==
    ASSUME Inv, NEW c \in Caller, OthersLeftAlone(c), CallOK(c)', Separate(c)
    PROVE  Placed' /\ Modes' /\ Marks' /\ Apart'
  <1>1. ASSUME NEW b \in Caller, b # c
        PROVE  /\ Calling(b)' = Calling(b) /\ Hooked(b)' = Hooked(b) /\ pc'[b] = pc[b] /\ op'[b] = op[b]
               /\ Calling(b) => Target(b)' = Target(b)
    BY <1>1 DEF OthersLeftAlone, Calling, Hooked, Target
  <1>2. ASSUME NEW b \in Caller, b # c PROVE CallOK(b)'
    <2>0. CallOK(b)
      BY DEF Inv, Placed, Modes, Marks, CallOK
    <2>1. PlaceOK(b)'
      BY <1>1, <1>2, <2>0 DEF OthersLeftAlone, CallOK, PlaceOK, Open
    <2>2. ModeOK(b)'
      <3>1. pc[b] = "direct" => Calling(b)
        BY DEF Calling, Idle
      <3> QED
        BY <1>1, <1>2, <2>0, <3>1, HookedIsCalling DEF OthersLeftAlone, CallOK, ModeOK
    <2>3. MarkOK(b)'
      BY <1>1, <1>2, <2>0, HookedIsCalling DEF OthersLeftAlone, CallOK, MarkOK
    <2> QED
      BY <2>1, <2>2, <2>3 DEF CallOK
  <1>3. Placed' /\ Modes' /\ Marks'
    BY <1>2 DEF CallOK, Placed, Modes, Marks
  <1>4. ASSUME NEW a \in Caller, NEW b \in Caller, a # b, Calling(a)', Calling(b)', Target(a)' = Target(b)'
        PROVE  op'[a].dir # op'[b].dir /\ op'[a].api \notin {"connect", "poll"} /\ (a \in Co <=> b \in Co)
    <2>1. CASE a = c
      BY <1>1, <1>4, <2>1 DEF Separate, Calling, Target
    <2>2. CASE b = c
      BY <1>1, <1>4, <2>2 DEF Separate, Calling, Target
    <2>3. CASE a # c /\ b # c
      BY <1>1, <1>4, <2>3 DEF Inv, Apart
    <2> QED
      BY <2>1, <2>2, <2>3
  <1> QED
    BY <1>3, <1>4 DEF Apart

\* A call that goes on, or ends.
LEMMA GoingOn ==
    ASSUME Inv, NEW c \in Caller, Calling(c),
           pc'[c] \notin Idle => /\ op'[c].fd = op[c].fd /\ op'[c].dir = op[c].dir /\ op'[c].api = op[c].api
                                 /\ file'[op[c].fd] = file[op[c].fd]
    PROVE  Separate(c)
  BY DEF Separate, Inv, Apart, Target

\* A step that changes neither descriptors nor what is kept about them.
LEMMA OthersStay ==
    ASSUME Inv, NEW c \in Caller, UNCHANGED <<file, knb, asked, ctx>>,
           \A b \in Caller : b # c => pc'[b] = pc[b] /\ op'[b] = op[b]
    PROVE  OthersLeftAlone(c)
  BY DEF OthersLeftAlone, Target

LEMMA ContextsStay == ASSUME Inv, UNCHANGED <<file, kind, knb, shut, asked, ctx>> PROVE Contexts'
  BY DEF Inv, Contexts, ContextOK, Open

\* What ~io_event leaves: no registration of c.
Cleared(c) == \A f \in Fd, d \in Dir : reg'[f][d] = IF reg[f][d] = c THEN None ELSE reg[f][d]

LEMMA LeaveIs == ASSUME Inv, NEW c \in Caller, Leave(c) PROVE Cleared(c)
  <1>0. ContextTypes /\ CallTypes
    BY TypeFacts
  <1>1. CASE reg[op[c].fd][op[c].dir] = c
    <2>1. reg' = [reg EXCEPT ![op[c].fd][op[c].dir] = None]
      BY <1>1 DEF Leave, DelEv
    <2>2. \A f \in Fd, d \in Dir : reg[f][d] = c => f = op[c].fd /\ d = op[c].dir
      BY HookAssumption DEF Inv, Registered, RegOK, Caller
    <2> QED
      BY <1>0, <1>1, <2>1, <2>2 DEF Cleared, ContextTypes
  <1>2. CASE reg[op[c].fd][op[c].dir] # c
    <2>1. UNCHANGED reg
      BY <1>2 DEF Leave
    <2>2. \A f \in Fd, d \in Dir : reg[f][d] # c
      BY <1>2, HookAssumption DEF Inv, Registered, RegOK, Caller
    <2> QED
      BY <2>1, <2>2 DEF Cleared
  <1> QED
    BY <1>1, <1>2

LEMMA RegKept ==
    ASSUME Inv, NEW c \in Caller,
           \A b \in Caller : b # c => pc'[b] = pc[b] /\ op'[b] = op[b],
           \A f \in Fd, d \in Dir :
              \/ reg'[f][d] = reg[f][d] /\ reg[f][d] # c
              \/ reg'[f][d] = None /\ reg[f][d] \in {c, None}
              \/ /\ reg'[f][d] = c /\ reg[f][d] \in {c, None}
                 /\ pc'[c] \in {"try", "block", "wait"} /\ op'[c].fd = f /\ op'[c].dir = d,
           pc'[c] = "wait" => reg'[op'[c].fd][op'[c].dir] = c
    PROVE  Registered'
  <1>0. CallTypes
    BY TypeFacts
  <1>1. ASSUME NEW f \in Fd, NEW d \in Dir PROVE RegOK(f, d)'
    <2>1. CASE reg'[f][d] = reg[f][d] /\ reg[f][d] # c
      <3>1. reg[f][d] # None => reg[f][d] \in Caller
        BY RegisteredIs
      <3> QED
        BY <2>1, <3>1 DEF Inv, Registered, RegOK
    <2>2. CASE reg'[f][d] = None
      BY <2>2 DEF RegOK
    <2>3. CASE /\ reg'[f][d] = c
               /\ pc'[c] \in {"try", "block", "wait"} /\ op'[c].fd = f /\ op'[c].dir = d
      BY <2>3 DEF RegOK
    <2> QED
      BY <2>1, <2>2, <2>3
  <1>2. WaitersRegistered'
    <2> SUFFICES ASSUME NEW b \in Caller, pc'[b] = "wait" PROVE reg'[op'[b].fd][op'[b].dir] = b
      BY DEF WaitersRegistered
    <2>1. CASE b = c
      BY <2>1
    <2>2. CASE b # c
      <3>1. pc[b] = "wait" /\ op'[b] = op[b] /\ Calling(b)
        BY <2>2 DEF Calling, Idle
      <3>2. op[b].fd \in Fd /\ op[b].dir \in Dir
        BY <1>0, <3>1 DEF Inv, Placed, PlaceOK, CallTypes, OpType
      <3>3. reg[op[b].fd][op[b].dir] = b /\ b # None
        BY <3>1, HookAssumption DEF Inv, Registered, WaitersRegistered, Caller
      <3> QED
        BY <2>2, <3>1, <3>2, <3>3
    <2> QED
      BY <2>1, <2>2
  <1> QED
    BY <1>1, <1>2 DEF Registered

LEMMA ClearedKeeps ==
    ASSUME Inv, NEW c \in Caller, Cleared(c), pc'[c] # "wait",
           \A b \in Caller : b # c => pc'[b] = pc[b] /\ op'[b] = op[b]
    PROVE  Registered'
  BY RegKept DEF Cleared

-----------------------------------------------------------------------------
(***************************************************************************)
(* The steps of a call                                                     *)
(***************************************************************************)
\* A call begins: what Fits() asks of it.
LEMMA FitsIs ==
    ASSUME Tame, Inv, NEW c \in Caller, NEW api, NEW f \in Fd, NEW d, NEW timed, NEW p,
           pc'[c] = p, op'[c] = [api |-> api, fd |-> f, dir |-> d, timed |-> timed],
           UNCHANGED file, Fits(c, api, f, d)
    PROVE  /\ Open(f) /\ Separate(c)
           /\ api # "epoll_wait" => ctx[f].so
           /\ c \in Co \/ file[f] \notin knb \/ file[f] \in asked
           /\ api = "connect" => \A g \in Fd : file[g] = file[f] => ~ctx[g].mark
           /\ \A b \in Caller : Calling(b) /\ Target(b) = file[f] =>
                 op[b].api # "connect" /\ (b \in Co <=> c \in Co)
  <1>1. Open(f) /\ shut[file[f]] # Dir
    BY DEF Fits, Usable, Tame
  <1>2. api # "epoll_wait" => ctx[f].so
    BY <1>1 DEF Fits, Inv, Contexts, ContextOK
  <1>3. c \in Co \/ file[f] \notin knb \/ file[f] \in asked
    BY DEF Fits, Tame
  <1>4. api = "connect" => \A g \in Fd : file[g] = file[f] => ~ctx[g].mark
    BY DEF Fits, Tame, Fds
  <1>5. \A b \in Caller : Calling(b) /\ Target(b) = file[f] =>
           /\ op[b].dir # d
           /\ op[b].api # "connect" /\ api # "connect"
           /\ "poll" \notin {api, op[b].api}
           /\ b \in Co <=> c \in Co
    BY DEF Fits, Tame, Calling, Target
  <1>6. Separate(c)
    BY <1>5 DEF Separate
  <1> QED
    BY <1>1, <1>2, <1>3, <1>4, <1>5, <1>6

LEMMA BeginRegistered ==
    ASSUME Inv, NEW c \in Caller, ~Calling(c), UNCHANGED reg, pc'[c] # "wait",
           \A b \in Caller : b # c => pc'[b] = pc[b] /\ op'[b] = op[b]
    PROVE  Registered'
  <1>1. \A f \in Fd, d \in Dir : reg[f][d] # c
    BY HookAssumption DEF Inv, Registered, RegOK, Calling, Idle, Caller
  <1> QED
    BY <1>1, RegKept

Rest == Contexts /\ Placed /\ Modes /\ Marks /\ Apart /\ Registered

LEMMA BeginDirectKeeps ==
    ASSUME Tame, Inv, NEW c \in Caller, NEW f \in Fd, NEW d \in Dir, NEW api \in Moving,
           BeginDirect(c, api, f, d)
    PROVE  Rest'
  <1>0. CallTypes
    BY TypeFacts
  <1>1. Calls(c, api, f, d, FALSE, "direct") /\ Direct(c, api, f) /\ UNCHANGED <<kernelVars, ctx, reg, asked>>
    BY DEF BeginDirect
  <1>2. /\ pc'[c] = "direct" /\ op'[c] = [api |-> api, fd |-> f, dir |-> d, timed |-> FALSE]
        /\ \A b \in Caller : b # c => pc'[b] = pc[b] /\ op'[b] = op[b]
    <2>1. api \in Apis0 /\ "direct" \in Place
      BY DEF Moving, Apis0, Place
    <2> QED
      BY <1>0, <1>1, <2>1, CallsIs, ZenonT(30)
  <1>3. Fits(c, api, f, d) /\ ~Calling(c) /\ UNCHANGED <<file, kind, knb, shut>>
    BY <1>1 DEF Calls, Calling, kernelVars
  <1>4. /\ Open(f) /\ Separate(c) /\ (api # "epoll_wait" => ctx[f].so)
        /\ c \in Co \/ file[f] \notin knb \/ file[f] \in asked
    BY <1>2, <1>3, FitsIs
  <1>5. CallOK(c)'
    <2>1. ctx[f].so
      BY <1>4 DEF Moving, Transfers
    <2>2. c \in Thread \/ ctx[f].nb
      BY <1>1, <2>1 DEF Direct
    <2>3. ctx[f].nb => file[f] \in knb /\ file[f] \in asked
      BY <1>4 DEF Inv, Contexts, ContextOK
    <2>4. c \in Co => c \notin Thread
      BY HookAssumption
    <2>5. ModeOK(c)'
      BY <1>1, <1>2, <1>3, <1>4, <2>2, <2>3, <2>4 DEF ModeOK, Hooked, Steps, Target
    <2> QED
      BY <1>2, <1>3, <1>4, <2>5 DEF CallOK, PlaceOK, MarkOK, Hooked, Steps, Open
  <1>6. OthersLeftAlone(c) /\ Contexts'
    BY <1>1, <1>2, <1>3, OthersStay, ContextsStay
  <1>7. Registered'
    BY <1>1, <1>2, <1>3, BeginRegistered
  <1> QED
    BY <1>4, <1>5, <1>6, <1>7, CallsStay DEF Rest

\* A call that may wait: the description becomes non-blocking.
LEMMA HookedBegins ==
    ASSUME Tame, Inv, NEW c \in Caller, NEW f \in Fd, NEW d \in Dir, NEW api \in Moving, NEW timed,
           Fits(c, api, f, d), ~Calling(c), ~Direct(c, api, f),
           pc'[c] \in {"mark", "try", "connecting"},
           pc'[c] = "connecting" <=> api = "connect",
           op'[c] = [api |-> api, fd |-> f, dir |-> d, timed |-> timed],
           \A b \in Caller : b # c => pc'[b] = pc[b] /\ op'[b] = op[b],
           knb' = knb \cup {file[f]}, UNCHANGED <<file, kind, shut, ctx, reg, asked>>
    PROVE  Rest'
  <1>1. /\ Open(f) /\ Separate(c) /\ (api # "epoll_wait" => ctx[f].so)
        /\ api = "connect" => \A g \in Fd : file[g] = file[f] => ~ctx[g].mark
        /\ \A b \in Caller : Calling(b) /\ Target(b) = file[f] => op[b].api # "connect" /\ (b \in Co <=> c \in Co)
    BY FitsIs
  <1>2. ctx[f].so /\ ~ctx[f].nb /\ c \in Co
    BY <1>1 DEF Direct, Moving, Transfers, Caller
  <1>3. file[f] \notin asked
    BY <1>1, <1>2 DEF Inv, Contexts, ContextOK
  <1>4. CallOK(c)'
    <2>1. PlaceOK(c)'
      BY <1>1, <1>2 DEF PlaceOK, Open, Moving
    <2>2. ModeOK(c)'
      BY <1>3 DEF ModeOK, Target
    <2>3. MarkOK(c)'
      BY <1>1, <1>2 DEF MarkOK, Target
    <2> QED
      BY <2>1, <2>2, <2>3 DEF CallOK
  <1>5. OthersLeftAlone(c)
    <2>1. ASSUME NEW b \in Caller, Hooked(b) \/ pc[b] = "direct", Target(b) = file[f]
          PROVE  Target(b) \in knb
      <3>1. Calling(b)
        BY <2>1, HookedIsCalling DEF Calling, Idle
      <3>2. b \in Co
        BY <1>1, <1>2, <2>1, <3>1
      <3> QED
        BY <2>1, <3>2 DEF Inv, Modes, ModeOK
    <2> QED
      BY <2>1 DEF OthersLeftAlone, Target
  <1>6. Contexts'
    BY DEF Inv, Contexts, ContextOK, Open
  <1>7. Registered'
    BY BeginRegistered
  <1> QED
    BY <1>1, <1>4, <1>5, <1>6, <1>7, CallsStay DEF Rest

LEMMA BeginTransferKeeps ==
    ASSUME Tame, Inv, NEW c \in Caller, NEW f \in Fd, NEW d \in Dir, NEW api \in Transfers,
           BeginTransfer(c, api, f, d)
    PROVE  Rest'
  <1>0. CallTypes
    BY TypeFacts
  <1>1. PICK p \in {"mark", "try"} : Calls(c, api, f, d, FALSE, p)
    BY DEF BeginTransfer
  <1>2. /\ pc'[c] \in {"mark", "try"} /\ op'[c] = [api |-> api, fd |-> f, dir |-> d, timed |-> FALSE]
        /\ \A b \in Caller : b # c => pc'[b] = pc[b] /\ op'[b] = op[b]
    <2>1. api \in Apis0 /\ p \in Place
      BY DEF Apis0, Place
    <2> QED
      BY <1>0, <1>1, <2>1, CallsIs, ZenonT(30)
  <1>3. Fits(c, api, f, d) /\ ~Calling(c)
    BY <1>1 DEF Calls, Calling
  <1>4. knb' = knb \cup {file[f]}
    <2>1. ctx[f].mark => file[f] \in knb
      BY <1>3 DEF Fits, Usable, Inv, Contexts, ContextOK
    <2> QED
      BY <2>1 DEF BeginTransfer
  <1>5. ~Direct(c, api, f) /\ UNCHANGED <<file, kind, shut, ctx, reg, asked>>
    BY DEF BeginTransfer
  <1> QED
    BY <1>2, <1>3, <1>4, <1>5, HookedBegins DEF Moving, Transfers

LEMMA BeginConnectKeeps == ASSUME Tame, Inv, NEW c \in Caller, NEW f \in Fd, BeginConnect(c, f) PROVE Rest'
  <1>0. CallTypes
    BY TypeFacts
  <1> DEFINE timed == "w" \in ctx[f].timeout
  <1>1. Calls(c, "connect", f, "w", timed, "connecting") /\ timed \in BOOLEAN
    BY TestIsBoolean DEF BeginConnect
  <1>2. ~Direct(c, "connect", f) /\ UNCHANGED <<file, kind, shut, ctx, reg, asked>> /\ knb' = knb \cup {file[f]}
    BY DEF BeginConnect
  <1> HIDE DEF timed
  <1>3. /\ pc'[c] = "connecting" /\ op'[c] = [api |-> "connect", fd |-> f, dir |-> "w", timed |-> timed]
        /\ \A b \in Caller : b # c => pc'[b] = pc[b] /\ op'[b] = op[b]
    BY <1>0, <1>1, CallsIs DEF Apis0, Place, Dir
  <1>4. Fits(c, "connect", f, "w") /\ ~Calling(c)
    BY <1>1 DEF Calls, Calling
  <1> QED
    BY <1>2, <1>3, <1>4, HookedBegins DEF Moving, Dir

\* poll(), select() and epoll_wait() rely on no mode.
LEMMA WaitBegins ==
    ASSUME Tame, Inv, NEW c \in Caller, NEW f \in Fd, NEW d \in Dir, NEW timed \in BOOLEAN,
           \/ \E api \in {"poll", "epoll_wait"} : BeginWait(c, api, f, d, timed)
           \/ BeginLook(c, f, d, timed)
    PROVE  Rest'
  <1>0. CallTypes
    BY TypeFacts
  <1>1. PICK api \in {"poll", "epoll_wait", "select"}, p \in {"block", "look"} : Calls(c, api, f, d, timed, p)
    BY DEF BeginWait, BeginLook
  <1>2. c \in Co /\ UNCHANGED <<kernelVars, ctx, reg, asked>>
    BY DEF BeginWait, BeginLook
  <1>3. /\ pc'[c] = p /\ op'[c] = [api |-> api, fd |-> f, dir |-> d, timed |-> timed]
        /\ \A b \in Caller : b # c => pc'[b] = pc[b] /\ op'[b] = op[b]
    BY <1>0, <1>1, CallsIs DEF Apis0, Place
  <1>4. Fits(c, api, f, d) /\ ~Calling(c) /\ UNCHANGED <<file, kind, knb, shut>>
    BY <1>1, <1>2 DEF Calls, Calling, kernelVars
  <1>5. Open(f) /\ Separate(c)
    BY <1>3, <1>4, FitsIs
  <1>6. CallOK(c)'
    BY <1>2, <1>3, <1>4, <1>5 DEF CallOK, PlaceOK, ModeOK, MarkOK, Hooked, Moving, Transfers, Open
  <1>7. OthersLeftAlone(c) /\ Contexts'
    BY <1>2, <1>3, <1>4, OthersStay, ContextsStay
  <1>8. Registered'
    BY <1>2, <1>3, <1>4, BeginRegistered
  <1> QED
    BY <1>5, <1>6, <1>7, <1>8, CallsStay DEF Rest

LEMMA BeginKeeps == ASSUME Tame, Inv, NEW c \in Caller, Begin(c) PROVE Rest'
  BY BeginDirectKeeps, BeginTransferKeeps, BeginConnectKeeps, WaitBegins DEF Begin, Moving, Dir

\* A step of a call that changes only where it is.
LEMMA PlaceMoves ==
    ASSUME Inv, NEW c \in Caller, Calling(c), NEW p \in Place, Goes(c, p), CallOK(c)',
           UNCHANGED <<file, kind, knb, shut, asked, ctx>>
    PROVE  /\ Contexts' /\ Placed' /\ Modes' /\ Marks' /\ Apart'
           /\ pc'[c] = p /\ op'[c] = IF p \in Idle THEN NoOp ELSE op[c]
           /\ \A b \in Caller : b # c => pc'[b] = pc[b] /\ op'[b] = op[b]
  <1>1. /\ pc'[c] = p /\ op'[c] = IF p \in Idle THEN NoOp ELSE op[c]
        /\ \A b \in Caller : b # c => pc'[b] = pc[b] /\ op'[b] = op[b]
    BY TypeFacts, GoesIs
  <1>2. Separate(c)
    BY <1>1, GoingOn
  <1>3. OthersLeftAlone(c) /\ Contexts'
    BY <1>1, OthersStay, ContextsStay
  <1> QED
    BY <1>1, <1>2, <1>3, CallsStay

\* Where it is over nothing is asked of a call.
LEMMA OverIsOK == ASSUME NEW c \in Caller, pc'[c] \in Idle PROVE CallOK(c)'
  BY DEF CallOK, PlaceOK, ModeOK, MarkOK, Hooked, Calling, Steps, Idle

LEMMA RegStays ==
    ASSUME Inv, NEW c \in Caller, NEW p \in Place, pc'[c] = p, UNCHANGED reg,
           \A b \in Caller : b # c => pc'[b] = pc[b] /\ op'[b] = op[b],
           p # "wait",
           \/ p \in {"try", "block"} /\ op'[c] = op[c]
           \/ pc[c] \notin {"try", "block", "wait"}
           \/ reg[op[c].fd][op[c].dir] # c
    PROVE  Registered'
  <1>1. CASE p \in {"try", "block"} /\ op'[c] = op[c]
    <2>1. \A f \in Fd, d \in Dir : reg[f][d] = c => op[c].fd = f /\ op[c].dir = d
      BY HookAssumption DEF Inv, Registered, RegOK, Caller
    <2> QED
      BY <1>1, <2>1, RegKept
  <1>2. CASE pc[c] \notin {"try", "block", "wait"} \/ reg[op[c].fd][op[c].dir] # c
    <2>1. \A f \in Fd, d \in Dir : reg[f][d] # c
      BY <1>2, HookAssumption DEF Inv, Registered, RegOK, Caller
    <2> QED
      BY <2>1, RegKept
  <1> QED
    BY <1>1, <1>2

LEMMA MarkKeeps == ASSUME Inv, NEW c \in Caller, Mark(c) PROVE Rest'
  <1>0. ContextTypes /\ CallTypes
    BY TypeFacts
  <1>1. /\ pc[c] = "mark" /\ Calling(c) /\ Goes(c, "try") /\ UNCHANGED <<kernelVars, reg, asked>>
        /\ ctx' = [ctx EXCEPT ![op[c].fd].mark = TRUE]
    BY DEF Mark, Calling, Idle
  <1>2. /\ pc'[c] = "try" /\ op'[c] = op[c]
        /\ \A b \in Caller : b # c => pc'[b] = pc[b] /\ op'[b] = op[b]
    BY <1>0, <1>1, GoesIs DEF Place, Idle
  <1>3. PICK f \in Fd : f = op[c].fd
    BY <1>1 DEF Inv, Placed, PlaceOK
  <1>4. /\ Open(f) /\ op[c].api \in Transfers /\ c \in Co /\ Hooked(c)
        /\ Target(c) \in knb /\ Target(c) \notin asked /\ ctx[f].so
    BY <1>1, <1>3 DEF Inv, Placed, PlaceOK, Modes, ModeOK, Marks, MarkOK, Hooked, Steps, Moving
  <1>5. /\ \A g \in Fd : g # f => ctx'[g] = ctx[g]
        /\ ctx'[f].so = ctx[f].so /\ ctx'[f].nb = ctx[f].nb /\ ctx'[f].mark /\ ctx'[f].flags = ctx[f].flags
    BY <1>0, <1>1, <1>3 DEF ContextTypes, CtxType
  <1>6. UNCHANGED <<file, kind, knb, shut, asked>>
    BY <1>1 DEF kernelVars
  <1>7. Contexts'
    <2>1. ASSUME NEW g \in Fd, g # f PROVE ContextOK(g)'
      BY <1>5, <1>6, <2>1, ContextUnmoved DEF Inv
    <2>2. ContextOK(f)'
      <3>1. ContextOK(f) /\ Target(c) = file[f]
        BY <1>3 DEF Inv, Contexts, Target
      <3> QED
        BY <1>4, <1>5, <1>6, <3>1 DEF ContextOK, Open
    <2> QED
      BY <2>1, <2>2 DEF Contexts
  <1>8. CallOK(c)'
    BY <1>2, <1>3, <1>4, <1>6 DEF CallOK, PlaceOK, ModeOK, MarkOK, Hooked, Steps, Open, Target, Transfers
  <1>9. OthersLeftAlone(c)
    <2>1. ASSUME NEW b \in Caller, b # c, Calling(b), op[b].api = "connect" PROVE Target(b) # file[f]
      BY <1>1, <1>3, <2>1 DEF Inv, Apart, Target
    <2>2. \A b \in Caller : Calling(b) => op[b].fd \in Fd
      BY DEF Inv, Placed, PlaceOK
    <2>3. \A g \in Fd : ctx'[g].so = ctx[g].so
      BY <1>5
    <2> QED
      BY <1>2, <1>5, <1>6, <2>1, <2>2, <2>3 DEF OthersLeftAlone
  <1>10. Separate(c)
    BY <1>1, <1>2, <1>6, GoingOn
  <1>11. Registered'
    BY <1>1, <1>2, RegStays DEF Place
  <1> QED
    BY <1>7, <1>8, <1>9, <1>10, <1>11, CallsStay DEF Rest

LEMMA ConnectCallKeeps == ASSUME Inv, NEW c \in Caller, ConnectCall(c) PROVE Rest'
  <1>1. PICK p \in {"restore", "block"} : Goes(c, p)
    BY DEF ConnectCall
  <1>2. pc[c] = "connecting" /\ Calling(c) /\ UNCHANGED <<kernelVars, ctx, reg, asked>>
    BY DEF ConnectCall, Calling, Idle
  <1>3. pc'[c] = p /\ op'[c] = op[c] /\ \A b \in Caller : b # c => pc'[b] = pc[b] /\ op'[b] = op[b]
    BY <1>1, TypeFacts, GoesIs DEF Place, Idle
  <1>4. UNCHANGED <<file, kind, knb, shut>> /\ p \in Place
    BY <1>2 DEF kernelVars, Place
  <1>5. CallOK(c)'
    <2>1. PlaceOK(c) /\ ModeOK(c) /\ MarkOK(c)
      BY DEF Inv, Placed, Modes, Marks
    <2> QED
      BY <1>2, <1>3, <1>4, <2>1, HookAssumption
      DEF CallOK, PlaceOK, ModeOK, MarkOK, Calling, Hooked, Steps, Idle, Moving, Target, Open
  <1>6. Registered'
    BY <1>2, <1>3, <1>4, RegStays
  <1> QED
    BY <1>1, <1>2, <1>4, <1>5, <1>6, PlaceMoves DEF Rest

\* The end of connect(): nobody else is on the description, and nothing says
\* that it is non-blocking.
LEMMA RestoreKeeps == ASSUME Inv, NEW c \in Caller, Restore(c) PROVE Rest'
  <1> DEFINE e == Target(c)
  <1>1. /\ pc[c] = "restore" /\ Calling(c) /\ Goes(c, "idle") /\ knb' = knb \ {e}
        /\ UNCHANGED <<file, kind, ready, shut, ctx, reg, asked>>
    BY DEF Restore, Calling, Idle, Target
  <1>2. pc'[c] = "idle" /\ \A b \in Caller : b # c => pc'[b] = pc[b] /\ op'[b] = op[b]
    BY <1>1, TypeFacts, GoesIs DEF Place, Idle
  <1>3. Hooked(c) /\ op[c].api = "connect" /\ e \notin asked /\ \A g \in Fd : file[g] = e => ~ctx[g].mark
    BY <1>1 DEF Inv, Placed, PlaceOK, Modes, ModeOK, Marks, MarkOK, Hooked, Steps, Moving
  <1>4. ASSUME NEW g \in Fd PROVE ContextOK(g)'
    <2>1. ContextOK(g)
      BY DEF Inv, Contexts
    <2>2. CASE file[g] = e
      <3>1. ~ctx[g].mark
        BY <1>3, <2>2
      <3>2. Open(g) => ~ctx[g].nb
        BY <1>3, <2>1, <2>2 DEF ContextOK
      <3> QED
        BY <1>1, <2>1, <3>1, <3>2 DEF ContextOK, Open
    <2>3. CASE file[g] # e
      BY <1>1, <2>1, <2>3 DEF ContextOK, Open
    <2> QED
      BY <2>2, <2>3
  <1>5. OthersLeftAlone(c)
    <2>1. ASSUME NEW b \in Caller, b # c, Calling(b) PROVE Target(b) # e
      BY <1>1, <1>3, <2>1 DEF Inv, Apart
    <2> HIDE DEF e
    <2> QED
      BY <1>1, <1>2, <2>1 DEF OthersLeftAlone, Target
  <1>6. Separate(c) /\ CallOK(c)'
    BY <1>2, OverIsOK DEF Separate, Idle
  <1>7. Registered'
    BY <1>1, <1>2, RegStays DEF Place, Idle
  <1> QED
    BY <1>4, <1>5, <1>6, <1>7, CallsStay DEF Rest, Contexts

LEMMA LookKeeps == ASSUME Inv, NEW c \in Caller, Look(c) PROVE Rest'
  <1>1. pc[c] = "look" /\ Calling(c) /\ Goes(c, "idle") /\ UNCHANGED <<file, kind, knb, shut, ctx, reg, asked>>
    BY DEF Look, Calling, Idle, kernelVars
  <1>2. pc'[c] = "idle" /\ \A b \in Caller : b # c => pc'[b] = pc[b] /\ op'[b] = op[b]
    BY <1>1, TypeFacts, GoesIs DEF Place, Idle
  <1>3. Registered' /\ CallOK(c)' /\ "idle" \in Place
    BY <1>1, <1>2, RegStays, OverIsOK DEF Place, Idle
  <1> QED
    BY <1>1, <1>3, PlaceMoves DEF Rest

\* A call ends, and its registration with it.
LEMMA EndKeeps ==
    ASSUME Inv, NEW c \in Caller, Calling(c), Goes(c, "idle"), Cleared(c),
           UNCHANGED <<file, kind, knb, shut, asked, ctx>>
    PROVE  Rest'
  <1>1. pc'[c] = "idle" /\ \A b \in Caller : b # c => pc'[b] = pc[b] /\ op'[b] = op[b]
    BY TypeFacts, GoesIs DEF Place, Idle
  <1>2. Registered' /\ CallOK(c)' /\ "idle" \in Place
    BY <1>1, ClearedKeeps, OverIsOK DEF Place, Idle
  <1> QED
    BY <1>2, PlaceMoves DEF Rest

LEMMA TransferDoneKeeps == ASSUME Inv, NEW c \in Caller, TransferDone(c) PROVE Rest'
  <1>1. Calling(c) /\ Goes(c, "idle") /\ Leave(c) /\ UNCHANGED <<file, kind, knb, shut, asked, ctx>>
    BY DEF TransferDone, Moves, Calling, Idle
  <1> QED
    BY <1>1, LeaveIs, EndKeeps

\* The descriptor that accept() returns begins with a HookCtx of its own.
LEMMA AcceptDoneKeeps ==
    ASSUME Inv, NEW c \in Caller, NEW g \in Fd, NEW four \in BOOLEAN, NEW nb \in BOOLEAN,
           AcceptDone(c, g, four, nb)
    PROVE  Rest'
  <1>0. KernelTypes /\ ContextTypes
    BY TypeFacts
  <1>1. PICK e \in Desc : Opens(g, e, "sock", nb)
    BY DEF AcceptDone
  <1>2. /\ ctx' = [ctx EXCEPT ![g] = Accepted(@, four, nb)] /\ Goes(c, "idle") /\ Leave(c)
        /\ four \/ ~nb
    BY DEF AcceptDone
  <1>3. /\ ~Open(g) /\ ctx[g] = Blank
        /\ file'[g] = e /\ kind'[e] = "sock" /\ shut'[e] = {}
        /\ e \in knb' <=> nb
        /\ e \in asked' <=> nb
        /\ \A h \in Fd : h # g => file'[h] = file[h] /\ file[h] # e
        /\ \A x : x # e => /\ kind'[x] = kind[x] /\ shut'[x] = shut[x]
                           /\ x \in knb' <=> x \in knb
                           /\ x \in asked' <=> x \in asked
        /\ \A b \in Caller : Calling(b) => op[b].fd # g /\ Target(b) # e
    BY <1>1, OpensIs
  <1>4. \A h \in Fd : h # g => ctx'[h] = ctx[h]
    BY <1>0, <1>2 DEF ContextTypes
  <1>5. pc'[c] = "idle" /\ \A b \in Caller : b # c => pc'[b] = pc[b] /\ op'[b] = op[b]
    BY <1>2, TypeFacts, GoesIs DEF Place, Idle
  <1>6. OthersLeftAlone(c)
    <2>1. \A b \in Caller : Calling(b) => op[b].fd \in Fd /\ file[op[b].fd] = Target(b)
      BY DEF Inv, Placed, PlaceOK, Target
    <2>2. ASSUME NEW b \in Caller, Calling(b), NEW h \in Fd, file'[h] = Target(b)
          PROVE  file[h] = Target(b) /\ ctx'[h] = ctx[h]
      BY <1>3, <1>4, <2>2
    <2> QED
      BY <1>3, <1>4, <1>5, <2>1, <2>2 DEF OthersLeftAlone
  <1>7. ContextOK(g)'
    <2>1. ctx'[g] = Accepted(Blank, four, nb)
      BY <1>0, <1>2, <1>3 DEF ContextTypes
    <2>2. ctx'[g].so /\ ctx'[g].flags = {} /\ ~ctx'[g].mark /\ (ctx'[g].nb <=> nb)
      <3>1. CASE four
        BY <2>1, <3>1 DEF Accepted, SetNonBlocking, Blank
      <3>2. CASE ~four
        <4>1. ~nb
          BY <1>2, <3>2
        <4> QED
          BY <2>1, <3>2, <4>1 DEF Accepted, Blank
      <3> QED
        BY <3>1, <3>2
    <2> QED
      BY <1>3, <2>2, HookAssumption DEF ContextOK, Open
  <1>8. ASSUME NEW h \in Fd, h # g PROVE ContextOK(h)'
    BY <1>3, <1>4, <1>8, ContextUnmoved DEF Inv
  <1>9. Separate(c) /\ CallOK(c)' /\ Registered'
    BY <1>2, <1>5, OverIsOK, LeaveIs, ClearedKeeps DEF Separate, Idle
  <1> QED
    BY <1>6, <1>7, <1>8, <1>9, CallsStay DEF Rest, Contexts

\* EAGAIN: the thread that stays in the kernel is nobody's scheduler.
LEMMA AgainKeeps == ASSUME Inv, NEW c \in Caller, Again(c) PROVE Rest'
  <1>1. /\ pc[c] \in {"try", "direct"} /\ Calling(c) /\ UNCHANGED <<file, kind, knb, shut, ctx, reg, asked>>
        /\ Goes(c, IF Target(c) \notin knb THEN "stuck" ELSE IF pc[c] = "try" THEN "block" ELSE "EAGAIN")
    BY DEF Again, Calling, Idle, Target, kernelVars
  <1>2. PlaceOK(c) /\ ModeOK(c) /\ MarkOK(c)
    BY DEF Inv, Placed, Modes, Marks
  <1>3. pc[c] = "try" => Hooked(c) /\ Target(c) \in knb
    BY <1>1, <1>2 DEF PlaceOK, ModeOK, Hooked, Steps, Moving
  <1>4. PICK p \in Place : /\ Goes(c, p)
                           /\ \/ p = "stuck" /\ pc[c] = "direct" /\ Target(c) \notin knb
                              \/ p = "block" /\ pc[c] = "try"
                              \/ p = "EAGAIN" /\ pc[c] = "direct"
    <2>1. "stuck" \in Place /\ "block" \in Place /\ "EAGAIN" \in Place
      BY DEF Place, Idle
    <2> QED
      BY <1>1, <1>3, <2>1
  <1>5. /\ pc'[c] = p /\ op'[c] = IF p \in Idle THEN NoOp ELSE op[c]
        /\ \A b \in Caller : b # c => pc'[b] = pc[b] /\ op'[b] = op[b]
    BY <1>4, TypeFacts, GoesIs
  <1>6. CallOK(c)'
    <2>1. CASE p = "EAGAIN"
      BY <1>5, <2>1, OverIsOK DEF Idle
    <2>2. CASE p = "stuck"
      <3>1. op'[c] = op[c] /\ c \notin Co
        BY <1>2, <1>4, <1>5, <2>2 DEF ModeOK, Idle
      <3> QED
        BY <1>1, <1>2, <1>5, <2>2, <3>1
        DEF CallOK, PlaceOK, ModeOK, MarkOK, Calling, Hooked, Steps, Open, Target
    <2>3. CASE p = "block"
      <3>1. op'[c] = op[c] /\ c \in Co
        BY <1>2, <1>4, <1>5, <2>3, <1>1 DEF PlaceOK, Idle
      <3> QED
        BY <1>1, <1>2, <1>3, <1>4, <1>5, <2>3, <3>1
        DEF CallOK, PlaceOK, ModeOK, MarkOK, Calling, Hooked, Steps, Open, Target
    <2> QED
      BY <1>4, <2>1, <2>2, <2>3
  <1>7. Registered'
    BY <1>1, <1>4, <1>5, RegStays DEF Idle
  <1> QED
    BY <1>1, <1>4, <1>6, <1>7, PlaceMoves DEF Rest

\* Nobody else is registered where a call waits.
LEMMA OwnRegistration ==
    ASSUME Inv, NEW c \in Caller, Calling(c)
    PROVE  /\ op[c].fd \in Fd /\ op[c].dir \in Dir
           /\ reg[op[c].fd][op[c].dir] \in {None, c}
           /\ op[c].api = "poll" => \A d \in Dir : reg[op[c].fd][d] \in {None, c}
  <1>1. op[c].fd \in Fd /\ op[c].dir \in Dir
    BY TypeFacts DEF Inv, Placed, PlaceOK, CallTypes, OpType
  <1>2. ASSUME NEW d \in Dir, reg[op[c].fd][d] \notin {None, c}
        PROVE  d # op[c].dir /\ op[c].api # "poll"
    <2>1. PICK b \in Caller : b = reg[op[c].fd][d]
      BY <1>1, <1>2, RegisteredIs
    <2>2. Calling(b) /\ op[b].fd = op[c].fd /\ op[b].dir = d
      BY <1>1, <1>2, <2>1, RegisteredIs DEF Inv, Registered, RegOK
    <2> QED
      BY <1>2, <2>1, <2>2 DEF Inv, Apart, Target
  <1> QED
    BY <1>1, <1>2

LEMMA BlockKeeps == ASSUME Inv, NEW c \in Caller, Block(c) PROVE Rest'
  <1>0. ContextTypes /\ CallTypes
    BY TypeFacts
  <1>1. /\ pc[c] = "block" /\ Calling(c) /\ pc' = [pc EXCEPT ![c] = "wait"]
        /\ op' = [op EXCEPT ![c].timed = TimedNow(c)] /\ UNCHANGED <<file, kind, knb, shut, ctx, asked>>
        /\ reg' = IF reg[op[c].fd][op[c].dir] = None THEN [reg EXCEPT ![op[c].fd][op[c].dir] = c] ELSE reg
    BY DEF Block, Calling, Idle, kernelVars
  <1>2. /\ pc'[c] = "wait"
        /\ op'[c].fd = op[c].fd /\ op'[c].dir = op[c].dir /\ op'[c].api = op[c].api
        /\ \A b \in Caller : b # c => pc'[b] = pc[b] /\ op'[b] = op[b]
    BY <1>0, <1>1 DEF CallTypes, OpType
  <1>3. op[c].fd \in Fd /\ op[c].dir \in Dir /\ reg[op[c].fd][op[c].dir] \in {None, c}
    BY <1>1, OwnRegistration
  <1>4. reg'[op[c].fd][op[c].dir] = c
    BY <1>0, <1>1, <1>3 DEF ContextTypes
  <1>5. ASSUME NEW f \in Fd, NEW d \in Dir, ~(f = op[c].fd /\ d = op[c].dir)
        PROVE  reg'[f][d] = reg[f][d] /\ reg[f][d] # c
    <2>1. reg[f][d] # c
      BY <1>5, HookAssumption DEF Inv, Registered, RegOK, Caller
    <2> QED
      BY <1>0, <1>1, <1>5, <2>1 DEF ContextTypes
  <1>6. Registered'
    <2>1. ASSUME NEW f \in Fd, NEW d \in Dir
          PROVE  \/ reg'[f][d] = reg[f][d] /\ reg[f][d] # c
                 \/ /\ reg'[f][d] = c /\ reg[f][d] \in {c, None}
                    /\ pc'[c] \in {"try", "block", "wait"} /\ op'[c].fd = f /\ op'[c].dir = d
      BY <1>2, <1>3, <1>4, <1>5
    <2>2. reg'[op'[c].fd][op'[c].dir] = c
      BY <1>2, <1>4
    <2> QED
      BY <1>2, <2>1, <2>2, RegKept
  <1>7. CallOK(c)'
    <2>1. PlaceOK(c) /\ ModeOK(c) /\ MarkOK(c)
      BY DEF Inv, Placed, Modes, Marks
    <2> QED
      BY <1>1, <1>2, <2>1 DEF CallOK, PlaceOK, ModeOK, MarkOK, Calling, Hooked, Steps, Open, Target
  <1>8. OthersLeftAlone(c) /\ Contexts' /\ Separate(c)
    BY <1>1, <1>2, OthersStay, ContextsStay, GoingOn
  <1> QED
    BY <1>6, <1>7, <1>8, CallsStay DEF Rest

\* A call that did not become registered, or that its event has resumed.
LEMMA GoesElsewhere ==
    ASSUME Inv, NEW c \in Caller, pc[c] \in {"block", "wait"},
           NEW p \in {"restore", "look", "try"}, Goes(c, p), Registered',
           p = "restore" <=> op[c].api = "connect", p = "try" <=> op[c].api \in Transfers,
           UNCHANGED <<file, kind, knb, shut, asked, ctx>>
    PROVE  Rest'
  <1>1. Calling(c) /\ p \in Place /\ p \notin Idle
    BY DEF Calling, Idle, Place
  <1>2. pc'[c] = p /\ op'[c] = op[c]
    BY <1>1, TypeFacts, GoesIs
  <1>3. PlaceOK(c) /\ ModeOK(c) /\ MarkOK(c)
    BY DEF Inv, Placed, Modes, Marks
  <1>4. p # "look" => Hooked(c) /\ Hooked(c)'
    BY <1>2 DEF Hooked, Steps, Moving
  <1>5. CallOK(c)'
    <2>1. c \in Co /\ op[c].fd \in Fd /\ Open(op[c].fd)
      BY <1>1, <1>3 DEF PlaceOK
    <2>2. p = "look" => ~Hooked(c)'
      BY <1>2 DEF Hooked, Steps
    <2> QED
      BY <1>2, <1>3, <1>4, <2>1, <2>2 DEF CallOK, PlaceOK, ModeOK, MarkOK, Open, Target
  <1> QED
    BY <1>1, <1>5, PlaceMoves DEF Rest

LEMMA BlockFailsKeeps == ASSUME Inv, NEW c \in Caller, BlockFails(c) PROVE Rest'
  <1>1. /\ pc[c] = "block" /\ Calling(c) /\ UNCHANGED <<file, kind, knb, shut, ctx, reg, asked>>
        /\ reg[op[c].fd][op[c].dir] # c
    BY HookAssumption DEF BlockFails, Calling, Idle, kernelVars, Caller
  <1>2. PICK p \in {"restore", "look", "try", "idle"} :
           /\ Goes(c, p)
           /\ p = "restore" <=> op[c].api = "connect"
           /\ p = "look" <=> op[c].api = "poll"
           /\ p = "try" <=> op[c].api = "accept"
    BY DEF BlockFails
  <1>3. pc'[c] = p /\ \A b \in Caller : b # c => pc'[b] = pc[b] /\ op'[b] = op[b]
    BY <1>2, TypeFacts, GoesIs DEF Place, Idle
  <1>4. Registered'
    BY <1>1, <1>2, <1>3, RegStays DEF Place, Idle
  <1>5. CASE p = "idle"
    <2>1. Cleared(c)
      BY <1>1, HookAssumption DEF Cleared, Inv, Registered, RegOK, Caller
    <2> QED
      BY <1>1, <1>2, <1>5, <2>1, EndKeeps
  <1>6. CASE p # "idle"
    <2>1. p = "try" <=> op[c].api \in Transfers
      BY <1>2, <1>6 DEF Transfers
    <2> QED
      BY <1>1, <1>2, <1>4, <1>6, <2>1, GoesElsewhere
  <1> QED
    BY <1>5, <1>6

\* poll() removes the registrations of both directions, which are its own.
LEMMA ResumesKeeps ==
    ASSUME Inv, NEW c \in Caller, pc[c] = "wait", NEW how \in {"event", "timeout"}, Resumes(c, how)
    PROVE  Rest'
  <1>0. ContextTypes /\ CallTypes
    BY TypeFacts
  <1>1. Calling(c) /\ UNCHANGED <<file, kind, knb, shut, ctx, asked>>
    BY DEF Resumes, Calling, Idle, kernelVars
  <1>2. CASE op[c].api = "poll"
    <2>1. reg' = [reg EXCEPT ![op[c].fd] = Nobody] /\ Goes(c, "idle")
      BY <1>2 DEF Resumes
    <2>2. op[c].fd \in Fd /\ \A d \in Dir : reg[op[c].fd][d] \in {None, c}
      BY <1>1, <1>2, OwnRegistration
    <2>3. \A f \in Fd, d \in Dir : reg[f][d] = c => f = op[c].fd
      BY HookAssumption DEF Inv, Registered, RegOK, Caller
    <2>4. Cleared(c)
      BY <1>0, <2>1, <2>2, <2>3 DEF Cleared, ContextTypes, Nobody
    <2> QED
      BY <1>1, <2>1, <2>4, EndKeeps
  <1>3. CASE op[c].api \in Transfers /\ how = "event"
    <2>1. Goes(c, "try") /\ UNCHANGED reg
      BY <1>3 DEF Resumes, Transfers
    <2>2. pc'[c] = "try" /\ op'[c] = op[c] /\ \A b \in Caller : b # c => pc'[b] = pc[b] /\ op'[b] = op[b]
      BY <2>1, TypeFacts, GoesIs DEF Place, Idle
    <2>3. Registered'
      BY <2>1, <2>2, RegStays DEF Place
    <2>4. op[c].api # "connect"
      BY <1>3 DEF Transfers
    <2> QED
      BY <1>1, <1>3, <2>1, <2>3, <2>4, GoesElsewhere
  <1>4. CASE op[c].api # "poll" /\ ~(op[c].api \in Transfers /\ how = "event")
    <2>1. Leave(c) /\ Goes(c, IF op[c].api = "connect" THEN "restore" ELSE "idle")
      BY <1>4 DEF Resumes
    <2>2. Cleared(c)
      BY <2>1, LeaveIs
    <2>3. CASE op[c].api = "connect"
      <3>1. Goes(c, "restore")
        BY <2>1, <2>3
      <3>2. pc'[c] = "restore" /\ \A b \in Caller : b # c => pc'[b] = pc[b] /\ op'[b] = op[b]
        BY <3>1, TypeFacts, GoesIs DEF Place, Idle
      <3>3. Registered'
        BY <2>2, <3>2, ClearedKeeps
      <3>4. op[c].api \notin Transfers
        BY <2>3 DEF Transfers
      <3> QED
        BY <1>1, <2>3, <3>1, <3>3, <3>4, GoesElsewhere
    <2>4. CASE op[c].api # "connect"
      BY <1>1, <2>1, <2>2, <2>4, EndKeeps
    <2> QED
      BY <2>3, <2>4
  <1> QED
    BY <1>2, <1>3, <1>4

LEMMA StepKeeps == ASSUME Inv, NEW c \in Caller, Step(c) PROVE Rest'
  <1>1. CASE Wake(c) \/ TimeOut(c)
    BY <1>1, ResumesKeeps DEF Wake, TimeOut
  <1> QED
    BY <1>1, MarkKeeps, ConnectCallKeeps, RestoreKeeps, LookKeeps, TransferDoneKeeps, AgainKeeps,
       BlockKeeps, BlockFailsKeeps, AcceptDoneKeeps
    DEF Step

-----------------------------------------------------------------------------
(***************************************************************************)
(* The theorems                                                            *)
(***************************************************************************)
LEMMA InvAtFirst == Init => Inv
  <1> SUFFICES ASSUME Init PROVE Inv
    OBVIOUS
  <1>1. /\ \A f \in Fd : ~Open(f) /\ ctx[f] = Blank /\ \A d \in Dir : reg[f][d] = None
        /\ \A c \in Caller : pc[c] = "idle"
    BY DEF Init, Open, Nobody
  <1>2. Contexts
    BY <1>1 DEF Contexts, ContextOK
  <1>3. \A c \in Caller : ~Calling(c) /\ ~Hooked(c) /\ pc[c] \notin {"direct", "wait"}
    BY <1>1 DEF Calling, Hooked, Steps, Idle
  <1>4. Placed /\ Modes /\ Marks /\ Apart /\ Registered
    BY <1>1, <1>3
    DEF Placed, PlaceOK, Modes, ModeOK, Marks, MarkOK, Apart, Registered, RegOK, WaitersRegistered
  <1> QED
    BY <1>2, <1>4, TypesAtFirst DEF Inv

LEMMA InvKept == Tame /\ Inv /\ [Next]_vars => Inv'
  <1> SUFFICES ASSUME Tame, Inv, [Next]_vars PROVE Inv'
    OBVIOUS
  <1>1. TypeOK'
    BY TypesKept DEF Inv
  <1>2. CASE UNCHANGED vars
    <2>1. Contexts'
      BY <1>2, ContextsStay DEF vars, kernelVars
    <2>2. CallsLeftAlone
      BY <1>2 DEF CallsLeftAlone, Target, vars, kernelVars
    <2> QED
      BY <1>1, <2>1, <2>2, CallsKept DEF Inv
  <1>3. CASE ProgramStep
    BY <1>1, <1>3, ProgramKeeps, CallsKept DEF Inv
  <1>4. ASSUME NEW c \in Caller, Begin(c) \/ Step(c) PROVE Inv'
    BY <1>1, <1>4, BeginKeeps, StepKeeps DEF Rest, Inv
  <1> QED
    BY <1>2, <1>3, <1>4 DEF Next, ProgramStep

LEMMA InvImplies == Inv => SchedulerNotBlocked /\ ContextsExact
  <1> SUFFICES ASSUME Inv PROVE SchedulerNotBlocked /\ ContextsExact
    OBVIOUS
  <1>1. SchedulerNotBlocked
    BY DEF Inv, Placed, PlaceOK, Calling, Idle, SchedulerNotBlocked, Caller
  <1>2. ASSUME NEW f \in Fd, ~Open(f) PROVE ctx[f] = Blank /\ reg[f] = Nobody
    <2>1. ctx[f] = Blank
      BY <1>2 DEF Inv, Contexts, ContextOK
    <2>2. \A d \in Dir : reg[f][d] = None
      BY <1>2, RegisteredIs DEF Inv, Registered, RegOK, Placed, PlaceOK
    <2>3. reg[f] \in [Dir -> Caller \cup {None}]
      BY TypeFacts DEF ContextTypes
    <2> QED
      BY <2>1, <2>2, <2>3 DEF Nobody
  <1> QED
    BY <1>1, <1>2 DEF ContextsExact, NothingLeftBehind, Inv, Registered

\* Of a program that takes no liberties no coroutine's call keeps the thread of
\* its scheduler in the kernel, whatever the interleaving of hooked calls, dup,
\* fcntl, connect and close on the descriptors of a description.
THEOREM NeverInTheKernel == Tame => (Spec => []SchedulerNotBlocked)
  <1> SUFFICES ASSUME Tame PROVE Spec => []SchedulerNotBlocked
    OBVIOUS
  <1> QED
    BY InvAtFirst, InvKept, InvImplies, PTL DEF Spec

\* HookCtx and SockCtx hold what is open and who waits: nothing is left for the
\* next file that gets a number, and each call that waits is registered for it.
THEOREM ContextsStayExact == Tame => (Spec => []ContextsExact)
  <1> SUFFICES ASSUME Tame PROVE Spec => []ContextsExact
    OBVIOUS
  <1> QED
    BY InvAtFirst, InvKept, InvImplies, PTL DEF Spec

\* What a step may do to where a call is.
ModeKept(c) ==
    pc'[c] # pc[c] =>
       /\ pc'[c] = "EAGAIN" => file[op[c].fd] \in asked
       /\ pc'[c] = "block" /\ op'[c].api \in Transfers => file[op[c].fd] \notin asked

LEMMA CallsKeepMode ==
    ASSUME Inv, NEW b \in Caller, NEW f \in Fd, NEW d \in Dir, NEW api \in Apis0, NEW timed \in BOOLEAN,
           NEW p \in {"direct", "mark", "try", "connecting", "block", "look"},
           p = "block" => api \notin Transfers,
           Calls(b, api, f, d, timed, p), NEW c \in Caller
    PROVE  ModeKept(c)
  <1>1. p \in Place /\ CallTypes
    BY TypeFacts DEF Place
  <1>2. /\ pc'[b] = p /\ op'[b] = [api |-> api, fd |-> f, dir |-> d, timed |-> timed]
        /\ \A a \in Caller : a # b => pc'[a] = pc[a] /\ op'[a] = op[a]
    BY <1>1, CallsIs
  <1> QED
    BY <1>2 DEF ModeKept

LEMMA BeginKeepsMode ==
    ASSUME Inv, NEW b \in Caller, Begin(b), NEW c \in Caller
    PROVE  ModeKept(c)
  <1>1. ASSUME NEW f \in Fd, NEW d \in Dir, NEW api \in Moving, BeginDirect(b, api, f, d)
        PROVE  ModeKept(c)
    <2>1. Calls(b, api, f, d, FALSE, "direct") /\ api \in Apis0
      BY <1>1 DEF BeginDirect, Moving, Apis0
    <2> QED
      BY <2>1, CallsKeepMode
  <1>2. ASSUME NEW f \in Fd, NEW d \in Dir, NEW api \in Transfers, BeginTransfer(b, api, f, d)
        PROVE  ModeKept(c)
    <2>1. PICK p \in {"mark", "try"} : Calls(b, api, f, d, FALSE, p)
      BY <1>2 DEF BeginTransfer
    <2> QED
      BY <2>1, CallsKeepMode DEF Apis0
  <1>3. ASSUME NEW f \in Fd, BeginConnect(b, f) PROVE ModeKept(c)
    <2>1. ("w" \in ctx[f].timeout) \in BOOLEAN
      BY ONLY TestIsBoolean
    <2>2. PICK timed \in BOOLEAN : Calls(b, "connect", f, "w", timed, "connecting")
      BY <1>3, <2>1 DEF BeginConnect
    <2>3. "connect" \in Apis0 /\ "w" \in Dir
      BY DEF Apis0, Dir
    <2> QED
      BY <2>2, <2>3, CallsKeepMode
  <1>4. ASSUME NEW f \in Fd, NEW d \in Dir, NEW timed \in BOOLEAN, NEW api \in {"poll", "epoll_wait"},
               BeginWait(b, api, f, d, timed)
        PROVE  ModeKept(c)
    <2>1. Calls(b, api, f, d, timed, "block") /\ api \in Apis0 /\ api \notin Transfers
      BY <1>4 DEF BeginWait, Apis0, Transfers
    <2> QED
      BY <2>1, CallsKeepMode
  <1>5. ASSUME NEW f \in Fd, NEW d \in Dir, NEW timed \in BOOLEAN, BeginLook(b, f, d, timed)
        PROVE  ModeKept(c)
    <2>1. Calls(b, "select", f, d, timed, "look") /\ "select" \in Apis0
      BY <1>5 DEF BeginLook, Apis0
    <2> QED
      BY <2>1, CallsKeepMode
  <1> QED
    BY <1>1, <1>2, <1>3, <1>4, <1>5 DEF Begin, Moving

LEMMA StepKeepsMode ==
    ASSUME Inv, NEW b \in Caller, Step(b), NEW c \in Caller
    PROVE  ModeKept(c)
  <1>0. CallTypes
    BY TypeFacts
  <1>1. CASE Block(b)
    BY <1>0, <1>1 DEF Block, CallTypes, ModeKept
  <1>2. ASSUME NEW p \in Place, Goes(b, p),
               p = "EAGAIN" => Target(b) \in asked,
               p = "block" /\ op[b].api \in Transfers => Target(b) \notin asked
        PROVE  ModeKept(c)
    <2>1. /\ pc'[b] = p /\ op'[b] = IF p \in Idle THEN NoOp ELSE op[b]
          /\ \A a \in Caller : a # b => pc'[a] = pc[a] /\ op'[a] = op[a]
      BY <1>0, <1>2, GoesIs
    <2> QED
      BY <1>2, <2>1 DEF ModeKept, Idle, Target
  <1>3. CASE Again(b)
    <2>1. pc[b] = "direct" => (Target(b) \in knb => Target(b) \in asked)
      BY DEF Inv, Modes, ModeOK
    <2>2. pc[b] = "try" => Target(b) \notin asked
      BY DEF Inv, Placed, PlaceOK, Modes, ModeOK, Calling, Idle, Hooked, Steps, Moving
    <2>3. \E p \in {"stuck", "block", "EAGAIN"} :
             /\ Goes(b, p)
             /\ p = "EAGAIN" => Target(b) \in asked
             /\ p = "block" => Target(b) \notin asked
      BY <1>3, <2>1, <2>2 DEF Again, Target
    <2>4. {"stuck", "block", "EAGAIN"} \subseteq Place
      BY DEF Place, Idle
    <2> QED
      BY <1>2, <2>3, <2>4
  <1>4. CASE ConnectCall(b)
    <2>1. op[b].api \notin Transfers
      BY <1>4 DEF ConnectCall, Inv, Placed, PlaceOK, Calling, Idle, Transfers
    <2>2. "restore" \in Place /\ "block" \in Place
      BY DEF Place
    <2> QED
      BY <1>2, <1>4, <2>1, <2>2 DEF ConnectCall
  <1>5. CASE ~Again(b) /\ ~ConnectCall(b) /\ ~Block(b)
    <2>1. \E p \in {"try", "idle", "restore", "look"} : Goes(b, p)
      BY <1>5
      DEF Step, Mark, Restore, Look, TransferDone, BlockFails, Wake, TimeOut, Resumes, AcceptDone
    <2>2. {"try", "idle", "restore", "look"} \subseteq Place
      BY DEF Place, Idle
    <2> QED
      BY <1>2, <2>1, <2>2
  <1> QED
    BY <1>1, <1>3, <1>4, <1>5

LEMMA ModesAreKept == Tame /\ Inv /\ [Next]_vars => \A c \in Caller : ModeKept(c)
  <1> SUFFICES ASSUME Inv, Tame, [Next]_vars, NEW c \in Caller PROVE ModeKept(c)
    OBVIOUS
  <1>1. CASE UNCHANGED vars
    BY <1>1 DEF vars, ModeKept
  <1>2. CASE ProgramStep
    BY <1>2, ProgramKeeps DEF CallsLeftAlone, ModeKept
  <1>3. ASSUME NEW b \in Caller, Begin(b) \/ Step(b) PROVE ModeKept(c)
    BY <1>3, BeginKeepsMode, StepKeepsMode
  <1> QED
    BY <1>1, <1>2, <1>3 DEF Next, ProgramStep

\* The program sees the mode it asked for, whatever mode the hooks have set:
\* EAGAIN comes only from what it has made non-blocking, and a transfer on that
\* never suspends.
THEOREM ModesSeen == Tame => (Spec => ModesKept)
  <1> SUFFICES ASSUME Tame PROVE Spec => ModesKept
    OBVIOUS
  <1>1. Inv /\ [Next]_vars => [\A c \in Caller : pc'[c] # pc[c] =>
          /\ pc'[c] = "EAGAIN" => file[op[c].fd] \in asked
          /\ pc'[c] = "block" /\ op'[c].api \in Transfers => file[op[c].fd] \notin asked]_vars
    BY ModesAreKept DEF ModeKept
  <1> QED
    BY <1>1, InvAtFirst, InvKept, PTL DEF Spec, ModesKept

-----------------------------------------------------------------------------
(***************************************************************************)
(* Time in a scheduler (Timers), for any coroutines and any width of the   *)
(* numbers.  A program may ask for any time; only what the loop and the    *)
(* sleeps promise depends on it.  The invariant speaks of the entries of   *)
(* _timer as a set, and the lemmas on lists say what the three operations  *)
(* of the map do to the set and to the order.                              *)
(***************************************************************************)
\* An entry of _timer: the coroutine it is for and its deadline.
Entry == [co : Sleeper, at : Nat]
Entries(l) == {l[i] : i \in 1..Len(l)}

\* A list in order, with one entry of each.
Ordered(l) == \A i, j \in 1..Len(l) : i < j => l[i].at <= l[j].at /\ l[i].co # l[j].co

\* m is l with e at place i.
Inserted(S, l, i, e, m) ==
    /\ m \in Seq(S) /\ Len(m) = Len(l) + 1 /\ m[i] = e
    /\ \A j \in 1..i - 1 : m[j] = l[j]
    /\ \A j \in i + 1..Len(m) : m[j] = l[j - 1]

\* What InsertAt of the community modules does to a list: the model of
\* emplace_hint() in add_timer().
LEMMA InsertedIs ==
    ASSUME NEW S, NEW l \in Seq(S), NEW i \in 1..Len(l) + 1, NEW e \in S, NEW m, m = InsertAt(l, i, e)
    PROVE  Inserted(S, l, i, e, m)
<1>1. PICK a, b, c : a = SubSeq(l, 1, i - 1) /\ b = SubSeq(l, i, Len(l)) /\ c = <<e>>
  OBVIOUS
<1>2. /\ a \in Seq(S) /\ Len(a) = i - 1 /\ \A j \in 1..i - 1 : a[j] = l[j]
      /\ b \in Seq(S) /\ Len(b) = Len(l) - i + 1 /\ \A j \in 1..Len(b) : b[j] = l[i + j - 1]
      /\ c \in Seq(S) /\ Len(c) = 1 /\ c[1] = e
  BY <1>1
<1>3. m = (a \o c) \o b
  BY <1>1 DEF InsertAt
<1>4. PICK d : d = a \o c
  OBVIOUS
<1>0. i \in Nat \ {0} /\ Len(l) \in Nat /\ i <= Len(l) + 1
  OBVIOUS
<1>5. /\ d \in Seq(S) /\ Len(d) = i
      /\ \A j \in 1..i : d[j] = IF j <= i - 1 THEN a[j] ELSE c[j - (i - 1)]
  <2>1. /\ d \in Seq(S) /\ Len(d) = Len(a) + Len(c)
        /\ \A j \in 1..Len(a) + Len(c) : d[j] = IF j <= Len(a) THEN a[j] ELSE c[j - Len(a)]
    <3>1. a \in Seq(S) /\ c \in Seq(S) /\ d = a \o c
      BY ONLY <1>2, <1>4
    <3> QED
      BY ONLY <3>1, ConcatProperties
  <2> QED
    BY ONLY <1>0, <1>2, <2>1
<1>6. /\ m \in Seq(S) /\ Len(m) = Len(l) + 1
      /\ \A j \in 1..Len(l) + 1 : m[j] = IF j <= i THEN d[j] ELSE b[j - i]
  <2>1. /\ m \in Seq(S) /\ Len(m) = Len(d) + Len(b)
        /\ \A j \in 1..Len(d) + Len(b) : m[j] = IF j <= Len(d) THEN d[j] ELSE b[j - Len(d)]
    <3>1. d \in Seq(S) /\ b \in Seq(S) /\ m = d \o b
      BY ONLY <1>2, <1>3, <1>4, <1>5
    <3> QED
      BY ONLY <3>1, ConcatProperties
  <2>2. Len(d) + Len(b) = Len(l) + 1
    BY ONLY <1>0, <1>2, <1>5
  <2> QED
    BY ONLY <1>5, <2>1, <2>2
<1>9. m[i] = e
  <2>1. i \in 1..i /\ ~(i <= i - 1) /\ i - (i - 1) = 1 /\ i \in 1..Len(l) + 1 /\ i <= i
    BY ONLY <1>0
  <2> QED
    BY <1>2, <1>5, <1>6, <2>1
<1>10. ASSUME NEW j \in 1..i - 1 PROVE m[j] = l[j]
  <2>1. j \in 1..i /\ j \in 1..Len(l) + 1 /\ j <= i /\ j <= i - 1
    BY <1>0
  <2> QED
    BY <1>2, <1>5, <1>6, <2>1
<1>8. ASSUME NEW j \in i + 1..Len(m) PROVE m[j] = l[j - 1]
  <2>1. j - i \in 1..Len(b) /\ i + (j - i) - 1 = j - 1 /\ j \in 1..Len(l) + 1 /\ ~(j <= i)
    BY <1>0, <1>2, <1>6
  <2> QED
    BY <1>2, <1>6, <2>1
<1> QED
  BY <1>6, <1>8, <1>9, <1>10 DEF Inserted

\* What RemoveAt does to a list: the erase() in del_timer().
LEMMA RemovedIs ==
    ASSUME NEW S, NEW l \in Seq(S), NEW i \in 1..Len(l), NEW m, m = RemoveAt(l, i)
    PROVE  /\ m \in Seq(S) /\ Len(m) = Len(l) - 1
           /\ \A j \in 1..i - 1 : m[j] = l[j]
           /\ \A j \in i..Len(m) : m[j] = l[j + 1]
<1>1. PICK a, b : a = SubSeq(l, 1, i - 1) /\ b = SubSeq(l, i + 1, Len(l))
  OBVIOUS
<1>2. /\ a \in Seq(S) /\ Len(a) = i - 1 /\ \A j \in 1..i - 1 : a[j] = l[j]
      /\ b \in Seq(S) /\ Len(b) = Len(l) - i /\ \A j \in 1..Len(b) : b[j] = l[i + j]
  BY <1>1
<1>3. m = a \o b
  BY <1>1 DEF RemoveAt
<1>4. m \in Seq(S) /\ Len(m) = Len(l) - 1
  BY <1>2, <1>3
<1>5. /\ \A j \in 1..i - 1 : m[j] = a[j]
      /\ \A j \in i..Len(m) : m[j] = b[j - i + 1]
  BY <1>2, <1>3, <1>4
<1>6. ASSUME NEW j \in i..Len(m) PROVE m[j] = l[j + 1]
  <2>1. j - i + 1 \in 1..Len(b) /\ i + (j - i + 1) = j + 1
    BY <1>2, <1>4
  <2> QED
    BY <1>2, <1>5, <2>1
<1> QED
  BY <1>2, <1>4, <1>5, <1>6

\* The list without its first n elements, as check_timeout() leaves it.
LEMMA RestIs ==
    ASSUME NEW S, NEW l \in Seq(S), NEW n \in 0..Len(l), NEW m, m = SubSeq(l, n + 1, Len(l))
    PROVE  m \in Seq(S) /\ Len(m) = Len(l) - n /\ \A j \in 1..Len(m) : m[j] = l[n + j]
<1>1. /\ m \in Seq(S) /\ Len(m) = Len(l) - n
      /\ \A j \in 1..Len(m) : m[j] = l[(n + 1) + j - 1]
  OBVIOUS
<1>2. ASSUME NEW j \in 1..Len(m) PROVE m[j] = l[n + j]
  <2>1. (n + 1) + j - 1 = n + j
    OBVIOUS
  <2> QED
    BY ONLY <1>1, <2>1
<1> QED
  BY ONLY <1>1, <1>2

\* What Ordered and Entries say: every coroutine has one entry of _timer.
LEMMA OrderedIs ==
    ASSUME NEW l \in Seq(Entry), Ordered(l)
    PROVE  /\ Entries(l) \subseteq Entry
           /\ \A e, f \in Entries(l) : e.co = f.co => e = f
           /\ \A c : c \in Owners(l) <=> \E e \in Entries(l) : e.co = c
           /\ \A c \in Owners(l) : c \in Sleeper
<1>1. \A i \in 1..Len(l) : l[i] \in Entry
  OBVIOUS
<1>3. \A e \in Entry : e.co \in Sleeper
  BY DEF Entry
<1>2. ASSUME NEW i \in 1..Len(l), NEW j \in 1..Len(l), l[i].co = l[j].co PROVE i = j
  BY <1>2 DEF Ordered
<1> QED
  BY <1>1, <1>2, <1>3 DEF Entries, Owners

\* add_timer() keeps the order and adds the one entry.
LEMMA EntriesAdded ==
    ASSUME NEW l \in Seq(Entry), Ordered(l), NEW e \in Entry, e.co \notin Owners(l), NEW i \in 1..Len(l) + 1,
           \A j \in 1..i - 1 : l[j].at <= e.at, \A j \in i..Len(l) : l[j].at >= e.at,
           NEW m, m = InsertAt(l, i, e)
    PROVE  m \in Seq(Entry) /\ Ordered(m) /\ Entries(m) = Entries(l) \cup {e}
<1>1. /\ m \in Seq(Entry) /\ Len(m) = Len(l) + 1 /\ m[i] = e
      /\ \A j \in 1..i - 1 : m[j] = l[j]
      /\ \A j \in i + 1..Len(m) : m[j] = l[j - 1]
  <2>1. l \in Seq(Entry) /\ i \in 1..Len(l) + 1 /\ e \in Entry /\ m = InsertAt(l, i, e)
    OBVIOUS
  <2>2. Inserted(Entry, l, i, e, m)
    BY ONLY <2>1, InsertedIs
  <2> QED
    BY ONLY <2>2 DEF Inserted
<1>2. \A j \in 1..Len(l) : l[j] \in Entry /\ l[j].at \in Nat /\ l[j].co # e.co
  <2>1. \A j \in 1..Len(l) : l[j] \in Entry
    BY ONLY l \in Seq(Entry)
  <2>2. \A f \in Entry : f.at \in Nat
    BY DEF Entry
  <2>3. \A j \in 1..Len(l) : l[j].co # e.co
    BY DEF Owners
  <2> QED
    BY ONLY <2>1, <2>2, <2>3
<1>3. e.at \in Nat
  BY DEF Entry
<1>4. Ordered(m)
  <2> SUFFICES ASSUME NEW j \in 1..Len(m), NEW k \in 1..Len(m), j < k
               PROVE  m[j].at <= m[k].at /\ m[j].co # m[k].co
    BY DEF Ordered
  <2>1. CASE k < i
    <3>1. j \in 1..i - 1 /\ k \in 1..i - 1 /\ j \in 1..Len(l) /\ k \in 1..Len(l)
      BY <1>1, <2>1
    <3>2. m[j] = l[j] /\ m[k] = l[k]
      BY ONLY <1>1, <3>1
    <3>3. l[j].at <= l[k].at /\ l[j].co # l[k].co
      BY <3>1 DEF Ordered
    <3> QED
      BY ONLY <3>2, <3>3
  <2>2. CASE k = i
    <3>1. j \in 1..i - 1 /\ j \in 1..Len(l)
      BY <1>1, <2>2
    <3> QED
      BY <1>1, <1>2, <2>2, <3>1
  <2>3. CASE k > i /\ j < i
    <3>1. j \in 1..i - 1 /\ j \in 1..Len(l) /\ k \in i + 1..Len(m) /\ k - 1 \in 1..Len(l) /\ j < k - 1
      BY <1>1, <2>3
    <3>2. m[j] = l[j] /\ m[k] = l[k - 1]
      BY ONLY <1>1, <3>1
    <3>3. l[j].at <= l[k - 1].at /\ l[j].co # l[k - 1].co
      BY <3>1 DEF Ordered
    <3> QED
      BY ONLY <3>2, <3>3
  <2>4. CASE k > i /\ j = i
    <3>1. k \in i + 1..Len(m) /\ k - 1 \in i..Len(l) /\ k - 1 \in 1..Len(l)
      BY <1>1, <2>4
    <3>2. m[k] = l[k - 1] /\ m[j] = e
      BY <1>1, <2>4, <3>1
    <3>3. l[k - 1].at >= e.at /\ l[k - 1].at \in Nat /\ l[k - 1].co # e.co
      BY <1>2, <3>1
    <3> QED
      BY <1>3, <3>2, <3>3
  <2>5. CASE k > i /\ j > i
    <3>1. /\ k \in i + 1..Len(m) /\ k - 1 \in 1..Len(l)
          /\ j \in i + 1..Len(m) /\ j - 1 \in 1..Len(l) /\ j - 1 < k - 1
      BY <1>1, <2>5
    <3>2. m[j] = l[j - 1] /\ m[k] = l[k - 1]
      BY ONLY <1>1, <3>1
    <3>3. l[j - 1].at <= l[k - 1].at /\ l[j - 1].co # l[k - 1].co
      BY <3>1 DEF Ordered
    <3> QED
      BY ONLY <3>2, <3>3
  <2> QED
    BY <2>1, <2>2, <2>3, <2>4, <2>5
<1>5. ASSUME NEW f \in Entries(m) PROVE f \in Entries(l) \cup {e}
  <2>1. PICK j \in 1..Len(m) : f = m[j]
    BY DEF Entries
  <2>2. j < i => j \in 1..i - 1 /\ j \in 1..Len(l)
    BY <1>1
  <2>3. j > i => j \in i + 1..Len(m) /\ j - 1 \in 1..Len(l)
    BY <1>1
  <2>4. j < i \/ j = i \/ j > i
    OBVIOUS
  <2> QED
    BY <1>1, <2>1, <2>2, <2>3, <2>4 DEF Entries
<1>6. ASSUME NEW f \in Entries(l) PROVE f \in Entries(m)
  <2>1. PICK j \in 1..Len(l) : f = l[j]
    BY DEF Entries
  <2>2. j < i => j \in 1..i - 1 /\ j \in 1..Len(m)
    BY <1>1
  <2>3. j >= i => j + 1 \in i + 1..Len(m) /\ j + 1 \in 1..Len(m) /\ (j + 1) - 1 = j
    BY <1>1
  <2>4. j < i \/ j >= i
    OBVIOUS
  <2>5. \E k \in 1..Len(m) : m[k] = l[j]
    BY <1>1, <2>2, <2>3, <2>4
  <2> QED
    BY <2>1, <2>5 DEF Entries
<1>7. e \in Entries(m)
  <2>1. i \in 1..Len(m)
    BY <1>1
  <2> QED
    BY <1>1, <2>1 DEF Entries
<1> QED
  BY <1>1, <1>4, <1>5, <1>6, <1>7

\* del_timer() leaves the others, in their order.
LEMMA EntriesRemoved ==
    ASSUME NEW l \in Seq(Entry), Ordered(l), NEW i \in 1..Len(l), NEW m, m = RemoveAt(l, i)
    PROVE  m \in Seq(Entry) /\ Ordered(m) /\ Entries(m) = {e \in Entries(l) : e.co # l[i].co}
<1>1. /\ m \in Seq(Entry) /\ Len(m) = Len(l) - 1
      /\ \A j \in 1..i - 1 : m[j] = l[j]
      /\ \A j \in i..Len(m) : m[j] = l[j + 1]
  BY RemovedIs
<1>2. ASSUME NEW j \in 1..Len(m)
      PROVE  \E k \in 1..Len(l) : m[j] = l[k] /\ k # i /\ ((k = j /\ j < i) \/ (k = j + 1 /\ j >= i))
  <2>1. CASE j < i
    <3>1. j \in 1..i - 1 /\ j \in 1..Len(l)
      BY <1>1, <2>1
    <3> QED
      BY <1>1, <2>1, <3>1
  <2>2. CASE j >= i
    <3>1. j \in i..Len(m) /\ j + 1 \in 1..Len(l) /\ j + 1 # i
      BY <1>1, <2>2
    <3> QED
      BY <1>1, <2>2, <3>1
  <2> QED
    BY <2>1, <2>2
<1>3. ASSUME NEW k \in 1..Len(l), k # i PROVE \E j \in 1..Len(m) : m[j] = l[k]
  <2>1. CASE k < i
    <3>1. k \in 1..i - 1 /\ k \in 1..Len(m)
      BY <1>1, <2>1
    <3> QED
      BY <1>1, <3>1
  <2>2. CASE k > i
    <3>1. k - 1 \in i..Len(m) /\ k - 1 \in 1..Len(m) /\ (k - 1) + 1 = k
      BY <1>1, <2>2
    <3> QED
      BY <1>1, <3>1
  <2> QED
    BY <1>3, <2>1, <2>2
<1>4. \A k \in 1..Len(l) : k # i <=> l[k].co # l[i].co
  BY DEF Ordered
<1>5. Ordered(m)
  <2> SUFFICES ASSUME NEW j \in 1..Len(m), NEW k \in 1..Len(m), j < k
               PROVE  m[j].at <= m[k].at /\ m[j].co # m[k].co
    BY DEF Ordered
  <2>1. PICK g, h \in 1..Len(l) : g < h /\ m[j] = l[g] /\ m[k] = l[h]
    <3>1. PICK g \in 1..Len(l) : m[j] = l[g] /\ ((g = j /\ j < i) \/ (g = j + 1 /\ j >= i))
      BY <1>2
    <3>2. PICK h \in 1..Len(l) : m[k] = l[h] /\ ((h = k /\ k < i) \/ (h = k + 1 /\ k >= i))
      BY <1>2
    <3>3. g < h
      BY <3>1, <3>2
    <3> QED
      BY <3>1, <3>2, <3>3
  <2> QED
    BY <2>1 DEF Ordered
<1>6. \A f : f \in Entries(m) <=> \E j \in 1..Len(m) : m[j] = f
  BY DEF Entries
<1>7. \A f : f \in Entries(l) <=> \E j \in 1..Len(l) : l[j] = f
  BY DEF Entries
<1>8. \A f : f \in Entries(m) <=> f \in Entries(l) /\ f.co # l[i].co
  <2>1. ASSUME NEW f \in Entries(m) PROVE f \in Entries(l) /\ f.co # l[i].co
    BY <1>2, <1>4, <1>6, <1>7
  <2>2. ASSUME NEW f \in Entries(l), f.co # l[i].co PROVE f \in Entries(m)
    <3>1. PICK k \in 1..Len(l) : l[k] = f
      BY <1>7
    <3>2. k # i
      BY <2>2, <3>1
    <3> QED
      BY <1>3, <1>6, <3>1, <3>2
  <2> QED
    BY <2>1, <2>2
<1> QED
  BY <1>1, <1>5, <1>8

\* m is what check_timeout() leaves of l at time t, without the entries of gone.
Passed(l, m, gone, t) ==
    /\ m \in Seq(Entry) /\ Ordered(m)
    /\ \A f : f \in Entries(m) <=> f \in Entries(l) /\ f.co \notin gone
    /\ \A f \in Entries(l) : f.co \in gone <=> f.at <= t
    /\ m # <<>> => m[1] \in Entries(m) /\ \A f \in Entries(m) : m[1].at <= f.at

\* check_timeout() erases the first n entries: the ones whose time has come.
LEMMA EntriesPassed ==
    ASSUME NEW l \in Seq(Entry), Ordered(l), NEW n \in 0..Len(l), NEW t \in Nat,
           \A i \in 1..n : l[i].at <= t, n < Len(l) => l[n + 1].at > t,
           NEW m, m = SubSeq(l, n + 1, Len(l)), NEW gone, gone = {l[i].co : i \in 1..n}
    PROVE  Passed(l, m, gone, t)
<1>1. m \in Seq(Entry) /\ Len(m) = Len(l) - n /\ \A j \in 1..Len(m) : m[j] = l[n + j]
  <2>1. l \in Seq(Entry) /\ n \in 0..Len(l) /\ m = SubSeq(l, n + 1, Len(l))
    OBVIOUS
  <2> QED
    BY ONLY <2>1, RestIs
<1>2. \A j \in 1..Len(m) : n + j \in 1..Len(l) /\ n + j > n
  BY <1>1
<1>3. \A j \in 1..Len(l) : j > n => j - n \in 1..Len(m) /\ n + (j - n) = j
  BY <1>1
<1>4. \A j \in 1..Len(l) : l[j].at \in Nat
  <2>1. \A j \in 1..Len(l) : l[j] \in Entry
    BY ONLY l \in Seq(Entry)
  <2> QED
    BY <2>1 DEF Entry
<1>5. ASSUME NEW j \in 1..Len(l), j > n PROVE l[j].at > t /\ l[j].co \notin gone
  <2>1. n + 1 \in 1..Len(l) /\ l[n + 1].at > t
    BY <1>5
  <2>2. n + 1 = j \/ n + 1 < j
    BY <1>5
  <2>3. l[n + 1].at <= l[j].at
    <3>1. CASE n + 1 = j
      <4>1. l[n + 1] = l[j] /\ l[j].at \in Nat
        BY <1>4, <3>1
      <4> QED
        BY <4>1
    <3>2. CASE n + 1 < j
      BY <2>1, <3>2 DEF Ordered
    <3> QED
      BY <2>2, <3>1, <3>2
  <2>4. \A i \in 1..n : i \in 1..Len(l) /\ i < j
    BY <1>5
  <2>5. \A i \in 1..n : l[i].co # l[j].co
    BY <2>4 DEF Ordered
  <2> QED
    BY <1>4, <2>1, <2>3, <2>5
<1>6. ASSUME NEW j \in 1..Len(l), ~(j > n) PROVE l[j].at <= t /\ l[j].co \in gone
  BY <1>6
<1>7. Ordered(m)
  <2> SUFFICES ASSUME NEW j \in 1..Len(m), NEW k \in 1..Len(m), j < k
               PROVE  m[j].at <= m[k].at /\ m[j].co # m[k].co
    BY DEF Ordered
  <2>1. n + j \in 1..Len(l) /\ n + k \in 1..Len(l) /\ n + j < n + k
    BY <1>2
  <2> QED
    BY <1>1, <2>1 DEF Ordered
<1>8. \A f : f \in Entries(m) <=> \E j \in 1..Len(m) : m[j] = f
  BY DEF Entries
<1>9. \A f : f \in Entries(l) <=> \E j \in 1..Len(l) : l[j] = f
  BY DEF Entries
<1>10. ASSUME NEW f \in Entries(m) PROVE f \in Entries(l) /\ f.co \notin gone
  <2>1. PICK j \in 1..Len(m) : m[j] = f
    BY <1>8
  <2>2. n + j \in 1..Len(l) /\ n + j > n /\ l[n + j] = f
    BY <1>1, <1>2, <2>1
  <2> QED
    BY <1>5, <1>9, <2>2
<1>11. ASSUME NEW f \in Entries(l), f.co \notin gone PROVE f \in Entries(m)
  <2>1. PICK j \in 1..Len(l) : l[j] = f
    BY <1>9
  <2>2. j > n
    BY <1>6, <1>11, <2>1
  <2>3. j - n \in 1..Len(m) /\ m[j - n] = f
    BY <1>1, <1>3, <2>1, <2>2
  <2> QED
    BY <1>8, <2>3
<1>12. ASSUME NEW f \in Entries(l) PROVE f.co \in gone <=> f.at <= t
  <2>1. PICK j \in 1..Len(l) : l[j] = f
    BY <1>9
  <2> QED
    BY <1>4, <1>5, <1>6, <2>1
<1>13. ASSUME m # <<>> PROVE m[1] \in Entries(m) /\ \A f \in Entries(m) : m[1].at <= f.at
  <2>1. 1 \in 1..Len(m)
    BY <1>1, <1>13
  <2>2. ASSUME NEW f \in Entries(m) PROVE m[1].at <= f.at
    <3>1. PICK j \in 1..Len(m) : m[j] = f
      BY <1>8
    <3>2. j = 1 \/ 1 < j
      OBVIOUS
    <3>3. m[j].at \in Nat
      BY <1>1, <1>2, <1>4
    <3> QED
      BY <1>7, <2>1, <3>1, <3>2, <3>3 DEF Ordered
  <2> QED
    BY <1>8, <2>1, <2>2
<1> QED
  BY <1>1, <1>7, <1>10, <1>11, <1>12, <1>13 DEF Passed

\* A set of places has a first and a last one.
LEMMA Ends ==
    ASSUME NEW n \in Nat, NEW S \in SUBSET (1..n), S # {}
    PROVE  (\E i \in S : \A j \in S : i <= j) /\ (\E i \in S : \A j \in S : j <= i)
<1>1. ASSUME NEW T \in SUBSET Nat, T # {} PROVE \E i \in T : \A j \in T : i <= j
  <2>1. PICK i \in T : \A j \in T : ~(<<j, i>> \in OpToRel(<, Nat))
    BY <1>1, NatLessThanWellFounded, WFMin
  <2>2. \A j \in T : i <= j
    <3> TAKE j \in T
    <3>1. i \in Nat /\ j \in Nat
      OBVIOUS
    <3>2. j < i => <<j, i>> \in OpToRel(<, Nat)
      BY <3>1 DEF OpToRel
    <3>3. ~(j < i)
      BY <2>1, <3>2
    <3> QED
      BY ONLY <3>1, <3>3
  <2> QED
    BY <2>2
<1>2. \E i \in S : \A j \in S : i <= j
  <2>1. S \in SUBSET Nat
    OBVIOUS
  <2> QED
    BY ONLY <1>1, <2>1, S # {}
<1>3. \E i \in S : \A j \in S : j <= i
  <2>1. PICK T : T = {k \in Nat : k <= n /\ n - k \in S}
    OBVIOUS
  <2>2. T \in SUBSET Nat /\ \A k : k \in T <=> k \in Nat /\ k <= n /\ n - k \in S
    BY <2>1
  <2>3. \A i \in S : n - i \in T
    <3> TAKE i \in S
    <3>1. i \in 1..n /\ n - i \in Nat /\ n - i <= n /\ n - (n - i) = i
      OBVIOUS
    <3> QED
      BY <2>2, <3>1
  <2>4. T # {}
    BY <2>3
  <2>5. PICK k \in T : \A j \in T : k <= j
    BY ONLY <1>1, <2>2, <2>4
  <2>6. n - k \in S /\ k \in Nat
    BY <2>2
  <2>7. \A j \in S : j <= n - k
    <3> TAKE j \in S
    <3>1. k <= n - j /\ j \in Nat
      BY <2>3, <2>5
    <3> QED
      BY <2>6, <3>1
  <2> QED
    BY <2>6, <2>7
<1> QED
  BY <1>2, <1>3

\* Wherever the hint _it points, emplace_hint() keeps the order.
LEMMA PlaceIs ==
    ASSUME timer \in Seq(Entry), Ordered(timer), NEW at \in Nat, NEW i, i = PlaceFor(at)
    PROVE  /\ i \in 1..Len(timer) + 1
           /\ \A j \in 1..i - 1 : timer[j].at <= at
           /\ \A j \in i..Len(timer) : timer[j].at >= at
<1>1. PICK n \in Nat : n = Len(timer)
  OBVIOUS
<1>2. \A j \in 1..n : timer[j].at \in Nat
  <2>1. \A j \in 1..n : timer[j] \in Entry
    BY ONLY timer \in Seq(Entry), <1>1
  <2> QED
    BY <2>1 DEF Entry
<1>3. PICK fits : fits = {k \in 1..n + 1 : /\ \A j \in 1..k - 1 : timer[j].at <= at
                                         /\ \A j \in k..n : timer[j].at >= at}
  OBVIOUS
<1>4. fits # {}
  <2>1. PICK T : T = {k \in 1..n + 1 : \A j \in k..n : timer[j].at >= at}
    OBVIOUS
  <2>2. T \in SUBSET (1..n + 1) /\ \A k : k \in T <=> k \in 1..n + 1 /\ \A j \in k..n : timer[j].at >= at
    BY <2>1
  <2>3. n + 1 \in T
    BY <2>2
  <2>4. PICK k \in T : \A j \in T : k <= j
    <3>1. T # {} /\ n + 1 \in Nat
      BY <2>3
    <3> QED
      BY ONLY <2>2, <3>1, Ends
  <2>5. ASSUME NEW j \in 1..k - 1 PROVE timer[j].at <= at
    <3>1. k \in 1..n + 1 /\ k - 1 \in 1..n /\ k - 1 \notin T
      BY <2>2, <2>4
    <3>2. PICK h \in k - 1..n : ~(timer[h].at >= at)
      BY <2>2, <3>1
    <3>3. ~(h \in k..n)
      BY <2>2, <3>2
    <3>4. h = k - 1
      BY <3>1, <3>2, <3>3
    <3>5. j = h \/ j < h
      BY <3>1, <3>4
    <3>6. j \in 1..n /\ h \in 1..n
      BY <3>1, <3>4
    <3>7. timer[j].at <= timer[h].at
      <4>1. CASE j = h
        <5>1. timer[j] = timer[h] /\ timer[h].at \in Nat
          BY <1>2, <3>6, <4>1
        <5> QED
          BY <5>1
      <4>2. CASE j < h
        BY <1>1, <3>6, <4>2 DEF Ordered
      <4> QED
        BY <3>5, <4>1, <4>2
    <3>8. timer[j].at \in Nat /\ timer[h].at \in Nat
      BY <1>2, <3>6
    <3> QED
      BY ONLY <3>2, <3>7, <3>8, at \in Nat
  <2>6. k \in fits
    BY <1>3, <2>2, <2>5
  <2> QED
    BY <2>6
<1>5. i \in fits
  <2>1. PICK h : h = IF hint = End THEN n + 1 ELSE Pos(hint)
    OBVIOUS
  <2>2. i = IF h \in fits THEN h
            ELSE IF \A k \in fits : k < h THEN CHOOSE k \in fits : \A j \in fits : j <= k
            ELSE CHOOSE k \in fits : \A j \in fits : k <= j
    BY <1>1, <1>3, <2>1 DEF PlaceFor
  <2>3. (\E k \in fits : \A j \in fits : k <= j) /\ (\E k \in fits : \A j \in fits : j <= k)
    <3>1. fits \in SUBSET (1..n + 1) /\ n + 1 \in Nat
      BY <1>3
    <3> QED
      BY ONLY <1>4, <3>1, Ends
  <2> QED
    BY ONLY <2>2, <2>3
<1> QED
  BY <1>1, <1>3, <1>5

-----------------------------------------------------------------------------
\* The states of a coroutine.
States == {"runs", "sleeps", "waits", "won"}

\* What the variables hold.
Typed ==
    /\ now \in Nat /\ checked \in Nat /\ checked <= now
    /\ waitMs \in 0..Forever
    /\ st \in [Sleeper -> States]
    /\ nap \in [Sleeper -> [t : Nat, x : Nat]]
    /\ since \in [Sleeper -> Nat] /\ want \in [Sleeper -> Nat]
    /\ \A c \in Sleeper : since[c] <= now

\* Who has an entry, and who is there by co->it.
Listed ==
    /\ timer \in Seq(Entry) /\ Ordered(timer)
    /\ hint \in Owners(timer) \cup {End}
    /\ it \subseteq Owners(timer)
    /\ \A c \in Sleeper : st[c] \in {"sleeps", "waits"} => c \in Owners(timer)
    /\ \A c \in Owners(timer) : st[c] = "sleeps" \/ (st[c] \in {"waits", "won"} /\ c \in it)

\* Who polls runs or naps, for a millisecond at least.
Napping == \A c \in Sleeper : nap[c] # NoNap => nap[c].x # 0 /\ st[c] \in {"runs", "sleeps"}

\* The part of the invariant that needs nothing of the program.
TimersInv == Typed /\ Listed /\ Napping

\* The timeouts _wait_ms can hold, and half of them are ints.
LEMMA ForeverIs == Forever \in Nat \ {0} /\ MaxMs \in Nat \ {0} /\ MaxMs < Word /\ MaxMs < Forever
<1>1. Word \in Nat /\ Word > 2
  BY TimersAssumption
<1> QED
  BY <1>1 DEF Forever, MaxMs

\* add_timer() adds an entry and loses none, and its hint is the new entry.
LEMMA AddListed ==
    ASSUME Typed, Listed, NEW c \in Sleeper, st[c] = "runs", NEW ms \in Nat,
           NEW e, e = [co |-> c, at |-> now + ms],
           timer' = InsertAt(timer, PlaceFor(now + ms), e), hint' = c,
           NEW s, st' = [st EXCEPT ![c] = s],
           (s = "sleeps" /\ it' = it) \/ (s = "waits" /\ it' = it \cup {c})
    PROVE  Listed' /\ Entries(timer') = Entries(timer) \cup {e}
<1>1. PICK l : l = timer
  OBVIOUS
<1>2. PICK i : i = PlaceFor(now + ms)
  OBVIOUS
<1>3. PICK m : m = timer'
  OBVIOUS
<1>4. l \in Seq(Entry) /\ Ordered(l) /\ e \in Entry /\ e.co = c /\ e.at = now + ms /\ now + ms \in Nat
  BY <1>1 DEF Listed, Typed, Entry
<1>5. c \notin Owners(l)
  BY <1>1 DEF Listed
<1>6. /\ i \in 1..Len(l) + 1
      /\ \A j \in 1..i - 1 : l[j].at <= e.at
      /\ \A j \in i..Len(l) : l[j].at >= e.at
  BY <1>1, <1>2, <1>4, PlaceIs
<1>7. m \in Seq(Entry) /\ Ordered(m) /\ Entries(m) = Entries(l) \cup {e}
  <2>1. m = InsertAt(l, i, e)
    BY <1>1, <1>2, <1>3
  <2> QED
    BY ONLY <1>4, <1>5, <1>6, <2>1, EntriesAdded
<1>8. \A b : b \in Owners(m) <=> b \in Owners(l) \/ b = c
  BY <1>4, <1>7, OrderedIs
<1>9. st'[c] = s /\ \A b \in Sleeper : b # c => st'[b] = st[b]
  BY DEF Typed
<1>10. Listed'
  <2>1. timer' \in Seq(Entry) /\ Ordered(timer')
    BY <1>3, <1>7
  <2>2. hint' \in Owners(timer') \cup {End}
    BY <1>3, <1>8
  <2>3. it' \subseteq Owners(timer')
    BY <1>1, <1>3, <1>8 DEF Listed
  <2>4. \A b \in Sleeper : st'[b] \in {"sleeps", "waits"} => b \in Owners(timer')
    BY <1>1, <1>3, <1>8, <1>9 DEF Listed
  <2>5. \A b \in Owners(timer') : b \in Sleeper
    BY <1>3, <1>7, OrderedIs
  <2>6. \A b \in Owners(timer') : st'[b] = "sleeps" \/ (st'[b] \in {"waits", "won"} /\ b \in it')
    BY <1>1, <1>3, <1>8, <1>9, <2>5 DEF Listed
  <2> QED
    BY <2>1, <2>2, <2>3, <2>4, <2>6 DEF Listed
<1> QED
  BY <1>1, <1>3, <1>7, <1>10

\* A step that changes neither the map nor who waits.
LEMMA KeepsListed ==
    ASSUME Listed, UNCHANGED <<timer, hint, it, st>>
    PROVE  Listed' /\ Entries(timer') = Entries(timer)
  BY DEF Listed

\* A waker that wins the waitx leaves the entry to resume(), which finds it by
\* co->it.
LEMMA WonListed ==
    ASSUME Typed, Listed, NEW c \in Sleeper, Won(c)
    PROVE  Listed' /\ Entries(timer') = Entries(timer)
<1>1. st'[c] = "won" /\ \A b \in Sleeper : b # c => st'[b] = st[b]
  BY DEF Won, Typed
<1>2. timer' = timer /\ hint' = hint /\ it' = it /\ st[c] = "waits"
  BY DEF Won
<1>3. \A b \in Owners(timer) : b \in Sleeper
  BY OrderedIs DEF Listed
<1>4. \A b \in Sleeper : st'[b] \in {"sleeps", "waits"} => b \in Owners(timer)
  BY <1>1 DEF Listed
<1>5. \A b \in Owners(timer) : st'[b] = "sleeps" \/ (st'[b] \in {"waits", "won"} /\ b \in it)
  BY <1>1, <1>2, <1>3 DEF Listed
<1> QED
  BY <1>2, <1>4, <1>5 DEF Listed

\* The place of a coroutine's entry is where its entry is.
LEMMA PosIs ==
    ASSUME NEW c, c \in Owners(timer), timer \in Seq(Entry)
    PROVE  Pos(c) \in 1..Len(timer) /\ timer[Pos(c)].co = c
<1>1. \E i \in 1..Len(timer) : timer[i].co = c
  BY DEF Owners
<1> QED
  BY <1>1 DEF Pos

\* resume() erases the entry of the coroutine, and the hint _it goes on to the
\* next.
LEMMA ResumeListed ==
    ASSUME Typed, Listed, NEW c \in Sleeper, Resume(c)
    PROVE  Listed' /\ \A e : e \in Entries(timer') <=> e \in Entries(timer) /\ e.co # c
<1>1. st[c] = "won" /\ st'[c] = "runs" /\ \A b \in Sleeper : b # c => st'[b] = st[b]
  BY DEF Resume, Typed
<1>2. it' = it \ {c}
  BY DEF Resume
<1>3. PICK l, m : l = timer /\ m = timer'
  OBVIOUS
<1>4. /\ l \in Seq(Entry) /\ Ordered(l) /\ \A b \in Owners(l) : b \in Sleeper
      /\ \A b : b \in Owners(l) <=> \E e \in Entries(l) : e.co = b
  BY <1>3, OrderedIs DEF Listed
<1>5. c \in it <=> c \in Owners(l)
  BY <1>1, <1>3 DEF Listed
<1>6. /\ m \in Seq(Entry) /\ Ordered(m)
      /\ \A e : e \in Entries(m) <=> e \in Entries(l) /\ e.co # c
      /\ hint' \in Owners(m) \cup {End}
  <2>1. CASE c \notin it
    <3>1. m = l /\ hint' = hint
      BY <1>3, <2>1 DEF Resume
    <3>2. \A e \in Entries(l) : e.co # c
      BY <1>4, <1>5, <2>1
    <3> QED
      BY <1>3, <1>4, <3>1, <3>2 DEF Listed
  <2>2. CASE c \in it
    <3>1. PICK i : i = Pos(c)
      OBVIOUS
    <3>2. i \in 1..Len(l) /\ l[i].co = c
      BY <1>3, <1>4, <1>5, <2>2, <3>1, PosIs
    <3>3. m = RemoveAt(l, i) /\ hint' = IF hint # c THEN hint ELSE IF i = Len(l) THEN End ELSE l[i + 1].co
      BY <1>3, <2>2, <3>1 DEF Resume, DelTimer
    <3>4. m \in Seq(Entry) /\ Ordered(m) /\ \A e : e \in Entries(m) <=> e \in Entries(l) /\ e.co # c
      <4>1. m \in Seq(Entry) /\ Ordered(m) /\ Entries(m) = {e \in Entries(l) : e.co # l[i].co}
        BY ONLY <1>4, <3>2, <3>3, EntriesRemoved
      <4> QED
        BY <3>2, <4>1
    <3>5. \A b : b \in Owners(m) <=> b \in Owners(l) /\ b # c
      BY <1>4, <3>4, OrderedIs
    <3>6. CASE hint # c
      BY <1>3, <3>3, <3>4, <3>5, <3>6 DEF Listed
    <3>7. CASE hint = c /\ i # Len(l)
      <4>1. i + 1 \in 1..Len(l) /\ i < i + 1
        BY <3>2, <3>7
      <4>2. l[i + 1].co \in Owners(l) /\ l[i + 1].co # c
        BY <1>4, <3>2, <4>1 DEF Ordered, Owners
      <4> QED
        BY <3>3, <3>4, <3>5, <3>7, <4>2
    <3>8. CASE hint = c /\ i = Len(l)
      BY <3>3, <3>4, <3>8
    <3> QED
      BY <3>4, <3>6, <3>7, <3>8
  <2> QED
    BY <2>1, <2>2
<1>7. \A b : b \in Owners(m) <=> b \in Owners(l) /\ b # c
  BY <1>4, <1>6, OrderedIs
<1>8. it' \subseteq Owners(m)
  BY <1>2, <1>3, <1>7 DEF Listed
<1>9. \A b \in Sleeper : st'[b] \in {"sleeps", "waits"} => b \in Owners(m)
  BY <1>1, <1>3, <1>7 DEF Listed
<1>10. \A b \in Owners(m) : st'[b] = "sleeps" \/ (st'[b] \in {"waits", "won"} /\ b \in it')
  BY <1>1, <1>2, <1>3, <1>4, <1>7 DEF Listed
<1> QED
  BY <1>3, <1>6, <1>8, <1>9, <1>10 DEF Listed

\* check_timeout() erases the entries whose time has come and resumes those who
\* still wait, and the hint goes on.
LEMMA TimedOutListed ==
    ASSUME Typed, Listed, NEW n \in 0..Len(timer), TimedOut(n)
    PROVE  /\ Listed'
           /\ \A e : e \in Entries(timer') <=> e \in Entries(timer) /\ e.at > now
           /\ \A e \in Entries(timer) : e.at <= now /\ st[e.co] # "won" => st'[e.co] = "runs"
           /\ \A c \in Sleeper : st'[c] # st[c] =>
                 st'[c] = "runs" /\ \E e \in Entries(timer) : e.co = c /\ e.at <= now
           /\ timer' # <<>> => /\ timer'[1] \in Entries(timer')
                               /\ \A e \in Entries(timer') : timer'[1].at <= e.at
<1>1. PICK l, m, gone : l = timer /\ m = timer' /\ gone = {timer[i].co : i \in 1..n}
  OBVIOUS
<1>2. /\ m = SubSeq(l, n + 1, Len(l))
      /\ hint' = IF hint \notin gone THEN hint ELSE IF m = <<>> THEN End ELSE m[1].co
      /\ it' = it \ gone
      /\ st' = [c \in Sleeper |-> IF c \in gone /\ st[c] # "won" THEN "runs" ELSE st[c]]
  BY <1>1 DEF TimedOut
<1>3. /\ l \in Seq(Entry) /\ Ordered(l) /\ Entries(l) \subseteq Entry
      /\ \A b : b \in Owners(l) <=> \E e \in Entries(l) : e.co = b
  BY <1>1, OrderedIs DEF Listed
<1>4. /\ m \in Seq(Entry) /\ Ordered(m)
      /\ \A f : f \in Entries(m) <=> f \in Entries(l) /\ f.co \notin gone
      /\ \A f \in Entries(l) : f.co \in gone <=> f.at <= now
      /\ m # <<>> => m[1] \in Entries(m) /\ \A f \in Entries(m) : m[1].at <= f.at
  <2>1. n \in 0..Len(l) /\ (\A i \in 1..n : l[i].at <= now) /\ (n < Len(l) => l[n + 1].at > now)
    BY <1>1 DEF TimedOut
  <2>2. now \in Nat /\ gone = {l[i].co : i \in 1..n}
    BY <1>1 DEF Typed
  <2>3. m = SubSeq(l, n + 1, Len(l)) /\ l \in Seq(Entry) /\ Ordered(l)
    BY <1>2, <1>3
  <2>4. Passed(l, m, gone, now)
    BY ONLY <2>1, <2>2, <2>3, EntriesPassed
  <2> QED
    BY ONLY <2>4 DEF Passed
<1>5. \A b : b \in Owners(m) <=> b \in Owners(l) /\ b \notin gone
  BY <1>3, <1>4, OrderedIs
<1>6. \A b \in Sleeper : st'[b] = IF b \in gone /\ st[b] # "won" THEN "runs" ELSE st[b]
  BY <1>2
<1>7. \A e \in Entries(l) : e.at \in Nat /\ e.co \in Sleeper
  BY <1>3 DEF Entry
<1>8. \A b \in gone : b \in Owners(l) /\ \E e \in Entries(l) : e.co = b /\ e.at <= now
  <2> TAKE b \in gone
  <2>1. PICK i \in 1..n : b = l[i].co
    BY <1>1
  <2>2. i \in 1..Len(l)
    BY <1>1
  <2>3. l[i] \in Entries(l)
    BY <2>2 DEF Entries
  <2> QED
    BY <1>3, <1>4, <2>1, <2>3
<1>9. Listed'
  <2>1. hint' \in Owners(m) \cup {End}
    <3>1. m # <<>> => m[1].co \in Owners(m)
      BY <1>4, OrderedIs
    <3> QED
      BY <1>1, <1>2, <1>5, <3>1 DEF Listed
  <2>2. it' \subseteq Owners(m)
    BY <1>1, <1>2, <1>5 DEF Listed
  <2>3. \A b \in Sleeper : st'[b] \in {"sleeps", "waits"} => b \in Owners(m)
    BY <1>1, <1>5, <1>6 DEF Listed
  <2>4. \A b \in Owners(m) : st'[b] = "sleeps" \/ (st'[b] \in {"waits", "won"} /\ b \in it')
    BY <1>1, <1>2, <1>3, <1>5, <1>6, <1>7 DEF Listed
  <2> QED
    BY <1>1, <1>4, <2>1, <2>2, <2>3, <2>4 DEF Listed
<1>10. \A e : e \in Entries(m) <=> e \in Entries(l) /\ e.at > now
  <2>1. now \in Nat
    BY DEF Typed
  <2> QED
    BY <1>4, <1>7, <2>1
<1> QED
  BY <1>1, <1>4, <1>6, <1>7, <1>8, <1>9, <1>10

-----------------------------------------------------------------------------
\* No sleep(n) is of 2^32 ms or more, which the hook multiplies without a check.
NoWrap == \A n \in Seconds : n * Unit < Word

\* No time in milliseconds is above MaxMs, as epoll_wait takes an int; the longest
\* nap is a power of two (it is 16 in the code).
ShortDelays ==
    /\ \A ms \in Delays : ms <= MaxMs
    /\ \A n \in Seconds : (n * Unit) % Word <= MaxMs
    /\ Cap \in {1, 2, 4, 8, 16} /\ Cap <= MaxMs
    /\ EndlessSelect = FALSE

\* The deadline of whoever sleeps is not too early, counting what is left to poll.
LongEnough ==
    /\ \A e \in Entries(timer) : st[e.co] = "sleeps" => want[e.co] + since[e.co] <= e.at + nap[e.co].t
    /\ \A c \in Sleeper : st[c] = "runs" /\ nap[c] # NoNap => want[c] + since[c] <= now + nap[c].t

\* _wait_ms, counted from the last check, ends before every deadline.
InTime == \A e \in Entries(timer) :
    waitMs <= MaxMs /\ checked + waitMs <= e.at /\ e.at <= now + MaxMs

\* The naps of poll() and select(), as they double.
Powers == {0, 1, 2, 4, 8, 16}

\* Naps are at most Cap milliseconds.
LooksSoon ==
    /\ \A c \in Sleeper : nap[c].x <= Cap /\ nap[c].x \in Powers
    /\ \A e \in Entries(timer) : nap[e.co] # NoNap => e.at <= now + Cap

\* The loop, and those who poll, wake in time.
Soon == InTime /\ LooksSoon

\* A quotient is below what the divisor times it is above.
LEMMA DivideIs ==
    ASSUME NEW n \in Nat, NEW u \in Nat \ {0}
    PROVE  n \div u \in Nat /\ \A m \in Nat : n < m * u => n \div u < m
<1>1. /\ n \div u \in Nat /\ n % u \in Nat /\ n = u * (n \div u) + (n % u)
  OBVIOUS
<1>2. ASSUME NEW m \in Nat, n < m * u, n \div u >= m PROVE FALSE
  <2>1. PICK q \in Nat : q = n \div u
    BY <1>1
  <2>2. PICK k \in Nat : q = m + k
    <3>1. q - m \in Nat /\ q = m + (q - m)
      BY <1>2, <2>1
    <3> QED
      BY <3>1
  <2>3. u * q = m * u + u * k
    BY <2>2
  <2>4. u * k \in Nat /\ m * u \in Nat /\ u * q \in Nat
    BY <2>1
  <2> QED
    BY <1>1, <1>2, <2>1, <2>3, <2>4
<1> QED
  BY <1>1, <1>2

\* The milliseconds of nanosleep(), usleep(), select() and kevent(): at least
\* what the program asked for, at most MaxMs.
LEMMA MsIs ==
    ASSUME NEW sec \in Nat, NEW fine \in Nat
    PROVE  /\ ToMs(sec, fine) \in Nat /\ ToMs(sec, fine) <= MaxMs
           /\ AtLeast(sec, fine) \in Nat /\ AtLeast(sec, fine) <= ToMs(sec, fine)
<1>1. Unit \in Nat \ {0}
  BY TimersAssumption
<1>2. PICK k \in Nat : k = sec * Unit
  BY <1>1
<1>3. PICK n \in Nat : n = sec * Unit * Unit + fine
  <2>1. sec * Unit * Unit \in Nat
    BY <1>1, <1>2
  <2> QED
    BY <2>1
<1>4. PICK q \in Nat : q = n \div Unit /\ \A m \in Nat : n < m * Unit => q < m
  BY <1>1, DivideIs
<1>5. PICK d \in Nat : d = MaxMs \div Unit /\ \A m \in Nat : MaxMs < m * Unit => d < m
  BY <1>1, DivideIs, ForeverIs
<1>6. ToMs(sec, fine) = IF sec < d
                        THEN IF n <= Unit THEN IF n = 0 THEN 0 ELSE 1
                             ELSE IF n < MaxMs * Unit THEN q ELSE MaxMs
                        ELSE MaxMs
  BY <1>3, <1>4, <1>5 DEF ToMs
<1>7. AtLeast(sec, fine) = IF n \in 1..Unit THEN 1 ELSE IF q < MaxMs THEN q ELSE MaxMs
  BY <1>3, <1>4 DEF AtLeast, Lesser
<1>8. q < MaxMs \/ ~(n < MaxMs * Unit)
  BY <1>4, ForeverIs
<1>9. MaxMs >= 1 /\ MaxMs \in Nat
  BY ForeverIs
<1>10. n = 0 => q = 0
  <2>1. n = 0 => n < 1 * Unit
    BY <1>1
  <2> QED
    BY <1>4, <2>1
<1>11. CASE n \in 1..Unit
  BY <1>1, <1>6, <1>7, <1>9, <1>11
<1>12. CASE n = 0
  BY <1>1, <1>6, <1>7, <1>9, <1>10, <1>12
<1>13. CASE n > Unit
  BY <1>1, <1>6, <1>7, <1>8, <1>9, <1>13
<1> QED
  BY <1>1, <1>11, <1>12, <1>13

-----------------------------------------------------------------------------
\* The inductive invariant, with the parts that ask something of the program.
TimerFacts == TimersInv /\ (NoWrap => LongEnough) /\ (ShortDelays => Soon)

\* What a step that adds a timer does to the map and to _wait_ms.
LEMMA AddStep ==
    ASSUME TimersInv, NEW c \in Sleeper, st[c] = "runs", NEW ms \in Nat,
           AddTimer(c, ms), UNCHANGED <<now, checked>>,
           NEW s, st' = [st EXCEPT ![c] = s],
           (s = "sleeps" /\ it' = it) \/ (s = "waits" /\ it' = it \cup {c})
    PROVE  /\ Listed'
           /\ Entries(timer') = Entries(timer) \cup {[co |-> c, at |-> now + ms]}
           /\ waitMs' \in 0..Forever
           /\ ms <= MaxMs /\ InTime => InTime'
<1> DEFINE e == [co |-> c, at |-> now + ms]
<1>1. /\ timer' = InsertAt(timer, PlaceFor(now + ms), e)
      /\ hint' = c /\ waitMs' = IF waitMs < ms THEN waitMs ELSE ms
  BY DEF AddTimer, Lesser
<1>2. now \in Nat /\ checked \in Nat /\ checked <= now /\ waitMs \in 0..Forever
  BY DEF TimersInv, Typed
<1>3. Listed' /\ Entries(timer') = Entries(timer) \cup {e}
  BY <1>1, AddListed DEF TimersInv
<1>4. waitMs' \in 0..Forever /\ waitMs' \in Nat /\ waitMs' <= waitMs /\ waitMs' <= ms
  BY <1>1, <1>2, ForeverIs
<1>5. ASSUME ms <= MaxMs, InTime PROVE InTime'
  <2> SUFFICES ASSUME NEW f \in Entries(timer')
               PROVE  waitMs' <= MaxMs /\ checked + waitMs' <= f.at /\ f.at <= now + MaxMs
    BY DEF InTime
  <2>1. f.at \in Nat /\ MaxMs \in Nat
    <3>1. \A g \in Entry : g.at \in Nat
      BY DEF Entry
    <3>2. timer' \in Seq(Entry) /\ Ordered(timer')
      BY <1>3 DEF Listed
    <3>3. Entries(timer') \subseteq Entry
      BY ONLY <3>2, OrderedIs
    <3> QED
      BY <3>1, <3>3, ForeverIs
  <2>2. CASE f = e
    <3>1. f.at = now + ms
      BY <2>2
    <3> QED
      <4>1. PICK k : k = waitMs'
        OBVIOUS
      <4>2. k \in Nat /\ k <= ms
        BY <1>4, <4>1
      <4>3. ms <= MaxMs /\ MaxMs \in Nat
        BY <1>5, <2>1
      <4>4. k <= MaxMs /\ checked + k <= f.at /\ f.at <= now + MaxMs
        BY ONLY <1>2, <3>1, <4>2, <4>3, ms \in Nat
      <4> QED
        BY <4>1, <4>4
  <2>3. CASE f \in Entries(timer)
    <3>1. waitMs <= MaxMs /\ checked + waitMs <= f.at /\ f.at <= now + MaxMs
      BY <1>5, <2>3 DEF InTime
    <3> QED
      BY <1>2, <1>4, <2>1, <3>1
  <2> QED
    BY <1>3, <2>2, <2>3
<1> QED
  BY <1>3, <1>4, <1>5

\* A coroutine that runs has no entry in _timer.
LEMMA RunnersHaveNone ==
    ASSUME TimersInv, NEW c \in Sleeper, st[c] = "runs"
    PROVE  \A e \in Entries(timer) : e.co # c /\ e.co \in Sleeper /\ e.at \in Nat
<1>1. timer \in Seq(Entry) /\ Ordered(timer)
  BY DEF TimersInv, Listed
<1>2. Entries(timer) \subseteq Entry /\ \A b : b \in Owners(timer) <=> \E e \in Entries(timer) : e.co = b
  BY ONLY <1>1, OrderedIs
<1>3. c \notin Owners(timer)
  BY DEF TimersInv, Listed
<1> QED
  BY <1>2, <1>3 DEF Entry

\* co::sleep() and the hooks that end in Sched::sleep() keep the invariant.
LEMMA SleepStep ==
    ASSUME TimerFacts, NEW c \in Sleeper, NEW ms \in Nat, NEW w \in Nat, Sleep(c, ms, w),
           NoWrap => w <= ms, ShortDelays => ms <= MaxMs
    PROVE  TimerFacts'
<1> DEFINE e == [co |-> c, at |-> now + ms]
<1>1. /\ st[c] = "runs" /\ nap[c] = NoNap /\ AddTimer(c, ms)
      /\ st' = [st EXCEPT ![c] = "sleeps"]
      /\ since' = [since EXCEPT ![c] = now] /\ want' = [want EXCEPT ![c] = w]
      /\ UNCHANGED <<now, it, checked, nap, loop>>
  BY DEF Sleep, Runs
<1>2. TimersInv /\ Typed /\ Listed
  BY DEF TimerFacts, TimersInv
<1>3. /\ Listed' /\ Entries(timer') = Entries(timer) \cup {e}
      /\ waitMs' \in 0..Forever
      /\ ms <= MaxMs /\ InTime => InTime'
  BY <1>1, <1>2, AddStep
<1>4. \A f \in Entries(timer) : f.co # c /\ f.co \in Sleeper /\ f.at \in Nat
  BY <1>1, <1>2, RunnersHaveNone
<1>5. /\ st'[c] = "sleeps" /\ since'[c] = now /\ want'[c] = w
      /\ \A b \in Sleeper : b # c => st'[b] = st[b] /\ since'[b] = since[b] /\ want'[b] = want[b]
  BY <1>1, <1>2 DEF Typed
<1>6. Typed'
  BY <1>1, <1>2, <1>3 DEF Typed, States
<1>7. Napping'
  BY <1>1, <1>5 DEF TimerFacts, TimersInv, Napping
<1>8. e.co = c /\ e.at = now + ms /\ now \in Nat /\ nap[c].t = 0
  BY <1>1, <1>2 DEF Typed, NoNap
<1>9. ASSUME NoWrap PROVE LongEnough'
  <2>1. LongEnough /\ w <= ms
    BY <1>9 DEF TimerFacts
  <2>2. ASSUME NEW f \in Entries(timer'), st'[f.co] = "sleeps"
        PROVE  want'[f.co] + since'[f.co] <= f.at + nap[f.co].t
    <3>1. CASE f = e
      BY <1>5, <1>8, <2>1, <3>1
    <3>2. CASE f \in Entries(timer)
      BY <1>4, <1>5, <2>1, <2>2, <3>2 DEF LongEnough
    <3> QED
      BY <1>3, <3>1, <3>2
  <2>3. ASSUME NEW b \in Sleeper, st'[b] = "runs", nap[b] # NoNap
        PROVE  want'[b] + since'[b] <= now + nap[b].t
    <3>1. b # c
      BY <1>1, <2>3
    <3> QED
      BY <1>5, <2>1, <2>3, <3>1 DEF LongEnough
  <2> QED
    BY <1>1, <2>2, <2>3 DEF LongEnough
<1>10. ASSUME ShortDelays PROVE Soon'
  <2>1. InTime /\ LooksSoon /\ ms <= MaxMs
    BY <1>10 DEF TimerFacts, Soon
  <2>2. ASSUME NEW f \in Entries(timer'), nap[f.co] # NoNap PROVE f \in Entries(timer)
    BY <1>1, <1>3, <2>2
  <2>3. LooksSoon'
    BY <1>1, <2>1, <2>2 DEF LooksSoon
  <2> QED
    BY <1>3, <2>1, <2>3 DEF Soon
<1>11. (NoWrap => LongEnough') /\ (ShortDelays => Soon')
  BY <1>9, <1>10
<1> QED
  BY <1>3, <1>6, <1>7, <1>11 DEF TimerFacts, TimersInv, NoWrap, ShortDelays

\* add_timer() and yield() of a coroutine with a waitx keep the invariant.
LEMMA WaitStep ==
    ASSUME TimerFacts, NEW c \in Sleeper, NEW ms \in Nat, Wait(c, ms), ShortDelays => ms <= MaxMs
    PROVE  TimerFacts'
<1> DEFINE e == [co |-> c, at |-> now + ms]
<1>1. /\ st[c] = "runs" /\ nap[c] = NoNap /\ AddTimer(c, ms)
      /\ st' = [st EXCEPT ![c] = "waits"] /\ it' = it \cup {c}
      /\ since' = [since EXCEPT ![c] = now] /\ want' = [want EXCEPT ![c] = 0]
      /\ UNCHANGED <<now, checked, nap, loop>>
  BY DEF Wait, Runs
<1>2. TimersInv /\ Typed /\ Listed
  BY DEF TimerFacts, TimersInv
<1>3. /\ Listed' /\ Entries(timer') = Entries(timer) \cup {e}
      /\ waitMs' \in 0..Forever
      /\ ms <= MaxMs /\ InTime => InTime'
  BY <1>1, <1>2, AddStep
<1>4. \A f \in Entries(timer) : f.co # c /\ f.co \in Sleeper /\ f.at \in Nat
  BY <1>1, <1>2, RunnersHaveNone
<1>5. /\ st'[c] = "waits" /\ since'[c] = now /\ want'[c] = 0
      /\ \A b \in Sleeper : b # c => st'[b] = st[b] /\ since'[b] = since[b] /\ want'[b] = want[b]
  BY <1>1, <1>2 DEF Typed
<1>6. Typed'
  BY <1>1, <1>2, <1>3 DEF Typed, States
<1>7. Napping'
  BY <1>1, <1>5 DEF TimerFacts, TimersInv, Napping
<1>8. e.co = c /\ e.at = now + ms
  OBVIOUS
<1>9. ASSUME NoWrap PROVE LongEnough'
  <2>1. LongEnough
    BY <1>9 DEF TimerFacts
  <2>2. ASSUME NEW f \in Entries(timer'), st'[f.co] = "sleeps"
        PROVE  want'[f.co] + since'[f.co] <= f.at + nap[f.co].t
    <3>1. f # e
      BY <1>5, <1>8, <2>2
    <3>2. f \in Entries(timer)
      BY <1>3, <3>1
    <3> QED
      BY <1>4, <1>5, <2>1, <2>2, <3>2 DEF LongEnough
  <2>3. ASSUME NEW b \in Sleeper, st'[b] = "runs", nap[b] # NoNap
        PROVE  want'[b] + since'[b] <= now + nap[b].t
    <3>1. b # c
      BY <1>1, <2>3
    <3> QED
      BY <1>5, <2>1, <2>3, <3>1 DEF LongEnough
  <2> QED
    BY <1>1, <2>2, <2>3 DEF LongEnough
<1>10. ASSUME ShortDelays PROVE Soon'
  <2>1. InTime /\ LooksSoon /\ ms <= MaxMs
    BY <1>10 DEF TimerFacts, Soon
  <2>2. ASSUME NEW f \in Entries(timer'), nap[f.co] # NoNap PROVE f \in Entries(timer)
    BY <1>1, <1>3, <2>2
  <2>3. LooksSoon'
    BY <1>1, <2>1, <2>2 DEF LooksSoon
  <2> QED
    BY <1>3, <2>1, <2>3 DEF Soon
<1>11. (NoWrap => LongEnough') /\ (ShortDelays => Soon')
  BY <1>9, <1>10
<1> QED
  BY <1>3, <1>6, <1>7, <1>11 DEF TimerFacts, TimersInv, NoWrap, ShortDelays

\* poll(), select() and their likes keep the invariant when they begin.
LEMMA BeginStep ==
    ASSUME TimerFacts, NEW c \in Sleeper, NEW ms \in Nat, NEW x \in Nat \ {0}, NEW w \in Nat,
           BeginLooking(c, ms, x, w),
           NoWrap => w <= ms, ShortDelays => x <= Cap /\ x \in Powers
    PROVE  TimerFacts'
<1>1. /\ st[c] = "runs" /\ nap[c] = NoNap
      /\ nap' = [nap EXCEPT ![c] = [t |-> ms, x |-> x]]
      /\ since' = [since EXCEPT ![c] = now] /\ want' = [want EXCEPT ![c] = w]
      /\ UNCHANGED <<now, timer, hint, it, waitMs, checked, st, loop>>
  BY DEF BeginLooking, Runs
<1>2. TimersInv /\ Typed /\ Listed
  BY DEF TimerFacts, TimersInv
<1>3. Listed' /\ Entries(timer') = Entries(timer)
  BY <1>1, <1>2, KeepsListed
<1>4. \A f \in Entries(timer) : f.co # c /\ f.co \in Sleeper /\ f.at \in Nat
  BY <1>1, <1>2, RunnersHaveNone
<1>5. /\ nap'[c].t = ms /\ nap'[c].x = x /\ since'[c] = now /\ want'[c] = w
      /\ \A b \in Sleeper : b # c => nap'[b] = nap[b] /\ since'[b] = since[b] /\ want'[b] = want[b]
  BY <1>1, <1>2 DEF Typed
<1>6. Typed'
  BY <1>1, <1>2 DEF Typed, States
<1>7. Napping'
  BY <1>1, <1>5 DEF TimerFacts, TimersInv, Napping
<1>8. now \in Nat /\ \A b \in Sleeper : nap[b].t \in Nat
  BY <1>2 DEF Typed
<1>9. ASSUME NoWrap PROVE LongEnough'
  <2>1. LongEnough /\ w <= ms
    BY <1>9 DEF TimerFacts
  <2>2. ASSUME NEW f \in Entries(timer), st[f.co] = "sleeps"
        PROVE  want'[f.co] + since'[f.co] <= f.at + nap'[f.co].t
    BY <1>4, <1>5, <2>1, <2>2 DEF LongEnough
  <2>3. ASSUME NEW b \in Sleeper, st[b] = "runs", nap'[b] # NoNap
        PROVE  want'[b] + since'[b] <= now + nap'[b].t
    <3>1. CASE b = c
      BY <1>5, <1>8, <2>1, <3>1
    <3>2. CASE b # c
      BY <1>5, <2>1, <2>3, <3>2 DEF LongEnough
    <3> QED
      BY <3>1, <3>2
  <2> QED
    BY <1>1, <1>3, <2>2, <2>3 DEF LongEnough
<1>10. ASSUME ShortDelays PROVE Soon'
  <2>1. InTime /\ LooksSoon /\ x <= Cap /\ x \in Powers
    BY <1>10 DEF TimerFacts, Soon
  <2>2. InTime'
    BY <1>1, <1>3, <2>1 DEF InTime
  <2>3. \A b \in Sleeper : nap'[b].x <= Cap /\ nap'[b].x \in Powers
    BY <1>5, <2>1 DEF LooksSoon
  <2>4. \A f \in Entries(timer) : nap'[f.co] # NoNap => f.at <= now + Cap
    BY <1>4, <1>5, <2>1 DEF LooksSoon
  <2>5. LooksSoon'
    BY <1>1, <1>3, <2>3, <2>4 DEF LooksSoon
  <2> QED
    BY <2>2, <2>5 DEF Soon
<1>11. (NoWrap => LongEnough') /\ (ShortDelays => Soon')
  BY <1>9, <1>10
<1> QED
  BY <1>3, <1>6, <1>7, <1>11 DEF TimerFacts, TimersInv, NoWrap, ShortDelays

\* A nap of poll() or select() is counted off what is left.
LEMMA NapStep ==
    ASSUME TimerFacts, NEW c \in Sleeper, LookAndNap(c)
    PROVE  TimerFacts'
<1>1. PICK t, x : t = nap[c].t /\ x = nap[c].x
  OBVIOUS
<1>2. PICK ms : ms = IF t < x THEN t ELSE x
  OBVIOUS
<1>3. PICK u, y : /\ u = (IF t = Forever THEN Forever ELSE IF t > x THEN t - x ELSE 0)
                  /\ y = (IF x < Cap THEN 2 * x ELSE x)
  OBVIOUS
<1>4. TimersInv /\ Typed /\ Listed /\ Napping
  BY DEF TimerFacts, TimersInv
<1>5. /\ st[c] = "runs" /\ t > 0 /\ AddTimer(c, ms)
      /\ nap' = [nap EXCEPT ![c] = [t |-> u, x |-> y]]
      /\ st' = [st EXCEPT ![c] = "sleeps"]
      /\ UNCHANGED <<now, it, checked, since, want, loop>>
  BY <1>1, <1>2, <1>3 DEF LookAndNap, NextNap, Lesser
<1>6. t \in Nat /\ x \in Nat /\ now \in Nat /\ Cap \in Nat \ {0} /\ Forever \in Nat
  BY <1>1, <1>4, TimersAssumption, ForeverIs DEF Typed
<1>7. nap[c] # NoNap /\ x # 0
  BY <1>1, <1>4, <1>5, <1>6 DEF NoNap, Napping
<1>8. ms \in Nat /\ u \in Nat /\ y \in Nat \ {0} /\ t <= ms + u
  BY <1>2, <1>3, <1>6, <1>7
<1> DEFINE e == [co |-> c, at |-> now + ms]
<1>9. /\ Listed' /\ Entries(timer') = Entries(timer) \cup {e}
      /\ waitMs' \in 0..Forever
      /\ ms <= MaxMs /\ InTime => InTime'
  BY <1>4, <1>5, <1>8, AddStep
<1>10. \A f \in Entries(timer) : f.co # c /\ f.co \in Sleeper /\ f.at \in Nat
  BY <1>4, <1>5, RunnersHaveNone
<1>11. /\ st'[c] = "sleeps" /\ nap'[c].t = u /\ nap'[c].x = y
       /\ \A b \in Sleeper : b # c => st'[b] = st[b] /\ nap'[b] = nap[b]
  BY <1>4, <1>5 DEF Typed
<1>12. Typed'
  BY <1>4, <1>5, <1>8, <1>9 DEF Typed, States
<1>13. Napping'
  BY <1>4, <1>8, <1>11 DEF Napping
<1>14. ASSUME NoWrap PROVE LongEnough'
  <2>1. LongEnough
    BY <1>14 DEF TimerFacts
  <2>2. ASSUME NEW f \in Entries(timer'), st'[f.co] = "sleeps"
        PROVE  want[f.co] + since[f.co] <= f.at + nap'[f.co].t
    <3>1. CASE f = e
      <4>1. f.co = c /\ f.at = now + ms
        BY <3>1
      <4>2. want[c] + since[c] <= now + t
        BY <1>1, <1>5, <1>7, <2>1 DEF LongEnough
      <4>3. want[c] \in Nat /\ since[c] \in Nat
        BY <1>4 DEF Typed
      <4> QED
        BY <1>6, <1>8, <1>11, <4>1, <4>2, <4>3
    <3>2. CASE f \in Entries(timer)
      BY <1>10, <1>11, <2>1, <2>2, <3>2 DEF LongEnough
    <3> QED
      BY <1>9, <3>1, <3>2
  <2>3. ASSUME NEW b \in Sleeper, st'[b] = "runs", nap'[b] # NoNap
        PROVE  want[b] + since[b] <= now + nap'[b].t
    <3>1. b # c
      BY <1>11, <2>3
    <3> QED
      BY <1>11, <2>1, <2>3, <3>1 DEF LongEnough
  <2> QED
    BY <1>5, <2>2, <2>3 DEF LongEnough
<1>15. ASSUME ShortDelays PROVE Soon'
  <2>1. InTime /\ LooksSoon
    BY <1>15 DEF TimerFacts, Soon
  <2>2. Cap \in {1, 2, 4, 8, 16} /\ Cap <= MaxMs /\ MaxMs \in Nat
    BY <1>15, ForeverIs DEF ShortDelays
  <2>3. x <= Cap /\ x \in Powers
    BY <1>1, <2>1 DEF LooksSoon
  <2>4. ms <= Cap /\ ms <= MaxMs
    BY <1>2, <1>6, <2>2, <2>3
  <2>5. y <= Cap /\ y \in Powers
    BY <1>3, <2>2, <2>3 DEF Powers
  <2>6. \A b \in Sleeper : nap'[b].x <= Cap /\ nap'[b].x \in Powers
    BY <1>11, <2>1, <2>5 DEF LooksSoon
  <2>7. ASSUME NEW f \in Entries(timer'), nap'[f.co] # NoNap
        PROVE  f.at <= now + Cap
    <3>1. CASE f = e
      <4>1. f.at = now + ms
        BY <3>1
      <4> QED
        BY <1>6, <1>8, <2>4, <4>1
    <3>2. CASE f \in Entries(timer)
      BY <1>10, <1>11, <2>1, <2>7, <3>2 DEF LooksSoon
    <3> QED
      BY <1>9, <3>1, <3>2
  <2>8. LooksSoon'
    BY <1>5, <2>6, <2>7 DEF LooksSoon
  <2> QED
    BY <1>9, <2>1, <2>4, <2>8 DEF Soon
<1>16. (NoWrap => LongEnough') /\ (ShortDelays => Soon')
  BY <1>14, <1>15
<1> QED
  BY <1>9, <1>12, <1>13, <1>16 DEF TimerFacts, TimersInv, NoWrap, ShortDelays

\* poll() and select() keep the invariant when they end.
LEMMA StopStep ==
    ASSUME TimerFacts, NEW c \in Sleeper, StopLooking(c)
    PROVE  TimerFacts'
<1>1. /\ st[c] = "runs" /\ nap[c] # NoNap
      /\ want' = [want EXCEPT ![c] = IF nap[c].t = 0 THEN want[c] ELSE 0]
      /\ nap' = [nap EXCEPT ![c] = NoNap]
      /\ UNCHANGED <<now, timer, hint, it, waitMs, checked, st, since, loop>>
  BY DEF StopLooking
<1>2. TimersInv /\ Typed /\ Listed
  BY DEF TimerFacts, TimersInv
<1>3. Listed' /\ Entries(timer') = Entries(timer)
  BY <1>1, <1>2, KeepsListed
<1>4. \A f \in Entries(timer) : f.co # c /\ f.co \in Sleeper /\ f.at \in Nat
  BY <1>1, <1>2, RunnersHaveNone
<1>5. /\ nap'[c] = NoNap
      /\ \A b \in Sleeper : b # c => nap'[b] = nap[b] /\ want'[b] = want[b]
  BY <1>1, <1>2 DEF Typed
<1>6. Typed'
  BY <1>1, <1>2 DEF Typed, States, NoNap
<1>7. Napping'
  BY <1>1, <1>5 DEF TimerFacts, TimersInv, Napping
<1>9. ASSUME NoWrap PROVE LongEnough'
  <2>1. LongEnough
    BY <1>9 DEF TimerFacts
  <2>2. \A f \in Entries(timer) : st[f.co] = "sleeps" =>
           want'[f.co] + since[f.co] <= f.at + nap'[f.co].t
    BY <1>4, <1>5, <2>1 DEF LongEnough
  <2>3. \A b \in Sleeper : st[b] = "runs" /\ nap'[b] # NoNap =>
           want'[b] + since[b] <= now + nap'[b].t
    BY <1>5, <2>1 DEF LongEnough
  <2> QED
    BY <1>1, <1>3, <2>2, <2>3 DEF LongEnough
<1>10. ASSUME ShortDelays PROVE Soon'
  <2>1. InTime /\ LooksSoon /\ Cap \in Nat
    BY <1>10, TimersAssumption DEF TimerFacts, Soon
  <2>2. InTime'
    BY <1>1, <1>3, <2>1 DEF InTime
  <2>3. \A b \in Sleeper : nap'[b].x <= Cap /\ nap'[b].x \in Powers
    <3>1. NoNap.x = 0
      BY DEF NoNap
    <3> QED
      BY <1>5, <2>1, <3>1 DEF LooksSoon, Powers
  <2>4. \A f \in Entries(timer) : nap'[f.co] # NoNap => f.at <= now + Cap
    BY <1>4, <1>5, <2>1 DEF LooksSoon
  <2>5. LooksSoon'
    BY <1>1, <1>3, <2>3, <2>4 DEF LooksSoon
  <2> QED
    BY <2>2, <2>5 DEF Soon
<1>11. (NoWrap => LongEnough') /\ (ShortDelays => Soon')
  BY <1>9, <1>10
<1> QED
  BY <1>3, <1>6, <1>7, <1>11 DEF TimerFacts, TimersInv, NoWrap, ShortDelays

\* A waker that wins the waitx keeps the invariant.
LEMMA WonStep ==
    ASSUME TimerFacts, NEW c \in Sleeper, Won(c)
    PROVE  TimerFacts'
<1>1. /\ st[c] = "waits" /\ st' = [st EXCEPT ![c] = "won"]
      /\ UNCHANGED <<now, timer, hint, it, waitMs, checked, nap, since, want, loop>>
  BY DEF Won
<1>2. TimersInv /\ Typed /\ Listed /\ Napping
  BY DEF TimerFacts, TimersInv
<1>3. Listed' /\ Entries(timer') = Entries(timer)
  BY <1>2, WonListed
<1>4. st'[c] = "won" /\ \A b \in Sleeper : b # c => st'[b] = st[b]
  BY <1>1, <1>2 DEF Typed
<1>5. \A e \in Entries(timer) : e.co \in Sleeper
  <2>1. timer \in Seq(Entry) /\ Ordered(timer)
    BY <1>2 DEF Listed
  <2>2. Entries(timer) \subseteq Entry
    BY ONLY <2>1, OrderedIs
  <2> QED
    BY <2>2 DEF Entry
<1>6. Typed'
  BY <1>1, <1>2 DEF Typed, States
<1>7. Napping'
  BY <1>1, <1>2, <1>4 DEF Napping
<1>8. LongEnough => LongEnough'
  BY <1>1, <1>3, <1>4, <1>5 DEF LongEnough
<1>9. Soon => Soon'
  BY <1>1, <1>3 DEF Soon, InTime, LooksSoon
<1> QED
  BY <1>3, <1>6, <1>7, <1>8, <1>9 DEF TimerFacts, TimersInv, NoWrap, ShortDelays

\* Sched::resume() keeps the invariant.
LEMMA ResumeStep ==
    ASSUME TimerFacts, NEW c \in Sleeper, Resume(c)
    PROVE  TimerFacts'
<1>1. /\ st[c] = "won" /\ st' = [st EXCEPT ![c] = "runs"]
      /\ UNCHANGED <<now, waitMs, checked, nap, since, want, loop>>
  BY DEF Resume
<1>2. TimersInv /\ Typed /\ Listed /\ Napping
  BY DEF TimerFacts, TimersInv
<1>3. Listed' /\ \A e : e \in Entries(timer') <=> e \in Entries(timer) /\ e.co # c
  BY <1>2, ResumeListed
<1>4. st'[c] = "runs" /\ \A b \in Sleeper : b # c => st'[b] = st[b]
  BY <1>1, <1>2 DEF Typed
<1>5. \A e \in Entries(timer) : e.co \in Sleeper
  <2>1. timer \in Seq(Entry) /\ Ordered(timer)
    BY <1>2 DEF Listed
  <2>2. Entries(timer) \subseteq Entry
    BY ONLY <2>1, OrderedIs
  <2> QED
    BY <2>2 DEF Entry
<1>6. Typed'
  BY <1>1, <1>2 DEF Typed, States
<1>7. Napping'
  BY <1>1, <1>2, <1>4 DEF Napping
<1>8. LongEnough => LongEnough'
  <2> SUFFICES ASSUME LongEnough PROVE LongEnough'
    OBVIOUS
  <2>1. nap[c] = NoNap
    BY <1>1, <1>2 DEF Napping
  <2>2. \A e \in Entries(timer') : st'[e.co] = "sleeps" => want[e.co] + since[e.co] <= e.at + nap[e.co].t
    BY <1>3, <1>4, <1>5 DEF LongEnough
  <2>3. \A b \in Sleeper : st'[b] = "runs" /\ nap[b] # NoNap => want[b] + since[b] <= now + nap[b].t
    BY <1>4, <2>1 DEF LongEnough
  <2> QED
    BY <1>1, <2>2, <2>3 DEF LongEnough
<1>9. Soon => Soon'
  <2> SUFFICES ASSUME Soon PROVE Soon'
    OBVIOUS
  <2>1. \A e \in Entries(timer') : waitMs <= MaxMs /\ checked + waitMs <= e.at /\ e.at <= now + MaxMs
    BY <1>3 DEF Soon, InTime
  <2>2. \A e \in Entries(timer') : nap[e.co] # NoNap => e.at <= now + Cap
    BY <1>3 DEF Soon, LooksSoon
  <2>3. LooksSoon'
    BY <1>1, <2>2 DEF Soon, LooksSoon
  <2> QED
    BY <1>1, <2>1, <2>3 DEF Soon, InTime
<1> QED
  BY <1>3, <1>6, <1>7, <1>8, <1>9 DEF TimerFacts, TimersInv, NoWrap, ShortDelays

\* Whom check_timeout() resumes has slept long enough, and the loop sleeps to the
\* next deadline at most.
LEMMA TimedOutStep ==
    ASSUME TimerFacts, NEW n \in 0..Len(timer), TimedOut(n)
    PROVE  TimerFacts'
<1>1. /\ waitMs' = IF timer' = <<>> THEN Forever ELSE (timer'[1].at - now) % Word
      /\ checked' = now
      /\ UNCHANGED <<now, nap, since, want, loop>>
  BY DEF TimedOut
<1>2. TimersInv /\ Typed /\ Listed /\ Napping
  BY DEF TimerFacts, TimersInv
<1>3. /\ Listed'
      /\ \A e : e \in Entries(timer') <=> e \in Entries(timer) /\ e.at > now
      /\ \A c \in Sleeper : st'[c] # st[c] =>
            st'[c] = "runs" /\ \E e \in Entries(timer) : e.co = c /\ e.at <= now
      /\ timer' # <<>> => timer'[1] \in Entries(timer') /\ \A e \in Entries(timer') : timer'[1].at <= e.at
  BY <1>2, TimedOutListed
<1>5. /\ \A e \in Entries(timer) : e.co \in Sleeper /\ e.at \in Nat
      /\ \A e, f \in Entries(timer) : e.co = f.co => e = f
      /\ \A c : c \in Owners(timer) <=> \E e \in Entries(timer) : e.co = c
  <2>1. timer \in Seq(Entry) /\ Ordered(timer)
    BY <1>2 DEF Listed
  <2>2. /\ Entries(timer) \subseteq Entry
        /\ \A e, f \in Entries(timer) : e.co = f.co => e = f
        /\ \A c : c \in Owners(timer) <=> \E e \in Entries(timer) : e.co = c
    BY ONLY <2>1, OrderedIs
  <2> QED
    BY <2>2 DEF Entry
<1>6. now \in Nat /\ Word \in Nat \ {0} /\ Forever \in Nat /\ MaxMs \in Nat /\ MaxMs < Word /\ Forever = Word - 1
  BY <1>2, ForeverIs, TimersAssumption DEF Typed, Forever
<1>7. timer' # <<>> => timer'[1].at \in Nat /\ timer'[1].at > now /\ timer'[1] \in Entries(timer)
  BY <1>3, <1>5
<1>8. waitMs' \in 0..Forever
  <2>1. CASE timer' = <<>>
    BY <1>1, <1>6, <2>1
  <2>2. CASE timer' # <<>>
    <3>1. PICK k \in Nat : k = timer'[1].at - now
      BY <1>6, <1>7, <2>2
    <3>2. waitMs' = k % Word
      BY <1>1, <2>2, <3>1
    <3>3. k % Word \in 0..Word - 1
      BY ONLY <1>6, k \in Nat
    <3> QED
      BY <1>6, <3>2, <3>3
  <2> QED
    BY <2>1, <2>2
<1>9. Typed'
  <2>1. st' \in [Sleeper -> States]
    <3>1. st' = [c \in Sleeper |-> IF c \in {timer[i].co : i \in 1..n} /\ st[c] # "won" THEN "runs" ELSE st[c]]
      BY DEF TimedOut
    <3> QED
      BY <1>2, <3>1 DEF Typed, States
  <2> QED
    BY <1>1, <1>2, <1>6, <1>8, <2>1 DEF Typed
<1>10. Napping'
  BY <1>1, <1>2, <1>3 DEF Napping
<1>11. LongEnough => LongEnough'
  <2> SUFFICES ASSUME LongEnough PROVE LongEnough'
    OBVIOUS
  <2>1. \A e \in Entries(timer') : st'[e.co] = "sleeps" => want[e.co] + since[e.co] <= e.at + nap[e.co].t
    BY <1>3, <1>5 DEF LongEnough
  <2>2. ASSUME NEW c \in Sleeper, st'[c] = "runs", nap[c] # NoNap
        PROVE  want[c] + since[c] <= now + nap[c].t
    <3>1. CASE st[c] = "runs"
      BY <2>2, <3>1 DEF LongEnough
    <3>2. CASE st[c] # "runs"
      <4>1. PICK e \in Entries(timer) : e.co = c /\ e.at <= now
        BY <1>3, <2>2, <3>2
      <4>2. st[c] = "sleeps"
        BY <1>2, <2>2, <3>2 DEF Napping
      <4>3. want[c] + since[c] <= e.at + nap[c].t
        BY <4>1, <4>2 DEF LongEnough
      <4>4. want[c] + since[c] \in Nat /\ nap[c].t \in Nat /\ e.at \in Nat
        BY <1>2, <1>5 DEF Typed
      <4> QED
        BY ONLY <1>6, <4>1, <4>3, <4>4
    <3> QED
      BY <3>1, <3>2
  <2> QED
    BY <1>1, <2>1, <2>2 DEF LongEnough
<1>12. Soon => Soon'
  <2> SUFFICES ASSUME Soon PROVE Soon'
    OBVIOUS
  <2>1. ASSUME NEW e \in Entries(timer')
        PROVE  waitMs' <= MaxMs /\ now + waitMs' <= e.at /\ e.at <= now + MaxMs
    <3>1. e \in Entries(timer) /\ e.at \in Nat /\ e.at <= now + MaxMs
      BY <1>3, <1>5 DEF Soon, InTime
    <3>2. timer' # <<>>
      BY DEF Entries
    <3>3. /\ timer'[1].at \in Nat /\ timer'[1].at > now
          /\ timer'[1].at <= e.at /\ timer'[1].at <= now + MaxMs
      BY <1>3, <1>7, <3>2 DEF Soon, InTime
    <3>4. PICK k \in Nat : k = timer'[1].at - now
      BY <1>6, <3>3
    <3>5. waitMs' = k % Word
      BY <1>1, <3>2, <3>4
    <3>6. k <= MaxMs /\ now + k <= e.at
      BY <1>6, <3>1, <3>3, <3>4
    <3>7. k % Word = k
      BY ONLY <1>6, <3>6, k \in Nat
    <3> QED
      BY <3>1, <3>5, <3>6, <3>7
  <2>2. \A e \in Entries(timer') : nap[e.co] # NoNap => e.at <= now + Cap
    BY <1>3 DEF Soon, LooksSoon
  <2>3. LooksSoon'
    BY <1>1, <2>2 DEF Soon, LooksSoon
  <2> QED
    BY <1>1, <2>1, <2>3 DEF Soon, InTime
<1> QED
  BY <1>3, <1>9, <1>10, <1>11, <1>12 DEF TimerFacts, TimersInv, NoWrap, ShortDelays

\* The passing of time keeps the invariant.
LEMMA TickStep ==
    ASSUME TimerFacts, Tick
    PROVE  TimerFacts'
<1>1. /\ now' = now + 1
      /\ UNCHANGED <<timer, hint, it, waitMs, checked, st, nap, since, want, loop>>
  BY DEF Tick
<1>2. TimersInv /\ Typed /\ Listed /\ Napping
  BY DEF TimerFacts, TimersInv
<1>3. Listed' /\ Entries(timer') = Entries(timer)
  BY <1>1, <1>2, KeepsListed
<1>4. \A e \in Entries(timer) : e.co \in Sleeper /\ e.at \in Nat
  <2>1. timer \in Seq(Entry) /\ Ordered(timer)
    BY <1>2 DEF Listed
  <2>2. Entries(timer) \subseteq Entry
    BY ONLY <2>1, OrderedIs
  <2> QED
    BY <2>2 DEF Entry
<1>5. /\ now \in Nat /\ Cap \in Nat /\ MaxMs \in Nat
      /\ \A c \in Sleeper : want[c] \in Nat /\ since[c] \in Nat /\ nap[c].t \in Nat
  BY <1>2, TimersAssumption, ForeverIs DEF Typed
<1>6. Typed' /\ Napping'
  BY <1>1, <1>2 DEF Typed, Napping
<1>8. LongEnough => LongEnough'
  BY <1>1, <1>3, <1>5 DEF LongEnough
<1>9. Soon => Soon'
  BY <1>1, <1>3, <1>4, <1>5 DEF Soon, InTime, LooksSoon
<1> QED
  BY <1>3, <1>6, <1>8, <1>9 DEF TimerFacts, TimersInv, NoWrap, ShortDelays

\* epoll_wait() itself changes nothing of this.
LEMMA StillStep ==
    ASSUME TimerFacts, UNCHANGED <<now, timer, hint, it, waitMs, checked, st, nap, since, want>>
    PROVE  TimerFacts'
<1>1. TimersInv /\ Typed /\ Listed /\ Napping
  BY DEF TimerFacts, TimersInv
<1>2. Typed' /\ Listed' /\ Napping'
  BY <1>1 DEF Typed, Listed, Napping
<1>3. (LongEnough => LongEnough') /\ (Soon => Soon')
  BY DEF LongEnough, Soon, InTime, LooksSoon
<1> QED
  BY <1>2, <1>3 DEF TimerFacts, TimersInv, NoWrap, ShortDelays

-----------------------------------------------------------------------------
\* The invariant holds of a new TimerManager.
LEMMA FactsAtFirst == TimersInit => TimerFacts
<1> SUFFICES ASSUME TimersInit PROVE TimerFacts
  OBVIOUS
<1>1. Entries(timer) = {} /\ Owners(timer) = {} /\ Len(timer) = 0 /\ timer \in Seq(Entry)
  BY DEF TimersInit, Entries, Owners
<1>2. Typed
  BY ForeverIs DEF TimersInit, Typed, States, NoNap
<1>3. Listed
  BY <1>1 DEF TimersInit, Listed, Ordered
<1>4. Napping
  BY DEF TimersInit, Napping
<1>5. LongEnough
  BY <1>1 DEF TimersInit, LongEnough
<1>6. Soon
  BY <1>1, TimersAssumption DEF TimersInit, Soon, InTime, LooksSoon, NoNap, Powers
<1> QED
  BY <1>2, <1>3, <1>4, <1>5, <1>6 DEF TimerFacts, TimersInv

\* Every call keeps the invariant, with the milliseconds it comes to.
LEMMA CallStep ==
    ASSUME TimerFacts, NEW c \in Sleeper,
           \/ \E ms \in Delays : Sleep(c, ms, ms) \/ Wait(c, ms)
           \/ \E ms \in Delays \cup {Forever} :
                 \/ Poll(c, ms) \/ WSAPoll(c, ms) \/ WSAWaitForMultipleEvents(c, ms)
                 \/ GetQueuedCompletionStatus(c, ms) \/ GetQueuedCompletionStatusEx(c, ms)
           \/ \E n \in Seconds : \/ SleepHook(c, n)
                                 \/ \E f \in Fines : \/ NanosleepHook(c, n, f) \/ Select(c, n, f)
                                                     \/ KeventHook(c, n, f)
                                                     \/ \E endless \in {FALSE, EndlessSelect} :
                                                           WinSelect(c, n, f, endless)
    PROVE  TimerFacts'
<1>1. /\ \A ms \in Delays : ms \in Nat
      /\ \A n \in Seconds : n \in Nat
      /\ \A f \in Fines : f \in Nat
      /\ Forever \in Nat \ {0} /\ Cap \in Nat \ {0}
      /\ Word \in Nat \ {0} /\ Unit \in Nat
  BY TimersAssumption, ForeverIs
<1>2. ShortDelays => 1 <= Cap /\ 1 \in Powers
  BY <1>1 DEF Powers
<1>3. ASSUME NEW ms \in Delays, Sleep(c, ms, ms) PROVE TimerFacts'
  <2>1. ms \in Nat /\ (NoWrap => ms <= ms) /\ (ShortDelays => ms <= MaxMs)
    BY <1>1 DEF ShortDelays
  <2> QED
    BY <1>3, <2>1, SleepStep
<1>4. ASSUME NEW ms \in Delays, Wait(c, ms) PROVE TimerFacts'
  <2>1. ms \in Nat /\ (ShortDelays => ms <= MaxMs)
    BY <1>1 DEF ShortDelays
  <2> QED
    BY <1>4, <2>1, WaitStep
<1>5. ASSUME NEW ms \in Delays \cup {Forever}, BeginLooking(c, ms, 1, ms) PROVE TimerFacts'
  <2>1. ms \in Nat /\ (NoWrap => ms <= ms) /\ 1 \in Nat \ {0}
    BY <1>1
  <2> QED
    BY <1>2, <1>5, <2>1, BeginStep
<1>6. ASSUME NEW n \in Seconds, SleepHook(c, n) PROVE TimerFacts'
  <2>1. PICK k \in Nat : k = n * Unit
    BY <1>1
  <2>2. k % Word \in Nat /\ (k < Word => k % Word = k)
    BY ONLY <1>1, k \in Nat
  <2>3. NoWrap => k <= k % Word
    BY <2>1, <2>2 DEF NoWrap
  <2>4. ShortDelays => k % Word <= MaxMs
    BY <2>1 DEF ShortDelays
  <2>5. Sleep(c, k % Word, k)
    BY <1>6, <2>1 DEF SleepHook
  <2> QED
    BY <2>2, <2>3, <2>4, <2>5, SleepStep
<1>7. ASSUME NEW n \in Seconds, NEW f \in Fines
      PROVE  /\ ToMs(n, f) \in Nat /\ AtLeast(n, f) \in Nat
             /\ NoWrap => AtLeast(n, f) <= ToMs(n, f)
             /\ ShortDelays => ToMs(n, f) <= MaxMs
  BY <1>1, MsIs
<1>8. ASSUME NEW n \in Seconds, NEW f \in Fines, NanosleepHook(c, n, f) PROVE TimerFacts'
  <2>1. Sleep(c, ToMs(n, f), AtLeast(n, f))
    BY <1>8 DEF NanosleepHook
  <2> QED
    BY <1>7, <2>1, SleepStep
<1>9. ASSUME NEW n \in Seconds, NEW f \in Fines, KeventHook(c, n, f) PROVE TimerFacts'
  <2>1. Wait(c, ToMs(n, f))
    BY <1>9 DEF KeventHook
  <2> QED
    BY <1>7, <2>1, WaitStep
<1>10. ASSUME NEW n \in Seconds, NEW f \in Fines, BeginLooking(c, ToMs(n, f), 1, AtLeast(n, f))
       PROVE  TimerFacts'
  <2>1. 1 \in Nat \ {0}
    OBVIOUS
  <2> QED
    BY <1>2, <1>7, <1>10, <2>1, BeginStep
<1>11. ASSUME NEW n \in Seconds, NEW f \in Fines, NEW endless \in {FALSE, EndlessSelect},
              WinSelect(c, n, f, endless)
       PROVE  TimerFacts'
  <2>1. CASE ~endless
    BY <1>10, <1>11, <2>1 DEF WinSelect
  <2>2. CASE endless
    <3>1. BeginLooking(c, Forever, Forever, Forever)
      BY <1>11, <2>2 DEF WinSelect
    <3>2. ~ShortDelays
      BY <2>2 DEF ShortDelays
    <3>3. (NoWrap => Forever <= Forever) /\ (ShortDelays => Forever <= Cap /\ Forever \in Powers)
      BY <1>1, <3>2
    <3>4. Forever \in Nat /\ Forever \in Nat \ {0}
      BY <1>1
    <3> QED
      BY <3>1, <3>3, <3>4, BeginStep
  <2> QED
    BY <2>1, <2>2
<1> QED
  BY <1>3, <1>4, <1>5, <1>6, <1>8, <1>9, <1>10, <1>11
     DEF Poll, WSAPoll, WSAWaitForMultipleEvents, GetQueuedCompletionStatus,
         GetQueuedCompletionStatusEx, Select

\* Every step of a scheduler keeps the invariant.
LEMMA FactsKept == TimerFacts /\ [TimersNext]_timersVars => TimerFacts'
<1> SUFFICES ASSUME TimerFacts, [TimersNext]_timersVars PROVE TimerFacts'
  OBVIOUS
<1>1. CASE Tick
  BY <1>1, TickStep
<1>2. CASE CheckTimeout
  BY <1>2, TimedOutStep DEF CheckTimeout
<1>3. CASE EpollWait \/ EpollReturns \/ UNCHANGED timersVars
  BY <1>3, StillStep DEF EpollWait, EpollReturns, timersVars
<1>4. ASSUME NEW c \in Sleeper, LookAndNap(c) \/ StopLooking(c) \/ Won(c) \/ Resume(c) PROVE TimerFacts'
  BY <1>4, NapStep, StopStep, WonStep, ResumeStep
<1> QED
  BY <1>1, <1>2, <1>3, <1>4, CallStep DEF TimersNext

\* The inductive invariant of the TimerManager (co/src/sched.h, sched.cc) and of
\* the calls that sleep (co/src/hook.cc, hook_win.cc).
THEOREM TimersInvariant == TimersSpec => []TimerFacts
  BY FactsAtFirst, FactsKept, PTL DEF TimersSpec

\* The invariant says that the iterators into _timer are valid.
LEMMA InvIsValid == TimersInv => IteratorsValid
  BY DEF TimersInv, Listed, Ordered, IteratorsValid

\* _it and co->it always point to entries of _timer that exist, which is in
\* order, and a coroutine that sleeps has an entry (co/src/sched.h, sched.cc),
\* whatever programs call with whatever times.
THEOREM IteratorsStayValid == TimersSpec => []IteratorsValid
<1>1. TimerFacts => IteratorsValid
  BY InvIsValid DEF TimerFacts
<1> QED
  BY <1>1, TimersInvariant, PTL

\* The invariant says what TimersSound says.
LEMMA SoonIsSound == ASSUME TimersInv, Soon PROVE TimersSound
<1>1. IteratorsValid
  BY InvIsValid
<1>2. timer \in Seq(Entry)
  BY DEF TimersInv, Listed
<1>3. \A i \in 1..Len(timer) : timer[i] \in Entries(timer)
  BY DEF Entries
<1>4. LoopWakesInTime
  <2>1. timer # <<>> => 1 \in 1..Len(timer)
    BY <1>2
  <2> QED
    BY <1>3, <2>1 DEF Soon, InTime, LoopWakesInTime
<1>5. LooksAgain
  <2> SUFFICES ASSUME NEW c \in Sleeper, nap[c] # NoNap, st[c] = "sleeps"
               PROVE  timer[Pos(c)].at <= now + Cap
    BY DEF Soon, LooksSoon, LooksAgain
  <2>1. c \in Owners(timer)
    BY DEF TimersInv, Listed
  <2>2. Pos(c) \in 1..Len(timer) /\ timer[Pos(c)].co = c
    BY <1>2, <2>1, PosIs
  <2> QED
    BY <1>3, <2>2 DEF Soon, LooksSoon
<1> QED
  BY <1>1, <1>4, <1>5 DEF TimersSound

\* If no program asks for more than 2^31 ms or for a select() without end, the
\* loop never enters epoll_wait() past a deadline and polls look again within
\* Cap milliseconds (co/src/sched.cc, hook.cc, hook_win.cc).
THEOREM TimersAreSound == ShortDelays => (TimersSpec => []TimersSound)
<1> SUFFICES ASSUME ShortDelays PROVE TimersSpec => []TimersSound
  OBVIOUS
<1>1. TimerFacts => TimersSound
  BY SoonIsSound DEF TimerFacts
<1> QED
  BY <1>1, TimersInvariant, PTL

\* A step that ends a sleep, a poll or a select does not end it early.
LEMMA StepIsLong ==
    ASSUME TimerFacts, NoWrap, [TimersNext]_timersVars, NEW c \in Sleeper,
           (st[c] = "sleeps" /\ nap[c] = NoNap /\ st'[c] = "runs") \/ (nap[c] # NoNap /\ nap'[c] = NoNap)
    PROVE  now - since[c] >= want'[c]
<1>1. TimersInv /\ Typed /\ Listed /\ Napping /\ LongEnough
  BY DEF TimerFacts, TimersInv
<1>2. now \in Nat /\ since[c] \in Nat /\ want[c] \in Nat /\ since[c] <= now /\ NoNap.t = 0
  BY <1>1 DEF Typed, NoNap
<1>3. CASE st[c] = "sleeps" /\ nap[c] = NoNap /\ st'[c] = "runs"
  <2>1. PICK n \in 0..Len(timer) : TimedOut(n)
    <3>1. \A d \in Sleeper : (Won(d) \/ Resume(d)) => st'[c] = "sleeps"
      BY <1>1, <1>3 DEF Won, Resume, Typed
    <3>2. \A d \in Sleeper : LookAndNap(d) \/ StopLooking(d) => st'[c] = "sleeps"
      BY <1>1, <1>3 DEF LookAndNap, StopLooking, Typed
    <3>3. \A d \in Sleeper : \A ms, x, w : BeginLooking(d, ms, x, w) => st'[c] = "sleeps"
      BY <1>1, <1>3 DEF BeginLooking
    <3>4. \A d \in Sleeper : \A ms, w : Sleep(d, ms, w) \/ Wait(d, ms) => st'[c] = "sleeps"
      BY <1>1, <1>3 DEF Sleep, Wait, Typed
    <3>5. Tick \/ EpollWait \/ EpollReturns \/ UNCHANGED timersVars => st'[c] = "sleeps"
      BY <1>3 DEF Tick, EpollWait, EpollReturns, timersVars
    <3> QED
      BY <1>3, <3>1, <3>2, <3>3, <3>4, <3>5
         DEF TimersNext, CheckTimeout, SleepHook, NanosleepHook, KeventHook, Poll, WSAPoll,
             WSAWaitForMultipleEvents, GetQueuedCompletionStatus, GetQueuedCompletionStatusEx,
             Select, WinSelect
  <2>2. PICK e \in Entries(timer) : e.co = c /\ e.at <= now
    BY <1>1, <1>3, <2>1, TimedOutListed
  <2>3. e.at \in Nat
    <3>1. timer \in Seq(Entry) /\ Ordered(timer)
      BY <1>1 DEF Listed
    <3>2. Entries(timer) \subseteq Entry
      BY ONLY <3>1, OrderedIs
    <3> QED
      BY <3>2 DEF Entry
  <2>4. want[c] + since[c] <= e.at + 0
    BY <1>1, <1>2, <1>3, <2>2 DEF LongEnough
  <2>5. want' = want
    BY <2>1 DEF TimedOut
  <2> QED
    BY <1>2, <2>2, <2>3, <2>4, <2>5
<1>4. CASE nap[c] # NoNap /\ nap'[c] = NoNap
  <2>1. StopLooking(c)
    <3>1. \A d \in Sleeper : (Won(d) \/ Resume(d)) => nap'[c] = nap[c]
      BY DEF Won, Resume
    <3>2. \A d \in Sleeper : LookAndNap(d) => nap'[c] # NoNap
      <4> SUFFICES ASSUME NEW d \in Sleeper, LookAndNap(d) PROVE nap'[c] # NoNap
        OBVIOUS
      <4>1. CASE d # c
        BY <1>1, <1>4, <4>1 DEF LookAndNap, NextNap, Typed
      <4>2. CASE d = c
        <5>1. nap[c].x \in Nat \ {0}
          BY <1>1, <1>4 DEF Napping, Typed
        <5>2. nap'[c].x = IF nap[c].x < Cap THEN 2 * nap[c].x ELSE nap[c].x
          BY <1>1, <4>2 DEF LookAndNap, NextNap, Typed
        <5>3. nap'[c].x # 0
          BY <5>1, <5>2
        <5> QED
          BY <5>3 DEF NoNap
      <4> QED
        BY <4>1, <4>2
    <3>3. \A d \in Sleeper : StopLooking(d) /\ d # c => nap'[c] = nap[c]
      BY <1>1 DEF StopLooking, Typed
    <3>4. \A d \in Sleeper : \A ms, x, w : BeginLooking(d, ms, x, w) => nap'[c] # NoNap
      <4> SUFFICES ASSUME NEW d \in Sleeper, NEW ms, NEW x, NEW w, BeginLooking(d, ms, x, w)
                   PROVE  nap'[c] = nap[c]
        BY <1>4
      <4>1. nap[d] = NoNap /\ nap' = [nap EXCEPT ![d] = [t |-> ms, x |-> x]]
        BY DEF BeginLooking, Runs
      <4> QED
        BY <1>1, <1>4, <4>1 DEF Typed
    <3>5. \A d \in Sleeper : \A ms, w : Sleep(d, ms, w) \/ Wait(d, ms) => nap'[c] = nap[c]
      BY DEF Sleep, Wait
    <3>6. Tick \/ CheckTimeout \/ EpollWait \/ EpollReturns \/ UNCHANGED timersVars => nap'[c] = nap[c]
      BY DEF Tick, CheckTimeout, TimedOut, EpollWait, EpollReturns, timersVars
    <3> QED
      BY <1>4, <3>1, <3>2, <3>3, <3>4, <3>5, <3>6
         DEF TimersNext, SleepHook, NanosleepHook, KeventHook, Poll, WSAPoll,
             WSAWaitForMultipleEvents, GetQueuedCompletionStatus, GetQueuedCompletionStatusEx,
             Select, WinSelect
  <2>2. st[c] = "runs" /\ want'[c] = IF nap[c].t = 0 THEN want[c] ELSE 0
    BY <1>1, <2>1 DEF StopLooking, Typed
  <2>3. want[c] + since[c] <= now + nap[c].t
    BY <1>1, <1>4, <2>2 DEF LongEnough
  <2> QED
    BY <1>2, <2>2, <2>3
<1> QED
  BY <1>3, <1>4

\* If no sleep(n) is of 2^32 ms or more, no call that sleeps, and no poll or
\* select that finds nothing, ends early (co/src/hook.cc, hook_win.cc, sched.cc).
THEOREM SleepsAreLongEnough == NoWrap => (TimersSpec => SleepsLongEnough)
<1> SUFFICES ASSUME NoWrap PROVE TimersSpec => SleepsLongEnough
  OBVIOUS
<1>1. TimerFacts /\ [TimersNext]_timersVars =>
        [\A c \in Sleeper : (st[c] = "sleeps" /\ nap[c] = NoNap /\ st'[c] = "runs")
                       \/ (nap[c] # NoNap /\ nap'[c] = NoNap)
                       => now - since[c] >= want'[c]]_timersVars
  BY StepIsLong
<1> QED
  BY <1>1, TimersInvariant, PTL DEF TimersSpec, SleepsLongEnough
=============================================================================
