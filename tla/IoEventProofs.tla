--------------------------- MODULE IoEventProofs ---------------------------
(***************************************************************************)
(* That the registrations of waiting coroutines are exact, that no edge of *)
(* an edge-triggered epoll is lost, and that connect() returns 0 only for  *)
(* a connection that was made: for any schedulers, coroutines and sockets, *)
(* as long as one coroutine at a time uses a direction of a socket and     *)
(* nobody closes a socket that is in use.                                  *)
(*                                                                         *)
(* The actions fall into kinds of steps, which say what an action does to  *)
(* the state when the invariant holds: what a registration leaves in the   *)
(* epoll, and that a socket nobody uses is registered nowhere.  Each part  *)
(* of the invariant is then shown to be preserved by each kind.            *)
(***************************************************************************)
EXTENDS IoEvent, SequenceTheorems, TLAPS

Active == {"running", "call", "block", "so_error", "success"}
CallPcs == {"call", "block", "wait", "so_error"}
Made == {"connected", "failed"}

-----------------------------------------------------------------------------
(***************************************************************************)
(* The type invariant                                                      *)
(***************************************************************************)
LEMMA TypesAtFirst == Init => TypeOK
  <1> SUFFICES ASSUME Init PROVE TypeOK
    OBVIOUS
  <1>1. NoOp \in [kind : {"none", "recv", "send", "connect", "close"}, fd : Fd, dir : Dir]
    BY IoAssumption DEF NoOp, Dir, IoAssumption
  <1>2. KernelTypes
    BY DEF Init, Dir, KernelTypes
  <1>3. EpollTypes
    BY DEF Init, EpollTypes
  <1>4. SchedTypes
    BY DEF Init, SchedTypes
  <1>5. CallTypes
    BY <1>1, IoAssumption DEF Init, CallTypes, IoAssumption
  <1> QED
    BY <1>2, <1>3, <1>4, <1>5 DEF TypeOK

LEMMA WatchTypes ==
    ASSUME EpollTypes, NEW s \in Sched, NEW f \in Fd, NEW I \in SUBSET Dir,
           Interest(s, f, I) \/ Forget(s, f)
    PROVE  reg' \in [Sched -> [Fd -> SUBSET Dir]] /\ armed' \in [Sched -> SUBSET Fd]
  <1>1. reg \in [Sched -> [Fd -> SUBSET Dir]] /\ reg[s] \in [Fd -> SUBSET Dir]
    BY DEF EpollTypes
  <1>2. armed \in [Sched -> SUBSET Fd]
    BY DEF EpollTypes
  <1>3. PICK J \in SUBSET Dir : reg' = [reg EXCEPT ![s] = [@ EXCEPT ![f] = J]]
    BY DEF Interest, Forget
  <1>4. reg' \in [Sched -> [Fd -> SUBSET Dir]]
    BY <1>1, <1>3
  <1>5. armed' \in [Sched -> SUBSET Fd]
    BY <1>2 DEF Interest, Forget
  <1> QED
    BY <1>4, <1>5

LEMMA CtxTypes ==
    ASSUME EpollTypes, NEW f \in Fd, NEW d \in Dir, NEW v \in Co \cup {NoCo},
           ctx' = [ctx EXCEPT ![f][d] = v]
    PROVE  ctx' \in [Fd -> [Dir -> Co \cup {NoCo}]]
  <1>1. ctx \in [Fd -> [Dir -> Co \cup {NoCo}]] /\ ctx[f] \in [Dir -> Co \cup {NoCo}]
    BY DEF EpollTypes
  <1>2. ctx' = [ctx EXCEPT ![f] = [@ EXCEPT ![d] = v]]
    OBVIOUS
  <1> QED
    BY <1>1, <1>2

LEMMA DelEvTypes ==
    ASSUME EpollTypes, NEW s \in Sched, NEW f \in Fd, NEW d \in Dir, DelEv(s, f, d)
    PROVE  EpollTypes'
  <1>1. CASE ctx[f][d] = NoCo
    BY <1>1 DEF DelEv, EpollTypes, epollVars
  <1>2. CASE ctx[f][d] # NoCo
    <2>1. {Other(d)} \in SUBSET Dir
      BY DEF Other, Dir
    <2>2. ctx' \in [Fd -> [Dir -> Co \cup {NoCo}]]
      BY <1>2, CtxTypes DEF DelEv
    <2>3. Interest(s, f, {Other(d)}) \/ Forget(s, f)
      BY <1>2 DEF DelEv
    <2> QED
      BY <2>1, <2>2, <2>3, WatchTypes DEF EpollTypes
  <1> QED
    BY <1>1, <1>2

LEMMA ReturnsTypes ==
    ASSUME TypeOK, NEW c \in Co, NEW how \in {"running", "success"}, Returns(c, how)
    PROVE  EpollTypes' /\ CallTypes'
  <1>1. SchedOf[c] \in Sched /\ op[c].fd \in Fd /\ op[c].dir \in Dir
    BY IoAssumption DEF TypeOK, CallTypes, IoAssumption
  <1>2. CallTypes'
    BY DEF TypeOK, CallTypes, Returns, Goes
  <1>3. CASE added[c]
    BY <1>1, <1>2, <1>3, DelEvTypes DEF Returns, TypeOK
  <1>4. CASE ~added[c]
    BY <1>2, <1>4 DEF Returns, TypeOK, EpollTypes, epollVars
  <1> QED
    BY <1>3, <1>4

LEMMA ClosesTypes ==
    ASSUME TypeOK, NEW f \in Fd, Closes(f)
    PROVE  KernelTypes' /\ EpollTypes'
  <1>1. KernelTypes'
    BY DEF TypeOK, KernelTypes, Closes
  <1>2. ctx' \in [Fd -> [Dir -> Co \cup {NoCo}]]
    BY DEF TypeOK, EpollTypes, Closes, Nobody
  <1>3. reg' \in [Sched -> [Fd -> SUBSET Dir]] /\ armed' \in [Sched -> SUBSET Fd]
    BY DEF TypeOK, EpollTypes, Closes
  <1> QED
    BY <1>1, <1>2, <1>3 DEF EpollTypes

\* What an action leaves alone keeps its type, and so do the simplest changes.
LEMMA Unchanged ==
    /\ KernelTypes /\ UNCHANGED kernelVars => KernelTypes'
    /\ EpollTypes /\ UNCHANGED <<epollVars, ctx>> => EpollTypes'
    /\ SchedTypes /\ UNCHANGED schedVars => SchedTypes'
    /\ CallTypes /\ UNCHANGED coVars => CallTypes'
  BY DEF kernelVars, epollVars, schedVars, coVars, KernelTypes, EpollTypes, SchedTypes, CallTypes

LEMMA GoesTypes ==
    ASSUME CallTypes, NEW c \in Co, UNCHANGED <<op, added, ops, got>>,
           NEW p \in {"parked", "running", "call", "block", "wait", "so_error", "success", "closing"},
           Goes(c, p)
    PROVE  CallTypes'
  BY DEF CallTypes, Goes

LEMMA RunTypes ==
    ASSUME SchedTypes, NEW s \in Sched, NEW r \in Co \cup {NoCo}, run' = [run EXCEPT ![s] = r],
           UNCHANGED <<batch, due>>
    PROVE  SchedTypes'
  BY DEF SchedTypes

LEMMA CallsTypes ==
    ASSUME CallTypes, NEW c \in Co, Calls(c)
    PROVE  ops' \in [Co -> Nat] /\ \A o \in Co : ops'[o] <= MaxOps[o]
  <1>1. ops \in [Co -> Nat] /\ MaxOps \in [Co -> Nat] /\ \A o \in Co : ops[o] <= MaxOps[o]
    BY IoAssumption DEF CallTypes, IoAssumption
  <1>2. ops[c] \in Nat /\ MaxOps[c] \in Nat /\ ops[c] < MaxOps[c] /\ ops' = [ops EXCEPT ![c] = ops[c] + 1]
    BY <1>1 DEF Calls
  <1>3. ops[c] + 1 \in Nat /\ ops[c] + 1 <= MaxOps[c]
    BY <1>2
  <1> QED
    BY <1>1, <1>2, <1>3

LEMMA ReadyTypes ==
    ASSUME KernelTypes, NEW f \in Fd, NEW R \in SUBSET Dir, ready' = [ready EXCEPT ![f] = R]
    PROVE  ready' \in [Fd -> SUBSET Dir]
  BY DEF KernelTypes

LEMMA CoStepTypes ==
    ASSUME TypeOK, NEW c \in Co, CoStep(c)
    PROVE  TypeOK'
  <1> USE IoAssumption DEF IoAssumption
  <1>0. SchedOf[c] \in Sched /\ op[c].fd \in Fd /\ op[c].dir \in Dir
    BY DEF TypeOK, CallTypes
  <1>1. CASE ResumeParked(c) \/ Park(c) \/ Succeeded(c)
    <2>1. KernelTypes' /\ EpollTypes'
      BY <1>1, Unchanged DEF ResumeParked, Park, Succeeded, TypeOK
    <2>2. SchedTypes'
      BY <1>0, <1>1, Unchanged, RunTypes DEF ResumeParked, Park, Succeeded, TypeOK
    <2>3. CallTypes'
      BY <1>1, GoesTypes DEF ResumeParked, Park, Succeeded, TypeOK
    <2> QED
      BY <2>1, <2>2, <2>3 DEF TypeOK
  <1>2. CASE TryMore(c) \/ TryAgain(c)
    <2>1. EpollTypes' /\ SchedTypes'
      BY <1>2, Unchanged DEF TryMore, TryAgain, Moves, TypeOK, coVars
    <2>2. CallTypes'
      BY <1>2, Unchanged, GoesTypes DEF TryMore, TryAgain, TypeOK
    <2>3. CASE TryMore(c)
      <3>1. \E R \in SUBSET Dir : ready' = [ready EXCEPT ![op[c].fd] = R]
        BY <1>0, <2>3 DEF TryMore, Moves, TypeOK, KernelTypes
      <3>2. KernelTypes'
        BY <1>0, <2>3, <3>1, ReadyTypes DEF TryMore, Moves, TypeOK, KernelTypes
      <3> QED
        BY <2>1, <2>2, <3>2 DEF TypeOK
    <2>4. CASE TryAgain(c)
      BY <2>1, <2>2, <2>4, Unchanged DEF TryAgain, TypeOK
    <2> QED
      BY <1>2, <2>3, <2>4
  <1>3. CASE TryFails(c) \/ TryDone(c) \/ BlockFails(c) \/ SoError(c) \/ TimeOut(c)
    <2>1. \E how \in {"running", "success"} : Returns(c, how)
      BY <1>3 DEF TryFails, TryDone, BlockFails, SoError, TimeOut
    <2>2. EpollTypes' /\ CallTypes'
      BY <2>1, ReturnsTypes
    <2>3. KernelTypes'
      BY <1>0, <1>3 DEF TryFails, TryDone, BlockFails, SoError, TimeOut, Moves, TypeOK, KernelTypes, kernelVars
    <2>4. SchedTypes'
      BY <1>0, <1>3 DEF TryFails, TryDone, BlockFails, SoError, TimeOut, Moves, TypeOK, SchedTypes, schedVars
    <2> QED
      BY <2>2, <2>3, <2>4 DEF TypeOK
  <1>4. CASE Block(c)
    <2>1. KernelTypes'
      BY <1>4, Unchanged DEF Block, TypeOK
    <2>4. SchedTypes'
      BY <1>0, <1>4, RunTypes DEF Block, TypeOK
    <2>5. CallTypes'
      BY <1>4 DEF Block, Goes, TypeOK, CallTypes
    <2>2. CASE UNCHANGED <<ctx, epollVars>>
      BY <2>1, <2>2, <2>4, <2>5, Unchanged DEF TypeOK
    <2>3. CASE ~UNCHANGED <<ctx, epollVars>>
      <3>1. AddEv(SchedOf[c], c, op[c].fd, op[c].dir)
        BY <1>4, <2>3 DEF Block
      <3>2. PICK I \in SUBSET Dir : Interest(SchedOf[c], op[c].fd, I)
        BY <1>0, <3>1, <2>3 DEF AddEv
      <3>3. ctx' \in [Fd -> [Dir -> Co \cup {NoCo}]]
        BY <1>0, <3>1, <2>3, CtxTypes DEF AddEv, TypeOK
      <3>4. reg' \in [Sched -> [Fd -> SUBSET Dir]] /\ armed' \in [Sched -> SUBSET Fd]
        BY <1>0, <3>2, WatchTypes DEF TypeOK
      <3> QED
        BY <2>1, <2>4, <2>5, <3>3, <3>4 DEF TypeOK, EpollTypes
    <2> QED
      BY <2>2, <2>3
  <1>5. CASE CloseSlept(c)
    <2>1. KernelTypes' /\ SchedTypes' /\ CallTypes'
      BY <1>0, <1>5 DEF CloseSlept, Goes, TypeOK, KernelTypes, SchedTypes, CallTypes
    <2>2. EpollTypes'
      BY <1>0, <1>5 DEF CloseSlept, TypeOK, EpollTypes
    <2> QED
      BY <2>1, <2>2 DEF TypeOK
  <1>6. ASSUME NEW f \in Fd, Socket(c, f) \/ ConnectAtOnce(c, f)
        PROVE  TypeOK'
    <2>1. EpollTypes' /\ SchedTypes'
      BY <1>6, Unchanged DEF Socket, ConnectAtOnce, TypeOK
    <2>2. CallTypes'
      BY <1>6, CallsTypes DEF Socket, ConnectAtOnce, TypeOK, CallTypes
    <2>3. KernelTypes'
      <3>1. CASE Socket(c, f)
        BY <3>1 DEF Socket, TypeOK, KernelTypes
      <3>2. CASE ConnectAtOnce(c, f)
        BY <3>2, ReadyTypes DEF ConnectAtOnce, TypeOK, KernelTypes, Dir
      <3> QED
        BY <1>6, <3>1, <3>2
    <2> QED
      BY <2>1, <2>2, <2>3 DEF TypeOK
  <1>7. ASSUME NEW f \in Fd, Connect(c, f) \/ \E d \in Dir : Begin(c, f, d)
        PROVE  TypeOK'
    <2>1. EpollTypes' /\ SchedTypes'
      BY <1>7, Unchanged DEF Connect, Begin, TypeOK
    <2>2. KernelTypes'
      BY <1>7, Unchanged DEF Connect, Begin, TypeOK, KernelTypes
    <2>3. PICK k \in {"recv", "send", "connect"}, d \in Dir : Begins(c, k, f, d)
      BY <1>7 DEF Connect, Begin, Dir
    <2>4. op' \in [Co -> [kind : {"none", "recv", "send", "connect", "close"}, fd : Fd, dir : Dir]]
      BY <2>3 DEF Begins, TypeOK, CallTypes
    <2>5. added' \in [Co -> BOOLEAN] /\ got' \in [Co -> Nat]
      BY <2>3 DEF Begins, TypeOK, CallTypes, KernelTypes
    <2>6. CallTypes'
      BY <1>7, <2>4, <2>5, CallsTypes DEF Connect, Begin, Goes, TypeOK, CallTypes
    <2> QED
      BY <2>1, <2>2, <2>6 DEF TypeOK
  <1>8. ASSUME NEW f \in Fd, Close(c, f)
        PROVE  TypeOK'
    BY <1>8, ClosesTypes DEF Close, Calls, TypeOK, SchedTypes, CallTypes, schedVars
  <1>9. ASSUME NEW f \in Fd, CloseLater(c, f)
        PROVE  TypeOK'
    <2>1. KernelTypes' /\ SchedTypes'
      BY <1>0, <1>9, Unchanged, RunTypes DEF CloseLater, TypeOK
    <2>4. op' \in [Co -> [kind : {"none", "recv", "send", "connect", "close"}, fd : Fd, dir : Dir]]
      BY <1>9 DEF CloseLater, TypeOK, CallTypes, Dir
    <2>5. CallTypes'
      BY <1>9, <2>4, CallsTypes DEF CloseLater, Goes, TypeOK, CallTypes
    <2>2. ctx' \in [Fd -> [Dir -> Co \cup {NoCo}]]
      BY <1>9 DEF CloseLater, Nobody, TypeOK, EpollTypes
    <2>3. reg' \in [Sched -> [Fd -> SUBSET Dir]] /\ armed' \in [Sched -> SUBSET Fd]
      BY <1>0, <1>9, WatchTypes DEF CloseLater, TypeOK, EpollTypes, epollVars
    <2> QED
      BY <2>1, <2>2, <2>3, <2>5 DEF TypeOK, EpollTypes
  <1>10. ASSUME NEW f \in Fd, NEW d \in Dir, Shutdown(c, f, d)
        PROVE  TypeOK'
    <2>1. EpollTypes'
      BY <1>0, <1>10, DelEvTypes DEF Shutdown, TypeOK
    <2>2. KernelTypes' /\ SchedTypes' /\ CallTypes'
      BY <1>10 DEF Shutdown, Calls, TypeOK, KernelTypes, SchedTypes, CallTypes, schedVars
    <2> QED
      BY <2>1, <2>2 DEF TypeOK
  <1> QED
    BY <1>1, <1>2, <1>3, <1>4, <1>5, <1>6, <1>7, <1>8, <1>9, <1>10 DEF CoStep, Try

LEMMA SchedStepTypes ==
    ASSUME TypeOK, NEW s \in Sched, SchedStep(s)
    PROVE  TypeOK'
  <1>1. CASE EpollWait(s)
    <2>1. KernelTypes' /\ CallTypes' /\ EpollTypes'
      BY <1>1 DEF EpollWait, TypeOK, KernelTypes, CallTypes, EpollTypes, kernelVars, coVars
    <2>2. {[fd |-> f, dirs |-> ready[f] \cap reg[s][f]] :
             f \in {g \in armed[s] : g \in err \/ ready[g] \cap reg[s][g] # {}}}
          \in SUBSET [fd : Fd, dirs : SUBSET Dir]
      BY DEF TypeOK, KernelTypes, EpollTypes
    <2>3. SchedTypes'
      BY <1>1, <2>2 DEF EpollWait, TypeOK, SchedTypes
    <2> QED
      BY <2>1, <2>3 DEF TypeOK
  <1>2. CASE HandleEvent(s)
    <2>1. KernelTypes' /\ CallTypes' /\ EpollTypes'
      BY <1>2 DEF HandleEvent, TypeOK, KernelTypes, CallTypes, EpollTypes, kernelVars, epollVars, coVars
    <2>2. PICK e \in batch[s] : due' = [due EXCEPT ![s] = Due(s, e, "r") \o Due(s, e, "w")]
      BY <1>2 DEF HandleEvent
    <2>3. e.fd \in Fd
      BY DEF TypeOK, SchedTypes
    <2>4. ASSUME NEW d \in Dir PROVE Due(s, e, d) \in Seq(Co)
      BY <2>3, <2>4 DEF Due, Recorded, TypeOK, EpollTypes
    <2>5. Due(s, e, "r") \o Due(s, e, "w") \in Seq(Co)
      BY <2>4 DEF Dir
    <2>6. SchedTypes'
      BY <1>2, <2>2, <2>5 DEF HandleEvent, TypeOK, SchedTypes
    <2> QED
      BY <2>1, <2>6 DEF TypeOK
  <1>3. CASE ResumeDue(s)
    <2>1. Head(due[s]) \in Co /\ Tail(due[s]) \in Seq(Co)
      BY <1>3 DEF ResumeDue, TypeOK, SchedTypes
    <2> QED
      BY <1>3, <2>1 DEF ResumeDue, Goes, TypeOK, KernelTypes, EpollTypes, SchedTypes, CallTypes,
         kernelVars, epollVars
  <1> QED
    BY <1>1, <1>2, <1>3 DEF SchedStep

LEMMA TypesKept == TypeOK /\ [Next]_vars => TypeOK'
  <1> SUFFICES ASSUME TypeOK, [Next]_vars PROVE TypeOK'
    OBVIOUS
  <1>1. CASE UNCHANGED vars
    BY <1>1 DEF vars, kernelVars, epollVars, schedVars, coVars, TypeOK, KernelTypes, EpollTypes, SchedTypes, CallTypes
  <1>2. CASE \E c \in Co : CoStep(c)
    BY <1>2, CoStepTypes
  <1>3. CASE \E s \in Sched : SchedStep(s)
    BY <1>3, SchedStepTypes
  <1>4. CASE Outside
    <2>1. PICK f \in Fd : Connected(f) \/ Break(f) \/ CloseByThread(f) \/ \E d \in Dir : Arrive(f, d)
      BY <1>4 DEF Outside
    <2>2. CASE CloseByThread(f)
      BY <2>2, ClosesTypes DEF CloseByThread, TypeOK, SchedTypes, CallTypes, schedVars, coVars
    <2>3. CASE Connected(f) \/ Break(f) \/ \E d \in Dir : Arrive(f, d)
      <3>1. SchedTypes' /\ CallTypes' /\ UNCHANGED <<reg, ctx>> /\ Announce(f)
        BY <2>3, Unchanged DEF Connected, Break, Arrive, TypeOK
      <3>2. EpollTypes'
        BY <3>1 DEF Announce, TypeOK, EpollTypes
      <3>3. KernelTypes'
        <4>1. CASE Connected(f)
          BY <4>1 DEF Connected, Dir, TypeOK, KernelTypes
        <4>2. CASE Break(f)
          BY <4>2 DEF Break, TypeOK, KernelTypes
        <4>3. CASE \E d \in Dir : Arrive(f, d)
          BY <4>3 DEF Arrive, TypeOK, KernelTypes
        <4> QED
          BY <2>3, <4>1, <4>2, <4>3
      <3> QED
        BY <3>1, <3>2, <3>3 DEF TypeOK
    <2> QED
      BY <2>1, <2>2, <2>3
  <1> QED
    BY <1>1, <1>2, <1>3, <1>4 DEF Next

\* Every variable of the socket I/O has its type.
THEOREM TypeCorrect == Spec => []TypeOK
  BY TypesAtFirst, TypesKept, PTL DEF Spec

-----------------------------------------------------------------------------
(***************************************************************************)
(* The invariant                                                           *)
(***************************************************************************)
\* How programs use sockets: a direction of a socket is used by one coroutine
\* at a time, and nobody closes a socket others use.
Disciplined == ~Shared /\ ~CloseInUse

\* A coroutine that runs is the one its scheduler is in.
Placed == \A c \in Co : pc[c] \in Active => run[SchedOf[c]] = c

\* A direction of a socket has one user, and a socket that is being closed none.
Exclusive ==
    \A o, c \in Co : o # c /\ pc[c] \in CallPcs /\ op[o].fd = op[c].fd =>
        /\ pc[o] # "closing"
        /\ pc[o] \in CallPcs => op[o].dir # op[c].dir

\* A socket stays open during calls, and reports nothing before it is connected.
Opened ==
    /\ \A c \in Co : pc[c] \in CallPcs =>
          conn[op[c].fd] \notin {"closed", "fresh"} /\ got[c] = gen[op[c].fd]
    /\ \A f \in Fd : conn[f] \notin Made => ready[f] = {} /\ f \notin err

\* What is registered, in the SockCtx and in the epolls, is what calls in
\* progress have added.
Exact ==
    /\ \A f \in Fd, d \in Dir : ctx[f][d] # NoCo =>
          added[ctx[f][d]] /\ InCall(ctx[f][d], f) /\ op[ctx[f][d]].dir = d
    /\ \A c \in Co : pc[c] \in CallPcs /\ added[c] => ctx[op[c].fd][op[c].dir] = c
    /\ \A c \in Co : pc[c] = "wait" => added[c]
    /\ \A s \in Sched, f \in Fd, d \in Dir : d \in reg[s][f] <=> Recorded(s, f, d)
    /\ \A s \in Sched, f \in Fd : f \in armed[s] => reg[s][f] # {}

\* The coroutines a scheduler is about to resume wait, each for itself, for a
\* socket that has been connected.
DueWait ==
    \A s \in Sched : \A i \in 1..Len(due[s]) :
        /\ Waits(due[s][i]) /\ SchedOf[due[s][i]] = s
        /\ conn[op[due[s][i]].fd] \in Made
        /\ \A j \in 1..Len(due[s]) : due[s][i] = due[s][j] => i = j

\* c waits for socket f, and is not about to be resumed.
Awaits(s, f, c) ==
    /\ Waits(c) /\ op[c].fd = f /\ SchedOf[c] = s
    /\ \A i \in 1..Len(due[s]) : due[s][i] # c

\* An event of the batch is about a socket somebody has been waiting for ever
\* since, and there is one of each socket: no event is older than its socket.
BatchFresh ==
    \A s \in Sched : \A e \in batch[s] :
        /\ \E c \in Co : Awaits(s, e.fd, c)
        /\ conn[e.fd] \in Made
        /\ \A g \in batch[s] : g.fd = e.fd => g = e

\* connect() asks for the error of a connection that was tried.
Asks == \A c \in Co : pc[c] = "so_error" => conn[op[c].fd] \in Made

\* A coroutine that needs an event: an error is for one that waits alone in its
\* epoll.
Needs(c) ==
    LET f == op[c].fd
        d == op[c].dir
    IN  /\ Waits(c) \/ (pc[c] = "block" /\ added[c])
        /\ d \in ready[f] \/ (f \in err /\ Other(d) \notin reg[SchedOf[c]][f])

NoEdgeLost == \A c \in Co : Needs(c) => Pending(c, op[c].fd, op[c].dir)

Inv ==
    /\ TypeOK /\ Placed /\ Exclusive /\ Opened /\ Exact
    /\ DueWait /\ BatchFresh /\ Asks /\ NoEdgeLost

-----------------------------------------------------------------------------
(***************************************************************************)
(* The kinds of steps                                                      *)
(***************************************************************************)
\* No scheduler and no call moves.
Still == UNCHANGED <<schedVars, pc, op, added, got>>

\* Only socket f changes in the kernel.
OnlySocket(f) ==
    \A g \in Fd \ {f} :
        conn'[g] = conn[g] /\ ready'[g] = ready[g] /\ gen'[g] = gen[g] /\ (g \in err' <=> g \in err)

\* Something happens to a socket that no call uses.
IdleStep(f) ==
    /\ Still /\ UNCHANGED <<ctx, epollVars>> /\ OnlySocket(f)
    /\ \A c \in Co : ~InCall(c, f)
    /\ conn'[f] \notin Made => ready'[f] = {} /\ f \notin err'

\* The network has something for a socket.
NetStep(f) ==
    /\ Still /\ UNCHANGED <<ctx, reg, gen>> /\ OnlySocket(f) /\ Announce(f)
    /\ conn[f] \notin {"closed", "fresh"} /\ conn'[f] \in Made

Registered(c) ==
    LET s == SchedOf[c]
        f == op[c].fd
        d == op[c].dir
    IN  /\ ctx' = [ctx EXCEPT ![f][d] = c]
        /\ reg' = [reg EXCEPT ![s][f] = @ \cup {d}]
        /\ armed' = IF f \in err \/ ready[f] \cap reg'[s][f] # {}
                    THEN [armed EXCEPT ![s] = @ \cup {f}] ELSE armed

Unregistered(c) ==
    LET s == SchedOf[c]
        f == op[c].fd
        d == op[c].dir
    IN  /\ ctx' = [ctx EXCEPT ![f][d] = NoCo]
        /\ reg' = [reg EXCEPT ![s][f] = @ \ {d}]
        /\ armed' = IF reg'[s][f] = {} THEN [armed EXCEPT ![s] = @ \ {f}]
                    ELSE IF f \in err \/ ready[f] \cap reg'[s][f] # {}
                    THEN [armed EXCEPT ![s] = @ \cup {f}] ELSE armed

\* A call begins.
BeginStep(c, f, d) ==
    /\ pc[c] = "running"
    /\ \E p \in {"call", "block"} : pc' = [pc EXCEPT ![c] = p]
    /\ \E k \in {"recv", "send", "connect"} : op' = [op EXCEPT ![c] = [kind |-> k, fd |-> f, dir |-> d]]
    /\ added' = [added EXCEPT ![c] = FALSE] /\ got' = [got EXCEPT ![c] = gen[f]]
    /\ \A o \in Co : (InCall(o, f) => op[o].dir # d) /\ ~Closing(o, f)
    /\ UNCHANGED <<schedVars, epollVars, ctx, ready, err, gen>>
    /\ \/ conn[f] = "connected" /\ conn' = conn
       \/ conn[f] = "fresh" /\ conn' = [conn EXCEPT ![f] = "connecting"]

BlockStep(c) ==
    /\ pc[c] = "block"
    /\ pc' = [pc EXCEPT ![c] = "wait"]
    /\ run' = [run EXCEPT ![SchedOf[c]] = NoCo]
    /\ added' = [added EXCEPT ![c] = TRUE]
    /\ IF added[c] THEN UNCHANGED <<ctx, epollVars>> ELSE Registered(c)
    /\ UNCHANGED <<kernelVars, batch, due, op, got>>

\* A call ends, and its coroutine goes on.
LeaveStep(c) ==
    /\ pc[c] \in CallPcs /\ (Waits(c) => Free(SchedOf[c]))
    /\ \E how \in {"running", "success"} : pc' = [pc EXCEPT ![c] = how]
    /\ run' = [run EXCEPT ![SchedOf[c]] = c]
    /\ IF added[c] THEN Unregistered(c) ELSE UNCHANGED <<ctx, epollVars>>
    /\ err' \subseteq err /\ \A f \in Fd : ready'[f] \subseteq ready[f]
    /\ UNCHANGED <<conn, gen, batch, due, op, added, got>>

\* A coroutine goes on or stops outside of calls.
BetweenStep(c) ==
    /\ pc[c] \in {"parked", "running", "success"}
    /\ pc[c] = "parked" => run[SchedOf[c]] = NoCo
    /\ \E p \in {"parked", "running"} :
          /\ pc' = [pc EXCEPT ![c] = p]
          /\ run' = [run EXCEPT ![SchedOf[c]] = IF p = "running" THEN c ELSE NoCo]
    /\ UNCHANGED <<kernelVars, epollVars, ctx, batch, due, op, added, got>>

CloseLaterStep(c, f) ==
    /\ pc[c] = "running"
    /\ \A o \in Co : ~InCall(o, f)
    /\ pc' = [pc EXCEPT ![c] = "closing"]
    /\ run' = [run EXCEPT ![SchedOf[c]] = NoCo]
    /\ op' = [op EXCEPT ![c] = [kind |-> "close", fd |-> f, dir |-> "r"]]
    /\ UNCHANGED <<kernelVars, epollVars, ctx, batch, due, added, got>>

CloseSleptStep(c, f) ==
    /\ pc[c] = "closing" /\ run[SchedOf[c]] = NoCo
    /\ \A o \in Co : ~InCall(o, f)
    /\ pc' = [pc EXCEPT ![c] = "running"]
    /\ run' = [run EXCEPT ![SchedOf[c]] = c]
    /\ OnlySocket(f) /\ conn'[f] = "closed" /\ ready'[f] = {} /\ f \notin err'
    /\ UNCHANGED <<epollVars, ctx, batch, due, op, added, got>>

CoKinds(c) ==
    \/ TryMore(c) \/ TryAgain(c) \/ BlockStep(c) \/ LeaveStep(c) \/ BetweenStep(c)
    \/ \E f \in Fd : \/ CloseLaterStep(c, f) \/ CloseSleptStep(c, f)
                     \/ \E d \in Dir : BeginStep(c, f, d)

Kinds ==
    \/ \E f \in Fd : IdleStep(f) \/ NetStep(f)
    \/ \E c \in Co : CoKinds(c)
    \/ \E s \in Sched : SchedStep(s)

LEMMA Nowhere ==
    ASSUME TypeOK, Exact, NEW f \in Fd, \A c \in Co : ~InCall(c, f)
    PROVE  ctx[f] = Nobody /\ \A s \in Sched : reg[s][f] = {} /\ f \notin armed[s]
  <1>1. \A d \in Dir : ctx[f][d] = NoCo
    BY DEF Exact, TypeOK, EpollTypes
  <1>2. ctx[f] = Nobody
    BY <1>1 DEF Nobody, TypeOK, EpollTypes
  <1>3. \A s \in Sched : reg[s][f] = {}
    BY <1>1 DEF Exact, TypeOK, EpollTypes, Recorded
  <1>4. \A s \in Sched : f \notin armed[s]
    BY <1>3 DEF Exact
  <1> QED
    BY <1>2, <1>3, <1>4

LEMMA ForgetsNothing ==
    ASSUME TypeOK, Exact, NEW f \in Fd, \A c \in Co : ~InCall(c, f)
    PROVE  /\ [ctx EXCEPT ![f] = Nobody] = ctx
           /\ [s \in Sched |-> [reg[s] EXCEPT ![f] = {}]] = reg
           /\ [s \in Sched |-> armed[s] \ {f}] = armed
  <1>1. ctx[f] = Nobody /\ \A s \in Sched : reg[s][f] = {} /\ f \notin armed[s]
    BY Nowhere
  <1>2. [ctx EXCEPT ![f] = Nobody] = ctx
    BY <1>1 DEF TypeOK, EpollTypes
  <1>3. \A s \in Sched : [reg[s] EXCEPT ![f] = {}] = reg[s]
    BY <1>1 DEF TypeOK, EpollTypes
  <1>4. \A s \in Sched : armed[s] \ {f} = armed[s]
    BY <1>1
  <1>5. reg = [s \in Sched |-> reg[s]] /\ armed = [s \in Sched |-> armed[s]]
    BY DEF TypeOK, EpollTypes
  <1> QED
    BY <1>2, <1>3, <1>4, <1>5

LEMMA UnregistersOnDel ==
    ASSUME TypeOK, Exact, NEW c \in Co, pc[c] \in CallPcs, added[c],
           DelEv(SchedOf[c], op[c].fd, op[c].dir)
    PROVE  Unregistered(c)
  <1> DEFINE s == SchedOf[c]
             f == op[c].fd
             d == op[c].dir
  <1>1. s \in Sched /\ f \in Fd /\ d \in Dir /\ Other(d) \in Dir /\ Other(d) # d
    BY IoAssumption DEF TypeOK, CallTypes, IoAssumption, Other, Dir
  <1>2. ctx[f][d] = c /\ c # NoCo
    BY IoAssumption DEF Exact, IoAssumption
  <1>3. /\ ctx' = [ctx EXCEPT ![f][d] = NoCo]
        /\ IF Recorded(s, f, Other(d)) /\ reg[s][f] # {} THEN Interest(s, f, {Other(d)}) ELSE Forget(s, f)
    BY <1>2 DEF DelEv
  <1>4. \A x \in Dir : x = d \/ x = Other(d)
    BY <1>1 DEF Dir, Other
  <1>5. reg[s][f] \subseteq Dir /\ d \in reg[s][f] /\ (Other(d) \in reg[s][f] <=> Recorded(s, f, Other(d)))
    BY <1>1, <1>2 DEF Exact, Recorded, TypeOK, EpollTypes
  <1>6. CASE Recorded(s, f, Other(d))
    <2>1. reg[s][f] \ {d} = {Other(d)}
      BY <1>1, <1>4, <1>5, <1>6
    <2>2. Interest(s, f, {Other(d)})
      BY <1>3, <1>5, <1>6
    <2>3. reg' = [reg EXCEPT ![s][f] = @ \ {d}]
      BY <2>1, <2>2 DEF Interest
    <2>4. reg'[s][f] = {Other(d)}
      BY <1>1, <2>1, <2>3 DEF TypeOK, EpollTypes
    <2> QED
      BY <1>3, <2>2, <2>3, <2>4 DEF Unregistered, Interest
  <1>7. CASE ~Recorded(s, f, Other(d))
    <2>1. reg[s][f] \ {d} = {}
      BY <1>4, <1>5, <1>7
    <2>2. Forget(s, f)
      BY <1>3, <1>7
    <2>3. reg' = [reg EXCEPT ![s][f] = @ \ {d}]
      BY <2>1, <2>2 DEF Forget
    <2>4. reg'[s][f] = {}
      BY <1>1, <2>1, <2>3 DEF TypeOK, EpollTypes
    <2> QED
      BY <1>3, <2>2, <2>3, <2>4 DEF Unregistered, Forget
  <1> QED
    BY <1>6, <1>7

LEMMA RegistersOnBlock ==
    ASSUME TypeOK, Exact, Exclusive, NEW c \in Co, Block(c)
    PROVE  BlockStep(c)
  <1> DEFINE s == SchedOf[c]
             f == op[c].fd
             d == op[c].dir
  <1>1. s \in Sched /\ f \in Fd /\ d \in Dir /\ Other(d) \in Dir /\ Other(d) # d
    BY IoAssumption DEF TypeOK, CallTypes, IoAssumption, Other, Dir
  <1>2. CASE added[c]
    <2>1. UNCHANGED <<ctx, epollVars, added>>
      BY <1>2 DEF Block
    <2>2. added' = [added EXCEPT ![c] = TRUE]
      BY <1>2, <2>1 DEF TypeOK, CallTypes
    <2> QED
      BY <1>2, <2>1, <2>2 DEF Block, BlockStep, Goes
  <1>3. CASE ~added[c]
    <2>1. ctx[f][d] = NoCo
      <3> SUFFICES ASSUME ctx[f][d] # NoCo PROVE FALSE
        OBVIOUS
      <3>1. PICK o \in Co : ctx[f][d] = o
        BY <1>1 DEF TypeOK, EpollTypes
      <3>2. added[o] /\ InCall(o, f) /\ op[o].dir = d
        BY <1>1, <3>1 DEF Exact
      <3>3. o # c
        BY <1>3, <3>2
      <3>4. pc[c] \in CallPcs
        BY DEF Block, CallPcs
      <3> QED
        BY <3>2, <3>3, <3>4 DEF Exclusive, InCall, CallPcs
    <2>2. AddEv(s, c, f, d) /\ added' = [added EXCEPT ![c] = TRUE]
      BY <1>3 DEF Block
    <2>3. /\ Interest(s, f, IF Recorded(s, f, Other(d)) THEN Dir ELSE {d})
          /\ ctx' = [ctx EXCEPT ![f][d] = c]
      BY <2>1, <2>2 DEF AddEv
    <2>4. \A x \in Dir : x = d \/ x = Other(d)
      BY <1>1 DEF Dir, Other
    <2>5. reg[s][f] \subseteq Dir /\ (Other(d) \in reg[s][f] <=> Recorded(s, f, Other(d)))
      BY <1>1 DEF Exact, TypeOK, EpollTypes
    <2>6. reg[s][f] \cup {d} = IF Recorded(s, f, Other(d)) THEN Dir ELSE {d}
      BY <1>1, <2>4, <2>5
    <2>7. Interest(s, f, reg[s][f] \cup {d})
      BY <2>3, <2>6
    <2>8. reg' = [reg EXCEPT ![s][f] = @ \cup {d}] /\ reg'[s][f] = reg[s][f] \cup {d}
      BY <1>1, <2>7 DEF Interest, TypeOK, EpollTypes
    <2>9. Registered(c)
      BY <2>3, <2>7, <2>8 DEF Registered, Interest
    <2> QED
      BY <1>3, <2>2, <2>9 DEF Block, BlockStep, Goes
  <1> QED
    BY <1>2, <1>3

LEMMA LeavesOnReturn ==
    ASSUME TypeOK, Placed, Exact, NEW c \in Co, NEW how \in {"running", "success"},
           pc[c] \in CallPcs, Returns(c, how)
    PROVE  /\ pc' = [pc EXCEPT ![c] = how] /\ UNCHANGED <<op, added, got>>
           /\ IF added[c] THEN Unregistered(c) ELSE UNCHANGED <<ctx, epollVars>>
  BY UnregistersOnDel DEF Returns, Goes

\* The calls that end.
LEMMA ReturnKinds ==
    ASSUME TypeOK, Placed, Exact, NEW c \in Co,
           TryFails(c) \/ TryDone(c) \/ BlockFails(c) \/ SoError(c) \/ TimeOut(c)
    PROVE  LeaveStep(c)
  <1>0. SchedOf[c] \in Sched /\ op[c].fd \in Fd
    BY IoAssumption DEF TypeOK, CallTypes, IoAssumption
  <1>1. \E how \in {"running", "success"} : Returns(c, how)
    BY DEF TryFails, TryDone, BlockFails, SoError, TimeOut
  <1>2. pc[c] \in CallPcs
    BY DEF TryFails, TryDone, Moves, BlockFails, SoError, TimeOut, CallPcs
  <1>3. /\ \E how \in {"running", "success"} : pc' = [pc EXCEPT ![c] = how]
        /\ UNCHANGED <<op, added, got>>
        /\ IF added[c] THEN Unregistered(c) ELSE UNCHANGED <<ctx, epollVars>>
    BY <1>1, <1>2, LeavesOnReturn
  <1>4. Waits(c) => Free(SchedOf[c])
    BY DEF Waits, TryFails, TryDone, Moves, BlockFails, SoError, TimeOut
  <1>5. run' = [run EXCEPT ![SchedOf[c]] = c]
    <2>1. CASE TimeOut(c)
      BY <2>1 DEF TimeOut
    <2>2. CASE ~TimeOut(c)
      <3>1. pc[c] \in Active /\ run' = run
        BY <2>2 DEF TryFails, TryDone, Moves, BlockFails, SoError, Active, schedVars
      <3>2. run[SchedOf[c]] = c
        BY <3>1 DEF Placed
      <3> QED
        BY <1>0, <3>1, <3>2 DEF TypeOK, SchedTypes
    <2> QED
      BY <2>1, <2>2
  <1>6. err' \subseteq err /\ \A f \in Fd : ready'[f] \subseteq ready[f]
    BY <1>0 DEF TryFails, TryDone, Moves, BlockFails, SoError, TimeOut, kernelVars, TypeOK, KernelTypes
  <1>7. UNCHANGED <<conn, gen, batch, due>>
    BY DEF TryFails, TryDone, Moves, BlockFails, SoError, TimeOut, kernelVars, schedVars
  <1> QED
    BY <1>2, <1>3, <1>4, <1>5, <1>6, <1>7 DEF LeaveStep

LEMMA ClosesApart ==
    ASSUME TypeOK, Exact, NEW f \in Fd, Closes(f), \A c \in Co : ~InCall(c, f)
    PROVE  /\ UNCHANGED <<ctx, epollVars>> /\ OnlySocket(f)
           /\ ready'[f] = {} /\ f \notin err'
  <1>1. UNCHANGED <<ctx, epollVars>>
    BY ForgetsNothing DEF Closes, epollVars
  <1>2. OnlySocket(f) /\ ready'[f] = {} /\ f \notin err'
    BY DEF Closes, OnlySocket, TypeOK, KernelTypes
  <1> QED
    BY <1>1, <1>2

\* The steps on a socket that no call uses.
LEMMA IdleKinds ==
    ASSUME Disciplined, TypeOK, Opened, Exact, NEW f \in Fd,
           \/ CloseByThread(f)
           \/ \E c \in Co : \/ Socket(c, f) \/ ConnectAtOnce(c, f) \/ Close(c, f)
                            \/ \E d \in Dir : Shutdown(c, f, d)
    PROVE  IdleStep(f)
  <1>1. CASE CloseByThread(f) \/ \E c \in Co : Close(c, f)
    <2>1. Closes(f) /\ MayClose(f) /\ Still
      BY <1>1 DEF CloseByThread, Close, Still, coVars
    <2>2. \A c \in Co : ~InCall(c, f)
      BY <2>1 DEF MayClose, Disciplined
    <2> QED
      BY <2>1, <2>2, ClosesApart DEF IdleStep
  <1>2. ASSUME NEW c \in Co, Socket(c, f) \/ ConnectAtOnce(c, f)
        PROVE  IdleStep(f)
    <2>1. Still /\ UNCHANGED <<ctx, epollVars>> /\ conn[f] \in {"closed", "fresh"}
      BY <1>2 DEF Socket, ConnectAtOnce, Still
    <2>2. \A o \in Co : ~InCall(o, f)
      BY <2>1 DEF Opened, InCall, CallPcs
    <2>3. OnlySocket(f)
      BY <1>2 DEF Socket, ConnectAtOnce, OnlySocket, TypeOK, KernelTypes
    <2>4. conn'[f] \notin Made => ready'[f] = {} /\ f \notin err'
      BY <1>2 DEF Socket, ConnectAtOnce, Opened, Made, TypeOK, KernelTypes
    <2> QED
      BY <2>1, <2>2, <2>3, <2>4 DEF IdleStep
  <1>3. ASSUME NEW c \in Co, NEW d \in Dir, Shutdown(c, f, d)
        PROVE  IdleStep(f)
    <2>1. Still /\ MayClose(f) /\ DelEv(SchedOf[c], f, d) /\ conn[f] = "connected" /\ conn' = conn
      BY <1>3 DEF Shutdown, Still
    <2>2. \A o \in Co : ~InCall(o, f)
      BY <2>1 DEF MayClose, Disciplined
    <2>3. ctx[f][d] = NoCo
      BY <2>2, Nowhere DEF Nobody
    <2>4. UNCHANGED <<ctx, epollVars>>
      BY <2>1, <2>3 DEF DelEv
    <2>5. OnlySocket(f)
      BY <1>3 DEF Shutdown, OnlySocket, TypeOK, KernelTypes
    <2> QED
      BY <2>1, <2>2, <2>4, <2>5 DEF IdleStep, Made
  <1> QED
    BY <1>1, <1>2, <1>3

LEMMA NetKinds ==
    ASSUME TypeOK, NEW f \in Fd, Connected(f) \/ Break(f) \/ \E d \in Dir : Arrive(f, d)
    PROVE  NetStep(f)
  <1>1. Still /\ UNCHANGED <<ctx, reg, gen>> /\ Announce(f) /\ conn[f] \notin {"closed", "fresh"}
    BY DEF Connected, Break, Arrive, Still, coVars
  <1>2. OnlySocket(f) /\ conn'[f] \in Made
    BY DEF Connected, Break, Arrive, OnlySocket, Made, TypeOK, KernelTypes
  <1> QED
    BY <1>1, <1>2 DEF NetStep

LEMMA BeginKinds ==
    ASSUME Disciplined, TypeOK, NEW c \in Co, NEW f \in Fd, Connect(c, f) \/ \E d \in Dir : Begin(c, f, d)
    PROVE  \E d \in Dir : BeginStep(c, f, d)
  <1>1. PICK k \in {"recv", "send", "connect"}, d \in Dir : Begins(c, k, f, d)
    BY DEF Connect, Begin, Dir
  <1>2. pc[c] = "running" /\ \E p \in {"call", "block"} : pc' = [pc EXCEPT ![c] = p]
    BY DEF Connect, Begin, Calls, Goes
  <1>3. \/ conn[f] = "connected" /\ conn' = conn
        \/ conn[f] = "fresh" /\ conn' = [conn EXCEPT ![f] = "connecting"]
    BY DEF Connect, Begin, kernelVars
  <1>4. UNCHANGED <<schedVars, epollVars, ctx, ready, err, gen>>
    BY DEF Connect, Begin, kernelVars
  <1> QED
    BY <1>1, <1>2, <1>3, <1>4 DEF Begins, BeginStep, Disciplined

LEMMA CoStepKinds ==
    ASSUME Disciplined, TypeOK, Placed, Exclusive, Opened, Exact, NEW c \in Co, CoStep(c)
    PROVE  CoKinds(c) \/ \E f \in Fd : IdleStep(f)
  <1>0. SchedOf[c] \in Sched /\ op[c].fd \in Fd
    BY IoAssumption DEF TypeOK, CallTypes, IoAssumption
  <1>1. CASE TryFails(c) \/ TryDone(c) \/ BlockFails(c) \/ SoError(c) \/ TimeOut(c)
    BY <1>1, ReturnKinds DEF CoKinds
  <1>2. CASE TryMore(c) \/ TryAgain(c)
    BY <1>2 DEF CoKinds
  <1>3. CASE Block(c)
    BY <1>3, RegistersOnBlock DEF CoKinds
  <1>4. CASE ResumeParked(c) \/ Park(c) \/ Succeeded(c)
    <2>1. CASE Succeeded(c)
      <3>1. run[SchedOf[c]] = c
        BY <2>1 DEF Succeeded, Placed, Active
      <3>2. run' = [run EXCEPT ![SchedOf[c]] = c]
        BY <1>0, <2>1, <3>1 DEF Succeeded, schedVars, TypeOK, SchedTypes
      <3> QED
        BY <2>1, <3>2 DEF Succeeded, Goes, BetweenStep, schedVars, CoKinds
    <2>2. CASE ResumeParked(c) \/ Park(c)
      BY <2>2 DEF ResumeParked, Park, Goes, Free, BetweenStep, CoKinds
    <2> QED
      BY <1>4, <2>1, <2>2
  <1>5. CASE CloseSlept(c)
    <2> DEFINE f == op[c].fd
    <2>1. \A o \in Co : ~InCall(o, f)
      BY <1>5 DEF CloseSlept, Exclusive, InCall, CallPcs
    <2>2. UNCHANGED <<epollVars, ctx>>
      BY <1>0, <1>5, <2>1, ForgetsNothing DEF CloseSlept, epollVars
    <2>3. OnlySocket(f) /\ conn'[f] = "closed" /\ ready'[f] = {} /\ f \notin err'
      BY <1>0, <1>5 DEF CloseSlept, OnlySocket, TypeOK, KernelTypes
    <2>4. CloseSleptStep(c, f)
      BY <1>5, <2>1, <2>2, <2>3 DEF CloseSlept, CloseSleptStep, Free, Goes
    <2> QED
      BY <1>0, <2>4 DEF CoKinds
  <1>6. ASSUME NEW f \in Fd,
               \/ Socket(c, f) \/ ConnectAtOnce(c, f) \/ Close(c, f)
               \/ \E d \in Dir : Shutdown(c, f, d)
        PROVE  IdleStep(f)
    BY <1>6, IdleKinds
  <1>7. ASSUME NEW f \in Fd, CloseLater(c, f)
        PROVE  CloseLaterStep(c, f)
    <2>1. \A o \in Co : ~InCall(o, f)
      BY <1>7 DEF CloseLater, MayClose, Disciplined
    <2>2. ctx[f] = Nobody
      BY <2>1, Nowhere
    <2>3. UNCHANGED <<epollVars, ctx>>
      BY <1>7, <2>1, <2>2, ForgetsNothing DEF CloseLater
    <2> QED
      BY <1>7, <2>1, <2>3 DEF CloseLater, CloseLaterStep, Calls, Goes
  <1>8. ASSUME NEW f \in Fd, Connect(c, f) \/ \E d \in Dir : Begin(c, f, d)
        PROVE  CoKinds(c)
    BY <1>8, BeginKinds DEF CoKinds
  <1> QED
    BY <1>1, <1>2, <1>3, <1>4, <1>5, <1>6, <1>7, <1>8 DEF CoStep, Try, CoKinds

LEMMA StepKinds == Disciplined /\ Inv /\ Next => Kinds
  <1> SUFFICES ASSUME Disciplined, Inv, Next PROVE Kinds
    OBVIOUS
  <1>1. CASE \E c \in Co : CoStep(c)
    BY <1>1, CoStepKinds DEF Inv, Kinds
  <1>2. CASE \E s \in Sched : SchedStep(s)
    BY <1>2 DEF Kinds
  <1>3. CASE Outside
    BY <1>3, IdleKinds, NetKinds DEF Outside, Inv, Kinds
  <1> QED
    BY <1>1, <1>2, <1>3 DEF Next

-----------------------------------------------------------------------------
(***************************************************************************)
(* Each part of the invariant is preserved                                 *)
(***************************************************************************)
LEMMA PlacedKept == Inv /\ Kinds => Placed'
  <1> SUFFICES ASSUME Inv, Kinds PROVE Placed'
    OBVIOUS
  <1> USE IoAssumption DEF IoAssumption
  <1>1. ASSUME NEW f \in Fd, IdleStep(f) \/ NetStep(f)
        PROVE  Placed'
    BY <1>1 DEF IdleStep, NetStep, Still, schedVars, Placed, Inv
  <1>2. ASSUME NEW s \in Sched, EpollWait(s) \/ HandleEvent(s)
        PROVE  Placed'
    BY <1>2 DEF EpollWait, HandleEvent, coVars, Placed, Inv
  <1>3. ASSUME NEW s \in Sched, ResumeDue(s)
        PROVE  Placed'
    <2>1. Head(due[s]) \in Co /\ 1 \in 1..Len(due[s]) /\ Head(due[s]) = due[s][1]
      BY <1>3 DEF ResumeDue, Inv, TypeOK, SchedTypes
    <2>2. SchedOf[Head(due[s])] = s
      BY <2>1 DEF Inv, DueWait
    <2>3. \A c \in Co : pc[c] \in Active => SchedOf[c] # s
      BY <1>3, <2>1 DEF ResumeDue, Inv, Placed
    <2> QED
      BY <1>3, <2>1, <2>2, <2>3 DEF ResumeDue, Goes, Inv, Placed, TypeOK, SchedTypes, CallTypes
  <1>4. ASSUME NEW c \in Co, CoKinds(c)
        PROVE  Placed'
    <2>1. CASE TryMore(c)
      BY <2>1 DEF TryMore, Moves, coVars, schedVars, Inv, Placed
    <2>2. CASE TryAgain(c) \/ \E f \in Fd, d \in Dir : BeginStep(c, f, d)
      <3>1. pc[c] \in Active /\ run' = run /\ \E p \in {"call", "block"} : pc' = [pc EXCEPT ![c] = p]
        BY <2>2 DEF TryAgain, BeginStep, Goes, schedVars, Active
      <3> QED
        BY <3>1 DEF Inv, Placed, TypeOK, CallTypes
    <2>3. CASE BlockStep(c)
      <3>1. run[SchedOf[c]] = c
        BY <2>3 DEF BlockStep, Inv, Placed, Active
      <3> QED
        BY <2>3, <3>1 DEF BlockStep, Inv, Placed, Active, TypeOK, SchedTypes, CallTypes
    <2>4. CASE LeaveStep(c)
      <3>1. run[SchedOf[c]] \in {c, NoCo}
        BY <2>4 DEF LeaveStep, Inv, Placed, Active, CallPcs, Waits, Free
      <3> QED
        BY <2>4, <3>1 DEF LeaveStep, Inv, Placed, Active, TypeOK, SchedTypes, CallTypes
    <2>5. CASE BetweenStep(c)
      <3>1. run[SchedOf[c]] \in {c, NoCo}
        BY <2>5 DEF BetweenStep, Inv, Placed, Active
      <3>2. PICK p \in {"parked", "running"} :
              /\ pc' = [pc EXCEPT ![c] = p]
              /\ run' = [run EXCEPT ![SchedOf[c]] = IF p = "running" THEN c ELSE NoCo]
        BY <2>5 DEF BetweenStep
      <3> QED
        BY <3>1, <3>2 DEF Inv, Placed, Active, TypeOK, SchedTypes, CallTypes
    <2>6. CASE \E f \in Fd : CloseLaterStep(c, f)
      <3>1. run[SchedOf[c]] = c
        BY <2>6 DEF CloseLaterStep, Inv, Placed, Active
      <3> QED
        BY <2>6, <3>1 DEF CloseLaterStep, Inv, Placed, Active, TypeOK, SchedTypes, CallTypes
    <2>7. CASE \E f \in Fd : CloseSleptStep(c, f)
      BY <2>7 DEF CloseSleptStep, Inv, Placed, Active, TypeOK, SchedTypes, CallTypes
    <2> QED
      BY <1>4, <2>1, <2>2, <2>3, <2>4, <2>5, <2>6, <2>7 DEF CoKinds
  <1> QED
    BY <1>1, <1>2, <1>3, <1>4 DEF Kinds, SchedStep

\* Most steps begin nothing: whoever is in a call afterwards was in it before.
Narrow ==
    /\ UNCHANGED op
    /\ \A c \in Co : /\ pc'[c] \in CallPcs => pc[c] \in CallPcs
                     /\ pc'[c] = "closing" => pc[c] = "closing"

LEMMA NarrowKinds ==
    ASSUME Inv, Kinds
    PROVE  \/ Narrow
           \/ \E c \in Co, f \in Fd : CloseLaterStep(c, f) \/ \E d \in Dir : BeginStep(c, f, d)
  <1>1. ASSUME NEW f \in Fd, IdleStep(f) \/ NetStep(f)
        PROVE  Narrow
    BY <1>1 DEF IdleStep, NetStep, Still, Narrow
  <1>2. ASSUME NEW s \in Sched, SchedStep(s)
        PROVE  Narrow
    <2>1. CASE EpollWait(s) \/ HandleEvent(s)
      BY <2>1 DEF EpollWait, HandleEvent, coVars, Narrow
    <2>2. CASE ResumeDue(s)
      <3>1. Head(due[s]) \in Co /\ 1 \in 1..Len(due[s]) /\ Head(due[s]) = due[s][1]
        BY <2>2 DEF ResumeDue, Inv, TypeOK, SchedTypes
      <3>2. pc[Head(due[s])] = "wait"
        BY <3>1 DEF Inv, DueWait, Waits
      <3> QED
        BY <2>2, <3>1, <3>2 DEF ResumeDue, Goes, Narrow, CallPcs, Inv, TypeOK, CallTypes
    <2> QED
      BY <1>2, <2>1, <2>2 DEF SchedStep
  <1>3. ASSUME NEW c \in Co, CoKinds(c)
        PROVE  \/ Narrow
               \/ \E f \in Fd : CloseLaterStep(c, f) \/ \E d \in Dir : BeginStep(c, f, d)
    <2>1. CASE TryMore(c) \/ TryAgain(c)
      BY <2>1 DEF TryMore, Moves, TryAgain, Goes, coVars, Narrow, CallPcs, Inv, TypeOK, CallTypes
    <2>2. CASE BlockStep(c) \/ LeaveStep(c)
      BY <2>2 DEF BlockStep, LeaveStep, Narrow, CallPcs, Inv, TypeOK, CallTypes
    <2>3. CASE BetweenStep(c) \/ \E f \in Fd : CloseSleptStep(c, f)
      BY <2>3 DEF BetweenStep, CloseSleptStep, Narrow, CallPcs, Inv, TypeOK, CallTypes
    <2> QED
      BY <1>3, <2>1, <2>2, <2>3 DEF CoKinds
  <1> QED
    BY <1>1, <1>2, <1>3 DEF Kinds

LEMMA ExclusiveKept == Inv /\ Kinds => Exclusive'
  <1> SUFFICES ASSUME Inv, Kinds PROVE Exclusive'
    OBVIOUS
  <1>1. CASE Narrow
    BY <1>1 DEF Narrow, Inv, Exclusive
  <1>2. ASSUME NEW c \in Co, NEW f \in Fd, CloseLaterStep(c, f)
        PROVE  Exclusive'
    BY <1>2 DEF CloseLaterStep, InCall, CallPcs, Inv, Exclusive, TypeOK, CallTypes
  <1>3. ASSUME NEW c \in Co, NEW f \in Fd, NEW d \in Dir, BeginStep(c, f, d)
        PROVE  Exclusive'
    <2>1. op'[c].fd = f /\ op'[c].dir = d /\ \A o \in Co \ {c} : op'[o] = op[o] /\ pc'[o] = pc[o]
      BY <1>3 DEF BeginStep, Inv, TypeOK, CallTypes
    <2>2. \A o \in Co \ {c} : op[o].fd = f => pc[o] # "closing" /\ (pc[o] \in CallPcs => op[o].dir # d)
      BY <1>3 DEF BeginStep, InCall, Closing, CallPcs
    <2>3. pc'[c] \in {"call", "block"}
      BY <1>3 DEF BeginStep, Inv, TypeOK, CallTypes
    <2> QED
      BY <2>1, <2>2, <2>3 DEF Inv, Exclusive
  <1> QED
    BY <1>1, <1>2, <1>3, NarrowKinds

LEMMA OpenedKept == Inv /\ Kinds => Opened'
  <1> SUFFICES ASSUME Inv, Kinds PROVE Opened'
    OBVIOUS
  <1>1. CASE Narrow
    <2>1. \A c \in Co : pc'[c] \in CallPcs => pc[c] \in CallPcs /\ op'[c] = op[c]
      BY <1>1 DEF Narrow
    <2>2. ASSUME NEW f \in Fd, IdleStep(f)
          PROVE  Opened'
      <3>1. \A c \in Co : pc'[c] \in CallPcs => op[c].fd \in Fd \ {f}
        BY <2>1, <2>2 DEF IdleStep, InCall, CallPcs, Inv, TypeOK, CallTypes
      <3> QED
        BY <2>1, <2>2, <3>1 DEF IdleStep, Still, OnlySocket, Inv, Opened
    <2>3. ASSUME NEW f \in Fd, NetStep(f)
          PROVE  Opened'
      <3>1. \A g \in Fd : (conn[g] \notin {"closed", "fresh"} => conn'[g] \notin {"closed", "fresh"}) /\ gen'[g] = gen[g]
        BY <2>3 DEF NetStep, OnlySocket, Made
      <3>2. \A c \in Co : op[c].fd \in Fd
        BY DEF Inv, TypeOK, CallTypes
      <3>3. \A g \in Fd : conn'[g] \notin Made => ready'[g] = {} /\ g \notin err'
        BY <2>3 DEF NetStep, OnlySocket, Inv, Opened
      <3> QED
        BY <2>1, <2>3, <3>1, <3>2, <3>3 DEF NetStep, Still, Inv, Opened
    <2>4. ASSUME NEW s \in Sched, SchedStep(s)
          PROVE  Opened'
      <3>1. UNCHANGED <<kernelVars, got>>
        BY <2>4 DEF SchedStep, EpollWait, HandleEvent, ResumeDue, coVars
      <3> QED
        BY <2>1, <3>1 DEF kernelVars, Inv, Opened
    <2>5. ASSUME NEW c \in Co, CoKinds(c)
          PROVE  Opened'
      <3>1. CASE TryMore(c) \/ TryAgain(c) \/ BlockStep(c) \/ LeaveStep(c) \/ BetweenStep(c)
        <4>1. UNCHANGED <<conn, gen, got>> /\ err' \subseteq err /\ \A f \in Fd : ready'[f] \subseteq ready[f]
          BY <3>1 DEF TryMore, TryAgain, Moves, BlockStep, LeaveStep, BetweenStep, kernelVars, coVars, Inv,
             TypeOK, KernelTypes
        <4> QED
          BY <2>1, <4>1 DEF Inv, Opened
      <3>2. ASSUME NEW f \in Fd, CloseSleptStep(c, f)
            PROVE  Opened'
        <4>1. \A o \in Co : pc'[o] \in CallPcs => op[o].fd \in Fd \ {f}
          BY <2>1, <3>2 DEF CloseSleptStep, InCall, CallPcs, Inv, TypeOK, CallTypes
        <4> QED
          BY <2>1, <3>2, <4>1 DEF CloseSleptStep, OnlySocket, Inv, Opened
      <3>3. ASSUME NEW f \in Fd, CloseLaterStep(c, f) \/ \E d \in Dir : BeginStep(c, f, d)
            PROVE  FALSE
        BY <1>1, <3>3 DEF CloseLaterStep, BeginStep, Narrow, CallPcs, Inv, TypeOK, CallTypes
      <3> QED
        BY <2>5, <3>1, <3>2, <3>3 DEF CoKinds
    <2> QED
      BY <2>2, <2>3, <2>4, <2>5 DEF Kinds
  <1>2. ASSUME NEW c \in Co, NEW f \in Fd, CloseLaterStep(c, f)
        PROVE  Opened'
    BY <1>2 DEF CloseLaterStep, kernelVars, CallPcs, Inv, Opened, TypeOK, CallTypes
  <1>3. ASSUME NEW c \in Co, NEW f \in Fd, NEW d \in Dir, BeginStep(c, f, d)
        PROVE  Opened'
    <2>1. /\ op'[c].fd = f /\ got'[c] = gen'[f] /\ gen' = gen
          /\ \A o \in Co \ {c} : op'[o] = op[o] /\ pc'[o] = pc[o] /\ got'[o] = got[o]
      BY <1>3 DEF BeginStep, Inv, TypeOK, CallTypes
    <2>2. \A g \in Fd : /\ conn[g] \notin {"closed", "fresh"} => conn'[g] \notin {"closed", "fresh"}
                        /\ conn'[g] \notin Made => conn[g] \notin Made
      BY <1>3 DEF BeginStep, Made, Inv, TypeOK, KernelTypes
    <2>3. conn'[f] \notin {"closed", "fresh"}
      BY <1>3 DEF BeginStep, Inv, TypeOK, KernelTypes
    <2>4. \A o \in Co : op[o].fd \in Fd
      BY DEF Inv, TypeOK, CallTypes
    <2>5. \A g \in Fd : conn'[g] \notin Made => ready'[g] = {} /\ g \notin err'
      BY <1>3, <2>2 DEF BeginStep, Inv, Opened
    <2> QED
      BY <2>1, <2>2, <2>3, <2>4, <2>5 DEF Inv, Opened
  <1> QED
    BY <1>1, <1>2, <1>3, NarrowKinds

\* A step that leaves registrations and calls as they are.
Steady ==
    /\ UNCHANGED <<ctx, reg, added>>
    /\ \A c \in Co : /\ pc'[c] \in CallPcs <=> pc[c] \in CallPcs
                     /\ pc[c] \in CallPcs => op'[c] = op[c]
                     /\ pc'[c] = "wait" => added[c]

LEMMA ExactIfSteady ==
    ASSUME Inv, Steady, \A s \in Sched, f \in Fd : f \in armed'[s] => reg[s][f] # {}
    PROVE  Exact'
  <1>1. ASSUME NEW f \in Fd, NEW d \in Dir, ctx[f][d] # NoCo
        PROVE  ctx[f][d] \in Co /\ added[ctx[f][d]] /\ InCall(ctx[f][d], f) /\ op'[ctx[f][d]].dir = d
    <2>1. ctx[f][d] \in Co
      BY <1>1 DEF Inv, TypeOK, EpollTypes
    <2> QED
      BY <1>1, <2>1 DEF Inv, Exact, Steady, InCall, CallPcs
  <1>2. \A f \in Fd, d \in Dir : ctx'[f][d] # NoCo =>
          added'[ctx'[f][d]] /\ (pc'[ctx'[f][d]] \in {"call", "block", "wait", "so_error"}
             /\ op'[ctx'[f][d]].fd = f) /\ op'[ctx'[f][d]].dir = d
    BY <1>1 DEF Steady, InCall, CallPcs
  <1>3. /\ \A c \in Co : pc'[c] \in CallPcs /\ added'[c] => ctx'[op'[c].fd][op'[c].dir] = c
        /\ \A c \in Co : pc'[c] = "wait" => added'[c]
    BY DEF Steady, Inv, Exact
  <1>4. \A s \in Sched, f \in Fd, d \in Dir : d \in reg'[s][f] <=> Recorded(s, f, d)'
    BY DEF Steady, Inv, Exact, Recorded
  <1> QED
    BY <1>2, <1>3, <1>4 DEF Exact, InCall, Steady

LEMMA SteadyKinds ==
    ASSUME Inv, NEW c \in Co,
           \/ TryMore(c) \/ TryAgain(c) \/ BetweenStep(c) \/ (BlockStep(c) /\ added[c])
           \/ \E f \in Fd : CloseLaterStep(c, f) \/ CloseSleptStep(c, f)
    PROVE  Steady /\ UNCHANGED armed
  <1> USE DEF Inv, TypeOK, CallTypes, Steady, CallPcs
  <1>1. CASE TryMore(c) \/ TryAgain(c)
    BY <1>1 DEF TryMore, TryAgain, Moves, Goes, coVars, epollVars, Exact
  <1>2. CASE BetweenStep(c)
    BY <1>2 DEF BetweenStep, epollVars, Exact
  <1>3. CASE BlockStep(c) /\ added[c]
    BY <1>3 DEF BlockStep, epollVars, Exact
  <1>4. CASE \E f \in Fd : CloseLaterStep(c, f) \/ CloseSleptStep(c, f)
    BY <1>4 DEF CloseLaterStep, CloseSleptStep, epollVars, Exact
  <1> QED
    BY <1>1, <1>2, <1>3, <1>4

LEMMA ExactIfRegistered ==
    ASSUME Inv, NEW c \in Co, BlockStep(c), ~added[c]
    PROVE  Exact'
  <1> DEFINE s == SchedOf[c]
             f == op[c].fd
             d == op[c].dir
  <1>0. s \in Sched /\ f \in Fd /\ d \in Dir /\ c # NoCo
    BY IoAssumption DEF Inv, TypeOK, CallTypes, IoAssumption
  <1>1. /\ ctx' = [ctx EXCEPT ![f][d] = c]
        /\ reg' = [reg EXCEPT ![s][f] = @ \cup {d}]
        /\ armed' = IF f \in err \/ ready[f] \cap reg'[s][f] # {}
                    THEN [armed EXCEPT ![s] = @ \cup {f}] ELSE armed
        /\ op' = op /\ pc' = [pc EXCEPT ![c] = "wait"] /\ added' = [added EXCEPT ![c] = TRUE]
    BY DEF BlockStep, Registered
  <1>2. /\ ctx'[f][d] = c
        /\ \A g \in Fd, x \in Dir : <<g, x>> # <<f, d>> => ctx'[g][x] = ctx[g][x]
    BY <1>0, <1>1 DEF Inv, TypeOK, EpollTypes
  <1>3. /\ reg'[s][f] = reg[s][f] \cup {d}
        /\ \A t \in Sched, g \in Fd : <<t, g>> # <<s, f>> => reg'[t][g] = reg[t][g]
    BY <1>0, <1>1 DEF Inv, TypeOK, EpollTypes
  <1>4. /\ pc[c] = "block" /\ pc'[c] = "wait" /\ added'[c]
        /\ \A o \in Co \ {c} : pc'[o] = pc[o] /\ added'[o] = added[o]
    BY <1>1 DEF BlockStep, Inv, TypeOK, CallTypes
  <1>5. \A g \in Fd, x \in Dir : ctx[g][x] # NoCo => ctx[g][x] \in Co \ {c}
    BY DEF Inv, Exact, TypeOK, EpollTypes
  <1>6. ASSUME NEW g \in Fd, NEW x \in Dir, NEW o \in Co, ctx'[g][x] = o
        PROVE  added'[o] /\ InCall(o, g)' /\ op'[o].dir = x
    <2>1. CASE <<g, x>> = <<f, d>>
      BY <1>1, <1>2, <1>4, <1>6, <2>1 DEF InCall
    <2>2. CASE <<g, x>> # <<f, d>>
      <3>1. ctx[g][x] = o /\ o # NoCo /\ o # c
        BY <1>2, <1>5, <1>6, <2>2, IoAssumption DEF IoAssumption
      <3>2. added[o] /\ InCall(o, g) /\ op[o].dir = x
        BY <3>1 DEF Inv, Exact
      <3> QED
        BY <1>1, <1>4, <3>1, <3>2 DEF InCall
    <2> QED
      BY <2>1, <2>2
  <1>7. ASSUME NEW g \in Fd, NEW x \in Dir, ctx'[g][x] # NoCo
        PROVE  ctx'[g][x] \in Co
    BY <1>2, <1>7 DEF Inv, TypeOK, EpollTypes
  <1>8. \A g \in Fd, x \in Dir : ctx'[g][x] # NoCo =>
          added'[ctx'[g][x]] /\ (pc'[ctx'[g][x]] \in {"call", "block", "wait", "so_error"}
             /\ op'[ctx'[g][x]].fd = g) /\ op'[ctx'[g][x]].dir = x
    BY <1>6, <1>7 DEF InCall
  <1>9. ASSUME NEW o \in Co, pc'[o] \in CallPcs, added'[o]
        PROVE  ctx'[op'[o].fd][op'[o].dir] = o
    <2>1. CASE o = c
      BY <1>1, <1>2, <2>1
    <2>2. CASE o # c
      <3>1. pc[o] \in CallPcs /\ added[o] /\ op[o].fd \in Fd /\ op[o].dir \in Dir
        BY <1>4, <1>9, <2>2 DEF Inv, TypeOK, CallTypes
      <3>2. ctx[op[o].fd][op[o].dir] = o
        BY <3>1 DEF Inv, Exact
      <3>3. <<op[o].fd, op[o].dir>> # <<f, d>>
        BY <1>4, <2>2, <3>1 DEF Inv, Exclusive, CallPcs
      <3> QED
        BY <1>1, <1>2, <3>1, <3>2, <3>3
    <2> QED
      BY <2>1, <2>2
  <1>10. \A o \in Co : pc'[o] = "wait" => added'[o]
    BY <1>4 DEF Inv, Exact
  <1>11. ASSUME NEW t \in Sched, NEW g \in Fd, NEW x \in Dir
         PROVE  x \in reg'[t][g] <=> Recorded(t, g, x)'
    <2>1. Recorded(t, g, x)' <=> ctx'[g][x] # NoCo /\ SchedOf[ctx'[g][x]] = t
      BY DEF Recorded
    <2>2. x \in reg[t][g] <=> ctx[g][x] # NoCo /\ SchedOf[ctx[g][x]] = t
      BY DEF Inv, Exact, Recorded
    <2>3. CASE <<g, x>> = <<f, d>>
      <3>1. ctx[f][d] = NoCo
        <4> SUFFICES ASSUME ctx[f][d] # NoCo PROVE FALSE
          OBVIOUS
        <4>1. PICK o \in Co \ {c} : ctx[f][d] = o
          BY <1>0, <1>5
        <4>2. InCall(o, f) /\ op[o].dir = d
          BY <1>0, <4>1 DEF Inv, Exact
        <4> QED
          BY <1>4, <4>1, <4>2 DEF Inv, Exclusive, InCall, CallPcs
      <3> QED
        BY <1>0, <1>2, <1>3, <2>1, <2>2, <2>3, <3>1
    <2>4. CASE <<g, x>> # <<f, d>>
      BY <1>0, <1>2, <1>3, <2>1, <2>2, <2>4
    <2> QED
      BY <2>3, <2>4
  <1>12. ASSUME NEW t \in Sched, NEW g \in Fd, g \in armed'[t]
         PROVE  reg'[t][g] # {}
    <2>1. g \in armed[t] \/ <<t, g>> = <<s, f>>
      BY <1>0, <1>1, <1>12 DEF Inv, TypeOK, EpollTypes
    <2> QED
      BY <1>3, <2>1 DEF Inv, Exact
  <1> QED
    BY <1>8, <1>9, <1>10, <1>11, <1>12 DEF Exact, InCall

LEMMA ExactIfLeft ==
    ASSUME Inv, NEW c \in Co, LeaveStep(c)
    PROVE  Exact'
  <1> DEFINE s == SchedOf[c]
             f == op[c].fd
             d == op[c].dir
  <1>0. s \in Sched /\ f \in Fd /\ d \in Dir /\ c # NoCo
    BY IoAssumption DEF Inv, TypeOK, CallTypes, IoAssumption
  <1>1. /\ pc[c] \in CallPcs /\ pc'[c] \notin CallPcs /\ UNCHANGED <<op, added>>
        /\ \A o \in Co \ {c} : pc'[o] = pc[o]
    BY DEF LeaveStep, CallPcs, Inv, TypeOK, CallTypes
  <1>2. \A g \in Fd, x \in Dir : ctx[g][x] = c => added[c] /\ <<g, x>> = <<f, d>>
    BY <1>0 DEF Inv, Exact, InCall
  <1>3. CASE ~added[c]
    <2>1. UNCHANGED <<ctx, reg, armed>>
      BY <1>3 DEF LeaveStep, epollVars
    <2>2. ASSUME NEW g \in Fd, NEW x \in Dir, ctx[g][x] # NoCo
          PROVE  ctx[g][x] \in Co \ {c}
      BY <1>2, <1>3, <2>2 DEF Inv, TypeOK, EpollTypes
    <2>3. \A g \in Fd, x \in Dir : ctx'[g][x] # NoCo =>
            added'[ctx'[g][x]] /\ (pc'[ctx'[g][x]] \in {"call", "block", "wait", "so_error"}
               /\ op'[ctx'[g][x]].fd = g) /\ op'[ctx'[g][x]].dir = x
      BY <1>1, <2>1, <2>2 DEF Inv, Exact, InCall
    <2>4. /\ \A o \in Co : pc'[o] \in CallPcs /\ added'[o] => ctx'[op'[o].fd][op'[o].dir] = o
          /\ \A o \in Co : pc'[o] = "wait" => added'[o]
      BY <1>1, <2>1 DEF Inv, Exact, CallPcs
    <2>5. \A t \in Sched, g \in Fd, x \in Dir : x \in reg'[t][g] <=> Recorded(t, g, x)'
      BY <2>1 DEF Inv, Exact, Recorded
    <2>6. \A t \in Sched, g \in Fd : g \in armed'[t] => reg'[t][g] # {}
      BY <2>1 DEF Inv, Exact
    <2> QED
      BY <2>3, <2>4, <2>5, <2>6 DEF Exact, InCall
  <1>4. CASE added[c]
    <2>1. /\ ctx' = [ctx EXCEPT ![f][d] = NoCo]
          /\ reg' = [reg EXCEPT ![s][f] = @ \ {d}]
          /\ armed' = IF reg'[s][f] = {} THEN [armed EXCEPT ![s] = @ \ {f}]
                      ELSE IF f \in err \/ ready[f] \cap reg'[s][f] # {}
                      THEN [armed EXCEPT ![s] = @ \cup {f}] ELSE armed
      BY <1>4 DEF LeaveStep, Unregistered
    <2>2. /\ ctx'[f][d] = NoCo
          /\ \A g \in Fd, x \in Dir : <<g, x>> # <<f, d>> => ctx'[g][x] = ctx[g][x]
      BY <1>0, <2>1 DEF Inv, TypeOK, EpollTypes
    <2>3. /\ reg'[s][f] = reg[s][f] \ {d}
          /\ \A t \in Sched, g \in Fd : <<t, g>> # <<s, f>> => reg'[t][g] = reg[t][g]
      BY <1>0, <2>1 DEF Inv, TypeOK, EpollTypes
    <2>4. ctx[f][d] = c
      BY <1>1, <1>4 DEF Inv, Exact
    <2>5. ASSUME NEW g \in Fd, NEW x \in Dir, ctx'[g][x] # NoCo
          PROVE  /\ <<g, x>> # <<f, d>> /\ ctx'[g][x] = ctx[g][x]
                 /\ ctx[g][x] \in Co \ {c}
      BY <1>2, <2>2, <2>5 DEF Inv, TypeOK, EpollTypes
    <2>6. \A g \in Fd, x \in Dir : ctx'[g][x] # NoCo =>
            added'[ctx'[g][x]] /\ (pc'[ctx'[g][x]] \in {"call", "block", "wait", "so_error"}
               /\ op'[ctx'[g][x]].fd = g) /\ op'[ctx'[g][x]].dir = x
      BY <1>1, <2>5 DEF Inv, Exact, InCall
    <2>7. ASSUME NEW o \in Co, pc'[o] \in CallPcs, added'[o]
          PROVE  ctx'[op'[o].fd][op'[o].dir] = o
      <3>1. o # c /\ pc[o] \in CallPcs /\ added[o] /\ op[o].fd \in Fd /\ op[o].dir \in Dir
        BY <1>1, <2>7 DEF Inv, TypeOK, CallTypes
      <3>2. ctx[op[o].fd][op[o].dir] = o
        BY <3>1 DEF Inv, Exact
      <3> QED
        BY <1>1, <2>2, <2>4, <3>1, <3>2
    <2>8. \A o \in Co : pc'[o] = "wait" => added'[o]
      BY <1>1 DEF Inv, Exact, CallPcs
    <2>9. ASSUME NEW t \in Sched, NEW g \in Fd, NEW x \in Dir
          PROVE  x \in reg'[t][g] <=> Recorded(t, g, x)'
      <3>1. Recorded(t, g, x)' <=> ctx'[g][x] # NoCo /\ SchedOf[ctx'[g][x]] = t
        BY DEF Recorded
      <3>2. x \in reg[t][g] <=> ctx[g][x] # NoCo /\ SchedOf[ctx[g][x]] = t
        BY DEF Inv, Exact, Recorded
      <3>3. CASE <<g, x>> = <<f, d>>
        BY <1>0, <2>2, <2>3, <2>4, <3>1, <3>2, <3>3
      <3>4. CASE <<g, x>> # <<f, d>>
        BY <1>0, <2>2, <2>3, <3>1, <3>2, <3>4
      <3> QED
        BY <3>3, <3>4
    <2>10. ASSUME NEW t \in Sched, NEW g \in Fd, g \in armed'[t]
           PROVE  reg'[t][g] # {}
      <3>1. CASE <<t, g>> = <<s, f>>
        BY <1>0, <2>1, <2>10, <3>1 DEF Inv, TypeOK, EpollTypes
      <3>2. CASE <<t, g>> # <<s, f>>
        <4>1. g \in armed[t]
          BY <1>0, <2>1, <2>10, <3>2 DEF Inv, TypeOK, EpollTypes
        <4> QED
          BY <2>3, <3>2, <4>1 DEF Inv, Exact
      <3> QED
        BY <3>1, <3>2
    <2> QED
      BY <2>6, <2>7, <2>8, <2>9, <2>10 DEF Exact, InCall
  <1> QED
    BY <1>3, <1>4

LEMMA ExactIfBegun ==
    ASSUME Inv, NEW c \in Co, NEW f \in Fd, NEW d \in Dir, BeginStep(c, f, d)
    PROVE  Exact'
  <1>1. /\ pc[c] \notin CallPcs /\ ~added'[c] /\ pc'[c] # "wait"
        /\ \A o \in Co \ {c} : pc'[o] = pc[o] /\ added'[o] = added[o] /\ op'[o] = op[o]
        /\ UNCHANGED <<ctx, reg, armed>>
    BY DEF BeginStep, CallPcs, epollVars, Inv, TypeOK, CallTypes
  <1>2. ASSUME NEW g \in Fd, NEW x \in Dir, ctx[g][x] # NoCo
        PROVE  ctx[g][x] \in Co \ {c}
    BY <1>1, <1>2 DEF Inv, Exact, InCall, CallPcs, TypeOK, EpollTypes
  <1>3. \A g \in Fd, x \in Dir : ctx'[g][x] # NoCo =>
          added'[ctx'[g][x]] /\ (pc'[ctx'[g][x]] \in {"call", "block", "wait", "so_error"}
             /\ op'[ctx'[g][x]].fd = g) /\ op'[ctx'[g][x]].dir = x
    BY <1>1, <1>2 DEF Inv, Exact, InCall
  <1>4. /\ \A o \in Co : pc'[o] \in CallPcs /\ added'[o] => ctx'[op'[o].fd][op'[o].dir] = o
        /\ \A o \in Co : pc'[o] = "wait" => added'[o]
    BY <1>1 DEF Inv, Exact
  <1>5. \A t \in Sched, g \in Fd, x \in Dir : x \in reg'[t][g] <=> Recorded(t, g, x)'
    BY <1>1 DEF Inv, Exact, Recorded
  <1>6. \A t \in Sched, g \in Fd : g \in armed'[t] => reg'[t][g] # {}
    BY <1>1 DEF Inv, Exact
  <1> QED
    BY <1>3, <1>4, <1>5, <1>6 DEF Exact, InCall

LEMMA ExactKept == Inv /\ Kinds => Exact'
  <1> SUFFICES ASSUME Inv, Kinds PROVE Exact'
    OBVIOUS
  <1>1. ASSUME NEW f \in Fd, IdleStep(f) \/ NetStep(f)
        PROVE  Exact'
    <2>1. Steady
      BY <1>1 DEF IdleStep, NetStep, Still, Steady, epollVars, Inv, Exact
    <2>2. \A s \in Sched, g \in Fd : g \in armed'[s] => reg[s][g] # {}
      BY <1>1 DEF IdleStep, NetStep, Announce, epollVars, Inv, Exact
    <2> QED
      BY <2>1, <2>2, ExactIfSteady
  <1>2. ASSUME NEW s \in Sched, SchedStep(s)
        PROVE  Exact'
    <2>1. \A t \in Sched, g \in Fd : g \in armed'[t] => reg[t][g] # {}
      <3>1. \A t \in Sched : armed'[t] \subseteq armed[t]
        BY <1>2 DEF SchedStep, EpollWait, HandleEvent, ResumeDue, epollVars, Inv, TypeOK, EpollTypes
      <3> QED
        BY <3>1 DEF Inv, Exact
    <2>2. CASE EpollWait(s) \/ HandleEvent(s)
      BY <2>1, <2>2, ExactIfSteady DEF EpollWait, HandleEvent, coVars, epollVars, Steady, Inv, Exact
    <2>3. CASE ResumeDue(s)
      <3>1. Head(due[s]) \in Co /\ 1 \in 1..Len(due[s]) /\ Head(due[s]) = due[s][1]
        BY <2>3 DEF ResumeDue, Inv, TypeOK, SchedTypes
      <3>2. pc[Head(due[s])] = "wait"
        BY <3>1 DEF Inv, DueWait, Waits
      <3>3. Steady
        BY <2>3, <3>1, <3>2 DEF ResumeDue, Goes, Steady, CallPcs, epollVars, Inv, TypeOK, CallTypes, Exact
      <3> QED
        BY <2>1, <3>3, ExactIfSteady
    <2> QED
      BY <1>2, <2>2, <2>3 DEF SchedStep
  <1>3. ASSUME NEW c \in Co, CoKinds(c)
        PROVE  Exact'
    <2>1. CASE Steady /\ UNCHANGED armed
      BY <2>1, ExactIfSteady DEF Inv, Exact
    <2> QED
      BY <1>3, <2>1, SteadyKinds, ExactIfRegistered, ExactIfLeft, ExactIfBegun DEF CoKinds
  <1> QED
    BY <1>1, <1>2, <1>3 DEF Kinds

LEMMA MadeStays ==
    ASSUME Inv, Kinds, NEW c \in Co, pc[c] \in CallPcs, conn[op[c].fd] \in Made
    PROVE  conn'[op[c].fd] \in Made
  <1> DEFINE f == op[c].fd
  <1>0. f \in Fd /\ InCall(c, f)
    BY DEF Inv, TypeOK, CallTypes, InCall, CallPcs
  <1>1. ASSUME NEW g \in Fd, IdleStep(g) \/ NetStep(g)
        PROVE  conn'[f] \in Made
    BY <1>0, <1>1 DEF IdleStep, NetStep, OnlySocket
  <1>2. ASSUME NEW s \in Sched, SchedStep(s)
        PROVE  conn'[f] \in Made
    BY <1>2 DEF SchedStep, EpollWait, HandleEvent, ResumeDue, kernelVars
  <1>3. ASSUME NEW o \in Co, CoKinds(o)
        PROVE  conn'[f] \in Made
    <2>1. CASE TryMore(o) \/ TryAgain(o) \/ BlockStep(o) \/ LeaveStep(o) \/ BetweenStep(o)
      BY <2>1 DEF TryMore, Moves, TryAgain, BlockStep, LeaveStep, BetweenStep, kernelVars
    <2>2. ASSUME NEW g \in Fd, CloseLaterStep(o, g) \/ CloseSleptStep(o, g) \/ \E d \in Dir : BeginStep(o, g, d)
          PROVE  conn'[f] \in Made
      BY <1>0, <2>2 DEF CloseLaterStep, CloseSleptStep, OnlySocket, BeginStep, kernelVars, Made, Inv, TypeOK, KernelTypes
    <2> QED
      BY <1>3, <2>1, <2>2 DEF CoKinds
  <1> QED
    BY <1>1, <1>2, <1>3 DEF Kinds

\* The first of those a scheduler is to resume.
LEMMA Next1 ==
    ASSUME Inv, NEW s \in Sched, due[s] # <<>>
    PROVE  /\ Head(due[s]) \in Co /\ 1 \in 1..Len(due[s]) /\ Head(due[s]) = due[s][1]
           /\ pc[Head(due[s])] = "wait" /\ SchedOf[Head(due[s])] = s
  <1>1. Head(due[s]) \in Co /\ 1 \in 1..Len(due[s]) /\ Head(due[s]) = due[s][1]
    BY DEF Inv, TypeOK, SchedTypes
  <1> QED
    BY <1>1 DEF Inv, DueWait, Waits

LEMMA WaitsOn ==
    ASSUME Inv, Kinds, NEW c \in Co, Waits(c)
    PROVE  \/ pc'[c] = "wait" /\ op'[c] = op[c]
           \/ LeaveStep(c)
           \/ ResumeDue(SchedOf[c]) /\ c = Head(due[SchedOf[c]])
  <1> USE DEF Waits
  <1>1. ASSUME NEW g \in Fd, IdleStep(g) \/ NetStep(g)
        PROVE  pc'[c] = "wait" /\ op'[c] = op[c]
    BY <1>1 DEF IdleStep, NetStep, Still
  <1>2. ASSUME NEW s \in Sched, SchedStep(s)
        PROVE  \/ pc'[c] = "wait" /\ op'[c] = op[c]
               \/ ResumeDue(SchedOf[c]) /\ c = Head(due[SchedOf[c]])
    <2>1. CASE EpollWait(s) \/ HandleEvent(s)
      BY <2>1 DEF EpollWait, HandleEvent, coVars
    <2>2. CASE ResumeDue(s)
      <3>1. Head(due[s]) \in Co /\ SchedOf[Head(due[s])] = s
        BY <2>2, Next1 DEF ResumeDue
      <3> QED
        BY <2>2, <3>1 DEF ResumeDue, Goes, Inv, TypeOK, CallTypes
    <2> QED
      BY <1>2, <2>1, <2>2 DEF SchedStep
  <1>3. ASSUME NEW o \in Co, CoKinds(o)
        PROVE  (pc'[c] = "wait" /\ op'[c] = op[c]) \/ LeaveStep(c)
    <2>1. CASE LeaveStep(o)
      BY <2>1 DEF LeaveStep, Inv, TypeOK, CallTypes
    <2>2. CASE TryMore(o) \/ TryAgain(o) \/ BlockStep(o) \/ BetweenStep(o)
      BY <2>2 DEF TryMore, Moves, TryAgain, Goes, BlockStep, BetweenStep, coVars, Inv, TypeOK, CallTypes
    <2>3. ASSUME NEW g \in Fd, CloseLaterStep(o, g) \/ CloseSleptStep(o, g) \/ \E d \in Dir : BeginStep(o, g, d)
          PROVE  pc'[c] = "wait" /\ op'[c] = op[c]
      BY <2>3 DEF CloseLaterStep, CloseSleptStep, BeginStep, Inv, TypeOK, CallTypes
    <2> QED
      BY <1>3, <2>1, <2>2, <2>3 DEF CoKinds
  <1> QED
    BY <1>1, <1>2, <1>3 DEF Kinds

\* What the loop finds for an event: nobody, or who waits for it.
LEMMA DueIsWaiting ==
    ASSUME Inv, NEW s \in Sched, run[s] = NoCo, NEW e \in batch[s], NEW d \in Dir
    PROVE  \/ Due(s, e, d) = <<>>
           \/ \E c \in Co : /\ Due(s, e, d) = <<c>>
                            /\ Waits(c) /\ SchedOf[c] = s /\ op[c].fd = e.fd /\ op[c].dir = d
  <1> SUFFICES ASSUME Due(s, e, d) # <<>>
               PROVE  \E c \in Co : /\ Due(s, e, d) = <<c>>
                                    /\ Waits(c) /\ SchedOf[c] = s /\ op[c].fd = e.fd /\ op[c].dir = d
    OBVIOUS
  <1>0. e.fd \in Fd
    BY DEF Inv, TypeOK, SchedTypes
  <1>1. Recorded(s, e.fd, d) /\ Due(s, e, d) = <<ctx[e.fd][d]>>
    BY DEF Due
  <1>2. PICK c \in Co : ctx[e.fd][d] = c
    BY <1>0, <1>1 DEF Recorded, Inv, TypeOK, EpollTypes
  <1>3. InCall(c, e.fd) /\ op[c].dir = d /\ SchedOf[c] = s
    BY <1>0, <1>1, <1>2 DEF Recorded, Inv, Exact
  <1>4. c # NoCo
    BY IoAssumption DEF IoAssumption
  <1>5. pc[c] \notin Active
    BY <1>3, <1>4 DEF Inv, Placed
  <1>6. Waits(c)
    BY <1>3, <1>5 DEF InCall, Active, Waits
  <1> QED
    BY <1>1, <1>2, <1>3, <1>6 DEF InCall

\* An event resumes its reader and its writer, if they wait.
ForEvent(s, e, q) ==
    \A i \in 1..Len(q) :
       /\ q[i] \in Co /\ Waits(q[i]) /\ SchedOf[q[i]] = s /\ op[q[i]].fd = e.fd
       /\ \A j \in 1..Len(q) : q[i] = q[j] => i = j

LEMMA Joined ==
    ASSUME NEW b \in Co, NEW c \in Co
    PROVE  /\ <<b>> \o <<>> = <<b>> /\ <<>> \o <<c>> = <<c>> /\ <<b>> \o <<c>> = <<b, c>>
           /\ <<>> \o <<>> = <<>>
  <1>1. <<b>> \in Seq(Co) /\ <<c>> \in Seq(Co) /\ <<>> \in Seq(Co)
    OBVIOUS
  <1>2. /\ <<b>> \o <<>> = <<b>> /\ <<>> \o <<c>> = <<c>>
        /\ <<>> \o <<>> = <<>>
    BY <1>1, ConcatEmptySeq
  <1>3. <<b>> \o <<c>> = Append(<<b>>, c)
    BY <1>1, AppendIsConcat
  <1>4. Append(<<b>>, c) = <<b, c>>
    <2> DEFINE q == Append(<<b>>, c)
               p == <<b, c>>
    <2>1. q \in Seq(Co) /\ Len(q) = 2 /\ q[1] = b /\ q[2] = c
      <3>1. Len(<<b>>) = 1 /\ <<b>>[1] = b /\ 1 \in 1..1
        OBVIOUS
      <3> QED
        BY <1>1, <3>1, AppendProperties
    <2>2. p \in Seq(Co) /\ Len(p) = 2 /\ p[1] = b /\ p[2] = c
      OBVIOUS
    <2> HIDE DEF q, p
    <2>3. \A i \in 1..Len(q) : q[i] = p[i]
      BY <2>1, <2>2
    <2>4. q = p
      BY <2>1, <2>2, <2>3, SeqEqual
    <2> QED
      BY <2>4 DEF q, p
  <1> QED
    BY <1>2, <1>3, <1>4

LEMMA ForOne ==
    ASSUME NEW s, NEW e, NEW c \in Co, Waits(c), SchedOf[c] = s, op[c].fd = e.fd
    PROVE  ForEvent(s, e, <<c>>) /\ \E i \in 1..Len(<<c>>) : <<c>>[i] = c
  <1>1. Len(<<c>>) = 1 /\ 1..Len(<<c>>) = {1} /\ <<c>>[1] = c
    OBVIOUS
  <1> QED
    BY <1>1 DEF ForEvent

LEMMA ForTwo ==
    ASSUME NEW s, NEW e, NEW b \in Co, NEW c \in Co, b # c,
           Waits(b), SchedOf[b] = s, op[b].fd = e.fd, Waits(c), SchedOf[c] = s, op[c].fd = e.fd
    PROVE  /\ ForEvent(s, e, <<b, c>>)
           /\ \A o \in {b, c} : \E i \in 1..Len(<<b, c>>) : <<b, c>>[i] = o
  <1> DEFINE q == <<b, c>>
  <1>1. Len(q) = 2 /\ 1..Len(q) = {1, 2} /\ q[1] = b /\ q[2] = c
    OBVIOUS
  <1> HIDE DEF q
  <1>2. ForEvent(s, e, q) /\ \A o \in {b, c} : \E i \in 1..Len(q) : q[i] = o
    BY <1>1 DEF ForEvent
  <1> QED
    BY <1>2 DEF q

\* The coroutines an event e resumes, and whether c is one of them.
DueList(s, e) == Due(s, e, "r") \o Due(s, e, "w")
Among(c, q)   == \E i \in 1..Len(q) : q[i] = c

LEMMA DueAfterEvent ==
    ASSUME Inv, NEW s \in Sched, run[s] = NoCo, NEW e \in batch[s],
           NEW q, q = DueList(s, e)
    PROVE  /\ ForEvent(s, e, q)
           /\ \A d \in Dir, c \in Co : Due(s, e, d) = <<c>> => Among(c, q)
  <1> DEFINE For(c) == Waits(c) /\ SchedOf[c] = s /\ op[c].fd = e.fd
  <1>0. "r" \in Dir /\ "w" \in Dir /\ \A d \in Dir : d = "r" \/ d = "w"
    BY DEF Dir
  <1>00. \A b, c \in Co : <<b>> # <<>> /\ (<<b>> = <<c>> => b = c)
    OBVIOUS
  <1>1. CASE Due(s, e, "r") = <<>> /\ Due(s, e, "w") = <<>>
    <2>1. \A d \in Dir, c \in Co : Due(s, e, d) # <<c>>
      BY <1>0, <1>00, <1>1
    <2>2. ForEvent(s, e, <<>>)
      BY DEF ForEvent
    <2>3. q = <<>>
      BY ONLY <1>1, q = DueList(s, e), Joined DEF DueList
    <2> QED
      BY <2>1, <2>2, <2>3
  <1>2. ASSUME NEW c \in Co, For(c),
               \/ Due(s, e, "r") = <<c>> /\ Due(s, e, "w") = <<>>
               \/ Due(s, e, "r") = <<>> /\ Due(s, e, "w") = <<c>>
        PROVE  ForEvent(s, e, q) /\ \A d \in Dir, o \in Co : Due(s, e, d) = <<o>> => Among(o, q)
    <2>1. q = <<c>>
      BY <1>2, Joined DEF DueList
    <2>2. ForEvent(s, e, <<c>>) /\ Among(c, <<c>>)
      BY <1>2, ForOne DEF Among
    <2>3. \A d \in Dir, o \in Co : Due(s, e, d) = <<o>> => o = c
      BY <1>0, <1>00, <1>2
    <2>4. ForEvent(s, e, q) /\ Among(c, q)
      BY ONLY <2>1, <2>2
    <2> QED
      BY <2>3, <2>4
  <1>3. ASSUME NEW b \in Co, NEW c \in Co, For(b), For(c), b # c,
               Due(s, e, "r") = <<b>>, Due(s, e, "w") = <<c>>
        PROVE  ForEvent(s, e, q) /\ \A d \in Dir, o \in Co : Due(s, e, d) = <<o>> => Among(o, q)
    <2>1. q = <<b, c>>
      BY <1>3, Joined DEF DueList
    <2>2. /\ ForEvent(s, e, <<b, c>>)
          /\ \A o \in {b, c} : Among(o, <<b, c>>)
      BY <1>3, ForTwo DEF Among
    <2>3. \A d \in Dir, o \in Co : Due(s, e, d) = <<o>> => o = b \/ o = c
      BY <1>0, <1>00, <1>3
    <2>4. ForEvent(s, e, q) /\ Among(b, q) /\ Among(c, q)
      BY ONLY <2>1, <2>2
    <2> QED
      BY <2>3, <2>4
  <1>4. ASSUME NEW d \in Dir
        PROVE  \/ Due(s, e, d) = <<>>
               \/ \E c \in Co : Due(s, e, d) = <<c>> /\ For(c) /\ op[c].dir = d
    BY DueIsWaiting
  <1> HIDE DEF For
  <1>5. CASE Due(s, e, "r") = <<>>
    BY <1>0, <1>1, <1>2, <1>4, <1>5
  <1>6. ASSUME NEW b \in Co, Due(s, e, "r") = <<b>>, For(b), op[b].dir = "r"
        PROVE  ForEvent(s, e, q) /\ \A d \in Dir, o \in Co : Due(s, e, d) = <<o>> => Among(o, q)
    <2>1. CASE Due(s, e, "w") = <<>>
      BY <1>2, <1>6, <2>1
    <2>2. ASSUME NEW c \in Co, Due(s, e, "w") = <<c>>, For(c), op[c].dir = "w"
          PROVE  ForEvent(s, e, q) /\ \A d \in Dir, o \in Co : Due(s, e, d) = <<o>> => Among(o, q)
      <3>1. b # c
        BY <1>6, <2>2
      <3> QED
        BY <1>3, <1>6, <2>2, <3>1
    <2> QED
      BY <1>0, <1>4, <2>1, <2>2
  <1> QED
    BY <1>0, <1>4, <1>5, <1>6

LEMMA DueAfterResume ==
    ASSUME Inv, NEW s \in Sched, ResumeDue(s)
    PROVE  /\ \A i \in 1..Len(due'[s]) : i + 1 \in 1..Len(due[s]) /\ due'[s][i] = due[s][i + 1]
           /\ \A i \in 1..Len(due[s]) : i # 1 => i - 1 \in 1..Len(due'[s]) /\ due'[s][i - 1] = due[s][i]
           /\ \A t \in Sched \ {s} : due'[t] = due[t]
  <1>1. due[s] \in Seq(Co) /\ due[s] # <<>> /\ due'[s] = Tail(due[s]) /\ \A t \in Sched \ {s} : due'[t] = due[t]
    BY DEF ResumeDue, Inv, TypeOK, SchedTypes
  <1>2. ASSUME NEW q \in Seq(Co), q # <<>>
        PROVE  /\ \A i \in 1..Len(Tail(q)) : i + 1 \in 1..Len(q) /\ Tail(q)[i] = q[i + 1]
               /\ \A i \in 1..Len(q) : i # 1 => i - 1 \in 1..Len(Tail(q)) /\ Tail(q)[i - 1] = q[i]
    BY <1>2, HeadTailProperties
  <1> QED
    BY <1>1, <1>2

\* Most steps leave what a scheduler has taken from epoll_wait alone.
LEMMA DueOrBatch ==
    ASSUME Inv, Kinds
    PROVE  \/ UNCHANGED <<due, batch>>
           \/ \E s \in Sched : SchedStep(s)
  BY DEF Kinds, IdleStep, NetStep, Still, schedVars, CoKinds, TryMore, Moves, TryAgain, BlockStep,
     LeaveStep, BetweenStep, CloseLaterStep, CloseSleptStep, BeginStep

LEMMA DueWaitKept == Inv /\ Kinds => DueWait'
  <1> SUFFICES ASSUME Inv, Kinds, NEW s \in Sched, NEW i \in 1..Len(due'[s])
               PROVE  /\ due'[s][i] \in Co /\ pc'[due'[s][i]] = "wait" /\ SchedOf[due'[s][i]] = s
                      /\ conn'[op'[due'[s][i]].fd] \in Made
                      /\ \A j \in 1..Len(due'[s]) : due'[s][i] = due'[s][j] => i = j
    BY DEF DueWait, Waits
  <1>0. \A k \in 1..Len(due[s]) : due[s][k] \in Co
    BY DEF Inv, TypeOK, SchedTypes
  <1>1. ASSUME NEW c \in Co, Waits(c), SchedOf[c] = s, conn[op[c].fd] \in Made,
               ~LeaveStep(c), ~(ResumeDue(s) /\ c = Head(due[s]))
        PROVE  pc'[c] = "wait" /\ conn'[op'[c].fd] \in Made
    BY <1>1, WaitsOn, MadeStays DEF Waits, CallPcs
  <1>2. CASE due'[s] = due[s] /\ ~ResumeDue(s)
    <2>0. PICK c \in Co : due[s][i] = c
      BY <1>0, <1>2
    <2>1. Waits(c) /\ SchedOf[c] = s /\ conn[op[c].fd] \in Made
      BY <1>2, <2>0 DEF Inv, DueWait
    <2>2. due[s] # <<>>
      BY <1>2
    <2>3. ~LeaveStep(c)
      BY <2>1, <2>2 DEF LeaveStep, Free
    <2>4. \A j \in 1..Len(due[s]) : c = due[s][j] => i = j
      BY <1>2, <2>0 DEF Inv, DueWait
    <2> QED
      BY <1>1, <1>2, <2>0, <2>1, <2>3, <2>4
  <1>3. CASE ResumeDue(s)
    <2>0. i + 1 \in 1..Len(due[s]) /\ due'[s][i] = due[s][i + 1]
      BY <1>3, DueAfterResume
    <2>1. PICK c \in Co : due[s][i + 1] = c
      BY <1>0, <2>0
    <2>2. Waits(c) /\ SchedOf[c] = s /\ conn[op[c].fd] \in Made
      BY <2>0, <2>1 DEF Inv, DueWait
    <2>3. due[s] # <<>>
      BY <1>3 DEF ResumeDue
    <2>4. ~LeaveStep(c)
      BY <2>2, <2>3 DEF LeaveStep, Free
    <2>5. c # Head(due[s])
      <3>1. 1 \in 1..Len(due[s]) /\ Head(due[s]) = due[s][1] /\ i + 1 # 1
        BY <2>0, <2>3, Next1
      <3> QED
        BY <2>0, <2>1, <3>1 DEF Inv, DueWait
    <2>6. ASSUME NEW j \in 1..Len(due'[s]), due'[s][i] = due'[s][j]
          PROVE  i = j
      <3>1. j + 1 \in 1..Len(due[s]) /\ due'[s][j] = due[s][j + 1]
        BY <1>3, DueAfterResume
      <3>2. i + 1 = j + 1
        BY <2>0, <2>6, <3>1 DEF Inv, DueWait
      <3>3. i \in Nat /\ j \in Nat
        OBVIOUS
      <3> QED
        BY <3>2, <3>3
    <2>7. pc'[c] = "wait" /\ conn'[op'[c].fd] \in Made
      BY <1>1, <2>2, <2>4, <2>5
    <2>8. due'[s][i] \in Co /\ pc'[due'[s][i]] = "wait" /\ SchedOf[due'[s][i]] = s /\ conn'[op'[due'[s][i]].fd] \in Made
      BY <2>0, <2>1, <2>2, <2>7
    <2> QED
      BY <2>6, <2>8
  <1>4. CASE HandleEvent(s)
    <2>1. PICK e \in batch[s] : due' = [due EXCEPT ![s] = Due(s, e, "r") \o Due(s, e, "w")]
      BY <1>4 DEF HandleEvent
    <2> DEFINE q == DueList(s, e)
    <2>2. due'[s] = q
      BY <2>1 DEF DueList, Inv, TypeOK, SchedTypes
    <2>3. run[s] = NoCo /\ UNCHANGED <<conn, pc, op>>
      BY <1>4 DEF HandleEvent, kernelVars, coVars
    <2>4. ForEvent(s, e, q)
      BY <2>3, DueAfterEvent
    <2>5. conn[e.fd] \in Made
      BY DEF Inv, BatchFresh
    <2> HIDE DEF q
    <2> QED
      BY <2>2, <2>3, <2>4, <2>5 DEF ForEvent, Waits
  <1>5. CASE due'[s] # due[s]
    <2>1. PICK t \in Sched : SchedStep(t)
      BY <1>5, DueOrBatch
    <2>2. t = s /\ ~EpollWait(s)
      BY <1>5, <2>1 DEF SchedStep, EpollWait, HandleEvent, ResumeDue, Inv, TypeOK, SchedTypes
    <2> QED
      BY <1>3, <1>4, <2>1, <2>2 DEF SchedStep
  <1> QED
    BY <1>2, <1>3, <1>5

LEMMA AsksKept == Inv /\ Kinds => Asks'
  <1> SUFFICES ASSUME Inv, Kinds, NEW c \in Co, pc'[c] = "so_error"
               PROVE  conn'[op'[c].fd] \in Made
    BY DEF Asks
  <1>1. CASE pc[c] = "so_error"
    <2>1. op'[c] = op[c]
      BY <1>1, NarrowKinds DEF CloseLaterStep, BeginStep, Narrow, Inv, TypeOK, CallTypes
    <2> QED
      BY <1>1, <2>1, MadeStays DEF CallPcs, Inv, Asks
  <1>2. CASE pc[c] # "so_error"
    <2>1. ASSUME NEW f \in Fd, IdleStep(f) \/ NetStep(f)
          PROVE  FALSE
      BY <1>2, <2>1 DEF IdleStep, NetStep, Still
    <2>2. ASSUME NEW o \in Co, CoKinds(o)
          PROVE  FALSE
      BY <1>2, <2>2 DEF CoKinds, TryMore, Moves, TryAgain, Goes, BlockStep, LeaveStep, BetweenStep,
         CloseLaterStep, CloseSleptStep, BeginStep, coVars, Inv, TypeOK, CallTypes
    <2>3. PICK s \in Sched : ResumeDue(s)
      BY <1>2, <2>1, <2>2 DEF Kinds, SchedStep, EpollWait, HandleEvent, coVars
    <2>4. c = Head(due[s]) /\ op' = op /\ conn' = conn
      BY <1>2, <2>3 DEF ResumeDue, Goes, kernelVars, Inv, TypeOK, CallTypes
    <2>5. c = due[s][1] /\ 1 \in 1..Len(due[s])
      BY <2>3, <2>4, Next1 DEF ResumeDue
    <2> QED
      BY <2>4, <2>5 DEF Inv, DueWait
  <1> QED
    BY <1>1, <1>2

LEMMA BatchFreshKept == Inv /\ Kinds => BatchFresh'
  <1> SUFFICES ASSUME Inv, Kinds, NEW s \in Sched, NEW e \in batch'[s]
               PROVE  /\ \E c \in Co : /\ pc'[c] = "wait" /\ op'[c].fd = e.fd /\ SchedOf[c] = s
                                       /\ \A i \in 1..Len(due'[s]) : due'[s][i] # c
                      /\ conn'[e.fd] \in Made
                      /\ \A g \in batch'[s] : g.fd = e.fd => g = e
    BY DEF BatchFresh, Awaits, Waits
  <1>1. CASE EpollWait(s)
    <2>1. /\ run[s] = NoCo /\ due[s] = <<>> /\ due' = due /\ UNCHANGED <<kernelVars, pc, op>>
          /\ batch'[s] = {[fd |-> f, dirs |-> ready[f] \cap reg[s][f]] :
                            f \in {g \in armed[s] : g \in err \/ ready[g] \cap reg[s][g] # {}}}
      BY <1>1 DEF EpollWait, Free, coVars, Inv, TypeOK, SchedTypes
    <2>2. PICK f \in armed[s] : /\ f \in err \/ ready[f] \cap reg[s][f] # {}
                                /\ e = [fd |-> f, dirs |-> ready[f] \cap reg[s][f]]
      BY <2>1
    <2>3. f \in Fd /\ conn[f] \in Made
      BY <2>2 DEF Inv, Opened, TypeOK, EpollTypes
    <2>4. PICK d \in Dir : d \in reg[s][f]
      BY <2>2, <2>3 DEF Inv, Exact, TypeOK, EpollTypes
    <2>5. PICK c \in Co : ctx[f][d] = c
      BY <2>3, <2>4 DEF Inv, Exact, Recorded, TypeOK, EpollTypes
    <2>6. SchedOf[c] = s /\ InCall(c, f) /\ c # NoCo
      BY <2>3, <2>4, <2>5, IoAssumption DEF Inv, Exact, Recorded, IoAssumption
    <2>7. pc[c] = "wait" /\ op[c].fd = f
      BY <2>1, <2>6 DEF Inv, Placed, Active, InCall
    <2>8. \A g \in batch'[s] : g.fd = e.fd => g = e
      BY <2>1, <2>2
    <2>9. \A i \in 1..Len(due'[s]) : due'[s][i] # c
      BY <2>1
    <2>10. pc'[c] = "wait" /\ op'[c].fd = e.fd /\ conn'[e.fd] \in Made
      BY <2>1, <2>2, <2>3, <2>7 DEF kernelVars
    <2> QED
      BY <2>6, <2>8, <2>9, <2>10
  <1>2. CASE ~EpollWait(s)
    <2>1. e \in batch[s] /\ \A g \in batch'[s] : g \in batch[s]
      <3>1. CASE UNCHANGED <<due, batch>>
        BY <3>1
      <3>2. ASSUME NEW t \in Sched, SchedStep(t)
            PROVE  batch'[s] \subseteq batch[s]
        <4>0. batch[s] \subseteq batch[s] /\ batch \in [Sched -> SUBSET [fd : Fd, dirs : SUBSET Dir]]
          BY DEF Inv, TypeOK, SchedTypes
        <4>1. CASE EpollWait(t)
          <5>1. t # s
            BY <1>2, <4>1
          <5> QED
            BY <4>0, <4>1, <5>1 DEF EpollWait
        <4>2. CASE HandleEvent(t)
          <5>1. PICK x \in batch[t] : batch' = [batch EXCEPT ![t] = @ \ {x}]
            BY <4>2 DEF HandleEvent
          <5> QED
            BY <4>0, <5>1
        <4>3. CASE ResumeDue(t)
          BY <4>0, <4>3 DEF ResumeDue
        <4> QED
          BY <3>2, <4>1, <4>2, <4>3 DEF SchedStep
      <3> QED
        BY <3>1, <3>2, DueOrBatch
    <2>2. PICK c \in Co : Awaits(s, e.fd, c)
      BY <2>1 DEF Inv, BatchFresh
    <2>3. conn[e.fd] \in Made /\ \A g \in batch'[s] : g.fd = e.fd => g = e
      BY <2>1 DEF Inv, BatchFresh
    <2>4. ~LeaveStep(c)
      BY <2>1, <2>2 DEF LeaveStep, Free, Awaits
    <2>5. ~(ResumeDue(s) /\ c = Head(due[s]))
      BY <2>2, Next1 DEF ResumeDue, Awaits
    <2>6. pc'[c] = "wait" /\ op'[c].fd = e.fd /\ SchedOf[c] = s
      BY <2>2, <2>4, <2>5, WaitsOn DEF Awaits
    <2>7. conn'[e.fd] \in Made
      BY <2>2, <2>3, MadeStays DEF Awaits, Waits, CallPcs
    <2>8. ASSUME NEW i \in 1..Len(due'[s]), due'[s][i] = c
          PROVE  FALSE
      <3>1. CASE due'[s] = due[s]
        BY <2>2, <2>8, <3>1 DEF Awaits
      <3>2. CASE ResumeDue(s)
        BY <2>2, <2>8, <3>2, DueAfterResume DEF Awaits
      <3>3. CASE HandleEvent(s)
        <4>1. PICK x \in batch[s] : /\ batch' = [batch EXCEPT ![s] = @ \ {x}]
                                    /\ due' = [due EXCEPT ![s] = Due(s, x, "r") \o Due(s, x, "w")]
          BY <3>3 DEF HandleEvent
        <4> DEFINE q == DueList(s, x)
        <4>2. due'[s] = q /\ batch'[s] = batch[s] \ {x}
          BY <4>1 DEF DueList, Inv, TypeOK, SchedTypes
        <4>3. ForEvent(s, x, q)
          BY <3>3, DueAfterEvent DEF HandleEvent
        <4> HIDE DEF q
        <4>4. op[c].fd = x.fd
          BY <2>8, <4>2, <4>3 DEF ForEvent
        <4>5. x.fd # e.fd
          BY <2>1, <4>2 DEF Inv, BatchFresh
        <4> QED
          BY <2>2, <4>4, <4>5 DEF Awaits
      <3>4. CASE due'[s] # due[s]
        <4>1. PICK t \in Sched : SchedStep(t)
          BY <3>4, DueOrBatch
        <4>2. t = s
          BY <3>4, <4>1 DEF SchedStep, EpollWait, HandleEvent, ResumeDue, Inv, TypeOK, SchedTypes
        <4> QED
          BY <1>2, <3>2, <3>3, <4>1, <4>2 DEF SchedStep
      <3> QED
        BY <3>1, <3>4
    <2> QED
      BY <2>3, <2>6, <2>7, <2>8
  <1> QED
    BY <1>1, <1>2

\* c is in a call it has registered for.
Stands(c) == Waits(c) \/ (pc[c] = "block" /\ added[c])

\* A coroutine that needs an event after a step was registered before it, or is
\* registered by it.
LEMMA NeedsBefore ==
    ASSUME Inv, Kinds, NEW c \in Co, Needs(c)'
    PROVE  \/ Stands(c) /\ op'[c] = op[c] /\ pc'[c] \in {"block", "wait"}
           \/ BlockStep(c) /\ ~added[c]
  <1> DEFINE Before == Stands(c) /\ op'[c] = op[c] /\ pc'[c] \in {"block", "wait"}
  <1>0. pc'[c] = "wait" \/ (pc'[c] = "block" /\ added'[c])
    BY DEF Needs, Waits
  <1>1. ASSUME NEW g \in Fd, IdleStep(g) \/ NetStep(g)
        PROVE  Before
    BY <1>0, <1>1 DEF IdleStep, NetStep, Still, Stands, Waits
  <1>2. ASSUME NEW s \in Sched, SchedStep(s)
        PROVE  Before
    <2>1. CASE EpollWait(s) \/ HandleEvent(s)
      BY <1>0, <2>1 DEF EpollWait, HandleEvent, coVars, Stands, Waits
    <2>2. CASE ResumeDue(s)
      <3>1. c # Head(due[s])
        BY <1>0, <2>2 DEF ResumeDue, Goes, Inv, TypeOK, CallTypes
      <3> QED
        BY <1>0, <2>2, <3>1 DEF ResumeDue, Goes, Stands, Waits, Inv, TypeOK, CallTypes
    <2> QED
      BY <1>2, <2>1, <2>2 DEF SchedStep
  <1>3. ASSUME NEW o \in Co, CoKinds(o)
        PROVE  Before \/ (BlockStep(c) /\ ~added[c])
    <2>1. CASE TryMore(o)
      BY <1>0, <2>1 DEF TryMore, Moves, coVars, Stands, Waits
    <2>2. CASE TryAgain(o)
      <3>1. UNCHANGED <<kernelVars, op, added, reg>> /\ pc' = [pc EXCEPT ![o] = "block"]
        BY <2>2 DEF TryAgain, Goes, epollVars
      <3>2. CASE o = c
        <4>1. op[c].dir \notin ready[op[c].fd] /\ op[c].fd \notin err
          BY <2>2, <3>2 DEF TryAgain
        <4> QED
          BY <3>1, <4>1 DEF Needs, kernelVars
      <3>3. CASE o # c
        BY <1>0, <3>1, <3>3 DEF Stands, Waits, Inv, TypeOK, CallTypes
      <3> QED
        BY <3>2, <3>3
    <2>3. CASE BlockStep(o)
      BY <1>0, <2>3 DEF BlockStep, Stands, Waits, Inv, TypeOK, CallTypes
    <2>4. CASE LeaveStep(o) \/ BetweenStep(o)
      BY <1>0, <2>4 DEF LeaveStep, BetweenStep, Stands, Waits, Inv, TypeOK, CallTypes
    <2>5. ASSUME NEW g \in Fd, CloseLaterStep(o, g) \/ CloseSleptStep(o, g) \/ \E d \in Dir : BeginStep(o, g, d)
          PROVE  Before
      BY <1>0, <2>5 DEF CloseLaterStep, CloseSleptStep, BeginStep, Stands, Waits, Inv, TypeOK, CallTypes
    <2> QED
      BY <1>3, <2>1, <2>2, <2>3, <2>4, <2>5 DEF CoKinds
  <1> QED
    BY <1>1, <1>2, <1>3 DEF Kinds

\* Who stands registered is watched for by the epoll of its scheduler.
LEMMA Watched ==
    ASSUME Inv, NEW c \in Co, Stands(c)
    PROVE  /\ SchedOf[c] \in Sched /\ op[c].fd \in Fd /\ op[c].dir \in Dir /\ Other(op[c].dir) \in Dir
           /\ ctx[op[c].fd][op[c].dir] = c /\ op[c].dir \in reg[SchedOf[c]][op[c].fd]
           /\ Recorded(SchedOf[c], op[c].fd, op[c].dir)
           /\ InCall(c, op[c].fd) /\ pc[c] \in CallPcs /\ added[c]
  <1>1. /\ SchedOf[c] \in Sched /\ op[c].fd \in Fd /\ op[c].dir \in Dir /\ Other(op[c].dir) \in Dir
        /\ c # NoCo
    BY IoAssumption DEF Inv, TypeOK, CallTypes, IoAssumption, Other, Dir
  <1>2. pc[c] \in CallPcs /\ added[c] /\ InCall(c, op[c].fd)
    BY DEF Stands, Waits, CallPcs, InCall, Inv, Exact
  <1>3. ctx[op[c].fd][op[c].dir] = c
    BY <1>2 DEF Inv, Exact
  <1> QED
    BY <1>1, <1>2, <1>3 DEF Inv, Exact, Recorded

\* Steps after which c has in front of it what it had.
LEMMA PendingStays ==
    ASSUME NEW c \in Co, NEW f, NEW d, Pending(c, f, d),
           f \in armed[SchedOf[c]] => f \in armed'[SchedOf[c]],
           batch'[SchedOf[c]] = batch[SchedOf[c]], due'[SchedOf[c]] = due[SchedOf[c]]
    PROVE  Pending(c, f, d)'
  BY DEF Pending

LEMMA PendingAfterSchedStep ==
    ASSUME Inv, Kinds, NEW c \in Co, Needs(c), Stands(c), pc'[c] \in {"block", "wait"},
           NEW t \in Sched, SchedStep(t), NEW f \in Fd, f = op[c].fd, NEW d \in Dir, d = op[c].dir
    PROVE  Pending(c, f, d)'
  <1>0. /\ SchedOf[c] \in Sched /\ op[c].fd \in Fd /\ op[c].dir \in Dir
        /\ ctx[op[c].fd][op[c].dir] = c /\ op[c].dir \in reg[SchedOf[c]][op[c].fd]
        /\ Recorded(SchedOf[c], op[c].fd, op[c].dir)
    BY Watched
  <1>1. PICK s \in Sched : s = SchedOf[c] /\ f = op[c].fd /\ d = op[c].dir
    BY <1>0
  <1>2. Pending(c, f, d)
    BY <1>1 DEF Inv, NoEdgeLost
  <1>3. CASE t # s
    <2>1. armed'[s] = armed[s] /\ batch'[s] = batch[s] /\ due'[s] = due[s]
      <3>1. CASE EpollWait(t)
        BY <1>3, <3>1 DEF EpollWait
      <3>2. CASE HandleEvent(t)
        <4>1. PICK x \in batch[t] : /\ batch' = [batch EXCEPT ![t] = @ \ {x}]
                                    /\ due' = [due EXCEPT ![t] = Due(t, x, "r") \o Due(t, x, "w")]
          BY <3>2 DEF HandleEvent
        <4> QED
          BY <1>3, <3>2, <4>1 DEF HandleEvent, epollVars
      <3>3. CASE ResumeDue(t)
        BY <1>3, <3>3 DEF ResumeDue, epollVars
      <3> QED
        BY <3>1, <3>2, <3>3 DEF SchedStep
    <2> QED
      BY <1>1, <1>2, <2>1, PendingStays
  <1>4. CASE t = s /\ EpollWait(s)
    <2>1. due[s] = <<>> /\ batch[s] = {} /\ run[s] = NoCo
      BY <1>4 DEF EpollWait, Free
    <2>2. f \in armed[s]
      BY <1>1, <1>2, <2>1 DEF Pending
    <2>3. batch'[s] = {[fd |-> h, dirs |-> ready[h] \cap reg[s][h]] :
                         h \in {g \in armed[s] : g \in err \/ ready[g] \cap reg[s][g] # {}}}
      BY <1>4 DEF EpollWait, Inv, TypeOK, SchedTypes
    <2>4. d \in ready[f] \/ (f \in err /\ Other(d) \notin reg[s][f])
      BY <1>1 DEF Needs
    <2>5. f \in err \/ ready[f] \cap reg[s][f] # {}
      BY <1>0, <1>1, <2>4
    <2> DEFINE e == [fd |-> f, dirs |-> ready[f] \cap reg[s][f]]
    <2>6. e \in batch'[s]
      BY <2>2, <2>3, <2>5
    <2>7. e.fd = f /\ (d \in e.dirs \/ Other(d) \notin e.dirs)
      BY <1>0, <1>1, <2>4
    <2>8. \E x \in batch'[SchedOf[c]] : x.fd = f /\ (d \in x.dirs \/ Other(d) \notin x.dirs)
      BY <1>1, <2>6, <2>7
    <2> QED
      BY <1>1, <2>8 DEF Pending
  <1>5. CASE t = s /\ HandleEvent(s)
    <2>1. PICK x \in batch[s] : /\ batch' = [batch EXCEPT ![s] = @ \ {x}]
                                /\ due' = [due EXCEPT ![s] = Due(s, x, "r") \o Due(s, x, "w")]
      BY <1>5 DEF HandleEvent
    <2>2. /\ batch'[s] = batch[s] \ {x} /\ due'[s] = Due(s, x, "r") \o Due(s, x, "w")
          /\ armed' = armed /\ due[s] = <<>> /\ run[s] = NoCo
      BY <1>5, <2>1 DEF HandleEvent, epollVars, Inv, TypeOK, SchedTypes
    <2>3. CASE f \in armed[s]
      BY <1>1, <2>2, <2>3 DEF Pending
    <2>4. CASE f \notin armed[s]
      <3>1. PICK e \in batch[s] : e.fd = f /\ (d \in e.dirs \/ Other(d) \notin e.dirs)
        BY <1>1, <1>2, <2>2, <2>4 DEF Pending
      <3>2. CASE e # x
        <4>1. e \in batch'[s]
          BY <2>2, <3>2
        <4> QED
          BY <1>1, <3>1, <4>1 DEF Pending
      <3>3. CASE e = x
        <4>1. Due(s, x, d) = <<c>>
          BY <1>0, <1>1, <3>1, <3>3 DEF Due
        <4>2. Among(c, DueList(s, x))
          BY <2>2, <4>1, DueAfterEvent
        <4>3. \E i \in 1..Len(due'[s]) : due'[s][i] = c
          BY ONLY <2>2, <4>2 DEF Among, DueList
        <4> QED
          BY <1>1, <4>3 DEF Pending
      <3> QED
        BY <3>2, <3>3
    <2> QED
      BY <2>3, <2>4
  <1>6. CASE t = s /\ ResumeDue(s)
    <2>1. armed' = armed /\ batch' = batch /\ due[s] # <<>>
      BY <1>6 DEF ResumeDue, epollVars
    <2>2. c # Head(due[s])
      BY <1>6 DEF ResumeDue, Goes, Inv, TypeOK, CallTypes
    <2>3. CASE f \in armed[s] \/ \E e \in batch[s] : e.fd = f /\ (d \in e.dirs \/ Other(d) \notin e.dirs)
      BY <1>1, <2>1, <2>3 DEF Pending
    <2>4. CASE \E i \in 1..Len(due[s]) : due[s][i] = c
      <3>1. PICK i \in 1..Len(due[s]) : due[s][i] = c
        BY <2>4
      <3>2. i # 1
        BY <2>1, <2>2, <3>1, Next1
      <3>3. i - 1 \in 1..Len(due'[s]) /\ due'[s][i - 1] = c
        BY <1>6, <3>1, <3>2, DueAfterResume
      <3>4. \E j \in 1..Len(due'[s]) : due'[s][j] = c
        BY <3>3
      <3> QED
        BY <1>1, <3>4 DEF Pending
    <2> QED
      BY <1>1, <1>2, <2>3, <2>4 DEF Pending
  <1> QED
    BY <1>1, <1>3, <1>4, <1>5, <1>6 DEF SchedStep

LEMMA PendingAfterCoStep ==
    ASSUME Inv, Kinds, NEW c \in Co, Needs(c)', Stands(c), pc'[c] \in {"block", "wait"}, op'[c] = op[c],
           NEW o \in Co, CoKinds(o), NEW f \in Fd, f = op[c].fd, NEW d \in Dir, d = op[c].dir
    PROVE  Pending(c, f, d)'
  <1>0. PICK s \in Sched : s = SchedOf[c]
    BY Watched
  <1>1. /\ ctx[f][d] = c /\ d \in reg[s][f] /\ Other(d) \in Dir
        /\ InCall(c, f) /\ pc[c] \in CallPcs /\ added[c]
    BY <1>0, Watched
  <1>2. d \in ready'[f] \/ (f \in err' /\ Other(d) \notin reg'[s][f])
    BY <1>0 DEF Needs
  <1>3. d \in ready[f] \/ (f \in err /\ Other(d) \notin reg[s][f]) => Pending(c, f, d)
    BY <1>0 DEF Inv, NoEdgeLost, Needs, Stands
  <1>4. UNCHANGED <<batch, due>>
    BY DEF CoKinds, TryMore, Moves, TryAgain, BlockStep, LeaveStep, BetweenStep, CloseLaterStep,
       CloseSleptStep, BeginStep, schedVars
  <1>5. CASE ready'[f] \subseteq ready[f] /\ (f \in err' => f \in err) /\ UNCHANGED <<reg, armed>>
    <2>1. Pending(c, f, d)
      BY <1>2, <1>3, <1>5
    <2> QED
      BY <1>4, <1>5, <2>1, PendingStays
  <1>6. CASE TryMore(o) \/ TryAgain(o) \/ BetweenStep(o)
    BY <1>5, <1>6 DEF TryMore, Moves, TryAgain, BetweenStep, kernelVars, epollVars, Inv, TypeOK, KernelTypes
  <1>7. CASE \E g \in Fd : CloseLaterStep(o, g) \/ CloseSleptStep(o, g) \/ \E x \in Dir : BeginStep(o, g, x)
    BY <1>1, <1>5, <1>7 DEF CloseLaterStep, CloseSleptStep, OnlySocket, BeginStep, kernelVars, epollVars
  <1>8. CASE BlockStep(o)
    <2>1. CASE added[o]
      BY <1>5, <1>8, <2>1 DEF BlockStep, kernelVars, epollVars
    <2>2. CASE ~added[o]
      <3>1. Registered(o) /\ UNCHANGED <<ready, err>>
        BY <1>8, <2>2 DEF BlockStep, kernelVars
      <3>2. reg[s][f] \subseteq reg'[s][f] /\ armed[s] \subseteq armed'[s]
        BY <3>1 DEF Registered, Inv, TypeOK, EpollTypes
      <3>3. Pending(c, f, d)
        BY <1>2, <1>3, <3>1, <3>2
      <3> QED
        BY <1>0, <1>4, <3>2, <3>3, PendingStays
    <2> QED
      BY <2>1, <2>2
  <1>9. CASE LeaveStep(o)
    <2>1. err' \subseteq err /\ ready'[f] \subseteq ready[f]
      BY <1>9 DEF LeaveStep
    <2>2. CASE ~added[o]
      BY <1>5, <1>9, <2>1, <2>2 DEF LeaveStep, epollVars
    <2>3. CASE added[o]
      <3> DEFINE t == SchedOf[o]
                 g == op[o].fd
                 x == op[o].dir
      <3>0. t \in Sched /\ g \in Fd /\ x \in Dir
        BY IoAssumption DEF Inv, TypeOK, CallTypes, IoAssumption
      <3>1. /\ reg' = [reg EXCEPT ![t][g] = @ \ {x}]
            /\ armed' = IF reg'[t][g] = {} THEN [armed EXCEPT ![t] = @ \ {g}]
                        ELSE IF g \in err \/ ready[g] \cap reg'[t][g] # {}
                        THEN [armed EXCEPT ![t] = @ \cup {g}] ELSE armed
        BY <1>9, <2>3 DEF LeaveStep, Unregistered
      <3>2. CASE <<t, g>> # <<s, f>>
        <4>1. reg'[s][f] = reg[s][f]
          BY <1>0, <3>0, <3>1, <3>2 DEF Inv, TypeOK, EpollTypes
        <4>2. f \in armed[s] => f \in armed'[s]
          BY <1>0, <3>0, <3>1, <3>2 DEF Inv, TypeOK, EpollTypes
        <4>3. Pending(c, f, d)
          BY <1>2, <1>3, <2>1, <4>1
        <4> QED
          BY <1>0, <1>4, <4>2, <4>3, PendingStays
      <3>3. CASE <<t, g>> = <<s, f>>
        <4>1. o # c
          BY <1>9 DEF LeaveStep, Inv, TypeOK, CallTypes
        <4>2. x # d
          BY <1>1, <1>9, <3>3, <4>1 DEF LeaveStep, Inv, Exclusive
        <4>3. d \in reg'[s][f]
          BY <1>0, <1>1, <3>0, <3>1, <3>3, <4>2 DEF Inv, TypeOK, EpollTypes
        <4>4. armed' = IF f \in err \/ ready[f] \cap reg'[s][f] # {}
                       THEN [armed EXCEPT ![s] = @ \cup {f}] ELSE armed
          BY <3>1, <3>3, <4>3
        <4>5. CASE f \in err \/ d \in ready[f]
          <5>1. f \in armed'[s]
            BY <1>0, <4>3, <4>4, <4>5 DEF Inv, TypeOK, EpollTypes
          <5> QED
            BY <1>0, <5>1 DEF Pending
        <4>6. CASE f \notin err /\ d \notin ready[f]
          BY <1>2, <2>1, <4>6
        <4> QED
          BY <4>5, <4>6
      <3> QED
        BY <3>2, <3>3
    <2> QED
      BY <2>2, <2>3
  <1> QED
    BY <1>6, <1>7, <1>8, <1>9 DEF CoKinds

LEMMA PendingAfterSocketStep ==
    ASSUME Inv, Kinds, NEW c \in Co, Needs(c)', Stands(c), op'[c] = op[c],
           NEW g \in Fd, IdleStep(g) \/ NetStep(g), NEW f \in Fd, f = op[c].fd, NEW d \in Dir, d = op[c].dir
    PROVE  Pending(c, f, d)'
  <1>0. PICK s \in Sched : s = SchedOf[c]
    BY Watched
  <1>1. d \in reg[s][f] /\ InCall(c, f)
    BY <1>0, Watched
  <1>2. d \in ready'[f] \/ (f \in err' /\ Other(d) \notin reg'[s][f])
    BY <1>0 DEF Needs
  <1>3. d \in ready[f] \/ (f \in err /\ Other(d) \notin reg[s][f]) => Pending(c, f, d)
    BY <1>0 DEF Inv, NoEdgeLost, Needs, Stands
  <1>4. UNCHANGED <<batch, due, reg>>
    BY DEF IdleStep, NetStep, Still, schedVars, epollVars
  <1>5. f \in armed[s] => f \in armed'[s]
    BY <1>0 DEF IdleStep, NetStep, Announce, epollVars
  <1>6. CASE f # g
    <2>1. ready'[f] = ready[f] /\ (f \in err' <=> f \in err)
      BY <1>6 DEF IdleStep, NetStep, OnlySocket
    <2>2. Pending(c, f, d)
      BY <1>2, <1>3, <1>4, <2>1
    <2> QED
      BY <1>0, <1>4, <1>5, <2>2, PendingStays
  <1>7. CASE f = g
    <2>1. NetStep(f)
      BY <1>1, <1>7 DEF IdleStep
    <2>2. Reports(f, reg[s][f])
      BY <1>1, <1>2, <2>1 DEF Reports, NetStep
    <2>3. f \in armed'[s]
      BY <1>0, <1>1, <2>1, <2>2 DEF NetStep, Announce
    <2> QED
      BY <1>0, <2>3 DEF Pending
  <1> QED
    BY <1>6, <1>7

LEMMA NoEdgeLostKept == Inv /\ Kinds => NoEdgeLost'
  <1> SUFFICES ASSUME Inv, Kinds, NEW c \in Co, Needs(c)'
               PROVE  Pending(c, op[c].fd, op[c].dir)'
    BY DEF NoEdgeLost
  <1>1. CASE Stands(c) /\ op'[c] = op[c] /\ pc'[c] \in {"block", "wait"}
    <2>1. PICK f \in Fd, d \in Dir : f = op[c].fd /\ d = op[c].dir
      BY <1>1, Watched
    <2>2. Pending(c, f, d)'
      <3>1. CASE \E g \in Fd : IdleStep(g) \/ NetStep(g)
        BY <1>1, <2>1, <3>1, PendingAfterSocketStep
      <3>2. CASE \E o \in Co : CoKinds(o)
        BY <1>1, <2>1, <3>2, PendingAfterCoStep
      <3>3. ASSUME NEW t \in Sched, SchedStep(t)
            PROVE  Pending(c, f, d)'
        <4>1. UNCHANGED <<ready, err, reg>>
          BY <3>3 DEF SchedStep, EpollWait, HandleEvent, ResumeDue, kernelVars, epollVars
        <4>2. Needs(c)
          BY <1>1, <4>1 DEF Needs, Stands
        <4> QED
          BY <1>1, <2>1, <3>3, <4>2, PendingAfterSchedStep
      <3> QED
        BY <3>1, <3>2, <3>3 DEF Kinds
    <2>3. op'[c].fd = f /\ op'[c].dir = d
      BY <1>1, <2>1
    <2> QED
      BY <2>2, <2>3
  <1>2. CASE BlockStep(c) /\ ~added[c]
    <2>1. PICK s \in Sched, f \in Fd, d \in Dir : s = SchedOf[c] /\ f = op[c].fd /\ d = op[c].dir
      BY IoAssumption DEF Inv, TypeOK, CallTypes, IoAssumption
    <2>2. /\ Registered(c) /\ op' = op /\ ready' = ready /\ err' = err
      BY <1>2 DEF BlockStep, kernelVars
    <2>3. d \in reg'[s][f]
      BY <2>1, <2>2 DEF Registered, Inv, TypeOK, EpollTypes
    <2>4. f \in err \/ ready[f] \cap reg'[s][f] # {}
      BY <2>1, <2>2, <2>3 DEF Needs
    <2>5. f \in armed'[s]
      BY <2>1, <2>2, <2>4 DEF Registered, Inv, TypeOK, EpollTypes
    <2>6. Pending(c, f, d)'
      BY <2>1, <2>5 DEF Pending
    <2> QED
      BY <2>1, <2>2, <2>6
  <1> QED
    BY <1>1, <1>2, NeedsBefore

-----------------------------------------------------------------------------
(***************************************************************************)
(* The invariant holds, and what follows from it                           *)
(***************************************************************************)
LEMMA InvAtFirst == Init => Inv
  <1> SUFFICES ASSUME Init PROVE Inv
    OBVIOUS
  <1>1. TypeOK
    BY TypesAtFirst
  <1>2. \A c \in Co : pc[c] = "parked"
    BY DEF Init
  <1>3. Placed /\ Exclusive /\ Asks
    BY <1>2 DEF Placed, Exclusive, Asks, Active, CallPcs
  <1>4. Opened
    <2>1. \A f \in Fd : conn[f] \notin Made => ready[f] = {} /\ f \notin err
      BY DEF Init, Made
    <2> QED
      BY <1>2, <2>1 DEF Opened, CallPcs
  <1>5. Exact
    <2>1. \A f \in Fd, d \in Dir : ctx[f][d] = NoCo
      BY DEF Init
    <2>2. \A s \in Sched, f \in Fd : reg[s][f] = {} /\ f \notin armed[s]
      BY DEF Init
    <2> QED
      BY <1>2, <2>1, <2>2 DEF Exact, CallPcs, Recorded
  <1>6. DueWait
    <2>1. \A s \in Sched : due[s] = <<>>
      BY DEF Init
    <2>2. \A s \in Sched : 1..Len(due[s]) = {}
      BY <2>1
    <2> QED
      BY <2>2 DEF DueWait
  <1>7. BatchFresh
    BY DEF Init, BatchFresh
  <1>8. NoEdgeLost
    BY <1>2 DEF NoEdgeLost, Needs, Waits
  <1> QED
    BY <1>1, <1>3, <1>4, <1>5, <1>6, <1>7, <1>8 DEF Inv

LEMMA InvUnmoved == Inv /\ UNCHANGED vars => Inv'
  <1> SUFFICES ASSUME Inv, UNCHANGED vars PROVE Inv'
    OBVIOUS
  <1> USE DEF vars, kernelVars, epollVars, schedVars, coVars
  <1>1. TypeOK'
    BY DEF Inv, TypeOK, KernelTypes, EpollTypes, SchedTypes, CallTypes
  <1>2. Placed' /\ Exclusive' /\ Opened' /\ Asks'
    BY DEF Inv, Placed, Exclusive, Opened, Asks
  <1>3. Exact'
    BY DEF Inv, Exact, InCall, Recorded
  <1>4. DueWait' /\ BatchFresh'
    BY DEF Inv, DueWait, BatchFresh, Awaits, Waits
  <1>5. NoEdgeLost'
    BY DEF Inv, NoEdgeLost, Needs, Waits, Pending
  <1> QED
    BY <1>1, <1>2, <1>3, <1>4, <1>5 DEF Inv

LEMMA InvKept == Disciplined /\ Inv /\ [Next]_vars => Inv'
  <1> SUFFICES ASSUME Disciplined, Inv, [Next]_vars PROVE Inv'
    OBVIOUS
  <1>1. CASE Next
    <2>1. Kinds
      BY <1>1, StepKinds
    <2>2. TypeOK'
      BY <1>1, TypesKept DEF Inv
    <2> QED
      BY <2>1, <2>2, PlacedKept, ExclusiveKept, OpenedKept, ExactKept, DueWaitKept,
         BatchFreshKept, AsksKept, NoEdgeLostKept DEF Inv
  <1> QED
    BY <1>1, InvUnmoved

LEMMA InvAlways == Disciplined => (Spec => []Inv)
  <1>1. Init => Inv
    BY InvAtFirst
  <1>2. Disciplined /\ Inv /\ [Next]_vars => Inv'
    BY InvKept
  <1> SUFFICES ASSUME Disciplined PROVE Spec => []Inv
    OBVIOUS
  <1>3. Inv /\ [Next]_vars => Inv'
    BY <1>2
  <1> QED
    BY <1>1, <1>3, PTL DEF Spec

\* A coroutine that waits is the one its socket names, watched by the epoll of
\* its scheduler; nothing is registered for a call that has returned; and a
\* scheduler resumes for an event only coroutines of its own that wait.
THEOREM RegistrationsHold == Disciplined => (Spec => []Registrations)
  <1>1. Inv => Registrations
    <2> SUFFICES ASSUME Inv PROVE Registrations
      OBVIOUS
    <2>1. ASSUME NEW c \in Co, Waits(c)
          PROVE  ctx[op[c].fd][op[c].dir] = c /\ op[c].dir \in reg[SchedOf[c]][op[c].fd]
      BY <2>1, Watched DEF Stands
    <2>2. \A f \in Fd, d \in Dir : ctx[f][d] # NoCo =>
            added[ctx[f][d]] /\ InCall(ctx[f][d], f) /\ op[ctx[f][d]].dir = d
      BY DEF Inv, Exact
    <2>3. \A s \in Sched, f \in Fd, d \in Dir : d \in reg[s][f] => Recorded(s, f, d)
      BY DEF Inv, Exact
    <2>4. \A s \in Sched : \A i \in 1..Len(due[s]) : Waits(due[s][i]) /\ SchedOf[due[s][i]] = s
      BY DEF Inv, DueWait
    <2> QED
      BY <2>1, <2>2, <2>3, <2>4 DEF Registrations
  <1> SUFFICES ASSUME Disciplined PROVE Spec => []Registrations
    OBVIOUS
  <1>2. Spec => []Inv
    BY InvAlways
  <1> QED
    BY <1>1, <1>2, PTL

\* A coroutine that waits, or is about to, for a socket that is ready, or for one
\* with an error that nobody else is in a call on, has the event in front of it:
\* in the ready list, in the batch, or as its own turn.
THEOREM NoMissedEventHolds == Disciplined => (Spec => []NoMissedEvent)
  <1>1. Inv => NoMissedEvent
    <2> SUFFICES ASSUME Inv, NEW c \in Co,
                        Stands(c),
                        op[c].dir \in ready[op[c].fd]
                          \/ (op[c].fd \in err /\ \A b \in Co \ {c} : ~InCall(b, op[c].fd))
                 PROVE  Pending(c, op[c].fd, op[c].dir)
      BY DEF NoMissedEvent, Stands
    <2>1. /\ SchedOf[c] \in Sched /\ op[c].fd \in Fd /\ op[c].dir \in Dir
          /\ Other(op[c].dir) \in Dir /\ Other(op[c].dir) # op[c].dir
      BY Watched DEF Other, Dir
    <2>2. CASE \A b \in Co \ {c} : ~InCall(b, op[c].fd)
      <3>1. ~Recorded(SchedOf[c], op[c].fd, Other(op[c].dir))
        <4> SUFFICES ASSUME ctx[op[c].fd][Other(op[c].dir)] # NoCo PROVE FALSE
          BY DEF Recorded
        <4>1. ctx[op[c].fd][Other(op[c].dir)] \in Co
          BY <2>1 DEF Inv, TypeOK, EpollTypes
        <4>2. /\ InCall(ctx[op[c].fd][Other(op[c].dir)], op[c].fd)
              /\ op[ctx[op[c].fd][Other(op[c].dir)]].dir = Other(op[c].dir)
          BY <2>1 DEF Inv, Exact
        <4> QED
          BY <2>1, <2>2, <4>1, <4>2
      <3>2. Other(op[c].dir) \notin reg[SchedOf[c]][op[c].fd]
        BY <2>1, <3>1 DEF Inv, Exact
      <3>3. Needs(c)
        BY <3>2 DEF Needs, Stands
      <3> QED
        BY <3>3 DEF Inv, NoEdgeLost
    <2>3. CASE op[c].dir \in ready[op[c].fd]
      <3>1. Needs(c)
        BY <2>3 DEF Needs, Stands
      <3> QED
        BY <3>1 DEF Inv, NoEdgeLost
    <2> QED
      BY <2>2, <2>3
  <1> SUFFICES ASSUME Disciplined PROVE Spec => []NoMissedEvent
    OBVIOUS
  <1>2. Spec => []Inv
    BY InvAlways
  <1> QED
    BY <1>1, <1>2, PTL

\* Only SO_ERROR makes a connect() that waited return 0.
LEMMA VerdictOfSoError ==
    ASSUME Inv, Next, NEW c \in Co, pc[c] = "so_error", pc'[c] = "success"
    PROVE  SoError(c)
  <1>0. \A o \in Co : \A p : Goes(o, p) /\ (o # c \/ p # "success") => FALSE
    BY DEF Goes, Inv, TypeOK, CallTypes
  <1>1. pc' # pc
    OBVIOUS
  <1>2. PICK o \in Co : CoStep(o) \/ \E s \in Sched : SchedStep(s)
    BY <1>1 DEF Next, Outside, Connected, Break, CloseByThread, Arrive, coVars
  <1>3. ASSUME NEW s \in Sched, SchedStep(s) PROVE FALSE
    <2>1. ResumeDue(s)
      BY <1>1, <1>3 DEF SchedStep, EpollWait, HandleEvent, coVars
    <2>2. \E b \in Co : \E p \in {"call", "so_error"} : pc' = [pc EXCEPT ![b] = p]
      <3>1. Head(due[s]) \in Co
        BY <2>1 DEF ResumeDue, Inv, TypeOK, SchedTypes
      <3> QED
        BY <2>1, <3>1 DEF ResumeDue, Goes
    <2> QED
      BY <1>0, <2>2 DEF Goes
  <1>4. CoStep(o)
    BY <1>2, <1>3
  <1>5. ASSUME NEW f \in Fd, \/ Socket(o, f) \/ Connect(o, f) \/ ConnectAtOnce(o, f)
                             \/ Close(o, f) \/ CloseLater(o, f)
        PROVE  FALSE
    BY <1>0, <1>1, <1>5 DEF Socket, Connect, ConnectAtOnce, Close, CloseLater
  <1>6. ASSUME NEW f \in Fd, NEW d \in Dir, Begin(o, f, d) \/ Shutdown(o, f, d)
        PROVE  FALSE
    BY <1>0, <1>1, <1>6 DEF Begin, Shutdown
  <1>7. ~(ResumeParked(o) \/ Park(o) \/ Block(o) \/ BlockFails(o) \/ TimeOut(o) \/ CloseSlept(o))
    BY <1>0 DEF ResumeParked, Park, Block, BlockFails, TimeOut, CloseSlept, Returns
  <1>8. ~Try(o) /\ ~Succeeded(o)
    BY <1>0, <1>1 DEF Try, TryFails, TryDone, TryMore, TryAgain, Succeeded, Returns, coVars
  <1>9. SoError(o)
    BY <1>4, <1>5, <1>6, <1>7, <1>8 DEF CoStep
  <1>10. o = c
    BY <1>0, <1>9 DEF SoError, Returns
  <1> QED
    BY <1>9, <1>10

\* connect() returns 0 only for a connection that was established.
THEOREM ConnectVerdictHolds == Disciplined => (Spec => ConnectVerdict)
  <1>1. Inv /\ [Next]_vars =>
          [\A c \in Co : pc[c] = "so_error" /\ pc'[c] = "success" => conn[op[c].fd] = "connected"]_vars
    <2> SUFFICES ASSUME Inv, Next, NEW c \in Co, pc[c] = "so_error", pc'[c] = "success"
                 PROVE  conn[op[c].fd] = "connected"
      OBVIOUS
    <2>1. SoError(c)
      BY VerdictOfSoError
    <2>2. conn[op[c].fd] \notin {"failed", "closed"}
      BY <2>1 DEF SoError, Returns, Goes, Inv, TypeOK, CallTypes
    <2> QED
      BY <2>2 DEF Inv, Asks, Made
  <1> SUFFICES ASSUME Disciplined PROVE Spec => ConnectVerdict
    OBVIOUS
  <1>2. Spec => []Inv
    BY InvAlways
  <1> QED
    BY <1>1, <1>2, PTL DEF Spec, ConnectVerdict
=============================================================================
