# TLA+ models of coost-core

coost-core is a C++ library of coroutines: schedulers that each run many
coroutines on one thread, the synchronisation objects coroutines and threads
share (`co::event`, `co::wait_group`, `co::mutex`, `co::chan`, `co::pool`),
socket calls and hooked system calls that suspend a coroutine instead of a
thread, and the containers, strings and allocator underneath. This directory
models the parts whose correctness depends on the order in which several actors
do things, and the sequential code that other parts rely on.

Run a model with `tlc -config MCSched.cfg Sched`; the table of runs below names
the module and the configuration of each. Check the proofs with
`tlapm SchedProofs.tla`, and so on for every module of section 6.
`PROJECT.json` maps every definition to the lines it is translated from.

## 1. Inventory

Paths are below `src/coost/`.

| Component | State | Operations | Talks to |
|---|---|---|---|
| Scheduler (`co/src/sched.h`, `sched.cc`) | two task queues under a mutex, the timer map, `_wait_ms`, `_timeout`, the running coroutine, `stopped` | `loop`, `resume`, `yield`, `add_new_task`, `add_ready_task`, `sleep`, `add_timer`, `stop` | any thread posts to it; it resumes coroutines; epoll |
| Shared stacks (same files) | per stack its owner, per coroutine a buffer, spare buffers | `save_stack`, `resume`, `recycle` | scheduler |
| Context switch (`co/src/context/`) | the registers and the frame on a stack | `make`, `jump` | scheduler |
| Coroutine pool (`sched.h`) | blocks of `N` coroutines, use counts, two free lists, a set of free blocks | `pop`, `push` | scheduler |
| Scheduler manager (`sched.cc`) | the schedulers, `is_active` | start, `stop`, `next_sched` | schedulers, `co::main_sched` |
| Epoll, kqueue (`co/src/epoll/`) | the pipe, `_signaled`, registered events | `signal`, `wait`, `add_ev_*`, `del_ev_*` | scheduler, `io_event` |
| Socket contexts (`sock_ctx.h`) | per descriptor and direction a scheduler and a coroutine | `add_ev_*`, `del_ev_*`, `get_ev_*` | epoll, scheduler, `close` |
| `io_event`, sockets (`io_event.cc`, `sock.cc`) | `_added` of the call | `wait`; `connect`, `accept`, `recv*`, `send*`, `close`, `shutdown` | epoll, socket contexts |
| Windows I/O (`iocp.*`, `sock_win.cc`, `hook_win.cc`) | the `PerIoInfo` of a call, the port of a scheduler | the same calls, overlapped | scheduler |
| Hooks (`hook.cc`) | per descriptor its mode, a mark and timeouts; the `hostent` of a scheduler | the blocking libc calls | `io_event`, timers |
| event, sync_event (`co.cc`) | signaled flag, list of waitx, counts of threads | `wait`, `signal`, `reset` | schedulers, threads |
| wait group (`co.cc`) | a counter and an event | `add`, `done`, `wait` | event |
| mutex (`co.cc`) | `_lock`, a queue of waiters in blocks | `lock`, `try_lock`, `unlock` | schedulers, threads |
| chan (`co.cc`) | a ring, a list of waitx | `read`, `write`, `close`, `done` | schedulers, threads |
| pool (`co.cc`) | one vector per scheduler | `pop`, `push`, `clear` | schedulers, wait group |
| Allocator (`mem/`) | per thread lists of blocks; per block a bitmap of the owner's and one other threads free through; static objects; reference counts | `alloc`, `free`, `realloc`, `make_static`, `make_shared` | everything |
| clist, lru_map, array (`containers/`) | links; three structures in step; a block of cells | push, pop, erase, move; insert, find; append, remove | event, chan, mutex, programs |
| Strings and numbers (`fast/`, `str/`) | a buffer that grows | append, trim, split, replace, match, search; numbers to text and back | everything |
| Detours (`co/src/detours/`) | the pending transaction, regions of trampolines | begin, attach, detach, commit, abort; copying of first instructions | hooks on Windows |

What is hard:

* Scheduler: a push and the wake-up it needs are two steps, the loop drains
  the pipe, clears the flag and takes the tasks in three; a waker and a timer
  race for one wait; a timer outlives its wait; `stop` meets the loop anywhere.
  Correct when no wake-up is lost, every wait ends with exactly one resume,
  `co::timeout()` tells the truth and `stop` waits for the end of the loop.
* Stacks and pool: the coroutine that is resumed may not be the one whose
  frames are on the stack; a block of coroutines is freed as soon as nobody
  uses it. Correct when a coroutine cannot tell that its stack is shared and
  `pop` gives what nobody has.
* Event, mutex, chan: the decision is taken under a lock and carried out after
  it, the other side may time out in between, and a waiter that timed out
  leaves a record for the next one to find and free.
* Sockets: registration follows the failed system call, events arrive
  edge-triggered and in batches, a descriptor is looked up when an event is
  handled, and other coroutines close it. On Windows the kernel goes on using
  the memory of a call that has timed out.
* Hooks: the mode of a descriptor is changed behind the program's back, by
  several calls at once and for several descriptors of one socket.
* Pool: `clear` visits every scheduler while others go on.
* Allocator: any thread frees into a block that its owner allocates from.
  Correct when no two objects in use overlap, and nothing freed is lost.
* Detours: a commit moves code that threads are in, and hooks of one function
  lead through each other's trampolines.
* Containers, text, instructions: long sequences of legal calls, arguments that
  point into what a call moves, numbers at the ends of their ranges.

## 2. Modules

| Module | Models | Composes, or is refined by |
|---|---|---|
| `Mailbox` | what a queue promises: out in the order in, and, if it is open, everything comes out | abstract |
| `PrivateStacks` | what a coroutine is promised: a stack of its own | abstract |
| `Arena` | what an allocator promises: aligned objects within bounds that do not overlap | abstract |
| `Sched` | the loop, the posting threads, the pipe, timers and `stop` | implements `Mailbox` twice |
| `SharedStack` | `save_stack`, `resume`, `recycle` | implements `PrivateStacks` |
| `Timers` | the timer map with its hint, `_wait_ms`, and the hooks that sleep or poll, with times as numbers | |
| `Context` | `make` and `jump` of the context switch, for eight calling conventions | |
| `CoPool` | `CoroutinePool` | |
| `SchedManager` | `SchedManager`, `main_sched`, `stop_scheds`, exit | |
| `Event` | `event_impl` with coroutines, threads and timers | |
| `SyncEvent` | `sync_event_impl` | implements `Event` |
| `WaitGroup` | `wait_group` | EXTENDS `Event` |
| `Mutex` | `mutex_impl` | its queue is `MutexQueue` |
| `Sync` | nothing of its own | the four above side by side, one to a behaviour |
| `MutexQueue` | `mutex_impl::queue` | implements `Mailbox` |
| `Chan` | `pipe_impl` | |
| `Pool` | `pool_impl` | |
| `IoEvent` | `io_event`, sockets, socket contexts and epoll registration on Linux | |
| `Hook` | the hooked calls on descriptors, on Linux | |
| `Dns` | the hooked resolver calls | |
| `Kqueue` | waiting for sockets with kqueue | |
| `Overlapped` | overlapped I/O on Windows: `io_event`, the calls of `sock_win.cc` and the hooks, packets | |
| `WinCalls` | the memory that overlapped calls read and write | |
| `WinHook` | the hooks for blocking sockets that are not overlapped | |
| `SmallBlock` | `SmallAlloc` (and `LargeAlloc`): one block of the allocator | implements `Arena` |
| `ThreadAlloc` | the blocks of the threads, `GlobalAlloc`, `LargeBlock`, `HugeBlock` | |
| `StaticMem` | static objects and their destructors | |
| `Shared` | `shared` and `unique` | |
| `CList`, `LruMap`, `Array` | the containers of these names | |
| `Text` | the buffer of `fastring` and `fastream`, the string algorithms, and numbers written and read | |
| `Disasm` | the copying of instructions of x86 and x64, and of ARM64 | |
| `Detours` | the transaction that patches functions, and its trampolines | |
| `MCMemory` | nothing of its own | the four of the allocator side by side, and constants for TLC |
| `MCParts` | nothing of its own | twenty parts that share nothing, side by side, and constants for TLC |
| `MCIoEvent`, `MCHook` | constants for TLC | EXTEND their module |
| `SchedProofs`, `ChanProofs`, `IoEventProofs` | proofs | EXTEND their module |
| `HookProofs` | proofs about the hooks and about time | EXTENDS `Hook` and `Timers` |
| `MemoryProofs` | proofs about the memory of objects and of coroutines | EXTENDS `SmallBlock`, `Shared`, `SharedStack`, `StaticMem` and `ThreadAlloc` |
| `SyncProofs` | proofs about the objects of `Sync`, the mutex's queue, and how schedulers stop | EXTENDS `Sync`, `MutexQueue` and `SchedManager`, instantiates `EventLemmas` for the event and the wait group |
| `EventLemmas` | the invariants of `Event` and `WaitGroup` | EXTENDS `WaitGroup`, `QueueLemmas` |
| `QueueLemmas` | lemmas about queues, and counts of sets | |

How a model relates to its code:

* **Sched.** One action per step between two accesses to shared memory. `pcL`
  is the place in `Sched::loop`: `check` (the head), `wait` (inside
  `epoll_wait`), `woken`, `events`, `drained` (pipe read, `_signaled` not yet
  cleared), `new`, `ready`, `timedout` (the three batches), `exit`. `pcC` is
  the place of each caller of `go`, of a wake-up or of `stop`: `push`, `cas`
  (in `Epoll::signal` before the compare-and-swap), `write` (won it, byte not
  yet written), `join`. The loop thread is a caller too when the coroutine it
  runs calls one of these. `batchNew`, `batchReady` and `timedOut` are the
  loop's local vectors, and `cur` is the coroutine that has control, `wx`
  the state of its `waitx`. A timer is armed, becomes due (`Expire`), and
  `CheckTimeout` takes the due ones; deadlines are numbers only in `Timers`.
* **SharedStack.** A stack's bytes are one frame, which names its coroutine and
  how often that one has run; `data` is the content of a buffer. `resume` of a
  coroutine that does not own its stack saves the owner first.
* **Timers.** Numbers have the width of the code's, scaled down: `Word` stands
  for 2^32, `Unit` for 1000. `hint` and `it` are the iterators into the map,
  `waitMs` is `_wait_ms` and `checked` the time it counts from. A hooked call
  is one action up to its sleep; `nap` is what `poll` and `select` keep while
  they look and sleep in turns.
* **Context.** A stack is a sequence of words, a routine's registers a function;
  `abi` selects which registers a convention keeps, what lies on the stack, and
  where arguments go. `regs`, `sp` and `pc` are the processor's.
* **SchedManager.** A loop is one step; what matters is who is in which loop,
  which scheduler is marked and has ended, and where each caller of
  `stop_scheds` is.
* **Event.** A `waitx` is an object of the set `W` that is allocated, listed,
  reused or freed; `wst` is its state, `wco` its coroutine. `signal` is two
  kinds of step: the part under the lock, and `SignalRest` for each waiter
  after it. Threads are counted in `_wt` and released through `_sn`.
* **SyncEvent.** The same for threads alone, a condition variable that may
  return unasked; `Sync` maps it to `Event` with no coroutines.
* **WaitGroup.** `done` is the decrement and then the event's signal, with
  `wait` on the same event; the actions of `Event` that it can meet are taken
  as they are.
* **Mutex.** `unlock` decides under `_m` (`Unlock`) and wakes afterwards
  (`Wake`). `_lock` is 0, 1, or 2 while a thread has
  been chosen. A thread in the queue is `Null`, as in the code, and every thread
  waits on one condition variable, so which of them takes the lock is open.
* **Chan.** The ring is `slot`, `rx`, `wx`, `full`; an operation `[a, n]` is
  the `n`th of an actor and its waitx at once. `OnStack` are the coroutines
  whose argument lives on the shared stack, for which `create_waitx` makes a
  copy on the heap. `close` is the flag (`Close`) and the waking of the readers
  (`CloseDrain`). `got` and `told` are what the caller sees, `accepted` and
  `delivered` are history.
* **Pool.** One vector per scheduler, with its capacity (`room`). `clear` starts
  one coroutine on each scheduler, which walks the vector with the addresses it
  took at the beginning: `walk` is what it will find there, `Gone` memory that a
  `push_back` has moved the vector away from. `yields` says whether the destroy
  callback suspends, and is either in the initial states.
* **CoPool.** An id is a pair of block and offset; `holders` counts the hands
  each coroutine is in, a history variable. `_vc`, `_v0`, `_c`, `_o`, `_blks`
  and the use counts are the variables of those names.
* **IoEvent.** Sockets and epolls are external: a socket has the directions in
  which it is ready, an epoll the registrations and an edge-triggered ready
  list. A call tries, registers (which the kernel may refuse for want of
  memory), yields, and is resumed by an event or by its timer. `ctx` is the
  socket's `SockCtx`, `batch` the events the loop has not handled, `due` the
  coroutines of the event at hand. `gen` and `got` are history: the incarnation
  of a descriptor and the one a call began on.
* **Hook.** Descriptors refer to open file descriptions, which hold O_NONBLOCK;
  `HookCtx` is kept by descriptor. A step of a call ends at the next access to
  either. `asked` is the mode the program believes in.
* **Overlapped.** An operation is posted with a `PerIoInfo` from the set `Info`;
  `state` is the word that the packet and the timer race for, `owner` its
  coroutine, `port` the packets of each scheduler, `pend` what the kernel has.
  **WinCalls** names the pieces of memory of a call (caller's stack, `PerIoInfo`,
  copies) and what the kernel refers to. **WinHook** has the mode of a socket,
  its context and where each call is.
* **SmallBlock.** The bitmaps are sets of units, and a word of `_xbs` is the
  part of the set in it. `alloc`, `free` and `realloc` are one action each,
  since only the owner runs them; `try_hard_alloc` is a loop whose loads and
  clears of a word are steps of their own (`pc`, `word`, `x` are its place and
  its locals), between which `XFree` sets bits. `live`, `len`, `aln` and `asked`
  are history: the objects in use, the units they occupy, their alignment and
  the size their owner knows, which `realloc` is called with.
* **ThreadAlloc.** The lists `_lsa`, `_lla`, `_llb` and `_lhb` are sequences of
  blocks, front first; a block's own bitmaps have one word, since `SmallBlock`
  has the rest. **StaticMem** is the position in each block, and the loops of
  `~Dealloc` one destructor a step (`turn` is the class, `i` and `x`); **Shared** is
  memory as words, where a count may fall into the
  object if it is looked for with the wrong size.
* **MutexQueue, CList, LruMap, Array, the buffer of Text.** The operations as the
  code writes the memory, with the sequence the structure stands for beside it.
  A cell of `Array` may be raw, a byte of a buffer junk, so that reading
  what was moved or never written shows.
* **Detours.** `pendingThread`, `operations`, `threads`, `regions` and the others
  are the statics of detours.cpp, one action per function of the API; the
  search for room is that of the code, with addresses as small numbers. A
  function is the list of its instructions' sizes and those of their copies,
  which `Disasm` justifies. Beside it, `attached` has each function's hooks,
  and `eip` and `executed` where another thread is and how far it should be.
  The calls that only restore something (`ResumeThread`, the old page
  permissions) are taken to succeed. `init_hook` (hook_win.cc:1416) is one such
  transaction: it suspends nobody.
* **Text, Disasm.** Pure algorithms: a behaviour is one call, its
  arguments from bounded sets, and the property compares the result with a
  definition of what it should be - for an instruction, by executing original
  and copy.

Assumed everywhere: shared memory is sequentially consistent (the allocator's
bitmaps and several flags are relaxed atomics), locks exclude, and an assertion
or a failed allocation ends the program.

## 3. Runs

| Run | Module, configuration | Bound | Shows |
|---|---|---|---|
| mc_sched | Sched, MCSched.cfg | 2 coroutines, 1 thread, 2 suspensions each | no wake-up is lost, one resume per wait, no stale timer, true timeouts; tasks and ready coroutines are delivered as through a mailbox; sleepers wake; `stop` waits for the end and returns |
| mc_sync | Sync, MCSync.cfg | event and sync_event: 1 timed coroutine, 2 threads, one of them timed, 2 signalers, spurious wake-ups, 2 waits, 1 signal each; wait group: 3 workers, 2 coroutines and a thread that wait; 2 waitx; mutex: 2 coroutines, 2 threads, 2 locks each | nobody is forgotten or sleeps on a signaled event, verdicts, waitx objects have one owner; sync_event implements event; no early return of a wait group, the last `done` releases those it finds; exclusion, exact queue, and whoever is woken or queues returns |
| mc_event_reuse | Event, MCEventReuse.cfg | 2 coroutines, one timed | **violation** of `NoWaiterForgotten` |
| mc_chan | Chan, MCChan.cfg | 2 coroutines and a thread, 2 operations each, all timed, 2 slots, a close | order, justified waits, `done()` is true, nothing leaks, no foreign stack is written, served operations return |
| mc_io_event | MCIoEvent, MCIoEvent.cfg | 3 coroutines, 2 schedulers, 1 socket closed and reopened | registrations, edges, verdict of `connect`, waiters for a ready socket wake |
| mc_io_event_reuse | MCIoEvent, MCIoEventReuse.cfg | 2 sockets closed while in use | **violation** of `ConnectVerdict` |
| mc_hook | MCHook, MCHook.cfg | 2 coroutines, 2 descriptors, 2 descriptions, under symmetry | no call keeps a scheduler's thread, contexts are exact, the program sees its mode |
| mc_mem | MCMemory, MCMemory.cfg | a block of 6 units in words of 2 bits; 2 threads over 2 huge blocks, 2 large in a huge, 2 small in a large; 4 static objects; 4 pointers of 2 threads to 2 objects; symmetry of huge blocks and objects | bitmaps are exact, the block is an arena; no block is lost or in two places, and an empty one is not searched; static objects lie apart and die in reverse; an object lives as long as its references |
| mc_shared_base | MCMemory, MCSharedBase.cfg | a derived class larger than its base | **violation** of `SharedOwnership` |
| mc_parts | MCParts, MCParts.cfg | below | the properties of twenty parts |
| mc_co_pool_many | CoPool, MCCoPoolMany.cfg | N = 2, 6 = 2N + 2 coroutines | **violation** of `PopIsFresh` |
| mc_overlapped_cancel | MCParts, MCOverlapped.cfg | 2 coroutines of one scheduler, 1 datagram socket | **violation** of `NotCancelled` |

`MCParts` and `MCMemory` put modules that share no state side by side: `which`
is the part a behaviour exercises, and the others stand still. The bounds of
`mc_parts` are 3 coroutines on one stack with 1 spare buffer; 4 nodes of a list;
6 entries in mutex-queue blocks of 2; 9 = 2N + 1 coroutines in pool blocks of
N = 4; a pool of 2 schedulers and 3 elements with `_maxcap` 2; 2 sleepers with a
32-bit word scaled to 16; overlapped calls of 2 coroutines in 2 schedulers on 4
kinds of sockets, 3 `PerIoInfo`s, 2 calls each and a close; 2 hard sockets; an
lru_map of 2 of 3 keys; arrays of 5, texts of 4, strings of up to 5 characters
of 2; 2 schedulers for 3 processors and 2 program threads; kqueue and resolver
with 3 coroutines in 2 schedulers; 4 stack sizes for each convention; every
opcode with its prefixes, and the ends of every relative field; 4 hooks of 3
functions, one of them hooked twice, in up to 2 regions of 2 trampolines, with 2
threads that use the API and one in the code.

Why the bounds are enough: each hazard needs a given number of
actors, and the bound has at least that many. A lost wake-up needs a caller that
won the flag, one that found it set, and one pass of the loop: the thread and
the loop's own coroutines are the callers. A waker and a timer race over one
wait, and a stale timer needs a second wait of the same coroutine; a saved stack
needs two coroutines, a buffer taken over needs a third; the fault of the
coroutine pool appears at 2N + 2 and not below; a handover of the mutex with
both kinds of waiter needs four actors to queue two behind the owner; three
words are a first, a last and one between for the loop over a bitmap; two huge
blocks are one that is given back while the other serves. The sequential parts
cover every sequence of their operations within their sizes. What
section 6 proves holds for every size. Operation
counts (`MaxYield`, `MaxWait`, `MaxSignal`, `MaxLock`, `MaxOps`, `MaxLen`,
`MaxRun`, `MaxCall`, `MaxClose`, `MaxMarked`, `MaxObj`) and sizes (`Cap`,
`MaxCap`, `MaxBufs`, `MaxBlock`, `MaxLive`, `MaxBit`, `MaxArray`, `MaxText`,
`MaxNow`) are in the guards and named in each module's CONSTANTS.

`CHECK_DEADLOCK FALSE` is given where the program really may stop: the actors
run out of their bounded operations, nobody is obliged to signal, to send or to
close, a scheduler that was stopped does nothing more, and a pure algorithm is
called once.

## 4. Fairness

* `Sched`: weak fairness of the loop, of callers inside `signal`, of the
  coroutine in control and of time. Strong fairness of the timeout of
  `epoll_wait`: the code restarts a wait that a signal interrupts with the same
  `_wait_ms` (sched.cc:157), and a process is not interrupted for ever. Nobody
  is obliged to post, to wake, to stop, or to send on a socket.
* `Sync`, `Chan`: what is ready is resumed (the property of `Sched`),
  a thread that can run does, and a caller that has taken a decision under the
  lock carries it out. Only the mutex asks more of the users: who holds it
  unlocks it. No timer has to fire.
* `IoEvent`: strong fairness of `EpollWait`, since each pass of the loop calls
  it before it resumes finitely many others, and of the completion of a call,
  which moves finitely many bytes; weak fairness of the rest. The network is
  under no obligation.
* `Mailbox` has weak fairness of `Take`; that `Sched` implements it is a
  liveness property as well as a safety one.

## 5. What the runs found

Five runs end in a violation of what a comment or a test says; PROJECT.json
quotes the lines.

* `CoroutinePool::pop` takes `_c + 1` when `_blks` is empty, also after `_c`
  went back to an earlier block; that block may be in use (sched.h:179).
* `event_impl::wait` reuses the waitx of a coroutine that timed out without
  naming the new one in it (co.cc:358).
* Events in a batch are matched to the descriptor's present owner
  (sched.cc:187): if that descriptor was closed and opened again by a coroutine
  resumed earlier in the batch, a `connect` may return 0 too early.
* `shared<Base>` made from `shared<Derived>` looks for the reference count
  where it would be behind an object of the base class (mem.h:250).
* `io_event::wait` on Windows cancels all operations its thread has on the
  socket when its own timer expires (io_event.cc:142): another coroutine's
  `recvfrom` returns 0 bytes.

The passing runs exclude exactly these conditions, by a constant: `Co` and
`TimedCo` of `Event`, `MaxLive` of `CoPool`, `CloseInUse` of `IoEvent`, `SizeOf`
of `Shared`, and the scheduler of each coroutine in `At` of `Overlapped`.

More constants name what programs, compilers or kernels may do that the code
does not allow for. Each is empty or FALSE in the passing runs and documented at its
declaration; setting one shows the property it breaks. They are assumptions on
the users of a part, not claims about it:

| Constant | What it admits |
|---|---|
| `Shared` (`IoEvent`), `share` and others of `KqLiberties` | two coroutines that wait in one direction of a socket (epoll.cc:40), `poll` for both directions with kqueue |
| `Liberties` of `Hook` | use after `shutdown`, a `shutdown` that fails, `connect` on a used socket, changing the mode through a `dup` or during a call, two polls of a descriptor, sharing with other threads |
| `Liberties` of `WinHook`, `CallLiberties`, `CancelAtOnce`, `ExAtOnce`, `Rewait` | the like on Windows; the flags of a received message, sending with one timeout set; a kernel that cancels late or completes `AcceptEx` at once; a second wait on an `io_event` |
| `EndlessSelect` of `Timers` | `select` without a timeout on Windows |
| `ManLiberties` | `main_sched()` too late, no loop before `stop_scheds()`, stopping from a coroutine or twice, a loop slower than the 128 ms of exit |
| `DnsLiberties` | calls that are not reentrant in two schedulers, answers kept over a suspension, both kinds of calls, `gethostbyname2` |
| `CtxLiberties` | values in floating-point registers across a switch, a stack alignment relied on on ARM, home space on Windows, odd stack sizes |
| `LruLiberties`, `OwnElement`, `TextLiberties` | moved or known keys, appending an element of a full array to it, two stars in a row, units on numbers of the upper half, `dp::_n` |
| `DisLiberties`, `ArmLiberties` | instructions the copiers have no form for |
| `DetourLiberties` | detaching a hook under another one, two operations on a function in a transaction, suspending a thread outside of one, a begin before another thread's commit has returned; threads that are not suspended, behind the first 8 bytes of a trampoline (`sizeof` of a pointer to it, detours.cpp:1867), or before 8 bytes that are moved (their end is 0 in the 3 bits of `rAlign`) |

Further behaviour of the code that a user should know of, and that the
properties of the passing runs are worded or bounded around:

* A thread's `event::wait` whose timeout expires while `signal` counts it
  returns false (co.cc:388), and one without a timeout has no loop around its
  condition variable (co.cc:395): `CoVerdict` speaks of coroutines.
* `wait_group::wait` waits for a signal and not for the counter (co.cc:1124): a
  waiter that comes between two signals may be left behind by another that took
  it, which is what `LeftOnlyByAnother` allows and no more.
* While the destroy callback of `pool::clear` is suspended, the vector still
  holds the elements it has destroyed (co.cc:989), and a `push` that makes the
  vector grow leaves the loop with addresses that are no longer the vector's:
  `ElementsAccounted` and `ClearIsComplete` promise it only for callbacks that
  do not suspend (`~yields`).
* Tasks that are pushed while a loop leaves stay in its queues (sched.cc:149):
  the mailbox that `Sched` implements may close with items in it.

## 6. Proofs

All theorems hold for every value of the constants that the named assumptions
admit. Those on threads say that there are finitely many of them, where the
code counts them.

`SchedProofs` assumes `SchedAssumption` (the loop is not one of the threads,
the markers are not coroutines) and proves

* `TypeCorrect`: `Spec => []TypeOK`;
* `WakeupsArriveAtTheLoop`: `Spec => []WakeupsArrive`, the conjunction of four
  parts. `NoLostWakeup` alone is not inductive: it speaks of a loop that sleeps,
  and says nothing of how it fell asleep. The invariant `WakeupInv` adds that
  from `get_all_tasks` on, round to the next look at the events, whatever has
  been pushed is announced (`TasksAnnounced`), the same of the stop flag
  (`StopAnnounced`), and who has the one byte the flag stands for
  (`Handshake`). Steps that touch none of these variables and move the loop
  only within that stretch are one lemma, `WakeupFrame`;
* `EachIsResumedOnce`, `TimersAreExact` and `StopIsFinal`: `ResumedExactlyOnce`,
  `TimersExact` and `StopQuiesces` follow from one inductive invariant,
  `LifeInv`. A coroutine has as many tickets - places in the queues and batches,
  hands of wakers, the list of expired timers - as it is owed resumes. That is
  kept only together with its `Surroundings`: who is in control and where
  the loop then is (`Control`), which lives go with which states of a waitx
  (`WaitStates`), that timers belong to those who wait (`TimersMatch`,
  `TimedOutMatch`), that the batches are empty outside their stretch of the loop
  (`LocalLists`), and how the loop ends (`LoopEnds`);
* `TasksStayInOrder`: every step is a step of the two mailboxes, or none. This is
  the safety half of `TasksAreDelivered`.

`SyncProofs` assumes `SyncAssumption` (coroutines, threads and markers are
apart, and there are finitely many threads and workers) and proves

* `TheLockIsHandedOver`: `LockHandedOver`. Mutual exclusion and the exactness of
  the queue need each other, and that a coroutine that was given the lock is
  suspended, that the lock is given once - by one `unlock` under way, in the
  ready tasks or by `_lock = 2` - and that an `unlock` that wakes nobody took
  nobody from the queue;
* `TheQueueIsFair`: coroutines get the lock in the order in which they queued.
  No property states it for threads, which share one condition variable;
* `SyncEventIsEvent`: every step of `sync_event` is one of `Event` with no
  coroutine. The invariant `ThreadsInv` says that what `Event` keeps for
  coroutines stays empty, and that the threads counted do not exceed `_wt`;
* `TheEventServes` and `NoWaitxIsLost`: `WaitersServed` and `WaitxOwned`, from
  `EventInv` of `EventLemmas`: the lists that `signal` walks hold a waitx at most
  once (`ListsInv`), a waitx is listed exactly while it waits or has timed out
  (`ObjectsInv`), and who waits owns a waitx that names it (`CoroutinesInv`).
  The last is false when a coroutine reuses another's waitx, the defect of
  section 5, so both theorems assume `NoReuse`: no coroutine waits with a timeout,
  or only one waits. `mc_event_reuse` is the counterexample without it;
* `TheGroupIsReleased`: `GroupReleased`. `GroupInv` adds to `EventInv` that the
  counter is the number of workers at work, that at most one of them is between
  its decrement and its signal, and that until then nothing has been signaled
  (`Quiet`);
* `TheBlocksAreAQueue`, about `MutexQueue`: `IsMailbox`, for blocks of any
  positive size `N`. The invariant `QueueInv` says that all blocks but the last
  are full, all but the first unread, that the front block has more to read
  unless it is alone, and that it keeps the number of entries. They then lie in
  a row, in which the block and the place of an entry are quotient and remainder
  by `N` (`Contents`); appending, dropping the front block and starting it anew are
  one lemma each about that row;
* `ManagerStops`, about `SchedManager`: `StopsInOrder`, for any number of
  schedulers and threads. Its hypothesis `ManTame` says what
  the constants are (there is a processor, `Main` is a thread, a thread is not a
  scheduler's number) and that `ManLiberties` is empty, as in the passing run.
  The invariant `ManInv` adds who runs each scheduler - its own thread or
  main(), from the time the manager is made until the scheduler has ended
  (`Runners`) -, that one thread at a time stops them, from outside, and main()
  only after its loop has ended, or at exit (`OneStops`), and that whoever was
  told to stop is gone or waited for (`Told`). `StopCanReturn` needs the first
  two, `StopIsComplete` the last.

`ChanProofs` assumes `ChanAssumption` (a positive capacity; `Raw` is no object)
and proves `TheChannelIsSound`: `ChanInv` is inductive. From it follow
`ObjectsGoInOrder` (`Fifo`), `DoneIsTrue` (`DoneVerdict`), `NobodyWaitsInVain`
(`WaitersExact`) and, as an action property, `StacksAreLeftAlone`
(`StacksUntouched`). Its parts are

* `PlacesInv`: the blocks of the ring that hold an object are those from `_rx` to
  `_wx`, and `_full` tells a full ring from an empty one;
* `QueueInv`: an operation is in `_wq` once, and unanswered; readers are there
  only while the ring is empty, writers only while it is full;
* `WaitxInv`, `PhaseInv`: which states of a waitx, which places of its actor and
  which answers of `done()` go together;
* `WritersInv`: a write is served exactly if its object entered the channel, and
  the copy behind its waitx exists while it is queued and its stack is shared;
* `ReadersInv`: a read is served exactly if it has an object, and where that is;
* `HoldersInv`: an object that left the ring is with exactly one reader;
* `OrderInv`: what was accepted is what was delivered, then the ring.

Actions share their proofs through what they do to the waiters: `Serving(P, F, d)`
says that the waiters `P` left the queue, of which those in `F` were answered
`d` and the others had timed out, and each part of the invariant has a lemma
about it.

`IoEventProofs` assumes `IoAssumption` (the marker is no coroutine, and there is a
socket) and proves, for any schedulers, coroutines and sockets, `RegistrationsHold`,
`NoMissedEventHolds` and, as an action property, `ConnectVerdictHolds`. All three
have the hypothesis `Disciplined`: a direction of a socket has one user at a time
and nobody closes a socket in use, which is what the passing run `mc_io_event`
assumes too; `mc_io_event_reuse` is the counterexample to the last without it.
The inductive invariant `Inv` says in addition

* where control is: a coroutine that runs is the one its scheduler is in
  (`Placed`);
* the discipline, as the state shows it (`Exclusive`, `Opened`): a socket stays
  open during calls, and reports nothing before it is connected. `Registrations`
  needs this, since `close` forgets whatever is registered;
* what is registered, exactly (`Exact`): an epoll is interested in a direction
  if and only if the SockCtx names a coroutine of that scheduler for it, and
  has nothing in its ready list of a socket it is not interested in;
* that no event is older than its socket (`DueWait`, `BatchFresh`, `Asks`): one of
  the batch is about a socket somebody has been waiting for ever since, which
  was connected or refused before. So an event never reaches a later use of the
  descriptor, and `SO_ERROR` is asked of a connection that was tried;
* the edges (`NoEdgeLost`): stronger than `NoMissedEvent`, an error is in front of
  everyone who is registered alone in its epoll, also when others wait for the
  same socket in other schedulers.

The twenty-six actions are shown to be of eleven kinds of steps (`StepKinds`), such as
`LeaveStep` - a call ends and removes its registration - and every part of the
invariant is proved once for each kind. That is where the discipline is used:
`DelEv` clears an interest only for the caller's own registration, and `close`,
`shutdown` and `socket` change only what no call uses (`IdleStep`).

`HookProofs` assumes `HookAssumption` (coroutines and threads are apart, the marker
is neither) and proves `TypeCorrect` and, for programs that take no liberties
(`Tame`: `Liberties = {}`, as in the passing run `mc_hook`), `NeverInTheKernel`
(`SchedulerNotBlocked`), `ContextsStayExact` (`ContextsExact`) and, as an action
property, `ModesSeen` (`ModesKept`). What the hooks must not lose track of is
O_NONBLOCK of a description that several descriptors share, one HookCtx each,
and the inductive invariant `Inv` says how that is kept:

* every HookCtx is truthful (`Contexts`): `nb` is set exactly where the program
  asked for it, as far as the description is a socket's, a mark only where the
  description is non-blocking, and a HookCtx is blank only of a descriptor
  that is free, not hooked, or shut down in both directions;
* a call inside the hooks is on a description that is non-blocking and that the
  program believes to block; a direct call of a coroutine is on one that the
  program made non-blocking (`Placed`, `Modes`);
* no descriptor of a description is marked while `connect` works on it, which
  clears O_NONBLOCK at its end (`Marks`), and nobody else uses it then
  (`Apart`): without either, `Restore` would take the mode away from a call between `nb_mark`
  and its system call;
* who is registered is in a call that waits for just that (`Registered`), so
  `poll`, which removes both directions, removes only its own.

What a program does to its descriptors is one lemma about calls
(`CallsLeftAlone`, `CallsKept`), what a call does to the others another
(`OthersLeftAlone`, `CallsStay`), and each action is shown to be of one of the
two kinds.

It also proves, from `TimersAssumption` (a word of more than 3 values, some
milliseconds to a second, the marker is no sleeper) and for any sleepers, delays
and clock readings, what the timers promise:

* `IteratorsStayValid`: `TimersSpec => []IteratorsValid`, without a hypothesis.
  The invariant (`Typed`, `Listed`, `Napping`) adds who may be in the map: a
  coroutine that sleeps, or one that is in a wait or was just woken from it and
  can be found by `co->it`. So `check_timeout` and a wake-up never both erase an
  entry, and no hint outlives its entry. `emplace_hint` and `erase` on the ordered
  map are `Insert` and `Remove` of a sequence; that they keep the order, and what
  they do to the set of entries, are the lemmas before it.
* `SleepsAreLongEnough`: `NoWrap => (TimersSpec => SleepsLongEnough)`. `NoWrap` says
  that a number of seconds times 1000 fits 32 bits, which `sleep()` does not check
  (hook.cc:953). The invariant is `LongEnough`: an entry's deadline plus
  what `poll` has left to wait after it is never before the time the caller asked
  for.
* `TimersAreSound`: `ShortDelays => (TimersSpec => []TimersSound)`. `ShortDelays` says
  that no time in milliseconds exceeds what an `int` holds, since `epoll_wait`
  takes one, and that the longest nap is a power of two. `LoopWakesInTime` is not
  inductive: it speaks of a loop that waits. `InTime` says of every entry that
  `_wait_ms`, counted from the last look at the clock, ends before it - also
  while coroutines run and add timers - and `LooksSoon` that a nap is as long as
  its deadline is away, at most `Cap`.

One lemma for each action shows what it does to the entries, and that each part
of the invariant survives it (`SleepStep`, `NapStep`, `TimedOutStep` and the
others); `TimerFacts` is their conjunction.

`MemoryProofs` assumes `BlockAssumption` (sizes and alignments are positive,
`_p` is aligned to a cache line, and every alignment up to that divides it) and
`SharedAssumption` (finitely many pointers, each of a thread; a derived class is
no smaller than its base). It proves, for every block and word size,

* `BlockTypeCorrect`: `Spec => []TypeOK`;
* `BitmapsAreExact`: `Spec => []BitsExact`. The inductive invariant `IInv` adds
  to `TypeOK`, `Marks` and `Apart` what the owner knows inside `try_hard_alloc`
  (`Asking`, `Loaded`: it asks for a size, and what it has loaded from `_xbs` is
  something only between the load and the clear) and that an object has the
  units that were asked for it (`Enough`), without which `realloc` could not be
  trusted with the size its caller names. The heart is that lowering `_bit`
  passes over no object: `Lowered` of what remains.
* `BlockIsArena`: `Spec => ImplementsArena`. Every `alloc` is the arena's, by
  `HandOutIsAlloc` and the arithmetic of alignment (`StartIsAligned`); `realloc`
  is its growth, a `free` by either side is its free, and collecting changes
  nothing there.

and, for any pointers, threads and objects,

* `ObjectsAreOwned`: `OneLayout /\ FewReferences => (SharedSpec => []SharedOwnership)`.
  The inductive invariant `SharedInv` says that the count of an object is the
  number of pointers to it and of threads that are about to decrement it
  (`Counted`), that nothing but the count changes (`Kept`), and that a reference
  is given up at the word where it was counted (`DropsAtCount`). A cardinality
  that one step changes in two entries is followed entry by entry (`AtChanged`,
  `PointedTwo`). `OneLayout` - a pointer to the base class looks for the count
  where one to the derived class does - is what the code lacks: its failure is
  the defect of section 5, which `mc_shared_base` finds. `FewReferences` keeps
  the 32-bit count from overflowing.

and, for any coroutines, stacks and buffers, from `StackAssumption` (every
coroutine has a stack, the markers are not among the sets),

* `FramesAreKept`: the conjunction of `StackTypes`, `OwnerIsLive`,
  `BuffersHaveOneHolder` and `FrameIntegrity` is inductive. The last needs the
  others: a frame survives in a buffer only if nobody else holds the buffer,
  and on a stack only if the recorded owner is a coroutine that is alive.
* `ImplementsPrivateStacks`: `StackSpec => SharingIsInvisible`, by reading what
  each coroutine would find (`PrivateFrame`) out of its stack or its buffer
  (`FramesRead`, `RunningRead`), and one case per action.

and, for any threads, any blocks the system gives, any number of units and any
depth of the searches, from `AllocAssumption` (the owner of no block is no
thread, blocks have parts, and an address is not a slot of a huge block),

* `AllocSpecAccounts`: `AllocSpec => []BlocksAccounted`. The inductive invariant
  `HeapInv` says level by level who has what. A huge block that is not in the
  list of `GlobalAlloc` has all its slots free (`HugeListed`); a large block has
  its bit set exactly while it is in a list, in one only, and is whole unless
  that is `_llb` (`LargeListed`); a small block is in `_lsa` of a thread exactly
  while its bit is set in a large block of that thread (`SmallListed`); a block
  that serves knows its thread, and any other is blank (`OwnersKnown`); its
  bits are below `_bit` and its objects begin at bits that nobody has freed and
  end before the next one (`SoundBlocks`); and every block behind the front has
  a bit (`Busy`). `BlocksAccounted` alone is not inductive: `free` decides by a
  block's own bitmap and `_ta` whether it goes back, so that these tell the
  truth has to be known before, and a large block may only be decommitted
  because each of its small blocks is blank by then. What a search, `push_front`
  and `erase` do to a list is stated once (`ReorderedIs`, `PushedIs`,
  `DroppedIs`), and so is what a step does to the lists of all threads
  (`Moved`).

and, for any sizes of blocks, destructors and objects and any number of classes,
from `StaticAssumption` (a destructor fits a block, and an object with its
alignment does),

* `StaticObjectsAreKept`: `StaticSpec => []StaticObjectsKept`. The inductive
  invariant `StaticInv` says of each class that `_p` is behind a whole number of
  destructors (`Counts`) and that destructors lie exactly where the loops of
  `~Dealloc` look for them (`AsLooked`), which needs that a block is left only
  when it has no room for one more, so that its size alone tells how many it
  has (`AllocPiece`); that those of a class lie in the order in which they were
  added (`InOrder`); and that the ones that have run are the ones the loops are
  past (`RanExactly`). `Laid` is the same for objects of any size and alignment.

Only model-checked:

* liveness under fairness, which is beyond the prover: `WaitsEnd` and the
  fairness of `TasksAreDelivered` in `Sched`, `WaitersReturn` in `Sync`,
  `ServedReturn` in `Chan`, `ReadySocketsWake` in `IoEvent`;
* what recursive definitions compute (`Text`);
* the parts in `MCParts` but for the shared stacks, the mutex's queue, the
  manager and the timers.

## 7. Not modelled, and the plan

Not modelled: values that no property tells apart (the bytes of messages, error
texts, addresses and options of sockets), reference counts
of the handles, memory orders weaker than sequential consistency; the context
switch for iOS on 32-bit ARM and for Microsoft's assemblers; of Detours the
copiers for Thumb and IA-64, the transaction as built for other processors than
x64, and what the library does not use (images, modules, processes); fishhook; the
digit generation of `dtoa`; `table`; random numbers, hashing, closures, time and
messages; and the build files. PROJECT.json gives the reason for each.

Next, in this order:

1. Proofs about the parts: `PopIsFresh` of `CoPool` for at most 2N + 1
   coroutines, `ElementsAccounted` of `Pool`, `InfoOwned` of `Overlapped`.
2. Models: the copier for Thumb, and the transaction on ARM64.
