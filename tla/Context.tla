------------------------------- MODULE Context -------------------------------
(***************************************************************************)
(* The context switch: tb_context_make and tb_context_jump for each        *)
(* processor and calling convention (co/src/context/context_*.S), and how  *)
(* the scheduler uses them (Sched::resume, yield, main_func).  Memory      *)
(* is counted in words from the bottom of a stack.                         *)
(***************************************************************************)
EXTENDS Naturals, Sequences, TLC

CONSTANTS
    Routine, Loop,  \* coroutines, and the main coroutine of their scheduler
    Abis,
    Sizes,          \* bound: the sizes of a stack
    CtxLiberties    \* what compilers and programs may do and the code does not
                    \* allow for: "float", a caller keeps a value in a
                    \* floating-point register that a callee has to preserve;
                    \* "arm_sp", a function relies on the alignment of its
                    \* stack on ARM; "home", it uses the home space of its
                    \* arguments on 64-bit Windows; "depths", the two calls
                    \* in resume() differ in the stack pointer; "odd_size",
                    \* any size of a stack on 32-bit Windows

VARIABLES
    abi, top,  \* the convention, and the size of the stacks
    mem,       \* each stack, and some words above it
    regs, sp, pc,
    runs,      \* the coroutine that runs, and since when: it was "entered" or
    since,     \* its jump "returned"; "start" is before the first jump
    context,   \* Coroutine::ctx
    back,      \* the local variable from.ctx of main_func
    base, callSp,  \* history: sp in main_func, and at the last jump
    turn,      \* history: the parity of the jumps of each coroutine
    from, sent \* what the last jump gave to the code it resumed, and should have

contextVars == <<abi, top, mem, regs, sp, pc, runs, since, context, back, base, callSp, turn, from, sent>>

AnyCo == Routine \cup {Loop}
Token(kind, x, y) == <<kind, x, y>>
Func == Token("main_func", 0, 0)
TheEnd == Token("__end", 0, 0)
Entry == Token("__entry", 0, 0)
Zero == Token("0", 0, 0)
Garbage == Token("junk", 0, 0)
Pointer(k, i) == Token("pointer", k, i)
Down(i, n) == i - (i % n)

-----------------------------------------------------------------------------
(***************************************************************************)
(* The conventions.  frame: what tb_context_jump leaves on the stack,      *)
(* lowest word first, "ret" being where the caller wants its result and    *)
(* "ip" where it goes on; pad: words of the frame that are not used;       *)
(* fp: the other registers a callee has to preserve; align: of a stack, in *)
(* words; pushed: whether the return address is on the stack.              *)
(***************************************************************************)
\* A bug: r14 is in the place of r15 as well.
X64Twice ==
    [frame |-> <<"r12", "r13", "r14", "r14", "rbx", "rbp", "ip">>, pad |-> 0,
     fp |-> {"mxcsr", "r15"}, align |-> 2, pushed |-> TRUE]

X64 ==
    [frame |-> <<"r12", "r13", "r14", "r15", "rbx", "rbp", "ip">>, pad |-> 0,
     fp |-> {"mxcsr"}, align |-> 2, pushed |-> TRUE]

X64Win ==
    [frame |-> <<"fiber", "dealloc", "limit", "base", "r12", "r13", "r14", "r15", "rdi", "rsi", "rbx",
                 "rbp", "ret", "ip">>, pad |-> 0,
     fp |-> {"mxcsr", "xmm6"}, align |-> 2, pushed |-> TRUE]

\* The callee removes the pointer to the result.
X86 ==
    [frame |-> <<"edi", "esi", "ebx", "ebp", "ip", "ret">>, pad |-> 0,
     fp |-> {"fpcw"}, align |-> 4, pushed |-> TRUE]

X86Mac ==
    [frame |-> <<"edi", "esi", "ebx", "ebp", "ip">>, pad |-> 0,
     fp |-> {"fpcw"}, align |-> 4, pushed |-> TRUE]

X86Win ==
    [frame |-> <<"fiber", "dealloc", "limit", "base", "seh", "edi", "esi", "ebx", "ebp", "ip">>, pad |-> 0,
     fp |-> {"fpcw"}, align |-> 1, pushed |-> TRUE]

Arm ==
    [frame |-> <<"ret", "r4", "r5", "r6", "r7", "r8", "r9", "r10", "r11", "lr", "ip">>, pad |-> 0,
     fp |-> {"d8"}, align |-> IF "arm_sp" \in CtxLiberties THEN 2 ELSE 1, pushed |-> FALSE]

Arm64 ==
    [frame |-> <<"x19", "x20", "x21", "x22", "x23", "x24", "x25", "x26", "x27", "x28", "fp", "lr", "ip">>,
     pad |-> 1, fp |-> {"d8"}, align |-> 2, pushed |-> FALSE]

Mips ==
    [frame |-> <<"s0", "s1", "s2", "s3", "s4", "s5", "s6", "s7", "fp", "ret", "lr", "ip", "gp">>,
     pad |-> 3, fp |-> {"f20"}, align |-> 2, pushed |-> FALSE]

Abi == CASE abi = "x64" -> X64 [] abi = "x64_win" -> X64Win
         [] abi = "x86" -> X86 [] abi = "x86_mac" -> X86Mac [] abi = "x86_win" -> X86Win
         [] abi = "arm" -> Arm [] abi = "arm64" -> Arm64 [] abi = "mips" -> Mips

InFrame == {Abi.frame[j] : j \in 1..Len(Abi.frame)}
Where(r) == CHOOSE j \in 1..Len(Abi.frame) : Abi.frame[j] = r
Depth == Len(Abi.frame) + Abi.pad
Tib == {"fiber", "dealloc", "limit", "base"}  \* what Windows keeps about a stack
Preserved ==
    (IF "float" \in CtxLiberties THEN Abi.fp ELSE {}) \cup
    CASE abi = "x64" -> {"rbx", "rbp", "r12", "r13", "r14", "r15"}
      [] abi = "x64_win" -> {"rbx", "rbp", "rdi", "rsi", "r12", "r13", "r14", "r15"} \cup Tib
      [] abi \in {"x86", "x86_mac"} -> {"ebx", "ebp", "edi", "esi"}
      [] abi = "x86_win" -> {"ebx", "ebp", "edi", "esi", "seh"} \cup Tib
      [] abi = "arm" -> {"r4", "r5", "r6", "r7", "r8", "r9", "r10", "r11"}
      [] abi = "arm64" -> {"x19", "x20", "x21", "x22", "x23", "x24", "x25", "x26", "x27", "x28", "fp"}
      [] abi = "mips" -> {"s0", "s1", "s2", "s3", "s4", "s5", "s6", "s7", "fp", "gp"}

\* tb_context_make on a stack of k: where the context is, and what its words are.
X64Made(k, n) ==
    [at |-> Down(n, 2) - 7, words |-> 4 :> Func @@ 5 :> TheEnd @@ 6 :> Entry]

X64WinMade(k, n) ==
    LET at == Down(n - 4, 2) - 14
    IN  [at |-> at,
         words |-> 0 :> Zero @@ 1 :> Pointer(k, 0) @@ 2 :> Pointer(k, 0) @@ 3 :> Pointer(k, n)
                   @@ 10 :> Func @@ 11 :> TheEnd @@ 12 :> Pointer(k, at + 16) @@ 13 :> Entry]

X86Made(k, n) ==
    LET at == Down(n - 2, 4) - 6
    IN  [at |-> at, words |-> 2 :> Func @@ 3 :> TheEnd @@ 4 :> Entry @@ 5 :> Pointer(k, at)]

X86MacMade(k, n) ==
    [at |-> Down(n - 2, 4) - 5, words |-> 2 :> Func @@ 3 :> TheEnd @@ 4 :> Entry]

X86WinMade(k, n) ==
    LET at == Down(n - 5, 4) - 10
    IN  [at |-> at,
         words |-> 0 :> Zero @@ 1 :> Pointer(k, 0) @@ 2 :> Pointer(k, 0) @@ 3 :> Pointer(k, n)
                   @@ 4 :> Pointer(k, at + 14) @@ 7 :> Func @@ 8 :> TheEnd @@ 9 :> Entry
                   @@ 14 :> Token("last", 0, 0) @@ 15 :> Token("handler", 0, 0)]

ArmMade(k, n) ==
    LET at == Down(n, 4) - 16
    IN  [at |-> at, words |-> 0 :> Pointer(k, at + 11) @@ 9 :> TheEnd @@ 10 :> Func]

Arm64Made(k, n) ==
    [at |-> Down(n, 2) - 14, words |-> 11 :> TheEnd @@ 12 :> Func]

MipsMade(k, n) ==
    LET at == Down(n - 8, 4) - 16
    IN  [at |-> at, words |-> 9 :> Pointer(k, at + 13) @@ 10 :> TheEnd @@ 11 :> Func @@ 12 :> Token("gp", 0, 0)]

Made(k) == CASE abi = "x64" -> X64Made(k, top) [] abi = "x64_win" -> X64WinMade(k, top)
             [] abi = "x86" -> X86Made(k, top) [] abi = "x86_mac" -> X86MacMade(k, top)
             [] abi = "x86_win" -> X86WinMade(k, top) [] abi = "arm" -> ArmMade(k, top)
             [] abi = "arm64" -> Arm64Made(k, top) [] abi = "mips" -> MipsMade(k, top)

\* Words w at position i of k's stack in m.
Put(m, k, i, w) == [m EXCEPT ![k] = [j \in DOMAIN @ |-> IF j - i \in DOMAIN w THEN w[j - i] ELSE @[j]]]

\* What is below the stack pointer may be overwritten.
Forget(m, k, i) == [m EXCEPT ![k] = [j \in DOMAIN @ |-> IF j < i THEN Garbage ELSE @[j]]]

-----------------------------------------------------------------------------
Registers == InFrame \cup Abi.fp

ContextInit ==
    /\ abi \in Abis /\ top \in Sizes
    /\ "odd_size" \in CtxLiberties \/ abi # "x86_win" \/ top % 4 # 1
    /\ mem = [k \in AnyCo |-> [i \in 0..top + 3 |-> Garbage]]
    /\ regs = [r \in Registers |-> Garbage] /\ sp = top /\ pc = Func
    /\ runs = Loop /\ since = "start"
    /\ context = [k \in AnyCo |-> Zero]
    /\ back = [k \in Routine |-> Zero]
    /\ base = [k \in AnyCo |-> top - 4] /\ callSp = [k \in AnyCo |-> top - 4]
    /\ turn = [k \in AnyCo |-> 0]
    /\ from = <<Zero, Zero>> /\ sent = <<Zero, Zero>>

\* What the code of k has in a register when it jumps, and where it goes on.
Holds(k, r) == Token(r, k, turn'[k])
GoesOn(k) == Token("after", k, turn'[k])

\* tb_context_jump(to, priv) from the stack pointer d: a function that it
\* enters has its return address pushed and its arguments on the stack by the
\* code at __entry, on the processors that need it, and may use its home space.
Jump(m, to, priv, d) ==
    LET k == runs
        old == d - Depth
        slot(r) == CASE r \in {"ip", "lr"} -> GoesOn(k) [] r = "ret" -> Pointer(k, d) [] OTHER -> Holds(k, r)
        saved == Put(m, k, old, [j \in 0..Len(Abi.frame) - 1 |-> slot(Abi.frame[j + 1])])
        t == to[2]
        i == to[3]
        now == [r \in Registers |-> IF r \in InFrame THEN saved[t][i + Where(r) - 1] ELSE Holds(k, r)]
        pair == 0 :> Pointer(k, old) @@ 1 :> priv
        told == IF "ret" \in InFrame THEN Put(saved, now["ret"][2], now["ret"][3], pair) ELSE saved
        s == i + Depth
        enters == now["ip"] = Entry
        ready == CASE enters /\ abi \in {"x86", "x86_mac", "x86_win"} -> Put(told, t, s, pair)
                   [] enters /\ abi = "x64_win" /\ "home" \in CtxLiberties ->
                         Put(told, t, s, [j \in 0..3 |-> Garbage])
                   [] OTHER -> told
        link == IF "rbp" \in InFrame THEN now["rbp"] ELSE now["ebp"]
        first == IF "rbx" \in InFrame THEN now["rbx"] ELSE now["ebx"]
        final == IF enters THEN Put(ready, t, s - 1, 0 :> link) ELSE ready
        \* where the code finds the result, or its argument
        place == CASE enters /\ abi \in {"x86", "x86_mac", "x86_win"} -> s
                   [] now["ip"] # Func /\ "ret" \in InFrame -> now["ret"][3]
                   [] OTHER -> top + 4
    IN  /\ sp' = IF enters THEN s - 1 ELSE s
        /\ mem' = Forget(final, t, sp')
        /\ regs' = now
        /\ pc' = IF enters THEN first ELSE now["ip"]
        /\ from' = IF place \in DOMAIN final[t] THEN <<final[t][place], final[t][place + 1]>>
                   ELSE <<pair[0], pair[1]>>
        /\ sent' = <<pair[0], pair[1]>>
        /\ runs' = t
        /\ since' = IF pc' = Func THEN "entered" ELSE "returned"
        /\ callSp' = [callSp EXCEPT ![k] = d]
        /\ base' = IF pc' = Func THEN [base EXCEPT ![t] = sp'] ELSE base
        /\ UNCHANGED <<abi, top>>

Turns(k) == turn' = [turn EXCEPT ![k] = 1 - @]
Priv(k) == Token("Coroutine", k, 0)

\* Sched::resume of a new coroutine, up to the call of its function in main_func
\* or ...
ResumeNew(k) ==
    /\ runs = Loop /\ context[k] = Zero
    /\ Turns(Loop)
    /\ LET made == Made(k) IN
       Jump(Put(mem, k, made.at, made.words), Pointer(k, made.at), Priv(Loop), base[Loop])
    /\ back' = [back EXCEPT ![k] = from'[1]]
    /\ context' = [context EXCEPT ![k] = Pointer(k, Made(k).at), ![Loop] = from'[1]]

\* ... of one that has yielded.
ResumeOld(k) ==
    /\ runs = Loop /\ context[k] # Zero
    /\ Turns(Loop)
    /\ Jump(mem, context[k], Priv(Loop), IF "depths" \in CtxLiberties THEN base[Loop] - 2 ELSE base[Loop])
    /\ UNCHANGED <<back, context>>

\* Sched::yield(), called from main_func or from deeper.
Yield(k, d) ==
    /\ runs = k
    /\ Turns(k)
    /\ Jump(mem, context[Loop], Priv(k), base[k] - d)
    /\ context' = [context EXCEPT ![k] = from'[1]]
    /\ UNCHANGED back

\* The end of main_func; the coroutine is recycled.
Finish(k) ==
    /\ runs = k
    /\ Turns(k)
    /\ Jump(mem, back[k], Zero, base[k] - 4)
    /\ context' = [context EXCEPT ![k] = Zero]
    /\ UNCHANGED back

ContextNext ==
    \E k \in Routine :
       \/ ResumeNew(k) \/ ResumeOld(k) \/ Finish(k)
       \/ \E d \in {4, 8} : Yield(k, d)

ContextSpec == ContextInit /\ [][ContextNext]_contextVars

-----------------------------------------------------------------------------
\* A function that is entered has the arguments and the stack the convention
\* gives it, and returns to __end; Windows is told which stack it runs on.
EnteredRight ==
    since = "entered" =>
       /\ pc = Func
       /\ (IF Abi.pushed THEN mem[runs][sp] ELSE regs["lr"]) = TheEnd
       /\ (IF Abi.pushed THEN sp + 1 ELSE sp) % Abi.align = 0
       /\ "base" \in InFrame => regs["base"] = Pointer(runs, top) /\ regs["limit"] = Pointer(runs, 0)

\* A jump that returns does so as a call does: to its caller, with the stack and
\* the registers of the caller as they were.
ReturnedRight ==
    since = "returned" =>
       /\ pc = Token("after", runs, turn[runs])
       /\ sp = callSp[runs]
       /\ \A r \in Preserved : regs[r] = Token(r, runs, turn[runs])

\* What a jump passes on arrives, and nothing above a stack is written.
SwitchKeepsAll ==
    /\ EnteredRight /\ ReturnedRight
    /\ from = sent
    /\ \A k \in AnyCo : \A i \in top..top + 3 : mem[k][i] = Garbage
=============================================================================
