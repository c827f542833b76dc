----------------------------- MODULE StaticMem -----------------------------
(***************************************************************************)
(* Static objects (mem/src/mem.cc, mem.h): MemBlocks hands out pieces of   *)
(* blocks of a fixed size one behind the other, and never takes any back.  *)
(* StaticAlloc makes objects in them, and Dealloc keeps the destructors,   *)
(* which run when the program ends: those of the classes of Root::_dx from *)
(* the last to the first, each class backwards.                            *)
(***************************************************************************)
EXTENDS Integers, Sequences

CONSTANTS
    BlkSize,   \* _blk_size, and all sizes, in units of a pointer
    FSize,     \* sizeof(F), a destructor
    Classes,   \* the entries of _dx: 1 to Classes
    CacheLine, \* cache_line_size
    ObjSize,   \* bound: the sizes of objects
    Places,    \* bound: where malloc places blocks
    MaxObj     \* bound: objects and destructors

\* _salloc() asserts that an object takes a quarter of a block at most.
ASSUME StaticAssumption ==
    /\ BlkSize \in Nat /\ FSize \in 1..BlkSize /\ Classes \in Nat /\ CacheLine \in Nat \ {0}
    /\ Places \subseteq Nat /\ MaxObj \in Nat
    /\ ObjSize \subseteq 1..BlkSize /\ \A n \in ObjSize : n + 2 * CacheLine <= BlkSize

VARIABLES
    sa,   \* the MemBlocks of StaticAlloc
    dx,   \* those of the destructors of each class
    made, \* history: where the destructors lie, in the order of add_destructor
    ran,  \* history: those that have run, as <<class, block, position>>
    turn  \* the loops of ~Dealloc: the class, its i, and its x

staticVars == <<sa, dx, made, ran, turn>>

NoBlocks == [blk |-> <<>>, p |-> 0, objs |-> <<>>]

StaticInit ==
    /\ sa = NoBlocks
    /\ dx = [k \in 1..Classes |-> NoBlocks]
    /\ made = <<>> /\ ran = <<>>
    /\ turn = [class |-> Classes + 1, i |-> 0, x |-> 0]

RoundUp(n, a) == ((n + a - 1) \div a) * a

\* A bug: a new block is used from where it starts.
StartUnaligned(x, a) == x

\* Where the first piece of a block lies that malloc has placed at x.
Start(x, a) == RoundUp(x, a)

\* MemBlocks::alloc(n, align), where malloc would place a block at new.
MemAlloc(m, n, a, new) ==
    LET x == IF m.blk = <<>> THEN new ELSE m.blk[Len(m.blk)]
        p == RoundUp(x + m.p, a)
        l == RoundUp(n, a)
        fits == p + l <= x + BlkSize
        y == IF fits THEN x ELSE new
        q == IF fits THEN p ELSE Start(new, a)
        blks == IF m.blk = <<>> \/ ~fits THEN Append(m.blk, y) ELSE m.blk
    IN  [blk |-> blks, p |-> q - y + l,
         objs |-> Append(m.objs, [blk |-> Len(blks), at |-> q - y, n |-> n, a |-> a])]

Open == turn.class = Classes + 1 /\ Len(sa.objs) + Len(made) < MaxObj

\* StaticAlloc::alloc, of _salloc(n): an object.
SAlloc(n) ==
    /\ Open
    /\ \E new \in Places : sa' = MemAlloc(sa, n, IF 2 * n <= CacheLine THEN 1 ELSE CacheLine, new)
    /\ UNCHANGED <<dx, made, ran, turn>>

\* Dealloc::add_destructor in class k.
AddDestructor(k) ==
    /\ Open
    /\ \E new \in Places :
          LET m == MemAlloc(dx[k], FSize, 1, new) IN
          /\ dx' = [dx EXCEPT ![k] = m]
          /\ made' = Append(made, <<k, Len(m.blk), m.p - FSize>>)
    /\ UNCHANGED <<sa, ran, turn>>

\* A bug: every block is taken for the last one.
LastHolds(k, i) == dx[k].p \div FSize

\* The destructors in block i of class k: those before _p in the last one.
Holds(k, i) == (IF i = Len(dx[k].blk) THEN dx[k].p ELSE BlkSize) \div FSize

InBlock(k, i) == [class |-> k, i |-> i, x |-> IF i = 0 THEN 0 ELSE Holds(k, i)]

\* ~Dealloc: the destructor in front of x runs.
RunOne ==
    /\ turn.x > 0
    /\ ran' = Append(ran, <<turn.class, turn.i, (turn.x - 1) * FSize>>)
    /\ turn' = [turn EXCEPT !.x = @ - 1]
    /\ UNCHANGED <<sa, dx, made>>

\* ~Dealloc goes on with the block before.
BlockBefore ==
    /\ turn.x = 0 /\ turn.i > 1
    /\ turn' = InBlock(turn.class, turn.i - 1)
    /\ UNCHANGED <<sa, dx, made, ran>>

\* ~Root: the program ends, or a class is done, and the one before is next.
ClassBefore ==
    /\ turn.x = 0 /\ turn.i <= 1 /\ turn.class > 0
    /\ LET k == turn.class - 1
       IN  turn' = InBlock(k, IF k = 0 THEN 0 ELSE Len(dx[k].blk))
    /\ UNCHANGED <<sa, dx, made, ran>>

StaticNext ==
    \/ \E n \in ObjSize : SAlloc(n)
    \/ \E k \in 1..Classes : AddDestructor(k)
    \/ RunOne \/ BlockBefore \/ ClassBefore

StaticSpec == StaticInit /\ [][StaticNext]_staticVars

-----------------------------------------------------------------------------
\* Static objects lie in their blocks, aligned to a cache line if they are large
\* ones, and apart.
ObjectsPlaced ==
    \A j \in 1..Len(sa.objs) :
       LET o == sa.objs[j] IN
       /\ (sa.blk[o.blk] + o.at) % o.a = 0 /\ o.at + o.n <= BlkSize
       /\ \A h \in 1..j - 1 :
             LET u == sa.objs[h] IN u.blk = o.blk => u.at + u.n <= o.at

\* Only destructors that were added run, none of them twice: after those of the
\* same class that were added behind it, and after those of later classes.  In
\* the end all have run.
DestroyedInReverse ==
    /\ \A n \in 1..Len(ran) : \E j \in 1..Len(made) : ran[n] = made[j]
    /\ \A n \in 1..Len(ran), m \in 1..Len(ran), j \in 1..Len(made), h \in 1..Len(made) :
          m < n /\ ran[m] = made[h] /\ ran[n] = made[j] =>
             made[h][1] > made[j][1] \/ (made[h][1] = made[j][1] /\ h > j)
    /\ turn.class = 0 => \A j \in 1..Len(made) : \E n \in 1..Len(ran) : ran[n] = made[j]

\* Static objects (MemBlocks, StaticAlloc, Dealloc and Root in mem/src/mem.cc) lie
\* apart, and are destroyed in reverse order.
StaticObjectsKept == ObjectsPlaced /\ DestroyedInReverse
=============================================================================
