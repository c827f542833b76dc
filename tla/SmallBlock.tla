----------------------------- MODULE SmallBlock -----------------------------
(***************************************************************************)
(* One small block (32K) of a thread-local allocator, SmallAlloc in        *)
(* mem/src/mem.cc; a large block, LargeAlloc, is the same without the      *)
(* aligned alloc.  The thread that owns the block carves objects off at    *)
(* _bit and marks the first unit of each in a bitmap, _bs.  Freeing the    *)
(* last object moves _bit back.  Other threads free objects by setting a   *)
(* bit in _xbs, at any time; the owner collects those, a word at a time,   *)
(* when an allocation does not fit in the first block of its list.         *)
(*                                                                         *)
(* The bitmaps are sets of units.  The words of _xbs are accessed by       *)
(* relaxed atomics, here one step each, sequentially consistent.           *)
(***************************************************************************)
EXTENDS Integers

CONSTANTS
    MaxBit,   \* units that can be handed out
    B,        \* bits in a word of the bitmaps
    Base,     \* the address of _p, in units
    Line,     \* a cache line, in units
    Size,     \* the sizes that are asked for, in units
    Align     \* the alignments that are asked for, in units

\* Blocks are aligned to 32K, and _p to a cache line.
ASSUME BlockAssumption ==
    /\ MaxBit \in Nat /\ B \in Nat \ {0} /\ Base \in Nat /\ Line \in Nat \ {0}
    /\ Size \subseteq Nat \ {0} /\ Align \subseteq Nat \ {0}
    /\ \A a \in Align : Base % Line = 0 /\ (a <= Line => Line % a = 0)

VARIABLES
    bit,      \* _bit
    bs, xbs,  \* _bs, _xbs
    pc,       \* where the owner is in try_hard_alloc()
    word, x,  \* its i and x
    want,     \* its n
    len, aln, \* history: the units an object takes, and its alignment
    asked,    \* history: the units that were asked for it
    live      \* history: the objects in use

localVars == <<pc, word, x, want>>
histVars == <<len, aln, asked, live>>
vars == <<bit, bs, xbs, localVars, histVars>>

Unit == 0..MaxBit - 1

Init ==
    /\ bit = 0 /\ bs = {} /\ xbs = {}
    /\ pc = "out" /\ word = 0 /\ x = {} /\ want = 0
    /\ len = [i \in Unit |-> 0] /\ aln = [i \in Unit |-> 1]
    /\ asked = [i \in Unit |-> 0]
    /\ live = {}

AlignUp(n, a) == ((n + a - 1) \div a) * a

\* n units at i, for m of them asked with alignment a.
HandOut(i, n, m, a) ==
    /\ i + n <= MaxBit
    /\ bs' = bs \cup {i}
    /\ bit' = i + n
    /\ live' = live \cup {i}
    /\ len' = [len EXCEPT ![i] = n] /\ asked' = [asked EXCEPT ![i] = m]
    /\ aln' = [aln EXCEPT ![i] = a]

\* alloc(n)
Alloc(n) ==
    /\ pc = "out"
    /\ HandOut(bit, n, n, 1)
    /\ UNCHANGED <<xbs, localVars>>

\* alloc(n, a): up to a cache line, _p is aligned.
AllocAligned(n, a) ==
    /\ pc = "out"
    /\ HandOut(AlignUp(bit, a) + (IF a <= Line THEN 0 ELSE AlignUp(Base, a) - Base),
               AlignUp(n, a), n, a)
    /\ UNCHANGED <<xbs, localVars>>

\* What is left of an object that is free.
Forgotten(S) ==
    /\ len' = [j \in Unit |-> IF j \in S THEN 0 ELSE len[j]]
    /\ asked' = [j \in Unit |-> IF j \in S THEN 0 ELSE asked[j]]
    /\ aln' = [j \in Unit |-> IF j \in S THEN 1 ELSE aln[j]]

\* A bug: a block that becomes empty does not start over.
LoweredToHole(rest, i) == IF \E r \in rest : r >= i THEN bit ELSE i

\* _bit when everything from unit i on was freed, and objects below may remain.
Lowered(rest, i) ==
    IF \E r \in rest : r >= i THEN bit ELSE IF rest = {} THEN 0 ELSE i

\* free(), by the owner.
Free(i) ==
    /\ pc = "out"
    /\ i \in live
    /\ bs' = bs \ {i}
    /\ bit' = Lowered(bs \ {i}, i)
    /\ live' = live \ {i} /\ Forgotten({i})
    /\ UNCHANGED <<xbs, localVars>>

\* xfree(), by any other thread.
XFree(i) ==
    /\ i \in live
    /\ xbs' = xbs \cup {i}
    /\ live' = live \ {i}
    /\ UNCHANGED <<bit, bs, localVars, len, aln, asked>>

\* realloc(), by the owner: the object at the end grows in place.
Realloc(i, n) ==
    /\ pc = "out"
    /\ i \in live
    /\ n > asked[i]
    /\ bit = i + asked[i] /\ i + n <= MaxBit
    /\ bit' = i + n
    /\ len' = [len EXCEPT ![i] = n] /\ asked' = [asked EXCEPT ![i] = n]
    /\ UNCHANGED <<bs, xbs, localVars, aln, live>>

WordOf(i) == i \div B

\* try_hard_alloc(): find the last word of _bs with a bit.  The owner calls it
\* for blocks behind the first of its list, which are not empty.
TryHard(n) ==
    /\ pc = "out"
    /\ bs # {}
    /\ \E i \in bs : (\A j \in bs : WordOf(j) <= WordOf(i)) /\ word' = WordOf(i)
    /\ want' = n
    /\ pc' = "first"
    /\ UNCHANGED <<bit, bs, xbs, x, histVars>>

\* Load a word of _xbs.  If nothing is there the first time, give up; else go
\* on to the word below.
Load ==
    /\ pc \in {"first", "load"}
    /\ LET y == {i \in xbs : WordOf(i) = word} IN
       IF y # {} THEN pc' = "clear" /\ x' = y /\ UNCHANGED word
       ELSE /\ pc' = IF pc = "first" \/ word = 0 THEN "alloc" ELSE "load"
            /\ word' = IF pc = "first" \/ word = 0 THEN word ELSE word - 1
            /\ UNCHANGED x
    /\ UNCHANGED <<bit, bs, xbs, want, histVars>>

\* A bug: what lies behind the objects that were collected is not looked at.
ClearLowers ==
    /\ pc = "clear"
    /\ xbs' = xbs \ x /\ bs' = bs \ x
    /\ Forgotten(x)
    /\ \E lsb \in x :
          /\ \A i \in x : lsb <= i
          /\ bit' = IF bs \ x = {} THEN 0 ELSE lsb
    /\ pc' = IF bit' = 0 \/ word = 0 THEN "alloc" ELSE "load"
    /\ word' = IF pc' = "load" THEN word - 1 ELSE word
    /\ x' = {}
    /\ UNCHANGED <<want, live>>

\* Take what was loaded out of both bitmaps, and lower _bit if all that lies
\* behind is free; then there is reason to look at the word below.
Clear ==
    /\ pc = "clear"
    /\ xbs' = xbs \ x /\ bs' = bs \ x
    /\ Forgotten(x)
    /\ \E lsb \in x :
          /\ \A i \in x : lsb <= i
          /\ bit' = Lowered(bs \ x, lsb)
          /\ pc' = IF (\E r \in bs \ x : r >= lsb) \/ bit' = 0 \/ word = 0
                   THEN "alloc" ELSE "load"
    /\ word' = IF pc' = "load" THEN word - 1 ELSE word
    /\ x' = {}
    /\ UNCHANGED <<want, live>>

\* The allocation, if it fits now.
HardAlloc ==
    /\ pc = "alloc"
    /\ pc' = "out"
    /\ \/ HandOut(bit, want, want, 1)
       \/ bit + want > MaxBit /\ UNCHANGED <<bit, bs, histVars>>
    /\ word' = 0 /\ want' = 0
    /\ UNCHANGED <<xbs, x>>

Next ==
    \/ \E n \in Size : Alloc(n) \/ TryHard(n) \/ \E a \in Align : AllocAligned(n, a)
    \/ \E i \in Unit : Free(i) \/ XFree(i) \/ \E n \in Size : Realloc(i, n)
    \/ Load \/ Clear \/ HardAlloc

Spec == Init /\ [][Next]_vars

-----------------------------------------------------------------------------
\* The type of every variable.
TypeOK ==
    /\ bit \in 0..MaxBit
    /\ bs \subseteq Unit /\ xbs \subseteq Unit /\ live \subseteq Unit /\ x \subseteq Unit
    /\ pc \in {"out", "first", "load", "clear", "alloc"}
    /\ word \in Nat /\ want \in Size \cup {0}
    /\ len \in [Unit -> Nat] /\ asked \in [Unit -> Nat] /\ aln \in [Unit -> Nat \ {0}]

\* The bitmap marks the objects in use and those another thread has freed, and
\* nothing else; what is collected was freed; and a block whose bitmap is empty
\* starts over, with no bit in _xbs - which is how it is recycled.
Marks ==
    /\ bs = live \cup xbs /\ live \cap xbs = {}
    /\ x \subseteq xbs
    /\ bs = {} => bit = 0

\* The objects the bitmap marks lie below _bit, one behind the other.
Apart ==
    /\ \A i \in bs : len[i] > 0 /\ i + len[i] <= bit
    /\ \A i, j \in bs : i < j => i + len[i] <= j

BitsExact == Marks /\ Apart

\* The block is an arena: an object it hands out overlaps none that is in use,
\* wherever the owner and the other threads are in freeing.
ObjectsInUse == [i \in live |-> [n |-> len[i], a |-> aln[i]]]

InUse == INSTANCE Arena WITH
    obj <- ObjectsInUse, Size <- 1..MaxBit, Align <- Align \cup {1}

ImplementsArena == InUse!Spec
=============================================================================
