---------------------------- MODULE ThreadAlloc ----------------------------
(***************************************************************************)
(* The blocks of the allocator (mem/src/mem.cc): a ThreadAlloc for every   *)
(* thread keeps lists of small blocks (SmallAlloc, which serve small       *)
(* objects), of large blocks that are cut into small ones (LargeBlock) and *)
(* of large blocks that serve large objects (LargeAlloc); GlobalAlloc      *)
(* keeps a list of huge blocks (HugeBlock), which are cut into large ones. *)
(* It is shared by the threads whose ids fall on the same entry of its     *)
(* array.  A block serves from the front of its list; when that is full, a *)
(* few of those behind are tried, and then there is a new block.  A block  *)
(* that is empty goes back, unless it is the front.                        *)
(*                                                                         *)
(* Within a block, SmallBlock says what happens; here its bitmaps have one *)
(* word and collecting what others have freed is one step.  The lists of a *)
(* thread are its own and GlobalAlloc is locked, so every call is a step.  *)
(* Objects of more than g_max_alloc_size go to malloc.                     *)
(***************************************************************************)
EXTENDS Naturals, SequencesExt

CONSTANTS
    Thread, None,
    Huge,      \* the huge blocks the system can give: their addresses
    PerHuge,   \* large blocks in a huge one
    PerLarge,  \* small blocks in a large one
    Units,     \* units of an object in a small block, and in a LargeAlloc
    Tries, HugeTries, \* how many blocks behind the front are tried
    Kinds,     \* bound: the sizes each thread allocates, of "small" and "large"
    MaxMarked  \* bound: objects in use, or freed by another thread and not collected

\* An address is no large block.
ASSUME AllocAssumption ==
    /\ None \notin Thread
    /\ PerHuge \in Nat \ {0} /\ PerLarge \in Nat \ {0} /\ Units \in Nat \ {0}
    /\ Tries \in Nat /\ HugeTries \in Nat
    /\ Huge \cap (Huge \X (1..PerHuge)) = {}

Large == Huge \X (1..PerHuge)
Small == Large \X (1..PerLarge)
Block == Small \cup Large

VARIABLES
    lhb, hbits,  \* GlobalAlloc: its list, and _bits of the huge blocks
    llb, lbits,  \* ThreadAlloc::_llb, and _bits of the large blocks
    lsa, lla,    \* ThreadAlloc::_lsa, _lla
    blk,         \* SmallAlloc and LargeAlloc: _bit, _bs, _xbs, _ta
    inUse         \* history: the objects in use, <<block, first unit, units>>

allocVars == <<lhb, hbits, llb, lbits, lsa, lla, blk, inUse>>

Blank == [bit |-> 0, bs |-> {}, xbs |-> {}, ta |-> None]
Empty(b) == blk[b].bs = {}

AllocInit ==
    /\ lhb = <<>> /\ hbits = [h \in Huge |-> {}]
    /\ llb = [t \in Thread |-> <<>>] /\ lbits = [b \in Large |-> {}]
    /\ lsa = [t \in Thread |-> <<>>] /\ lla = [t \in Thread |-> <<>>]
    /\ blk = [b \in Block |-> Blank]
    /\ inUse = {}

Lowest(S) == CHOOSE i \in S : \A j \in S : i <= j

-----------------------------------------------------------------------------
(***************************************************************************)
(* _try_alloc: the front goes to the back, and up to n of the others are   *)
(* tried.  The one that serves becomes the front.                          *)
(***************************************************************************)
Behind(l, n) == 2..(IF Len(l) <= n THEN Len(l) ELSE n + 1)

\* The position of the first of those that can serve, 0 if none is tried.
Server(l, n, able) ==
    LET S == {i \in Behind(l, n) : l[i] \in able}
    IN  IF l # <<>> /\ l[1] \in able THEN 1 ELSE IF S = {} THEN 0 ELSE Lowest(S)

Reordered(l, k) ==
    IF k = 1 \/ Len(l) < 2 THEN l
    ELSE LET back == Append(Tail(l), Head(l))
         IN  IF k = 0 THEN back ELSE <<l[k]>> \o RemoveAt(back, k - 1)

\* erase()
Drop(l, b) == RemoveAt(l, CHOOSE i \in DOMAIN l : l[i] = b)

-----------------------------------------------------------------------------
(***************************************************************************)
(* GlobalAlloc                                                             *)
(***************************************************************************)
HasSlot == {h \in Huge : hbits[h] # 1..PerHuge}

\* The lowest slot of a huge block.
Slot(h) == Lowest(1..PerHuge \ hbits[h])

\* GlobalAlloc::alloc of the large block b: from a huge block of the list, or
\* a new one.
TakeLarge(b) ==
    LET k == Server(lhb, HugeTries, HasSlot)
        l == Reordered(lhb, k)
    IN  /\ IF k # 0
           THEN lhb' = l /\ b[1] = l[1]
           ELSE b[1] \notin Range(lhb) /\ lhb' = <<b[1]>> \o l
        /\ b[2] = Slot(b[1])
        /\ hbits' = [hbits EXCEPT ![b[1]] = @ \cup {b[2]}]

\* No large block can be had: the system has no memory left.
NoLarge ==
    /\ Server(lhb, HugeTries, HasSlot) = 0
    /\ lhb' = Reordered(lhb, 0)
    /\ UNCHANGED hbits

\* GlobalAlloc::free
GiveLarge(b) ==
    LET h == b[1] IN
    /\ hbits' = [hbits EXCEPT ![h] = @ \ {b[2]}]
    /\ lhb' = IF hbits'[h] = {} /\ h # lhb[1] THEN Drop(lhb, h) ELSE lhb

-----------------------------------------------------------------------------
(***************************************************************************)
(* Within a block                                                          *)
(***************************************************************************)
\* A bug: _bit is left where the last object began.
BitToHole(r, rest, i) == IF \E j \in rest : j >= i THEN r.bit ELSE i

\* _bit when what began at i was freed.
LoweredBit(r, rest, i) == IF \E j \in rest : j >= i THEN r.bit ELSE IF rest = {} THEN 0 ELSE i

\* What try_hard_alloc leaves of a block before it allocates.
Collected(r) ==
    IF r.xbs = {} THEN r
    ELSE [r EXCEPT !.bs = @ \ r.xbs, !.xbs = {}, !.bit = LoweredBit(r, r.bs \ r.xbs, Lowest(r.xbs))]

Fits(r, n) == r.bit + n <= Units
With(r, n) == [r EXCEPT !.bs = @ \cup {r.bit}, !.bit = @ + n]

\* The blocks of l after a search that ended at position k.
Searched(l, k) ==
    LET tried == {l[i] : i \in Behind(l, IF k = 0 THEN Tries ELSE k - 1)}
        done == IF k = 1 THEN {} ELSE tried
    IN  [b \in Block |-> IF b \in done THEN Collected(blk[b]) ELSE blk[b]]

Uses(b, r, n) == inUse' = inUse \cup {<<b, r.bit, n>>}

\* n units in a block of l, which has them.
Serve(l, n, k) ==
    LET f == Searched(l, k) IN
    /\ blk' = [f EXCEPT ![l[k]] = With(@, n)]
    /\ Uses(l[k], f[l[k]], n)

FrontFits(l, n) == l # <<>> /\ Fits(blk[l[1]], n)

\* Which block of l has room for n units.
ServerFor(l, n) ==
    IF FrontFits(l, n) THEN 1
    ELSE LET S == {i \in Behind(l, Tries) : Fits(Collected(blk[l[i]]), n)}
         IN  IF S = {} THEN 0 ELSE Lowest(S)

\* The new block b serves n units; it is not initialised, but for _ta.
ServeNew(t, b, n, f) ==
    /\ blk' = [f EXCEPT ![b] = [With(@, n) EXCEPT !.ta = t]]
    /\ Uses(b, f[b], n)

-----------------------------------------------------------------------------
(***************************************************************************)
(* ThreadAlloc                                                             *)
(***************************************************************************)
More == Cardinality(UNION {{b} \X blk[b].bs : b \in Block}) < MaxMarked

\* alloc() of a small object, from a small block of the list.
AllocSmall(t, n) ==
    LET l == lsa[t]
        k == ServerFor(l, n)
    IN  /\ More /\ k # 0
        /\ Serve(l, n, k)
        /\ lsa' = [lsa EXCEPT ![t] = Reordered(l, k)]
        /\ UNCHANGED <<lhb, hbits, llb, lbits, lla>>

\* The small block b is cut from the large block b[1].
Cut(b) ==
    /\ b[2] = Lowest(1..PerLarge \ lbits[b[1]])
    /\ lbits' = [lbits EXCEPT ![b[1]] = @ \cup {b[2]}]

Whole == {b \in Large : lbits[b] # 1..PerLarge}

\* What small blocks an alloc() has tried for n units in vain, and the list it
\* leaves; the aligned one tries the front only.
Failed(t, n, aligned) ==
    IF aligned THEN ~FrontFits(lsa[t], n) ELSE ServerFor(lsa[t], n) = 0
LeftBlocks(t, aligned) == IF aligned THEN blk ELSE Searched(lsa[t], 0)
LeftList(t, aligned) == IF aligned THEN lsa[t] ELSE Reordered(lsa[t], 0)

\* ... from a small block b that is new, cut from a large one of the list,
Cuts(t, n, b, aligned) ==
    LET k == Server(llb[t], Tries, Whole) IN
    /\ k # 0 /\ b[1] = llb[t][k]
    /\ Cut(b)
    /\ llb' = [llb EXCEPT ![t] = Reordered(@, k)]
    /\ lsa' = [lsa EXCEPT ![t] = <<b>> \o LeftList(t, aligned)]
    /\ ServeNew(t, b, n, LeftBlocks(t, aligned))
    /\ UNCHANGED <<lhb, hbits, lla>>

\* ... or from a large one that is new, too,
CutsNew(t, n, b, aligned) ==
    /\ Server(llb[t], Tries, Whole) = 0
    /\ TakeLarge(b[1])
    /\ Cut(b)
    /\ llb' = [llb EXCEPT ![t] = <<b[1]>> \o Reordered(@, 0)]
    /\ lsa' = [lsa EXCEPT ![t] = <<b>> \o LeftList(t, aligned)]
    /\ ServeNew(t, b, n, LeftBlocks(t, aligned))
    /\ UNCHANGED lla

\* ... or from none.
CutsNone(t, aligned) ==
    /\ Server(llb[t], Tries, Whole) = 0
    /\ NoLarge
    /\ llb' = [llb EXCEPT ![t] = Reordered(@, 0)]
    /\ lsa' = [lsa EXCEPT ![t] = LeftList(t, aligned)]
    /\ blk' = LeftBlocks(t, aligned)
    /\ UNCHANGED <<lbits, lla, inUse>>

AllocCut(t, n, aligned) ==
    /\ More /\ Failed(t, n, aligned)
    /\ CutsNone(t, aligned) \/ \E b \in Small : Cuts(t, n, b, aligned) \/ CutsNew(t, n, b, aligned)

\* alloc(n, align) of a small object, from the front of the list.
AllocSmallAligned(t, n) ==
    /\ More /\ FrontFits(lsa[t], n)
    /\ Serve(lsa[t], n, 1)
    /\ UNCHANGED <<lhb, hbits, llb, lbits, lsa, lla>>

\* alloc() of a large object: from a LargeAlloc of the list,
AllocLarge(t, n) ==
    LET l == lla[t]
        k == ServerFor(l, n)
    IN  /\ More /\ k # 0
        /\ Serve(l, n, k)
        /\ lla' = [lla EXCEPT ![t] = Reordered(l, k)]
        /\ UNCHANGED <<lhb, hbits, llb, lbits, lsa>>

\* ... from a new one, or from none.
AllocLargeNew(t, n) ==
    /\ More /\ ServerFor(lla[t], n) = 0
    /\ \/ \E b \in Large :
             /\ TakeLarge(b)
             /\ lla' = [lla EXCEPT ![t] = <<b>> \o Reordered(@, 0)]
             /\ ServeNew(t, b, n, Searched(lla[t], 0))
       \/ /\ NoLarge
          /\ lla' = [lla EXCEPT ![t] = Reordered(@, 0)]
          /\ blk' = Searched(lla[t], 0)
          /\ UNCHANGED inUse
    /\ UNCHANGED <<llb, lbits, lsa>>

Freed(r, i) == [r EXCEPT !.bs = @ \ {i}, !.bit = LoweredBit(r, r.bs \ {i}, i)]

\* A bug: the block goes back only when its first object goes last.
EmptiedAtStart(r, i) == r.bs = {0} /\ i = 0

\* SmallAlloc::free and LargeAlloc::free say that the block is empty now.
Emptied(r, i) == r.bs = {i}

\* A large block that goes back is decommitted: it and its small blocks are
\* all zeros.
Zeroed(f, b) == [a \in Block |-> IF a = b \/ (a \in Small /\ a[1] = b) THEN Blank ELSE f[a]]

\* free() of a small object by its thread: an empty small block goes back to
\* its large one, and that to its huge one.  Nobody reads the _ta it leaves.
FreeSmall(t, o) ==
    LET b == o[1]
        goes == Emptied(blk[b], o[2]) /\ b # lsa[t][1]
        f == [blk EXCEPT ![b] = IF goes THEN [Freed(@, o[2]) EXCEPT !.ta = None] ELSE Freed(@, o[2])]
        last == lbits[b[1]] = {b[2]} /\ b[1] # llb[t][1]
    IN  /\ o \in inUse /\ b \in Small /\ blk[b].ta = t
        /\ inUse' = inUse \ {o}
        /\ lsa' = IF goes THEN [lsa EXCEPT ![t] = Drop(@, b)] ELSE lsa
        /\ lbits' = IF goes THEN [lbits EXCEPT ![b[1]] = @ \ {b[2]}] ELSE lbits
        /\ IF goes /\ last
           THEN /\ llb' = [llb EXCEPT ![t] = Drop(@, b[1])]
                /\ GiveLarge(b[1])
                /\ blk' = Zeroed(f, b[1])
           ELSE UNCHANGED <<llb, lhb, hbits>> /\ blk' = f
        /\ UNCHANGED <<lla>>

\* free() of a large object by its thread.
FreeLarge(t, o) ==
    LET b == o[1]
        f == [blk EXCEPT ![b] = Freed(@, o[2])]
    IN  /\ o \in inUse /\ b \in Large /\ blk[b].ta = t
        /\ inUse' = inUse \ {o}
        /\ IF Emptied(blk[b], o[2]) /\ b # lla[t][1]
           THEN /\ lla' = [lla EXCEPT ![t] = Drop(@, b)]
                /\ GiveLarge(b)
                /\ blk' = Zeroed(f, b)
           ELSE UNCHANGED <<lla, lhb, hbits>> /\ blk' = f
        /\ UNCHANGED <<lsa, llb, lbits>>

\* free() by another thread.
FreeElsewhere(t, o) ==
    /\ o \in inUse /\ blk[o[1]].ta # t
    /\ inUse' = inUse \ {o}
    /\ blk' = [blk EXCEPT ![o[1]].xbs = @ \cup {o[2]}]
    /\ UNCHANGED <<lhb, hbits, llb, lbits, lsa, lla>>

\* realloc() of an object in the front of a list grows it in place if it is the
\* last; else it is alloc() and free().
ReallocInPlace(t, o, n) ==
    LET b == o[1] IN
    /\ o \in inUse /\ n > o[3]
    /\ b \in {l[1] : l \in {lsa[t], lla[t]} \ {<<>>}}
    /\ blk[b].bit = o[2] + o[3] /\ o[2] + n <= Units
    /\ blk' = [blk EXCEPT ![b].bit = o[2] + n]
    /\ inUse' = (inUse \ {o}) \cup {<<b, o[2], n>>}
    /\ UNCHANGED <<lhb, hbits, llb, lbits, lsa, lla>>

AllocNext ==
    \E t \in Thread :
       \/ \E n \in 1..Units :
             \/ /\ "small" \in Kinds[t]
                /\ \/ AllocSmall(t, n) \/ AllocSmallAligned(t, n)
                   \/ \E aligned \in BOOLEAN : AllocCut(t, n, aligned)
             \/ /\ "large" \in Kinds[t]
                /\ \/ AllocLarge(t, n) \/ AllocLargeNew(t, n)
       \/ \E o \in inUse : \/ FreeSmall(t, o) \/ FreeLarge(t, o) \/ FreeElsewhere(t, o)
                          \/ \E n \in 1..Units : ReallocInPlace(t, o, n)

AllocSpec == AllocInit /\ [][AllocNext]_allocVars

-----------------------------------------------------------------------------
Lists == {lsa[t] : t \in Thread} \cup {llb[t] : t \in Thread} \cup {lla[t] : t \in Thread} \cup {lhb}

\* Every block is in one list as long as its parent has its bit set, and in
\* none otherwise; and every object in use lies in a block of its thread.
BlocksListed ==
    /\ \A l \in Lists : IsInjective(l)
    /\ \A b \in Large :
          Cardinality({t \in Thread : b \in Range(llb[t])}) + Cardinality({t \in Thread : b \in Range(lla[t])})
             = IF b[2] \in hbits[b[1]] THEN 1 ELSE 0
    /\ \A h \in Huge : h \notin Range(lhb) => hbits[h] = {}
    /\ \A b \in Small : \A t \in Thread :
          b \in Range(lsa[t]) <=> b[2] \in lbits[b[1]] /\ b[1] \in Range(llb[t])
    /\ \A o \in inUse : o[1] \in Range(lsa[blk[o[1]].ta]) \cup Range(lla[blk[o[1]].ta])
    /\ \A o, p \in inUse : o[1] = p[1] /\ o # p => o[2] + o[3] <= p[2] \/ p[2] + p[3] <= o[2]

\* A block that is handed out again is not initialised: it must have been left
\* blank, in both bitmaps.
FreeBlocksBlank ==
    /\ \A b \in Block : (\A t \in Thread : b \notin Range(lsa[t]) \cup Range(lla[t])) => blk[b] = Blank
    /\ \A b \in Large : (\A t \in Thread : b \notin Range(llb[t])) => lbits[b] = {}

\* try_hard_alloc() looks for the last word of the bitmap with a bit, and has no
\* other bound: the blocks behind the front of a list are not empty.
TriedBlocksInUse ==
    \A t \in Thread : \A l \in {lsa[t], lla[t]} : \A i \in 2..Len(l) : ~Empty(l[i])

\* No block is lost, in two places, or given back while in use, and
\* try_hard_alloc() is called for blocks that are not empty.
BlocksAccounted == BlocksListed /\ FreeBlocksBlank /\ TriedBlocksInUse
=============================================================================
